----------------------------- MODULE HostBoost -----------------------------
(***************************************************************************)
(* battery_power.cpp: the handheld supplies its own USB port from the      *)
(* BQ25896 charger turned into a boost converter.  The firmware borrows    *)
(* the chip (start_host_boost), watches it (battery_service) and gives it  *)
(* back (stop_host_boost) before it charges again or cuts the battery off. *)
(* Each write on the I2C bus is a step of its own; a call that fails may   *)
(* still have reached the chip, and the chip changes between any two.      *)
(*                                                                         *)
(* The chip (external) is modelled by what the code relies on: one write   *)
(* sets a register at once, the converter starts and stops some time after *)
(* its enable bit changes and may give up by itself, and a register reset  *)
(* clears that bit and enables charging.  What else the firmware reads -   *)
(* faults, the battery, an outside supply, drift of the charging profile - *)
(* is any value.                                                           *)
(***************************************************************************)
VARIABLES
  \* the chip
  otg,          \* REG03 OTG_CONFIG: the converter is enabled
  chg,          \* REG03 CHG_CONFIG: charging is enabled
  sourcing,     \* REG0B reads VBUS_STAT = OTG: the rail is being supplied
  running_down, \* ... by a converter that a register reset has disabled (history)
  host_regs,    \* which of REG0A ("boost") and REG02 ("adc") hold host values
  healed,       \* the bus has stopped failing (history: it never fails again)
  \* the firmware
  pc,           \* the next register access of the running call
  powering_off, \* enter_power_off has begun
  charger_ready, host_boost_active, host_boost_fault_latched, host_snapshot_valid,
  saved         \* g_saved_boost, g_saved_adc: the host registers found at the start

chip == <<otg, chg, sourcing, running_down, host_regs, healed>>
flags == <<charger_ready, host_boost_active, host_boost_fault_latched, host_snapshot_valid>>
boost_vars == <<chip, pc, powering_off, flags, saved>>

HostRegs == {"boost", "adc"}

\* A write is done, is lost, or reaches the chip and is reported as failed.
Outcomes == IF healed THEN {"done"} ELSE {"done", "lost", "unconfirmed"}
Reads == IF healed THEN {"done"} ELSE {"done", "lost"}
Reached(outcome) == outcome # "lost"

BoostInit ==
  /\ otg = FALSE /\ chg = TRUE /\ sourcing = FALSE /\ running_down = FALSE
  /\ host_regs = {}
  /\ healed = FALSE
  /\ pc = "boot"
  /\ powering_off = FALSE
  /\ charger_ready = FALSE
  /\ host_boost_active = FALSE
  /\ host_boost_fault_latched = FALSE
  /\ host_snapshot_valid = FALSE
  /\ saved = {}

-----------------------------------------------------------------------------
(* How a call goes on.  Every failure while the chip is borrowed latches.  *)

Latch(failure) ==
  host_boost_fault_latched' = IF failure THEN TRUE ELSE host_boost_fault_latched

GivenUp == IF powering_off THEN "asleep" ELSE "idle"

Continue(outcome, next, failed) ==
  /\ pc' = IF outcome = "done" THEN next ELSE failed
  /\ Latch(host_boost_active /\ outcome # "done")

-----------------------------------------------------------------------------
(* battery_begin and configure_charger.  g_charger_ready is set before the *)
(* profile is restored and cleared again if that fails; only this task     *)
(* reads it, so it is set here once both have succeeded.                   *)

\* battery_begin, and the retry of battery_service: is the charger there?
Probe ==
  /\ pc = "boot" \/ (pc = "idle" /\ ~charger_ready)
  /\ \E outcome \in Reads : pc' = IF outcome = "done" THEN "reset" ELSE "idle"
  /\ UNCHANGED <<chip, powering_off, flags, saved>>

\* bq25896_init: a register reset, then settings the model does not tell apart.
ResetCharger ==
  /\ pc = "reset"
  /\ \E outcome \in Outcomes :
       /\ IF Reached(outcome)
          THEN otg' = FALSE /\ running_down' = sourcing /\ chg' = TRUE /\ host_regs' = {}
          ELSE UNCHANGED <<otg, running_down, chg, host_regs>>
       /\ pc' = IF outcome = "done" THEN "restore_otg" ELSE "idle"
  /\ UNCHANGED <<sourcing, healed, powering_off, flags, saved>>

-----------------------------------------------------------------------------
(* restore_charger_profile: of configure_charger, of stop_host_boost and of *)
(* battery_service when it finds the profile changed.                       *)

RestoreOtg ==
  /\ pc = "restore_otg"
  /\ \E outcome \in Outcomes :
       /\ otg' = IF Reached(outcome) THEN FALSE ELSE otg
       /\ Continue(outcome, "restore_limits", GivenUp)
  /\ UNCHANGED <<chg, sourcing, running_down, host_regs, healed, powering_off, charger_ready,
                 host_boost_active, host_snapshot_valid, saved>>

\* The power path and the limits.
RestoreLimits ==
  /\ pc = "restore_limits"
  /\ \E outcome \in Reads : Continue(outcome, "restore_charge", GivenUp)
  /\ UNCHANGED <<chip, powering_off, charger_ready, host_boost_active,
                 host_snapshot_valid, saved>>

\* Configuring ends with an attempt to start the boost, stopping with a check.
RestoreCharge ==
  /\ pc = "restore_charge"
  /\ \E outcome \in Outcomes :
       /\ chg' = IF Reached(outcome) THEN TRUE ELSE chg
       /\ Continue(outcome, IF host_boost_active THEN "read_back"
                            ELSE IF charger_ready THEN "idle" ELSE "start", GivenUp)
       /\ charger_ready' = IF outcome = "done" THEN TRUE ELSE charger_ready
  /\ UNCHANGED <<otg, sourcing, running_down, host_regs, healed, powering_off,
                 host_boost_active, host_snapshot_valid, saved>>

-----------------------------------------------------------------------------
(* start_host_boost                                                        *)

\* Preflight, battery check and snapshot; any of them may call it off.  The
\* chip counts as borrowed before the first write.
Start ==
  /\ pc = "start"
  /\ \/ /\ pc' = "idle"
        /\ UNCHANGED <<host_boost_active, host_snapshot_valid, saved>>
     \/ /\ ~host_boost_active /\ ~host_boost_fault_latched
        /\ ~sourcing /\ ~otg
        /\ host_boost_active' = TRUE
        /\ host_snapshot_valid' = TRUE
        /\ saved' = host_regs
        /\ pc' = "write_boost"
  /\ UNCHANGED <<chip, powering_off, charger_ready, host_boost_fault_latched>>

SetHostReg(reg, next) ==
  /\ \E outcome \in Outcomes :
       /\ host_regs' = IF Reached(outcome) THEN host_regs \union {reg} ELSE host_regs
       /\ Continue(outcome, next, "stop")
  /\ UNCHANGED <<otg, chg, sourcing, running_down, healed, powering_off, charger_ready,
                 host_boost_active, host_snapshot_valid, saved>>

WriteBoost == pc = "write_boost" /\ SetHostReg("boost", "write_adc")
WriteAdc == pc = "write_adc" /\ SetHostReg("adc", "write_power")

\* One write of REG03 stops charging and enables the converter.
WritePower ==
  /\ pc = "write_power"
  /\ \E outcome \in Outcomes :
       /\ IF Reached(outcome) THEN otg' = TRUE /\ chg' = FALSE ELSE UNCHANGED <<otg, chg>>
       /\ Continue(outcome, "verify", "stop")
  /\ UNCHANGED <<sourcing, running_down, host_regs, healed, powering_off, charger_ready,
                 host_boost_active, host_snapshot_valid, saved>>

\* verify_host_boost: the rail comes up in time, or something is wrong.
Verify ==
  /\ pc = "verify"
  /\ \/ otg /\ sourcing /\ Continue("done", "idle", "stop")
     \/ Continue("lost", "idle", "stop")
  /\ UNCHANGED <<chip, powering_off, charger_ready, host_boost_active,
                 host_snapshot_valid, saved>>

-----------------------------------------------------------------------------
(* stop_host_boost                                                         *)

\* Mutant: a failed write clears the mark as well.
StopForgets ==
  /\ pc = "stop"
  /\ \E outcome \in Outcomes :
       /\ IF Reached(outcome) THEN otg' = FALSE /\ chg' = FALSE ELSE UNCHANGED <<otg, chg>>
       /\ Continue(outcome, "poll", GivenUp)
       /\ host_boost_active' = (outcome = "done")
       /\ host_snapshot_valid' = (outcome = "done")
  /\ UNCHANGED <<sourcing, running_down, host_regs, healed, powering_off, charger_ready, saved>>

\* One write of REG03 disables the converter and leaves charging off.
Stop ==
  /\ pc = "stop"
  /\ \E outcome \in IF charger_ready /\ host_snapshot_valid THEN Outcomes ELSE {"lost"} :
       /\ IF Reached(outcome) THEN otg' = FALSE /\ chg' = FALSE ELSE UNCHANGED <<otg, chg>>
       /\ Continue(outcome, "poll", GivenUp)
  /\ UNCHANGED <<sourcing, running_down, host_regs, healed, powering_off, charger_ready,
                 host_boost_active, host_snapshot_valid, saved>>

RailIsOff == ~otg /\ ~sourcing

\* Wait for proof that the rail is off; time out, or fail to read it.
PollRail ==
  /\ pc = "poll"
  /\ \/ RailIsOff /\ Continue("done", "put_boost", GivenUp)
     \/ (~RailIsOff \/ ~healed) /\ Continue("lost", "put_boost", GivenUp)
  /\ UNCHANGED <<chip, powering_off, charger_ready, host_boost_active,
                 host_snapshot_valid, saved>>

PutBack(reg, next) ==
  /\ \E outcome \in Outcomes :
       /\ host_regs' = IF Reached(outcome) THEN (host_regs \ {reg}) \union (saved \intersect {reg})
                                           ELSE host_regs
       /\ Continue(outcome, next, GivenUp)
  /\ UNCHANGED <<otg, chg, sourcing, running_down, healed, powering_off, charger_ready,
                 host_boost_active, host_snapshot_valid, saved>>

PutBoost == pc = "put_boost" /\ PutBack("boost", "put_adc")
PutAdc == pc = "put_adc" /\ PutBack("adc", "restore_otg")

\* Mutant: a release clears the latch, and the next pass starts again.
ReadBackClearsLatch ==
  /\ pc = "read_back"
  /\ RailIsOff /\ host_regs = saved
  /\ host_boost_active' = FALSE
  /\ host_snapshot_valid' = FALSE
  /\ host_boost_fault_latched' = FALSE
  /\ pc' = IF powering_off THEN "check" ELSE "idle"
  /\ UNCHANGED <<chip, powering_off, charger_ready, saved>>

\* The last look at the chip: rail, enable bit and both registers.
ReadBack ==
  /\ pc = "read_back"
  /\ \/ /\ RailIsOff /\ host_regs = saved
        /\ host_boost_active' = FALSE
        /\ host_snapshot_valid' = FALSE
        /\ Continue("done", IF powering_off THEN "check" ELSE "idle", GivenUp)
     \/ /\ ~healed \/ ~RailIsOff \/ host_regs # saved
        /\ Continue("lost", "idle", GivenUp)
        /\ UNCHANGED <<host_boost_active, host_snapshot_valid>>
  /\ UNCHANGED <<chip, powering_off, charger_ready, saved>>

-----------------------------------------------------------------------------
(* battery_service, once a second or once in thirty.  A pass that cannot   *)
(* read the chip, or finds nothing to do, changes nothing.                 *)

\* Mutant: a boost that was given up on is left alone.
HostModeLostOnce ==
  /\ pc = "idle" /\ charger_ready /\ host_boost_active
  /\ ~otg \/ ~sourcing
  /\ ~host_boost_fault_latched
  /\ pc' = "stop" /\ Latch(TRUE)
  /\ UNCHANGED <<chip, powering_off, charger_ready, host_boost_active,
                 host_snapshot_valid, saved>>

HostModeLost ==
  /\ pc = "idle" /\ charger_ready /\ host_boost_active
  /\ ~otg \/ ~sourcing
  /\ pc' = "stop" /\ Latch(TRUE)
  /\ UNCHANGED <<chip, powering_off, charger_ready, host_boost_active,
                 host_snapshot_valid, saved>>

\* A live fault, or a battery that is low or cannot be read.
BoostFault ==
  /\ pc = "idle" /\ charger_ready /\ host_boost_active
  /\ pc' = "stop" /\ Latch(TRUE)
  /\ UNCHANGED <<chip, powering_off, charger_ready, host_boost_active,
                 host_snapshot_valid, saved>>

\* No outside supply is seen: the port is supplied, now or at a later pass.
ServiceStart ==
  /\ pc = "idle" /\ charger_ready /\ ~host_boost_active
  /\ ~host_boost_fault_latched
  /\ pc' = "start"
  /\ UNCHANGED <<chip, powering_off, flags, saved>>

\* An outside supply is seen, or the boost is given up: charging is looked after.
ServiceProfile ==
  /\ pc = "idle" /\ charger_ready /\ ~host_boost_active
  /\ ~(host_boost_fault_latched /\ host_snapshot_valid)
  /\ pc' = "restore_otg"
  /\ UNCHANGED <<chip, powering_off, flags, saved>>

-----------------------------------------------------------------------------
(* battery_request_shutdown, called by enter_power_off, which never        *)
(* returns: where the battery is not cut off it goes to deep sleep.        *)

PowerOff ==
  /\ pc = "idle"
  /\ powering_off' = TRUE
  /\ pc' = IF ~charger_ready THEN "asleep"
           ELSE IF host_boost_active THEN "stop" ELSE "check"
  /\ UNCHANGED <<chip, flags, saved>>

\* An outside supply, or none that can be read, leaves the battery connected.
CheckSupply ==
  /\ pc = "check"
  /\ pc' \in {"cut_otg", "asleep"}
  /\ UNCHANGED <<chip, powering_off, flags, saved>>

CutOtg ==
  /\ pc = "cut_otg"
  /\ \E outcome \in Outcomes :
       /\ otg' = IF Reached(outcome) THEN FALSE ELSE otg
       /\ pc' = IF outcome = "done" THEN "cut_charge" ELSE "asleep"
  /\ UNCHANGED <<chg, sourcing, running_down, host_regs, healed, powering_off, flags, saved>>

CutCharge ==
  /\ pc = "cut_charge"
  /\ \E outcome \in Outcomes :
       /\ chg' = IF Reached(outcome) THEN FALSE ELSE chg
       /\ pc' = IF outcome = "done" THEN "cut_battery" ELSE "asleep"
  /\ UNCHANGED <<otg, sourcing, running_down, host_regs, healed, powering_off, flags, saved>>

\* With the battery cut off only an outside supply keeps the board running.
CutBattery ==
  /\ pc = "cut_battery"
  /\ \E outcome \in Outcomes :
       pc' \in IF Reached(outcome) THEN {"off", "asleep"} ELSE {"asleep"}
  /\ UNCHANGED <<chip, powering_off, flags, saved>>

-----------------------------------------------------------------------------
(* What happens to the firmware and to the chip.                           *)

\* A reset, a crash, or a button that wakes or starts the board: RAM is lost,
\* the chip keeps its registers.
Restart ==
  /\ pc' = "boot"
  /\ powering_off' = FALSE
  /\ charger_ready' = FALSE
  /\ host_boost_active' = FALSE
  /\ host_boost_fault_latched' = FALSE
  /\ host_snapshot_valid' = FALSE
  /\ saved' = {}
  /\ UNCHANGED chip

ConverterStarts ==
  /\ otg /\ ~sourcing
  /\ sourcing' = TRUE
  /\ UNCHANGED <<otg, chg, running_down, host_regs, healed, pc, powering_off, flags, saved>>

ConverterStops ==
  /\ sourcing
  /\ sourcing' = FALSE
  /\ running_down' = FALSE
  /\ UNCHANGED <<otg, chg, host_regs, healed, pc, powering_off, flags, saved>>

\* A fault the chip itself answers by disabling the converter.
ConverterTrips ==
  /\ otg
  /\ otg' = FALSE
  /\ UNCHANGED <<chg, sourcing, running_down, host_regs, healed, pc, powering_off, flags, saved>>

BusHeals ==
  /\ ~healed
  /\ healed' = TRUE
  /\ UNCHANGED <<otg, chg, sourcing, running_down, host_regs, pc, powering_off, flags, saved>>

Restore == RestoreOtg \/ RestoreLimits \/ RestoreCharge
Borrow == Start \/ WriteBoost \/ WriteAdc \/ WritePower \/ Verify
Release == Stop \/ PollRail \/ PutBoost \/ PutAdc \/ ReadBack
Service == HostModeLost \/ BoostFault \/ ServiceStart \/ ServiceProfile
Cut == CheckSupply \/ CutOtg \/ CutCharge \/ CutBattery
Chip == ConverterStarts \/ ConverterStops \/ ConverterTrips \/ BusHeals

BoostNext ==
  \/ Probe \/ ResetCharger \/ Restore \/ Borrow \/ Release
  \/ Service \/ PowerOff \/ Cut
  \/ Restart \/ Chip

BoostSpec == BoostInit /\ [][BoostNext]_boost_vars

\* The console task runs; each turn of its loop services the battery, and a
\* disabled converter stops.  Nothing makes a fault or an outside supply appear.
Call == pc # "idle" /\ (Probe \/ ResetCharger \/ Restore \/ Borrow \/ Release \/ Cut)
BoostFairness ==
  /\ WF_boost_vars(Call)
  /\ WF_boost_vars(HostModeLost)
  /\ WF_boost_vars(~otg /\ ConverterStops)
FairBoostSpec == BoostSpec /\ BoostFairness

-----------------------------------------------------------------------------
Labels == {"boot", "reset", "restore_otg", "restore_limits", "restore_charge", "start",
           "write_boost", "write_adc", "write_power", "verify", "stop", "poll", "put_boost",
           "put_adc", "read_back", "idle", "check", "cut_otg", "cut_charge", "cut_battery",
           "asleep", "off"}

BoostTypeOK ==
  /\ otg \in BOOLEAN /\ chg \in BOOLEAN /\ sourcing \in BOOLEAN
  /\ running_down \in BOOLEAN /\ healed \in BOOLEAN
  /\ host_regs \subseteq HostRegs /\ saved \subseteq HostRegs
  /\ pc \in Labels
  /\ powering_off \in BOOLEAN
  /\ charger_ready \in BOOLEAN
  /\ host_boost_active \in BOOLEAN
  /\ host_boost_fault_latched \in BOOLEAN
  /\ host_snapshot_valid \in BOOLEAN

\* The converter at work, other than one that the reset at start-up has disabled
\* and that is still running down.
Supplying == otg \/ (sourcing /\ ~running_down)

\* A converter at work is one the firmware knows it has borrowed, whichever write
\* failed half way, once it has taken the charger over: somebody is left to stop it.
SourcingIsOwned == charger_ready /\ Supplying => host_boost_active

\* The battery is never charged while the port is being supplied from it,
\* whatever fails and whenever the board restarts.
NeverChargesWhileSourcing == ~(chg /\ Supplying)

\* The battery is cut off only after the rail was proven off.
CutsOnlyWhenOff == pc \in {"cut_otg", "cut_charge", "cut_battery", "off"} => ~Supplying

\* The chip is given back the way it was found: when the firmware stops counting
\* it as borrowed the rail is off, both host registers are restored, and the
\* board charges again.
ReleaseRestores ==
  [][host_boost_active /\ ~host_boost_active' /\ pc' # "boot"
     => RailIsOff /\ host_regs = {} /\ chg]_boost_vars

\* A fault is final until the board restarts: it is not forgotten, and nothing
\* enables the converter again ("without repeated restart attempts").
LatchIsFinal ==
  [][host_boost_fault_latched =>
       /\ host_boost_fault_latched' \/ pc' = "boot"
       /\ otg' => otg]_boost_vars

\* Nothing is done to the battery while the port is supplied from it, and somebody is
\* left to end that.
ConverterIsSafe == BoostTypeOK /\ SourcingIsOwned /\ NeverChargesWhileSourcing /\ CutsOnlyWhenOff

\* What the firmware gives back it gives back whole, and what it gave up on it leaves.
ChipIsReturned == ReleaseRestores /\ LatchIsFinal

\* A boost the chip has ended is given back once the bus works, unless the board
\* is switched off first: a release that failed is tried again.
LostBoostIsReleased ==
  (healed /\ pc = "idle" /\ host_boost_active /\ ~otg) ~> (~host_boost_active \/ powering_off)

=============================================================================
