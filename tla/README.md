# A verification development of T5S3-GameBoy

T5S3-GameBoy turns a LilyGo T5S3 (ESP32-S3, e-paper panel, touch screen, SD
card, battery, USB-C) into a handheld game console. These modules model the
parts of the firmware in which steps of several actors, failures, power cuts or
long sequences of calls can meet in an order nobody wrote a test for.
`PROJECT.json` maps every definition to the lines it stands for; names follow
the source. Paths below are relative to the repository, whose firmware is in
`src/` and whose second build, an ELF application for a host firmware, is in
`riscrte/`.

1. Inventory
2. What is modelled, and how it corresponds to the code
3. The runs: what they check, their bounds, the fairness they assume
4. The proofs
5. Where the code and its documents disagree
6. What is not modelled, and known limits
7. Plan

## 1. Inventory

The console is one FreeRTOS task (`setup`, then `run_console` in `main.cpp`,
core 0). Beside it run the panel's scan task (core 1) and the USB library and
client tasks. The battery service is called from the console loop. An audio
timer interrupt exists only in builds that name an output pin; the default
build names none. The ELF build has an owner task, which alone may talk to the
host firmware, and the console task, which asks it to.

| Part | State it keeps | Operations | What is hard | Correct when | Modules |
|---|---|---|---|---|---|
| Storage (`paperboy_storage.cpp`) | mount flag, last error; on the card each file with its `.tmp` and `.bak` | begin, end, file_exists, file_size, read_blob, write_blob_atomic | power cut or failure between two SD calls; recovery in later calls | old or new contents, never a mixture; success and "not found" are true | `DurableFile`, `AtomicStore` |
| Catalog and configuration (same file) | ordered list of ROMs, last ROM, sound engine | rescan, read_config, write_config | a full catalog; files of an older firmware or an editor | the least ROMs in order; what was written is read | `Catalog` |
| Panel driver (`epd_video.cpp`) | two buffers, front index, queue of one frame, dirty rows, pulse counters | start, get_backbuffer, flip, submit, can_submit, shutdown; scan task | unlocked reading of a buffer for a whole frame; queue against a running drive; a failed transmission | no tearing, no lost frame, idle means shown, waits end | `EpdVideo` |
| Panel procedures (`main.cpp` 600-700, 1330-1420, 1495-1499) | locals | start-up clear, first page, refresh, power-off page | they busy-wait on the driver | clears complete, power-off ends on the page | `PanelClient` |
| Console loop, drawing (`main.cpp` 1501-2029) | `full_scene_syncs`, `touch_scene_syncs`, touch rows, skip counters, page | one iteration of the loop | two buffers drawn by alternate frames with partial rows | both buffers get what changed, and the panel too | `ConsoleDisplay` |
| Geometry (`paperboy_ui.cpp`, `paperboy_landscape.cpp`, `paperboy_orientation.cpp`, `paperboy_touch_dirty.h`) | orientation, full screen | meaning of a touch, highlights, rows, rotations | four places know where a control is | they agree | `TouchMap` |
| Touch actions (`paperboy_ui.cpp` 640-790, `main.cpp` 1547-1839) | mask and times of the last actions, two marks that wait for a release, repeat | one poll per pass of the loop | a finger down while page or picture change under it; late reports; a clock that wraps | a finger acts once, and never on a page it was not put on | `Touches`, `Controllers` |
| Console loop, session (`main.cpp` 700-1330) | current and last ROM, quicksave, snapshot flags | launch, restore after a failed launch, save, load, rescan, power-off | several files and a RAM snapshot changed one after another, each may fail | no save lost or given to another game | `Session` |
| Power (`battery_power.cpp`) | charge and boost flags in plain RAM, lost at every restart while the chip keeps its registers | service, host boost start and stop, shutdown | chip writes that fail half way | never charging while sourcing; a borrowed chip is given back | `HostBoost` |
| USB host (`usb_hid_gamepad.cpp`) | one device, candidates, transfers in flight | client task and its callbacks | a device pulled with a transfer in flight, or plugged while another is closed | no transfer freed while submitted; every device has its turn | `UsbHost` |
| USB reports (`usb_hid_report.cpp`, `usb_hid_keyboard.cpp`, `usb_xinput_report.h`) | a layout per device | parse a descriptor, decode a report | the place of a field depends on everything before it | what the user holds is what is decoded | `HidReports`, `HidDevices` |
| Controllers (`snes_mini_controller.cpp`, `paperboy_controller_navigation.cpp`, the decoders) | chord, repeat and release state | one poll per pass of the loop | a key held across a page change; chords that share keys; a clock that wraps | no key acts twice | `Chords`, `Navigation`, `Controllers` |
| ELF port (`riscrte/`) | requests, leases, keyboard and pad state, the borrowed frame | owner calls, polling, acquire and release | two tasks, no shared lock; requests on the caller's stack; everything may be refused | one answer to each request, nothing held at the end, the session ends | `ElfInput`, `ElfSession` |
| Processor (`crankboy_core`) | registers, memory | the small interpreter that runs, the full one it is checked against, interrupts | flags at carries and borrows; interrupts looked at between batches only | both agree; programs cannot tell they were interrupted | `CpuMachine`, `CpuMicro`, `CpuFull`, `Cpu` |
| Display, timer, serial port (`crankboy_core`) | counters, STAT line | advance by a batch, sleep, register writes, `gb_run_frame` | batches longer than a tick; sleeps computed from every counter | frames whole, STAT true, nothing overslept | `Lcd`, `Timers`, `Devices` |
| Cartridges and emulator (`crankboy_core`, `gbemu.c`) | bank registers and the pointers cached from them, RAM, clock, EEPROM, status | bus accesses, snapshots, persistent images, reset, clock | cached pointers after any write, load or reset; a clock looked at rarely; refusals | the pointers are the registers', no second lost, a refusal changes nothing | `Cart`, `Rtc`, `Eeprom`, `Emulator` |
| Audio output, canvas, clock face, night light, touch chip, I/O expander, charger and fuel gauge libraries | small | set and read | little | - | none, see section 6 |

The hazards these parts are exposed to are listed in `PROJECT.json`, each at
its line with the properties that would notice it.

How the parts meet: `Session` takes a file as one value because
`AtomicStore` shows that it is one; `PanelClient` queues any frame that
satisfies `MayQueue`, which is what `ChromeOnBoth` of `ConsoleDisplay` grants;
`ConsoleDisplay` sends rows of a control, which `TouchMap` shows to be the rows
its highlight lies in; `UsbHost` decodes a report in one step, which is
`HidReports`; `Controllers` takes keys, which are what the two of them give;
`Session` treats a snapshot as one value and a refusal as no change, which is
what `Emulator` shows.

## 2. What is modelled, and how it corresponds to the code

### The card: `DurableFile`, `AtomicStore`, `Catalog`

`DurableFile` is the promise: a file has one value, a write changes it in one
step or not at all, a reply tells which. `AtomicStore` is the code:
`recover_atomic_target`, `write_blob_atomic`, `read_blob`, `file_size` and
`file_exists` with one action per call on the SD library. `target`, `backup` and
`temporary` are the three directory entries, `pc` the next SD call, `call` the
arguments, `result` what the caller sees. Every call may fail; `PowerCut` comes
between any two. `sd_misses` says whether `SD.exists` may overlook a file: it
returns false for an error as well. `KeepsThePromise` is the refinement: the
durable value is the target, or else the backup when there is no target.

`Catalog` has `insert_rom`, `scan_directory` and the two configuration calls as
operators on a directory tree and on lines of text. A ROM is its rank by name
and its rank by path, an entry the kind its name, type and size make of it.

### The panel: `EpdVideo`, `PanelClient`

`EpdVideo` has the driver's globals under their own names, the scan task
(`SwapBuffers`, one `ScanRow` per row, `EndRows`, `EndFrame`, `StopScan`) and
the calls as operators. What happens under `g_lock` is one action; what the
code reads or writes without the lock is not. A row is one pixel: pixels are
driven independently of each other. `panel` is the panel itself, the pulses each
row received. `PanelClient` is the driver's only client, the procedures of
`main.cpp`: start-up clear, first page, frames of the loop (any frame that
satisfies `MayQueue`, the rows left out being those on show), refresh,
power-off and shutdown.

### The drawing loop and the geometry: `ConsoleDisplay`, `TouchMap`

`ConsoleDisplay` is one iteration of `run_console` in six steps
(`PollChrome`/`PollTouch`, `ShowTouch`, `RefreshPage`, `Act`/`ChangeLayout`,
`Render`, the submits) over a driver reduced to its queue. A buffer is
abstracted to whether its chrome is up to date and which highlights it carries.
`TouchMap` is the pure geometry: points, rectangles and circles of the three
orientations with the numbers of the source, and what these owe each
other.

### The session: `Session`

Which cartridge runs and where its RAM is saved. A cartridge is its ROM, the set
of moments of play its RAM builds on, and the dirty mark. `pc` and `job` split
the operations that can fail between two durable effects: SAVE (persist,
configuration, snapshot), LOAD, launch with its low-memory swap (`SwapOut`,
`RetryFails`, `SwapBack`, `FallBack`, `RecoveryFails`), RESCAN, power-off. A
launch ends with `WriteConfig`; LOAD LAST first writes the RAM it restored
(`FlushLaunched`), LOAD does the same and ends there (`FlushRestored`).
`faults`, chosen once from `Profiles`, says which kinds of call may fail in a
behaviour.

### The boost: `HostBoost`

`start_host_boost`, `stop_host_boost`, `battery_service`, `configure_charger` and
`battery_request_shutdown` of `battery_power.cpp`, one action per register
write. A write is done, lost, or reaches the chip and is reported as failed.
The chip (`otg`, `chg`, `sourcing`, `host_regs`) is external: its converter
starts and stops some time after its enable bit, trips by itself, and a reset of
its registers enables charging. `Restart` clears the firmware's variables and
leaves the chip's.

### USB: `UsbHost`, `HidReports`, `HidDevices`

`UsbHost` is `client_task`: events are handled (each callback in turn), then
what they left behind is looked at. The record `g` holds the file's globals. The
host library is external: `control` and `interrupt` are the states of the two
transfers in its hands, `opened` the device it holds open for the client. Every
library call may fail, and the user plugs and unplugs at any step.

`HidReports` folds the items of a report descriptor exactly as the two parsers
do, with their limits, and decodes reports with the layout found. `HidDevices`
is the other side: devices built from blocks, what their descriptor says, and
what they send for what is held.

### Input: `Chords`, `Navigation`, `Touches`, `Controllers`

`Chords` has the three decoders (USB, USB of the ELF build, I2C), which keep a
chord alive until all its keys are up; `Navigation` the poll of the menus, with
its clock modulo `CLOCK`; `Touches` what `paperboy_ui.cpp` makes of fingers in a
pass: `MapActions`, `MapButtons` and `LayoutChanged` are its three functions, and
`TouchMap` tells what a point means on the page and in the orientation of the
moment. `Controllers` composes them. `Pass` is one pass of `run_console`: both
controllers are read, the touch screen answers with a new report, the last one or
none, chords become commands, keys and fingers become actions or keys of the
game, pages change and the picture turns. A player presses and releases, puts
fingers down, slides and lifts them between passes, and the I2C controller may be
lost. `old` and `spent` remember which fingers were there before the layout
changed, and which have already acted where they are.

### The ELF build: `ElfInput`, `ElfSession`

`ElfSession` is one run from `app_main` to its return. `owner` and `console`
are where the two tasks are; `gives` counts task notifications, `slot` and
`request` are the one slot of `paperboy_storage_host.cpp` and the request on the
caller's stack, `frame` and `canvas` the borrowed frame and the pointer into it.
`ElfInput` is the input adapter's globals as one record with its functions as
operators. The host firmware's providers, its compositor, and whoever presses
keys are external, and everything asked of them may be refused.

### The Game Boy: `Cpu*`, `Lcd`, `Timers`, `Devices`, `Cart`, `Rtc`, `Eeprom`,
`Emulator`

`CpuMicro` is the interpreter that runs, which decodes opcodes by their fields;
`CpuFull` is the reference, one case per opcode; both work on the machine of
`CpuMachine`. `Cpu` is `__gb_step_cpu`: an interrupt check, a batch of three
instructions, each followed by the countdown of EI and a check. `quiet` is the
same program without interrupts.

`Lcd` and `Timers` are the devices' parts of `__gb_step_cpu` and of the register
writes; `Devices` runs them under calls of `gb_run_frame`, with batches of
unequal length, or the sleep that `__gb_calc_halt_cycles` computes.

`Cart` has the bank registers of MBC1 (the multicart too), 2, 3, 5 and 7, the
pointers cached from them, and RAM through both paths; `Rtc` and `Eeprom` the
clock and the EEPROM of MBC7. `Emulator` is `gbemu.c` around them: a frame is
one thing the game does on the bus, and between frames come snapshots (good and
damaged), persistent images, resets, and time nobody looked at.

## 3. The runs

| Run | Question | Size | States |
|---|---|---|---|
| `atomic_store` | Is a file whole, are answers true, is the promise kept, with every failure and cut? Are catalog and configuration read right? | three contents; catalog of two, roots of up to three entries and directories of up to two; configuration files of up to three lines | 9 thousand |
| `panel` | Does any interleaving of client and scan task tear, lose or half drive a frame? Do waits end while the scan task lives? | two rows (a dirty and a clean one), three pulses (a change of direction may meet the first, a middle and the last), three clears, hold 3 | 0.3 million |
| `console` | Do both buffers and the panel end with the current chrome and highlights, whatever is touched? Do picture, touch and rows agree? | two controls (order of touches), a change of the page; every control, target, orientation, and touches every 5 pixels, no target being smaller than 30 (proved at all of them) | 2.2 million |
| `session` | Are saves, snapshots and sound kept with their game and never given up? | two games, two writes of RAM, four fault profiles: everything, card only, reads only, memory only | 2.8 million |
| `session_unread` | Does the `.sav` file stay the durable record? No, if it cannot be read. | reads fail | violation |
| `boost` | Is the chip never left supplying unnoticed, charging while supplying, or changed? | no bounds but the two host registers | 364 |
| `usb_host` | Is nothing freed in flight or left behind, and has every device its turn? Are reports understood? | four devices, three plugged one after the other, three of their interfaces kept, three errors end a device; 2 688 gamepads in 57 positions, 16 keyboards, every insertion of three items | 9 thousand |
| `cpu` | Do the interpreters agree, is decimal arithmetic decimal, are interrupts invisible? | every opcode with operands 0, 15, 128, 255 and four flag bytes, every prefixed opcode; every program of five instructions out of EI, DI, HALT, INC, PUSH, POP with two requests | 1.3 million |
| `devices` | Are frames whole, STAT true, sleeps short enough? | two visible lines and two of blank, lines of 8 cycles, a timer of four values, two writes | 0.9 million |
| `cart` | Do pointers follow registers, is no second lost, does the EEPROM obey, is RAM known to be dirty? | six cartridges, seven calls (five with a clock or EEPROM), a clock of two seconds a minute, EEPROM of four words | 3.4 million |
| `controllers` | Are tails of chords silent, does a key or finger act once and never after the layout changed under it, do repeats come on time? | fifteen scenes of up to five keys, or one or two fingers and four points that mean several things; a clock modulo 16 | 1.5 million |
| `elf` | Is every request answered once, nothing held at the end, no key stuck, and does the session end? | four scenes: calls and frames, refusals, keys, controllers; queues of two | 0.5 million |

Some properties are conjunctions of named parts, each with its comment
(`StoreIsSound`, `DrivesComplete`, `BuffersAgree`, `NothingMixedUp`,
`ProgressIsSafe`, `ConverterIsSafe`, `ChipIsReturned`, `HostIsInOrder`,
`EveryDeviceHasItsTurn`, `FramesAreWhole`, `ClocksKeepUp`, `CartIsCoherent`,
`MenusObey`, `RepeatsOnTime`, `InputSettles`); the module's type invariant is one
of the parts.
`CardIsReadRight`, `TouchAgreesWithPicture` and `ReportsAreUnderstood` compare
pure algorithms with a reference definition over every small input; they are
claimed in the states in which the program uses them.

**Why the bounds are enough.** The storage, boost and USB models are finite by
nature. Rows interact only through "is any row active", for which one row and
another suffice; the proofs hold for any height and any number of pulses. With
two buffers, everything in the drawing loop is counted to two; two controls give
overlapping and disjoint row ranges. Two games are needed to mix their files, a
third would be a copy of the second; `Session` uses symmetry over games, whose
names play no role (its temporal properties are action properties, which
symmetry does not disturb). `MaxPlay = 2` gives an older, a newer and a blank
RAM, enough to tell a save from the one before it. A catalog of two already has
a first, a last and one too many. USB devices do not know of each other; three
in a row give one that is closed late and two that are announced after it, to a
client that may have left something set. The display is scaled so that a batch
may cross a mode, a sleep a line, and a call a frame; `COUNT_SIZE` is an
unsigned counter whose upper half stands for a negative sleep, as 2^16 in the
code. The cartridge headers have the bank counts of real chips, the registers'
values are those at which a bank number is masked, replaced or out of range;
five to seven calls after a reset reach any two registers, a snapshot, a load
and an access. `CLOCK = 16` wraps every few repeats of 5 and 2, so a wrap falls
into each part of one. The ages that the history variables of `Controllers` keep
stop at a bound beyond both delays (`Older`), and repeats are claimed as long as
a pass comes within half the clock's range (`InTime`): times are compared as a
signed difference, which is good for half of it, 24 days in the code. The points
touched are those that several pages or orientations give a meaning; scenes
whose clock matters to nothing but the debounce let it have two values. In the
ELF session queues of two overflow with three events; each scene opens one part
of the world, as parts share only the notification and the end.

**Fairness.** `panel`: weak fairness of the scan task and of the client, two
FreeRTOS tasks on different cores neither of which blocks the other with a
lock held. A transmission may fail for ever; only what follows is promised.
`console`: weak fairness of the loop, which never stops, and of the swap, which
`panel` shows the driver makes as long as it runs. `boost`: weak fairness of the
running call, of the pass that finds host mode lost (each turn of the loop
services the battery) and of a disabled converter coming to rest. `usb_host`:
weak fairness of the client task, a loop that never ends; a control transfer
ends, because the host library times it out; a report transfer ends once its
device is gone, because the library then completes it. `elf`: weak fairness of
both tasks, of the user leaving the console, and of the compositor returning
frames. No fairness makes a fault appear, a supply or a device be plugged in, or
the bus heal: what must happen is claimed only after that.

**Deadlock** is checked except for the panel, where the client rests after
`shutdown` and a dead scan task leaves it waiting, for programs that have ended
(`cpu`) and for games that have used up their calls (`cart`). The ELF session
stutters explicitly once it is over.

Each property has a mutant of a mapped definition that breaks it; mutants stand
beside the definitions they change and are marked as such.

## 4. The proofs

`AtomicStoreProofs`, for every set of contents, from `ValuesAssumption`
(contents, absence and damage are different things). The invariant `IInv` ties
each label to what the running call was given (`CallMatchesLabel`) and what it
has already put on the card (`ProgressOnCard`: from `back_up` on, the temporary
file is the data); without it `InstallTemporary` could install anything.
`TypeCorrect`, `TornOnlyTemporary`, `SuccessIsDurable` and
`OnlyInstallChangesDurable` follow; `Refinement` maps every action to a step or
a stutter of `DurableFile`. `RecoveredInv`, inductive only where `SD.exists`
tells the truth, adds that recovery leaves no file under the backup's name
alone, from which `MissingIsMissing` and `CleanSlate` follow. `StoreSound` is
their conjunction, the invariant of the run.

`PanelClientProofs`, for every height, number of pulses, hold, clears and copies
(positive, the hold natural). `TypeCorrect` first. `BufferInv` says which buffer
each side may touch and gives `BuffersNeverTear`. `IInv` adds `TaskInv` (what
each task knows of the other's flags), `RowsDriven` (a row that is not active
has every pulse of the front buffer, the rows above the scan line included) and
`QueueCovered` (a row outside the queued rows is the same in both buffers):
`NoTearing` alone says nothing of what is on the panel, so the three are needed
together for `IdlePanelIsShown` and `AcceptedFramesAreShown`.

`DrivesAreComplete`, in `PanelClientProofs` too, adds `DriveInv`: which colour a
clear has where (`ClearInv`), how many pulses each row has had by each frame of
the hold (`HoldInv`), and where the page is on its way to the panel (`PageInv`).
Its hypothesis `Hold >= Passes` is what makes a clear complete, and what the
code has: clears are held for 5 and 7 frames (`main.cpp` 63), a drive takes 3
(`epd_video.cpp` 34).

The boost, in `UsbHostProofs`, without assumptions. `BoostInv` is `MarksAgree`
(at which labels the firmware's flags say what) and `ChipAgrees` (what the chip
must be in at each label: the rail is off wherever charging is turned on). It
gives `SourcingOwned` and `NoChargeWhileSourcing`; `CutWhenOff`,
`ChipIsGivenBack` and `FaultIsFinal` follow from it, and together they are
`ConverterSafe` and `ChipReturned`.

`ConsoleProofs`, of the drawing loop, for every set of controls, any number of
skipped frames and changes: `BuffersStayAgreed`. `BuffersAgree` speaks of the
moments at which everything is drawn; the invariant says what is still missing
before: `ChromeInv`, which buffer is fresh and what is queued for each value of
`full_scene_syncs`; `HighlightsInv`, in which rows each buffer, and the panel,
may differ from the touched controls for each value of `touch_scene_syncs`; and
`SubmitInv`, that the decision not to render still holds at the submit.

`ConsoleProofs`, of what a pass takes in, for any scene, any points of the
screen, any clock and delays (`ScenesAssumption`: a scene speaks of keys,
buttons and points there are; `ClockAssumption` and `DebounceAssumption`: delays
fit into half the clock, and the debounce is no longer than a repeat).
`TailsAreSilent` rests on `TailInv`: while the tail of a chord is on, the decoder
has latched the chord, so it hides its keys until all are up (`Latched`, one lemma
per decoder). `MenusObey` rests on `MenuInv` (a key of the menus that acted is
among those of the last poll, so it is no edge again) and `FingersInv`: a finger
that was there when the layout changed keeps both waits on until it is lifted,
and what a finger fired is in the mask of the last report. `RepeatsOnTime` rests
on `HoldInv` and `LingerInv`: the deadline in the code is, modulo `CLOCK`, the
moment of the last repeat plus its delay (`Timely`), and a deadline is passed in
the sense of the signed comparison exactly if the age reached the delay
(`ReachedOnTime`). The attempt to prove them showed that the history `spent`
counted a finger as having acted which had slid on while the touch screen
repeated its last report: it was what was reported, not what was touched, that
counts. It does now, and a scene slides fingers under late reports.

`ConsoleProofs`, of the geometry: `GeometryAgrees` for every point of the screen
(`GeometryIsOne`), where the run looks at every fifth. `TouchLiesUnderTheFinger`
composes the rotations. `FingersMeanOneThing` needs that no point is in two of
a layout's five areas: circles lie in their squares (`CircleInSquare`), which are
apart but for those of A and B, whose centres are further apart than a
diameter (`CirclesApart`). `RowsAreSent` is for any set of changed
controls: the rows sent are those between the least and the greatest of
theirs (`SmallestOf`), and each highlight is within its own.

`SessionProofs`, for any ROMs, any profiles of failing calls, any length of
play: `SessionInvariant`, and from it `GamesAreKeptApart` and
`ProgressStaysSafe` and the two action properties, `UnsavedGamesAreKept` and
`FailedLaunchesGoBack`. The parts of `IInv` are: who runs and what a launch has
in hand (`GameInv`, `JobInv`), that files belong to their game (`OwnFiles`),
what the pages offer (`OffersInv`), which path is remembered, in memory and on
the card, at every step between a launch and its configuration (`RememberInv`),
that what is not written is marked (`MarksInv`), that what is not marked is
written (`SavedInv`, as long as files can be read and memory had, and false
without), and power-off (`PowerInv`). `PlayAssumption`, `RomsAssumption` and
`NoneAssumption` only keep values apart.

`UsbHostProofs`, for any sequence of devices and configurations and any limits:
`TransfersAreNotFreedInFlight` and `HostStaysInOrder`. `StagesAgree` ties where
`client_task` is to what the library has of the interface being tried; with it
`NeverFreedInFlight`, `NothingLeftBehind`, `KeysCanBeReleased` and
`GamepadsFirst` hold each other up. Interfaces are kept, and events handled, by
recursive functions over an interval; the module first proves that such
functions exist and an induction over intervals stated with sets, both from the
well-foundedness of `<`, and uses them to carry the invariant through a turn of
the loop in which any number of callbacks run.

`ElfSessionProofs`, for any number of pads, any limits and scenes
(`ElfAssumption`: names differ, limits are not zero). `TasksAgree` says which
places of the two tasks go together and who may have been notified;
`RequestAgrees` that a request is in the slot, with the owner or answered, one of
the three; `PixelsAgree` what the console may draw on once the call it made
returns; `LeasesAgree` what is held where. Together they give
`CallsAreAnsweredOnce`, `PixelsStayLent` and `EverythingIsGivenBack`.
`NoKeySticks` (`KeyboardCatchesUp`, the part of `InputSettles` on keys) needs
more: `KInv` says that a key shown as down which is up has its release among the
events still to be read, behind its press, or that a gap will be noticed.
`InputIsSettled` (`InputSettles`) adds the types (`TInv`) and the controllers:
`PadsAgree` says that the active controller is there and its provider's lease
kept, so that a poll which asks for more providers, and hears them one after the
other, never hears the active one again.

`DevicesProofs`, for any number of lines, lengths of modes, batches and sleeps,
any timer and serial clock. The assumptions are those the code's numbers
satisfy: a line is longer than its first two modes and two lines of blank follow
the last visible one (`LcdAssumption`), periods are positive
(`TimersAssumption`), and a batch and the shortest sleep are no longer than the
shortest mode (`DevicesAssumption`), without which a step could pass over one.
`IInv`: the controller is inside the mode it shows, on a line that has that mode,
and STAT agrees with it (`LcdInv`); the timer and the serial port are where the
cycles since their last event put them (`TimerInv`, `SerialInv`); and the lines
drawn since the call of `gb_run_frame` began are those its place in the frame
accounts for (`FrameInv`, with the types of `CallInv`). `FramesStayWhole` and
`StatStaysTrue` follow. `ClocksNeverFallBehind` (`ClocksKeepUp`) is
`TransfersEnd`, and `SleepMissesNothing`: a sleep is no different from its cycles
passed one at a time, by the least counterexample over the recursive function
`Passed`.

`EmulatorProofs`, for any headers, any width of the EEPROM, any scale of time
and any number of calls. `IInv`: whatever the bus, a load or a reset did, the
cartridge is `Legal`, that is its cached pointers follow its registers; a
snapshot taken is of such a cartridge; RAM that is not what the card was last
known to hold is marked, unless a snapshot replaced it. `GameInvariant` is that,
`PointersFollowRegisters` that the fast path and the full one reach the same
bytes, `DirtStaysKnown` that dirt is known, `RefusalsChangeNothing` that a
refused call leaves everything as it was. `HeadersAssumption` says that an MBC2
has no banks of RAM, which is where the chip has none. `CartsAreCoherent` and
`TimeIsKept` are about registers of the clock too, and need `BytesFit`: the game
writes to a register of its clock a value the register can have. The core stores
any byte, and then counts on from it; the run satisfies the hypothesis, and it
is not an assumption of the model. `TimeIsKept` is `RtcKeepsTime`: a clock
looked at now and then, with all seconds added at once (`CatchUp`), is the ideal
one that ticks each second (`TimeInv`). It rests on two lemmas: a time is the
mixed-radix number of its registers (`TickShows`: a second adds one), and a
clock that has caught up with n + 1 seconds is the one that caught up with n,
ticked (`TickedIsCaughtUp`, by the least counterexample).

Only model-checked:

- Everything under fairness (`WaitsEnd`, `ChromeReachesPanel`,
  `LostBoostIsReleased`, `EveryDeviceHasItsTurn`, `SessionEnds`): out of the
  prover's reach.
- Comparisons of algorithms that fold over sequences of any length
  (`CardIsReadRight`, `ReportsAreUnderstood`, `EnginesAgree`, `DecimalSums`,
  `InterruptsAreInvisible`): induction over data, and their modules declare
  recursive operators.
- `EepromObeys`: it is about bits of words, in powers of two whose exponent is a
  constant, which the provers' arithmetic does not have.

## 5. Where the code and its documents disagree

`session_unread` finds it and `PROJECT.json` quotes both sides: a `.sav` that
cannot be read is replaced from blank RAM, after a notice that says "SAVE
REPAIRED" although nothing was written.

The other disagreements met while modelling are excepted from the properties,
by the guards or the history variables named here, and are behaviour of the code
as it stands:

- After a failed row transmission the scan task ends (`epd_video.cpp` 593) with
  a drive pending, and the waits of the power-off procedure never return,
  although the README has holding S3 shut the system down "on any screen".
  `WaitsEnd` claims waits while the scan task lives.
- A comment (`epd_video.cpp` 621) says the producer cannot submit between a flip
  and the end of its first pass; it can, harmlessly: `NoTearing` and
  `SettledMeansShown` hold with it.
- A touch noticed when one of two full scenes is left (`main.cpp` 1855) is
  highlighted in one buffer only and flickers until the next change, against
  the comment above that line. The history variable `steady` excepts it.
- The capture made for a low-memory launch stays behind as the quicksave
  (`main.cpp` 1073), where LOAD takes it for the player's snapshot, which the
  README says is restored.
- A boost whose release failed stays on once its cause has passed
  (`battery_power.cpp` 453): the pass does not look at the latched fault.
  `docs/USB_OTG_HID.md` says faults stop the boost. `LostBoostIsReleased` claims
  release while host mode stays lost.
- STOP with an interrupt pending and interrupts disabled steps back onto itself
  in the small interpreter (`peanut_gb_core.h` 1086), unlike in the full one.
  `Legal` excepts it.
- The timer of the core ticks every 2^k - 1 cycles: `tac_cycles` is a mask, but
  is used as a threshold (`peanut_gb_core.h` 1773, `peanut_gb.h` 4463). `Timers`
  does as the code does.
- LY becomes 0 during the last line of the blank, and a comment says its
  interrupt comes before the frame starts (`peanut_gb_core.h` 1819); when the
  processor sleeps, both come in one step. `SleepMissesNothing` excepts that
  line.
- `gb_reset` leaves `zero_bank_base` of a multicart where it was
  (`peanut_gb.h` 4685), though the registers it follows from are reset.
- `docs/SNES_MINI_I2C_CONTROLLER.md` says A and B act once per press; while a
  chord is held the menus see no keys (`paperboy_controller_navigation.cpp` 20),
  so a key held through a chord acts again when it ends. The scenes keep menu
  keys and chords apart.

## 6. What is not modelled, and known limits

- Storage: exchanging the card, directories in the place of files, and two
  files that share a path (`game.gb` and `game.gbc` share the legacy
  `game.sav`); sidecar paths, the capacity figures, loading a ROM's bytes.
- Panel: power-chip set-up, the two DMA row buffers, the bit layout of
  `g_state_buffer`.
- Drawing: `refresh_current_page` composes without highlights while
  `displayed_touch_buttons` keeps its value, and a control released and touched
  again within one drawing is not noticed as a change. Both are excluded from
  `HighlightsSettle` by the history variable `steady`. The pages' contents.
- Fingers: `FingersActOnce` is about what was reported when the layout changed: a
  finger whose first packet could not be read belongs to the new one. The key of
  the touch screen itself is only seen by the menus, and the wait for a release
  looks at fingers alone (`paperboy_ui.cpp` 748): held while a page opens, it
  goes home at once. No doc speaks of it; the property excepts `home`.
- Session: cartridges with a real-time clock, which are always dirty; the sound
  engine stored beside `last_rom`. A crashed game whose low-memory launch fails
  goes back to its snapshot with nothing marked for writing, so its `.sav` may
  be newer than it; `LaunchGoesBack` excepts that case. A LOAD that finds no
  memory to read its file into withdraws the offer although the file is there
  (`main.cpp` 948): with failing memory `OffersAreTrue` claims only that an offer
  has a file.
- Boost: thresholds and their hysteresis are "any value". After a release that
  failed, power-off enters deep sleep with the converter still supplying; the
  wake resets the chip, which disables the converter and enables charging
  without a look at the rail. `running_down` marks that overlap and takes it out
  of the claims about charging.
- USB: a device is announced only while no other is open, pending or queued: the
  port enumerates the next one when the one before it is closed, and that takes
  far longer than the 20 ms of a round of `client_task`. So the line that drops
  an announcement (`usb_hid_gamepad.cpp` 114) is only exercised by a handle or
  an address left set, never by an announcement that overtakes a close. One
  report of the application is read, the first that names a control: a pad whose
  first such report is another one stays unused, which is how the code is. Items
  of four bytes, long items, the packing of items into bytes, and the table that
  names the keyboard's keys.
- Controllers: turbo keys; a bus error counts as the release of every key, so a
  chord held across a disconnection may act again. A pass is one step.
- ELF: one keyboard per provider; keys queued before a gap may replay for a
  moment; `run_console` reads through its first frame's pointer after it was
  submitted (`main.cpp` 1499), and only writes are claimed. Contents of files
  and the serial log.
- Processor: opcode 0xDB, which the two interpreters treat differently and no
  game uses; OAM DMA; CGB modes, disabled in this build. STOP is left through a
  held button.
- Devices: pixels of a line, palettes; the delay of the joypad interrupt, never
  armed; liveness is stated as a bound on time. A sleep does not look at the
  serial port.
- Cartridges: headers with RAM the chip has (MBC2 with code 0, whole banks of
  RAM, MBC3 banks up to the clock's), an EEPROM written only after enabling it,
  images imported between commands. Snapshots of older core versions
  (`pgb_v1.h` to `pgb_v3.h`) and the byte layout of the formats.
- Sound synthesis, drawing of a line, the former core in `gbcore`, audio output,
  canvas, clock face, night light, drivers of the touch chip and I/O expander,
  and the libraries under `lib`: arithmetic on pixels and samples, code the
  build does not use, or register access without states worth a model; each is
  listed in `PROJECT.json` with its reason.

## 7. Plan

Done: storage with refinement and proofs; panel with proofs; drawing and
geometry; session; boost with proofs; USB host and reports; controllers;
touch actions; ELF session; processor, devices, cartridges and emulator.

Proved: every invariant and action property of the runs, but for those section
4 lists as only model-checked, with the reason.

Models left: the low-battery indicator, the audio ring for builds with an output
pin.
