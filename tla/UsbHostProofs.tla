---------------------------- MODULE UsbHostProofs ----------------------------
(***************************************************************************)
(* Proofs about the USB port: about UsbHost, which serves what is plugged  *)
(* into it, and, from `The boost' on, about HostBoost, which supplies it.  *)
(* Where client_task is, and how far the interface it tries has come,      *)
(* determines what the library holds for it; where the call of             *)
(* battery_power.cpp stands determines whether the chip is borrowed, and   *)
(* what of it has been put right already.                                  *)
(***************************************************************************)
EXTENDS UsbHost, HostBoost, WellFoundedInduction, TLAPS

(***************************************************************************)
(* Recursive functions over an interval: that such a function exists, and  *)
(* induction over its domain, stated with sets and functions.              *)
(***************************************************************************)

(* A set of naturals that is not empty has a smallest element.              *)
LEMMA SmallestOf ==
  ASSUME NEW T \in SUBSET Nat, T # {}
  PROVE  \E m \in T : \A k \in T : m <= k
<1>1. PICK m \in T : \A k \in T : ~(<<k, m>> \in OpToRel(<, Nat))
  BY WFMin, NatLessThanWellFounded, Zenon
<1>2. ASSUME NEW k \in T, k < m PROVE FALSE
  <2>1. <<k, m>> \in Nat \X Nat /\ <<k, m>>[1] < <<k, m>>[2]
    BY <1>2
  <2>2. <<k, m>> \in {ss \in Nat \X Nat : ss[1] < ss[2]}
    BY <2>1
  <2>3. <<k, m>> \in OpToRel(<, Nat)
    BY <2>2, Zenon DEF OpToRel
  <2> QED
    BY <1>1, <2>3, Zenon
<1> QED
  BY <1>2

(* Induction over an interval.                                              *)
LEMMA IntervalInduction ==
  ASSUME NEW lo \in Nat, NEW hi \in Nat, NEW next, next = lo + 1, NEW T,
         lo \in T, \A i \in next..hi : i - 1 \in T => i \in T
  PROVE  lo..hi \subseteq T
<1> SUFFICES ASSUME (lo..hi) \ T # {} PROVE FALSE
  OBVIOUS
<1>0. (lo..hi) \ T \in SUBSET Nat
  OBVIOUS
<1>1. PICK m \in (lo..hi) \ T : \A k \in (lo..hi) \ T : m <= k
  BY <1>0, SmallestOf, Zenon
<1>2. m \in (lo + 1)..hi /\ m - 1 \in lo..hi
  BY <1>1
<1>3. m - 1 \in T
  BY <1>1, <1>2
<1> QED
  BY <1>1, <1>2, <1>3

(* A function that starts with a and takes a step to each next index...      *)
Follows(f, S, a, lo, hi, next, Step) ==
  /\ f \in [lo..hi -> S]
  /\ f[lo] = a
  /\ \A i \in next..hi : f[i] = Step[<<f[i - 1], i>>]

(* ... exists.                                                               *)
LEMMA StepsExist ==
  ASSUME NEW S, NEW a \in S, NEW lo \in Nat, NEW hi \in Nat, lo <= hi,
         NEW next, next = lo + 1,
         NEW Step \in [S \X (next..hi) -> S]
  PROVE  \E f : Follows(f, S, a, lo, hi, next, Step)
<1> DEFINE Until(f, n) ==
      f[lo] = a /\ \A i \in next..n : f[i] = Step[<<f[i - 1], i>>]
    T == {n \in lo..hi : \E f \in [lo..n -> S] : Until(f, n)}
<1>1. lo \in T
  <2> DEFINE longer == [i \in lo..lo |-> a]
  <2>1. longer \in [lo..lo -> S] /\ longer[lo] = a /\ next..lo = {} /\ lo \in lo..hi
    OBVIOUS
  <2> HIDE DEF longer
  <2>2. Until(longer, lo)
    BY <2>1
  <2> QED
    BY <2>1, <2>2
<1>2. ASSUME NEW n \in next..hi, n - 1 \in T PROVE n \in T
  <2>1. PICK f \in [lo..(n - 1) -> S] : Until(f, n - 1)
    BY <1>2
  <2> DEFINE value == Step[<<f[n - 1], n>>]
             longer == [i \in lo..n |-> IF i = n THEN value ELSE f[i]]
  <2>2. value \in S
    BY <2>1
  <2> HIDE DEF value
  <2>3. longer \in [lo..n -> S] /\ longer[lo] = a
    BY <2>1, <2>2
  <2>4. ASSUME NEW i \in next..n PROVE longer[i] = Step[<<longer[i - 1], i>>]
    <3>1. CASE i = n
      BY <3>1 DEF value
    <3>2. CASE i # n
      BY <2>1, <3>2
    <3> QED
      BY <3>1, <3>2
  <2> HIDE DEF longer
  <2>5. Until(longer, n)
    BY <2>3, <2>4
  <2> QED
    BY <2>3, <2>5
<1> HIDE DEF T
<1>3. hi \in T
  BY <1>1, <1>2, IntervalInduction
<1> QED
  BY <1>3 DEF T, Follows

----------------------------------------------------------------------------
(* inspect_interfaces: what is kept, and in which order.                    *)

Listed == {s \in Seq(Interface) : Len(s) <= MaxInterfaces}

LEMMA KeptIsListed ==
  ASSUME NEW c \in Seq(Interface)
  PROVE  Kept(c) \in Listed
<1> DEFINE n == Len(c)
           Grown(s, i) == IF Usable(c[i]) /\ Len(s) < MaxInterfaces THEN Append(s, c[i]) ELSE s
           Body(f) == [i \in 0..n |-> IF i = 0 THEN <<>> ELSE Grown(f[i - 1], i)]
           Found == CHOOSE f : f = Body(f)
<1>1. n \in Nat /\ <<>> \in Listed
  BY HostAssumption DEF Listed
<1>2. ASSUME NEW s \in Listed, NEW i \in 1..n PROVE Grown(s, i) \in Listed
  BY HostAssumption DEF Listed
<1>3. Kept(c) = Found[n]
  BY Zenon DEF Kept
<1> HIDE DEF Grown, n
<1>4. \E f : f = Body(f)
  <2> DEFINE Step == [p \in Listed \X (1..n) |-> Grown(p[1], p[2])]
  <2>1. Step \in [Listed \X (1..n) -> Listed]
    BY <1>1, <1>2
  <2>2. \A s \in Listed, i \in 1..n : Step[<<s, i>>] = Grown(s, i)
    BY <1>1
  <2> HIDE DEF Step
  <2>a. 0 \in Nat /\ 0 <= n /\ 1 = 0 + 1
    BY <1>1
  <2>3. PICK f : Follows(f, Listed, <<>>, 0, n, 1, Step)
    BY <1>1, <2>a, <2>1, StepsExist
  <2>4. ASSUME NEW i \in 0..n PROVE f[i] = IF i = 0 THEN <<>> ELSE Grown(f[i - 1], i)
    <3>1. CASE i = 0
      BY <2>3, <3>1 DEF Follows
    <3>2. CASE i # 0
      <4>1. i \in 1..n /\ i - 1 \in 0..n
        BY <1>1, <3>2
      <4>2. f[i - 1] \in Listed /\ f[i] = Step[<<f[i - 1], i>>]
        BY <2>3, <4>1 DEF Follows
      <4> QED
        BY <2>2, <3>2, <4>1, <4>2
    <3> QED
      BY <3>1, <3>2
  <2>5. f = Body(f)
    BY <2>3, <2>4 DEF Follows
  <2> QED
    BY <2>5
<1>5. Found = Body(Found)
  BY <1>4, Zenon
<1> HIDE DEF Found
<1>6. \A i \in 0..n : Found[i] = IF i = 0 THEN <<>> ELSE Grown(Found[i - 1], i)
  BY <1>5
<1>7. 0..n \subseteq {i \in 0..n : Found[i] \in Listed}
  <2> DEFINE T == {i \in 0..n : Found[i] \in Listed}
  <2>1. 0 \in T
    BY <1>1, <1>6
  <2>2. ASSUME NEW i \in 1..n, i - 1 \in T PROVE i \in T
    BY <1>1, <1>2, <1>6, <2>2
  <2> HIDE DEF T
  <2>3. 0..n \subseteq T
    BY <1>1, <2>1, <2>2, IntervalInduction
  <2> QED
    BY <2>3 DEF T
<1> QED
  BY <1>1, <1>3, <1>7

(* A keyboard exchanged with an interface of s behind it: what stays, where *)
(* things come from, and that a keyboard left at i has only keyboards behind *)
(* it up to j.                                                              *)
Behind(s, i, j, t) ==
  /\ t \in [1..Len(s) -> Interface]
  /\ \A a \in 1..(i - 1) : t[a] = s[a]
  /\ \A b \in i..Len(s) : \E k \in i..Len(s) : t[b] = s[k]
  /\ Keyboard(t[i]) => \A b \in i..j : Keyboard(t[b])

LEMMA ExchangedOnce ==
  ASSUME NEW n \in Nat, NEW s \in [1..n -> Interface], NEW i \in 1..n, NEW j \in (i + 1)..n,
         NEW t, Len(s) = n, Behind(s, i, j - 1, t)
  PROVE  Behind(s, i, j, KeyboardBehind(t, i, j))
<1> DEFINE r == KeyboardBehind(t, i, j)
<1>1. CASE Keyboard(t[i]) /\ ~Keyboard(t[j])
  <2>1. r = [t EXCEPT ![i] = t[j], ![j] = t[i]]
    BY <1>1 DEF KeyboardBehind
  <2>2. t \in [1..n -> Interface] /\ i # j /\ i \in i..n /\ j \in i..n
    BY DEF Behind
  <2>3. r \in [1..n -> Interface] /\ r[i] = t[j] /\ r[j] = t[i]
        /\ \A b \in (1..n) \ {i, j} : r[b] = t[b]
    BY <2>1, <2>2
  <2> HIDE DEF r
  <2>4. \A a \in 1..(i - 1) : r[a] = s[a]
    BY <2>3 DEF Behind
  <2>5. ASSUME NEW b \in i..n PROVE \E k \in i..n : r[b] = s[k]
    <3>1. \E c \in i..n : r[b] = t[c]
      BY <2>2, <2>3
    <3> QED
      BY <3>1 DEF Behind
  <2>6. ~Keyboard(r[i])
    BY <1>1, <2>3
  <2> QED
    BY <2>3, <2>4, <2>5, <2>6 DEF Behind, r
<1>2. CASE ~(Keyboard(t[i]) /\ ~Keyboard(t[j]))
  <2>1. r = t
    BY <1>2 DEF KeyboardBehind
  <2>2. Keyboard(t[i]) => \A b \in i..j : Keyboard(t[b])
    <3> SUFFICES ASSUME Keyboard(t[i]), NEW b \in i..j PROVE Keyboard(t[b])
      OBVIOUS
    <3>1. CASE b = j
      BY <1>2, <3>1
    <3>2. CASE b # j
      <4>1. b \in i..(j - 1)
        BY <3>2
      <4> QED
        BY <4>1 DEF Behind
    <3> QED
      BY <3>1, <3>2
  <2> QED
    BY <2>1, <2>2 DEF Behind
<1> QED
  BY <1>1, <1>2

LEMMA ExchangedBehind ==
  ASSUME NEW n \in Nat, NEW s \in [1..n -> Interface], NEW i \in 1..n, Len(s) = n
  PROVE  Behind(s, i, n, Exchanged(s, i))
<1> DEFINE R == [1..n -> Interface]
           Body(f) == [j \in i..n |-> IF j = i THEN s ELSE KeyboardBehind(f[j - 1], i, j)]
           Seen == CHOOSE f : f = Body(f)
           first == i + 1
<1>1. ASSUME NEW t \in R, NEW j \in first..n PROVE KeyboardBehind(t, i, j) \in R
  BY DEF KeyboardBehind
<1>2. Exchanged(s, i) = Seen[n]
  BY Zenon DEF Exchanged
<1>3. \E f : f = Body(f)
  <2> DEFINE Step == [p \in R \X (first..n) |-> KeyboardBehind(p[1], i, p[2])]
  <2>1. Step \in [R \X (first..n) -> R]
    BY <1>1
  <2>2. \A t \in R, j \in first..n : Step[<<t, j>>] = KeyboardBehind(t, i, j)
    OBVIOUS
  <2>3. s \in R /\ i \in Nat /\ i <= n /\ first = i + 1
    OBVIOUS
  <2> HIDE DEF Step, R, first
  <2>4. PICK f : Follows(f, R, s, i, n, first, Step)
    BY <2>1, <2>3, StepsExist
  <2>5. ASSUME NEW j \in i..n PROVE f[j] = IF j = i THEN s ELSE KeyboardBehind(f[j - 1], i, j)
    <3>1. CASE j = i
      BY <2>4, <3>1 DEF Follows
    <3>2. CASE j # i
      <4>1. j \in first..n /\ j - 1 \in i..n
        BY <2>3, <3>2
      <4>2. f[j - 1] \in R /\ f[j] = Step[<<f[j - 1], j>>]
        BY <2>4, <4>1 DEF Follows
      <4> QED
        BY <2>2, <3>2, <4>1, <4>2
    <3> QED
      BY <3>1, <3>2
  <2>6. f = Body(f)
    BY <2>4, <2>5 DEF Follows
  <2> QED
    BY <2>6
<1>4. Seen = Body(Seen)
  BY <1>3, Zenon
<1> HIDE DEF Seen
<1>5. \A j \in i..n : Seen[j] = IF j = i THEN s ELSE KeyboardBehind(Seen[j - 1], i, j)
  BY <1>4
<1> DEFINE T == {j \in i..n : Behind(s, i, j, Seen[j])}
<1>6. i \in T
  <2>1. Seen[i] = s
    BY <1>5
  <2> QED
    BY <2>1 DEF Behind
<1>7. ASSUME NEW j \in first..n, j - 1 \in T PROVE j \in T
  <2>1. Behind(s, i, j - 1, Seen[j - 1])
    BY <1>7
  <2>2. Behind(s, i, j, KeyboardBehind(Seen[j - 1], i, j))
    BY <2>1, ExchangedOnce
  <2> QED
    BY <1>5, <2>2
<1>8. i \in Nat /\ n \in Nat /\ first = i + 1
  OBVIOUS
<1> HIDE DEF T, first
<1>9. i..n \subseteq T
  BY <1>6, <1>7, <1>8, IntervalInduction
<1> QED
  BY <1>2, <1>9 DEF T

(* Up to i, a keyboard has only keyboards behind it.                        *)
Ordered(n, i, t) ==
  /\ t \in [1..n -> Interface]
  /\ \A a \in 1..i, b \in 1..n : a < b /\ Keyboard(t[a]) => Keyboard(t[b])

LEMMA OrderedOnce ==
  ASSUME NEW n \in Nat, NEW i \in 1..n, NEW t, Ordered(n, i - 1, t), Len(t) = n
  PROVE  Ordered(n, i, Exchanged(t, i))
<1> DEFINE r == Exchanged(t, i)
<1>1. t \in [1..n -> Interface]
  BY DEF Ordered
<1>2. Behind(t, i, n, r)
  BY <1>1, ExchangedBehind
<1> HIDE DEF r
<1>3. r \in [1..n -> Interface]
  BY <1>2 DEF Behind
<1>4. ASSUME NEW a \in 1..i, NEW b \in 1..n, a < b, Keyboard(r[a]) PROVE Keyboard(r[b])
  <2>1. CASE a = i
    <3>1. Keyboard(r[i]) /\ b \in i..n
      BY <1>4, <2>1
    <3> QED
      BY <1>2, <3>1 DEF Behind
  <2>2. CASE a # i
    <3>1. a \in 1..(i - 1) /\ r[a] = t[a]
      BY <1>2, <2>2 DEF Behind
    <3>2. \A k \in 1..n : a < k => Keyboard(t[k])
      BY <1>4, <3>1 DEF Ordered
    <3>3. CASE b < i
      <4>1. b \in 1..(i - 1) /\ r[b] = t[b]
        BY <1>2, <3>3 DEF Behind
      <4> QED
        BY <1>4, <3>2, <4>1
    <3>4. CASE ~(b < i)
      <4>1. b \in i..Len(t)
        BY <3>4
      <4>2. PICK k \in i..Len(t) : r[b] = t[k]
        BY <1>2, <4>1 DEF Behind
      <4>3. k \in 1..n /\ a < k
        BY <3>1, <4>2
      <4> QED
        BY <3>2, <4>2, <4>3
    <3> QED
      BY <3>3, <3>4
  <2> QED
    BY <2>1, <2>2
<1> QED
  BY <1>3, <1>4 DEF Ordered, r

(* What inspect_interfaces finds, however the interfaces of the device come. *)
LEMMA CandidatesAreOrdered ==
  ASSUME NEW c \in Seq(Interface)
  PROVE  /\ Candidates(c) \in Listed
         /\ \A a, b \in 1..Len(Candidates(c)) :
              a < b /\ Keyboard(Candidates(c)[a]) => Keyboard(Candidates(c)[b])
<1> DEFINE found == Kept(c)
           n == Len(found)
           R == [1..n -> Interface]
           Body(f) == [i \in 0..n |-> IF i = 0 THEN found ELSE Exchanged(f[i - 1], i)]
           Sorted == CHOOSE f : f = Body(f)
<1>1. found \in Listed
  BY KeptIsListed
<1>2. n \in Nat /\ 0 \in Nat /\ 0 <= n /\ 1 = 0 + 1 /\ found \in R /\ n <= MaxInterfaces
  BY <1>1, HostAssumption DEF Listed
<1>3. Candidates(c) = Sorted[n]
  BY Zenon DEF Candidates
<1>4. \A t \in R : t \in Seq(Interface) /\ Len(t) = n
  BY <1>2
<1> HIDE DEF found, n
<1>5. ASSUME NEW t \in R, NEW i \in 1..n PROVE Exchanged(t, i) \in R
  <2>1. Behind(t, i, n, Exchanged(t, i))
    BY <1>2, <1>4, ExchangedBehind
  <2> QED
    BY <1>4, <2>1 DEF Behind
<1>6. \E f : f = Body(f)
  <2> DEFINE Step == [p \in R \X (1..n) |-> Exchanged(p[1], p[2])]
  <2>1. Step \in [R \X (1..n) -> R]
    BY <1>5
  <2>2. \A t \in R, i \in 1..n : Step[<<t, i>>] = Exchanged(t, i)
    OBVIOUS
  <2> HIDE DEF Step, R
  <2>3. PICK f : Follows(f, R, found, 0, n, 1, Step)
    BY <1>2, <2>1, StepsExist
  <2>4. ASSUME NEW i \in 0..n PROVE f[i] = IF i = 0 THEN found ELSE Exchanged(f[i - 1], i)
    <3>1. CASE i = 0
      BY <2>3, <3>1 DEF Follows
    <3>2. CASE i # 0
      <4>1. i \in 1..n /\ i - 1 \in 0..n
        BY <1>2, <3>2
      <4>2. f[i - 1] \in R /\ f[i] = Step[<<f[i - 1], i>>]
        BY <2>3, <4>1 DEF Follows
      <4> QED
        BY <2>2, <3>2, <4>1, <4>2
    <3> QED
      BY <3>1, <3>2
  <2>5. f = Body(f)
    BY <2>3, <2>4 DEF Follows
  <2> QED
    BY <2>5
<1>7. Sorted = Body(Sorted)
  BY <1>6, Zenon
<1> HIDE DEF Sorted
<1>8. \A i \in 0..n : Sorted[i] = IF i = 0 THEN found ELSE Exchanged(Sorted[i - 1], i)
  BY <1>7
<1> DEFINE T == {i \in 0..n : Ordered(n, i, Sorted[i])}
<1>9. 0 \in T
  BY <1>2, <1>8 DEF Ordered
<1>10. ASSUME NEW i \in 1..n, i - 1 \in T PROVE i \in T
  <2>1. i \in 0..n /\ i # 0 /\ i - 1 \in 0..n
    BY <1>2
  <2>2. Ordered(n, i - 1, Sorted[i - 1])
    BY <1>10
  <2>3. Len(Sorted[i - 1]) = n
    BY <1>4, <2>2 DEF Ordered
  <2>4. Ordered(n, i, Exchanged(Sorted[i - 1], i))
    BY <1>2, <2>2, <2>3, OrderedOnce
  <2> QED
    BY <1>8, <2>1, <2>4
<1> HIDE DEF T
<1>11. 0..n \subseteq T
  BY <1>2, <1>9, <1>10, IntervalInduction
<1>12. Ordered(n, n, Candidates(c))
  BY <1>2, <1>3, <1>11 DEF T
<1> QED
  BY <1>2, <1>4, <1>12 DEF Ordered, Listed

----------------------------------------------------------------------------
(* The inductive invariant.                                                 *)

(* Which transfers there may be while an interface is tried.                *)
Trying == at \in {"start", "advance"}

StagesAgree ==
  /\ Trying => g.device # 0 /\ control = "none"
  /\ at = "start" => interrupt = "none" /\ ~claimed
  /\ at = "advance" => interrupt \in {"none", "ready"}
  /\ control # "none" => interrupt = "none" /\ ~claimed
  /\ g.control_done => control = "ready"
  /\ Trying \/ control # "none" => g.candidate < Len(g.candidates)
  /\ Len(g.candidates) <= MaxInterfaces

IInv ==
  /\ TypeOK
  /\ NothingLeftBehind
  /\ KeysCanBeReleased
  /\ GamepadsFirst
  /\ StagesAgree
  /\ NeverFreedInFlight

LEMMA Bounds ==
  /\ MaxInterfaces \in Nat /\ MaxErrors \in Nat /\ MaxPlugs \in Nat
  /\ MaxInterfaces > 0 /\ MaxErrors > 0 /\ MaxPlugs > 0
  BY HostAssumption

LEMMA InitHolds ==
  ASSUME Init
  PROVE  IInv
<1>1. g \in Globals
  <2>1. <<>> \in Seq(Interface)
    OBVIOUS
  <2> QED
    BY <2>1, Bounds DEF Init, Globals
<1>2. TypeOK
  <2>1. queue \in Seq({"new", "gone"} \X (1..MaxPlugs))
    BY DEF Init
  <2>2. 0 \in 0..MaxPlugs
    BY Bounds
  <2> QED
    BY <1>1, <2>1, <2>2 DEF Init, TypeOK
<1>3. NothingLeftBehind /\ KeysCanBeReleased /\ GamepadsFirst /\ StagesAgree /\ NeverFreedInFlight
  BY Bounds DEF Init, NothingLeftBehind, KeysCanBeReleased, GamepadsFirst, StagesAgree,
     Trying, NeverFreedInFlight, Submitted
<1> QED
  BY <1>2, <1>3 DEF IInv

(* What happens at the port and in the library.                             *)
LEMMA PlugKeeps ==
  ASSUME IInv, Plug
  PROVE  IInv'
<1>1. TypeOK'
  BY Bounds DEF IInv, TypeOK, Plug, library, history
<1>2. NothingLeftBehind' /\ KeysCanBeReleased' /\ GamepadsFirst' /\ StagesAgree' /\ NeverFreedInFlight'
  BY DEF IInv, Plug, library, NothingLeftBehind, KeysCanBeReleased, GamepadsFirst, StagesAgree,
     Trying, NeverFreedInFlight, Submitted
<1> QED
  BY <1>1, <1>2 DEF IInv

LEMMA PortKeeps ==
  ASSUME IInv, Unplug \/ Poll
  PROVE  IInv'
<1>1. TypeOK'
  <2>1. CASE Unplug
    <3>1. <<"gone", dev>> \in {"new", "gone"} \X (1..MaxPlugs)
      BY <2>1 DEF IInv, TypeOK, Unplug
    <3>2. queue' \in Seq({"new", "gone"} \X (1..MaxPlugs))
      BY <2>1, <3>1 DEF IInv, TypeOK, Unplug
    <3>3. dev' \in 0..MaxPlugs
      BY <2>1, Bounds DEF Unplug
    <3> QED
      BY <2>1, <3>2, <3>3 DEF IInv, TypeOK, Unplug, library, history
  <2>2. CASE Poll
    BY <2>2 DEF IInv, TypeOK, Poll, library, port, history
  <2> QED
    BY <2>1, <2>2
<1>2. UNCHANGED <<library, at, g, keys, freedInFlight>>
  BY DEF Unplug, Poll, library, history
<1>3. NothingLeftBehind' /\ KeysCanBeReleased' /\ GamepadsFirst' /\ StagesAgree' /\ NeverFreedInFlight'
  BY <1>2 DEF IInv, library, NothingLeftBehind, KeysCanBeReleased, GamepadsFirst, StagesAgree,
     Trying, NeverFreedInFlight, Submitted
<1> QED
  BY <1>1, <1>3 DEF IInv

LEMMA TransfersEnd ==
  ASSUME IInv, ControlEnds \/ InterruptEnds
  PROVE  IInv'
<1>1. TypeOK'
  BY DEF IInv, TypeOK, ControlEnds, InterruptEnds, port, history
<1>2. NothingLeftBehind' /\ KeysCanBeReleased' /\ GamepadsFirst' /\ NeverFreedInFlight'
  BY DEF IInv, ControlEnds, InterruptEnds, history, NothingLeftBehind, KeysCanBeReleased,
     GamepadsFirst, NeverFreedInFlight, Submitted
<1>3. StagesAgree'
  BY DEF IInv, ControlEnds, InterruptEnds, StagesAgree, Trying
<1> QED
  BY <1>1, <1>2, <1>3 DEF IInv

(* The callbacks.                                                           *)
LEMMA ClientEventKeeps ==
  ASSUME IInv, OnClientEvent
  PROVE  IInv'
<1> DEFINE kind == Head(queue)[1]
           d == Head(queue)[2]
<1>1. kind \in {"new", "gone"} /\ d \in 1..MaxPlugs
      /\ queue' \in Seq({"new", "gone"} \X (1..MaxPlugs))
  BY DEF IInv, TypeOK, OnClientEvent
<1>2. \/ g' = [g EXCEPT !.pending = d] /\ UNCHANGED <<keys, actions>>
      \/ UNCHANGED <<g, keys, actions>>
      \/ g' = [g EXCEPT !.disconnect = TRUE] /\ keys' = FALSE /\ actions' = FALSE
  BY DEF OnClientEvent, ClearInput
<1> HIDE DEF d
<1>3. g' \in Globals
  <2>0. d \in 0..MaxPlugs
    BY <1>1, Bounds
  <2>1. [g EXCEPT !.pending = d] \in Globals
    BY <2>0 DEF IInv, TypeOK, Globals
  <2>2. [g EXCEPT !.disconnect = TRUE] \in Globals
    BY DEF IInv, TypeOK, Globals
  <2> QED
    BY <1>2, <2>1, <2>2 DEF IInv, TypeOK
<1>4. UNCHANGED <<port, library, at, history>>
  BY DEF OnClientEvent
<1>5. TypeOK'
  BY <1>1, <1>2, <1>3, <1>4 DEF IInv, TypeOK, port, library, history
<1>6. /\ g'.device = g.device /\ g'.candidates = g.candidates /\ g'.candidate = g.candidate
      /\ g'.control_inflight = g.control_inflight /\ g'.control_done = g.control_done
      /\ g'.interrupt_inflight = g.interrupt_inflight
      /\ g'.interface_claimed = g.interface_claimed
      /\ keys' => keys /\ g'.disconnect = g.disconnect
  BY <1>2 DEF IInv, TypeOK, Globals
<1>7. NothingLeftBehind' /\ KeysCanBeReleased' /\ GamepadsFirst' /\ StagesAgree' /\ NeverFreedInFlight'
  BY <1>4, <1>6 DEF IInv, library, history, NothingLeftBehind, KeysCanBeReleased, GamepadsFirst,
     StagesAgree, Trying, NeverFreedInFlight, Submitted
<1> QED
  BY <1>5, <1>7 DEF IInv

LEMMA ControlKeeps ==
  ASSUME IInv, OnControl
  PROVE  IInv'
<1>1. g' \in Globals
  BY DEF IInv, TypeOK, Globals, OnControl
<1>2. TypeOK'
  BY <1>1 DEF IInv, TypeOK, OnControl, port, history
<1>3. /\ g'.device = g.device /\ g'.candidates = g.candidates /\ g'.candidate = g.candidate
      /\ g'.control_inflight = FALSE
      /\ g'.interrupt_inflight = g.interrupt_inflight
      /\ g'.interface_claimed = g.interface_claimed
      /\ g'.disconnect = g.disconnect
  BY DEF OnControl, IInv, TypeOK, Globals
<1>4. NothingLeftBehind' /\ KeysCanBeReleased' /\ GamepadsFirst' /\ NeverFreedInFlight'
  BY <1>3 DEF IInv, OnControl, history, NothingLeftBehind, KeysCanBeReleased, GamepadsFirst,
     NeverFreedInFlight, Submitted
<1>5. StagesAgree'
  BY <1>3 DEF IInv, OnControl, StagesAgree, Trying
<1> QED
  BY <1>2, <1>4, <1>5 DEF IInv

LEMMA ReportKeeps ==
  ASSUME IInv, OnReport
  PROVE  IInv'
<1>1. g \in Globals /\ keys \in BOOLEAN /\ actions \in BOOLEAN
  BY DEF IInv, TypeOK
<1>2. Submitted(interrupt) /\ control = "none" /\ g.device # 0 /\ at = "events"
  BY DEF IInv, OnReport, Submitted, NothingLeftBehind, StagesAgree, TypeOK
<1>3. \/ /\ \E e \in 0..MaxErrors :
               g' = [g EXCEPT !.interrupt_inflight = FALSE, !.disconnect = TRUE, !.errors = e]
         /\ keys' = FALSE /\ actions' = FALSE /\ interrupt' = "ready"
      \/ /\ ~g.disconnect /\ interrupt' = "flight"
         /\ keys' \in BOOLEAN /\ actions' \in BOOLEAN
         /\ \E e \in 0..MaxErrors : g' = [g EXCEPT !.errors = e, !.interrupt_inflight = TRUE]
  <2>1. CASE GiveUp(g.errors)
    BY <1>1, <2>1 DEF GiveUp, ClearInput, Globals
  <2>2. CASE ~g.disconnect /\ CanSubmit /\ Decoded /\ interrupt' = "flight"
    <3>1. g' = [g EXCEPT !.errors = 0, !.interrupt_inflight = TRUE]
          \/ g' = [g EXCEPT !.interrupt_inflight = TRUE]
      BY <2>2 DEF Decoded
    <3>2. [g EXCEPT !.interrupt_inflight = TRUE]
            = [g EXCEPT !.errors = g.errors, !.interrupt_inflight = TRUE]
      BY <1>1 DEF Globals
    <3>3. g.errors \in 0..MaxErrors /\ 0 \in 0..MaxErrors
      BY <1>1, Bounds DEF Globals
    <3>4. keys' \in BOOLEAN /\ actions' \in BOOLEAN
      BY <1>1, <2>2 DEF Decoded, ClearInput
    <3> QED
      BY <2>2, <3>1, <3>2, <3>3, <3>4
  <2>3. CASE g.errors + 1 >= MaxErrors /\ GiveUp(MaxErrors)
    <3>1. MaxErrors \in 0..MaxErrors
      BY Bounds
    <3> QED
      BY <2>3, <3>1 DEF GiveUp, ClearInput
  <2>4. CASE /\ ~g.disconnect /\ g.errors + 1 < MaxErrors /\ CanSubmit
             /\ g' = [g EXCEPT !.errors = @ + 1, !.interrupt_inflight = TRUE]
             /\ interrupt' = "flight"
             /\ UNCHANGED <<keys, actions>>
    <3>1. g.errors + 1 \in 0..MaxErrors
      BY <1>1, <2>4, Bounds DEF Globals
    <3> QED
      BY <1>1, <2>4, <3>1
  <2> QED
    BY <2>1, <2>2, <2>3, <2>4 DEF OnReport
<1>4. /\ g' \in Globals /\ keys' \in BOOLEAN /\ actions' \in BOOLEAN
      /\ interrupt' \in {"ready", "flight"}
      /\ g'.interrupt_inflight <=> interrupt' = "flight"
      /\ keys' => g'.interrupt_inflight /\ ~g'.disconnect
      /\ g'.device = g.device /\ g'.candidates = g.candidates /\ g'.candidate = g.candidate
      /\ g'.control_inflight = g.control_inflight /\ g'.control_done = g.control_done
      /\ g'.interface_claimed = g.interface_claimed
  BY <1>1, <1>3 DEF Globals
<1>5. UNCHANGED <<port, queue, opened, claimed, control, at, history>>
  BY DEF OnReport
<1>6. TypeOK'
  BY <1>4, <1>5 DEF IInv, TypeOK, port, history
<1>7. NothingLeftBehind' /\ KeysCanBeReleased' /\ GamepadsFirst' /\ NeverFreedInFlight'
  BY <1>2, <1>4, <1>5 DEF IInv, history, NothingLeftBehind, KeysCanBeReleased, GamepadsFirst,
     NeverFreedInFlight, Submitted
<1>8. StagesAgree'
  BY <1>2, <1>4, <1>5 DEF IInv, StagesAgree, Trying
<1> QED
  BY <1>6, <1>7, <1>8 DEF IInv

(* Steps of client_task that only decide where it goes on.                  *)
LEMMA RoundKeeps ==
  ASSUME IInv, EventsHandled \/ NothingToDo
  PROVE  IInv'
<1>1. UNCHANGED <<port, queue, library, g, keys, actions, history>> /\ at' \in {"events", "check"}
  BY DEF EventsHandled, NothingToDo
<1>2. ~Trying'
  BY <1>1 DEF Trying
<1>3. TypeOK'
  BY <1>1 DEF IInv, TypeOK, port, library, history
<1>4. NothingLeftBehind' /\ KeysCanBeReleased' /\ GamepadsFirst' /\ NeverFreedInFlight' /\ StagesAgree'
  BY <1>1, <1>2 DEF IInv, library, history, NothingLeftBehind, KeysCanBeReleased, GamepadsFirst,
     NeverFreedInFlight, Submitted, StagesAgree
<1> QED
  BY <1>3, <1>4 DEF IInv

(* A device is opened and closed.                                           *)
LEMMA DisconnectKeeps ==
  ASSUME IInv, Disconnect
  PROVE  IInv'
<1>1. g \in Globals /\ <<>> \in Seq(Interface)
  BY DEF IInv, TypeOK
<1>2. keys' = FALSE /\ actions' = FALSE /\ at' = "events" /\ UNCHANGED <<port, queue>>
  BY DEF Disconnect, CloseDevice, ClearInput
<1>3. CASE g.control_inflight \/ g.interrupt_inflight
  <2>1. UNCHANGED <<library, g, history>>
    BY <1>3 DEF Disconnect, CloseDevice
  <2>2. TypeOK'
    BY <1>2, <2>1 DEF IInv, TypeOK, library, port, history
  <2>3. NothingLeftBehind' /\ KeysCanBeReleased' /\ GamepadsFirst' /\ NeverFreedInFlight' /\ StagesAgree'
    BY <1>2, <2>1 DEF IInv, library, history, NothingLeftBehind, KeysCanBeReleased, GamepadsFirst,
       NeverFreedInFlight, Submitted, StagesAgree, Trying
  <2> QED
    BY <2>2, <2>3 DEF IInv
<1>4. CASE ~(g.control_inflight \/ g.interrupt_inflight)
  <2>1. ~Submitted(control) /\ ~Submitted(interrupt)
    BY <1>4 DEF IInv, NothingLeftBehind
  <2>2. /\ freedInFlight' = freedInFlight /\ control' = "none" /\ interrupt' = "none"
        /\ claimed' = FALSE /\ opened' = 0
        /\ g' = [g EXCEPT !.interface_claimed = FALSE, !.device = 0, !.candidates = <<>>,
                          !.candidate = 0, !.pending = 0, !.control_done = FALSE,
                          !.keyboard_active = FALSE, !.xbox_active = FALSE,
                          !.disconnect = FALSE]
        /\ fate' \in {"refused", fate}
    BY <1>4, <2>1 DEF IInv, TypeOK, NothingLeftBehind, NeverFreedInFlight, Disconnect, CloseDevice,
       StillClaimed
  <2>3. 0 \in 0..MaxPlugs /\ 0 \in 0..MaxInterfaces
    BY Bounds
  <2>4. g' \in Globals
    BY <1>1, <2>2, <2>3 DEF Globals
  <2>5. TypeOK'
    BY <1>2, <2>2, <2>3, <2>4 DEF IInv, TypeOK, port
  <2>6. /\ g'.device = 0 /\ g'.candidates = <<>> /\ g'.control_done = FALSE
        /\ g'.control_inflight = FALSE /\ g'.interrupt_inflight = FALSE
        /\ g'.interface_claimed = FALSE
    BY <1>1, <1>4, <2>2 DEF Globals
  <2>7. NothingLeftBehind' /\ KeysCanBeReleased' /\ GamepadsFirst' /\ NeverFreedInFlight'
    BY <1>2, <2>2, <2>6 DEF IInv, NothingLeftBehind, KeysCanBeReleased, GamepadsFirst,
       NeverFreedInFlight, Submitted
  <2>8. StagesAgree'
    BY <1>2, <2>2, <2>6, Bounds DEF StagesAgree, Trying
  <2> QED
    BY <2>5, <2>7, <2>8 DEF IInv
<1> QED
  BY <1>3, <1>4

LEMMA OpenKeeps ==
  ASSUME IInv, OpenPending
  PROVE  IInv'
<1> DEFINE found == Candidates(config)
           h == [g EXCEPT !.pending = 0]
<1>1. g \in Globals /\ 0 \in 0..MaxPlugs /\ 0 \in 0..MaxInterfaces /\ dev \in 0..MaxPlugs
  BY Bounds DEF IInv, TypeOK
<1>2. /\ g.device = 0 /\ control = "none" /\ interrupt = "none" /\ ~claimed /\ ~keys
      /\ ~g.interrupt_inflight /\ ~g.control_inflight /\ ~g.interface_claimed /\ opened = 0
      /\ ~g.control_done
  BY DEF IInv, OpenPending, NothingLeftBehind, KeysCanBeReleased, StagesAgree, Submitted
<1>3. /\ found \in Seq(Interface) /\ Len(found) <= MaxInterfaces
      /\ \A a, b \in 1..Len(found) : a < b /\ Keyboard(found[a]) => Keyboard(found[b])
  <2>1. config \in Seq(Interface)
    BY HostAssumption DEF IInv, TypeOK
  <2> QED
    BY <2>1, CandidatesAreOrdered DEF Listed
<1>4. /\ UNCHANGED <<port, queue, claimed, control, interrupt, keys, actions, freedInFlight>>
      /\ fate' \in {"refused", fate}
      /\ \/ g' = h /\ at' = "events" /\ UNCHANGED opened
         \/ /\ dev # 0 /\ opened' = dev /\ at' = "start" /\ found # <<>>
            /\ g' = [h EXCEPT !.device = dev, !.candidates = found, !.candidate = 0]
         \/ /\ dev # 0 /\ opened' = dev /\ at' = "events"
            /\ g' = [h EXCEPT !.device = dev, !.disconnect = TRUE]
  BY DEF OpenPending
<1> HIDE DEF found
<1>5. h \in Globals
  BY <1>1 DEF Globals
<1>6. g' \in Globals
  <2>1. [h EXCEPT !.device = dev, !.candidates = found, !.candidate = 0] \in Globals
    BY <1>1, <1>3, <1>5 DEF Globals
  <2>2. [h EXCEPT !.device = dev, !.disconnect = TRUE] \in Globals
    BY <1>1, <1>5 DEF Globals
  <2> HIDE DEF h
  <2> QED
    BY <1>4, <1>5, <2>1, <2>2
<1>7. TypeOK'
  BY <1>1, <1>4, <1>6 DEF IInv, TypeOK, port
<1>8. /\ g'.device = opened'
      /\ g'.candidates \in {g.candidates, found}
      /\ \/ at' = "events"
         \/ at' = "start" /\ g'.device # 0 /\ g'.candidate < Len(g'.candidates)
      /\ g'.control_inflight = FALSE /\ g'.interrupt_inflight = FALSE
      /\ g'.interface_claimed = FALSE /\ keys' = FALSE /\ ~g'.control_done
  <2>1. found # <<>> => 0 < Len(found)
    BY <1>3
  <2>0. g \in Globals
    BY <1>1
  <2>2. keys' = FALSE
    BY <1>2, <1>4 DEF IInv, TypeOK
  <2>3. CASE g' = h /\ at' = "events" /\ UNCHANGED opened
    <3>1. g' = h /\ at' = "events" /\ opened' = 0
      BY <1>2, <2>3
    <3> QED
      BY <1>2, <2>0, <2>2, <3>1 DEF Globals
  <2>4. CASE /\ dev # 0 /\ opened' = dev /\ at' = "start" /\ found # <<>>
             /\ g' = [h EXCEPT !.device = dev, !.candidates = found, !.candidate = 0]
    BY <1>1, <1>2, <2>1, <2>2, <2>4 DEF Globals
  <2>5. CASE /\ dev # 0 /\ opened' = dev /\ at' = "events"
             /\ g' = [h EXCEPT !.device = dev, !.disconnect = TRUE]
    BY <1>2, <2>0, <2>2, <2>5 DEF Globals
  <2> QED
    BY <1>4, <2>3, <2>4, <2>5
<1>9. NothingLeftBehind' /\ KeysCanBeReleased' /\ NeverFreedInFlight'
  BY <1>2, <1>4, <1>8 DEF IInv, NothingLeftBehind, KeysCanBeReleased, NeverFreedInFlight, Submitted
<1>10. GamepadsFirst'
  BY <1>3, <1>8 DEF IInv, GamepadsFirst
<1>11. StagesAgree'
  BY <1>2, <1>3, <1>4, <1>8 DEF IInv, StagesAgree, Trying
<1> QED
  BY <1>7, <1>9, <1>10, <1>11 DEF IInv

LEMMA NextCandidateKeeps ==
  ASSUME IInv, NextCandidate
  PROVE  IInv'
<1>1. g \in Globals /\ Len(g.candidates) \in Nat /\ g.candidates \in Seq(Interface)
  BY DEF IInv, TypeOK, Globals
<1>2. /\ interrupt \in {"none", "ready"} /\ ~Submitted(interrupt) /\ control = "none"
      /\ g.device # 0 /\ ~keys /\ ~g.interrupt_inflight /\ ~g.control_inflight
      /\ Len(g.candidates) <= MaxInterfaces
  BY <1>1 DEF IInv, NextCandidate, StagesAgree, Trying, NothingLeftBehind, KeysCanBeReleased,
     Submitted, Globals
<1>3. interrupt' = "none" /\ claimed' = FALSE /\ freedInFlight' = FALSE
      /\ UNCHANGED <<port, queue, opened, control, keys, actions, fate>>
  BY <1>2 DEF IInv, NextCandidate, NothingLeftBehind, StillClaimed, NeverFreedInFlight, TypeOK
<1>4. \/ /\ g.candidate + 1 < Len(g.candidates) /\ at' = "start"
         /\ g' = [g EXCEPT !.interface_claimed = FALSE, !.candidate = g.candidate + 1]
      \/ /\ at' = "events"
         /\ g' = [g EXCEPT !.interface_claimed = FALSE, !.candidate = Len(g.candidates),
                           !.disconnect = TRUE]
  BY DEF NextCandidate
<1>5. g' \in Globals
  <2>1. CASE /\ g.candidate + 1 < Len(g.candidates)
             /\ g' = [g EXCEPT !.interface_claimed = FALSE, !.candidate = g.candidate + 1]
    <3>1. g.candidate + 1 \in 0..MaxInterfaces
      BY <1>1, <1>2, <2>1, Bounds DEF Globals
    <3> QED
      BY <1>1, <2>1, <3>1 DEF Globals
  <2>2. CASE g' = [g EXCEPT !.interface_claimed = FALSE, !.candidate = Len(g.candidates),
                            !.disconnect = TRUE]
    <3>1. Len(g.candidates) \in 0..MaxInterfaces
      BY <1>1, <1>2, Bounds
    <3> QED
      BY <1>1, <2>2, <3>1 DEF Globals
  <2> QED
    BY <1>4, <2>1, <2>2
<1>6. TypeOK'
  BY <1>3, <1>4, <1>5 DEF IInv, TypeOK, port
<1>7. /\ g'.device = g.device /\ g'.candidates = g.candidates
      /\ g'.control_inflight = g.control_inflight /\ g'.control_done = g.control_done
      /\ g'.interrupt_inflight = g.interrupt_inflight
      /\ g'.interface_claimed = FALSE
      /\ \/ at' = "events"
         \/ at' = "start" /\ g'.candidate < Len(g'.candidates)
  <2>0. g \in Globals
    BY <1>1
  <2>1. CASE /\ g.candidate + 1 < Len(g.candidates) /\ at' = "start"
             /\ g' = [g EXCEPT !.interface_claimed = FALSE, !.candidate = g.candidate + 1]
    BY <1>1, <2>1 DEF Globals
  <2>2. CASE /\ at' = "events"
             /\ g' = [g EXCEPT !.interface_claimed = FALSE, !.candidate = Len(g.candidates),
                               !.disconnect = TRUE]
    BY <2>0, <2>2 DEF Globals
  <2> QED
    BY <1>4, <2>1, <2>2
<1>8. NothingLeftBehind' /\ KeysCanBeReleased' /\ GamepadsFirst' /\ NeverFreedInFlight'
  BY <1>2, <1>3, <1>7 DEF IInv, NothingLeftBehind, KeysCanBeReleased, GamepadsFirst,
     NeverFreedInFlight, Submitted
<1>9. StagesAgree'
  BY <1>2, <1>3, <1>7 DEF IInv, StagesAgree, Trying
<1> QED
  BY <1>6, <1>8, <1>9 DEF IInv

(* An interface is tried: h are the globals, but for what the attempt says  *)
(* of the interface, and the library holds no transfer.                     *)
Attempt(h) ==
  /\ h \in Globals
  /\ h.device = g.device /\ h.candidates = g.candidates /\ h.candidate = g.candidate
  /\ ~h.control_inflight /\ ~h.interrupt_inflight /\ ~h.interface_claimed /\ ~h.control_done
  /\ g.device # 0 /\ g.candidate < Len(g.candidates)
  /\ control \in {"none", "ready"} /\ interrupt = "none" /\ ~claimed /\ ~keys
  /\ UNCHANGED <<port, queue, freedInFlight>>

(* What is left to show of a step that attempts an interface.               *)
LEMMA AttemptKeeps ==
  ASSUME IInv, NEW h, Attempt(h), g' \in Globals,
         g'.device = g.device, g'.candidates = g.candidates, g'.candidate = g.candidate,
         ~g'.control_done, opened' = opened,
         claimed' \in BOOLEAN, claimed' <=> g'.interface_claimed,
         control' \in {"none", "flight"}, g'.control_inflight <=> control' = "flight",
         interrupt' \in {"none", "ready", "flight"},
         g'.interrupt_inflight <=> interrupt' = "flight",
         at' \in {"events", "advance"}, keys' = FALSE, actions' \in BOOLEAN,
         fate' \in {fate, "served"},
         at' = "advance" => control' = "none" /\ interrupt' # "flight",
         control' # "none" => interrupt' = "none" /\ ~claimed'
  PROVE  IInv'
<1>1. TypeOK'
  BY DEF IInv, TypeOK, Attempt, port
<1>2. NothingLeftBehind' /\ KeysCanBeReleased' /\ GamepadsFirst' /\ NeverFreedInFlight'
  BY DEF IInv, Attempt, NothingLeftBehind, KeysCanBeReleased, GamepadsFirst,
     NeverFreedInFlight, Submitted
<1>3. StagesAgree'
  BY DEF IInv, Attempt, StagesAgree, Trying
<1> QED
  BY <1>1, <1>2, <1>3 DEF IInv

LEMMA RequestKeeps ==
  ASSUME IInv, NEW h, Attempt(h), NEW stage \in {"Descriptor", "BootProtocol"},
         Requested(h, stage) \/ RequestFailed(h)
  PROVE  IInv'
<1>1. h \in Globals
  BY DEF Attempt
<1>2. /\ g' \in Globals
      /\ g'.device = g.device /\ g'.candidates = g.candidates /\ g'.candidate = g.candidate
      /\ ~g'.control_done /\ ~g'.interface_claimed /\ ~g'.interrupt_inflight
      /\ control' \in {"none", "flight"} /\ (g'.control_inflight <=> control' = "flight")
  BY <1>1 DEF Attempt, Requested, RequestFailed, Globals
<1>3. UNCHANGED <<opened, claimed, interrupt, keys, actions, fate>>
  BY DEF Requested, RequestFailed
<1>4. /\ at' \in {"events", "advance"}
      /\ at' = "advance" => control' = "none"
  BY DEF Requested, RequestFailed
<1>5. interrupt = "none" /\ claimed = FALSE /\ keys = FALSE /\ actions \in BOOLEAN
  BY DEF Attempt, IInv, TypeOK
<1> QED
  BY <1>2, <1>3, <1>4, <1>5, AttemptKeeps

LEMMA ActivateKeeps ==
  ASSUME IInv, NEW h, Attempt(h), Activate(h)
  PROVE  IInv'
<1> DEFINE mine == [h EXCEPT !.interface_claimed = TRUE, !.xbox_active = Xbox(Candidate)]
<1>1. h \in Globals /\ h.device = g.device /\ h.candidates = g.candidates
      /\ h.candidate = g.candidate
      /\ ~h.control_inflight /\ ~h.interrupt_inflight /\ ~h.interface_claimed /\ ~h.control_done
  BY DEF Attempt
<1>2. opened' = opened /\ control' = "none"
  BY DEF Activate
<1>3. interrupt = "none" /\ claimed = FALSE /\ keys = FALSE /\ actions \in BOOLEAN
  BY DEF Attempt, IInv, TypeOK
<1>4. 0 \in 0..MaxErrors
  BY Bounds
<1>5. mine \in Globals /\ mine.device = g.device /\ mine.candidates = g.candidates
      /\ mine.candidate = g.candidate /\ ~mine.control_inflight /\ ~mine.interrupt_inflight
      /\ mine.interface_claimed /\ ~mine.control_done
  <2>1. Xbox(Candidate) \in BOOLEAN
    BY DEF Xbox
  <2> QED
    BY <1>1, <2>1 DEF Globals
<1>6. CASE /\ g' = h /\ at' = "advance" /\ UNCHANGED <<claimed, interrupt, keys, actions, fate>>
  BY <1>1, <1>2, <1>3, <1>6, AttemptKeeps
<1>7. CASE /\ claimed' = TRUE /\ g' = mine /\ at' = "advance"
           /\ UNCHANGED <<interrupt, keys, actions, fate>>
  BY <1>2, <1>3, <1>5, <1>7, AttemptKeeps
<1>8. CASE /\ claimed' = TRUE /\ interrupt' = "ready" /\ g' = [mine EXCEPT !.errors = 0]
           /\ ClearInput /\ at' = "advance" /\ UNCHANGED fate
  <2> HIDE DEF mine
  <2>1. /\ g' \in Globals
        /\ g'.device = g.device /\ g'.candidates = g.candidates /\ g'.candidate = g.candidate
        /\ ~g'.control_inflight /\ ~g'.interrupt_inflight
        /\ g'.interface_claimed /\ ~g'.control_done
    BY <1>4, <1>5, <1>8 DEF Globals
  <2>2. keys' = FALSE /\ actions' = FALSE
    BY <1>8 DEF ClearInput
  <2> QED
    BY <1>2, <1>8, <2>1, <2>2, AttemptKeeps
<1>9. CASE /\ claimed' = TRUE /\ interrupt' = "flight" /\ ClearInput /\ at' = "events"
           /\ g' = [mine EXCEPT !.errors = 0, !.interrupt_inflight = TRUE]
           /\ fate' = IF dev = h.device THEN "served" ELSE fate
  <2> HIDE DEF mine
  <2>1. /\ g' \in Globals
        /\ g'.device = g.device /\ g'.candidates = g.candidates /\ g'.candidate = g.candidate
        /\ ~g'.control_inflight /\ g'.interrupt_inflight = TRUE
        /\ g'.interface_claimed /\ ~g'.control_done
    BY <1>4, <1>5, <1>9 DEF Globals
  <2>2. keys' = FALSE /\ actions' = FALSE
    BY <1>9 DEF ClearInput
  <2> QED
    BY <1>2, <1>9, <2>1, <2>2, AttemptKeeps
<1> QED
  BY <1>6, <1>7, <1>8, <1>9 DEF Activate

LEMMA StartKeeps ==
  ASSUME IInv, StartCandidate
  PROVE  IInv'
<1> DEFINE h == [g EXCEPT !.keyboard_active = FALSE, !.xbox_active = FALSE]
<1>1. Attempt(h)
  <2>1. /\ control = "none" /\ freedInFlight' = freedInFlight /\ UNCHANGED <<port, queue>>
        /\ ~g.control_inflight /\ ~g.interrupt_inflight /\ ~g.interface_claimed /\ ~g.control_done
        /\ interrupt = "none" /\ ~claimed /\ ~keys /\ g.device # 0
        /\ g.candidate < Len(g.candidates)
    BY DEF StartCandidate, IInv, TypeOK, NothingLeftBehind, StagesAgree, Trying, KeysCanBeReleased,
       Submitted
  <2> QED
    BY <2>1 DEF Attempt, IInv, TypeOK, Globals
<1> HIDE DEF h
<1>2. Activate(h) \/ Requested(h, "BootProtocol") \/ Requested(h, "Descriptor") \/ RequestFailed(h)
  BY DEF StartCandidate, RequestDescriptor, h
<1> QED
  BY <1>1, <1>2, ActivateKeeps, RequestKeeps

LEMMA ControlDoneKeeps ==
  ASSUME IInv, ControlDone
  PROVE  IInv'
<1> DEFINE h == [g EXCEPT !.control_done = FALSE]
           k(b) == [h EXCEPT !.keyboard_active = b]
<1>1. /\ control = "ready" /\ freedInFlight' = freedInFlight /\ UNCHANGED <<port, queue>>
      /\ ~g.control_inflight /\ ~g.interrupt_inflight /\ ~g.interface_claimed
      /\ interrupt = "none" /\ ~claimed /\ ~keys /\ g.device # 0
      /\ g.candidate < Len(g.candidates)
  BY DEF ControlDone, IInv, TypeOK, NothingLeftBehind, StagesAgree, KeysCanBeReleased, Submitted
<1>2. Attempt(h)
  BY <1>1 DEF Attempt, IInv, TypeOK, Globals
<1>3. ASSUME NEW b \in BOOLEAN PROVE Attempt(k(b))
  BY <1>1 DEF Attempt, IInv, TypeOK, Globals
<1> HIDE DEF k
<1>4. (\E b \in BOOLEAN : Activate(k(b))) \/ Requested(h, "Descriptor") \/ RequestFailed(h)
  BY DEF ControlDone, RequestDescriptor, k
<1> HIDE DEF h
<1> QED
  BY <1>2, <1>3, <1>4, ActivateKeeps, RequestKeeps

----------------------------------------------------------------------------
LEMMA StepKeeps ==
  ASSUME IInv, [Next]_vars
  PROVE  IInv'
<1>1. CASE ClientTask
  BY <1>1, ClientEventKeeps, ControlKeeps, ReportKeeps, RoundKeeps, DisconnectKeeps, StartKeeps,
     NextCandidateKeeps, ControlDoneKeeps, OpenKeeps DEF ClientTask
<1>2. CASE Plug \/ Unplug \/ ControlEnds \/ InterruptEnds \/ Poll
  BY <1>2, PlugKeeps, PortKeeps, TransfersEnd
<1>3. CASE UNCHANGED vars
  BY <1>3 DEF vars, port, library, history, IInv, TypeOK, NothingLeftBehind, KeysCanBeReleased,
     GamepadsFirst, StagesAgree, Trying, NeverFreedInFlight, Submitted
<1> QED
  BY <1>1, <1>2, <1>3 DEF Next

LEMMA Invariant == Spec => []IInv
<1>1. Init => IInv
  BY InitHolds
<1>2. IInv /\ [Next]_vars => IInv'
  BY StepKeeps
<1> QED
  BY <1>1, <1>2, PTL DEF Spec

(* No transfer is freed while the host library works on it, neither on the  *)
(* way to the next interface nor when the device goes (close_device,        *)
(* next_candidate, client_task), whatever is plugged in.                    *)
THEOREM TransfersAreNotFreedInFlight == Spec => []NeverFreedInFlight
<1>1. IInv => NeverFreedInFlight
  BY DEF IInv
<1> QED
  BY <1>1, Invariant, PTL

(* What the library holds, what the globals of the file say and the keys    *)
(* that are shown agree between any two steps: no claim and no open device  *)
(* is left behind, no key is held that no report can release, and gamepads  *)
(* come before keyboards in what inspect_interfaces found.                  *)
THEOREM HostStaysInOrder == Spec => []HostIsInOrder
<1>1. IInv => HostIsInOrder
  BY DEF IInv, HostIsInOrder
<1> QED
  BY <1>1, Invariant, PTL

-----------------------------------------------------------------------------
(***************************************************************************)
(* The boost.                                                              *)
(***************************************************************************)

Starting == {"write_boost", "write_adc", "write_power"}
Releasing == {"put_boost", "put_adc", "read_back"}
Borrowed == Starting \union {"verify", "stop", "poll"} \union Releasing
Restoring == {"restore_otg", "restore_limits", "restore_charge"}
Unborrowed == {"start", "check", "cut_otg", "cut_charge", "cut_battery", "off"}

(* The marks agree with each other and with the label.                      *)
MarksAgree ==
  /\ host_snapshot_valid <=> host_boost_active
  /\ host_boost_active => charger_ready
  /\ pc \in {"boot", "reset"} => ~charger_ready
  /\ pc \in Borrowed => host_boost_active
  /\ pc \in Unborrowed => charger_ready /\ ~host_boost_active
  /\ pc \in Starting => ~host_boost_fault_latched

(* What the chip holds: the host registers are only changed while borrowed, *)
(* from the poll on the rail is off, and a release ends with charging on.   *)
ChipAgrees ==
  /\ saved = {}
  /\ charger_ready /\ ~host_boost_active => host_regs = {}
  /\ running_down => sourcing
  /\ pc \in Starting \union Releasing => RailIsOff
  /\ pc \in Restoring => ~Supplying
  /\ pc \in Restoring /\ host_boost_active => RailIsOff
  /\ pc \in Restoring /\ ~charger_ready => host_regs = {}
  /\ pc = "read_back" => chg

BoostInv ==
  /\ MarksAgree
  /\ ChipAgrees
  /\ SourcingIsOwned
  /\ NeverChargesWhileSourcing

LEMMA InitBoostInv == BoostInit => BoostInv
BY DEF BoostInit, BoostInv, MarksAgree, ChipAgrees, SourcingIsOwned, NeverChargesWhileSourcing, Supplying,
       RailIsOff, Starting, Releasing, Borrowed, Restoring, Unborrowed

LEMMA StepBoostInv == BoostInv /\ [BoostNext]_boost_vars => BoostInv'
<1> SUFFICES ASSUME BoostInv, [BoostNext]_boost_vars PROVE BoostInv'
  OBVIOUS
<1> USE DEF BoostInv, MarksAgree, ChipAgrees, SourcingIsOwned, NeverChargesWhileSourcing, Supplying,
            RailIsOff, Starting, Releasing, Borrowed, Restoring, Unborrowed, chip, flags,
            Outcomes, Reads, Reached, Continue, Latch, GivenUp
<1>1. CASE Probe
  BY <1>1 DEF Probe
<1>2. CASE ResetCharger
  BY <1>2 DEF ResetCharger
<1>3. CASE RestoreOtg
  BY <1>3 DEF RestoreOtg
<1>4. CASE RestoreLimits
  BY <1>4 DEF RestoreLimits
<1>5. CASE RestoreCharge
  BY <1>5 DEF RestoreCharge
<1>6. CASE Start
  BY <1>6 DEF Start
<1>7. CASE WriteBoost
  BY <1>7 DEF WriteBoost, SetHostReg
<1>8. CASE WriteAdc
  BY <1>8 DEF WriteAdc, SetHostReg
<1>9. CASE WritePower
  BY <1>9 DEF WritePower
<1>10. CASE Verify
  BY <1>10 DEF Verify
<1>11. CASE Stop
  BY <1>11 DEF Stop
<1>12. CASE PollRail
  BY <1>12 DEF PollRail
<1>13. CASE PutBoost
  BY <1>13 DEF PutBoost, PutBack
<1>14. CASE PutAdc
  BY <1>14 DEF PutAdc, PutBack
<1>15. CASE ReadBack
  BY <1>15 DEF ReadBack
<1>16. CASE HostModeLost
  BY <1>16 DEF HostModeLost
<1>17. CASE BoostFault
  BY <1>17 DEF BoostFault
<1>18. CASE ServiceStart
  BY <1>18 DEF ServiceStart
<1>19. CASE ServiceProfile
  BY <1>19 DEF ServiceProfile
<1>20. CASE PowerOff
  BY <1>20 DEF PowerOff
<1>21. CASE CheckSupply
  BY <1>21 DEF CheckSupply
<1>22. CASE CutOtg
  BY <1>22 DEF CutOtg
<1>23. CASE CutCharge
  BY <1>23 DEF CutCharge
<1>24. CASE CutBattery
  BY <1>24 DEF CutBattery
<1>25. CASE Restart
  BY <1>25 DEF Restart
<1>26. CASE Chip
  BY <1>26 DEF Chip, ConverterStarts, ConverterStops, ConverterTrips, BusHeals
<1>27. CASE UNCHANGED boost_vars
  BY <1>27 DEF boost_vars
<1> QED
  BY <1>1, <1>2, <1>3, <1>4, <1>5, <1>6, <1>7, <1>8, <1>9, <1>10, <1>11, <1>12, <1>13,
     <1>14, <1>15, <1>16, <1>17, <1>18, <1>19, <1>20, <1>21, <1>22, <1>23, <1>24, <1>25,
     <1>26, <1>27
     DEF BoostNext, Restore, Borrow, Release, Service, Cut

LEMMA InductiveInvariant == BoostSpec => []BoostInv
  BY InitBoostInv, StepBoostInv, PTL DEF BoostSpec

-----------------------------------------------------------------------------
(* Types.                                                                   *)

DataOK ==
  /\ host_regs \subseteq HostRegs /\ saved \subseteq HostRegs
  /\ pc \in Labels

FlagsOK ==
  /\ otg \in BOOLEAN /\ chg \in BOOLEAN /\ sourcing \in BOOLEAN
  /\ running_down \in BOOLEAN /\ healed \in BOOLEAN
  /\ powering_off \in BOOLEAN
  /\ charger_ready \in BOOLEAN
  /\ host_boost_active \in BOOLEAN
  /\ host_boost_fault_latched \in BOOLEAN
  /\ host_snapshot_valid \in BOOLEAN

LEMMA StepDataOK == DataOK /\ [BoostNext]_boost_vars => DataOK'
<1> SUFFICES ASSUME DataOK, [BoostNext]_boost_vars PROVE DataOK'
  OBVIOUS
<1> USE DEF DataOK, HostRegs, Labels, chip, flags, Continue, GivenUp
<1>1. CASE Probe \/ ResetCharger
  BY <1>1 DEF Probe, ResetCharger
<1>2. CASE Restore
  BY <1>2 DEF Restore, RestoreOtg, RestoreLimits, RestoreCharge
<1>3. CASE Borrow
  BY <1>3 DEF Borrow, Start, WriteBoost, WriteAdc, SetHostReg, WritePower, Verify
<1>4. CASE Release
  BY <1>4 DEF Release, Stop, PollRail, PutBoost, PutAdc, PutBack, ReadBack
<1>5. CASE Service \/ PowerOff
  BY <1>5 DEF Service, HostModeLost, BoostFault, ServiceStart, ServiceProfile, PowerOff
<1>6. CASE Cut
  BY <1>6 DEF Cut, CheckSupply, CutOtg, CutCharge, CutBattery
<1>7. CASE Restart \/ Chip \/ UNCHANGED boost_vars
  BY <1>7 DEF Restart, Chip, ConverterStarts, ConverterStops, ConverterTrips, BusHeals, boost_vars
<1> QED
  BY <1>1, <1>2, <1>3, <1>4, <1>5, <1>6, <1>7 DEF BoostNext

LEMMA StepFlagsOK == FlagsOK /\ [BoostNext]_boost_vars => FlagsOK'
<1> SUFFICES ASSUME FlagsOK, [BoostNext]_boost_vars PROVE FlagsOK'
  OBVIOUS
<1> USE DEF FlagsOK, chip, flags, Continue, Latch
<1>1. CASE Probe \/ ResetCharger
  BY <1>1, Zenon DEF Probe, ResetCharger
<1>2. CASE Restore
  BY <1>2, Zenon DEF Restore, RestoreOtg, RestoreLimits, RestoreCharge
<1>3. CASE Borrow
  BY <1>3, Zenon DEF Borrow, Start, WriteBoost, WriteAdc, SetHostReg, WritePower, Verify
<1>4. CASE Release
  BY <1>4, Zenon DEF Release, Stop, PollRail, PutBoost, PutAdc, PutBack, ReadBack
<1>5. CASE Service \/ PowerOff
  BY <1>5, Zenon DEF Service, HostModeLost, BoostFault, ServiceStart, ServiceProfile, PowerOff
<1>6. CASE Cut
  BY <1>6, Zenon DEF Cut, CheckSupply, CutOtg, CutCharge, CutBattery
<1>7. CASE Restart \/ Chip \/ UNCHANGED boost_vars
  BY <1>7, Zenon DEF Restart, Chip, ConverterStarts, ConverterStops, ConverterTrips, BusHeals, boost_vars
<1> QED
  BY <1>1, <1>2, <1>3, <1>4, <1>5, <1>6, <1>7 DEF BoostNext

(* Every variable keeps the values the code and the chip can give it.       *)
THEOREM TypeCorrect == BoostSpec => []BoostTypeOK
<1>1. BoostInit => DataOK /\ FlagsOK
  BY DEF BoostInit, DataOK, FlagsOK, HostRegs, Labels
<1>2. DataOK /\ FlagsOK => BoostTypeOK
  BY DEF DataOK, FlagsOK, BoostTypeOK
<1> QED
  BY <1>1, <1>2, StepDataOK, StepFlagsOK, PTL DEF BoostSpec

-----------------------------------------------------------------------------
(* Whatever fails and whenever the board restarts: a converter at work is   *)
(* one the firmware will stop ...                                           *)
THEOREM SourcingOwned == BoostSpec => []SourcingIsOwned
<1>1. BoostInv => SourcingIsOwned
  BY DEF BoostInv
<1> QED
  BY <1>1, InductiveInvariant, PTL

(* ... the battery is not charged from the port it supplies ...             *)
THEOREM NoChargeWhileSourcing == BoostSpec => []NeverChargesWhileSourcing
<1>1. BoostInv => NeverChargesWhileSourcing
  BY DEF BoostInv
<1> QED
  BY <1>1, InductiveInvariant, PTL

(* ... and is cut off only with the rail off.                               *)
THEOREM CutWhenOff == BoostSpec => []CutsOnlyWhenOff
<1>1. BoostInv => CutsOnlyWhenOff
  BY DEF BoostInv, MarksAgree, Unborrowed, SourcingIsOwned, CutsOnlyWhenOff
<1> QED
  BY <1>1, InductiveInvariant, PTL

Released ==
  host_boost_active /\ ~host_boost_active' /\ pc' # "boot" => RailIsOff /\ host_regs = {} /\ chg

Final ==
  host_boost_fault_latched =>
    /\ host_boost_fault_latched' \/ pc' = "boot"
    /\ otg' => otg

(* The chip is given back as it was found.                                  *)
THEOREM ChipIsGivenBack == BoostSpec => ReleaseRestores
<1>1. BoostInv /\ [BoostNext]_boost_vars => [Released]_boost_vars
  <2> SUFFICES ASSUME BoostInv, BoostNext, host_boost_active, ~host_boost_active', pc' # "boot"
               PROVE  RailIsOff /\ host_regs = {} /\ chg
    BY DEF Released
  <2>1. ReadBack
    BY DEF BoostNext, Probe, ResetCharger, Restore, RestoreOtg, RestoreLimits, RestoreCharge, Borrow,
           Start, WriteBoost, WriteAdc, SetHostReg, WritePower, Verify, Release, Stop, PollRail,
           PutBoost, PutAdc, PutBack, Service, HostModeLost, BoostFault, ServiceStart,
           ServiceProfile, PowerOff, Cut, CheckSupply, CutOtg, CutCharge, CutBattery, Restart,
           Chip, ConverterStarts, ConverterStops, ConverterTrips, BusHeals, flags
  <2> QED
    BY <2>1 DEF ReadBack, BoostInv, ChipAgrees
<1> QED
  BY <1>1, InductiveInvariant, PTL DEF BoostSpec, ReleaseRestores, Released

(* A latched fault is final until the board restarts.                       *)
THEOREM FaultIsFinal == BoostSpec => LatchIsFinal
<1>1. BoostInv /\ [BoostNext]_boost_vars => [Final]_boost_vars
  <2> SUFFICES ASSUME BoostInv, BoostNext, host_boost_fault_latched
               PROVE  (host_boost_fault_latched' \/ pc' = "boot") /\ (otg' => otg)
    BY DEF Final
  <2>1. host_boost_fault_latched' \/ pc' = "boot"
    BY DEF BoostNext, Probe, ResetCharger, Restore, RestoreOtg, RestoreLimits, RestoreCharge, Borrow,
           Start, WriteBoost, WriteAdc, SetHostReg, WritePower, Verify, Release, Stop, PollRail,
           PutBoost, PutAdc, PutBack, ReadBack, Service, HostModeLost, BoostFault, ServiceStart,
           ServiceProfile, PowerOff, Cut, CheckSupply, CutOtg, CutCharge, CutBattery, Restart,
           Chip, ConverterStarts, ConverterStops, ConverterTrips, BusHeals, flags, Continue, Latch
  <2>2. ~WritePower
    BY DEF WritePower, BoostInv, MarksAgree, Starting
  <2>3. otg' => otg
    BY <2>2
       DEF BoostNext, Probe, ResetCharger, Restore, RestoreOtg, RestoreLimits, RestoreCharge, Borrow,
           Start, WriteBoost, WriteAdc, SetHostReg, Verify, Release, Stop, PollRail, PutBoost, PutAdc,
           PutBack, ReadBack, Service, HostModeLost, BoostFault, ServiceStart, ServiceProfile,
           PowerOff, Cut, CheckSupply, CutOtg, CutCharge, CutBattery, Restart, Chip,
           ConverterStarts, ConverterStops, ConverterTrips, BusHeals, chip
  <2> QED
    BY <2>1, <2>3
<1> QED
  BY <1>1, InductiveInvariant, PTL DEF BoostSpec, LatchIsFinal, Final

(* battery_power.cpp: whatever fails, the battery is neither charged nor cut  *)
(* off while it supplies the port, and a converter at work has an owner.      *)
THEOREM ConverterSafe == BoostSpec => []ConverterIsSafe
<1>1. BoostTypeOK /\ SourcingIsOwned /\ NeverChargesWhileSourcing /\ CutsOnlyWhenOff
        => ConverterIsSafe
  BY DEF ConverterIsSafe
<1> QED
  BY <1>1, TypeCorrect, SourcingOwned, NoChargeWhileSourcing, CutWhenOff, PTL

(* battery_power.cpp: the chip is given back whole, and after a fault nothing *)
(* enables its converter before a restart.                                    *)
THEOREM ChipReturned == BoostSpec => ChipIsReturned
BY ChipIsGivenBack, FaultIsFinal DEF ChipIsReturned

=============================================================================
