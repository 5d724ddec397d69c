-------------------------- MODULE BifDecoder_proofs --------------------------
(***************************************************************************)
(* For every width of the cycle field and every limit of the compensation: *)
(* in a run that begins fresh, the readout cycle of the decoder is the     *)
(* cycle of the BIF counted from the first one of the run, whatever        *)
(* shutter words are lost or repeated within MaxGap.                       *)
(*                                                                         *)
(* CycleFollowed is not inductive: a repeated start is told from a new one *)
(* by ROC_started, and the distance of the next start is limited only by   *)
(* what the BIF lost before.  CycleInv adds both.                          *)
(*                                                                         *)
(* From there, what the three build functions return (WellBuilt) and what  *)
(* a start does (StartAgain, StartNew) give the events: their numbering in *)
(* the ROC mode, and the cycle and BXID in which a trigger is filed.  Last *)
(* (OnceInv), in how many events it is.                                    *)
(***************************************************************************)
EXTENDS BifDecoder, SharedLemmas, FiniteSetTheorems, FunctionTheorems, TLAPS

(* The types of the variables that take part. *)
CycleNumbers ==
  /\ hwCycle \in Nat /\ ReadoutCycle \in Int /\ firstShutterCycle \in Int
  /\ lastOn \in Int /\ firstOn \in Int

CycleFlags ==
  /\ hwOn \in BOOLEAN /\ onDelivered \in BOOLEAN
  /\ ROC_started \in BOOLEAN /\ fresh \in BOOLEAN

CycleTypes == CycleNumbers /\ CycleFlags

(* How far the BIF is ahead of the last delivered start. *)
GapInv ==
  /\ lastOn # -1 => lastOn \in Nat /\ lastOn <= hwCycle /\ hwCycle + 1 - lastOn <= MaxGap
  /\ hwOn /\ onDelivered => lastOn = hwCycle

(* Whether the decoder knows that a cycle is open. *)
OpenInv ==
  fresh => /\ lastOn = -1 => ~hwOn /\ ~ROC_started
           /\ lastOn # -1 => firstOn \in Nat /\ firstOn <= lastOn
           /\ hwOn /\ onDelivered => ROC_started

CycleInv == CycleTypes /\ GapInv /\ OpenInv /\ CycleFollowed
-----------------------------------------------------------------------------
(* The distance computed from the cycle field is the true one. *)
LEMMA MissingExact ==
  ASSUME CycleInv, fresh, lastOn # -1, NEW cyc \in Nat, NEW roc \in Int
  PROVE  Missing(cyc % CycleMod, roc) = (cyc - firstOn - roc) % CycleMod
<1>1. CycleMod \in Nat \ {0}
  BY BifAssumption
<1>2. firstShutterCycle = firstOn % CycleMod /\ firstOn \in Int /\ cyc \in Int
  BY DEF CycleInv, CycleFollowed, CycleTypes, CycleNumbers
<1>3. ((cyc % CycleMod) - (firstOn % CycleMod) - roc) % CycleMod
        = (cyc - firstOn - roc) % CycleMod
  BY <1>1, <1>2, ModDifference, Zenon
<1> QED BY <1>2, <1>3 DEF Missing

(* A new start is as far ahead as the BIF lost starts, which is little enough
   for an unstopped cycle to be built. *)
LEMMA NewDistance ==
  ASSUME CycleInv, fresh, lastOn # -1, NEW no, no = (hwCycle + 1) % CycleMod
  PROVE  /\ Missing(no, ReadoutCycle + 1) = hwCycle - lastOn
         /\ hwCycle - lastOn \in Nat /\ ReadoutCycle # -1
         /\ ~Repeated(no) /\ (BuildsUnstopped(no) <=> ROC_started)
<1> USE DEF CycleInv, CycleTypes, CycleNumbers, CycleFlags
<1> DEFINE d == hwCycle - lastOn
<1>1. /\ ReadoutCycle = lastOn - firstOn /\ firstOn \in Nat /\ firstOn <= lastOn
      /\ d \in 0 .. MaxCompensate
  BY BifAssumption DEF CycleFollowed, OpenInv, GapInv
<1>2. Missing(no, ReadoutCycle + 1) = d % CycleMod
  <2>1. Missing(no, ReadoutCycle + 1)
          = (hwCycle + 1 - firstOn - (ReadoutCycle + 1)) % CycleMod
    BY MissingExact
  <2>2. hwCycle + 1 - firstOn - (ReadoutCycle + 1) = d
    BY <1>1
  <2> QED BY <2>1, <2>2
<1>3. d % CycleMod = d /\ d # CycleMod - 1 /\ d \in Nat
  <2>1. d \in 0 .. CycleMod - 2 /\ CycleMod \in Nat \ {0}
    BY <1>1, BifAssumption
  <2> HIDE DEF d
  <2>2. d \in 0 .. CycleMod - 1 /\ d # CycleMod - 1
    BY <2>1
  <2> QED BY <2>1, <2>2, ModSmall
<1>4. ~Repeated(no) /\ ReadoutCycle # -1
  BY <1>1, <1>2, <1>3 DEF Repeated
<1>5. BuildsUnstopped(no) <=> ROC_started
  BY <1>1, <1>2, <1>3 DEF BuildsUnstopped
<1> QED BY <1>2, <1>3, <1>4, <1>5

(* The start that arrives again is one cycle behind the expected one, which
   counts as a loss too big for an unstopped cycle to be built. *)
LEMMA RepeatedDistance ==
  ASSUME CycleInv, fresh, hwOn, onDelivered, NEW no, no = hwCycle % CycleMod
  PROVE  /\ Repeated(no) /\ ~BuildsUnstopped(no) /\ ROC_started
         /\ ReadoutCycle = hwCycle - firstOn /\ firstOn \in Nat /\ firstOn <= hwCycle
         /\ Missing(no, (ReadoutCycle - 1) + 1) = 0
<1> USE DEF CycleInv, CycleTypes, CycleNumbers, CycleFlags
<1>1. lastOn = hwCycle /\ ROC_started /\ lastOn # -1
  BY DEF GapInv, OpenInv
<1>2. ReadoutCycle = hwCycle - firstOn /\ firstOn \in Nat /\ firstOn <= hwCycle
  BY <1>1 DEF CycleFollowed, OpenInv
<1>3. Missing(no, ReadoutCycle + 1) = CycleMod - 1
  <2>1. Missing(no, ReadoutCycle + 1) = (hwCycle - firstOn - (ReadoutCycle + 1)) % CycleMod
    BY <1>1, MissingExact
  <2>2. hwCycle - firstOn - (ReadoutCycle + 1) = -1
    BY <1>2
  <2>3. CycleMod \in Nat \ {0}
    BY BifAssumption
  <2>4. (-1) % CycleMod = CycleMod - 1
    BY <2>3, ModSmall
  <2> QED BY <2>1, <2>2, <2>4
<1>4. Repeated(no) /\ ~BuildsUnstopped(no)
  BY <1>1, <1>3, BifAssumption DEF Repeated, BuildsUnstopped
<1>5. Missing(no, (ReadoutCycle - 1) + 1) = 0
  <2>1. (ReadoutCycle - 1) + 1 = ReadoutCycle /\ hwCycle - firstOn - ReadoutCycle = 0
    BY <1>2
  <2>2. Missing(no, ReadoutCycle) = 0 % CycleMod
    BY <1>1, <2>1, MissingExact
  <2> QED BY <2>1, <2>2, ModSmall, BifAssumption
<1> QED BY <1>1, <1>2, <1>4, <1>5

(* A new start moves the cycle by as much as the BIF did. *)
LEMMA NewStart ==
  ASSUME CycleInv, fresh, NEW w, w.no = (hwCycle + 1) % CycleMod,
         w.of.cyc = hwCycle + 1, ShutterOn(w)
  PROVE  /\ ReadoutCycle' = hwCycle + 1 - firstOn'
         /\ firstShutterCycle' = firstOn' % CycleMod
         /\ firstOn' \in Nat /\ firstOn' <= hwCycle + 1
<1> USE DEF CycleInv, CycleTypes, CycleNumbers, CycleFlags
<1>1. CASE lastOn = -1
  <2>1. ReadoutCycle = -1 /\ ~ROC_started
    BY <1>1 DEF CycleFollowed, OpenInv
  <2> QED BY <2>1 DEF ShutterOn, Repeated
<1>2. CASE lastOn # -1
  <2>1. /\ ReadoutCycle = lastOn - firstOn /\ firstOn \in Nat /\ firstOn <= lastOn
        /\ firstShutterCycle = firstOn % CycleMod
        /\ lastOn <= hwCycle
    BY <1>2 DEF CycleFollowed, OpenInv, GapInv
  <2>2. /\ ReadoutCycle' = ReadoutCycle + 1 + (hwCycle - lastOn)
        /\ firstShutterCycle' = firstShutterCycle /\ firstOn' = firstOn
    BY <1>2, NewDistance DEF ShutterOn
  <2> QED BY <2>1, <2>2
<1> QED BY <1>1, <1>2

(* A repeated start leaves the cycle as it is. *)
LEMMA RepeatedStart ==
  ASSUME CycleInv, fresh, hwOn, onDelivered,
         NEW w, w.no = hwCycle % CycleMod, w.of.cyc = hwCycle, ShutterOn(w)
  PROVE  /\ UNCHANGED <<ReadoutCycle, firstOn>>
         /\ ReadoutCycle' = hwCycle - firstOn'
         /\ firstShutterCycle' = firstOn' % CycleMod
         /\ firstOn' \in Nat /\ firstOn' <= hwCycle
<1> USE DEF CycleInv, CycleTypes, CycleNumbers, CycleFlags
<1>1. /\ Repeated(w.no) /\ Missing(w.no, (ReadoutCycle - 1) + 1) = 0
      /\ ReadoutCycle = hwCycle - firstOn /\ firstOn \in Nat /\ firstOn <= hwCycle
  BY RepeatedDistance
<1>2. CASE ReadoutCycle = 0
  BY <1>1, <1>2 DEF ShutterOn
<1>3. CASE ReadoutCycle # 0
  <2>1. lastOn = hwCycle /\ lastOn # -1 /\ ReadoutCycle - 1 # -1
    BY <1>1, <1>3 DEF GapInv
  <2>2. firstShutterCycle = firstOn % CycleMod
    BY <2>1 DEF CycleFollowed
  <2>3. ReadoutCycle' = (ReadoutCycle - 1) + 1 + 0
        /\ firstShutterCycle' = firstShutterCycle /\ firstOn' = firstOn
    BY <1>1, <2>1 DEF ShutterOn
  <2> QED BY <1>1, <2>2, <2>3
<1> QED BY <1>2, <1>3
-----------------------------------------------------------------------------
LEMMA CycleInit == Init => CycleInv
<1> SUFFICES ASSUME Init
             PROVE  CycleInv
  OBVIOUS
<1>1. CycleNumbers
  BY BifAssumption DEF Init, CycleNumbers
<1>2. CycleFlags
  BY Zenon DEF Init, CycleFlags
<1>3. GapInv /\ OpenInv
  BY DEF Init, GapInv, OpenInv
<1>4. CycleFollowed
  BY DEF Init, CycleFollowed
<1> QED BY <1>1, <1>2, <1>3, <1>4 DEF CycleInv, CycleTypes

(* Nothing depends on the packets of a cycle. *)
LEMMA SameCycle ==
  ASSUME CycleInv,
         UNCHANGED <<hwCycle, hwOn, onDelivered, lastOn, fresh>>,
         UNCHANGED <<ReadoutCycle, ROC_started, firstShutterCycle, firstOn>>
  PROVE  CycleInv'
<1>1. CycleTypes'
  BY DEF CycleInv, CycleTypes, CycleNumbers, CycleFlags
<1>2. GapInv'
  BY DEF CycleInv, GapInv
<1>3. OpenInv'
  BY DEF CycleInv, OpenInv
<1>4. CycleFollowed'
  BY DEF CycleInv, CycleFollowed
<1> QED BY <1>1, <1>2, <1>3, <1>4 DEF CycleInv

LEMMA CycleStep == CycleInv /\ [Next]_vars => CycleInv'
<1> SUFFICES ASSUME CycleInv, [Next]_vars
             PROVE  CycleInv'
  OBVIOUS
<1> USE DEF CycleInv, CycleTypes, CycleNumbers, CycleFlags
<1>1. CASE DoStartRun
  <2>1. /\ UNCHANGED <<hwCycle, ROC_started, firstShutterCycle>> /\ hwOn' \in BOOLEAN
        /\ lastOn' = -1 /\ firstOn' = -1 /\ ReadoutCycle' = -1 /\ onDelivered' = FALSE
        /\ fresh' = (~hwOn' /\ ~ROC_started /\ cycleData = <<>>)
    BY <1>1 DEF DoStartRun
  <2>2. fresh' \in BOOLEAN /\ (fresh' => ~hwOn' /\ ~ROC_started)
    BY <2>1
  <2>3. CycleNumbers' /\ CycleFlags'
    <3>1. CycleNumbers'
      BY <2>1
    <3>2. CycleFlags'
      BY <2>1, <2>2, Zenon
    <3> QED BY <3>1, <3>2
  <2>4. GapInv' /\ CycleFollowed'
    BY <2>1 DEF GapInv, CycleFollowed
  <2>5. OpenInv'
    BY <2>1, <2>2 DEF OpenInv
  <2> QED BY <2>3, <2>4, <2>5
<1>2. CASE HwOn
  <2>1. CASE /\ Tick
             /\ ShutterOn(Shutter(hwCycle + 1, clock, clock))
             /\ lastOn' = hwCycle + 1 /\ onDelivered' = TRUE
    <3> DEFINE w == Shutter(hwCycle + 1, clock, clock)
    <3>1. w.no = (hwCycle + 1) % CycleMod /\ w.of.cyc = hwCycle + 1
      BY DEF Shutter
    <3>2. ShutterOn(w)
      BY <2>1
    <3> HIDE DEF w
    <3>3. /\ hwOn' = TRUE /\ hwCycle' = hwCycle + 1 /\ fresh' = fresh
          /\ ROC_started' = TRUE
      BY <1>2, <3>2, ZenonT(60) DEF HwOn, config, ShutterOn
    <3>4. ReadoutCycle' \in Int /\ firstShutterCycle' \in Int /\ firstOn' \in Int
      BY <3>1, <3>2, BifAssumption DEF ShutterOn, Missing
    <3>5. fresh => CycleFollowed' /\ firstOn' \in Nat /\ firstOn' <= hwCycle + 1
      BY <2>1, <3>1, <3>2, <3>3, NewStart DEF CycleFollowed
    <3>6. CycleTypes'
      BY <2>1, <3>3, <3>4
    <3>7. GapInv'
      BY <2>1, <3>3, BifAssumption DEF GapInv
    <3>8. OpenInv'
      BY <2>1, <3>3, <3>5 DEF OpenInv
    <3>9. CycleFollowed'
      BY <3>3, <3>5 DEF CycleFollowed
    <3> QED BY <3>6, <3>7, <3>8, <3>9
  <2>2. CASE /\ lastOn # -1 /\ hwCycle + 2 - lastOn <= MaxGap
             /\ Lose
             /\ onDelivered' = FALSE /\ UNCHANGED lastOn
    <3>1. /\ hwOn' = TRUE /\ hwCycle' = hwCycle + 1 /\ onDelivered' = FALSE
          /\ UNCHANGED <<fresh, lastOn, firstOn, ReadoutCycle, firstShutterCycle, ROC_started>>
      BY <1>2, <2>2 DEF HwOn, Lose, cycle, config
    <3>2. CycleNumbers' /\ CycleFlags'
      <4>1. CycleNumbers'
        BY <3>1
      <4>2. CycleFlags'
        BY <3>1, Zenon
      <4> QED BY <4>1, <4>2
    <3>3. GapInv'
      BY <2>2, <3>1 DEF GapInv
    <3>4. OpenInv'
      BY <2>2, <3>1 DEF OpenInv
    <3>5. CycleFollowed'
      BY <3>1 DEF CycleFollowed
    <3> QED BY <3>2, <3>3, <3>4, <3>5
  <2> QED BY <1>2, <2>1, <2>2, ZenonT(60) DEF HwOn
<1>3. CASE HwRepeatOn
  <2> DEFINE w == Shutter(hwCycle, hwStart, hwStart)
  <2>1. w.no = hwCycle % CycleMod /\ w.of.cyc = hwCycle
    BY DEF Shutter
  <2>2. ShutterOn(w) /\ hwOn /\ onDelivered
    BY <1>3 DEF HwRepeatOn
  <2> HIDE DEF w
  <2>3. /\ UNCHANGED <<hwCycle, hwOn, lastOn, onDelivered, fresh>>
        /\ ROC_started' = TRUE
    BY <1>3, <2>2 DEF HwRepeatOn, config, shutter, ShutterOn
  <2>4. ReadoutCycle' \in Int /\ firstShutterCycle' \in Int /\ firstOn' \in Int
    BY <2>1, <2>2, BifAssumption DEF ShutterOn, Missing
  <2>5. lastOn = hwCycle
    BY <2>2 DEF GapInv
  <2>6. fresh => CycleFollowed' /\ firstOn' \in Nat /\ firstOn' <= hwCycle
    BY <2>1, <2>2, <2>3, <2>5, RepeatedStart DEF CycleFollowed
  <2> QED BY <2>2, <2>3, <2>4, <2>5, <2>6 DEF GapInv, OpenInv, CycleFollowed
<1>4. CASE HwOff
  <2>1. UNCHANGED <<hwCycle, lastOn, onDelivered, fresh, ReadoutCycle,
                    firstShutterCycle, firstOn>> /\ hwOn' = FALSE
    BY <1>4 DEF HwOff, Lose, ShutterOff, cycle, config
  <2>2. ROC_started' \in {FALSE, ROC_started}
    BY <1>4 DEF HwOff, Lose, ShutterOff, cycle
  <2>3. CycleNumbers' /\ CycleFlags'
    <3>1. CycleNumbers'
      BY <2>1
    <3>2. CycleFlags'
      BY <2>1, <2>2, Zenon
    <3> QED BY <3>1, <3>2
  <2>4. GapInv'
    BY <2>1 DEF GapInv
  <2>5. OpenInv'
    BY <2>1, <2>2 DEF OpenInv
  <2>6. CycleFollowed'
    BY <2>1 DEF CycleFollowed
  <2> QED BY <2>3, <2>4, <2>5, <2>6
<1>5. CASE HwTrigger
  BY <1>5, SameCycle DEF HwTrigger, TriggerPacket, cycle, shutter, config
<1>6. CASE UNCHANGED vars
  BY <1>6, SameCycle DEF vars, shutter, config, cycle
<1> QED BY <1>1, <1>2, <1>3, <1>4, <1>5, <1>6 DEF Next

(* Spec implies CycleFollowed: in a run that begins between two acquisitions
   with nothing left over, _ReadoutCycle is the true cycle of the last start,
   counted from the first, for every width of the cycle field. *)
THEOREM CyclesFollowed == Spec => []CycleFollowed
<1>1. CycleInv => CycleFollowed
  BY DEF CycleInv
<1> QED BY CycleInit, CycleStep, <1>1, PTL DEF Spec
-----------------------------------------------------------------------------
(* The function that FlattenSeq looks up is there. *)
FlatUpTo(g, ss, n) ==
  g = [i \in 1 .. n |-> IF i = 1 THEN ss[i] ELSE g[i - 1] \o ss[i]]

LEMMA FlatExists ==
  ASSUME NEW ss, NEW n \in Nat
  PROVE  \E g : FlatUpTo(g, ss, n)
<1> DEFINE N == {m \in Nat : \E g : FlatUpTo(g, ss, m)}
<1>1. 0 \in N
  <2>1. FlatUpTo([i \in 1 .. 0 |-> <<>>], ss, 0)
    BY DEF FlatUpTo
  <2> QED  BY <2>1
<1>2. ASSUME NEW m \in Nat, m \in N
      PROVE  m + 1 \in N
  <2>1. PICK g : FlatUpTo(g, ss, m)
    BY <1>2
  <2> DEFINE h == [i \in 1 .. m + 1 |-> IF i <= m THEN g[i]
                     ELSE IF i = 1 THEN ss[i] ELSE g[m] \o ss[i]]
  <2>2. ASSUME NEW i \in 1 .. m + 1
        PROVE  h[i] = IF i = 1 THEN ss[i] ELSE h[i - 1] \o ss[i]
    <3>1. CASE i \in 1 .. m /\ i = 1
      BY <2>1, <3>1 DEF FlatUpTo
    <3>2. CASE i \in 1 .. m /\ i # 1
      <4>1. i - 1 \in 1 .. m + 1 /\ i - 1 <= m /\ i <= m
        BY <3>2
      <4>2. g[i] = g[i - 1] \o ss[i]
        BY <2>1, <3>2 DEF FlatUpTo
      <4> QED  BY <3>2, <4>1, <4>2
    <3>3. CASE i = m + 1
      <4>1. ~(i <= m) /\ i - 1 = m /\ (i # 1 => m \in 1 .. m + 1 /\ m <= m)
        BY <3>3
      <4> QED  BY <4>1
    <3> QED  BY <3>1, <3>2, <3>3
  <2>3. FlatUpTo(h, ss, m + 1)
    <3> DEFINE r == [i \in 1 .. m + 1 |-> IF i = 1 THEN ss[i] ELSE h[i - 1] \o ss[i]]
    <3>1. h = r
      <4>1. \A i \in 1 .. m + 1 : h[i] = r[i]
        BY <2>2
      <4>2. h = [i \in 1 .. m + 1 |-> h[i]] /\ r = [i \in 1 .. m + 1 |-> r[i]]
        OBVIOUS
      <4> HIDE DEF h, r
      <4> QED  BY <4>1, <4>2
    <3> HIDE DEF h
    <3> QED  BY <3>1 DEF FlatUpTo
  <2> QED  BY <2>3
<1> HIDE DEF N
<1>3. n \in N
  BY <1>1, <1>2, NatSetInduction
<1> QED  BY <1>3 DEF N

(* Every element of fl is an element of one of the first n sequences of ss; if
   all of these have one element, they are the elements of fl, in order. *)
FlatOf(fl, ss, n, T) ==
  /\ fl \in Seq(T)
  /\ \A j \in 1 .. Len(fl) : \E i \in 1 .. n : \E k \in 1 .. Len(ss[i]) : fl[j] = ss[i][k]
  /\ (\A i \in 1 .. n : Len(ss[i]) = 1) =>
       Len(fl) = n /\ \A j \in 1 .. n : fl[j] = ss[j][1]

LEMMA Flattened ==
  ASSUME NEW T, NEW ss \in Seq(Seq(T))
  PROVE  FlatOf(FlattenSeq(ss), ss, Len(ss), T)
<1>0. Len(ss) \in Nat /\ \A i \in 1 .. Len(ss) : ss[i] \in Seq(T)
  BY LenProperties, ElementOfSeq
<1>1. CASE Len(ss) = 0
  <2>1. ss = <<>>
    BY <1>1, EmptySeq
  <2>2. FlattenSeq(ss) = <<>>
    BY <1>1, <2>1 DEF FlattenSeq
  <2>3. <<>> \in Seq(T) /\ Len(<<>>) = 0 /\ 1 .. 0 = {}
    OBVIOUS
  <2> QED  BY <1>1, <2>2, <2>3 DEF FlatOf
<1>2. CASE Len(ss) # 0
  <2> DEFINE f == CHOOSE g : FlatUpTo(g, ss, Len(ss))
  <2>1. FlatUpTo(f, ss, Len(ss))
    BY <1>0, FlatExists
  <2>2. FlattenSeq(ss) = f[Len(ss)]
    BY <1>2 DEF FlattenSeq, FlatUpTo
  <2> HIDE DEF f
  <2> DEFINE N == {n \in Nat : n + 1 <= Len(ss) => FlatOf(f[n + 1], ss, n + 1, T)}
  <2>3. 0 \in N
    <3>1. 1 \in 1 .. Len(ss) /\ 0 + 1 = 1
      BY <1>0, <1>2
    <3>2. f[1] = ss[1] /\ ss[1] \in Seq(T)
      BY <1>0, <2>1, <3>1 DEF FlatUpTo
    <3>3. FlatOf(f[1], ss, 1, T)
      BY <3>2 DEF FlatOf
    <3> QED  BY <3>1, <3>3
  <2>4. ASSUME NEW n \in Nat, n \in N
        PROVE  n + 1 \in N
    <3> SUFFICES ASSUME (n + 1) + 1 <= Len(ss) PROVE FlatOf(f[(n + 1) + 1], ss, (n + 1) + 1, T)
      OBVIOUS
    <3>1. PICK m \in 1 .. Len(ss) : m = n + 1
      BY <1>0
    <3>2. m + 1 \in 1 .. Len(ss) /\ m + 1 # 1 /\ (m + 1) - 1 = m /\ m \in Nat
      BY <1>0, <3>1
    <3>3. FlatOf(f[m], ss, m, T)
      BY <1>0, <2>4, <3>1
    <3>4. f[m + 1] = f[m] \o ss[m + 1]
      <4>1. f[m + 1] = f[(m + 1) - 1] \o ss[m + 1]
        BY <2>1, <3>2 DEF FlatUpTo
      <4> QED  BY <3>2, <4>1
    <3> DEFINE a == f[m]
               b == ss[m + 1]
               c == a \o b
    <3>5. a \in Seq(T) /\ b \in Seq(T)
      BY <1>0, <3>2, <3>3 DEF FlatOf
    <3>6. f[m + 1] = c
      BY <3>4
    <3> HIDE DEF a, b
    <3>7. /\ c \in Seq(T) /\ Len(c) = Len(a) + Len(b) /\ Len(a) \in Nat /\ Len(b) \in Nat
          /\ \A i \in 1 .. Len(a) : c[i] = a[i]
          /\ \A i \in 1 .. Len(b) : c[Len(a) + i] = b[i]
          /\ \A i \in 1 .. Len(c) : \/ i \in 1 .. Len(a)
                                    \/ \E k \in 1 .. Len(b) : i = Len(a) + k
      BY <3>5, Concatenated
    <3> HIDE DEF c
    <3>8. ASSUME NEW j \in 1 .. Len(c)
          PROVE  \E i \in 1 .. m + 1 : \E k \in 1 .. Len(ss[i]) : c[j] = ss[i][k]
      <4>1. CASE j \in 1 .. Len(a)
        <5>1. PICK i \in 1 .. m : \E k \in 1 .. Len(ss[i]) : a[j] = ss[i][k]
          BY <3>3, <4>1 DEF FlatOf, a
        <5>2. i \in 1 .. m + 1
          BY <3>2
        <5> QED  BY <3>7, <4>1, <5>1, <5>2
      <4>2. ASSUME NEW k \in 1 .. Len(b), j = Len(a) + k
            PROVE  \E i \in 1 .. m + 1 : \E l \in 1 .. Len(ss[i]) : c[j] = ss[i][l]
        <5>1. c[j] = b[k] /\ m + 1 \in 1 .. m + 1
          BY <3>2, <3>7, <4>2
        <5> QED  BY <5>1 DEF b
      <4> QED  BY <3>7, <4>1, <4>2
    <3>9. ASSUME \A i \in 1 .. m + 1 : Len(ss[i]) = 1
          PROVE  Len(c) = m + 1 /\ \A j \in 1 .. m + 1 : c[j] = ss[j][1]
      <4>1. \A i \in 1 .. m : i \in 1 .. m + 1
        BY <3>2
      <4>2. Len(a) = m /\ \A j \in 1 .. m : a[j] = ss[j][1]
        BY <3>3, <3>9, <4>1 DEF FlatOf, a
      <4>3. Len(b) = 1 /\ m + 1 \in 1 .. m + 1
        BY <3>2, <3>9 DEF b
      <4>4. c[m + 1] = ss[m + 1][1]
        BY <3>7, <4>2, <4>3 DEF b
      <4>5. Len(c) = m + 1
        BY <3>2, <3>7, <4>2, <4>3
      <4>6. ASSUME NEW j \in 1 .. m + 1 PROVE c[j] = ss[j][1]
        <5>1. CASE j \in 1 .. m
          BY <3>7, <4>2, <5>1
        <5>2. CASE j = m + 1
          BY <4>4, <5>2
        <5>3. j \in 1 .. m \/ j = m + 1
          BY <3>2
        <5> QED  BY <5>1, <5>2, <5>3
      <4> QED  BY <4>5, <4>6
    <3>10. FlatOf(c, ss, m + 1, T)
      BY <3>7, <3>8, <3>9 DEF FlatOf
    <3> QED  BY <3>1, <3>6, <3>10
  <2> HIDE DEF N
  <2>5. \A n \in Nat : n \in N
    BY <2>3, <2>4, NatSetInduction, SMTT(60)
  <2>6. PICK n \in Nat : n + 1 = Len(ss)
    <3>1. Len(ss) - 1 \in Nat /\ (Len(ss) - 1) + 1 = Len(ss)
      BY <1>0, <1>2
    <3> QED  BY <3>1
  <2>7. FlatOf(f[n + 1], ss, n + 1, T)
    <3>1. n \in N /\ n + 1 <= Len(ss)
      BY <1>0, <2>5, <2>6
    <3> QED  BY <3>1 DEF N
  <2> QED  BY <2>2, <2>6, <2>7
<1> QED  BY <1>1, <1>2
-----------------------------------------------------------------------------
(* What buildEudaqEvents returns. *)

(* s consists of entries of data, and the triggers in it have the BXID b. *)
Copied(s, data) ==
  s \in Seq(EntryType) /\ \A k \in 1 .. Len(s) : \E l \in 1 .. Len(data) : s[k] = data[l]

InBxid(s, b, start) ==
  \A k \in 1 .. Len(s) : s[k].kind = "trigger" => Bxid(s[k].ts, start) = b

Block(s, data, b, start) == Copied(s, data) /\ InBxid(s, b, start)

LEMMA BlockConcat ==
  ASSUME NEW data, NEW b, NEW start, NEW s, NEW t,
         Block(s, data, b, start), Block(t, data, b, start)
  PROVE  Block(s \o t, data, b, start)
<1>1. s \in Seq(EntryType) /\ t \in Seq(EntryType)
  BY DEF Block, Copied
<1> DEFINE u == s \o t
<1>2. /\ u \in Seq(EntryType)
      /\ \A i \in 1 .. Len(s) : u[i] = s[i]
      /\ \A i \in 1 .. Len(t) : u[Len(s) + i] = t[i]
      /\ \A i \in 1 .. Len(u) : \/ i \in 1 .. Len(s)
                                \/ \E k \in 1 .. Len(t) : i = Len(s) + k
  BY <1>1, Concatenated
<1> HIDE DEF u
<1>3. ASSUME NEW i \in 1 .. Len(u)
      PROVE  /\ \E l \in 1 .. Len(data) : u[i] = data[l]
             /\ u[i].kind = "trigger" => Bxid(u[i].ts, start) = b
  <2>1. CASE i \in 1 .. Len(s)
    BY <1>2, <2>1 DEF Block, Copied, InBxid
  <2>2. ASSUME NEW k \in 1 .. Len(t), i = Len(s) + k
        PROVE  /\ \E l \in 1 .. Len(data) : u[i] = data[l]
               /\ u[i].kind = "trigger" => Bxid(u[i].ts, start) = b
    BY <1>2, <2>2, ZenonT(60) DEF Block, Copied, InBxid
  <2> QED  BY <1>2, <2>1, <2>2
<1>4. Block(u, data, b, start)
  BY <1>2, <1>3 DEF Block, Copied, InBxid
<1> QED  BY <1>4 DEF u

LEMMA EntriesSelected ==
  ASSUME NEW data \in Seq(EntryType), NEW S
  PROVE  \E h : /\ Lists(h, S, Len(data)) /\ Len(h) = Len(Selected(data, S))
               /\ \A k \in 1 .. Len(h) : Selected(data, S)[k] = data[h[k]]
BY SelectedPlaces

LEMMA EntriesOfKind ==
  ASSUME NEW data \in Seq(EntryType), NEW kind
  PROVE  /\ Copied(OfKind(data, kind), data)
         /\ \A k \in 1 .. Len(OfKind(data, kind)) : OfKind(data, kind)[k].kind = kind
<1> DEFINE S == {i \in DOMAIN data : data[i].kind = kind}
           s == Selected(data, S)
<1>1. s \in Seq(EntryType)
  BY SelectedPlaces
<1>2. PICK h : /\ Lists(h, S, Len(data)) /\ Len(h) = Len(s)
               /\ \A k \in 1 .. Len(h) : s[k] = data[h[k]]
  <2> HIDE DEF S
  <2>1. \E h : /\ Lists(h, S, Len(data)) /\ Len(h) = Len(Selected(data, S))
              /\ \A k \in 1 .. Len(h) : Selected(data, S)[k] = data[h[k]]
    BY EntriesSelected
  <2> QED  BY <2>1
<1> HIDE DEF s
<1>3. ASSUME NEW k \in 1 .. Len(s)
      PROVE  (\E l \in 1 .. Len(data) : s[k] = data[l]) /\ s[k].kind = kind
  <2>1. h[k] \in S /\ h[k] \in 1 .. Len(data) /\ s[k] = data[h[k]]
    BY <1>2 DEF Lists
  <2> QED  BY <2>1
<1>4. Copied(s, data) /\ \A k \in 1 .. Len(s) : s[k].kind = kind
  BY <1>1, <1>3 DEF Copied
<1> QED  BY <1>4 DEF s, OfKind

(* The start and the stop that are copied into an event. *)
LEMMA LastIsCopied ==
  ASSUME NEW data \in Seq(EntryType), NEW kind, kind # "trigger", NEW b, NEW start
  PROVE  Block(LastOf(data, kind), data, b, start)
<1> DEFINE s == OfKind(data, kind)
<1>1. Copied(s, data) /\ \A k \in 1 .. Len(s) : s[k].kind = kind
  BY EntriesOfKind
<1>2. LastOf(data, kind) = IF s = <<>> THEN <<>> ELSE <<Last(s)>>
  BY DEF LastOf
<1> HIDE DEF s
<1>3. CASE s = <<>>
  BY <1>2, <1>3 DEF Block, Copied, InBxid
<1>4. CASE s # <<>>
  <2>1. s \in Seq(EntryType) /\ Len(s) \in Nat /\ Len(s) # 0
    BY <1>1, <1>4, EmptySeq, LenProperties DEF Copied
  <2>2. Len(s) \in 1 .. Len(s)
    BY <2>1
  <2>3. PICK x \in EntryType : x = Last(s)
    BY <2>1, <2>2, ElementOfSeq DEF Last
  <2>4. x.kind = kind /\ \E l \in 1 .. Len(data) : x = data[l]
    BY <1>1, <2>2, <2>3 DEF Copied, Last
  <2>5. <<x>> \in Seq(EntryType) /\ Len(<<x>>) = 1 /\ <<x>>[1] = x
    OBVIOUS
  <2>6. Block(<<x>>, data, b, start)
    BY <2>4, <2>5 DEF Block, Copied, InBxid
  <2> QED  BY <1>2, <1>4, <2>3, <2>6
<1> QED  BY <1>3, <1>4

LEMMA OneTrigger ==
  ASSUME NEW data, NEW start, NEW x \in EntryType, \E l \in 1 .. Len(data) : x = data[l]
  PROVE  Block(<<x>>, data, Bxid(x.ts, start), start)
<1>1. <<x>> \in Seq(EntryType) /\ Len(<<x>>) = 1 /\ <<x>>[1] = x
  OBVIOUS
<1> QED  BY <1>1 DEF Block, Copied, InBxid

LEMMA BlockEmpty ==
  ASSUME NEW data, NEW b, NEW start
  PROVE  Block(<<>>, data, b, start)
BY DEF Block, Copied, InBxid

(* A BXID is a number. *)
LEMMA BxidInt ==
  ASSUME NEW ts \in Int, NEW start \in Int
  PROVE  Bxid(ts, start) \in Int
<1>1. PICK a \in Int : a = ts - start - BxidOffset
  BY BifAssumption
<1>2. PICK n \in Int : n = -a
  OBVIOUS
<1>3. BxidLength \in Nat \ {0}
  BY BifAssumption
<1>4. a \div BxidLength \in Int /\ n \div BxidLength \in Int
  BY <1>3, DivMod
<1>5. PICK p \in Int, q \in Int : p = a \div BxidLength /\ q = n \div BxidLength
  BY <1>4
<1>6. Quotient(a, BxidLength) \in {p, -q}
  BY <1>2, <1>5 DEF Quotient
<1> QED  BY <1>1, <1>6 DEF Bxid

(* An event is of the cycle that was built, and in the modes with a BXID all
   the triggers in it have that BXID. *)
WellBuilt(evs, data, roc, start) ==
  /\ evs \in Seq(EventType)
  /\ \A i \in 1 .. Len(evs) :
       /\ evs[i].roc = roc + CountRocFrom
       /\ Copied(evs[i].data, data)
       /\ mode # "ROC" => InBxid(evs[i].data, evs[i].bxid, start)

LEMMA EventBuilt ==
  ASSUME NEW roc \in Int, NEW bxid \in Int, NEW trigN \in Int, NEW data \in Seq(EntryType)
  PROVE  /\ Event(roc, bxid, trigN, data) \in EventType
         /\ Event(roc, bxid, trigN, data).roc = roc + CountRocFrom
         /\ Event(roc, bxid, trigN, data).bxid = bxid
         /\ Event(roc, bxid, trigN, data).data = data
<1>1. roc + CountRocFrom \in Int
  BY BifAssumption
<1> QED  BY <1>1 DEF Event, EventType

(* A sequence of n events, given by its elements. *)
LEMMA EventSeq ==
  ASSUME NEW n \in Nat, NEW f, f = [i \in 1 .. n |-> f[i]], \A i \in 1 .. n : f[i] \in EventType
  PROVE  f \in Seq(EventType) /\ Len(f) = n
<1>1. f \in [1 .. n -> EventType]
  OBVIOUS
<1>2. f \in Seq(EventType) /\ DOMAIN f = 1 .. n
  BY <1>1, SeqDef
<1> QED  BY <1>2, LenProperties

LEMMA BuiltRoc ==
  ASSUME NEW data \in Seq(EntryType), NEW roc \in Int, NEW start, mode = "ROC"
  PROVE  /\ WellBuilt(buildEudaqEventsROC(data, roc), data, roc, start)
         /\ Len(buildEudaqEventsROC(data, roc)) = 1
         /\ buildEudaqEventsROC(data, roc)[1].data = data
<1> DEFINE e == Event(roc, 0, roc, data)
<1>1. e \in EventType /\ e.roc = roc + CountRocFrom /\ e.data = data
  BY EventBuilt
<1>2. buildEudaqEventsROC(data, roc) = <<e>>
  BY DEF buildEudaqEventsROC
<1> HIDE DEF e
<1>3. Copied(data, data)
  BY DEF Copied
<1>4. <<e>> \in Seq(EventType) /\ Len(<<e>>) = 1 /\ <<e>>[1] = e
  BY <1>1
<1>5. WellBuilt(<<e>>, data, roc, start)
  BY <1>1, <1>3, <1>4 DEF WellBuilt
<1> QED  BY <1>1, <1>2, <1>4, <1>5

LEMMA BuiltTriggers ==
  ASSUME NEW data \in Seq(EntryType), NEW roc \in Int, NEW start \in Int,
         firstTriggerNumber \in Int
  PROVE  WellBuilt(buildEudaqEventsTriggers(data, roc, start), data, roc, start)
<1> DEFINE trigs == OfKind(data, "trigger")
           before == LastOf(data, "start")
           after == LastOf(data, "stop")
           f == [i \in DOMAIN trigs |->
                   Event(roc, Bxid(trigs[i].ts, start), trigs[i].no - firstTriggerNumber,
                         before \o <<trigs[i]>> \o after)]
<1>1. Copied(trigs, data)
  BY EntriesOfKind
<1>2. \A b : Block(before, data, b, start) /\ Block(after, data, b, start)
  BY LastIsCopied
<1>3. f = buildEudaqEventsTriggers(data, roc, start)
  BY DEF buildEudaqEventsTriggers
<1> HIDE DEF trigs, before, after
<1>4. DOMAIN trigs = 1 .. Len(trigs) /\ Len(trigs) \in Nat
      /\ \A i \in 1 .. Len(trigs) : trigs[i] \in EntryType
  BY <1>1, LenProperties, ElementOfSeq DEF Copied
<1>5. ASSUME NEW i \in 1 .. Len(trigs)
      PROVE  /\ f[i] \in EventType /\ f[i].roc = roc + CountRocFrom
             /\ Copied(f[i].data, data) /\ InBxid(f[i].data, f[i].bxid, start)
  <2> DEFINE b == Bxid(trigs[i].ts, start)
             s == before \o <<trigs[i]>> \o after
             n == trigs[i].no - firstTriggerNumber
  <2>1. f[i] = Event(roc, b, n, s)
    BY <1>4
  <2>2. trigs[i] \in EntryType /\ trigs[i].ts \in Int /\ trigs[i].no \in Int
        /\ \E l \in 1 .. Len(data) : trigs[i] = data[l]
    BY <1>1, <1>4, SMTT(60) DEF EntryType, Copied
  <2>3. b \in Int /\ n \in Int
    <3>1. b \in Int
      BY <2>2, BxidInt
    <3>2. n \in Int
      BY <2>2
    <3> QED  BY <3>1, <3>2
  <2>4. Block(s, data, b, start)
    <3>1. Block(<<trigs[i]>>, data, b, start)
      BY <2>2, OneTrigger
    <3> HIDE DEF b
    <3>2. Block(before \o <<trigs[i]>>, data, b, start)
      BY <1>2, <3>1, BlockConcat
    <3> QED  BY <1>2, <3>2, BlockConcat
  <2> HIDE DEF b, s, n
  <2>5. s \in Seq(EntryType)
    BY <2>4 DEF Block, Copied
  <2>6. f[i] \in EventType /\ f[i].roc = roc + CountRocFrom /\ f[i].bxid = b /\ f[i].data = s
    BY <2>1, <2>3, <2>5, EventBuilt
  <2> QED  BY <2>4, <2>6 DEF Block
<1>6. f = [i \in 1 .. Len(trigs) |-> f[i]]
  BY <1>4
<1> HIDE DEF f
<1>7. f \in Seq(EventType) /\ Len(f) = Len(trigs)
  BY <1>4, <1>5, <1>6, EventSeq
<1>8. WellBuilt(f, data, roc, start)
  BY <1>5, <1>7 DEF WellBuilt
<1> QED  BY <1>3, <1>8

(* Copies that are blocks of the same BXID make up such a block. *)
LEMMA BlocksFlattened ==
  ASSUME NEW n \in Nat, NEW ss, ss = [j \in 1 .. n |-> ss[j]], NEW data, NEW b, NEW start,
         \A j \in 1 .. n : Block(ss[j], data, b, start)
  PROVE  Block(FlattenSeq(ss), data, b, start)
<1>1. ss \in Seq(Seq(EntryType)) /\ Len(ss) = n
  <2>1. \A j \in 1 .. n : ss[j] \in Seq(EntryType)
    BY DEF Block, Copied
  <2>2. ss \in [1 .. n -> Seq(EntryType)]
    BY <2>1
  <2>3. ss \in Seq(Seq(EntryType)) /\ DOMAIN ss = 1 .. n
    BY <2>2, SeqDef
  <2> QED  BY <2>3, LenProperties
<1> DEFINE fl == FlattenSeq(ss)
<1>2. FlatOf(fl, ss, n, EntryType)
  BY <1>1, Flattened
<1> HIDE DEF fl
<1>3. fl \in Seq(EntryType)
  BY <1>2 DEF FlatOf
<1>4. ASSUME NEW k \in 1 .. Len(fl)
      PROVE  /\ \E l \in 1 .. Len(data) : fl[k] = data[l]
             /\ fl[k].kind = "trigger" => Bxid(fl[k].ts, start) = b
  <2>1. PICK j \in 1 .. n : \E i \in 1 .. Len(ss[j]) : fl[k] = ss[j][i]
    BY <1>2 DEF FlatOf
  <2>2. PICK i \in 1 .. Len(ss[j]) : fl[k] = ss[j][i]
    BY <2>1
  <2> QED  BY <2>2 DEF Block, Copied, InBxid
<1>5. Block(fl, data, b, start)
  BY <1>3, <1>4 DEF Block, Copied, InBxid
<1> QED  BY <1>5 DEF fl

LEMMA BuiltBxid ==
  ASSUME NEW data \in Seq(EntryType), NEW roc \in Int, NEW start \in Int,
         firstTriggerNumber \in Int
  PROVE  WellBuilt(buildEudaqEventsBxid(data, roc, start), data, roc, start)
<1> DEFINE trigs    == OfKind(data, "trigger")
           before   == LastOf(data, "start")
           after    == LastOf(data, "stop")
           bxid(i)  == Bxid(trigs[i].ts, start)
           S        == {i \in DOMAIN trigs : i = 1 \/ bxid(i) # bxid(i - 1)}
           begins   == Selected([i \in DOMAIN trigs |-> i], S)
           end(k)   == IF k = Len(begins) THEN Len(trigs) ELSE begins[k + 1] - 1
           copy(i)  == (IF i = 1 \/ bxid(i) = bxid(i - 1) THEN <<trigs[i]>> ELSE <<>>)
                       \o before \o <<trigs[i]>>
           copies(k) == [j \in 1 .. end(k) - begins[k] + 1 |-> copy(begins[k] + j - 1)]
           f == [k \in DOMAIN begins |->
                  Event(roc, bxid(begins[k]), trigs[begins[k]].no - firstTriggerNumber,
                        FlattenSeq(copies(k)) \o after)]
<1>1. Copied(trigs, data)
  BY EntriesOfKind
<1>2. \A b : Block(before, data, b, start) /\ Block(after, data, b, start)
  BY LastIsCopied
<1>3. f = buildEudaqEventsBxid(data, roc, start)
  BY DEF buildEudaqEventsBxid
<1> HIDE DEF trigs, before, after
<1>4. /\ DOMAIN trigs = 1 .. Len(trigs) /\ Len(trigs) \in Nat
      /\ \A i \in 1 .. Len(trigs) : trigs[i] \in EntryType
  BY <1>1, LenProperties, ElementOfSeq DEF Copied
<1>5. Lists(begins, S, Len(trigs))
  <2> HIDE DEF S
  <2> QED  BY <1>4, SelectedIndices
<1> DEFINE v == [i \in 1 .. Len(trigs) |-> bxid(i)]
<1>6. \A i \in 1 .. Len(trigs) : i \notin S => i - 1 \in 1 .. Len(trigs) /\ v[i] = v[i - 1]
  <2> SUFFICES ASSUME NEW i \in 1 .. Len(trigs), i \notin S
               PROVE  i - 1 \in 1 .. Len(trigs) /\ v[i] = v[i - 1]
    OBVIOUS
  <2>1. i # 1 /\ bxid(i) = bxid(i - 1)
    BY <1>4
  <2>2. i - 1 \in 1 .. Len(trigs)
    BY <1>4, <2>1
  <2> QED  BY <2>1, <2>2
<1> HIDE DEF begins
<1>7. begins \in Seq(Nat) /\ DOMAIN begins = 1 .. Len(begins) /\ Len(begins) \in Nat
  <2>1. begins \in Seq(Nat)
    BY <1>5, Zenon DEF Lists
  <2> QED  BY <2>1, LenProperties
<1>8. ASSUME NEW k \in 1 .. Len(begins)
      PROVE  /\ f[k] \in EventType /\ f[k].roc = roc + CountRocFrom
             /\ Copied(f[k].data, data) /\ InBxid(f[k].data, f[k].bxid, start)
  <2> DEFINE b == bxid(begins[k])
             s == FlattenSeq(copies(k)) \o after
             n == trigs[begins[k]].no - firstTriggerNumber
             m == end(k) - begins[k] + 1
  <2>1. f[k] = Event(roc, b, n, s)
    BY <1>7
  <2>2. /\ begins[k] \in 1 .. Len(trigs) /\ end(k) \in begins[k] .. Len(trigs)
        /\ \A i \in begins[k] .. end(k) : v[i] = v[begins[k]]
    <3> HIDE DEF v, S
    <3> QED  BY <1>4, <1>5, <1>6, ConstantBetween
  <2>3. \A i \in begins[k] .. end(k) : i \in 1 .. Len(trigs) /\ bxid(i) = b
    <3> SUFFICES ASSUME NEW i \in begins[k] .. end(k)
                 PROVE  i \in 1 .. Len(trigs) /\ bxid(i) = b
      OBVIOUS
    <3>1. i \in 1 .. Len(trigs)
      BY <1>4, <2>2
    <3>2. v[i] = v[begins[k]]
      BY <2>2
    <3> QED  BY <2>2, <3>1, <3>2
  <2>4. \A i \in begins[k] .. end(k) : Block(copy(i), data, b, start)
    <3> SUFFICES ASSUME NEW i \in begins[k] .. end(k)
                 PROVE  Block(copy(i), data, b, start)
      OBVIOUS
    <3>1. trigs[i] \in EntryType /\ \E l \in 1 .. Len(data) : trigs[i] = data[l]
      BY <1>1, <1>4, <2>3 DEF Copied
    <3>2. Block(<<trigs[i]>>, data, bxid(i), start) /\ bxid(i) = b
      BY <2>3, <3>1, OneTrigger
    <3> HIDE DEF b
    <3>3. Block(<<trigs[i]>>, data, b, start)
      BY <3>2
    <3> DEFINE first == IF i = 1 \/ bxid(i) = bxid(i - 1) THEN <<trigs[i]>> ELSE <<>>
    <3>4. Block(first, data, b, start)
      BY <3>3, BlockEmpty
    <3>5. copy(i) = first \o before \o <<trigs[i]>>
      OBVIOUS
    <3> HIDE DEF first
    <3>6. Block(first \o before, data, b, start)
      BY <1>2, <3>4, BlockConcat
    <3>7. Block(first \o before \o <<trigs[i]>>, data, b, start)
      BY <3>3, <3>6, BlockConcat
    <3> QED  BY <3>5, <3>7
  <2>5. m \in Nat /\ \A j \in 1 .. m : begins[k] + j - 1 \in begins[k] .. end(k)
    BY <1>4, <2>2, SMTT(60)
  <2>6. ASSUME NEW ss, ss = copies(k) PROVE Block(FlattenSeq(ss), data, b, start)
    <3>1. ss = [j \in 1 .. m |-> ss[j]] /\ \A j \in 1 .. m : ss[j] = copy(begins[k] + j - 1)
      BY <2>6
    <3> HIDE DEF copy, b, m
    <3>2. \A j \in 1 .. m : Block(ss[j], data, b, start)
      BY <2>4, <2>5, <3>1
    <3> QED  BY <2>5, <3>1, <3>2, BlocksFlattened
  <2>7. Block(s, data, b, start)
    <3> HIDE DEF b, copies
    <3> QED  BY <1>2, <2>6, BlockConcat
  <2>8. trigs[begins[k]] \in EntryType /\ trigs[begins[k]].ts \in Int /\ trigs[begins[k]].no \in Int
    BY <1>4, <2>2 DEF EntryType
  <2>9. b \in Int
    BY <2>8, BxidInt
  <2>10. n \in Int
    BY <2>8
  <2> HIDE DEF b, s, n
  <2>11. s \in Seq(EntryType)
    BY <2>7 DEF Block, Copied
  <2>12. f[k] \in EventType /\ f[k].roc = roc + CountRocFrom /\ f[k].bxid = b /\ f[k].data = s
    BY <2>1, <2>9, <2>10, <2>11, EventBuilt
  <2> QED  BY <2>7, <2>12, Zenon DEF Block
<1>9. f = [k \in 1 .. Len(begins) |-> f[k]]
  BY <1>7
<1> HIDE DEF f
<1>10. f \in Seq(EventType) /\ Len(f) = Len(begins)
  BY <1>7, <1>8, <1>9, EventSeq
<1>11. WellBuilt(f, data, roc, start)
  BY <1>8, <1>10 DEF WellBuilt
<1> QED  BY <1>3, <1>11

(* What the build needs to know of the state. *)
Buildable == mode \in {"ROC", "TRIGGERS", "BXID"} /\ firstTriggerNumber \in Int

LEMMA Built ==
  ASSUME Buildable, NEW data \in Seq(EntryType), NEW roc \in Int, NEW start \in Int
  PROVE  /\ WellBuilt(buildEudaqEvents(data, roc, start), data, roc, start)
         /\ mode = "ROC" => /\ Len(buildEudaqEvents(data, roc, start)) = 1
                            /\ buildEudaqEvents(data, roc, start)[1].data = data
<1> USE DEF Buildable
<1>1. CASE mode = "ROC"
  BY <1>1, BuiltRoc DEF buildEudaqEvents
<1>2. CASE mode = "TRIGGERS"
  BY <1>2, BuiltTriggers DEF buildEudaqEvents
<1>3. CASE mode = "BXID"
  BY <1>3, BuiltBxid DEF buildEudaqEvents
<1> QED  BY <1>1, <1>2, <1>3

(* The padding contains nothing but the rest, and in the ROC mode one event
   for every lost cycle. *)
Padded(p, rest, old, lost) ==
  /\ p \in Seq(EventType)
  /\ \A j \in 1 .. Len(p) : Copied(p[j].data, rest)
  /\ mode = "ROC" => Len(p) = lost /\ \A j \in 1 .. lost : p[j].roc = old + j + CountRocFrom

LEMMA PaddingBuilt ==
  ASSUME Buildable, NEW rest \in Seq(EntryType), NEW old \in Int, NEW lost \in Nat, NEW ts \in Int
  PROVE  Padded(Padding(rest, old, lost, ts), rest, old, lost)
<1> DEFINE d(i) == IF i = 1 THEN rest ELSE <<>>
           ss == [i \in 1 .. lost |-> buildEudaqEvents(d(i), old + i, ts)]
           p == FlattenSeq(ss)
<1>1. p = Padding(rest, old, lost, ts)
  BY DEF Padding
<1>2. ASSUME NEW i \in 1 .. lost
      PROVE  /\ WellBuilt(ss[i], d(i), old + i, ts)
             /\ mode = "ROC" => Len(ss[i]) = 1
  <2>1. d(i) \in Seq(EntryType) /\ old + i \in Int
    OBVIOUS
  <2>2. ss[i] = buildEudaqEvents(d(i), old + i, ts)
    OBVIOUS
  <2> HIDE DEF d, ss
  <2>3. WellBuilt(ss[i], d(i), old + i, ts)
    BY <2>1, <2>2, Built
  <2>4. mode = "ROC" => Len(ss[i]) = 1
    BY <2>1, <2>2, Built
  <2> QED  BY <2>3, <2>4
<1>3. ss = [i \in 1 .. lost |-> ss[i]]
  OBVIOUS
<1> HIDE DEF ss
<1>4. ss \in Seq(Seq(EventType)) /\ Len(ss) = lost
  <2>1. \A i \in 1 .. lost : ss[i] \in Seq(EventType)
    BY <1>2 DEF WellBuilt
  <2>2. ss \in [1 .. lost -> Seq(EventType)]
    BY <1>3, <2>1
  <2>3. ss \in Seq(Seq(EventType)) /\ DOMAIN ss = 1 .. lost
    BY <2>2, SeqDef
  <2> QED  BY <2>3, LenProperties
<1>5. FlatOf(p, ss, lost, EventType)
  BY <1>4, Flattened
<1> HIDE DEF p
<1>6. ASSUME NEW j \in 1 .. Len(p) PROVE Copied(p[j].data, rest)
  <2>1. PICK i \in 1 .. lost : \E k \in 1 .. Len(ss[i]) : p[j] = ss[i][k]
    BY <1>5 DEF FlatOf
  <2>2. Copied(p[j].data, d(i))
    BY <1>2, <2>1 DEF WellBuilt
  <2>3. CASE i = 1
    BY <2>2, <2>3
  <2>4. CASE i # 1
    <3>1. Copied(p[j].data, <<>>)
      BY <2>2, <2>4
    <3>2. Len(<<>>) = 0 /\ 1 .. 0 = {}
      OBVIOUS
    <3> QED  BY <3>1, <3>2 DEF Copied
  <2> QED  BY <2>3, <2>4
<1>7. ASSUME mode = "ROC"
      PROVE  Len(p) = lost /\ \A j \in 1 .. lost : p[j].roc = old + j + CountRocFrom
  <2>1. \A i \in 1 .. lost : Len(ss[i]) = 1
    BY <1>2, <1>7
  <2>2. Len(p) = lost /\ \A j \in 1 .. lost : p[j] = ss[j][1]
    BY <1>5, <2>1 DEF FlatOf
  <2>3. \A j \in 1 .. lost : ss[j][1].roc = old + j + CountRocFrom
    BY <1>2, <2>1 DEF WellBuilt
  <2> QED  BY <2>2, <2>3
<1>8. p \in Seq(EventType)
  BY <1>5 DEF FlatOf
<1>9. Padded(p, rest, old, lost)
  BY <1>6, <1>7, <1>8 DEF Padded
<1> QED  BY <1>1, <1>9
-----------------------------------------------------------------------------
(* A start in a fresh run: either the last one arrived again, and nothing is
   built, or an unstopped cycle is built and the lost cycles are padded. *)
StartAgain(w) ==
  /\ ROC_started /\ UNCHANGED <<deqEvent, ReadoutCycle, firstOn>>
  /\ cycleData' = Append(cycleData, Entry("start", ReadoutCycle, w.ts, w.of))

StartNew(w, built, rest, lost) ==
  /\ IF ROC_started
     THEN built = buildEudaqEvents(cycleData, ReadoutCycle, acq_start_ts) /\ rest = <<>>
     ELSE built = <<>> /\ rest = cycleData
  /\ IF lastOn = -1 THEN lost = 0 /\ ~ROC_started ELSE firstOn' = firstOn
  /\ lost \in Nat
  /\ ReadoutCycle' = ReadoutCycle + 1 + lost
  /\ deqEvent' = deqEvent \o built \o Padding(rest, ReadoutCycle, lost, w.ts)
  /\ cycleData' = Append(IF lost > 0 THEN <<>> ELSE rest,
                         Entry("start", ReadoutCycle + 1 + lost, w.ts, w.of))

LEMMA NewStartBuilds ==
  ASSUME CycleInv, fresh, NEW w, w.no = (hwCycle + 1) % CycleMod, ShutterOn(w)
  PROVE  \E built, rest, lost : StartNew(w, built, rest, lost)
<1> USE DEF CycleInv, CycleTypes, CycleNumbers, CycleFlags
<1>1. CASE lastOn = -1
  <2>1. ReadoutCycle = -1 /\ ~ROC_started
    BY <1>1 DEF CycleFollowed, OpenInv
  <2>2. ~Repeated(w.no) /\ ~BuildsUnstopped(w.no)
    BY <2>1 DEF Repeated, BuildsUnstopped
  <2>3. StartNew(w, <<>>, cycleData, 0)
    BY <1>1, <2>1, <2>2 DEF StartNew, ShutterOn
  <2> QED  BY <2>3
<1>2. CASE lastOn # -1
  <2>1. PICK d \in Nat : d = hwCycle - lastOn
    BY <1>2, NewDistance
  <2>2. /\ Missing(w.no, ReadoutCycle + 1) = d /\ ReadoutCycle # -1
        /\ ~Repeated(w.no) /\ (BuildsUnstopped(w.no) <=> ROC_started)
    BY <1>2, <2>1, NewDistance
  <2>3. CASE ROC_started
    <3>1. StartNew(w, buildEudaqEvents(cycleData, ReadoutCycle, acq_start_ts), <<>>, d)
      BY <1>2, <2>2, <2>3 DEF StartNew, ShutterOn
    <3> QED  BY <3>1
  <2>4. CASE ~ROC_started
    <3>1. StartNew(w, <<>>, cycleData, d)
      BY <1>2, <2>2, <2>4 DEF StartNew, ShutterOn
    <3> QED  BY <3>1
  <2> QED  BY <2>3, <2>4
<1> QED  BY <1>1, <1>2

LEMMA RepeatedStartBuilds ==
  ASSUME CycleInv, fresh, hwOn, onDelivered, deqEvent \in Seq(EventType),
         NEW w, w.no = hwCycle % CycleMod, w.of.cyc = hwCycle, ShutterOn(w)
  PROVE  StartAgain(w)
<1> USE DEF CycleInv, CycleTypes, CycleNumbers, CycleFlags
<1>1. /\ Repeated(w.no) /\ ~BuildsUnstopped(w.no) /\ ROC_started
      /\ Missing(w.no, (ReadoutCycle - 1) + 1) = 0
  BY RepeatedDistance
<1>2. UNCHANGED <<ReadoutCycle, firstOn>>
  BY RepeatedStart
<1>3. Padding(cycleData, ReadoutCycle - 1, 0, w.ts) = <<>>
  <2>1. [i \in 1 .. 0 |-> buildEudaqEvents(IF i = 1 THEN cycleData ELSE <<>>,
                                           (ReadoutCycle - 1) + i, w.ts)] = <<>>
    OBVIOUS
  <2>2. FlattenSeq(<<>>) = <<>>
    BY DEF FlattenSeq
  <2> QED BY <2>1, <2>2 DEF Padding
<1>4. /\ deqEvent' = deqEvent \o <<>> \o Padding(cycleData, ReadoutCycle - 1, 0, w.ts)
      /\ cycleData' = Append(cycleData, Entry("start", (ReadoutCycle - 1) + 1 + 0, w.ts, w.of))
  BY <1>1, SMTT(60) DEF ShutterOn
<1>5. deqEvent' = deqEvent
  BY <1>3, <1>4
<1>6. (ReadoutCycle - 1) + 1 + 0 = ReadoutCycle
  OBVIOUS
<1> QED BY <1>1, <1>2, <1>4, <1>5, <1>6 DEF StartAgain
-----------------------------------------------------------------------------
(* Type correctness. *)
LEMMA EntryTyped ==
  ASSUME NEW kind \in {"start", "stop", "trigger"}, NEW no \in Int, NEW ts \in Nat, NEW of \in PlaceType
  PROVE  /\ Entry(kind, no, ts, of) \in EntryType
         /\ Entry(kind, no, ts, of).kind = kind
         /\ Entry(kind, no, ts, of).of = of
BY DEF Entry, EntryType

LEMMA BuildableTyped ==
  ASSUME TypeOK
  PROVE  Buildable
BY BifAssumption DEF TypeOK, Buildable

LEMMA ShutterTyped ==
  ASSUME TypeOK, NEW cyc \in Nat, NEW ts \in Nat, NEW start \in Nat
  PROVE  /\ Shutter(cyc, ts, start).no = cyc % CycleMod
         /\ Shutter(cyc, ts, start).no \in 0 .. CycleMod - 1
         /\ Shutter(cyc, ts, start).ts = ts
         /\ Shutter(cyc, ts, start).of \in PlaceType
         /\ Shutter(cyc, ts, start).of.cyc = cyc
<1>1. CycleMod \in Nat \ {0}
  BY BifAssumption
<1>2. cyc % CycleMod \in 0 .. CycleMod - 1
  BY <1>1, DivMod
<1>3. clock \in Nat
  BY DEF TypeOK
<1> QED  BY <1>2, <1>3 DEF Shutter, PlaceType

LEMMA ShutterAgain ==
  ASSUME TypeOK, NEW w, w = Shutter(hwCycle, hwStart, hwStart)
  PROVE  /\ w.no = hwCycle % CycleMod /\ w.no \in 0 .. CycleMod - 1
         /\ w.ts = hwStart /\ w.ts \in Nat
         /\ w.of \in PlaceType /\ w.of.cyc = hwCycle
<1>1. hwCycle \in Nat /\ hwStart \in Nat
  BY DEF TypeOK
<1> QED  BY <1>1, ShutterTyped

LEMMA StartTyped ==
  ASSUME TypeOK, NEW w, w.no \in 0 .. CycleMod - 1, w.ts \in Nat, w.of \in PlaceType, ShutterOn(w)
  PROVE  /\ ReadoutCycle' \in Int /\ firstShutterCycle' \in -1 .. CycleMod - 1
         /\ acq_start_ts' \in Nat /\ firstOn' \in Int
         /\ cycleData' \in Seq(EntryType) /\ deqEvent' \in Seq(EventType)
<1>1. /\ ReadoutCycle \in Int /\ firstShutterCycle \in -1 .. CycleMod - 1 /\ acq_start_ts \in Int
      /\ firstOn \in Int /\ cycleData \in Seq(EntryType) /\ deqEvent \in Seq(EventType)
  BY DEF TypeOK
<1>2. w.of.cyc \in Int
  BY DEF PlaceType
<1> DEFINE old  == IF Repeated(w.no) THEN ReadoutCycle - 1 ELSE ReadoutCycle
           lost == IF old = -1 THEN 0 ELSE Missing(w.no, old + 1)
           built == IF BuildsUnstopped(w.no)
                    THEN buildEudaqEvents(cycleData, ReadoutCycle, acq_start_ts)
                    ELSE <<>>
           rest  == IF BuildsUnstopped(w.no) THEN <<>> ELSE cycleData
<1>3. old \in Int
  BY <1>1
<1>4. lost \in Nat
  <2> HIDE DEF old
  <2>1. PICK a \in Int : a = w.no - firstShutterCycle - (old + 1)
    BY <1>1, <1>3
  <2>2. CycleMod \in Nat \ {0}
    BY BifAssumption
  <2>3. a % CycleMod \in 0 .. CycleMod - 1
    BY <2>2, DivMod
  <2> QED  BY <2>1, <2>2, <2>3 DEF Missing
<1>5. built \in Seq(EventType)
  <2>1. buildEudaqEvents(cycleData, ReadoutCycle, acq_start_ts) \in Seq(EventType)
    BY <1>1, Built, BuildableTyped DEF WellBuilt
  <2> QED  BY <2>1
<1>6. rest \in Seq(EntryType)
  BY <1>1
<1>7. /\ ReadoutCycle' = old + 1 + lost /\ acq_start_ts' = w.ts
      /\ firstShutterCycle' \in {w.no, firstShutterCycle} /\ firstOn' \in {w.of.cyc, firstOn}
      /\ deqEvent' = deqEvent \o built \o Padding(rest, old, lost, w.ts)
      /\ cycleData' = Append(IF lost > 0 THEN <<>> ELSE rest, Entry("start", old + 1 + lost, w.ts, w.of))
  BY DEF ShutterOn
<1> HIDE DEF old, lost, built, rest
<1>8. Padding(rest, old, lost, w.ts) \in Seq(EventType)
  <2>1. w.ts \in Int
    OBVIOUS
  <2> QED  BY <1>3, <1>4, <1>6, <2>1, PaddingBuilt, BuildableTyped DEF Padded
<1>9. deqEvent' \in Seq(EventType)
  BY <1>1, <1>5, <1>7, <1>8
<1>10. Entry("start", old + 1 + lost, w.ts, w.of) \in EntryType
  <2>1. PICK n \in Int : n = old + 1 + lost
    BY <1>3, <1>4
  <2> QED  BY <2>1, EntryTyped
<1>11. cycleData' \in Seq(EntryType)
  BY <1>6, <1>7, <1>10
<1>12. ReadoutCycle' \in Int /\ acq_start_ts' \in Nat
  BY <1>3, <1>4, <1>7
<1>13. firstShutterCycle' \in -1 .. CycleMod - 1 /\ firstOn' \in Int
  BY <1>1, <1>2, <1>7
<1> QED  BY <1>9, <1>11, <1>12, <1>13

(* The stop and what is built from it. *)
LEMMA StopTyped ==
  ASSUME TypeOK, NEW ts \in Nat, NEW of \in PlaceType
  PROVE  /\ Append(cycleData, Entry("stop", ReadoutCycle, ts, of)) \in Seq(EntryType)
         /\ buildEudaqEvents(Append(cycleData, Entry("stop", ReadoutCycle, ts, of)),
                             ReadoutCycle, acq_start_ts) \in Seq(EventType)
<1>1. ReadoutCycle \in Int /\ acq_start_ts \in Int /\ cycleData \in Seq(EntryType)
  BY DEF TypeOK
<1>2. PICK e \in EntryType : e = Entry("stop", ReadoutCycle, ts, of)
  BY <1>1, EntryTyped
<1>3. PICK d \in Seq(EntryType) : d = Append(cycleData, e)
  <2>1. Append(cycleData, e) \in Seq(EntryType)
    BY <1>1, <1>2, AppendProperties
  <2> QED  BY <2>1
<1>4. buildEudaqEvents(d, ReadoutCycle, acq_start_ts) \in Seq(EventType)
  BY <1>1, Built, BuildableTyped DEF WellBuilt
<1> QED  BY <1>2, <1>3, <1>4

(* The entries of a trigger are triggers of its place. *)
LEMMA TriggerTyped ==
  ASSUME TypeOK, NEW w, w.no \in Nat, w.fired \in Nat, w.ts \in Nat, w.of \in PlaceType
  PROVE  /\ TriggerEntries(w) \in Seq(EntryType)
         /\ \A i \in 1 .. Len(TriggerEntries(w)) :
              TriggerEntries(w)[i].kind = "trigger" /\ TriggerEntries(w)[i].of = w.of
<1>1. CASE source = "internal"
  <2>1. w.ts % TsMod \in Nat
    BY BifAssumption
  <2>2. PICK e \in EntryType : e = Entry("trigger", w.no, w.ts % TsMod, w.of)
    BY <2>1, EntryTyped
  <2>3. e.kind = "trigger" /\ e.of = w.of
    BY <2>2 DEF Entry
  <2>4. TriggerEntries(w) = <<e>>
    BY <1>1, <2>2 DEF TriggerEntries
  <2> QED  BY <2>3, <2>4
<1>2. CASE source # "internal" /\ TooSoon(w.ts)
  <2>1. TriggerEntries(w) = <<>>
    BY <1>2 DEF TriggerEntries
  <2> QED  BY <2>1
<1>3. CASE source # "internal" /\ ~TooSoon(w.ts)
  <2>1. PICK e \in EntryType : e = Entry("trigger", w.no, w.ts, w.of)
    BY EntryTyped
  <2>2. e.kind = "trigger" /\ e.of = w.of
    BY <2>1 DEF Entry
  <2> DEFINE s == [i \in 1 .. w.fired |-> e]
  <2>3. TriggerEntries(w) = s
    BY <1>3, <2>1 DEF TriggerEntries
  <2>4. s \in [1 .. w.fired -> EntryType]
    OBVIOUS
  <2>5. s \in Seq(EntryType) /\ DOMAIN s = 1 .. w.fired
    BY <2>4, SeqDef
  <2>6. Len(s) = w.fired
    BY <2>5, LenProperties
  <2> QED  BY <2>2, <2>3, <2>5, <2>6
<1> QED  BY <1>1, <1>2, <1>3

(* A trigger packet appends entries of triggers to _cycleData. *)
LEMMA TriggerArrives ==
  ASSUME TypeOK, NEW k \in Fired, NEW n \in {hwTrig, hwTrig + 1},
         TriggerPacket([no |-> n, fired |-> k, ts |-> clock, of |-> Place])
  PROVE  /\ Place \in PlaceType
         /\ \E t \in Seq(EntryType) :
              /\ cycleData' = cycleData \o t
              /\ \A i \in 1 .. Len(t) : t[i].kind = "trigger" /\ t[i].of = Place
<1>1. PICK w : w = [no |-> n, fired |-> k, ts |-> clock, of |-> Place]
  OBVIOUS
<1>2. n \in Nat /\ k \in Nat /\ clock \in Nat
  BY BifAssumption DEF TypeOK
<1>3. Place \in PlaceType
  <2>1. (hwOn /\ onDelivered) \in BOOLEAN
    BY Zenon
  <2> QED  BY <1>2, <2>1 DEF Place, PlaceType, TypeOK
<1>4. w.no \in Nat /\ w.fired \in Nat /\ w.ts \in Nat /\ w.of \in PlaceType /\ w.of = Place
  BY <1>1, <1>2, <1>3
<1>5. cycleData' = cycleData \o TriggerEntries(w)
  BY <1>1 DEF TriggerPacket
<1>6. /\ TriggerEntries(w) \in Seq(EntryType)
      /\ \A i \in 1 .. Len(TriggerEntries(w)) :
           TriggerEntries(w)[i].kind = "trigger" /\ TriggerEntries(w)[i].of = Place
  BY <1>4, TriggerTyped
<1> QED  BY <1>3, <1>5, <1>6

LEMMA TypeInit == Init => TypeOK
<1> SUFFICES ASSUME Init
             PROVE  TypeOK
  OBVIOUS
<1>1. <<mode, source>> \in Setups
  <2>1. PICK s \in Setups : mode = s[1] /\ source = s[2]
    BY DEF Init
  <2>2. s = <<s[1], s[2]>>
    BY BifAssumption
  <2> QED  BY <2>1, <2>2
<1>2. <<>> \in Seq(EntryType) /\ <<>> \in Seq(EventType)
  OBVIOUS
<1>3. /\ hwOn \in BOOLEAN /\ ROC_started \in BOOLEAN /\ firstTrigger \in BOOLEAN
      /\ onDelivered \in BOOLEAN /\ fresh \in BOOLEAN
  BY Zenon DEF Init
<1>4. firstShutterCycle \in -1 .. CycleMod - 1 /\ -1 \in Int /\ hwCycle \in Nat /\ hwTrig \in Nat
  BY BifAssumption DEF Init
<1>5. accepted \subseteq [e : EntryType, n : Nat]
  BY DEF Init
<1> QED  BY <1>1, <1>2, <1>3, <1>4, <1>5 DEF Init, TypeOK

LEMMA TypeStep == TypeOK /\ [Next]_vars => TypeOK'
<1> SUFFICES ASSUME TypeOK, [Next]_vars
             PROVE  TypeOK'
  OBVIOUS
<1>0. CycleMod \in Nat \ {0} /\ FirstTrig \in Nat /\ Fired \subseteq Nat
  BY BifAssumption
<1>1. CASE DoStartRun
  <2>1. hwTrig' \in Nat /\ -1 \in Int /\ 0 \in Nat /\ runs + 1 \in Nat
    BY <1>0, <1>1 DEF DoStartRun, TypeOK
  <2>2. fresh' \in BOOLEAN /\ firstTrigger' \in BOOLEAN /\ onDelivered' \in BOOLEAN
    BY <1>1, Zenon DEF DoStartRun
  <2>3. accepted' \subseteq [e : EntryType, n : Nat]
    BY <1>1 DEF DoStartRun, TypeOK
  <2>4. deqEvent' \in Seq(EventType)
    BY <1>1 DEF DoStartRun
  <2> QED  BY <1>1, <2>1, <2>2, <2>3, <2>4 DEF DoStartRun, TypeOK
<1>2. CASE HwOn
  <2>1. CASE /\ Tick
             /\ ShutterOn(Shutter(hwCycle + 1, clock, clock))
             /\ lastOn' = hwCycle + 1 /\ onDelivered' = TRUE
    <3>1. PICK w : w = Shutter(hwCycle + 1, clock, clock)
      OBVIOUS
    <3>2. hwCycle + 1 \in Nat /\ clock \in Nat
      BY DEF TypeOK
    <3>3. w.no \in 0 .. CycleMod - 1 /\ w.ts \in Nat /\ w.of \in PlaceType
      BY <3>1, <3>2, ShutterTyped
    <3>4. ShutterOn(w)
      BY <2>1, <3>1
    <3>5. /\ ReadoutCycle' \in Int /\ firstShutterCycle' \in -1 .. CycleMod - 1
          /\ acq_start_ts' \in Nat /\ firstOn' \in Int
          /\ cycleData' \in Seq(EntryType) /\ deqEvent' \in Seq(EventType)
      BY <3>3, <3>4, StartTyped
    <3>6. ROC_started' \in BOOLEAN /\ firstTrigger' \in BOOLEAN
      BY <3>4, Zenon DEF ShutterOn
    <3>7. /\ UNCHANGED <<trigger_id, firstTriggerNumber, lastTriggerTime, accepted>>
          /\ UNCHANGED <<hwTrig, mode, source, runs, fresh>>
          /\ hwOn' = TRUE /\ hwCycle' = hwCycle + 1 /\ hwStart' = clock
          /\ clock' \in Nat
      BY <1>2, <2>1, <3>2, <3>4 DEF HwOn, ShutterOn, config, Tick
    <3> QED  BY <2>1, <3>2, <3>5, <3>6, <3>7 DEF TypeOK
  <2>2. CASE Lose /\ onDelivered' = FALSE /\ UNCHANGED lastOn
    <3>1. hwCycle + 1 \in Nat /\ clock \in Nat
      BY DEF TypeOK
    <3> QED  BY <1>2, <2>2, <3>1 DEF HwOn, Lose, config, cycle, trigger, TypeOK
  <2> QED  BY <1>2, <2>1, <2>2 DEF HwOn
<1>3. CASE HwRepeatOn
  <2>1. PICK w : w = Shutter(hwCycle, hwStart, hwStart)
    OBVIOUS
  <2>2. hwCycle \in Nat /\ hwStart \in Nat /\ clock \in Nat
    BY DEF TypeOK
  <2>3. w.no \in 0 .. CycleMod - 1 /\ w.ts \in Nat /\ w.of \in PlaceType
    BY <2>1, ShutterAgain
  <2>4. ShutterOn(w)
    BY <1>3, <2>1 DEF HwRepeatOn
  <2>5. /\ ReadoutCycle' \in Int /\ firstShutterCycle' \in -1 .. CycleMod - 1
        /\ acq_start_ts' \in Nat /\ firstOn' \in Int
        /\ cycleData' \in Seq(EntryType) /\ deqEvent' \in Seq(EventType)
    BY <2>3, <2>4, StartTyped
  <2>6. ROC_started' \in BOOLEAN /\ firstTrigger' \in BOOLEAN
    BY <2>4, Zenon DEF ShutterOn
  <2>7. /\ UNCHANGED <<trigger_id, firstTriggerNumber, lastTriggerTime, accepted>>
        /\ UNCHANGED <<hwTrig, mode, source, runs, fresh>>
        /\ UNCHANGED <<hwCycle, hwOn, hwStart, lastOn, onDelivered>>
        /\ clock' \in Nat
    BY <1>3, <2>2, <2>4 DEF HwRepeatOn, ShutterOn, config, shutter, Tick
  <2> QED  BY <2>5, <2>6, <2>7 DEF TypeOK
<1>4. CASE HwOff
  <2>1. CASE Lose
    BY <1>4, <2>1 DEF HwOff, Lose, config, cycle, trigger, TypeOK
  <2>2. CASE Tick /\ ShutterOff(Shutter(hwCycle, clock, hwStart))
    <3>1. PICK w : w = Shutter(hwCycle, clock, hwStart)
      OBVIOUS
    <3>2. hwCycle \in Nat /\ hwStart \in Nat /\ clock \in Nat
      BY DEF TypeOK
    <3>3. w.ts \in Nat /\ w.of \in PlaceType
      BY <3>1, <3>2, ShutterTyped, ZenonT(60)
    <3>4. ShutterOff(w)
      BY <2>2, <3>1
    <3>5. deqEvent' \in Seq(EventType)
      <4>1. deqEvent' = deqEvent \o
              buildEudaqEvents(Append(cycleData, Entry("stop", ReadoutCycle, w.ts, w.of)),
                               ReadoutCycle, acq_start_ts)
        BY <3>4 DEF ShutterOff
      <4>2. deqEvent \in Seq(EventType)
        BY DEF TypeOK
      <4> QED  BY <3>3, <4>1, <4>2, StopTyped
    <3>6. /\ cycleData' = <<>> /\ ROC_started' = FALSE /\ hwOn' = FALSE /\ clock' \in Nat
          /\ UNCHANGED <<ReadoutCycle, firstShutterCycle, acq_start_ts, firstOn, trigger>>
          /\ UNCHANGED <<hwCycle, hwStart, lastOn, onDelivered, hwTrig, config>>
      BY <1>4, <2>2, <3>2, <3>4 DEF HwOff, ShutterOff, Tick
    <3>7. <<>> \in Seq(EntryType)
      OBVIOUS
    <3>8. /\ UNCHANGED <<trigger_id, firstTrigger, firstTriggerNumber, lastTriggerTime, accepted>>
          /\ UNCHANGED <<mode, source, runs, fresh>>
      BY <3>6 DEF trigger, config
    <3> QED  BY <3>5, <3>6, <3>7, <3>8 DEF TypeOK
  <2> QED  BY <1>4, <2>1, <2>2 DEF HwOff
<1>5. CASE HwTrigger
  <2>1. PICK k \in Fired, n \in {hwTrig, hwTrig + 1} :
          /\ TriggerPacket([no |-> n, fired |-> k, ts |-> clock, of |-> Place])
          /\ hwTrig' = n + 1
    BY <1>5 DEF HwTrigger
  <2>2. PICK w : w = [no |-> n, fired |-> k, ts |-> clock, of |-> Place]
    OBVIOUS
  <2>3. n \in Nat /\ k \in Nat /\ clock \in Nat /\ n + 1 \in Nat
    BY <1>0, <2>1 DEF TypeOK
  <2>4. Place \in PlaceType
    <3>1. (hwOn /\ onDelivered) \in BOOLEAN
      BY Zenon
    <3> QED  BY <2>3, <3>1 DEF Place, PlaceType, TypeOK
  <2>5. w.no = n /\ w.no \in Nat /\ w.fired \in Nat /\ w.ts \in Nat /\ w.of \in PlaceType
    BY <2>2, <2>3, <2>4
  <2>6. TriggerPacket(w)
    BY <2>1, <2>2
  <2>7. TriggerEntries(w) \in Seq(EntryType)
    BY <2>5, TriggerTyped
  <2>8. PICK t \in Seq(EntryType) : t = TriggerEntries(w)
    BY <2>7
  <2>9. cycleData' \in Seq(EntryType)
    BY <2>6, <2>8 DEF TriggerPacket, TypeOK
  <2>10. accepted' \subseteq [e : EntryType, n : Nat]
    <3>1. accepted' = IF t = <<>> THEN accepted ELSE accepted \cup {[e |-> t[1], n |-> Len(t)]}
      BY <2>6, <2>8 DEF TriggerPacket
    <3>2. t # <<>> => t[1] \in EntryType /\ Len(t) \in Nat
      BY <2>8
    <3> QED  BY <3>1, <3>2 DEF TypeOK
  <2>11. /\ trigger_id' \in Int /\ firstTriggerNumber' \in Nat /\ lastTriggerTime' \in Nat
         /\ UNCHANGED <<cycle, deqEvent>>
    BY <2>5, <2>6 DEF TriggerPacket, Sequence, TypeOK
  <2>12. firstTrigger' \in BOOLEAN
    BY <2>6 DEF TriggerPacket, Sequence, TypeOK
  <2>13. clock' \in Nat /\ hwTrig' \in Nat /\ UNCHANGED <<shutter, config>>
    BY <1>5, <2>1, <2>3 DEF HwTrigger, Tick
  <2> QED  BY <2>9, <2>10, <2>11, <2>12, <2>13 DEF TypeOK, cycle, shutter, config
<1>6. CASE UNCHANGED vars
  BY <1>6 DEF vars, shutter, config, cycle, trigger, TypeOK
<1> QED  BY <1>1, <1>2, <1>3, <1>4, <1>5, <1>6 DEF Next

(* Spec implies TypeOK: whatever is lost or repeated, the decoder builds only
   events made of the packets that arrived. *)
THEOREM DecoderTyped == Spec => []TypeOK
BY TypeInit, TypeStep, PTL DEF Spec
-----------------------------------------------------------------------------
(* The events of the ROC mode are numbered without interruption: the events in
   s follow each other, and the last one has the number r. *)
Follows(s) ==
  \A i \in DOMAIN s :
    \/ i = 1 /\ s[i].roc = CountRocFrom
    \/ i > 1 /\ s[i].roc = s[i - 1].roc + 1
    \/ /\ i > 1 /\ s[i].roc = s[i - 1].roc
       /\ \A t \in ToSet(s[i].data) : t.kind # "start"

At(s, r) == IF s = <<>> THEN r = CountRocFrom - 1 ELSE s[Len(s)].roc = r

LEMMA FollowsConcat ==
  ASSUME NEW s \in Seq(EventType), NEW t \in Seq(EventType), NEW r \in Int,
         Follows(s), At(s, r), \A j \in 1 .. Len(t) : t[j].roc = r + j
  PROVE  Follows(s \o t) /\ At(s \o t, r + Len(t))
<1> DEFINE u == s \o t
<1>1. /\ u \in Seq(EventType) /\ Len(s) \in Nat /\ Len(t) \in Nat
      /\ Len(u) = Len(s) + Len(t)
      /\ \A i \in 1 .. Len(s) : u[i] = s[i]
      /\ \A i \in 1 .. Len(t) : u[Len(s) + i] = t[i]
      /\ \A i \in 1 .. Len(u) : \/ i \in 1 .. Len(s)
                                \/ \E k \in 1 .. Len(t) : i = Len(s) + k
  BY Concatenated, SMTT(60)
<1>2. DOMAIN u = 1 .. Len(u) /\ DOMAIN s = 1 .. Len(s)
  BY <1>1, LenProperties
<1>3. (s = <<>> <=> Len(s) = 0) /\ (u = <<>> <=> Len(u) = 0)
  BY <1>1, EmptySeq
<1> HIDE DEF u
<1>4. ASSUME NEW i \in 1 .. Len(u)
      PROVE  \/ i = 1 /\ u[i].roc = CountRocFrom
             \/ i > 1 /\ u[i].roc = u[i - 1].roc + 1
             \/ /\ i > 1 /\ u[i].roc = u[i - 1].roc
                /\ \A x \in ToSet(u[i].data) : x.kind # "start"
  <2>1. CASE i \in 1 .. Len(s)
    <3>1. u[i] = s[i]
      BY <1>1, <2>1
    <3>2. CASE i > 1
      <4>1. i - 1 \in 1 .. Len(s)
        BY <1>1, <2>1, <3>2
      <4>2. u[i - 1] = s[i - 1]
        BY <1>1, <4>1
      <4> QED  BY <1>2, <2>1, <3>1, <4>2 DEF Follows
    <3>3. CASE ~(i > 1)
      BY <1>2, <2>1, <3>1, <3>3 DEF Follows
    <3> QED  BY <3>2, <3>3
  <2>2. ASSUME NEW k \in 1 .. Len(t), i = Len(s) + k
        PROVE  \/ i = 1 /\ u[i].roc = CountRocFrom
               \/ i > 1 /\ u[i].roc = u[i - 1].roc + 1
    <3>1. u[i] = t[k] /\ u[i].roc = r + k
      BY <1>1, <2>2
    <3>2. CASE k = 1 /\ Len(s) = 0
      <4>1. r = CountRocFrom - 1 /\ i = 1
        BY <1>3, <2>2, <3>2 DEF At
      <4> QED  BY <3>1, <3>2, <4>1, BifAssumption
    <3>3. CASE k = 1 /\ Len(s) # 0
      <4>1. s[Len(s)].roc = r /\ Len(s) \in 1 .. Len(s) /\ i > 1 /\ i - 1 = Len(s)
        BY <1>1, <1>3, <2>2, <3>3 DEF At
      <4>2. u[i - 1].roc = r
        BY <1>1, <4>1
      <4> QED  BY <3>1, <3>3, <4>1, <4>2
    <3>4. CASE k # 1
      <4>1. PICK l \in 1 .. Len(t) : l = k - 1
        BY <1>1, <3>4
      <4>2. i > 1 /\ i - 1 = Len(s) + l
        BY <1>1, <2>2, <3>4, <4>1
      <4>3. u[i - 1].roc = r + l
        BY <1>1, <4>2
      <4> QED  BY <3>1, <4>1, <4>2, <4>3
    <3> QED  BY <3>2, <3>3, <3>4
  <2> QED  BY <1>1, <2>1, <2>2
<1>5. Follows(u)
  BY <1>2, <1>4 DEF Follows
<1>6. At(u, r + Len(t))
  <2>1. CASE Len(t) = 0
    <3>1. Len(u) = Len(s) /\ r + Len(t) = r /\ (Len(s) # 0 => Len(s) \in 1 .. Len(s))
      BY <1>1, <2>1
    <3> QED  BY <1>1, <1>3, <3>1 DEF At
  <2>2. CASE Len(t) # 0
    <3>1. Len(t) \in 1 .. Len(t) /\ Len(u) # 0
      BY <1>1, <2>2
    <3>2. u[Len(u)] = t[Len(t)] /\ t[Len(t)].roc = r + Len(t)
      BY <1>1, <3>1
    <3> QED  BY <1>3, <3>1, <3>2 DEF At
  <2> QED  BY <2>1, <2>2
<1> QED  BY <1>5, <1>6 DEF u

(* An event without a start may repeat the number. *)
LEMMA FollowsRepeat ==
  ASSUME NEW s \in Seq(EventType), NEW t \in Seq(EventType), NEW r,
         Follows(s), At(s, r), s # <<>>, Len(t) = 1, t[1].roc = r,
         \A x \in ToSet(t[1].data) : x.kind # "start"
  PROVE  Follows(s \o t) /\ At(s \o t, r)
<1> DEFINE u == s \o t
<1>1. /\ u \in Seq(EventType) /\ Len(s) \in Nat /\ Len(u) = Len(s) + 1
      /\ \A i \in 1 .. Len(s) : u[i] = s[i]
      /\ u[Len(s) + 1] = t[1]
      /\ \A i \in 1 .. Len(u) : i \in 1 .. Len(s) \/ i = Len(s) + 1
  <2>1. /\ u \in Seq(EventType) /\ Len(s) \in Nat /\ Len(u) = Len(s) + Len(t)
        /\ \A i \in 1 .. Len(s) : u[i] = s[i]
        /\ \A i \in 1 .. Len(t) : u[Len(s) + i] = t[i]
    BY Concatenated
  <2> HIDE DEF u
  <2> QED  BY <2>1
<1>2. DOMAIN u = 1 .. Len(u) /\ DOMAIN s = 1 .. Len(s)
  BY <1>1, LenProperties
<1>3. Len(s) # 0 /\ u # <<>>
  <2>1. Len(s) # 0
    BY EmptySeq
  <2> QED  BY <1>1, <2>1, EmptySeq
<1> HIDE DEF u
<1>4. s[Len(s)].roc = r /\ Len(s) \in 1 .. Len(s)
  BY <1>1, <1>3 DEF At
<1>5. ASSUME NEW i \in 1 .. Len(u)
      PROVE  \/ i = 1 /\ u[i].roc = CountRocFrom
             \/ i > 1 /\ u[i].roc = u[i - 1].roc + 1
             \/ /\ i > 1 /\ u[i].roc = u[i - 1].roc
                /\ \A x \in ToSet(u[i].data) : x.kind # "start"
  <2>1. CASE i \in 1 .. Len(s)
    <3>1. u[i] = s[i]
      BY <1>1, <2>1
    <3>2. CASE i > 1
      <4>1. i - 1 \in 1 .. Len(s)
        BY <1>1, <2>1, <3>2
      <4>2. u[i - 1] = s[i - 1]
        BY <1>1, <4>1
      <4> QED  BY <1>2, <2>1, <3>1, <4>2 DEF Follows
    <3>3. CASE ~(i > 1)
      BY <1>2, <2>1, <3>1, <3>3 DEF Follows
    <3> QED  BY <3>2, <3>3
  <2>2. CASE i = Len(s) + 1
    <3>1. i > 1 /\ i - 1 = Len(s) /\ u[i] = t[1] /\ u[i - 1] = s[Len(s)]
      BY <1>1, <1>4, <2>2
    <3> QED  BY <1>4, <3>1
  <2> QED  BY <1>1, <2>1, <2>2
<1>6. Follows(u) /\ At(u, r)
  BY <1>1, <1>2, <1>3, <1>5 DEF Follows, At
<1> QED  BY <1>6 DEF u

(* The invariant of the numbering. *)
NoStart(data) == \A k \in 1 .. Len(data) : data[k].kind # "start"

LastBuilt == IF ROC_started THEN ReadoutCycle - 1 ELSE ReadoutCycle

RocInv ==
  fresh /\ mode = "ROC" =>
    /\ Follows(deqEvent) /\ At(deqEvent, LastBuilt + CountRocFrom)
    /\ ~ROC_started => NoStart(cycleData)

LEMMA RocInit == Init => RocInv
<1> SUFFICES ASSUME Init
             PROVE  RocInv
  OBVIOUS
<1>1. LastBuilt + CountRocFrom = CountRocFrom - 1
  BY BifAssumption DEF Init, LastBuilt
<1>2. deqEvent = <<>> /\ cycleData = <<>> /\ DOMAIN <<>> = {} /\ Len(<<>>) = 0 /\ 1 .. 0 = {}
  BY DEF Init
<1> QED  BY <1>1, <1>2 DEF RocInv, Follows, At, NoStart

LEMMA RocStartNew ==
  ASSUME TypeOK, RocInv, fresh, mode = "ROC", NEW w, NEW built, NEW rest, NEW lost,
         StartNew(w, built, rest, lost), w.ts \in Nat, ROC_started' = TRUE
  PROVE  Follows(deqEvent') /\ At(deqEvent', LastBuilt' + CountRocFrom)
<1>1. /\ deqEvent \in Seq(EventType) /\ cycleData \in Seq(EntryType)
      /\ ReadoutCycle \in Int /\ acq_start_ts \in Int /\ w.ts \in Int /\ Buildable
      /\ lost \in Nat /\ CountRocFrom \in Int
  BY BuildableTyped, BifAssumption DEF TypeOK, StartNew
<1>2. PICK r \in Int : r = LastBuilt + CountRocFrom
  BY <1>1 DEF LastBuilt
<1>3. Follows(deqEvent) /\ At(deqEvent, r)
  BY <1>2 DEF RocInv
<1>4. /\ built \in Seq(EventType) /\ rest \in Seq(EntryType)
      /\ \A j \in 1 .. Len(built) : built[j].roc = r + j
      /\ r + Len(built) = ReadoutCycle + CountRocFrom
  <2>1. CASE ROC_started
    <3>1. built = buildEudaqEvents(cycleData, ReadoutCycle, acq_start_ts) /\ rest = <<>>
      BY <2>1 DEF StartNew
    <3>2. WellBuilt(built, cycleData, ReadoutCycle, acq_start_ts) /\ Len(built) = 1
      BY <1>1, <3>1, Built
    <3>3. r + 1 = ReadoutCycle + CountRocFrom
      BY <1>1, <1>2, <2>1 DEF LastBuilt
    <3>4. built \in Seq(EventType) /\ built[1].roc = ReadoutCycle + CountRocFrom
      BY <3>2 DEF WellBuilt
    <3> QED  BY <3>1, <3>2, <3>3, <3>4
  <2>2. CASE ~ROC_started
    <3>1. built = <<>> /\ rest = cycleData /\ r = ReadoutCycle + CountRocFrom
      BY <1>2, <2>2 DEF StartNew, LastBuilt
    <3> QED  BY <1>1, <3>1
  <2> QED  BY <2>1, <2>2
<1> DEFINE s == deqEvent \o built
           p == Padding(rest, ReadoutCycle, lost, w.ts)
           q == r + Len(built)
<1>5. s \in Seq(EventType) /\ Follows(s) /\ At(s, q) /\ q \in Int
  BY <1>1, <1>2, <1>3, <1>4, FollowsConcat
<1>6. Padded(p, rest, ReadoutCycle, lost)
  BY <1>1, <1>4, PaddingBuilt
<1>7. deqEvent' = s \o p /\ ReadoutCycle' = ReadoutCycle + 1 + lost
  BY DEF StartNew
<1>8. q = ReadoutCycle + CountRocFrom
  BY <1>4
<1> HIDE DEF s, p, q
<1>9. p \in Seq(EventType) /\ Len(p) = lost /\ \A j \in 1 .. Len(p) : p[j].roc = q + j
  <2>1. \A j \in 1 .. lost : ReadoutCycle + j + CountRocFrom = q + j
    BY <1>1, <1>8
  <2> QED  BY <1>6, <2>1 DEF Padded
<1>10. q + Len(p) = LastBuilt' + CountRocFrom
  <2>1. LastBuilt' = ReadoutCycle' - 1
    BY DEF LastBuilt
  <2>2. LastBuilt' = ReadoutCycle + lost
    BY <1>1, <1>7, <2>1
  <2> HIDE DEF LastBuilt
  <2> QED  BY <1>1, <1>8, <1>9, <2>2
<1> QED  BY <1>5, <1>7, <1>9, <1>10, FollowsConcat

(* Nothing of the numbering depends on what the trigger packets add. *)
LEMMA RocSame ==
  ASSUME RocInv, UNCHANGED <<fresh, mode, deqEvent, ReadoutCycle, ROC_started>>,
         NoStart(cycleData) => NoStart(cycleData')
  PROVE  RocInv'
BY DEF RocInv, LastBuilt

LEMMA RocStop ==
  ASSUME TypeOK, CycleInv, RocInv, fresh, mode = "ROC", hwOn,
         NEW w, w.ts \in Nat, w.of \in PlaceType, ShutterOff(w)
  PROVE  Follows(deqEvent') /\ At(deqEvent', LastBuilt' + CountRocFrom)
<1>1. /\ deqEvent \in Seq(EventType) /\ cycleData \in Seq(EntryType)
      /\ ReadoutCycle \in Int /\ acq_start_ts \in Int /\ Buildable /\ CountRocFrom \in Int
  BY BuildableTyped, BifAssumption DEF TypeOK
<1>2. PICK e \in EntryType : e = Entry("stop", ReadoutCycle, w.ts, w.of) /\ e.kind = "stop"
  <2>1. /\ Entry("stop", ReadoutCycle, w.ts, w.of) \in EntryType
       /\ Entry("stop", ReadoutCycle, w.ts, w.of).kind = "stop"
    BY <1>1, EntryTyped
  <2> QED  BY <2>1
<1> DEFINE data == Append(cycleData, e)
           t == buildEudaqEvents(data, ReadoutCycle, acq_start_ts)
<1>3. deqEvent' = deqEvent \o t /\ ReadoutCycle' = ReadoutCycle /\ ROC_started' = FALSE
  BY <1>2 DEF ShutterOff
<1>4. data \in Seq(EntryType)
  BY <1>1, <1>2, AppendProperties
<1>5. WellBuilt(t, data, ReadoutCycle, acq_start_ts) /\ Len(t) = 1 /\ t[1].data = data
  BY <1>1, <1>4, Built
<1> HIDE DEF t
<1>6. t \in Seq(EventType) /\ t[1].roc = ReadoutCycle + CountRocFrom
  BY <1>5 DEF WellBuilt
<1>7. Follows(deqEvent) /\ At(deqEvent, LastBuilt + CountRocFrom)
  BY DEF RocInv
<1>8. LastBuilt' = ReadoutCycle
  BY <1>3 DEF LastBuilt
<1>9. CASE ROC_started
  <2>1. PICK r \in Int : r = LastBuilt + CountRocFrom /\ r + 1 = ReadoutCycle + CountRocFrom
    BY <1>1, <1>9 DEF LastBuilt
  <2>2. \A j \in 1 .. Len(t) : t[j].roc = r + j
    BY <1>5, <1>6, <2>1
  <2>3. Follows(deqEvent \o t) /\ At(deqEvent \o t, r + Len(t))
    BY <1>1, <1>6, <1>7, <2>1, <2>2, FollowsConcat
  <2> QED  BY <1>3, <1>5, <1>8, <2>1, <2>3
<1>10. CASE ~ROC_started
  <2>1. LastBuilt = ReadoutCycle
    BY <1>10 DEF LastBuilt
  <2>2. lastOn # -1 /\ ReadoutCycle \in Nat
    <3>1. lastOn # -1
      BY DEF CycleInv, OpenInv
    <3> QED  BY <3>1 DEF CycleInv, CycleTypes, CycleNumbers, OpenInv, CycleFollowed
  <2>3. ReadoutCycle + CountRocFrom # CountRocFrom - 1
    BY <1>1, <2>2
  <2>4. deqEvent # <<>>
    BY <1>7, <2>1, <2>3 DEF At
  <2>5. \A x \in ToSet(t[1].data) : x.kind # "start"
    <3>1. NoStart(cycleData)
      BY <1>10 DEF RocInv
    <3>2. /\ Len(data) = Len(cycleData) + 1 /\ Len(cycleData) \in Nat
          /\ data[Len(cycleData) + 1] = e
          /\ \A i \in 1 .. Len(cycleData) : data[i] = cycleData[i]
      BY <1>1, <1>2, AppendProperties, LenProperties
    <3>3. DOMAIN data = 1 .. Len(data)
      BY <1>4, LenProperties
    <3> HIDE DEF data
    <3>4. \A i \in 1 .. Len(data) : i \in 1 .. Len(cycleData) \/ i = Len(cycleData) + 1
      BY <3>2
    <3>5. \A i \in 1 .. Len(data) : data[i].kind # "start"
      BY <1>2, <3>1, <3>2, <3>4 DEF NoStart
    <3> QED  BY <1>5, <3>3, <3>5 DEF ToSet
  <2> HIDE DEF data
  <2>6. Follows(deqEvent \o t) /\ At(deqEvent \o t, ReadoutCycle + CountRocFrom)
    BY <1>1, <1>5, <1>6, <1>7, <2>1, <2>4, <2>5, FollowsRepeat
  <2> QED  BY <1>3, <1>8, <2>6
<1> QED  BY <1>9, <1>10

LEMMA RocStep == TypeOK /\ CycleInv /\ RocInv /\ [Next]_vars => RocInv'
<1> SUFFICES ASSUME TypeOK, CycleInv, RocInv, [Next]_vars
             PROVE  RocInv'
  OBVIOUS
<1>1. CASE DoStartRun
  <2>1. deqEvent' = <<>> /\ ReadoutCycle' = -1 /\ ROC_started' = ROC_started /\ cycleData' = cycleData
    BY <1>1 DEF DoStartRun
  <2>2. fresh' => ~ROC_started /\ cycleData = <<>>
    BY <1>1 DEF DoStartRun
  <2>3. fresh' => LastBuilt' + CountRocFrom = CountRocFrom - 1
    BY <2>1, <2>2, BifAssumption DEF LastBuilt
  <2>4. DOMAIN <<>> = {} /\ Len(<<>>) = 0 /\ 1 .. 0 = {}
    OBVIOUS
  <2> QED  BY <2>1, <2>2, <2>3, <2>4 DEF RocInv, Follows, At, NoStart
<1>2. CASE HwOn
  <2>1. CASE Tick /\ ShutterOn(Shutter(hwCycle + 1, clock, clock))
    <3>1. PICK w : w = Shutter(hwCycle + 1, clock, clock)
      OBVIOUS
    <3>2. hwCycle + 1 \in Nat /\ clock \in Nat
      BY DEF TypeOK
    <3>3. w.no = (hwCycle + 1) % CycleMod /\ w.ts \in Nat
      BY <3>1, <3>2, ShutterTyped
    <3>4. ShutterOn(w) /\ ROC_started' = TRUE /\ fresh' = fresh /\ mode' = mode
      BY <1>2, <2>1, <3>1 DEF HwOn, ShutterOn, config
    <3> SUFFICES ASSUME fresh, mode = "ROC"
                 PROVE  Follows(deqEvent') /\ At(deqEvent', LastBuilt' + CountRocFrom)
      BY <3>4 DEF RocInv
    <3>5. PICK built, rest, lost : StartNew(w, built, rest, lost)
      BY <3>3, <3>4, NewStartBuilds
    <3> QED  BY <3>3, <3>4, <3>5, RocStartNew
  <2>2. CASE Lose
    BY <1>2, <2>2, RocSame DEF HwOn, Lose, config, cycle
  <2> QED  BY <1>2, <2>1, <2>2 DEF HwOn
<1>3. CASE HwRepeatOn
  <2>1. PICK w : w = Shutter(hwCycle, hwStart, hwStart)
    OBVIOUS
  <2>2. hwCycle \in Nat /\ hwStart \in Nat /\ deqEvent \in Seq(EventType)
    BY DEF TypeOK
  <2>3. w.no = hwCycle % CycleMod /\ w.of.cyc = hwCycle
    BY <2>1, ShutterAgain
  <2>4. /\ ShutterOn(w) /\ ROC_started' = TRUE /\ fresh' = fresh /\ mode' = mode
        /\ hwOn /\ onDelivered
    BY <1>3, <2>1 DEF HwRepeatOn, ShutterOn, config
  <2> SUFFICES ASSUME fresh, mode = "ROC"
               PROVE  RocInv'
    BY <2>4 DEF RocInv
  <2>5. StartAgain(w)
    BY <2>2, <2>3, <2>4, RepeatedStartBuilds
  <2> QED  BY <2>4, <2>5 DEF StartAgain, RocInv, LastBuilt
<1>4. CASE HwOff
  <2>1. CASE Lose
    BY <1>4, <2>1, RocSame DEF HwOff, Lose, config, cycle
  <2>2. CASE Tick /\ ShutterOff(Shutter(hwCycle, clock, hwStart))
    <3>1. PICK w : w = Shutter(hwCycle, clock, hwStart)
      OBVIOUS
    <3>2. hwCycle \in Nat /\ hwStart \in Nat /\ clock \in Nat
      BY DEF TypeOK
    <3>3. w.ts \in Nat /\ w.of \in PlaceType
      BY <3>1, <3>2, ShutterTyped, ZenonT(60)
    <3>4. ShutterOff(w) /\ cycleData' = <<>> /\ fresh' = fresh /\ mode' = mode /\ hwOn
      BY <1>4, <2>2, <3>1 DEF HwOff, ShutterOff, config
    <3>5. NoStart(cycleData')
      BY <3>4 DEF NoStart
    <3> SUFFICES ASSUME fresh, mode = "ROC"
                 PROVE  Follows(deqEvent') /\ At(deqEvent', LastBuilt' + CountRocFrom)
      BY <3>4, <3>5 DEF RocInv
    <3> QED  BY <3>3, <3>4, RocStop
  <2> QED  BY <1>4, <2>1, <2>2 DEF HwOff
<1>5. CASE HwTrigger
  <2>1. PICK k \in Fired, n \in {hwTrig, hwTrig + 1} :
          TriggerPacket([no |-> n, fired |-> k, ts |-> clock, of |-> Place])
    BY <1>5 DEF HwTrigger
  <2>2. PICK t \in Seq(EntryType) : /\ cycleData' = cycleData \o t
                                    /\ \A i \in 1 .. Len(t) : t[i].kind = "trigger" /\ t[i].of = Place
    BY <2>1, TriggerArrives
  <2>3. NoStart(cycleData) => NoStart(cycleData')
    <3>1. cycleData \in Seq(EntryType)
      BY DEF TypeOK
    <3>2. /\ \A i \in 1 .. Len(cycleData) : cycleData'[i] = cycleData[i]
          /\ \A i \in 1 .. Len(t) : cycleData'[Len(cycleData) + i] = t[i]
          /\ \A i \in 1 .. Len(cycleData') : \/ i \in 1 .. Len(cycleData)
                                             \/ \E j \in 1 .. Len(t) : i = Len(cycleData) + j
      BY <2>2, <3>1, Concatenated
    <3> QED  BY <2>2, <3>2 DEF NoStart
  <2>4. UNCHANGED <<fresh, mode, deqEvent, ReadoutCycle, ROC_started>>
    BY <1>5, <2>1 DEF HwTrigger, TriggerPacket, cycle, config
  <2> QED  BY <2>3, <2>4, RocSame
<1>6. CASE UNCHANGED vars
  BY <1>6, RocSame DEF vars, config, cycle
<1> QED  BY <1>1, <1>2, <1>3, <1>4, <1>5, <1>6 DEF Next

(* Spec implies RocUninterrupted: in the ROC mode the events of a fresh run
   are numbered without interruption, however many cycles the BIF loses within
   MaxGap; only a cycle without a start repeats a number. *)
THEOREM RocNumbered == Spec => []RocUninterrupted
<1>1. RocInv => RocUninterrupted
  BY DEF RocInv, RocUninterrupted, Follows
<1> QED  BY TypeInit, TypeStep, CycleInit, CycleStep, RocInit, RocStep, <1>1, PTL DEF Spec
-----------------------------------------------------------------------------
(* A trigger of a cycle whose start was delivered waits in _cycleData until it
   is built into an event of that cycle. *)
Known(t) == t.kind = "trigger" /\ t.of.known

Waiting(data, on, start) ==
  \A k \in 1 .. Len(data) : Known(data[k]) => data[k].of.cyc = on /\ data[k].of.start = start

NoneKnown(data) == \A k \in 1 .. Len(data) : ~Known(data[k])

Filed(e, first) ==
  \A k \in 1 .. Len(e.data) : Known(e.data[k]) =>
    /\ e.roc = e.data[k].of.cyc - first + CountRocFrom
    /\ mode # "ROC" => e.bxid = Bxid(e.data[k].ts, e.data[k].of.start)

AllFiled(evs, first) == \A i \in 1 .. Len(evs) : Filed(evs[i], first)

LEMMA BuiltFiled ==
  ASSUME NEW evs, NEW data, NEW roc, NEW start, NEW on, NEW first,
         WellBuilt(evs, data, roc, start), Waiting(data, on, start), roc = on - first
  PROVE  AllFiled(evs, first)
<1> SUFFICES ASSUME NEW i \in 1 .. Len(evs), NEW k \in 1 .. Len(evs[i].data), Known(evs[i].data[k])
             PROVE  /\ evs[i].roc = evs[i].data[k].of.cyc - first + CountRocFrom
                    /\ mode # "ROC" => evs[i].bxid = Bxid(evs[i].data[k].ts, evs[i].data[k].of.start)
  BY DEF AllFiled, Filed
<1>1. /\ evs[i].roc = roc + CountRocFrom /\ Copied(evs[i].data, data)
      /\ mode # "ROC" => InBxid(evs[i].data, evs[i].bxid, start)
  BY DEF WellBuilt
<1>2. evs[i].data[k].of.cyc = on /\ evs[i].data[k].of.start = start
  BY <1>1 DEF Copied, Waiting
<1>3. mode # "ROC" => Bxid(evs[i].data[k].ts, start) = evs[i].bxid
  BY <1>1 DEF InBxid, Known
<1> QED  BY <1>1, <1>2, <1>3

LEMMA UnknownFiled ==
  ASSUME NEW evs, NEW data, NEW first, NoneKnown(data),
         \A i \in 1 .. Len(evs) : Copied(evs[i].data, data)
  PROVE  AllFiled(evs, first)
<1> SUFFICES ASSUME NEW i \in 1 .. Len(evs), NEW k \in 1 .. Len(evs[i].data)
             PROVE  ~Known(evs[i].data[k])
  BY DEF AllFiled, Filed
<1>1. \E l \in 1 .. Len(data) : evs[i].data[k] = data[l]
  BY DEF Copied
<1> QED  BY <1>1 DEF NoneKnown

LEMMA FiledConcat ==
  ASSUME NEW s \in Seq(EventType), NEW t \in Seq(EventType), NEW first,
         AllFiled(s, first), AllFiled(t, first)
  PROVE  AllFiled(s \o t, first)
<1>1. /\ \A i \in 1 .. Len(s) : (s \o t)[i] = s[i]
      /\ \A i \in 1 .. Len(t) : (s \o t)[Len(s) + i] = t[i]
      /\ \A i \in 1 .. Len(s \o t) : \/ i \in 1 .. Len(s)
                                     \/ \E k \in 1 .. Len(t) : i = Len(s) + k
  BY Concatenated
<1> QED  BY <1>1 DEF AllFiled

(* An entry that is no known trigger changes nothing. *)
LEMMA AppendUnknown ==
  ASSUME NEW data \in Seq(EntryType), NEW e \in EntryType, e.kind # "trigger"
  PROVE  /\ NoneKnown(data) => NoneKnown(Append(data, e))
         /\ \A on, start : Waiting(data, on, start) => Waiting(Append(data, e), on, start)
<1> DEFINE d == Append(data, e)
<1>1. /\ Len(d) = Len(data) + 1 /\ Len(data) \in Nat /\ d[Len(data) + 1] = e
      /\ \A i \in 1 .. Len(data) : d[i] = data[i]
  BY AppendProperties, LenProperties
<1> HIDE DEF d
<1>2. \A i \in 1 .. Len(d) : i \in 1 .. Len(data) \/ i = Len(data) + 1
  BY <1>1
<1>3. ~Known(e)
  BY DEF Known
<1>4. NoneKnown(data) => NoneKnown(d)
  BY <1>1, <1>2, <1>3 DEF NoneKnown
<1>5. ASSUME NEW on, NEW start, Waiting(data, on, start)
      PROVE  Waiting(d, on, start)
  BY <1>1, <1>2, <1>3, <1>5 DEF Waiting
<1> QED  BY <1>4, <1>5 DEF d

LEMMA NoneWaiting ==
  ASSUME NEW data, NEW on, NEW start, NoneKnown(data)
  PROVE  Waiting(data, on, start)
BY DEF NoneKnown, Waiting

(* The invariant of the triggers. *)
FiledInv ==
  /\ hwOn /\ onDelivered => acq_start_ts = hwStart
  /\ fresh =>
       /\ lastOn = -1 => deqEvent = <<>>
       /\ Waiting(cycleData, lastOn, acq_start_ts)
       /\ ~ROC_started => NoneKnown(cycleData)
       /\ AllFiled(deqEvent, firstOn)

LEMMA FiledInit == Init => FiledInv
<1> SUFFICES ASSUME Init
             PROVE  FiledInv
  OBVIOUS
<1>1. ~hwOn /\ deqEvent = <<>> /\ cycleData = <<>> /\ Len(<<>>) = 0 /\ 1 .. 0 = {}
  BY DEF Init
<1> QED  BY <1>1 DEF FiledInv, Waiting, NoneKnown, AllFiled

LEMMA FiledStartNew ==
  ASSUME TypeOK, CycleInv, FiledInv, fresh, NEW w, NEW built, NEW rest, NEW lost,
         StartNew(w, built, rest, lost), w.ts \in Nat, w.of \in PlaceType
  PROVE  AllFiled(deqEvent', firstOn') /\ NoneKnown(cycleData')
<1>1. /\ deqEvent \in Seq(EventType) /\ cycleData \in Seq(EntryType)
      /\ ReadoutCycle \in Int /\ acq_start_ts \in Int /\ w.ts \in Int /\ Buildable
      /\ lost \in Nat
  BY BuildableTyped DEF TypeOK, StartNew
<1>2. NoneKnown(<<>>) /\ <<>> \in Seq(EntryType) /\ <<>> \in Seq(EventType)
  BY DEF NoneKnown
<1>3. rest \in Seq(EntryType) /\ NoneKnown(rest)
  BY <1>1, <1>2 DEF StartNew, FiledInv
<1>4. AllFiled(<<>>, firstOn')
  BY DEF AllFiled
<1>5. built \in Seq(EventType) /\ AllFiled(built, firstOn')
  <2>1. CASE ROC_started
    <3>1. lastOn # -1 /\ firstOn' = firstOn
      BY <2>1 DEF StartNew
    <3>2. built = buildEudaqEvents(cycleData, ReadoutCycle, acq_start_ts)
      BY <2>1 DEF StartNew
    <3>3. WellBuilt(built, cycleData, ReadoutCycle, acq_start_ts)
      BY <1>1, <3>2, Built
    <3>4. ReadoutCycle = lastOn - firstOn
      BY <3>1 DEF CycleInv, CycleFollowed
    <3>5. Waiting(cycleData, lastOn, acq_start_ts)
      BY DEF FiledInv
    <3>6. AllFiled(built, firstOn)
      BY <3>3, <3>4, <3>5, BuiltFiled
    <3> QED  BY <3>1, <3>3, <3>6 DEF WellBuilt
  <2>2. CASE ~ROC_started
    BY <1>2, <1>4, <2>2 DEF StartNew
  <2> QED  BY <2>1, <2>2
<1>6. AllFiled(deqEvent, firstOn')
  <2>1. CASE lastOn = -1
    BY <1>4, <2>1 DEF FiledInv
  <2>2. CASE lastOn # -1
    BY <2>2 DEF FiledInv, StartNew
  <2> QED  BY <2>1, <2>2
<1> DEFINE p == Padding(rest, ReadoutCycle, lost, w.ts)
<1>7. Padded(p, rest, ReadoutCycle, lost)
  BY <1>1, <1>3, PaddingBuilt
<1>8. deqEvent' = deqEvent \o built \o p
  BY DEF StartNew
<1> HIDE DEF p
<1>9. p \in Seq(EventType) /\ AllFiled(p, firstOn')
  BY <1>3, <1>7, UnknownFiled DEF Padded
<1>10. deqEvent \o built \in Seq(EventType) /\ AllFiled(deqEvent \o built, firstOn')
  BY <1>1, <1>5, <1>6, FiledConcat
<1>11. AllFiled(deqEvent', firstOn')
  BY <1>8, <1>9, <1>10, FiledConcat
<1>12. PICK n \in Int : n = ReadoutCycle + 1 + lost
  BY <1>1
<1>13. PICK e \in EntryType : e = Entry("start", n, w.ts, w.of) /\ e.kind = "start"
  <2>1. /\ Entry("start", n, w.ts, w.of) \in EntryType
       /\ Entry("start", n, w.ts, w.of).kind = "start"
    BY <1>12, EntryTyped
  <2> QED  BY <2>1
<1>14. PICK d \in Seq(EntryType) : d = (IF lost > 0 THEN <<>> ELSE rest) /\ NoneKnown(d)
  BY <1>2, <1>3
<1>15. cycleData' = Append(d, e)
  BY <1>12, <1>13, <1>14 DEF StartNew
<1>16. NoneKnown(cycleData')
  BY <1>13, <1>14, <1>15, AppendUnknown
<1> QED  BY <1>11, <1>16

(* The events stay filed while the mode does not change. *)
LEMMA FiledMode ==
  ASSUME mode' = mode, AllFiled(deqEvent', firstOn')
  PROVE  AllFiled(deqEvent, firstOn)'
BY DEF AllFiled, Filed

LEMMA FiledStop ==
  ASSUME TypeOK, CycleInv, FiledInv, fresh, hwOn,
         NEW w, w.ts \in Nat, w.of \in PlaceType, ShutterOff(w)
  PROVE  AllFiled(deqEvent', firstOn') /\ NoneKnown(cycleData')
<1>1. /\ deqEvent \in Seq(EventType) /\ cycleData \in Seq(EntryType)
      /\ ReadoutCycle \in Int /\ acq_start_ts \in Int /\ Buildable
  BY BuildableTyped DEF TypeOK
<1>2. PICK e \in EntryType : e = Entry("stop", ReadoutCycle, w.ts, w.of) /\ e.kind = "stop"
  <2>1. /\ Entry("stop", ReadoutCycle, w.ts, w.of) \in EntryType
       /\ Entry("stop", ReadoutCycle, w.ts, w.of).kind = "stop"
    BY <1>1, EntryTyped
  <2> QED  BY <2>1
<1> DEFINE data == Append(cycleData, e)
           t == buildEudaqEvents(data, ReadoutCycle, acq_start_ts)
<1>3. deqEvent' = deqEvent \o t /\ firstOn' = firstOn /\ cycleData' = <<>>
  BY <1>2 DEF ShutterOff
<1>4. data \in Seq(EntryType)
  BY <1>1, <1>2, AppendProperties
<1>5. Waiting(data, lastOn, acq_start_ts)
  BY <1>1, <1>2, AppendUnknown DEF FiledInv
<1> HIDE DEF data
<1>6. WellBuilt(t, data, ReadoutCycle, acq_start_ts)
  BY <1>1, <1>4, Built
<1>7. ReadoutCycle = lastOn - firstOn
  <2>1. lastOn # -1
    BY DEF CycleInv, OpenInv
  <2> QED  BY <2>1 DEF CycleInv, CycleFollowed
<1> HIDE DEF t
<1>8. t \in Seq(EventType) /\ AllFiled(t, firstOn)
  BY <1>5, <1>6, <1>7, BuiltFiled DEF WellBuilt
<1>9. AllFiled(deqEvent \o t, firstOn)
  BY <1>1, <1>8, FiledConcat DEF FiledInv
<1> QED  BY <1>3, <1>9 DEF NoneKnown

(* Neither the events nor the entries depend on the other variables. *)
LEMMA FiledSame ==
  ASSUME FiledInv, hwOn' /\ onDelivered' => hwOn /\ onDelivered /\ hwStart' = hwStart,
         UNCHANGED <<mode, fresh, lastOn, firstOn, acq_start_ts, ROC_started, cycleData, deqEvent>>
  PROVE  FiledInv'
<1>1. fresh => AllFiled(deqEvent, firstOn)'
  BY FiledMode DEF FiledInv
<1> QED  BY <1>1 DEF FiledInv

LEMMA FiledTrigger == ASSUME TypeOK, CycleInv, FiledInv, HwTrigger PROVE FiledInv'
<1>1. PICK k \in Fired, n \in {hwTrig, hwTrig + 1} :
        TriggerPacket([no |-> n, fired |-> k, ts |-> clock, of |-> Place])
  BY DEF HwTrigger
<1>2. PICK t \in Seq(EntryType) : /\ cycleData' = cycleData \o t
                                  /\ \A i \in 1 .. Len(t) : t[i].kind = "trigger" /\ t[i].of = Place
  BY <1>1, TriggerArrives
<1>3. UNCHANGED <<mode, fresh, lastOn, firstOn, acq_start_ts, ROC_started, deqEvent,
                  hwOn, hwStart, onDelivered>>
  BY <1>1 DEF HwTrigger, TriggerPacket, cycle, config, shutter
<1>4. Place.known = (hwOn /\ onDelivered) /\ Place.cyc = hwCycle /\ Place.start = hwStart
  BY DEF Place
<1>5. hwOn /\ onDelivered /\ fresh => lastOn = hwCycle /\ acq_start_ts = hwStart /\ ROC_started
  BY DEF FiledInv, CycleInv, GapInv, OpenInv
<1>6. cycleData \in Seq(EntryType)
  BY DEF TypeOK
<1>7. /\ \A i \in 1 .. Len(cycleData) : cycleData'[i] = cycleData[i]
      /\ \A i \in 1 .. Len(t) : cycleData'[Len(cycleData) + i] = t[i]
      /\ \A i \in 1 .. Len(cycleData') : \/ i \in 1 .. Len(cycleData)
                                         \/ \E j \in 1 .. Len(t) : i = Len(cycleData) + j
  BY <1>2, <1>6, Concatenated
<1>8. ASSUME fresh
      PROVE  Waiting(cycleData', lastOn, acq_start_ts)
  <2> SUFFICES ASSUME NEW i \in 1 .. Len(cycleData'), Known(cycleData'[i])
               PROVE  cycleData'[i].of.cyc = lastOn /\ cycleData'[i].of.start = acq_start_ts
    BY DEF Waiting
  <2>1. CASE i \in 1 .. Len(cycleData)
    BY <1>7, <1>8, <2>1 DEF FiledInv, Waiting
  <2>2. ASSUME NEW j \in 1 .. Len(t), i = Len(cycleData) + j
        PROVE  cycleData'[i].of.cyc = lastOn /\ cycleData'[i].of.start = acq_start_ts
    <3>1. cycleData'[i] = t[j] /\ t[j].of = Place
      BY <1>2, <1>7, <2>2
    <3>2. hwOn /\ onDelivered
      BY <1>4, <3>1 DEF Known
    <3> QED  BY <1>4, <1>5, <1>8, <3>1, <3>2
  <2> QED  BY <1>7, <2>1, <2>2
<1>9. ASSUME fresh, ~ROC_started
      PROVE  NoneKnown(cycleData')
  <2> SUFFICES ASSUME NEW i \in 1 .. Len(cycleData')
               PROVE  ~Known(cycleData'[i])
    BY DEF NoneKnown
  <2>1. CASE i \in 1 .. Len(cycleData)
    BY <1>7, <1>9, <2>1 DEF FiledInv, NoneKnown
  <2>2. ASSUME NEW j \in 1 .. Len(t), i = Len(cycleData) + j
        PROVE  ~Known(cycleData'[i])
    <3>1. cycleData'[i] = t[j] /\ t[j].of = Place
      BY <1>2, <1>7, <2>2
    <3> QED  BY <1>4, <1>5, <1>9, <3>1 DEF Known
  <2> QED  BY <1>7, <2>1, <2>2
<1>10. fresh => AllFiled(deqEvent, firstOn)'
  BY <1>3, FiledMode DEF FiledInv
<1> QED  BY <1>3, <1>8, <1>9, <1>10 DEF FiledInv

LEMMA FiledStep == TypeOK /\ CycleInv /\ FiledInv /\ [Next]_vars => FiledInv'
<1> SUFFICES ASSUME TypeOK, CycleInv, FiledInv, [Next]_vars
             PROVE  FiledInv'
  OBVIOUS
<1>1. CASE DoStartRun
  <2>1. /\ deqEvent' = <<>> /\ onDelivered' = FALSE /\ cycleData' = cycleData
        /\ fresh' => cycleData = <<>>
    BY <1>1 DEF DoStartRun
  <2>2. Len(<<>>) = 0 /\ 1 .. 0 = {}
    OBVIOUS
  <2> QED  BY <2>1, <2>2 DEF FiledInv, Waiting, NoneKnown, AllFiled
<1>2. CASE HwOn
  <2>1. CASE /\ Tick
             /\ ShutterOn(Shutter(hwCycle + 1, clock, clock))
             /\ lastOn' = hwCycle + 1 /\ onDelivered' = TRUE
    <3>1. PICK w : w = Shutter(hwCycle + 1, clock, clock)
      OBVIOUS
    <3>2. hwCycle + 1 \in Nat /\ clock \in Nat
      BY DEF TypeOK
    <3>3. w.no = (hwCycle + 1) % CycleMod /\ w.ts = clock /\ w.ts \in Nat /\ w.of \in PlaceType
      BY <3>1, <3>2, ShutterTyped
    <3>4. /\ ShutterOn(w) /\ ROC_started' = TRUE /\ acq_start_ts' = w.ts
          /\ hwStart' = clock /\ fresh' = fresh /\ mode' = mode
      BY <1>2, <2>1, <3>1 DEF HwOn, ShutterOn, config
    <3>5. lastOn' # -1
      BY <2>1, <3>2
    <3> SUFFICES ASSUME fresh
                 PROVE  Waiting(cycleData, lastOn, acq_start_ts)' /\ AllFiled(deqEvent, firstOn)'
      BY <3>3, <3>4, <3>5 DEF FiledInv
    <3>6. PICK built, rest, lost : StartNew(w, built, rest, lost)
      BY <3>3, <3>4, NewStartBuilds
    <3>7. AllFiled(deqEvent', firstOn') /\ NoneKnown(cycleData')
      BY <3>3, <3>6, FiledStartNew
    <3> QED  BY <3>4, <3>7, FiledMode, NoneWaiting
  <2>2. CASE /\ lastOn # -1 /\ hwCycle + 2 - lastOn <= MaxGap
             /\ Lose
             /\ onDelivered' = FALSE /\ UNCHANGED lastOn
    BY <1>2, <2>2, FiledSame DEF HwOn, Lose, config, cycle
  <2> QED  BY <1>2, <2>1, <2>2 DEF HwOn
<1>3. CASE HwRepeatOn
  <2>1. PICK w : w = Shutter(hwCycle, hwStart, hwStart)
    OBVIOUS
  <2>2. /\ hwCycle \in Nat /\ hwStart \in Nat /\ deqEvent \in Seq(EventType)
        /\ cycleData \in Seq(EntryType) /\ ReadoutCycle \in Int
    BY DEF TypeOK
  <2>3. /\ w.no = hwCycle % CycleMod /\ w.of.cyc = hwCycle /\ w.ts = hwStart
        /\ w.ts \in Nat /\ w.of \in PlaceType
    BY <2>1, ShutterAgain
  <2>4. /\ ShutterOn(w) /\ ROC_started' = TRUE /\ acq_start_ts' = w.ts
        /\ UNCHANGED <<hwOn, onDelivered, hwStart, lastOn, fresh, mode>>
        /\ hwOn /\ onDelivered
    BY <1>3, <2>1 DEF HwRepeatOn, ShutterOn, config, shutter
  <2>5. acq_start_ts' = acq_start_ts /\ acq_start_ts' = hwStart
    BY <2>3, <2>4 DEF FiledInv
  <2> SUFFICES ASSUME fresh
               PROVE  /\ lastOn' = -1 => deqEvent' = <<>>
                      /\ Waiting(cycleData, lastOn, acq_start_ts)' /\ AllFiled(deqEvent, firstOn)'
    BY <2>4, <2>5 DEF FiledInv
  <2>6. StartAgain(w)
    BY <2>2, <2>3, <2>4, RepeatedStartBuilds
  <2>7. PICK e \in EntryType : e = Entry("start", ReadoutCycle, w.ts, w.of) /\ e.kind = "start"
    <3>1. /\ Entry("start", ReadoutCycle, w.ts, w.of) \in EntryType
         /\ Entry("start", ReadoutCycle, w.ts, w.of).kind = "start"
      BY <2>2, <2>3 DEF Entry, EntryType
    <3> QED  BY <3>1
  <2>8. cycleData' = Append(cycleData, e) /\ UNCHANGED <<deqEvent, firstOn>>
    BY <2>6, <2>7 DEF StartAgain
  <2>9. Waiting(cycleData', lastOn, acq_start_ts)
    BY <2>2, <2>7, <2>8, AppendUnknown DEF FiledInv
  <2>10. AllFiled(deqEvent, firstOn)'
    BY <2>4, <2>8, FiledMode DEF FiledInv
  <2> QED  BY <2>4, <2>5, <2>8, <2>9, <2>10 DEF FiledInv
<1>4. CASE HwOff
  <2>1. CASE Lose
    BY <1>4, <2>1, FiledSame DEF HwOff, Lose, config, cycle
  <2>2. CASE Tick /\ ShutterOff(Shutter(hwCycle, clock, hwStart))
    <3>1. PICK w : w = Shutter(hwCycle, clock, hwStart)
      OBVIOUS
    <3>2. hwCycle \in Nat /\ hwStart \in Nat /\ clock \in Nat
      BY DEF TypeOK
    <3>3. w.ts \in Nat /\ w.of \in PlaceType
      BY <3>1, <3>2, ShutterTyped
    <3>4. /\ ShutterOff(w) /\ fresh' = fresh /\ mode' = mode /\ hwOn /\ hwOn' = FALSE
          /\ lastOn' = lastOn
      BY <1>4, <2>2, <3>1 DEF HwOff, ShutterOff, config
    <3>5. fresh => lastOn # -1
      BY <3>4 DEF CycleInv, OpenInv
    <3>6. fresh => AllFiled(deqEvent', firstOn') /\ NoneKnown(cycleData')
      BY <3>3, <3>4, FiledStop
    <3>7. fresh => AllFiled(deqEvent, firstOn)' /\ Waiting(cycleData, lastOn, acq_start_ts)'
      BY <3>4, <3>6, FiledMode, NoneWaiting
    <3> QED  BY <3>4, <3>5, <3>6, <3>7 DEF FiledInv
  <2> QED  BY <1>4, <2>1, <2>2 DEF HwOff
<1>5. CASE HwTrigger
  BY <1>5, FiledTrigger
<1>6. CASE UNCHANGED vars
  BY <1>6, FiledSame DEF vars, config, cycle, shutter
<1> QED  BY <1>1, <1>2, <1>3, <1>4, <1>5, <1>6 DEF Next

(* Spec implies TriggersFiled: in a fresh run a trigger of a cycle whose start
   was delivered is only in events of that cycle and of its own BXID, in every
   mode and whatever shutter words are lost or repeated within MaxGap. *)
THEOREM TriggersInTheirCycle == Spec => []TriggersFiled
<1>1. ASSUME TypeOK, FiledInv
      PROVE  TriggersFiled
  <2> SUFFICES ASSUME fresh, NEW i \in DOMAIN deqEvent, NEW t \in ToSet(deqEvent[i].data),
                      t.kind = "trigger", t.of.known
               PROVE  /\ deqEvent[i].roc = t.of.cyc - firstOn + CountRocFrom
                      /\ mode # "ROC" /\ source = "external" =>
                           deqEvent[i].bxid = Quotient(t.ts - t.of.start - BxidOffset, BxidLength)
    BY DEF TriggersFiled
  <2>1. deqEvent \in Seq(EventType) /\ i \in 1 .. Len(deqEvent) /\ deqEvent[i] \in EventType
    BY <1>1, LenProperties, ElementOfSeq DEF TypeOK
  <2>2. deqEvent[i].data \in Seq(EntryType)
    BY <2>1 DEF EventType
  <2>3. PICK k \in 1 .. Len(deqEvent[i].data) : t = deqEvent[i].data[k]
    BY <2>2, LenProperties DEF ToSet
  <2>4. Filed(deqEvent[i], firstOn) /\ Known(t)
    BY <1>1, <2>1 DEF FiledInv, AllFiled, Known
  <2> QED  BY <2>3, <2>4 DEF Filed, Bxid
<1>2. TypeOK /\ FiledInv => TriggersFiled
  BY <1>1
<1> QED  BY TypeInit, TypeStep, CycleInit, CycleStep, FiledInit, FiledStep, <1>2, PTL DEF Spec
-----------------------------------------------------------------------------
(* How often an entry is built. *)

(* The prefixes from which FlattenSeq is computed. *)
LEMMA FlatPrefixes ==
  ASSUME NEW T, NEW ss \in Seq(Seq(T)), Len(ss) # 0
  PROVE  \E f : /\ FlattenSeq(ss) = f[Len(ss)] /\ f[1] = ss[1]
                /\ \A m \in 1 .. Len(ss) : f[m] \in Seq(T)
                /\ \A m \in 2 .. Len(ss) : f[m] = f[m - 1] \o ss[m]
<1>0. Len(ss) \in Nat /\ \A i \in 1 .. Len(ss) : ss[i] \in Seq(T)
  BY LenProperties, ElementOfSeq
<1> DEFINE f == CHOOSE g : FlatUpTo(g, ss, Len(ss))
<1>1. FlatUpTo(f, ss, Len(ss))
  BY <1>0, FlatExists
<1>2. FlattenSeq(ss) = f[Len(ss)]
  BY DEF FlattenSeq, FlatUpTo
<1> HIDE DEF f
<1>3. f[1] = ss[1]
  <2>1. 1 \in 1 .. Len(ss)
    BY <1>0
  <2> QED  BY <1>1, <2>1 DEF FlatUpTo
<1>4. ASSUME NEW m \in 2 .. Len(ss) PROVE f[m] = f[m - 1] \o ss[m]
  <2>1. m \in 1 .. Len(ss) /\ m # 1
    BY <1>0
  <2> QED  BY <1>1, <2>1 DEF FlatUpTo
<1> DEFINE N == {n \in Nat : n = 0 \/ f[n] \in Seq(T)}
<1>5. ASSUME NEW n \in 1 .. Len(ss), n - 1 \in N PROVE n \in N
  <2>1. CASE n = 1
    <3>1. 1 \in 1 .. Len(ss)
      BY <1>0
    <3>2. ss[1] \in Seq(T)
      BY <1>0, <3>1
    <3>3. f[n] \in Seq(T) /\ n \in Nat
      BY <1>3, <2>1, <3>2
    <3> QED  BY <3>3
  <2>2. CASE n # 1
    <3>1. n \in 2 .. Len(ss) /\ n - 1 # 0
      BY <1>0, <2>2
    <3>2. f[n - 1] \in Seq(T) /\ ss[n] \in Seq(T) /\ f[n] = f[n - 1] \o ss[n]
      BY <1>0, <1>4, <1>5, <3>1
    <3>3. f[n] \in Seq(T)
      BY <3>2, ConcatProperties
    <3> QED  BY <3>3
  <2> QED  BY <2>1, <2>2
<1>6. 0 \in N
  OBVIOUS
<1> HIDE DEF N
<1>7. 0 .. Len(ss) \subseteq N
  BY <1>0, <1>5, <1>6, UpToInduction
<1>8. ASSUME NEW m \in 1 .. Len(ss) PROVE f[m] \in Seq(T)
  <2>1. m \in N /\ m # 0
    BY <1>0, <1>7, SMTT(60)
  <2> QED  BY <2>1 DEF N
<1> QED  BY <1>2, <1>3, <1>4, <1>8

(* Every element of every sequence is an element of the whole. *)
Has(s, x) == \E j \in 1 .. Len(s) : s[j] = x

LEMMA HasConcat ==
  ASSUME NEW T, NEW s \in Seq(T), NEW t \in Seq(T), NEW x
  PROVE  Has(s \o t, x) <=> Has(s, x) \/ Has(t, x)
<1> DEFINE u == s \o t
<1>1. /\ Len(s) \in Nat /\ Len(t) \in Nat /\ Len(u) = Len(s) + Len(t)
      /\ \A i \in 1 .. Len(s) : u[i] = s[i]
      /\ \A i \in 1 .. Len(t) : u[Len(s) + i] = t[i]
      /\ \A i \in 1 .. Len(u) : \/ i \in 1 .. Len(s)
                                \/ \E k \in 1 .. Len(t) : i = Len(s) + k
  BY Concatenated
<1> HIDE DEF u
<1>2. ASSUME Has(s, x) PROVE Has(u, x)
  <2>1. PICK j \in 1 .. Len(s) : s[j] = x
    BY <1>2 DEF Has
  <2>2. j \in 1 .. Len(u)
    BY <1>1
  <2> QED  BY <1>1, <2>1, <2>2 DEF Has
<1>3. ASSUME Has(t, x) PROVE Has(u, x)
  <2>1. PICK j \in 1 .. Len(t) : t[j] = x
    BY <1>3 DEF Has
  <2>2. Len(s) + j \in 1 .. Len(u)
    BY <1>1
  <2> QED  BY <1>1, <2>1, <2>2 DEF Has
<1>4. ASSUME Has(u, x) PROVE Has(s, x) \/ Has(t, x)
  BY <1>1, <1>4 DEF Has
<1> QED  BY <1>2, <1>3, <1>4 DEF u

LEMMA FlatHas ==
  ASSUME NEW T, NEW ss \in Seq(Seq(T)), NEW i \in 1 .. Len(ss), NEW x, Has(ss[i], x)
  PROVE  Has(FlattenSeq(ss), x)
<1>0. Len(ss) \in Nat /\ Len(ss) # 0 /\ \A m \in 1 .. Len(ss) : ss[m] \in Seq(T)
  BY LenProperties, ElementOfSeq
<1>1. PICK f : /\ FlattenSeq(ss) = f[Len(ss)] /\ f[1] = ss[1]
               /\ \A m \in 1 .. Len(ss) : f[m] \in Seq(T)
               /\ \A m \in 2 .. Len(ss) : f[m] = f[m - 1] \o ss[m]
  BY <1>0, FlatPrefixes
<1> DEFINE N == {n \in Nat : n >= i => Has(f[n], x)}
<1>2. 0 \in N
  OBVIOUS
<1>3. ASSUME NEW n \in 1 .. Len(ss), n - 1 \in N PROVE n \in N
  <2> SUFFICES ASSUME n >= i PROVE Has(f[n], x)
    OBVIOUS
  <2>1. CASE n = 1
    BY <1>0, <1>1, <2>1
  <2>2. CASE n # 1
    <3>1. n \in 2 .. Len(ss) /\ n - 1 \in 1 .. Len(ss)
      BY <1>0, <2>2
    <3>2. f[n] = f[n - 1] \o ss[n] /\ f[n - 1] \in Seq(T) /\ ss[n] \in Seq(T)
      BY <1>0, <1>1, <3>1
    <3>3. n = i \/ n - 1 >= i
      BY <1>0
    <3>4. Has(ss[n], x) \/ Has(f[n - 1], x)
      BY <1>3, <3>1, <3>3
    <3> QED  BY <3>2, <3>4, HasConcat
  <2> QED  BY <2>1, <2>2
<1> HIDE DEF N
<1>4. 0 .. Len(ss) \subseteq N
  BY <1>0, <1>2, <1>3, UpToInduction
<1>5. Len(ss) \in N /\ Len(ss) >= i
  BY <1>0, <1>4
<1> QED  BY <1>0, <1>1, <1>5 DEF N
-----------------------------------------------------------------------------
(* The places of an entry, and of the events that hold it. *)
Copies(data, e) == {i \in 1 .. Len(data) : data[i] = e}

HeldAt(evs, e) == {i \in 1 .. Len(evs) : Has(evs[i].data, e)}

LEMMA HeldSame ==
  ASSUME NEW s \in Seq(EventType), NEW t \in Seq(EventType), NEW e, HeldAt(t, e) = {}
  PROVE  HeldAt(s \o t, e) = HeldAt(s, e)
<1> DEFINE u == s \o t
<1>1. /\ Len(s) \in Nat /\ Len(t) \in Nat /\ Len(u) = Len(s) + Len(t)
      /\ \A i \in 1 .. Len(s) : u[i] = s[i]
      /\ \A i \in 1 .. Len(t) : u[Len(s) + i] = t[i]
      /\ \A i \in 1 .. Len(u) : \/ i \in 1 .. Len(s)
                                \/ \E k \in 1 .. Len(t) : i = Len(s) + k
  BY Concatenated
<1> HIDE DEF u
<1>2. \A i \in 1 .. Len(s) : i \in 1 .. Len(u)
  BY <1>1
<1>3. ASSUME NEW i \in HeldAt(u, e) PROVE i \in HeldAt(s, e)
  <2>1. CASE i \in 1 .. Len(s)
    BY <1>1, <2>1 DEF HeldAt
  <2>2. ASSUME NEW k \in 1 .. Len(t), i = Len(s) + k PROVE FALSE
    <3>1. k \in HeldAt(t, e)
      BY <1>1, <1>3, <2>2 DEF HeldAt
    <3> QED  BY <3>1
  <2> QED  BY <1>1, <1>3, <2>1, <2>2 DEF HeldAt
<1>4. ASSUME NEW i \in HeldAt(s, e) PROVE i \in HeldAt(u, e)
  BY <1>1, <1>2, <1>4 DEF HeldAt
<1> QED  BY <1>3, <1>4 DEF u

(* Cardinality(S) = n, of a finite set. *)
Counts(S, n) == IsFiniteSet(S) /\ Cardinality(S) = n

LEMMA CountsSame ==
  ASSUME NEW S, NEW R, NEW g \in Bijection(S, R), NEW n, Counts(S, n)
  PROVE  Counts(R, n)
BY FS_Bijection DEF Counts, ExistsBijection

LEMMA HeldShift ==
  ASSUME NEW s \in Seq(EventType), NEW t \in Seq(EventType), NEW e, HeldAt(s, e) = {},
         NEW n, Counts(HeldAt(t, e), n)
  PROVE  Counts(HeldAt(s \o t, e), n)
<1> DEFINE u == s \o t
<1>1. /\ Len(s) \in Nat /\ Len(t) \in Nat /\ Len(u) = Len(s) + Len(t)
      /\ \A i \in 1 .. Len(s) : u[i] = s[i]
      /\ \A i \in 1 .. Len(t) : u[Len(s) + i] = t[i]
      /\ \A i \in 1 .. Len(u) : \/ i \in 1 .. Len(s)
                                \/ \E k \in 1 .. Len(t) : i = Len(s) + k
  BY Concatenated
<1> HIDE DEF u
<1> DEFINE A == HeldAt(t, e)
           B == HeldAt(u, e)
           g == [i \in A |-> Len(s) + i]
<1>2. \A i \in A : i \in 1 .. Len(t) /\ i \in Nat /\ Len(s) + i \in B
  <2> SUFFICES ASSUME NEW i \in A PROVE i \in 1 .. Len(t) /\ i \in Nat /\ Len(s) + i \in B
    OBVIOUS
  <2>1. i \in 1 .. Len(t) /\ Has(t[i].data, e)
    BY DEF HeldAt
  <2>2. Len(s) + i \in 1 .. Len(u) /\ i \in Nat
    BY <1>1, <2>1
  <2>3. u[Len(s) + i] = t[i]
    BY <1>1, <2>1
  <2> QED  BY <2>1, <2>2, <2>3 DEF HeldAt
<1>3. ASSUME NEW j \in B PROVE \E i \in A : j = Len(s) + i
  <2>1. j \in 1 .. Len(u) /\ Has(u[j].data, e)
    BY DEF HeldAt
  <2>2. j \notin 1 .. Len(s)
    <3> SUFFICES ASSUME j \in 1 .. Len(s) PROVE FALSE
      OBVIOUS
    <3>1. j \in HeldAt(s, e)
      BY <1>1, <2>1 DEF HeldAt
    <3> QED  BY <3>1
  <2>3. PICK i \in 1 .. Len(t) : j = Len(s) + i
    BY <1>1, <2>1, <2>2
  <2>4. i \in A
    BY <1>1, <2>1, <2>3 DEF HeldAt
  <2> QED  BY <2>3, <2>4
<1> HIDE DEF A, B
<1>4. g \in [A -> B]
  BY <1>2
<1>5. \A i, j \in A : g[i] = g[j] => i = j
  BY <1>1, <1>2
<1>6. g \in Injection(A, B)
  BY <1>4, <1>5 DEF Injection, IsInjective
<1>7. g \in Surjection(A, B)
  BY <1>3, <1>4 DEF Surjection
<1>8. g \in Bijection(A, B)
  BY <1>6, <1>7 DEF Bijection
<1>9. Counts(B, n)
  BY <1>8, CountsSame DEF A
<1> QED  BY <1>9 DEF B, u
-----------------------------------------------------------------------------
(* If only the first sequence holds an entry, the whole holds it there. *)
LEMMA FlatFirst ==
  ASSUME NEW ss \in Seq(Seq(EventType)), Len(ss) # 0, NEW e,
         \A i \in 2 .. Len(ss) : HeldAt(ss[i], e) = {}
  PROVE  HeldAt(FlattenSeq(ss), e) = HeldAt(ss[1], e)
<1>0. Len(ss) \in Nat /\ \A m \in 1 .. Len(ss) : ss[m] \in Seq(EventType)
  BY LenProperties, ElementOfSeq
<1>1. PICK f : /\ FlattenSeq(ss) = f[Len(ss)] /\ f[1] = ss[1]
               /\ \A m \in 1 .. Len(ss) : f[m] \in Seq(EventType)
               /\ \A m \in 2 .. Len(ss) : f[m] = f[m - 1] \o ss[m]
  BY FlatPrefixes
<1> DEFINE N == {n \in Nat : n = 0 \/ HeldAt(f[n], e) = HeldAt(ss[1], e)}
<1>2. 0 \in N
  OBVIOUS
<1>3. ASSUME NEW n \in 1 .. Len(ss), n - 1 \in N PROVE n \in N
  <2>0. n \in Nat
    OBVIOUS
  <2>1. CASE n = 1
    BY <1>1, <2>0, <2>1
  <2>2. CASE n # 1
    <3>1. n \in 2 .. Len(ss) /\ n - 1 \in 1 .. Len(ss) /\ n - 1 # 0
      BY <1>0, <2>2
    <3>2. f[n] = f[n - 1] \o ss[n] /\ f[n - 1] \in Seq(EventType) /\ ss[n] \in Seq(EventType)
      BY <1>0, <1>1, <3>1
    <3>3. HeldAt(ss[n], e) = {}
      BY <3>1
    <3>4. HeldAt(f[n], e) = HeldAt(f[n - 1], e)
      BY <3>2, <3>3, HeldSame
    <3>5. HeldAt(f[n - 1], e) = HeldAt(ss[1], e)
      BY <1>3, <3>1
    <3> QED  BY <2>0, <3>4, <3>5
  <2> QED  BY <2>1, <2>2
<1> HIDE DEF N
<1>4. 0 .. Len(ss) \subseteq N
  BY <1>0, <1>2, <1>3, UpToInduction
<1>5. Len(ss) \in N
  BY <1>0, <1>4
<1> QED  BY <1>1, <1>5 DEF N

LEMMA NotBuilt ==
  ASSUME NEW evs, NEW data, NEW roc, NEW start, WellBuilt(evs, data, roc, start),
         NEW e, ~Has(data, e)
  PROVE  HeldAt(evs, e) = {}
<1> SUFFICES ASSUME NEW i \in HeldAt(evs, e) PROVE FALSE
  OBVIOUS
<1>1. i \in 1 .. Len(evs) /\ Has(evs[i].data, e)
  BY DEF HeldAt
<1>2. Copied(evs[i].data, data)
  BY <1>1 DEF WellBuilt
<1>3. PICK k \in 1 .. Len(evs[i].data) : evs[i].data[k] = e
  BY <1>1 DEF Has
<1>4. PICK l \in 1 .. Len(data) : evs[i].data[k] = data[l]
  BY <1>2, <1>3 DEF Copied
<1> QED  BY <1>3, <1>4 DEF Has

(* What waits is built with the first lost cycle, and with no other. *)
LEMMA PaddingHolds ==
  ASSUME Buildable, NEW rest \in Seq(EntryType), NEW old \in Int, NEW lost \in Nat,
         NEW ts \in Int, NEW e
  PROVE  /\ ~Has(rest, e) => HeldAt(Padding(rest, old, lost, ts), e) = {}
         /\ lost > 0 => HeldAt(Padding(rest, old, lost, ts), e)
                          = HeldAt(buildEudaqEvents(rest, old + 1, ts), e)
         /\ lost = 0 => Padding(rest, old, lost, ts) = <<>>
<1> DEFINE d(i) == IF i = 1 THEN rest ELSE <<>>
           ss == [i \in 1 .. lost |-> buildEudaqEvents(d(i), old + i, ts)]
           p == FlattenSeq(ss)
<1>1. p = Padding(rest, old, lost, ts)
  BY DEF Padding
<1>2. ~Has(rest, e) => HeldAt(p, e) = {}
  <2> SUFFICES ASSUME ~Has(rest, e), NEW j \in HeldAt(p, e) PROVE FALSE
    OBVIOUS
  <2>1. Padded(p, rest, old, lost)
    BY <1>1, PaddingBuilt
  <2> HIDE DEF p
  <2>2. j \in 1 .. Len(p) /\ Has(p[j].data, e)
    BY DEF HeldAt
  <2>3. Copied(p[j].data, rest)
    BY <2>1, <2>2 DEF Padded
  <2> QED  BY <2>2, <2>3 DEF Has, Copied
<1>3. ASSUME NEW i \in 1 .. lost
      PROVE  /\ WellBuilt(ss[i], d(i), old + i, ts)
             /\ ss[i] = buildEudaqEvents(d(i), old + i, ts)
  <2>1. d(i) \in Seq(EntryType) /\ old + i \in Int
    OBVIOUS
  <2>2. ss[i] = buildEudaqEvents(d(i), old + i, ts)
    OBVIOUS
  <2> HIDE DEF d, ss
  <2> QED  BY <2>1, <2>2, Built
<1>4. ss = [i \in 1 .. lost |-> ss[i]]
  OBVIOUS
<1>5. lost = 0 => p = <<>>
  <2> SUFFICES ASSUME lost = 0 PROVE p = <<>>
    OBVIOUS
  <2>1. ss = <<>>
    OBVIOUS
  <2>2. FlattenSeq(<<>>) = <<>>
    BY DEF FlattenSeq
  <2> HIDE DEF ss
  <2> QED  BY <2>1, <2>2
<1> HIDE DEF ss
<1>6. ss \in Seq(Seq(EventType)) /\ Len(ss) = lost
  <2>1. \A i \in 1 .. lost : ss[i] \in Seq(EventType)
    BY <1>3 DEF WellBuilt
  <2>2. ss \in [1 .. lost -> Seq(EventType)]
    BY <1>4, <2>1
  <2>3. ss \in Seq(Seq(EventType)) /\ DOMAIN ss = 1 .. lost
    BY <2>2, SeqDef
  <2> QED  BY <2>3, LenProperties
<1>7. ASSUME lost > 0
      PROVE  HeldAt(p, e) = HeldAt(buildEudaqEvents(rest, old + 1, ts), e)
  <2>1. \A i \in 2 .. lost : HeldAt(ss[i], e) = {}
    <3> SUFFICES ASSUME NEW i \in 2 .. lost PROVE HeldAt(ss[i], e) = {}
      OBVIOUS
    <3>1. i \in 1 .. lost /\ i # 1
      OBVIOUS
    <3>2. WellBuilt(ss[i], <<>>, old + i, ts)
      BY <1>3, <3>1
    <3>3. ~Has(<<>>, e)
      BY DEF Has
    <3> QED  BY <3>2, <3>3, NotBuilt
  <2>2. Len(ss) # 0
    BY <1>6, <1>7
  <2>3. HeldAt(p, e) = HeldAt(ss[1], e)
    BY <1>6, <2>1, <2>2, FlatFirst
  <2>4. 1 \in 1 .. lost
    BY <1>7
  <2>5. ss[1] = buildEudaqEvents(rest, old + 1, ts)
    BY <1>3, <2>4
  <2> QED  BY <2>3, <2>5
<1> QED  BY <1>1, <1>2, <1>5, <1>7
-----------------------------------------------------------------------------
(* The start and the stop that are copied are not triggers. *)
LEMMA LastHasNot ==
  ASSUME NEW data \in Seq(EntryType), NEW kind, NEW e, e.kind # kind
  PROVE  ~Has(LastOf(data, kind), e) /\ LastOf(data, kind) \in Seq(EntryType)
<1> DEFINE s == OfKind(data, kind)
<1>1. s \in Seq(EntryType) /\ \A k \in 1 .. Len(s) : s[k].kind = kind
  BY EntriesOfKind DEF Copied
<1>2. LastOf(data, kind) = IF s = <<>> THEN <<>> ELSE <<Last(s)>>
  BY DEF LastOf
<1> HIDE DEF s
<1>3. CASE s = <<>>
  BY <1>2, <1>3 DEF Has
<1>4. CASE s # <<>>
  <2>1. Len(s) \in 1 .. Len(s)
    BY <1>1, <1>4, EmptySeq, LenProperties
  <2>2. PICK x \in EntryType : x = Last(s) /\ x.kind = kind
    BY <1>1, <2>1, ElementOfSeq DEF Last
  <2>3. <<x>> \in Seq(EntryType) /\ Len(<<x>>) = 1 /\ <<x>>[1] = x
    OBVIOUS
  <2>4. ~Has(<<x>>, e)
    BY <2>2, <2>3 DEF Has
  <2> QED  BY <1>2, <1>4, <2>2, <2>3, <2>4
<1> QED  BY <1>3, <1>4

LEMMA HasOne ==
  ASSUME NEW x, NEW e
  PROVE  Has(<<x>>, e) <=> x = e
BY DEF Has

(* The copies of a trigger are found again among the triggers. *)
LEMMA CopiesOfKind ==
  ASSUME NEW data \in Seq(EntryType), NEW e, e.kind = "trigger", NEW n, Counts(Copies(data, e), n)
  PROVE  Counts(Copies(OfKind(data, "trigger"), e), n)
<1> DEFINE S == {i \in DOMAIN data : data[i].kind = "trigger"}
           s == Selected(data, S)
<1>1. s = OfKind(data, "trigger")
  BY DEF OfKind
<1>2. PICK h : /\ Lists(h, S, Len(data)) /\ Len(h) = Len(s)
               /\ \A k \in 1 .. Len(h) : s[k] = data[h[k]]
  <2> HIDE DEF S
  <2>1. \E h : /\ Lists(h, S, Len(data)) /\ Len(h) = Len(Selected(data, S))
              /\ \A k \in 1 .. Len(h) : Selected(data, S)[k] = data[h[k]]
    BY EntriesSelected
  <2> QED  BY <2>1
<1> DEFINE A == Copies(s, e)
           B == Copies(data, e)
           g == [k \in A |-> h[k]]
<1>3. DOMAIN data = 1 .. Len(data) /\ Len(data) \in Nat /\ Len(h) \in Nat
  BY <1>2, LenProperties DEF Lists
<1> HIDE DEF s
<1>4. \A k \in A : k \in 1 .. Len(h) /\ h[k] \in B
  <2> SUFFICES ASSUME NEW k \in A PROVE k \in 1 .. Len(h) /\ h[k] \in B
    OBVIOUS
  <2>1. k \in 1 .. Len(h) /\ s[k] = e /\ s[k] = data[h[k]]
    BY <1>2 DEF Copies
  <2>2. h[k] \in 1 .. Len(data)
    BY <1>2, <2>1 DEF Lists
  <2> QED  BY <2>1, <2>2 DEF Copies
<1>5. ASSUME NEW i \in B PROVE \E k \in A : h[k] = i
  <2>1. i \in 1 .. Len(data) /\ data[i] = e
    BY DEF Copies
  <2>2. i \in S
    BY <1>3, <2>1
  <2>3. PICK k \in 1 .. Len(h) : h[k] = i
    BY <1>2, <2>1, <2>2 DEF Lists
  <2>4. k \in A
    BY <1>2, <2>1, <2>3 DEF Copies
  <2> QED  BY <2>3, <2>4
<1>6. ASSUME NEW j \in A, NEW k \in A, h[j] = h[k] PROVE j = k
  <2>1. j \in 1 .. Len(h) /\ k \in 1 .. Len(h)
    BY <1>4
  <2>2. h[j] \in Nat /\ h[k] \in Nat
    BY <1>2, <2>1, <1>3 DEF Lists
  <2>3. j < k => h[j] < h[k]
    BY <1>2, <2>1 DEF Lists
  <2>4. k < j => h[k] < h[j]
    BY <1>2, <2>1 DEF Lists
  <2> QED  BY <1>3, <1>6, <2>1, <2>2, <2>3, <2>4
<1> HIDE DEF A, B, S
<1>7. g \in [A -> B]
  BY <1>4
<1>8. g \in Injection(A, B)
  BY <1>6, <1>7 DEF Injection, IsInjective
<1>9. g \in Surjection(A, B)
  BY <1>5, <1>7 DEF Surjection
<1>10. ExistsBijection(A, B)
  BY <1>8, <1>9 DEF Bijection, ExistsBijection
<1>11. ExistsBijection(B, A)
  BY <1>10, Fun_ExistsBijSymmetric
<1>12. Counts(A, n)
  BY <1>11, FS_Bijection DEF Counts, B
<1> QED  BY <1>1, <1>12 DEF A
-----------------------------------------------------------------------------
(* In the TRIGGERS mode a trigger is in one event for each of its copies. *)
LEMMA TriggersCounted ==
  ASSUME NEW data \in Seq(EntryType), NEW roc \in Int, NEW start \in Int,
         firstTriggerNumber \in Int,
         NEW e, e.kind = "trigger", NEW n, Counts(Copies(data, e), n)
  PROVE  Counts(HeldAt(buildEudaqEventsTriggers(data, roc, start), e), n)
<1> DEFINE trigs == OfKind(data, "trigger")
           before == LastOf(data, "start")
           after == LastOf(data, "stop")
           f == [i \in DOMAIN trigs |->
                   Event(roc, Bxid(trigs[i].ts, start), trigs[i].no - firstTriggerNumber,
                         before \o <<trigs[i]>> \o after)]
<1>1. f = buildEudaqEventsTriggers(data, roc, start)
  BY DEF buildEudaqEventsTriggers
<1>2. /\ before \in Seq(EntryType) /\ after \in Seq(EntryType)
      /\ ~Has(before, e) /\ ~Has(after, e)
  BY LastHasNot
<1>3. trigs \in Seq(EntryType)
  BY EntriesOfKind DEF Copied
<1>4. Counts(Copies(trigs, e), n)
  BY CopiesOfKind
<1>5. f \in Seq(EventType)
  BY <1>1, BuiltTriggers DEF WellBuilt
<1> HIDE DEF trigs, before, after
<1>6. DOMAIN trigs = 1 .. Len(trigs) /\ Len(trigs) \in Nat
      /\ \A i \in 1 .. Len(trigs) : trigs[i] \in EntryType
  BY <1>3, LenProperties, ElementOfSeq
<1>7. Len(f) = Len(trigs)
  <2>1. DOMAIN f = 1 .. Len(trigs)
    BY <1>6
  <2> HIDE DEF f
  <2>2. DOMAIN f = 1 .. Len(f) /\ Len(f) \in Nat
    BY <1>5, LenProperties
  <2> QED  BY <1>6, <2>1, <2>2
<1>8. ASSUME NEW i \in 1 .. Len(trigs)
      PROVE  Has(f[i].data, e) <=> trigs[i] = e
  <2> DEFINE s == before \o <<trigs[i]>> \o after
  <2>1. f[i].data = s
    BY <1>6 DEF Event
  <2>2. <<trigs[i]>> \in Seq(EntryType) /\ (Has(<<trigs[i]>>, e) <=> trigs[i] = e)
    BY <1>6, HasOne
  <2>3. before \o <<trigs[i]>> \in Seq(EntryType)
    BY <1>2, <2>2, ConcatProperties
  <2>4. Has(before \o <<trigs[i]>>, e) <=> trigs[i] = e
    BY <1>2, <2>2, HasConcat
  <2>5. Has(s, e) <=> trigs[i] = e
    <3>1. PICK t \in Seq(EntryType) : t = before \o <<trigs[i]>>
      BY <2>3
    <3>2. Has(t, e) <=> trigs[i] = e
      BY <2>4, <3>1
    <3>3. Has(t \o after, e) <=> Has(t, e) \/ Has(after, e)
      BY <1>2, HasConcat
    <3>4. s = t \o after
      BY <3>1
    <3> QED  BY <1>2, <3>2, <3>3, <3>4
  <2> HIDE DEF f, s
  <2> QED  BY <2>1, <2>5
<1> HIDE DEF f
<1>9. HeldAt(f, e) = Copies(trigs, e)
  BY <1>7, <1>8 DEF HeldAt, Copies
<1> QED  BY <1>1, <1>4, <1>9

(* The copies of a trigger follow each other. *)
Grouped(s) ==
  \A i, k \in 1 .. Len(s) : s[i] = s[k] /\ s[i].kind = "trigger" =>
     \A j \in i .. k : s[j] = s[i]

LEMMA GroupedOfKind ==
  ASSUME NEW data \in Seq(EntryType), Grouped(data)
  PROVE  Grouped(OfKind(data, "trigger"))
<1> DEFINE S == {i \in DOMAIN data : data[i].kind = "trigger"}
           s == Selected(data, S)
<1>1. s = OfKind(data, "trigger")
  BY DEF OfKind
<1>2. PICK h : /\ Lists(h, S, Len(data)) /\ Len(h) = Len(s)
               /\ \A k \in 1 .. Len(h) : s[k] = data[h[k]]
  <2> HIDE DEF S
  <2>1. \E h : /\ Lists(h, S, Len(data)) /\ Len(h) = Len(Selected(data, S))
              /\ \A k \in 1 .. Len(h) : Selected(data, S)[k] = data[h[k]]
    BY EntriesSelected
  <2> QED  BY <2>1
<1>3. Len(data) \in Nat /\ Len(h) \in Nat
  BY <1>2, LenProperties DEF Lists
<1> HIDE DEF s, S
<1>4. ASSUME NEW i \in 1 .. Len(s), NEW k \in 1 .. Len(s), s[i] = s[k], s[i].kind = "trigger",
             NEW j \in i .. k
      PROVE  s[j] = s[i]
  <2>1. i \in 1 .. Len(h) /\ j \in 1 .. Len(h) /\ k \in 1 .. Len(h)
    BY <1>2, <1>3
  <2>2. h[i] \in 1 .. Len(data) /\ h[j] \in 1 .. Len(data) /\ h[k] \in 1 .. Len(data)
    BY <1>2, <2>1 DEF Lists
  <2>3. (i < j => h[i] < h[j]) /\ (j < k => h[j] < h[k])
    BY <1>2, <2>1 DEF Lists
  <2>4. h[j] \in h[i] .. h[k]
    BY <1>3, <2>1, <2>2, <2>3
  <2>5. s[i] = data[h[i]] /\ s[j] = data[h[j]] /\ s[k] = data[h[k]]
    BY <1>2, <2>1
  <2>6. data[h[i]] = data[h[k]] /\ data[h[i]].kind = "trigger"
    BY <1>4, <2>5
  <2>7. \A l \in h[i] .. h[k] : data[l] = data[h[i]]
    BY <2>2, <2>6, Zenon DEF Grouped
  <2>8. data[h[j]] = data[h[i]]
    BY <2>4, <2>7
  <2> QED  BY <2>5, <2>8
<1>5. Grouped(s)
  BY <1>4 DEF Grouped
<1> QED  BY <1>1, <1>5

(* Every place is in one of the pieces that begin at the places h lists. *)
PieceEnd(h, n, k) == IF k = Len(h) THEN n ELSE h[k + 1] - 1

LEMMA PieceExists ==
  ASSUME NEW n \in Nat, NEW S, NEW h, Lists(h, S, n), 1 \in S, NEW i \in 1 .. n
  PROVE  \E k \in 1 .. Len(h) : i \in h[k] .. PieceEnd(h, n, k)
<1>0. Len(h) \in Nat
  BY LenProperties DEF Lists
<1>1. PICK o \in 1 .. Len(h) : h[o] = 1
  BY DEF Lists
<1> DEFINE N == {m \in Nat : m <= n /\ m >= 1 =>
                   \E k \in 1 .. Len(h) : m \in h[k] .. PieceEnd(h, n, k)}
<1>2. 0 \in N
  OBVIOUS
<1>3. ASSUME NEW m \in Nat, m \in N PROVE m + 1 \in N
  <2> SUFFICES ASSUME m + 1 <= n
               PROVE  \E k \in 1 .. Len(h) : m + 1 \in h[k] .. PieceEnd(h, n, k)
    OBVIOUS
  <2>1. ASSUME NEW k \in 1 .. Len(h), h[k] = m + 1
        PROVE  m + 1 \in h[k] .. PieceEnd(h, n, k)
    <3>1. CASE k = Len(h)
      BY <2>1, <3>1 DEF PieceEnd
    <3>2. CASE k # Len(h)
      <4>1. k + 1 \in 1 .. Len(h) /\ k < k + 1
        BY <1>0, <3>2
      <4>2. h[k] < h[k + 1] /\ h[k + 1] \in 1 .. n
        BY <4>1 DEF Lists
      <4>3. PieceEnd(h, n, k) = h[k + 1] - 1
        BY <3>2 DEF PieceEnd
      <4> QED  BY <2>1, <4>2, <4>3
    <3> QED  BY <3>1, <3>2
  <2>2. CASE m = 0
    BY <1>1, <2>1, <2>2
  <2>3. CASE m # 0
    <3>1. PICK k \in 1 .. Len(h) : m \in h[k] .. PieceEnd(h, n, k)
      BY <1>3, <2>3
    <3>2. h[k] \in 1 .. n
      BY DEF Lists
    <3>3. CASE k = Len(h)
      <4>1. PieceEnd(h, n, k) = n
        BY <3>3 DEF PieceEnd
      <4>2. m + 1 \in h[k] .. PieceEnd(h, n, k)
        BY <3>1, <3>2, <4>1
      <4> QED  BY <4>2
    <3>4. CASE k # Len(h)
      <4>1. k + 1 \in 1 .. Len(h)
        BY <1>0, <3>4
      <4>2. h[k + 1] \in 1 .. n
        BY <4>1 DEF Lists
      <4>3. PieceEnd(h, n, k) = h[k + 1] - 1
        BY <3>4 DEF PieceEnd
      <4>4. CASE h[k + 1] = m + 1
        BY <2>1, <4>1, <4>4
      <4>5. CASE h[k + 1] # m + 1
        <5>1. m + 1 \in h[k] .. PieceEnd(h, n, k)
          BY <3>1, <3>2, <4>2, <4>3, <4>5
        <5> QED  BY <5>1
      <4> QED  BY <4>4, <4>5
    <3> QED  BY <3>3, <3>4
  <2> QED  BY <2>2, <2>3
<1> HIDE DEF N
<1>4. i \in N
  BY <1>2, <1>3, NatSetInduction
<1> QED  BY <1>4 DEF N

LEMMA PieceIn ==
  ASSUME NEW n \in Nat, NEW S, NEW h, Lists(h, S, n), NEW k \in 1 .. Len(h)
  PROVE  /\ h[k] \in 1 .. n /\ PieceEnd(h, n, k) \in Nat /\ PieceEnd(h, n, k) <= n
         /\ \A i \in h[k] .. PieceEnd(h, n, k) : i \in 1 .. n
<1>0. Len(h) \in Nat
  BY LenProperties DEF Lists
<1>1. h[k] \in 1 .. n
  BY DEF Lists
<1>2. ASSUME k = Len(h) PROVE PieceEnd(h, n, k) \in Nat /\ PieceEnd(h, n, k) <= n
  BY <1>1, <1>2 DEF PieceEnd
<1>3. ASSUME k # Len(h) PROVE PieceEnd(h, n, k) \in Nat /\ PieceEnd(h, n, k) <= n
  <2>1. k + 1 \in 1 .. Len(h)
    BY <1>0, <1>3
  <2>2. h[k + 1] \in 1 .. n
    BY <2>1 DEF Lists
  <2> QED  BY <1>1, <1>3, <2>2 DEF PieceEnd
<1>4. PieceEnd(h, n, k) \in Nat /\ PieceEnd(h, n, k) <= n
  BY <1>2, <1>3
<1> QED  BY <1>1, <1>4

(* The places of a piece, counted from its begin. *)
LEMMA PiecePlaces ==
  ASSUME NEW n \in Nat, NEW b \in Nat, NEW z \in Nat, b >= 1, z <= n
  PROVE  /\ \A j \in 1 .. z - b + 1 : b + j - 1 \in b .. z /\ b + j - 1 \in 1 .. n
         /\ \A i \in b .. z : i - b + 1 \in 1 .. z - b + 1 /\ b + (i - b + 1) - 1 = i
  OBVIOUS

(* v changes at every place of S but the first, and keeps its value from i to j. *)
ChangesAt(v, S, n) == \A b \in 1 .. n : b \in S => b = 1 \/ v[b] # v[b - 1]

Keeps(v, i, j) == \A m \in i .. j : v[m] = v[i]

(* A value that does not change between two places does not begin a piece. *)
LEMMA OnePiece ==
  ASSUME NEW n \in Nat, NEW S, NEW h, Lists(h, S, n), NEW v,
         ChangesAt(v, S, n),
         NEW k \in 1 .. Len(h), NEW l \in 1 .. Len(h), k < l,
         NEW i \in h[k] .. PieceEnd(h, n, k), NEW j \in h[l] .. PieceEnd(h, n, l),
         Keeps(v, i, j)
  PROVE  FALSE
<1>0. Len(h) \in Nat
  BY LenProperties DEF Lists
<1>1. h[k] \in 1 .. n /\ h[l] \in 1 .. n /\ h[l] \in S
  BY DEF Lists
<1>2. i < h[l]
  <2>1. k # Len(h) /\ k + 1 \in 1 .. Len(h)
    BY <1>0
  <2>2. h[k + 1] \in 1 .. n /\ PieceEnd(h, n, k) = h[k + 1] - 1
    BY <2>1 DEF Lists, PieceEnd
  <2>3. h[k + 1] <= h[l]
    <3>1. CASE l = k + 1
      BY <1>1, <3>1
    <3>2. CASE k + 1 < l
      <4>1. h[k + 1] < h[l]
        BY <2>1, <3>2 DEF Lists
      <4> QED  BY <1>1, <2>2, <4>1
    <3> QED  BY <3>1, <3>2
  <2> QED  BY <1>1, <2>2, <2>3
<1>3. PICK b \in Nat : b = h[l]
  BY <1>1
<1>4. b \in i .. j /\ b - 1 \in i .. j /\ b # 1 /\ b \in 1 .. n
  BY <1>1, <1>2, <1>3
<1>5. v[b] = v[i] /\ v[b - 1] = v[i]
  BY <1>4 DEF Keeps
<1> QED  BY <1>1, <1>3, <1>4, <1>5 DEF ChangesAt

LEMMA OfKindHas ==
  ASSUME NEW data \in Seq(EntryType), NEW e, Has(data, e)
  PROVE  Has(OfKind(data, e.kind), e)
<1> DEFINE S == {i \in DOMAIN data : data[i].kind = e.kind}
           s == Selected(data, S)
<1>1. s = OfKind(data, e.kind)
  BY DEF OfKind
<1>2. PICK h : /\ Lists(h, S, Len(data)) /\ Len(h) = Len(s)
               /\ \A k \in 1 .. Len(h) : s[k] = data[h[k]]
  <2> HIDE DEF S
  <2>1. \E h : /\ Lists(h, S, Len(data)) /\ Len(h) = Len(Selected(data, S))
              /\ \A k \in 1 .. Len(h) : Selected(data, S)[k] = data[h[k]]
    BY EntriesSelected
  <2> QED  BY <2>1
<1>3. PICK i \in 1 .. Len(data) : data[i] = e
  BY DEF Has
<1>4. i \in S
  <2>1. DOMAIN data = 1 .. Len(data)
    BY LenProperties
  <2> QED  BY <1>3, <2>1
<1> HIDE DEF s, S
<1>5. PICK k \in 1 .. Len(h) : h[k] = i
  BY <1>2, <1>4 DEF Lists
<1>6. Has(s, e)
  BY <1>2, <1>3, <1>5 DEF Has
<1> QED  BY <1>1, <1>6

(* A sequence put together from pieces has what one of the pieces has. *)
LEMMA FlattenedHas ==
  ASSUME NEW n \in Nat, NEW ss, ss = [j \in 1 .. n |-> ss[j]],
         \A j \in 1 .. n : ss[j] \in Seq(EntryType), NEW e
  PROVE  /\ FlattenSeq(ss) \in Seq(EntryType)
         /\ Has(FlattenSeq(ss), e) <=> \E j \in 1 .. n : Has(ss[j], e)
<1>1. ss \in Seq(Seq(EntryType)) /\ Len(ss) = n
  <2>1. ss \in [1 .. n -> Seq(EntryType)]
    OBVIOUS
  <2>2. ss \in Seq(Seq(EntryType)) /\ DOMAIN ss = 1 .. n
    BY <2>1, SeqDef
  <2> QED  BY <2>2, LenProperties
<1>2. FlatOf(FlattenSeq(ss), ss, n, EntryType)
  BY <1>1, Flattened
<1>3. ASSUME Has(FlattenSeq(ss), e) PROVE \E j \in 1 .. n : Has(ss[j], e)
  <2> DEFINE fl == FlattenSeq(ss)
  <2>1. FlatOf(fl, ss, n, EntryType) /\ Has(fl, e)
    BY <1>2, <1>3
  <2> HIDE DEF fl
  <2>2. PICK k \in 1 .. Len(fl) : fl[k] = e
    BY <2>1 DEF Has
  <2>3. PICK j \in 1 .. n : \E i \in 1 .. Len(ss[j]) : fl[k] = ss[j][i]
    BY <2>1 DEF FlatOf
  <2> QED  BY <2>2, <2>3 DEF Has
<1>4. ASSUME NEW j \in 1 .. n, Has(ss[j], e) PROVE Has(FlattenSeq(ss), e)
  BY <1>1, <1>4, FlatHas
<1> QED  BY <1>2, <1>3, <1>4 DEF FlatOf

(* In the BXID mode a trigger is in exactly one event. *)
LEMMA BxidCounted ==
  ASSUME NEW data \in Seq(EntryType), Grouped(data), NEW roc \in Int, NEW start \in Int,
         firstTriggerNumber \in Int, NEW e, e.kind = "trigger", Has(data, e)
  PROVE  Counts(HeldAt(buildEudaqEventsBxid(data, roc, start), e), 1)
<1> DEFINE trigs    == OfKind(data, "trigger")
           before   == LastOf(data, "start")
           after    == LastOf(data, "stop")
           bxid(i)  == Bxid(trigs[i].ts, start)
           S        == {i \in DOMAIN trigs : i = 1 \/ bxid(i) # bxid(i - 1)}
           begins   == Selected([i \in DOMAIN trigs |-> i], S)
           end(k)   == IF k = Len(begins) THEN Len(trigs) ELSE begins[k + 1] - 1
           copy(i)  == (IF i = 1 \/ bxid(i) = bxid(i - 1) THEN <<trigs[i]>> ELSE <<>>)
                       \o before \o <<trigs[i]>>
           copies(k) == [j \in 1 .. end(k) - begins[k] + 1 |-> copy(begins[k] + j - 1)]
           f == [k \in DOMAIN begins |->
                  Event(roc, bxid(begins[k]), trigs[begins[k]].no - firstTriggerNumber,
                        FlattenSeq(copies(k)) \o after)]
<1>1. f = buildEudaqEventsBxid(data, roc, start)
  BY DEF buildEudaqEventsBxid
<1>2. /\ before \in Seq(EntryType) /\ after \in Seq(EntryType)
      /\ ~Has(before, e) /\ ~Has(after, e)
  BY LastHasNot, Zenon
<1>3. trigs \in Seq(EntryType) /\ Has(trigs, e) /\ Grouped(trigs)
      /\ \A i \in 1 .. Len(trigs) : trigs[i].kind = "trigger"
  BY EntriesOfKind, OfKindHas, GroupedOfKind DEF Copied
<1>4. f \in Seq(EventType)
  BY <1>1, BuiltBxid, Zenon DEF WellBuilt
<1> HIDE DEF trigs, before, after
<1>5. /\ DOMAIN trigs = 1 .. Len(trigs) /\ Len(trigs) \in Nat
      /\ \A i \in 1 .. Len(trigs) : trigs[i] \in EntryType
  BY <1>3, LenProperties, ElementOfSeq
<1>6. Lists(begins, S, Len(trigs))
  <2> HIDE DEF S
  <2> QED  BY <1>5, SelectedIndices
<1> DEFINE v == [i \in 1 .. Len(trigs) |-> bxid(i)]
<1>7. ChangesAt(v, S, Len(trigs))
  <2> SUFFICES ASSUME NEW b \in 1 .. Len(trigs), b \in S, b # 1 PROVE v[b] # v[b - 1]
    BY DEF ChangesAt
  <2>1. b - 1 \in 1 .. Len(trigs) /\ bxid(b) # bxid(b - 1)
    BY <1>5
  <2> QED  BY <2>1
<1>8. PICK i0 \in 1 .. Len(trigs) : trigs[i0] = e
  BY <1>3 DEF Has
<1>9. 1 \in S
  BY <1>5, <1>8
<1>10. \A k : end(k) = PieceEnd(begins, Len(trigs), k)
  BY DEF PieceEnd
<1> HIDE DEF begins, end, S, v
<1>11. begins \in Seq(Nat) /\ DOMAIN begins = 1 .. Len(begins) /\ Len(begins) \in Nat
  <2>1. begins \in Seq(Nat)
    BY <1>6, Zenon DEF Lists
  <2> QED  BY <2>1, LenProperties
<1>12. PICK k0 \in 1 .. Len(begins) : i0 \in begins[k0] .. end(k0)
  <2>1. \E k \in 1 .. Len(begins) : i0 \in begins[k] .. PieceEnd(begins, Len(trigs), k)
    BY <1>5, <1>6, <1>9, PieceExists
  <2> QED  BY <1>10, <2>1
<1>13. ASSUME NEW k \in 1 .. Len(begins)
       PROVE  /\ begins[k] \in 1 .. Len(trigs) /\ end(k) \in Nat /\ end(k) <= Len(trigs)
  BY <1>5, <1>6, <1>10, PieceIn
<1>14. ASSUME NEW i \in 1 .. Len(trigs)
       PROVE  copy(i) \in Seq(EntryType) /\ (Has(copy(i), e) <=> trigs[i] = e)
  <2> DEFINE first == IF i = 1 \/ bxid(i) = bxid(i - 1) THEN <<trigs[i]>> ELSE <<>>
  <2>1. <<trigs[i]>> \in Seq(EntryType) /\ (Has(<<trigs[i]>>, e) <=> trigs[i] = e)
    BY <1>5, HasOne
  <2>2. <<>> \in Seq(EntryType) /\ ~Has(<<>>, e)
    BY DEF Has
  <2>3. first \in Seq(EntryType) /\ (Has(first, e) => trigs[i] = e)
    BY <2>1, <2>2
  <2>4. copy(i) = (first \o before) \o <<trigs[i]>>
    OBVIOUS
  <2> HIDE DEF first, copy
  <2>5. PICK t \in Seq(EntryType) : t = first \o before
    <3>1. first \o before \in Seq(EntryType)
      BY <1>2, <2>3, ConcatProperties
    <3> QED  BY <3>1
  <2>6. Has(t, e) => trigs[i] = e
    <3>1. Has(first \o before, e) <=> Has(first, e) \/ Has(before, e)
      BY <1>2, <2>3, HasConcat
    <3> QED  BY <1>2, <2>3, <2>5, <3>1
  <2>7. Has(t \o <<trigs[i]>>, e) <=> Has(t, e) \/ Has(<<trigs[i]>>, e)
    BY <2>1, HasConcat
  <2>8. t \o <<trigs[i]>> \in Seq(EntryType)
    BY <2>1, ConcatProperties
  <2>9. copy(i) = t \o <<trigs[i]>>
    BY <2>4, <2>5
  <2> QED  BY <2>1, <2>6, <2>7, <2>8, <2>9
<1>15. ASSUME NEW k \in 1 .. Len(begins)
       PROVE  Has(f[k].data, e) <=> \E i \in begins[k] .. end(k) : trigs[i] = e
  <2>1. PICK b \in Nat, z \in Nat : b = begins[k] /\ z = end(k) /\ b >= 1 /\ z <= Len(trigs)
    BY <1>13, SMTT(60)
  <2> DEFINE m == z - b + 1
             ss == [j \in 1 .. m |-> copy(b + j - 1)]
  <2>2. f[k].data = FlattenSeq(ss) \o after
    <3>1. copies(k) = ss
      BY <2>1, SMTT(60)
    <3>2. f[k].data = FlattenSeq(copies(k)) \o after
      BY <1>11, ZenonT(60) DEF Event
    <3> QED  BY <3>1, <3>2, Zenon
  <2>3. \A j \in 1 .. m : b + j - 1 \in b .. z /\ b + j - 1 \in 1 .. Len(trigs)
    <3> HIDE DEF ss, copy, f
    <3> QED  BY <1>5, <2>1, PiecePlaces
  <2>4. ss = [j \in 1 .. m |-> ss[j]] /\ \A j \in 1 .. m : ss[j] = copy(b + j - 1)
    OBVIOUS
  <2> HIDE DEF ss, copy, f
  <2>5. \A j \in 1 .. m : ss[j] \in Seq(EntryType)
    BY <1>14, <2>3, <2>4
  <2>6. PICK n \in Nat : 1 .. n = 1 .. m
    <3>1. CASE m \in Nat
      BY <3>1
    <3>2. CASE m \notin Nat
      <4>1. 1 .. 0 = 1 .. m
        BY <2>1, <3>2, SMTT(60)
      <4> QED  BY <4>1
    <3> QED  BY <3>1, <3>2
  <2> HIDE DEF m
  <2>7. ss = [j \in 1 .. n |-> ss[j]] /\ \A j \in 1 .. n : ss[j] \in Seq(EntryType)
    BY <2>4, <2>5, <2>6
  <2>8. /\ FlattenSeq(ss) \in Seq(EntryType)
        /\ Has(FlattenSeq(ss), e) <=> \E j \in 1 .. n : Has(ss[j], e)
    BY <2>7, FlattenedHas
  <2>9. Has(f[k].data, e) <=> \E j \in 1 .. m : Has(ss[j], e)
    <3>1. PICK t \in Seq(EntryType) : t = FlattenSeq(ss)
      BY <2>8
    <3>2. Has(t \o after, e) <=> Has(t, e) \/ Has(after, e)
      BY <1>2, HasConcat
    <3> QED  BY <1>2, <2>2, <2>6, <2>8, <3>1, <3>2
  <2>10. \A j \in 1 .. m : Has(ss[j], e) <=> trigs[b + j - 1] = e
    BY <1>14, <2>3, <2>4
  <2>11. \A i \in b .. z : i - b + 1 \in 1 .. m /\ b + (i - b + 1) - 1 = i
    BY <1>5, <2>1, PiecePlaces, SMTT(60) DEF m
  <2>12. ASSUME NEW i \in b .. z, trigs[i] = e PROVE \E j \in 1 .. m : Has(ss[j], e)
    BY <2>10, <2>11, <2>12
  <2>13. ASSUME NEW j \in 1 .. m, Has(ss[j], e) PROVE \E i \in b .. z : trigs[i] = e
    BY <2>3, <2>10, <2>13
  <2> QED  BY <2>1, <2>9, <2>12, <2>13
<1>16. Len(f) = Len(begins)
  <2>1. DOMAIN f = 1 .. Len(begins)
    BY <1>11
  <2> HIDE DEF f
  <2>2. DOMAIN f = 1 .. Len(f) /\ Len(f) \in Nat
    BY <1>4, LenProperties
  <2> QED  BY <1>11, <2>1, <2>2
<1>17. ASSUME NEW k \in 1 .. Len(begins), NEW l \in 1 .. Len(begins), k < l,
              NEW i \in begins[k] .. end(k), NEW j \in begins[l] .. end(l),
              trigs[i] = e, trigs[j] = e
       PROVE  FALSE
  <2>1. i \in 1 .. Len(trigs) /\ j \in 1 .. Len(trigs)
    BY <1>5, <1>6, <1>10, <1>17, PieceIn
  <2>2. \A m \in i .. j : trigs[m] = e
    BY <1>3, <1>17, <2>1 DEF Grouped
  <2>3. Keeps(v, i, j)
    <3> SUFFICES ASSUME NEW m \in i .. j PROVE v[m] = v[i]
      BY DEF Keeps
    <3>1. m \in 1 .. Len(trigs) /\ trigs[m] = trigs[i]
      BY <1>5, <1>17, <2>1, <2>2
    <3> QED  BY <2>1, <3>1 DEF v
  <2>4. i \in begins[k] .. PieceEnd(begins, Len(trigs), k)
        /\ j \in begins[l] .. PieceEnd(begins, Len(trigs), l)
    BY <1>10
  <2>5. Len(trigs) \in Nat
    BY <1>5
  <2> QED  BY <1>6, <1>7, <1>17, <2>3, <2>4, <2>5, OnePiece
<1> HIDE DEF f
<1>18. HeldAt(f, e) = {k0}
  <2>1. k0 \in HeldAt(f, e)
    BY <1>8, <1>12, <1>15, <1>16 DEF HeldAt
  <2>2. ASSUME NEW k \in HeldAt(f, e) PROVE k = k0
    <3>1. k \in 1 .. Len(begins)
      BY <1>16 DEF HeldAt
    <3>2. PICK i \in begins[k] .. end(k) : trigs[i] = e
      BY <1>15, <3>1 DEF HeldAt
    <3>3. ~(k < k0) /\ ~(k0 < k)
      BY <1>8, <1>12, <1>17, <3>1, <3>2
    <3> QED  BY <1>11, <3>1, <3>3
  <2> QED  BY <2>1, <2>2
<1>19. Counts({k0}, 1)
  BY FS_Singleton DEF Counts
<1> QED  BY <1>1, <1>18, <1>19
-----------------------------------------------------------------------------
(* In how many events an entry is that came n times, in mode m. *)
Want(n, m) == IF m = "TRIGGERS" THEN n ELSE 1

LEMMA BuildCounts ==
  ASSUME Buildable, NEW data \in Seq(EntryType), Grouped(data), NEW roc \in Int, NEW start \in Int,
         NEW e, e.kind = "trigger", Has(data, e), NEW n, Counts(Copies(data, e), n)
  PROVE  Counts(HeldAt(buildEudaqEvents(data, roc, start), e), Want(n, mode))
<1> USE DEF Buildable
<1>1. CASE mode = "ROC"
  <2> DEFINE evs == buildEudaqEventsROC(data, roc)
  <2>1. evs = buildEudaqEvents(data, roc, start)
    BY <1>1 DEF buildEudaqEvents
  <2>2. Len(evs) = 1 /\ evs[1].data = data
    BY <1>1, BuiltRoc
  <2> HIDE DEF evs
  <2>3. HeldAt(evs, e) = {1}
    BY <2>2 DEF HeldAt
  <2>4. Counts({1}, 1)
    BY FS_Singleton DEF Counts
  <2> QED  BY <1>1, <2>1, <2>3, <2>4 DEF Want
<1>2. CASE mode = "TRIGGERS"
  BY <1>2, TriggersCounted DEF buildEudaqEvents, Want
<1>3. CASE mode = "BXID"
  BY <1>3, BxidCounted DEF buildEudaqEvents, Want
<1> QED  BY <1>1, <1>2, <1>3

(* An accepted trigger waits in data with all its copies, or was built. *)
Placed(a, data, evs, m) ==
  IF Has(data, a.e) THEN Counts(Copies(data, a.e), a.n) /\ HeldAt(evs, a.e) = {}
  ELSE Counts(HeldAt(evs, a.e), Want(a.n, m))

LEMMA BuiltAway ==
  ASSUME Buildable, NEW data \in Seq(EntryType), Grouped(data), NEW evs \in Seq(EventType),
         NEW a, a.e.kind = "trigger", Placed(a, data, evs, mode), NEW roc \in Int, NEW start \in Int
  PROVE  Placed(a, <<>>, evs \o buildEudaqEvents(data, roc, start), mode)
<1> DEFINE b == buildEudaqEvents(data, roc, start)
<1>1. WellBuilt(b, data, roc, start)
  BY Built
<1>2. b \in Seq(EventType)
  BY <1>1 DEF WellBuilt
<1>3. ~Has(<<>>, a.e)
  BY DEF Has
<1>4. Counts(HeldAt(evs \o b, a.e), Want(a.n, mode))
  <2>1. CASE Has(data, a.e)
    <3>1. Counts(Copies(data, a.e), a.n) /\ HeldAt(evs, a.e) = {}
      BY <2>1 DEF Placed
    <3>2. Counts(HeldAt(b, a.e), Want(a.n, mode))
      BY <2>1, <3>1, BuildCounts
    <3> HIDE DEF b
    <3> QED  BY <1>2, <3>1, <3>2, HeldShift
  <2>2. CASE ~Has(data, a.e)
    <3>1. Counts(HeldAt(evs, a.e), Want(a.n, mode))
      BY <2>2 DEF Placed
    <3>2. HeldAt(b, a.e) = {}
      BY <1>1, <2>2, NotBuilt
    <3> HIDE DEF b
    <3>3. HeldAt(evs \o b, a.e) = HeldAt(evs, a.e)
      BY <1>2, <3>2, HeldSame
    <3> QED  BY <3>1, <3>3
  <2> QED  BY <2>1, <2>2
<1> HIDE DEF b
<1>5. Placed(a, <<>>, evs \o b, mode)
  BY <1>3, <1>4 DEF Placed
<1> QED  BY <1>5 DEF b

LEMMA PaddedAway ==
  ASSUME Buildable, NEW rest \in Seq(EntryType), Grouped(rest), NEW evs \in Seq(EventType),
         NEW a, a.e.kind = "trigger", Placed(a, rest, evs, mode),
         NEW old \in Int, NEW lost \in Nat, NEW ts \in Int
  PROVE  Placed(a, IF lost > 0 THEN <<>> ELSE rest, evs \o Padding(rest, old, lost, ts), mode)
<1> DEFINE p == Padding(rest, old, lost, ts)
           b == buildEudaqEvents(rest, old + 1, ts)
<1>1. p \in Seq(EventType)
  BY PaddingBuilt DEF Padded
<1>2. CASE lost = 0
  <2>1. p = <<>>
    <3>1. /\ ~Has(rest, a.e) => HeldAt(p, a.e) = {}
          /\ lost > 0 => HeldAt(p, a.e) = HeldAt(b, a.e)
          /\ lost = 0 => p = <<>>
      BY PaddingHolds, Zenon
    <3> QED  BY <1>2, <3>1
  <2> HIDE DEF p
  <2>2. evs \o p = evs
    BY <2>1
  <2>3. Placed(a, IF lost > 0 THEN <<>> ELSE rest, evs \o p, mode)
    BY <1>2, <2>2
  <2> QED  BY <2>3 DEF p
<1>3. CASE lost > 0
  <2>1. HeldAt(p, a.e) = HeldAt(b, a.e)
    BY <1>3, PaddingHolds
  <2>2. old + 1 \in Int
    OBVIOUS
  <2>3. ~Has(rest, a.e) => HeldAt(p, a.e) = {}
    BY PaddingHolds
  <2>4. Has(rest, a.e) => Counts(HeldAt(b, a.e), Want(a.n, mode))
    BY <2>2, BuildCounts DEF Placed
  <2> HIDE DEF p, b
  <2>5. ~Has(<<>>, a.e)
    BY DEF Has
  <2>6. CASE Has(rest, a.e)
    <3>1. HeldAt(evs, a.e) = {}
      BY <2>6 DEF Placed
    <3>2. Counts(HeldAt(evs \o p, a.e), Want(a.n, mode))
      BY <1>1, <2>1, <2>4, <2>6, <3>1, HeldShift
    <3>3. Placed(a, <<>>, evs \o p, mode)
      BY <2>5, <3>2 DEF Placed
    <3> QED  BY <1>3, <3>3 DEF p
  <2>7. CASE ~Has(rest, a.e)
    <3>1. HeldAt(evs \o p, a.e) = HeldAt(evs, a.e)
      BY <1>1, <2>3, <2>7, HeldSame
    <3>2. Placed(a, <<>>, evs \o p, mode)
      BY <2>5, <2>7, <3>1 DEF Placed
    <3> QED  BY <1>3, <3>2 DEF p
  <2> QED  BY <2>6, <2>7
<1> QED  BY <1>2, <1>3

(* Other entries that come after it do not matter. *)
LEMMA PlacedExtended ==
  ASSUME NEW s \in Seq(EntryType), NEW t \in Seq(EntryType), NEW evs, NEW a,
         Placed(a, s, evs, mode), ~Has(t, a.e)
  PROVE  Placed(a, s \o t, evs, mode)
<1> DEFINE u == s \o t
<1>1. /\ Len(s) \in Nat /\ Len(t) \in Nat /\ Len(u) = Len(s) + Len(t)
      /\ \A i \in 1 .. Len(s) : u[i] = s[i]
      /\ \A i \in 1 .. Len(t) : u[Len(s) + i] = t[i]
      /\ \A i \in 1 .. Len(u) : \/ i \in 1 .. Len(s)
                                \/ \E k \in 1 .. Len(t) : i = Len(s) + k
  BY Concatenated
<1>2. Has(u, a.e) <=> Has(s, a.e)
  BY HasConcat
<1> HIDE DEF u
<1>3. \A i \in 1 .. Len(s) : i \in 1 .. Len(u)
  BY <1>1
<1>4. Copies(u, a.e) = Copies(s, a.e)
  <2>1. ASSUME NEW i \in Copies(u, a.e) PROVE i \in Copies(s, a.e)
    <3>1. i \in 1 .. Len(u) /\ u[i] = a.e
      BY <2>1 DEF Copies
    <3>2. ASSUME NEW k \in 1 .. Len(t), i = Len(s) + k PROVE FALSE
      BY <1>1, <3>1, <3>2 DEF Has
    <3> QED  BY <1>1, <3>1, <3>2 DEF Copies
  <2>2. ASSUME NEW i \in Copies(s, a.e) PROVE i \in Copies(u, a.e)
    BY <1>1, <1>3, <2>2 DEF Copies
  <2> QED  BY <2>1, <2>2
<1>5. Placed(a, u, evs, mode)
  BY <1>2, <1>4 DEF Placed
<1> QED  BY <1>5 DEF u

LEMMA GroupedExtended ==
  ASSUME NEW s \in Seq(EntryType), NEW t \in Seq(EntryType), Grouped(s), Grouped(t),
         \A k \in 1 .. Len(t) : t[k].kind = "trigger" => ~Has(s, t[k])
  PROVE  Grouped(s \o t)
<1> DEFINE u == s \o t
<1>1. /\ Len(s) \in Nat /\ Len(t) \in Nat /\ Len(u) = Len(s) + Len(t)
      /\ \A i \in 1 .. Len(s) : u[i] = s[i]
      /\ \A i \in 1 .. Len(t) : u[Len(s) + i] = t[i]
      /\ \A i \in 1 .. Len(u) : \/ i \in 1 .. Len(s)
                                \/ \E k \in 1 .. Len(t) : i = Len(s) + k
  BY Concatenated
<1> HIDE DEF u
<1>2. ASSUME NEW i \in 1 .. Len(u), NEW k \in 1 .. Len(u), u[i] = u[k], u[i].kind = "trigger",
             NEW j \in i .. k
      PROVE  u[j] = u[i]
  <2>1. CASE k \in 1 .. Len(s)
    <3>1. i \in 1 .. Len(s) /\ j \in 1 .. Len(s)
      BY <1>1, <2>1
    <3>2. s[i] = s[k] /\ s[i].kind = "trigger"
      BY <1>1, <1>2, <2>1, <3>1
    <3>3. s[j] = s[i]
      BY <2>1, <3>1, <3>2, Zenon DEF Grouped
    <3> QED  BY <1>1, <3>1, <3>3
  <2>2. ASSUME NEW k2 \in 1 .. Len(t), k = Len(s) + k2
        PROVE  u[j] = u[i]
    <3>1. CASE i \in 1 .. Len(s)
      <4>1. u[k] = t[k2] /\ s[i] = t[k2] /\ t[k2].kind = "trigger"
        BY <1>1, <1>2, <2>2, <3>1
      <4> QED  BY <3>1, <4>1 DEF Has
    <3>2. ASSUME NEW i2 \in 1 .. Len(t), i = Len(s) + i2
          PROVE  u[j] = u[i]
      <4>1. PICK j2 \in i2 .. k2 : j = Len(s) + j2
        <5>1. j - Len(s) \in i2 .. k2 /\ j = Len(s) + (j - Len(s))
          BY <1>1, <2>2, <3>2
        <5> QED  BY <5>1
      <4>2. j2 \in 1 .. Len(t)
        BY <1>1
      <4>3. u[i] = t[i2] /\ u[k] = t[k2] /\ u[j] = t[j2]
        BY <1>1, <2>2, <3>2, <4>1, <4>2
      <4>4. t[i2] = t[k2] /\ t[i2].kind = "trigger"
        BY <1>2, <4>3
      <4>5. t[j2] = t[i2]
        BY <4>4, Zenon DEF Grouped
      <4> QED  BY <4>3, <4>5
    <3> QED  BY <1>1, <3>1, <3>2
  <2> QED  BY <1>1, <2>1, <2>2
<1>3. Grouped(u)
  BY <1>2 DEF Grouped
<1> QED  BY <1>3 DEF u
-----------------------------------------------------------------------------
(* What arrived before t. *)
Past(s, t) == \A k \in 1 .. Len(s) : s[k].of.at < t

PastEvents(evs, t) == \A i \in 1 .. Len(evs) : Past(evs[i].data, t)

LEMMA PastLater ==
  ASSUME NEW s \in Seq(EntryType), NEW t \in Nat, Past(s, t)
  PROVE  Past(s, t + 1)
<1> SUFFICES ASSUME NEW k \in 1 .. Len(s) PROVE s[k].of.at < t + 1
  BY DEF Past
<1>1. s[k] \in EntryType
  BY ElementOfSeq
<1>2. s[k].of.at \in Nat /\ s[k].of.at < t
  BY <1>1 DEF Past, EntryType, PlaceType
<1> QED  BY <1>2

LEMMA ElementOfConcat ==
  ASSUME NEW T, NEW s \in Seq(T), NEW t \in Seq(T), NEW k \in 1 .. Len(s \o t)
  PROVE  (\E i \in 1 .. Len(s) : (s \o t)[k] = s[i]) \/ (\E i \in 1 .. Len(t) : (s \o t)[k] = t[i])
<1>1. Has(s \o t, (s \o t)[k]) <=> Has(s, (s \o t)[k]) \/ Has(t, (s \o t)[k])
  BY HasConcat
<1> DEFINE u == s \o t
           x == u[k]
<1>2. Has(u, x) <=> Has(s, x) \/ Has(t, x)
  BY <1>1
<1>3. k \in 1 .. Len(u) /\ u[k] = x
  OBVIOUS
<1> HIDE DEF u, x
<1>4. (\E i \in 1 .. Len(s) : x = s[i]) \/ (\E i \in 1 .. Len(t) : x = t[i])
  BY <1>2, <1>3 DEF Has
<1> QED  BY <1>4 DEF x, u

LEMMA PastConcat ==
  ASSUME NEW s \in Seq(EntryType), NEW r \in Seq(EntryType), NEW t, Past(s, t), Past(r, t)
  PROVE  Past(s \o r, t)
<1> SUFFICES ASSUME NEW k \in 1 .. Len(s \o r) PROVE (s \o r)[k].of.at < t
  BY DEF Past
<1> DEFINE x == (s \o r)[k]
<1>1. (\E i \in 1 .. Len(s) : x = s[i]) \/ (\E i \in 1 .. Len(r) : x = r[i])
  BY ElementOfConcat
<1> HIDE DEF x
<1>2. x.of.at < t
  BY <1>1 DEF Past
<1> QED  BY <1>2 DEF x

LEMMA PastCopied ==
  ASSUME NEW evs, NEW data, NEW t, Past(data, t), \A i \in 1 .. Len(evs) : Copied(evs[i].data, data)
  PROVE  PastEvents(evs, t)
BY DEF PastEvents, Past, Copied

LEMMA PastEventsConcat ==
  ASSUME NEW evs \in Seq(EventType), NEW b \in Seq(EventType), NEW t, PastEvents(evs, t), PastEvents(b, t)
  PROVE  PastEvents(evs \o b, t)
<1> SUFFICES ASSUME NEW k \in 1 .. Len(evs \o b) PROVE Past((evs \o b)[k].data, t)
  BY DEF PastEvents
<1> DEFINE x == (evs \o b)[k]
<1>1. (\E i \in 1 .. Len(evs) : x = evs[i]) \/ (\E i \in 1 .. Len(b) : x = b[i])
  BY ElementOfConcat
<1> HIDE DEF x
<1>2. Past(x.data, t)
  BY <1>1 DEF PastEvents
<1> QED  BY <1>2 DEF x

LEMMA PastEventsLater ==
  ASSUME NEW evs \in Seq(EventType), NEW t \in Nat, PastEvents(evs, t)
  PROVE  PastEvents(evs, t + 1)
<1> SUFFICES ASSUME NEW i \in 1 .. Len(evs) PROVE Past(evs[i].data, t + 1)
  BY DEF PastEvents
<1>1. evs[i] \in EventType
  BY ElementOfSeq
<1>2. evs[i].data \in Seq(EntryType) /\ Past(evs[i].data, t)
  BY <1>1 DEF EventType, PastEvents
<1> QED  BY <1>2, PastLater
-----------------------------------------------------------------------------
(* The invariant of the accepted triggers. *)
KnownTrigger(a) == a.e.of.at < clock /\ a.e.kind = "trigger"

OnceInv ==
  /\ Past(cycleData, clock) /\ PastEvents(deqEvent, clock)
  /\ Grouped(cycleData)
  /\ \A a \in accepted : KnownTrigger(a) /\ Placed(a, cycleData, deqEvent, mode)

LEMMA OnceInit == Init => OnceInv
<1> SUFFICES ASSUME Init PROVE OnceInv
  OBVIOUS
<1>1. deqEvent = <<>> /\ cycleData = <<>> /\ accepted = {}
  BY DEF Init
<1> QED  BY <1>1 DEF OnceInv, Past, PastEvents, Grouped

(* A packet takes a new time, so that nothing has it yet. *)
LEMMA StillKnown ==
  ASSUME TypeOK, NEW a \in accepted, KnownTrigger(a), clock' = clock + 1
  PROVE  a.e.of.at < clock' /\ a.e.kind = "trigger"
<1>1. a.e \in EntryType /\ clock \in Nat
  BY DEF TypeOK
<1>2. a.e.of.at \in Nat
  BY <1>1 DEF EntryType, PlaceType
<1> QED  BY <1>1, <1>2 DEF KnownTrigger

(* A shutter entry was added to data. *)
WithShutter(data, d) ==
  /\ d \in Seq(EntryType)
  /\ Past(d, clock + 1) /\ Grouped(d)
  /\ \A a, evs : a.e.kind = "trigger" /\ Placed(a, data, evs, mode) => Placed(a, d, evs, mode)

LEMMA OnceShutter ==
  ASSUME TypeOK, NEW data \in Seq(EntryType), Past(data, clock), Grouped(data),
         NEW kind \in {"start", "stop"}, NEW no \in Int, NEW ts \in Nat, NEW of \in PlaceType,
         of.at = clock
  PROVE  WithShutter(data, Append(data, Entry(kind, no, ts, of)))
<1>0. PICK d : d = Append(data, Entry(kind, no, ts, of))
  OBVIOUS
<1>1. clock \in Nat
  BY DEF TypeOK
<1>2. PICK x \in EntryType : x = Entry(kind, no, ts, of) /\ x.kind = kind /\ x.of = of
  <2>1. kind \in {"start", "stop", "trigger"}
    OBVIOUS
  <2> QED  BY <2>1, EntryTyped
<1>3. PICK t \in Seq(EntryType) : t = <<x>> /\ Len(t) = 1 /\ t[1] = x
  <2>1. <<x>> \in Seq(EntryType) /\ Len(<<x>>) = 1 /\ <<x>>[1] = x
    OBVIOUS
  <2> QED  BY <2>1
<1>4. d = data \o t
  <2>1. Append(data, x) = data \o <<x>>
    BY AppendIsConcat
  <2> QED  BY <1>0, <1>2, <1>3, <2>1
<1>5. data \o t \in Seq(EntryType)
  BY ConcatProperties
<1>6. Past(data, clock + 1)
  BY <1>1, PastLater
<1>7. Past(t, clock + 1)
  <2>1. x.of.at < clock + 1
    BY <1>1, <1>2
  <2> QED  BY <1>3, <2>1 DEF Past
<1>8. Past(d, clock + 1)
  BY <1>4, <1>6, <1>7, PastConcat
<1>9. Grouped(t)
  BY <1>3 DEF Grouped
<1>10. \A k \in 1 .. Len(t) : t[k].kind # "trigger"
  BY <1>2, <1>3
<1>11. Grouped(d)
  BY <1>4, <1>9, <1>10, GroupedExtended
<1>12. ASSUME NEW a, NEW evs, a.e.kind = "trigger", Placed(a, data, evs, mode)
       PROVE  Placed(a, d, evs, mode)
  <2>1. ~Has(t, a.e)
    BY <1>10, <1>12 DEF Has
  <2> QED  BY <1>4, <1>12, <2>1, PlacedExtended
<1> QED  BY <1>0, <1>4, <1>5, <1>8, <1>11, <1>12 DEF WithShutter

LEMMA OnceStart ==
  ASSUME TypeOK, OnceInv, NEW w, w.no \in 0 .. CycleMod - 1, w.ts \in Nat, w.of \in PlaceType,
         w.of.at = clock, ShutterOn(w), clock' = clock + 1, mode' = mode
  PROVE  OnceInv'
<1>1. /\ ReadoutCycle \in Int /\ firstShutterCycle \in -1 .. CycleMod - 1 /\ acq_start_ts \in Int
      /\ cycleData \in Seq(EntryType) /\ deqEvent \in Seq(EventType) /\ clock \in Nat
      /\ Buildable
  BY BuildableTyped DEF TypeOK
<1> DEFINE old  == IF Repeated(w.no) THEN ReadoutCycle - 1 ELSE ReadoutCycle
           lost == IF old = -1 THEN 0 ELSE Missing(w.no, old + 1)
           built == IF BuildsUnstopped(w.no)
                    THEN buildEudaqEvents(cycleData, ReadoutCycle, acq_start_ts)
                    ELSE <<>>
           rest  == IF BuildsUnstopped(w.no) THEN <<>> ELSE cycleData
           left  == IF lost > 0 THEN <<>> ELSE rest
<1>2. old \in Int
  BY <1>1
<1>3. lost \in Nat
  <2> HIDE DEF old
  <2>1. PICK a \in Int : a = w.no - firstShutterCycle - (old + 1)
    BY <1>1, <1>2
  <2>2. CycleMod \in Nat \ {0}
    BY BifAssumption
  <2>3. a % CycleMod \in 0 .. CycleMod - 1
    BY <2>2, DivMod
  <2> QED  BY <2>1, <2>2, <2>3 DEF Missing
<1>4. /\ deqEvent' = deqEvent \o built \o Padding(rest, old, lost, w.ts)
      /\ cycleData' = Append(left, Entry("start", old + 1 + lost, w.ts, w.of))
      /\ accepted' = accepted
  BY DEF ShutterOn
<1> HIDE DEF old, lost
<1>5. <<>> \in Seq(EntryType) /\ <<>> \in Seq(EventType) /\ Grouped(<<>>) /\ Past(<<>>, clock)
      /\ PastEvents(<<>>, clock)
  BY DEF Grouped, Past, PastEvents
<1>6. /\ rest \in Seq(EntryType) /\ Grouped(rest) /\ Past(rest, clock)
  BY <1>1, <1>5 DEF OnceInv
<1>7. built \in Seq(EventType) /\ PastEvents(built, clock)
  <2>1. CASE BuildsUnstopped(w.no)
    <3>1. WellBuilt(built, cycleData, ReadoutCycle, acq_start_ts)
      BY <1>1, <2>1, Built
    <3> HIDE DEF built
    <3>2. built \in Seq(EventType) /\ \A i \in 1 .. Len(built) : Copied(built[i].data, cycleData)
      BY <3>1 DEF WellBuilt
    <3> QED  BY <3>2, PastCopied DEF OnceInv
  <2>2. CASE ~BuildsUnstopped(w.no)
    BY <1>5, <2>2
  <2> QED  BY <2>1, <2>2
<1>8. PICK evs \in Seq(EventType) : evs = deqEvent \o built
  <2> HIDE DEF built
  <2>1. deqEvent \o built \in Seq(EventType)
    BY <1>1, <1>7, ConcatProperties
  <2> QED  BY <2>1
<1>9. ASSUME NEW a \in accepted PROVE Placed(a, rest, evs, mode)
  <2>1. a.e.kind = "trigger" /\ Placed(a, cycleData, deqEvent, mode)
    BY <1>9 DEF OnceInv, KnownTrigger
  <2>2. CASE BuildsUnstopped(w.no)
    <3>1. Placed(a, <<>>, deqEvent \o buildEudaqEvents(cycleData, ReadoutCycle, acq_start_ts), mode)
      BY <1>1, <2>1, BuiltAway DEF OnceInv
    <3> QED  BY <1>8, <2>2, <3>1
  <2>3. CASE ~BuildsUnstopped(w.no)
    <3>1. evs = deqEvent
      BY <1>1, <1>8, <2>3
    <3> QED  BY <2>1, <2>3, <3>1
  <2> QED  BY <2>2, <2>3
<1>10. left \in Seq(EntryType) /\ Grouped(left) /\ Past(left, clock)
  BY <1>5, <1>6
<1> DEFINE p == Padding(rest, old, lost, w.ts)
<1>11. p \in Seq(EventType) /\ PastEvents(p, clock)
  <2> HIDE DEF rest
  <2>1. w.ts \in Int
    OBVIOUS
  <2>2. Padded(p, rest, old, lost)
    BY <1>1, <1>2, <1>3, <1>6, <2>1, PaddingBuilt
  <2> HIDE DEF p
  <2>3. p \in Seq(EventType) /\ \A i \in 1 .. Len(p) : Copied(p[i].data, rest)
    BY <2>2 DEF Padded
  <2> QED  BY <1>6, <2>3, PastCopied
<1>12. PICK all \in Seq(EventType) : all = evs \o p
  <2> HIDE DEF p
  <2>1. evs \o p \in Seq(EventType)
    BY <1>8, <1>11, ConcatProperties
  <2> QED  BY <2>1
<1>13. ASSUME NEW a \in accepted PROVE Placed(a, left, all, mode)
  <2>1. a.e.kind = "trigger" /\ w.ts \in Int
    BY <1>13 DEF OnceInv, KnownTrigger
  <2>2. Placed(a, rest, evs, mode)
    BY <1>9, <1>13
  <2> HIDE DEF rest
  <2>3. Placed(a, left, evs \o Padding(rest, old, lost, w.ts), mode)
    BY <1>1, <1>2, <1>3, <1>6, <1>8, <2>1, <2>2, PaddedAway
  <2> QED  BY <1>12, <2>3
<1>14. deqEvent' = all
  BY <1>4, <1>8, <1>12
<1>15. PastEvents(all, clock + 1)
  <2> HIDE DEF built, p
  <2>1. PastEvents(evs, clock)
    BY <1>1, <1>7, <1>8, PastEventsConcat DEF OnceInv
  <2>2. PastEvents(all, clock)
    BY <1>8, <1>11, <1>12, <2>1, PastEventsConcat
  <2> QED  BY <1>1, <1>12, <2>2, PastEventsLater
<1> HIDE DEF left
<1>16. PICK no \in Int : no = old + 1 + lost
  BY <1>2, <1>3
<1>17. PICK d : d = Append(left, Entry("start", no, w.ts, w.of))
  OBVIOUS
<1>18. /\ Past(d, clock + 1) /\ Grouped(d)
       /\ \A a, q : a.e.kind = "trigger" /\ Placed(a, left, q, mode) => Placed(a, d, q, mode)
  <2>1. "start" \in {"start", "stop"}
    OBVIOUS
  <2>2. WithShutter(left, d)
    BY <1>10, <1>16, <1>17, <2>1, OnceShutter
  <2> QED  BY <2>2 DEF WithShutter
<1>19. cycleData' = d
  BY <1>4, <1>16, <1>17
<1>20. ASSUME NEW a \in accepted
       PROVE  a.e.of.at < clock' /\ a.e.kind = "trigger" /\ Placed(a, d, all, mode)
  <2>1. KnownTrigger(a)
    BY <1>20 DEF OnceInv
  <2>2. a.e.of.at < clock' /\ a.e.kind = "trigger"
    BY <1>20, <2>1, StillKnown
  <2> QED  BY <1>13, <1>18, <1>20, <2>2
<1> QED  BY <1>4, <1>14, <1>15, <1>18, <1>19, <1>20 DEF OnceInv, KnownTrigger

LEMMA OnceStop ==
  ASSUME TypeOK, OnceInv, NEW w, w.ts \in Nat, w.of \in PlaceType,
         w.of.at = clock, ShutterOff(w), clock' = clock + 1, mode' = mode
  PROVE  OnceInv'
<1>1. /\ ReadoutCycle \in Int /\ acq_start_ts \in Int
      /\ cycleData \in Seq(EntryType) /\ deqEvent \in Seq(EventType) /\ clock \in Nat
      /\ Buildable
  BY BuildableTyped DEF TypeOK
<1>2. PICK d : d = Append(cycleData, Entry("stop", ReadoutCycle, w.ts, w.of))
  OBVIOUS
<1>3. /\ d \in Seq(EntryType) /\ Past(d, clock + 1) /\ Grouped(d)
      /\ \A a, q : a.e.kind = "trigger" /\ Placed(a, cycleData, q, mode) => Placed(a, d, q, mode)
  <2>1. "stop" \in {"start", "stop"}
    OBVIOUS
  <2>2. WithShutter(cycleData, d)
    BY <1>1, <1>2, <2>1, OnceShutter DEF OnceInv
  <2> QED  BY <2>2 DEF WithShutter
<1> DEFINE b == buildEudaqEvents(d, ReadoutCycle, acq_start_ts)
<1>4. cycleData' = <<>> /\ deqEvent' = deqEvent \o b /\ accepted' = accepted
  BY <1>2 DEF ShutterOff, trigger
<1>5. b \in Seq(EventType) /\ PastEvents(b, clock + 1)
  <2>1. WellBuilt(b, d, ReadoutCycle, acq_start_ts)
    BY <1>1, <1>3, Built
  <2> HIDE DEF b
  <2>2. b \in Seq(EventType) /\ \A i \in 1 .. Len(b) : Copied(b[i].data, d)
    BY <2>1 DEF WellBuilt
  <2> QED  BY <1>3, <2>2, PastCopied
<1>6. ASSUME NEW a \in accepted
      PROVE  a.e.of.at < clock' /\ a.e.kind = "trigger" /\ Placed(a, <<>>, deqEvent \o b, mode)
  <2>1. KnownTrigger(a) /\ Placed(a, cycleData, deqEvent, mode)
    BY <1>6 DEF OnceInv
  <2>2. a.e.of.at < clock' /\ a.e.kind = "trigger"
    BY <1>6, <2>1, StillKnown
  <2>3. Placed(a, d, deqEvent, mode)
    BY <1>3, <2>1, <2>2
  <2> QED  BY <1>1, <1>3, <2>2, <2>3, BuiltAway
<1> HIDE DEF b
<1>7. PastEvents(deqEvent \o b, clock + 1)
  BY <1>1, <1>5, PastEventsConcat, PastEventsLater DEF OnceInv
<1>8. Past(<<>>, clock + 1) /\ Grouped(<<>>)
  BY DEF Past, Grouped
<1> QED  BY <1>4, <1>6, <1>7, <1>8 DEF OnceInv, KnownTrigger

(* All the entries of a trigger packet are the same. *)
LEMMA TriggerCopies ==
  ASSUME TypeOK, NEW w, w.no \in Nat, w.fired \in Nat, w.ts \in Nat, w.of \in PlaceType
  PROVE  \E x \in EntryType : \A i \in 1 .. Len(TriggerEntries(w)) : TriggerEntries(w)[i] = x
<1>1. CASE source = "internal"
  <2>1. w.ts % TsMod \in Nat
    BY BifAssumption
  <2>2. PICK e \in EntryType : e = Entry("trigger", w.no, w.ts % TsMod, w.of)
    BY <2>1, EntryTyped
  <2>3. TriggerEntries(w) = <<e>>
    BY <1>1, <2>2 DEF TriggerEntries
  <2> QED  BY <2>3
<1>2. CASE source # "internal"
  <2>1. PICK e \in EntryType : e = Entry("trigger", w.no, w.ts, w.of)
    BY EntryTyped
  <2> DEFINE s == [i \in 1 .. w.fired |-> e]
  <2>2. TriggerEntries(w) \in {<<>>, s}
    BY <1>2, <2>1 DEF TriggerEntries
  <2>3. \A i \in 1 .. Len(s) : s[i] = e
    <3>1. s \in [1 .. w.fired -> EntryType]
      OBVIOUS
    <3>2. s \in Seq(EntryType) /\ DOMAIN s = 1 .. w.fired
      BY <3>1, SeqDef
    <3>3. Len(s) = w.fired
      BY <3>2, LenProperties
    <3> QED  BY <3>3
  <2> HIDE DEF s
  <2>4. \A i \in 1 .. Len(<<>>) : FALSE
    OBVIOUS
  <2> QED  BY <2>2, <2>3, <2>4
<1> QED  BY <1>1, <1>2

LEMMA OnceTrigger == ASSUME TypeOK, OnceInv, HwTrigger PROVE OnceInv'
<1>1. PICK k \in Fired, n \in {hwTrig, hwTrig + 1} :
        TriggerPacket([no |-> n, fired |-> k, ts |-> clock, of |-> Place])
  BY DEF HwTrigger
<1>2. PICK w : w = [no |-> n, fired |-> k, ts |-> clock, of |-> Place]
  OBVIOUS
<1>3. n \in Nat /\ k \in Nat /\ clock \in Nat
  BY <1>1, BifAssumption DEF TypeOK
<1>4. Place \in PlaceType /\ Place.at = clock
  <2>1. (hwOn /\ onDelivered) \in BOOLEAN
    BY Zenon
  <2> QED  BY <1>3, <2>1 DEF Place, PlaceType, TypeOK
<1>5. w.no \in Nat /\ w.fired \in Nat /\ w.ts \in Nat /\ w.of \in PlaceType /\ w.of = Place
  BY <1>2, <1>3, <1>4
<1> DEFINE t == TriggerEntries(w)
<1>6. /\ t \in Seq(EntryType)
      /\ \A i \in 1 .. Len(t) : t[i].kind = "trigger" /\ t[i].of.at = clock
  <2>1. t \in Seq(EntryType) /\ \A i \in 1 .. Len(t) : t[i].kind = "trigger" /\ t[i].of = w.of
    BY <1>5, TriggerTyped
  <2> HIDE DEF t
  <2> QED  BY <1>4, <1>5, <2>1
<1>7. PICK x \in EntryType : \A i \in 1 .. Len(t) : t[i] = x
  BY <1>5, TriggerCopies
<1>8. /\ cycleData' = cycleData \o t /\ deqEvent' = deqEvent /\ mode' = mode /\ clock' = clock + 1
      /\ accepted' = IF t = <<>> THEN accepted ELSE accepted \cup {[e |-> t[1], n |-> Len(t)]}
  BY <1>1, <1>2 DEF HwTrigger, TriggerPacket, Tick, config
<1> HIDE DEF t
<1>9. cycleData \in Seq(EntryType) /\ deqEvent \in Seq(EventType)
  BY DEF TypeOK
<1>10. Past(cycleData', clock') /\ PastEvents(deqEvent', clock')
  <2>1. Past(t, clock + 1)
    BY <1>3, <1>6 DEF Past
  <2>2. Past(cycleData, clock + 1)
    BY <1>3, <1>9, PastLater DEF OnceInv
  <2>3. Past(cycleData \o t, clock + 1)
    BY <1>6, <1>9, <2>1, <2>2, PastConcat
  <2>4. PastEvents(deqEvent, clock + 1)
    BY <1>3, <1>9, PastEventsLater DEF OnceInv
  <2> QED  BY <1>8, <2>3, <2>4
<1>11. \A i \in 1 .. Len(t) : ~Has(cycleData, t[i]) /\ HeldAt(deqEvent, t[i]) = {}
  <2> SUFFICES ASSUME NEW i \in 1 .. Len(t)
               PROVE  ~Has(cycleData, t[i]) /\ HeldAt(deqEvent, t[i]) = {}
    OBVIOUS
  <2>1. PICK y : y = t[i] /\ y.of.at = clock
    BY <1>6
  <2>2. ~(y.of.at < clock)
    BY <1>3, <2>1
  <2>3. ~Has(cycleData, y)
    BY <2>2 DEF OnceInv, Past, Has
  <2>4. HeldAt(deqEvent, y) = {}
    BY <2>2 DEF OnceInv, PastEvents, Past, HeldAt, Has
  <2> QED  BY <2>1, <2>3, <2>4
<1>12. Grouped(cycleData')
  <2>1. Grouped(t)
    <3>0. Len(t) \in Nat
      BY <1>6, LenProperties
    <3> SUFFICES ASSUME NEW i \in 1 .. Len(t), NEW l \in 1 .. Len(t), NEW j \in i .. l
                 PROVE  t[j] = t[i]
      BY DEF Grouped
    <3>1. j \in 1 .. Len(t)
      BY <3>0
    <3> QED  BY <1>7, <3>1
  <2>2. Grouped(cycleData)
    BY DEF OnceInv
  <2> QED  BY <1>6, <1>8, <1>9, <1>11, <2>1, <2>2, GroupedExtended
<1>13. ASSUME NEW a \in accepted
       PROVE  a.e.of.at < clock' /\ a.e.kind = "trigger" /\ Placed(a, cycleData', deqEvent', mode)
  <2>1. KnownTrigger(a) /\ Placed(a, cycleData, deqEvent, mode)
    BY <1>13 DEF OnceInv
  <2>2. a.e.of.at < clock' /\ a.e.kind = "trigger"
    BY <1>8, <1>13, <2>1, StillKnown
  <2>3. ~Has(t, a.e)
    <3> SUFFICES ASSUME NEW i \in 1 .. Len(t), t[i] = a.e PROVE FALSE
      BY DEF Has
    <3>1. a.e.of.at = clock /\ a.e.of.at < clock
      BY <1>6, <2>1 DEF KnownTrigger
    <3> QED  BY <1>3, <3>1
  <2>4. Placed(a, cycleData \o t, deqEvent, mode)
    BY <1>6, <1>9, <2>1, <2>3, PlacedExtended
  <2> QED  BY <1>8, <2>2, <2>4
<1>14. ASSUME t # <<>>, NEW a, a = [e |-> t[1], n |-> Len(t)]
       PROVE  a.e.of.at < clock' /\ a.e.kind = "trigger" /\ Placed(a, cycleData', deqEvent', mode)
  <2>1. Len(t) \in Nat /\ 1 \in 1 .. Len(t)
    <3>1. Len(t) \in Nat /\ Len(t) # 0
      BY <1>6, <1>14, EmptySeq, LenProperties
    <3> QED  BY <3>1
  <2>2. a.e = x /\ t[1] = x /\ a.n = Len(t)
    BY <1>7, <1>14, <2>1
  <2>3. x.of.at = clock /\ x.kind = "trigger" /\ ~Has(cycleData, x) /\ HeldAt(deqEvent, x) = {}
    BY <1>6, <1>11, <2>1, <2>2
  <2> DEFINE u == cycleData \o t
  <2>4. /\ Len(cycleData) \in Nat /\ Len(u) = Len(cycleData) + Len(t)
        /\ \A i \in 1 .. Len(cycleData) : u[i] = cycleData[i]
        /\ \A i \in 1 .. Len(t) : u[Len(cycleData) + i] = t[i]
        /\ \A i \in 1 .. Len(u) : \/ i \in 1 .. Len(cycleData)
                                  \/ \E l \in 1 .. Len(t) : i = Len(cycleData) + l
    BY <1>6, <1>9, Concatenated
  <2>5. Has(u, x)
    <3>1. Has(t, x)
      BY <2>1, <2>2 DEF Has
    <3> QED  BY <1>6, <1>9, <3>1, HasConcat
  <2> HIDE DEF u
  <2>6. Copies(u, x) = (Len(cycleData) + 1) .. (Len(cycleData) + Len(t))
    <3>1. ASSUME NEW i \in Copies(u, x)
          PROVE  i \in (Len(cycleData) + 1) .. (Len(cycleData) + Len(t))
      <4>1. i \in 1 .. Len(u) /\ u[i] = x
        BY <3>1 DEF Copies
      <4>2. i \notin 1 .. Len(cycleData)
        BY <2>3, <2>4, <4>1 DEF Has
      <4> QED  BY <2>1, <2>4, <4>1, <4>2
    <3>2. ASSUME NEW i \in (Len(cycleData) + 1) .. (Len(cycleData) + Len(t))
          PROVE  i \in Copies(u, x)
      <4>1. PICK l \in 1 .. Len(t) : i = Len(cycleData) + l
        <5>1. i - Len(cycleData) \in 1 .. Len(t) /\ i = Len(cycleData) + (i - Len(cycleData))
          BY <2>1, <2>4
        <5> QED  BY <5>1
      <4>2. u[i] = t[l] /\ t[l] = x
        BY <1>7, <2>4, <4>1
      <4>3. i \in 1 .. Len(u)
        BY <2>1, <2>4
      <4> QED  BY <4>2, <4>3 DEF Copies
    <3> QED  BY <3>1, <3>2
  <2>7. Counts(Copies(u, x), Len(t))
    <3>1. PICK b \in Int, c \in Int : /\ b = Len(cycleData) + 1 /\ c = Len(cycleData) + Len(t)
                                      /\ ~(b > c) /\ c - b + 1 = Len(t)
      BY <2>1, <2>4
    <3>2. IsFiniteSet(b .. c) /\ Cardinality(b .. c) = IF b > c THEN 0 ELSE c - b + 1
      BY FS_Interval
    <3> QED  BY <2>6, <3>1, <3>2 DEF Counts
  <2>8. Placed(a, u, deqEvent, mode)
    BY <2>2, <2>3, <2>5, <2>7 DEF Placed
  <2>9. a.e.of.at < clock' /\ a.e.kind = "trigger"
    BY <1>3, <1>8, <2>2, <2>3
  <2> QED  BY <1>8, <2>8, <2>9 DEF u
<1>15. ASSUME NEW a \in accepted'
       PROVE  a.e.of.at < clock' /\ a.e.kind = "trigger" /\ Placed(a, cycleData', deqEvent', mode)
  <2>1. a \in accepted \/ (t # <<>> /\ a = [e |-> t[1], n |-> Len(t)])
    BY <1>8, <1>15
  <2> QED  BY <1>13, <1>14, <2>1
<1> QED  BY <1>8, <1>10, <1>12, <1>15 DEF OnceInv, KnownTrigger

(* The places of a sequence are its domain. *)
LEMMA HasToSet ==
  ASSUME NEW T, NEW s \in Seq(T), NEW x
  PROVE  x \in ToSet(s) <=> Has(s, x)
<1>1. DOMAIN s = 1 .. Len(s)
  BY LenProperties
<1> QED  BY <1>1 DEF ToSet, Has

LEMMA OnceSame ==
  ASSUME OnceInv, UNCHANGED <<cycleData, deqEvent, clock, accepted, mode>>
  PROVE  OnceInv'
BY DEF OnceInv, KnownTrigger

LEMMA OnceStep == TypeOK /\ OnceInv /\ [Next]_vars => OnceInv'
<1> SUFFICES ASSUME TypeOK, OnceInv, [Next]_vars
             PROVE  OnceInv'
  OBVIOUS
<1>1. CASE DoStartRun
  <2>1. /\ deqEvent' = <<>> /\ UNCHANGED <<cycleData, clock, mode>>
        /\ accepted' = {a \in accepted : a.e \in ToSet(cycleData)}
    BY <1>1 DEF DoStartRun
  <2>2. cycleData \in Seq(EntryType)
    BY DEF TypeOK
  <2>3. ASSUME NEW a \in accepted'
        PROVE  a.e.of.at < clock' /\ a.e.kind = "trigger" /\ Placed(a, cycleData', deqEvent', mode)
    <3>1. a \in accepted /\ a.e \in ToSet(cycleData)
      BY <2>1, <2>3
    <3>2. Has(cycleData, a.e)
      BY <2>2, <3>1, HasToSet
    <3>3. KnownTrigger(a) /\ Placed(a, cycleData, deqEvent, mode)
      BY <3>1 DEF OnceInv
    <3>4. HeldAt(<<>>, a.e) = {}
      BY DEF HeldAt
    <3>5. Placed(a, cycleData, <<>>, mode)
      BY <3>2, <3>3, <3>4 DEF Placed
    <3> QED  BY <2>1, <3>3, <3>5 DEF KnownTrigger
  <2>4. PastEvents(<<>>, clock)
    BY DEF PastEvents
  <2> QED  BY <2>1, <2>3, <2>4 DEF OnceInv, KnownTrigger
<1>2. CASE HwOn
  <2>1. CASE /\ Tick
             /\ ShutterOn(Shutter(hwCycle + 1, clock, clock))
             /\ lastOn' = hwCycle + 1 /\ onDelivered' = TRUE
    <3>1. PICK w : w = Shutter(hwCycle + 1, clock, clock)
      OBVIOUS
    <3>2. hwCycle + 1 \in Nat /\ clock \in Nat
      BY DEF TypeOK
    <3>3. w.no \in 0 .. CycleMod - 1 /\ w.ts \in Nat /\ w.of \in PlaceType
      BY <3>1, <3>2, ShutterTyped
    <3>4. w.of.at = clock
      BY <3>1 DEF Shutter
    <3>5. ShutterOn(w) /\ clock' = clock + 1 /\ mode' = mode
      BY <1>2, <2>1, <3>1 DEF HwOn, Tick, config
    <3> QED  BY <3>3, <3>4, <3>5, OnceStart
  <2>2. CASE /\ lastOn # -1 /\ hwCycle + 2 - lastOn <= MaxGap
             /\ Lose
             /\ onDelivered' = FALSE /\ UNCHANGED lastOn
    BY <1>2, <2>2, OnceSame DEF HwOn, Lose, config, trigger
  <2> QED  BY <1>2, <2>1, <2>2 DEF HwOn
<1>3. CASE HwRepeatOn
  <2>1. PICK w : w = Shutter(hwCycle, hwStart, hwStart)
    OBVIOUS
  <2>2. w.no \in 0 .. CycleMod - 1 /\ w.ts \in Nat /\ w.of \in PlaceType
    BY <2>1, ShutterAgain
  <2>3. w.of.at = clock
    BY <2>1 DEF Shutter
  <2>4. ShutterOn(w) /\ clock' = clock + 1 /\ mode' = mode
    BY <1>3, <2>1 DEF HwRepeatOn, Tick, config
  <2> QED  BY <2>2, <2>3, <2>4, OnceStart
<1>4. CASE HwOff
  <2>1. CASE Lose
    BY <1>4, <2>1, OnceSame DEF HwOff, Lose, config, trigger
  <2>2. CASE Tick /\ ShutterOff(Shutter(hwCycle, clock, hwStart))
    <3>1. PICK w : w = Shutter(hwCycle, clock, hwStart)
      OBVIOUS
    <3>2. hwCycle \in Nat /\ hwStart \in Nat /\ clock \in Nat
      BY DEF TypeOK
    <3>3. w.ts \in Nat /\ w.of \in PlaceType
      BY <3>1, <3>2, ShutterTyped
    <3>4. w.of.at = clock
      BY <3>1 DEF Shutter
    <3>5. ShutterOff(w) /\ clock' = clock + 1 /\ mode' = mode
      BY <1>4, <2>2, <3>1 DEF HwOff, Tick, config
    <3> QED  BY <3>3, <3>4, <3>5, OnceStop
  <2> QED  BY <1>4, <2>1, <2>2 DEF HwOff
<1>5. CASE HwTrigger
  BY <1>5, OnceTrigger
<1>6. CASE UNCHANGED vars
  BY <1>6, OnceSame DEF vars, config, trigger
<1> QED  BY <1>1, <1>2, <1>3, <1>4, <1>5, <1>6 DEF Next

(* Spec implies TriggersOnce: a trigger that the producer accepted waits in
   _cycleData or is in one event of the run, in the TRIGGERS mode in one for
   every input that fired, in every mode, whatever shutter words and triggers
   are lost or repeated around it, by however many cycles. *)
THEOREM TriggersBuiltOnce == Spec => []TriggersOnce
<1>1. ASSUME TypeOK, OnceInv
      PROVE  TriggersOnce
  <2> SUFFICES ASSUME NEW a \in accepted
               PROVE  IF a.e \in ToSet(cycleData) THEN Holders(a.e) = 0
                      ELSE Holders(a.e) = IF mode = "TRIGGERS" THEN a.n ELSE 1
    BY DEF TriggersOnce
  <2>1. cycleData \in Seq(EntryType) /\ deqEvent \in Seq(EventType)
    BY <1>1 DEF TypeOK
  <2>2. DOMAIN deqEvent = 1 .. Len(deqEvent) /\ \A i \in 1 .. Len(deqEvent) : deqEvent[i] \in EventType
    BY <2>1, LenProperties, ElementOfSeq
  <2>3. \A i \in 1 .. Len(deqEvent) : a.e \in ToSet(deqEvent[i].data) <=> Has(deqEvent[i].data, a.e)
    <3> SUFFICES ASSUME NEW i \in 1 .. Len(deqEvent)
                 PROVE  a.e \in ToSet(deqEvent[i].data) <=> Has(deqEvent[i].data, a.e)
      OBVIOUS
    <3>1. deqEvent[i].data \in Seq(EntryType)
      BY <2>2 DEF EventType
    <3> QED  BY <3>1, HasToSet
  <2>4. HeldAt(deqEvent, a.e) = {i \in DOMAIN deqEvent : a.e \in ToSet(deqEvent[i].data)}
    BY <2>2, <2>3 DEF HeldAt
  <2>5. Holders(a.e) = Cardinality(HeldAt(deqEvent, a.e))
    BY <2>4 DEF Holders
  <2>6. Placed(a, cycleData, deqEvent, mode) /\ (a.e \in ToSet(cycleData) <=> Has(cycleData, a.e))
    BY <1>1, <2>1, HasToSet DEF OnceInv
  <2>7. Cardinality({}) = 0
    BY FS_EmptySet
  <2> QED  BY <2>5, <2>6, <2>7 DEF Placed, Counts, Want
<1>2. TypeOK /\ OnceInv => TriggersOnce
  BY <1>1
<1> QED  BY TypeInit, TypeStep, OnceInit, OnceStep, <1>2, PTL DEF Spec
=============================================================================
