--------------------------- MODULE ScReader_proofs ---------------------------
(***************************************************************************)
(* LdaStream.  For every width of the counter fields and every limit, if   *)
(* the gaps are covered (GapsCovered): the reader's cycle counters are the *)
(* true cycles, the trigger numbers are the true ones, and the statistics  *)
(* add up.                                                                 *)
(*                                                                         *)
(* None of these is inductive alone.  IInv adds what the LDA guarantees    *)
(* (how far the last delivered packet is behind), that all recorded        *)
(* triggers precede the last one, and which timestamp last_TS is.          *)
(*                                                                         *)
(* ScParser.  For every set of streams whose blocks have the form of their *)
(* kind, in pieces of any size: every block is read once, and a slow       *)
(* control block gets into an event as a whole.  ParserInv says it of the  *)
(* erased part of the stream: what begins there was read, and no slow      *)
(* control block is erased in part, or without having been recorded.       *)
(***************************************************************************)
EXTENDS LdaStream, ScParser, SharedLemmas, TLAPS

-----------------------------------------------------------------------------
(* updateCntModulo returns the true counter whenever that lies in the window
   of one period that begins maxBack below the old value. *)
LEMMA UpdateExact ==
  ASSUME NEW old \in Int, NEW true \in Int, NEW mod \in Nat \ {0},
         NEW back \in Nat,
         old - back <= true, true < old - back + mod
  PROVE  updateCntModulo(old, true % mod, mod, back) = true
<1> DEFINE low == old - back
           r == true % mod
           value == IF (low % mod) > (r % mod) THEN low + mod ELSE low
<1>1. r \in 0 .. mod - 1 /\ low \in Int
  BY DivMod
<1>2. r % mod = r
  BY <1>1
<1>3. PICK t \in Int : true = mod * t + r
  BY DivMod
<1>4. PICK b \in Int : low = mod * b + (low % mod)
  BY DivMod, <1>1
<1>5. low % mod \in 0 .. mod - 1
  BY DivMod, <1>1
<1>6. CASE (low % mod) > r
  <2>1. value = low + mod
    BY <1>6, <1>2
  <2>2. value % mod = low % mod
    BY <2>1, <1>1, ModPlus
  <2>3. value - (value % mod) = mod * (b + 1)
    BY <2>1, <2>2, <1>4, <1>5, <1>1
  <2>4. t = b + 1
    <3>1. mod * b < mod * t
      BY <1>3, <1>4, <1>5, <1>1, <1>6
    <3>2. mod * t < mod * (b + 2)
      BY <1>3, <1>4, <1>5, <1>1, <1>6
    <3> QED BY <3>1, <3>2
  <2> QED BY <2>3, <2>4, <1>2, <1>3, <1>1 DEF updateCntModulo
<1>7. CASE ~((low % mod) > r)
  <2>1. value = low
    BY <1>7, <1>2
  <2>2. value - (value % mod) = mod * b
    <3>1. low - (low % mod) = mod * b
      BY <1>4, <1>5, <1>1
    <3> QED BY <3>1, <2>1
  <2>3. t = b
    <3>1. mod * (b - 1) < mod * t
      BY <1>3, <1>4, <1>5, <1>1, <1>7
    <3>2. mod * t < mod * (b + 1)
      BY <1>3, <1>4, <1>5, <1>1, <1>7
    <3> QED BY <3>1, <3>2
  <2> QED BY <2>2, <2>3, <1>2, <1>3, <1>1 DEF updateCntModulo
<1> QED BY <1>6, <1>7

(* A number of at most half a period survives the conversion to a signed
   field. *)
LEMMA SignedExact ==
  ASSUME NEW d \in Int, NEW mod \in Nat \ {0}, 2 * d < mod, -mod <= 2 * d
  PROVE  Signed(d, mod) = d
<1>1. CASE d >= 0
  <2>1. d % mod = d
    BY <1>1
  <2> QED BY <2>1, <1>1 DEF Signed
<1>2. CASE d < 0
  <2>1. (d + mod) % mod = d % mod
    BY ModPlus
  <2>2. (d + mod) % mod = d + mod
    BY <1>2
  <2> QED BY <2>1, <2>2, <1>2 DEF Signed
<1> QED BY <1>1, <1>2

(* What Signed returns depends on the remainder only. *)
LEMMA SignedShift ==
  ASSUME NEW d \in Int, NEW k \in Int, NEW mod \in Nat \ {0}
  PROVE  Signed(d + mod * k, mod) = Signed(d, mod)
BY ModShift DEF Signed
-----------------------------------------------------------------------------
(* The parts of the inductive invariant. *)

(* What the LDA's gaps make of the history variables. *)
LdaInv ==
  /\ -1 <= lastTS /\ lastTS <= hwRoc /\ hwRoc - lastTS <= TsGap
  /\ -1 <= lastTrig
  /\ lastTrig # -1 => lastTrig < hwTrig /\ hwTrig - lastTrig <= TrigGap

(* An entry of the timestamp map, filed under r, in a run whose trigger
   numbers count from base and whose last delivered trigger was "last". *)
EntryOK(r, e, base, last) ==
  /\ e \in TimeData
  /\ e.of \subseteq {r}
  /\ \A i \in 1 .. Len(e.trigs) :
       /\ e.trigs[i].id = e.trigs[i].n - base
       /\ e.trigs[i].roc = r
       /\ e.trigs[i].n <= last
       /\ \A j \in 1 .. i - 1 : e.trigs[j].id < e.trigs[i].id

MapInv ==
  /\ DOMAIN tsData \subseteq Int
  /\ \A r \in DOMAIN tsData : EntryOK(r, tsData[r], TrigBase, lastTrig)
  /\ DOMAIN asicData \subseteq Int
  /\ \A r \in DOMAIN asicData : asicData[r] \subseteq Nat /\ asicData[r] \subseteq {r}

CounterInv ==
  /\ cycleNoTS = lastTS /\ cycleNo = lastData
  /\ trigidNotKnown <=> lastTrig = -1
  /\ ~trigidNotKnown => /\ trigID = lastTrig - TrigBase
                        /\ accepted + stats.triggers_lost
                             = lastTrig - firstTrig + 1
  /\ trigidNotKnown => accepted = 0 /\ stats.triggers_lost = 0

(* Which packet last_TS belongs to, and that it is not in the future. *)
TimeInv ==
  /\ stats.ontime + stats.offtime = stats.last_TS - stats.first_TS
  /\ insideAcq => /\ stats.last_TS = stats.previous_start_TS
                  /\ stats.previous_start_TS # 0 /\ stats.first_TS # 0
  /\ ~insideAcq => /\ stats.last_TS = stats.previous_stop_TS
                   /\ stats.first_TS = 0 <=> stats.previous_stop_TS = 0
  /\ stats.last_TS <= clock

ScalarTypes ==
  /\ hwRoc \in Nat /\ hwAcq \in BOOLEAN /\ hwTrig \in Nat
  /\ clock \in Nat \ {0} /\ runs \in Nat
  /\ cycleNo \in Int /\ cycleNoTS \in Int /\ trigID \in Int
  /\ trigidNotKnown \in BOOLEAN /\ insideAcq \in BOOLEAN
  /\ stats \in StatsType
  /\ DOMAIN histogram \subseteq Nat
  /\ \A k \in DOMAIN histogram : histogram[k] \in Nat
  /\ lastTS \in Int /\ lastData \in Int
  /\ firstTrig \in Nat /\ lastTrig \in Int /\ accepted \in Nat

IInv == ScalarTypes /\ LdaInv /\ MapInv /\ CounterInv /\ TimeInv
-----------------------------------------------------------------------------
(* Entries of the timestamp map. *)

LEMMA EntryNew ==
  ASSUME NEW r \in Int, NEW base \in Int, NEW last \in Int
  PROVE  EntryOK(r, NoTimes, base, last)
BY DEF EntryOK, NoTimes, TimeData

LEMMA EntryLater ==
  ASSUME NEW r \in Int, NEW base \in Int, NEW last \in Int, NEW later \in Int,
         NEW e, EntryOK(r, e, base, last), last <= later
  PROVE  EntryOK(r, e, base, later)
<1>1. \A i \in 1 .. Len(e.trigs) : e.trigs[i] \in TrigRecord /\ e.trigs[i].n <= last
  BY DEF EntryOK, TimeData
<1>2. \A i \in 1 .. Len(e.trigs) : e.trigs[i].n <= later
  BY <1>1 DEF TrigRecord
<1> QED BY <1>2 DEF EntryOK

(* Before the first trigger of a run no entry has one, so that the base does
   not matter. *)
LEMMA EntryBase ==
  ASSUME NEW r \in Int, NEW base \in Int, NEW other \in Int,
         NEW e, EntryOK(r, e, base, -1)
  PROVE  EntryOK(r, e, other, -1)
<1>1. \A i \in 1 .. Len(e.trigs) : e.trigs[i].n <= -1 /\ e.trigs[i] \in TrigRecord
  BY DEF EntryOK, TimeData
<1>2. \A i \in 1 .. Len(e.trigs) : FALSE
  BY <1>1, SMTT(60) DEF TrigRecord
<1> QED BY <1>2 DEF EntryOK

(* A packet of cycle r is filed. *)
LEMMA EntryFiled ==
  ASSUME NEW r \in Nat, NEW base \in Int, NEW last \in Int, NEW e,
         EntryOK(r, e, base, last), NEW ts \in Nat
  PROVE  /\ EntryOK(r, [e EXCEPT !.of = @ \cup {r}], base, last)
         /\ EntryOK(r, [e EXCEPT !.start = ts], base, last)
         /\ EntryOK(r, [e EXCEPT !.stop = ts], base, last)
BY DEF EntryOK, TimeData

(* A trigger later than all before is recorded. *)
LEMMA EntryTrigger ==
  ASSUME NEW r \in Nat, NEW base \in Int, NEW last \in Int, NEW e,
         EntryOK(r, e, base, last),
         NEW t \in TrigRecord, t.id = t.n - base, t.roc = r, last < t.n
  PROVE  EntryOK(r, [e EXCEPT !.trigs = Append(@, t)], base, t.n)
<1> DEFINE f == [e EXCEPT !.trigs = Append(@, t)]
<1>1. e \in TimeData /\ e.trigs \in Seq(TrigRecord)
  BY DEF EntryOK, TimeData
<1>2. Append(e.trigs, t) \in Seq(TrigRecord)
  BY <1>1
<1>3. f \in TimeData /\ f.of = e.of /\ f.trigs = Append(e.trigs, t)
  BY <1>1, <1>2 DEF TimeData
<1>4. /\ Len(f.trigs) = Len(e.trigs) + 1
      /\ f.trigs[Len(e.trigs) + 1] = t
      /\ \A i \in 1 .. Len(e.trigs) : f.trigs[i] = e.trigs[i]
  BY <1>1, <1>3
<1>5. \A i \in 1 .. Len(e.trigs) :
         e.trigs[i] \in TrigRecord /\ e.trigs[i].n <= last
         /\ e.trigs[i].id = e.trigs[i].n - base
  BY <1>1 DEF EntryOK
<1>6. \A i \in 1 .. Len(e.trigs) : e.trigs[i].id < t.id /\ e.trigs[i].n <= t.n
  BY <1>5, SMTT(60) DEF TrigRecord
<1>7. ASSUME NEW i \in 1 .. Len(f.trigs)
      PROVE  /\ f.trigs[i].id = f.trigs[i].n - base
             /\ f.trigs[i].roc = r
             /\ f.trigs[i].n <= t.n
             /\ \A j \in 1 .. i - 1 : f.trigs[j].id < f.trigs[i].id
  <2>1. CASE i = Len(e.trigs) + 1
    BY <2>1, <1>1, <1>4, <1>6 DEF TrigRecord
  <2>2. CASE i # Len(e.trigs) + 1
    <3>1. i \in 1 .. Len(e.trigs)
      BY <2>2, <1>1, <1>4
    <3> QED BY <3>1, <1>1, <1>4, <1>6 DEF EntryOK
  <2> QED BY <2>1, <2>2
<1> HIDE DEF f
<1>8. EntryOK(r, f, base, t.n)
  BY <1>3, <1>7 DEF EntryOK
<1> QED BY <1>8 DEF f

(* The entry a packet of cycle r goes to. *)
LEMMA EntryFound ==
  ASSUME IInv, NEW r \in Nat, TsCycle(r) = r
  PROVE  EntryOK(r, TsEntry(r), TrigBase, lastTrig)
<1> DEFINE old == IF r \in DOMAIN tsData THEN tsData[r] ELSE NoTimes
<1>1. TrigBase \in Int /\ lastTrig \in Int
  BY CounterAssumption, DivMod DEF TrigBase, IInv, ScalarTypes
<1>2. EntryOK(r, old, TrigBase, lastTrig)
  BY <1>1, EntryNew DEF IInv, MapInv
<1>3. TsEntry(r) = [old EXCEPT !.of = @ \cup {r}]
  BY DEF TsEntry
<1> HIDE DEF old
<1>4. EntryOK(r, [old EXCEPT !.of = @ \cup {r}], TrigBase, lastTrig)
  BY <1>1, <1>2, EntryFiled
<1> QED BY <1>3, <1>4
-----------------------------------------------------------------------------
(* The counters. *)

LEMMA TsCycleExact ==
  ASSUME GapsCovered, IInv,
         NEW roc \in Nat, -1 <= roc - lastTS, roc - lastTS <= TsGap
  PROVE  /\ TsCycle(roc) = roc
         /\ AdoptTsCycle(roc) => cycleNoTS' = roc /\ lastTS' = roc
<1>1. cycleNoTS = lastTS /\ lastTS \in Int
  BY DEF IInv, CounterInv, ScalarTypes
<1>2. TsCycle(roc) = roc
  <2>1. lastTS - RocBack <= roc /\ roc < lastTS - RocBack + RocMod
    BY <1>1, CounterAssumption DEF GapsCovered
  <2>2. roc \in Int /\ RocMod \in Nat \ {0} /\ RocBack \in Nat
    BY CounterAssumption
  <2>3. updateCntModulo(lastTS, roc % RocMod, RocMod, RocBack) = roc
    BY <2>1, <2>2, <1>1, UpdateExact, ZenonT(60)
  <2> QED BY <2>3, <1>1 DEF TsCycle
<1>3. ~(Abs(roc - cycleNoTS) > MaxRocJump)
  BY <1>1, CounterAssumption DEF GapsCovered, Abs
<1> QED BY <1>2, <1>3 DEF AdoptTsCycle

LEMMA DataCycleExact ==
  ASSUME GapsCovered, IInv,
         NEW roc \in Nat, Abs(roc - lastData) <= DataGap
  PROVE  /\ DataCycle(roc) = roc
         /\ ~(Signed(DataCycle(roc) - cycleNo, RocMod) > MaxRocJump)
<1>1. cycleNo = lastData /\ lastData \in Int
  BY DEF IInv, CounterInv, ScalarTypes
<1>2. -DataGap <= roc - lastData /\ roc - lastData <= DataGap
  BY <1>1, CounterAssumption DEF Abs
<1>3. DataCycle(roc) = roc
  <2>1. lastData - MaxRocJump <= roc /\ roc < lastData - MaxRocJump + RocMod
    BY <1>1, <1>2, CounterAssumption DEF GapsCovered
  <2>2. roc \in Int /\ RocMod \in Nat \ {0} /\ MaxRocJump \in Nat
    BY CounterAssumption
  <2>3. updateCntModulo(lastData, roc % RocMod, RocMod, MaxRocJump) = roc
    BY <2>1, <2>2, <1>1, UpdateExact
  <2> QED BY <2>3, <1>1 DEF DataCycle
<1>4. Signed(roc - lastData, RocMod) = roc - lastData
  <2>1. 2 * (roc - lastData) < RocMod /\ -RocMod <= 2 * (roc - lastData)
    BY <1>1, <1>2, CounterAssumption DEF GapsCovered
  <2>2. roc - lastData \in Int /\ RocMod \in Nat \ {0}
    BY <1>1, CounterAssumption
  <2> QED BY <2>1, <2>2, SignedExact
<1> QED BY <1>1, <1>2, <1>3, <1>4, CounterAssumption DEF GapsCovered

(* The first trigger of a run is a step of one. *)
LEMMA FirstTrigExact ==
  ASSUME GapsCovered, IInv, NEW n \in Nat, trigidNotKnown
  PROVE  /\ TrigidDifference(n % TrigMod) = 1
         /\ KnownTrigID(n % TrigMod) = (n % TrigMod) - 1
<1> DEFINE raw == n % TrigMod
<1>1. raw \in 0 .. TrigMod - 1
  BY CounterAssumption, DivMod
<1> HIDE DEF raw
<1>2. KnownTrigID(raw) = raw - 1
  BY DEF KnownTrigID
<1>3. TrigMod \in Nat \ {0} /\ 2 < TrigMod
  BY CounterAssumption DEF GapsCovered
<1>4. Signed(1, TrigMod) = 1
  <2>1. 1 \in Int /\ 2 * 1 < TrigMod /\ -TrigMod <= 2 * 1
    BY <1>3
  <2> QED BY <2>1, <1>3, SignedExact
<1>5. CASE raw = 0
  <2>1. (raw - 1) % TrigMod = TrigMod - 1
    <3>1. raw - 1 \in Int
      BY <1>1
    <3>2. (raw - 1 + TrigMod) % TrigMod = (raw - 1) % TrigMod
      BY <3>1, <1>3, ModPlus
    <3>3. (raw - 1 + TrigMod) % TrigMod = TrigMod - 1
      BY <1>5, <1>3
    <3> QED BY <3>2, <3>3
  <2>2. raw - ((raw - 1) % TrigMod) = 1 + TrigMod * (-1)
    BY <2>1, <1>5, <1>3
  <2>3. Signed(1 + TrigMod * (-1), TrigMod) = Signed(1, TrigMod)
    <3>1. 1 \in Int /\ -1 \in Int
      OBVIOUS
    <3> QED BY <3>1, <1>3, SignedShift
  <2> QED BY <1>2, <1>4, <2>2, <2>3 DEF TrigidDifference, raw
<1>6. CASE raw # 0
  <2>1. (raw - 1) % TrigMod = raw - 1
    BY <1>1, <1>6, <1>3
  <2>2. raw - ((raw - 1) % TrigMod) = 1
    BY <2>1, <1>1, <1>3
  <2> QED BY <1>2, <1>4, <2>2 DEF TrigidDifference, raw
<1> QED BY <1>2, <1>5, <1>6 DEF raw

(* Afterwards the 16-bit difference is the true step. *)
LEMMA NextTrigExact ==
  ASSUME GapsCovered, IInv, NEW n \in Nat, ~trigidNotKnown,
         lastTrig <= n, n - lastTrig <= TrigGap
  PROVE  /\ TrigidDifference(n % TrigMod) = n - lastTrig
         /\ KnownTrigID(n % TrigMod) = lastTrig - TrigBase
<1> DEFINE raw == n % TrigMod
           d == n - lastTrig
<1>1. /\ trigID = lastTrig - TrigBase /\ lastTrig \in Nat /\ firstTrig \in Nat
      /\ TrigMod \in Nat \ {0} /\ d \in Int
  BY CounterAssumption DEF IInv, CounterInv, ScalarTypes, LdaInv
<1>2. trigID \in Int /\ firstTrig \in Int /\ n \in Int
  BY <1>1 DEF IInv, ScalarTypes
<1> DEFINE f == firstTrig \div TrigMod
           p == n \div TrigMod
           q == trigID \div TrigMod
           t == trigID % TrigMod
<1>3. /\ f \in Int /\ firstTrig = TrigMod * f + (firstTrig % TrigMod)
      /\ firstTrig % TrigMod \in 0 .. TrigMod - 1
  BY DivMod, <1>1, <1>2
<1>4. /\ p \in Int /\ n = TrigMod * p + raw
      /\ raw \in 0 .. TrigMod - 1
  BY DivMod, <1>1, <1>2
<1>5. /\ q \in Int /\ trigID = TrigMod * q + t
      /\ t \in 0 .. TrigMod - 1
  BY DivMod, <1>1, <1>2
<1> HIDE DEF f, p, q, t, raw
<1>6. TrigBase = TrigMod * f
  BY <1>1, <1>3 DEF TrigBase
<1>7. q + f - p \in Int
  BY <1>3, <1>4, <1>5
<1>8. raw - t = d + TrigMod * (q + f - p)
  BY <1>1, <1>3, <1>4, <1>5, <1>6
<1>9. Signed(d + TrigMod * (q + f - p), TrigMod) = Signed(d, TrigMod)
  <2> HIDE DEF d
  <2> QED BY <1>1, <1>7, SignedShift
<1>10. Signed(d, TrigMod) = d
  <2>1. 2 * d < TrigMod /\ -TrigMod <= 2 * d
    BY <1>1, CounterAssumption DEF GapsCovered
  <2> QED BY <2>1, <1>1, SignedExact
<1>11. KnownTrigID(raw) = trigID
  BY DEF KnownTrigID
<1> QED BY <1>1, <1>8, <1>9, <1>10, <1>11 DEF TrigidDifference, raw, t
-----------------------------------------------------------------------------
(* Filing an entry under r keeps the map part of the invariant. *)
LEMMA MapFiled ==
  ASSUME IInv, NEW r \in Nat, NEW e,
         NEW base \in Int, NEW last \in Int,
         EntryOK(r, e, base, last),
         \A q \in DOMAIN tsData : EntryOK(q, tsData[q], base, last),
         tsData' = Put(tsData, r, e), UNCHANGED asicData,
         TrigBase' = base, lastTrig' = last
  PROVE  MapInv'
BY DEF IInv, MapInv, Put

(* Statistics stay numbers, and what a packet leaves alone. *)
LEMMA StatsOfStartType ==
  ASSUME NEW s \in StatsType, NEW ts \in Nat, s.previous_stop_TS <= ts
  PROVE  /\ StatsOfStart(s, ts) \in StatsType
         /\ StatsOfStart(s, ts).triggers_lost = s.triggers_lost
<1> DEFINE first == IF s.first_TS = 0 THEN ts ELSE s.first_TS
           off == IF s.previous_stop_TS # 0
                  THEN s.offtime + (ts - s.previous_stop_TS) ELSE s.offtime
<1>1. first \in Nat /\ off \in Nat
  BY DEF StatsType
<1>2. StatsOfStart(s, ts) =
        [s EXCEPT !.last_TS = ts, !.first_TS = first,
                  !.previous_start_TS = ts, !.offtime = off,
                  !.cycle_triggers = 0]
  BY DEF StatsOfStart, StatsType
<1> HIDE DEF first, off
<1>3. StatsOfStart(s, ts) =
        [first_TS |-> first, last_TS |-> ts, previous_start_TS |-> ts,
         previous_stop_TS |-> s.previous_stop_TS, ontime |-> s.ontime,
         offtime |-> off, cycles |-> s.cycles, cycle_triggers |-> 0,
         triggers_inside_roc |-> s.triggers_inside_roc,
         triggers_outside_roc |-> s.triggers_outside_roc,
         triggers_lost |-> s.triggers_lost]
  BY <1>2 DEF StatsType
<1> QED BY <1>1, <1>3 DEF StatsType

LEMMA StatsOfStopType ==
  ASSUME NEW s \in StatsType, NEW ts \in Nat, s.previous_start_TS <= ts
  PROVE  /\ StatsOfStop(s, ts) \in StatsType
         /\ StatsOfStop(s, ts).triggers_lost = s.triggers_lost
<1> DEFINE on == IF s.previous_start_TS # 0
                 THEN s.ontime + (ts - s.previous_start_TS) ELSE s.ontime
           n == IF s.previous_start_TS # 0 THEN s.cycles + 1 ELSE s.cycles
<1>1. on \in Nat /\ n \in Nat
  BY DEF StatsType
<1>2. StatsOfStop(s, ts) =
        [s EXCEPT !.last_TS = ts, !.previous_stop_TS = ts, !.ontime = on,
                  !.cycles = n]
  BY DEF StatsOfStop, StatsType
<1> HIDE DEF on, n
<1> QED BY <1>1, <1>2, ZenonT(60) DEF StatsType

LEMMA StartKeeps ==
  ASSUME GapsCovered, IInv, Tick, ReadStart(hwRoc, clock),
         UNCHANGED <<hwRoc, hwTrig, runs, cycleNo, asicData, lastData>>,
         hwAcq' = TRUE
  PROVE  IInv'
<1>1. TsCycle(hwRoc) = hwRoc /\ cycleNoTS' = hwRoc /\ lastTS' = hwRoc
  BY TsCycleExact DEF IInv, ScalarTypes, LdaInv, ReadStart
<1>2. hwRoc \in Nat /\ clock \in Nat /\ TrigBase \in Int /\ lastTrig \in Int
  BY CounterAssumption, DivMod DEF IInv, ScalarTypes, TrigBase
<1>3. MapInv'
  <2> DEFINE e == [TsEntry(hwRoc) EXCEPT !.start = clock]
  <2>1. EntryOK(hwRoc, e, TrigBase, lastTrig)
    BY <1>1, <1>2, EntryFound, EntryFiled
  <2>2. tsData' = Put(tsData, hwRoc, e) /\ TrigBase' = TrigBase /\ lastTrig' = lastTrig
    BY <1>1 DEF ReadStart, TrigBase
  <2> HIDE DEF e
  <2> QED BY <1>2, <2>1, <2>2, MapFiled DEF IInv, MapInv
<1>4. ScalarTypes' /\ TimeInv'
  <2>1. CASE insideAcq
    <3>1. stats' = stats /\ insideAcq' = TRUE /\ clock' = clock + 1
      BY <2>1 DEF ReadStart, Tick
    <3> QED BY <2>1, <3>1, <1>1, <1>2
        DEF IInv, ScalarTypes, TimeInv, ReadStart, StatsType
  <2>2. CASE ~insideAcq
    <3>1. stats' = StatsOfStart(stats, clock) /\ insideAcq' = TRUE /\ clock' = clock + 1
      BY <2>2 DEF ReadStart, Tick
    <3>2. stats' \in StatsType
      <4>1. stats \in StatsType /\ stats.previous_stop_TS <= clock
        BY <2>2 DEF IInv, ScalarTypes, TimeInv
      <4> QED BY <4>1, <3>1, <1>2, StatsOfStartType
    <3>3. TimeInv'
      BY <2>2, <3>1, <1>2 DEF IInv, ScalarTypes, TimeInv, StatsType, StatsOfStart
    <3> QED BY <3>1, <3>2, <3>3, <1>1, <1>2 DEF IInv, ScalarTypes, ReadStart
  <2> QED BY <2>1, <2>2 DEF IInv, ScalarTypes
<1>5. LdaInv'
  BY <1>1, <1>2, CounterAssumption DEF IInv, LdaInv, ScalarTypes, ReadStart
<1>6. CounterInv'
  <2>1. stats'.triggers_lost = stats.triggers_lost
    BY DEF ReadStart, StatsOfStart, IInv, ScalarTypes, StatsType
  <2> QED BY <2>1, <1>1 DEF IInv, CounterInv, ReadStart, TrigBase
<1> QED BY <1>3, <1>4, <1>5, <1>6 DEF IInv

LEMMA StopKeeps ==
  ASSUME GapsCovered, IInv, Tick, ReadStop(hwRoc, clock),
         UNCHANGED <<hwTrig, runs, cycleNo, asicData, lastData>>,
         hwAcq' = FALSE, hwRoc' = hwRoc + 1
  PROVE  IInv'
<1>1. TsCycle(hwRoc) = hwRoc /\ cycleNoTS' = hwRoc /\ lastTS' = hwRoc
  BY TsCycleExact DEF IInv, ScalarTypes, LdaInv, ReadStop
<1>2. hwRoc \in Nat /\ clock \in Nat /\ TrigBase \in Int /\ lastTrig \in Int
  BY CounterAssumption, DivMod DEF IInv, ScalarTypes, TrigBase
<1>3. MapInv'
  <2> DEFINE e == [TsEntry(hwRoc) EXCEPT !.stop = clock]
  <2>1. EntryOK(hwRoc, e, TrigBase, lastTrig)
    BY <1>1, <1>2, EntryFound, EntryFiled
  <2>2. tsData' = Put(tsData, hwRoc, e) /\ TrigBase' = TrigBase /\ lastTrig' = lastTrig
    BY <1>1 DEF ReadStop, TrigBase
  <2> HIDE DEF e
  <2> QED BY <1>2, <2>1, <2>2, MapFiled DEF IInv, MapInv
<1>4. /\ DOMAIN histogram' \subseteq Nat
      /\ \A k \in DOMAIN histogram' : histogram'[k] \in Nat
  <2>1. stats.cycle_triggers \in Nat
    BY DEF IInv, ScalarTypes, StatsType
  <2> QED BY <2>1 DEF IInv, ScalarTypes, ReadStop, Counted, Put
<1>5. stats' \in StatsType /\ TimeInv'
  <2>1. CASE ~insideAcq
    BY <2>1, <1>1, <1>2 DEF IInv, ScalarTypes, TimeInv, ReadStop, StatsType, Tick
  <2>2. CASE insideAcq
    <3>1. stats' = StatsOfStop(stats, clock) /\ insideAcq' = FALSE /\ clock' = clock + 1
      BY <2>2 DEF ReadStop, Tick
    <3>2. stats \in StatsType /\ stats.previous_start_TS <= clock
      BY <2>2 DEF IInv, ScalarTypes, TimeInv
    <3>3. stats' \in StatsType
      BY <3>1, <3>2, <1>2, StatsOfStopType
    <3>4. TimeInv'
      BY <2>2, <3>1, <3>2, <1>2 DEF IInv, ScalarTypes, TimeInv, StatsType, StatsOfStop
    <3> QED BY <3>3, <3>4
  <2> QED BY <2>1, <2>2 DEF IInv, ScalarTypes
<1>6. ScalarTypes'
  <2>1. /\ hwRoc' \in Nat /\ hwTrig' \in Nat /\ clock' \in Nat \ {0}
        /\ runs' \in Nat /\ cycleNo' \in Int /\ cycleNoTS' \in Int
        /\ trigID' \in Int /\ lastTS' \in Int /\ lastData' \in Int
        /\ firstTrig' \in Nat /\ lastTrig' \in Int /\ accepted' \in Nat
    BY <1>1, <1>2 DEF IInv, ScalarTypes, ReadStop, Tick
  <2>2. hwAcq' \in BOOLEAN /\ trigidNotKnown' \in BOOLEAN /\ insideAcq' \in BOOLEAN
    BY DEF IInv, ScalarTypes, ReadStop
  <2> QED BY <2>1, <2>2, <1>4, <1>5 DEF ScalarTypes
<1>7. LdaInv'
  BY <1>1, <1>2, CounterAssumption DEF IInv, LdaInv, ScalarTypes, ReadStop
<1>8. CounterInv'
  <2>1. stats'.triggers_lost = stats.triggers_lost
    BY DEF ReadStop, StatsOfStop, IInv, ScalarTypes, StatsType
  <2> QED BY <2>1, <1>1 DEF IInv, CounterInv, ReadStop, TrigBase
<1> QED BY <1>3, <1>5, <1>6, <1>7, <1>8 DEF IInv

(* Reading a trigger packet of cycle roc with the true number n, not older
   than the last one.  It is accepted exactly when n is new. *)
LEMMA TriggerKeeps ==
  ASSUME GapsCovered, IInv, Tick,
         NEW roc \in Nat, -1 <= roc - lastTS, roc - lastTS <= TsGap,
         roc <= hwRoc, hwRoc - roc <= 1, 1 <= TsGap,
         NEW n \in Nat, ReadTrigger(roc, n, clock),
         trigidNotKnown \/ (lastTrig <= n /\ n - lastTrig <= TrigGap),
         n < hwTrig', hwTrig' \in Nat, hwTrig' - n <= TrigGap,
         UNCHANGED <<hwRoc, hwAcq, runs, cycleNo, asicData, lastData>>
  PROVE  IInv'
<1> DEFINE raw == n % TrigMod
           diff == TrigidDifference(raw)
           base == TrigBase'
<1>1. TsCycle(roc) = roc /\ cycleNoTS' = roc /\ lastTS' = roc
  BY TsCycleExact DEF ReadTrigger
<1>2. /\ hwRoc \in Nat /\ clock \in Nat /\ TrigBase \in Int /\ lastTrig \in Int
      /\ firstTrig \in Nat /\ accepted \in Nat /\ stats \in StatsType
      /\ raw \in Int /\ TrigMod \in Nat \ {0}
  BY CounterAssumption, DivMod DEF IInv, ScalarTypes, TrigBase
<1>3. lastTrig' = n /\ trigidNotKnown' = FALSE /\ clock' = clock + 1
  BY DEF ReadTrigger, Tick
<1>4. base \in Int /\ (trigidNotKnown => base = n - raw /\ firstTrig' = n)
      /\ (~trigidNotKnown => base = TrigBase /\ firstTrig' = firstTrig)
  <2>1. firstTrig' = IF trigidNotKnown THEN n ELSE firstTrig
    BY DEF ReadTrigger
  <2>2. base = firstTrig' - (firstTrig' % TrigMod)
    BY DEF TrigBase
  <2>3. firstTrig' \in Nat
    BY <2>1, <1>2
  <2>4. base \in Int
    BY <2>2, <2>3, <1>2, DivMod
  <2>5. CASE trigidNotKnown
    BY <2>1, <2>2, <2>4, <2>5
  <2>6. CASE ~trigidNotKnown
    BY <2>1, <2>2, <2>4, <2>6 DEF TrigBase
  <2> QED BY <2>4, <2>5, <2>6
<1>5. /\ KnownTrigID(raw) + diff = n - base
      /\ diff \in Int
      /\ ~trigidNotKnown => diff = n - lastTrig
      /\ trigidNotKnown => diff = 1
  <2>1. CASE trigidNotKnown
    BY <2>1, <1>2, <1>4, FirstTrigExact
  <2>2. CASE ~trigidNotKnown
    BY <2>2, <1>2, <1>4, NextTrigExact
  <2> QED BY <2>1, <2>2
<1> HIDE DEF raw, diff, base
<1>6. lastTrig <= n /\ (trigidNotKnown => lastTrig = -1)
  BY <1>2 DEF IInv, CounterInv
<1>7. \A q \in DOMAIN tsData : EntryOK(q, tsData[q], base, lastTrig)
  <2>1. \A q \in DOMAIN tsData : q \in Int /\ EntryOK(q, tsData[q], TrigBase, lastTrig)
    BY DEF IInv, MapInv
  <2>2. CASE trigidNotKnown
    BY <2>1, <2>2, <1>2, <1>4, <1>6, EntryBase
  <2> QED BY <2>1, <2>2, <1>4
<1>8. EntryOK(roc, TsEntry(roc), base, lastTrig)
  <2>1. EntryOK(roc, TsEntry(roc), TrigBase, lastTrig)
    BY <1>1, EntryFound
  <2>2. CASE trigidNotKnown
    BY <2>1, <2>2, <1>2, <1>4, <1>6, EntryBase
  <2> QED BY <2>1, <2>2, <1>4
<1>9. \A q \in DOMAIN tsData : EntryOK(q, tsData[q], base, n)
  <2>1. DOMAIN tsData \subseteq Int
    BY DEF IInv, MapInv
  <2> QED BY <2>1, <1>2, <1>4, <1>6, <1>7, EntryLater
<1>10. TrigidAccepted(raw) <=> (trigidNotKnown \/ n # lastTrig)
  BY <1>2, <1>5, CounterAssumption DEF TrigidAccepted, GapsCovered, diff
<1>11. MapInv'
  <2>1. CASE TrigidAccepted(raw)
    <3> DEFINE t == [id |-> KnownTrigID(raw) + diff, ts |-> clock, roc |-> roc, n |-> n]
               e == [TsEntry(roc) EXCEPT !.trigs = Append(@, t)]
    <3>1. t \in TrigRecord /\ t.id = t.n - base /\ t.roc = roc /\ t.n = n
      BY <1>2, <1>4, <1>5 DEF TrigRecord
    <3>2. lastTrig < n
      BY <2>1, <1>2, <1>6, <1>10
    <3>3. tsData' = Put(tsData, roc, e)
      BY <2>1, <1>1 DEF ReadTrigger, raw, diff
    <3> HIDE DEF t
    <3>4. EntryOK(roc, e, base, n)
      BY <3>1, <3>2, <1>2, <1>4, <1>8, EntryTrigger
    <3> HIDE DEF e
    <3> QED BY <3>3, <3>4, <1>3, <1>4, <1>9, MapFiled DEF base
  <2>2. CASE ~TrigidAccepted(raw)
    <3>1. tsData' = Put(tsData, roc, TsEntry(roc))
      BY <2>2, <1>1 DEF ReadTrigger, raw
    <3>2. EntryOK(roc, TsEntry(roc), base, n)
      BY <1>2, <1>4, <1>6, <1>8, EntryLater
    <3> QED BY <3>1, <3>2, <1>3, <1>4, <1>9, MapFiled DEF base
  <2> QED BY <2>1, <2>2
<1> DEFINE out == IF insideAcq THEN stats
                  ELSE [stats EXCEPT !.triggers_outside_roc = @ + 1]
<1>12. /\ stats' \in StatsType
       /\ stats'.triggers_lost = IF TrigidAccepted(raw)
                                 THEN stats.triggers_lost + (diff - 1)
                                 ELSE stats.triggers_lost
       /\ \A k \in {"ontime", "offtime", "first_TS", "last_TS",
                     "previous_start_TS", "previous_stop_TS"} : stats'[k] = stats[k]
  <2>1. /\ out \in StatsType /\ out.triggers_lost = stats.triggers_lost
        /\ \A k \in {"ontime", "offtime", "first_TS", "last_TS",
                     "previous_start_TS", "previous_stop_TS"} : out[k] = stats[k]
    BY <1>2 DEF StatsType
  <2> HIDE DEF out
  <2>2. CASE TrigidAccepted(raw)
    <3>1. diff - 1 \in Nat
      BY <2>2, <1>2, <1>5, <1>6, <1>10
    <3> DEFINE in == IF insideAcq THEN out.triggers_inside_roc + 1
                     ELSE out.triggers_inside_roc
               cyc == IF insideAcq THEN out.cycle_triggers + 1
                      ELSE out.cycle_triggers
               lost == out.triggers_lost + (diff - 1)
    <3>2. in \in Nat /\ cyc \in Nat /\ lost \in Nat
      BY <2>1, <3>1 DEF StatsType
    <3>3. stats' = [out EXCEPT !.triggers_lost = lost,
                               !.triggers_inside_roc = in,
                               !.cycle_triggers = cyc]
      BY <2>1, <2>2 DEF ReadTrigger, out, raw, diff, StatsType
    <3>4. lost = stats.triggers_lost + (diff - 1)
      BY <2>1
    <3> HIDE DEF in, cyc, lost
    <3> QED BY <2>1, <2>2, <3>2, <3>3, <3>4 DEF StatsType
  <2>3. CASE ~TrigidAccepted(raw)
    <3>1. stats' = out
      BY <2>3 DEF ReadTrigger, out, raw
    <3> QED BY <2>1, <2>3, <3>1
  <2> QED BY <2>2, <2>3
<1> HIDE DEF out
<1>13. trigID' = n - base /\ accepted' \in Nat
       /\ accepted' = IF TrigidAccepted(raw) THEN accepted + 1 ELSE accepted
  <2>1. CASE TrigidAccepted(raw)
    BY <2>1, <1>2, <1>5, SMTT(60) DEF ReadTrigger, raw, diff
  <2>2. CASE ~TrigidAccepted(raw)
    <3>1. trigID' = KnownTrigID(raw) /\ accepted' = accepted
      BY <2>2 DEF ReadTrigger, raw
    <3>2. diff = 0 /\ KnownTrigID(raw) + diff = n - base /\ ~trigidNotKnown
      BY <2>2, <1>2, <1>5, <1>10
    <3>3. KnownTrigID(raw) \in Int
      BY <3>2 DEF KnownTrigID, IInv, ScalarTypes
    <3> QED BY <2>2, <3>1, <3>2, <3>3, <1>2
  <2> QED BY <2>1, <2>2
<1>14. ScalarTypes'
  <2>1. /\ hwRoc' \in Nat /\ hwTrig' \in Nat /\ clock' \in Nat \ {0}
        /\ runs' \in Nat /\ cycleNo' \in Int /\ cycleNoTS' \in Int
        /\ trigID' \in Int /\ lastTS' \in Int /\ lastData' \in Int
        /\ firstTrig' \in Nat /\ lastTrig' \in Int /\ accepted' \in Nat
    BY <1>1, <1>2, <1>3, <1>4, <1>13 DEF IInv, ScalarTypes
  <2>2. hwAcq' \in BOOLEAN /\ trigidNotKnown' \in BOOLEAN /\ insideAcq' \in BOOLEAN
    BY <1>3 DEF IInv, ScalarTypes, ReadTrigger
  <2>3. histogram' = histogram
    BY DEF ReadTrigger
  <2> QED BY <2>1, <2>2, <2>3, <1>12 DEF IInv, ScalarTypes
<1>15. TimeInv'
  <2>1. /\ stats'.ontime = stats.ontime /\ stats'.offtime = stats.offtime
        /\ stats'.first_TS = stats.first_TS /\ stats'.last_TS = stats.last_TS
        /\ stats'.previous_start_TS = stats.previous_start_TS
        /\ stats'.previous_stop_TS = stats.previous_stop_TS
    BY <1>12
  <2>2. insideAcq' = insideAcq
    BY DEF ReadTrigger
  <2>3. stats.last_TS \in Nat
    BY <1>2 DEF StatsType
  <2> QED BY <2>1, <2>2, <2>3, <1>2, <1>3 DEF IInv, TimeInv
<1>16. LdaInv'
  <2>1. hwRoc' = hwRoc /\ TsGap \in Nat /\ TrigGap \in Nat
    BY CounterAssumption
  <2>2. lastTS' = roc /\ lastTrig' = n /\ hwRoc \in Nat
    BY <1>1, <1>2, <1>3
  <2>3. -1 <= lastTS' /\ lastTS' <= hwRoc' /\ hwRoc' - lastTS' <= TsGap
    BY <2>1, <2>2
  <2>4. -1 <= lastTrig' /\ lastTrig' < hwTrig' /\ hwTrig' - lastTrig' <= TrigGap
    BY <2>2
  <2> QED BY <2>3, <2>4 DEF LdaInv
<1>17. CounterInv'
  <2>1. accepted' + stats'.triggers_lost = lastTrig' - firstTrig' + 1
    <3>1. stats.triggers_lost \in Nat
      BY <1>2 DEF StatsType
    <3>2. CASE trigidNotKnown
      <4>1. accepted = 0 /\ stats.triggers_lost = 0 /\ TrigidAccepted(raw)
        BY <3>2, <1>10 DEF IInv, CounterInv
      <4> QED BY <3>2, <4>1, <1>3, <1>4, <1>5, <1>12, <1>13
    <3>3. CASE ~trigidNotKnown
      <4>1. accepted + stats.triggers_lost = lastTrig - firstTrig + 1
        BY <3>3 DEF IInv, CounterInv
      <4> QED BY <3>1, <3>3, <4>1, <1>2, <1>3, <1>4, <1>5, <1>10, <1>12, <1>13
    <3> QED BY <3>2, <3>3
  <2>2. cycleNoTS' = lastTS' /\ cycleNo' = lastData'
    BY <1>1 DEF IInv, CounterInv
  <2>3. lastTrig' # -1 /\ trigID' = lastTrig' - TrigBase'
    BY <1>3, <1>13 DEF base
  <2> QED BY <2>1, <2>2, <2>3, <1>3 DEF CounterInv
<1> QED BY <1>11, <1>14, <1>15, <1>16, <1>17 DEF IInv

LEMMA AsicKeeps ==
  ASSUME GapsCovered, IInv, NEW roc \in Nat, NEW good \in BOOLEAN,
         Abs(roc - lastData) <= DataGap, ReadAsic(roc, good),
         UNCHANGED <<hw, tsVars, lastTS, firstTrig, lastTrig, accepted>>
  PROVE  IInv'
<1>1. cycleNo' = roc /\ lastData' = roc
  BY DataCycleExact DEF ReadAsic
<1> DEFINE old == IF roc \in DOMAIN asicData THEN asicData[roc] ELSE {}
           new == IF good THEN old \cup {roc} ELSE old
<1>2. asicData' = Put(asicData, roc, new)
  BY DataCycleExact DEF ReadAsic
<1>3. new \subseteq Nat /\ new \subseteq {roc}
  BY DEF IInv, MapInv
<1> HIDE DEF new
<1>4. UNCHANGED <<tsData, TrigBase>>
  BY DEF tsVars, TrigBase
<1>5. MapInv'
  <2>1. /\ DOMAIN asicData' \subseteq Int
        /\ \A r \in DOMAIN asicData' :
             asicData'[r] \subseteq Nat /\ asicData'[r] \subseteq {r}
    <3>1. /\ DOMAIN asicData' = DOMAIN asicData \cup {roc}
          /\ asicData'[roc] = new
          /\ \A r \in DOMAIN asicData : r # roc => asicData'[r] = asicData[r]
      BY <1>2 DEF Put
    <3>2. /\ DOMAIN asicData \subseteq Int
          /\ \A r \in DOMAIN asicData :
               asicData[r] \subseteq Nat /\ asicData[r] \subseteq {r}
      BY DEF IInv, MapInv
    <3>3. ASSUME NEW r \in DOMAIN asicData'
          PROVE  asicData'[r] \subseteq Nat /\ asicData'[r] \subseteq {r}
      BY <3>1, <3>2, <1>3
    <3> QED BY <3>1, <3>2, <3>3
  <2> QED BY <2>1, <1>4 DEF IInv, MapInv
<1> QED BY <1>1, <1>4, <1>5
    DEF IInv, ScalarTypes, LdaInv, CounterInv, TimeInv, hw, tsVars

(* Steps that leave the reader and the histories alone. *)
LEMMA ReaderIdle ==
  ASSUME IInv, UNCHANGED <<tsVars, cycleNo, asicData, lastTS, lastData,
                           firstTrig, lastTrig, accepted>>,
         hwRoc' \in Nat, hwAcq' \in BOOLEAN, hwTrig' \in Nat,
         clock' \in Nat, clock <= clock', runs' \in Nat,
         lastTS <= hwRoc', hwRoc' - lastTS <= TsGap,
         lastTrig # -1 => lastTrig < hwTrig' /\ hwTrig' - lastTrig <= TrigGap
  PROVE  IInv'
<1>1. UNCHANGED <<cycleNoTS, trigID, trigidNotKnown, insideAcq, tsData, stats,
                  histogram, cycleNo, asicData, lastTS, lastData, firstTrig,
                  lastTrig, accepted, TrigBase>>
  BY DEF tsVars, TrigBase
<1>2. clock \in Nat \ {0} /\ stats.last_TS \in Nat
  BY DEF IInv, ScalarTypes, StatsType
<1>3. ScalarTypes'
  BY <1>1, <1>2 DEF IInv, ScalarTypes
<1>4. LdaInv'
  BY <1>1 DEF IInv, LdaInv
<1>5. MapInv' /\ CounterInv'
  BY <1>1 DEF IInv, MapInv, CounterInv
<1>6. TimeInv'
  BY <1>1, <1>2 DEF IInv, TimeInv
<1> QED BY <1>3, <1>4, <1>5, <1>6 DEF IInv

LEMMA OnStartKeeps ==
  ASSUME GapsCovered, IInv, OnStart
  PROVE  IInv'
<1>1. clock \in Nat \ {0} /\ runs \in Nat /\ hwTrig \in Nat
  BY DEF IInv, ScalarTypes
<1>2. ClearedStats \in StatsType
  BY DEF ClearedStats, StatsType
<1>3. /\ DOMAIN EmptyMap = {}
      /\ tsData' = EmptyMap /\ asicData' = EmptyMap /\ histogram' = EmptyMap
  BY DEF OnStart, EmptyMap
<1>4. ScalarTypes'
  <2>1. hwTrig' \in Nat
    BY <1>1, CounterAssumption DEF OnStart
  <2>2. hwAcq' \in BOOLEAN /\ trigidNotKnown' \in BOOLEAN /\ insideAcq' \in BOOLEAN
    BY DEF OnStart
  <2>3. stats' \in StatsType
    BY <1>2 DEF OnStart
  <2>4. /\ hwRoc' \in Nat /\ clock' \in Nat \ {0} /\ runs' \in Nat
        /\ cycleNo' \in Int /\ cycleNoTS' \in Int /\ trigID' \in Int
        /\ lastTS' \in Int /\ lastData' \in Int
        /\ firstTrig' \in Nat /\ lastTrig' \in Int /\ accepted' \in Nat
    BY <1>1 DEF OnStart
  <2> QED BY <2>1, <2>2, <2>3, <2>4, <1>3 DEF ScalarTypes
<1>5. LdaInv'
  BY <1>1, CounterAssumption DEF OnStart, LdaInv
<1>6. MapInv'
  BY <1>3 DEF MapInv
<1>7. CounterInv'
  BY DEF OnStart, CounterInv, ClearedStats
<1>8. TimeInv'
  BY <1>1 DEF OnStart, TimeInv, ClearedStats
<1> QED BY <1>4, <1>5, <1>6, <1>7, <1>8 DEF IInv

LEMMA TakeOldestKeeps ==
  ASSUME IInv, TakeOldest
  PROVE  IInv'
<1>1. /\ DOMAIN tsData' \subseteq DOMAIN tsData
      /\ \A r \in DOMAIN tsData' : tsData'[r] = tsData[r]
      /\ DOMAIN asicData' \subseteq DOMAIN asicData
      /\ \A r \in DOMAIN asicData' : asicData'[r] = asicData[r]
  BY DEF TakeOldest, Without
<1>2. UNCHANGED <<TrigBase, lastTrig>>
  BY DEF TakeOldest, TrigBase
<1>3. MapInv'
  BY <1>1, <1>2 DEF IInv, MapInv
<1> QED BY <1>2, <1>3
    DEF TakeOldest, IInv, ScalarTypes, LdaInv, CounterInv, TimeInv, hw
-----------------------------------------------------------------------------
LEMMA InitIInv ==
  Init => IInv
<1> SUFFICES ASSUME Init PROVE IInv
  OBVIOUS
<1>1. ClearedStats \in StatsType
  BY DEF ClearedStats, StatsType
<1>2. DOMAIN EmptyMap = {}
  BY DEF EmptyMap
<1>3. ScalarTypes /\ MapInv
  <2>1. hwTrig \in Nat
    BY CounterAssumption DEF Init
  <2>2. hwAcq \in BOOLEAN /\ trigidNotKnown \in BOOLEAN /\ insideAcq \in BOOLEAN
    BY DEF Init
  <2>3. stats \in StatsType
    BY <1>1 DEF Init
  <2>4. /\ hwRoc \in Nat /\ clock \in Nat \ {0} /\ runs \in Nat
        /\ cycleNo \in Int /\ cycleNoTS \in Int /\ trigID \in Int
        /\ lastTS \in Int /\ lastData \in Int
        /\ firstTrig \in Nat /\ lastTrig \in Int /\ accepted \in Nat
    BY DEF Init
  <2>5. DOMAIN tsData = {} /\ DOMAIN asicData = {} /\ DOMAIN histogram = {}
    BY <1>2 DEF Init
  <2>6. MapInv
    BY <2>5 DEF MapInv
  <2> QED BY <2>1, <2>2, <2>3, <2>4, <2>5, <2>6 DEF ScalarTypes
<1>4. LdaInv /\ CounterInv
  BY CounterAssumption DEF Init, LdaInv, CounterInv, ClearedStats
<1>5. TimeInv
  BY DEF Init, TimeInv, ClearedStats
<1> QED BY <1>3, <1>4, <1>5 DEF IInv

LEMMA NextIInv ==
  ASSUME GapsCovered
  PROVE  IInv /\ [Next]_vars => IInv'
<1> SUFFICES ASSUME IInv, [Next]_vars PROVE IInv'
  OBVIOUS
<1>1. /\ hwRoc \in Nat /\ hwAcq \in BOOLEAN /\ hwTrig \in Nat
      /\ clock \in Nat \ {0} /\ runs \in Nat
      /\ lastTS \in Int /\ lastTrig \in Int
      /\ lastTS <= hwRoc /\ hwRoc - lastTS <= TsGap
      /\ lastTrig # -1 => lastTrig < hwTrig /\ hwTrig - lastTrig <= TrigGap
      /\ -1 <= lastTrig
      /\ TsGap \in Nat \ {0} /\ TrigGap \in Nat \ {0}
  BY CounterAssumption DEF IInv, ScalarTypes, LdaInv
<1>2. CASE OnStart
  BY <1>2, OnStartKeeps
<1>3. CASE StartAcq
  <2>1. CASE ReadStart(hwRoc, clock)
    BY <1>3, <2>1, StartKeeps DEF StartAcq
  <2>2. CASE Lose
    BY <1>1, <1>3, <2>2, ReaderIdle DEF StartAcq, Tick, Lose
  <2> QED BY <1>3, <2>1, <2>2 DEF StartAcq
<1>4. CASE StopAcq
  <2>1. CASE ReadStop(hwRoc, clock)
    BY <1>4, <2>1, StopKeeps DEF StopAcq
  <2>2. CASE hwRoc + 1 - lastTS <= TsGap /\ Lose
    <3>1. /\ hwRoc' = hwRoc + 1 /\ hwAcq' = FALSE /\ clock' = clock + 1
          /\ UNCHANGED <<hwTrig, runs, cycleNo, asicData, lastData>>
      BY <1>4 DEF StopAcq, Tick
    <3>2. /\ hwRoc' \in Nat /\ hwTrig' \in Nat
          /\ clock' \in Nat /\ clock <= clock' /\ runs' \in Nat
          /\ lastTS <= hwRoc' /\ hwRoc' - lastTS <= TsGap
          /\ lastTrig # -1 => lastTrig < hwTrig' /\ hwTrig' - lastTrig <= TrigGap
      BY <1>1, <2>2, <3>1
    <3>3. hwAcq' \in BOOLEAN
      BY <3>1
    <3> QED BY <2>2, <3>1, <3>2, <3>3, ReaderIdle DEF Lose
  <2> QED BY <1>4, <2>1, <2>2 DEF StopAcq
<1>5. CASE IdleCycles
  <2>1. PICK k \in IdleSpans : /\ hwRoc + k - lastTS <= TsGap
                              /\ hwRoc' = hwRoc + k
    BY <1>5 DEF IdleCycles
  <2>2. k \in Nat
    BY CounterAssumption
  <2> QED BY <1>1, <1>5, <2>1, <2>2, ReaderIdle DEF IdleCycles
<1>6. CASE Trigger
  <2>1. CASE \E roc \in TriggerRocs : ReadTrigger(roc, hwTrig, clock)
    <3>1. PICK roc \in TriggerRocs : ReadTrigger(roc, hwTrig, clock)
      BY <2>1
    <3>2. roc \in Nat /\ roc <= hwRoc /\ hwRoc - roc <= 1
      BY <1>1 DEF TriggerRocs
    <3>3. -1 <= roc - lastTS /\ roc - lastTS <= TsGap /\ 1 <= TsGap
      BY <1>1, <3>2
    <3>4. /\ hwTrig \in Nat /\ hwTrig' = hwTrig + 1
          /\ hwTrig < hwTrig' /\ hwTrig' \in Nat /\ hwTrig' - hwTrig <= TrigGap
      BY <1>1, <1>6 DEF Trigger
    <3>5. trigidNotKnown \/ (lastTrig <= hwTrig /\ hwTrig - lastTrig <= TrigGap)
      BY <1>1 DEF IInv, CounterInv
    <3>6. Tick /\ UNCHANGED <<hwRoc, hwAcq, runs, cycleNo, asicData, lastData>>
      BY <1>6 DEF Trigger
    <3> QED BY <3>1, <3>2, <3>3, <3>4, <3>5, <3>6, TriggerKeeps
  <2>2. CASE (lastTrig # -1 => hwTrig + 1 - lastTrig <= TrigGap) /\ Lose
    BY <1>1, <1>6, <2>2, ReaderIdle DEF Trigger, Tick, Lose
  <2> QED BY <1>6, <2>1, <2>2 DEF Trigger
<1>7. CASE RepeatTrigger
  <2>1. -1 <= hwRoc - lastTS /\ hwRoc - lastTS <= TsGap /\ 1 <= TsGap
        /\ hwRoc <= hwRoc /\ hwRoc - hwRoc <= 1
    BY <1>1
  <2>2. /\ lastTrig \in Nat /\ lastTrig <= lastTrig /\ lastTrig - lastTrig <= TrigGap
        /\ hwTrig' = hwTrig
        /\ lastTrig < hwTrig' /\ hwTrig' \in Nat /\ hwTrig' - lastTrig <= TrigGap
    BY <1>1, <1>7 DEF RepeatTrigger
  <2>3. /\ Tick /\ ReadTrigger(hwRoc, lastTrig, clock)
        /\ UNCHANGED <<hwRoc, hwAcq, runs, cycleNo, asicData, lastData>>
    BY <1>7 DEF RepeatTrigger
  <2> QED BY <1>1, <2>1, <2>2, <2>3, TriggerKeeps
<1>8. CASE AsicPacket
  <2>1. PICK roc \in {r \in (hwRoc - DataLag) .. hwRoc : r >= 0}, good \in BOOLEAN :
          Abs(roc - lastData) <= DataGap /\ ReadAsic(roc, good)
    BY <1>8 DEF AsicPacket
  <2>2. roc \in Nat
    BY <1>1, CounterAssumption
  <2> QED BY <1>8, <2>1, <2>2, AsicKeeps DEF AsicPacket
<1>9. CASE TakeOldest
  BY <1>9, TakeOldestKeeps
<1>10. CASE UNCHANGED vars
  BY <1>1, <1>10, ReaderIdle DEF vars, hw, tsVars
<1> QED BY <1>2, <1>3, <1>4, <1>5, <1>6, <1>7, <1>8, <1>9, <1>10 DEF Next

(* IInv holds in every state of the stream. *)
THEOREM Inductive ==
  ASSUME GapsCovered
  PROVE  Spec => []IInv
BY InitIInv, NextIInv, PTL DEF Spec

(* Every variable keeps its type, so no counter of the statistics ever goes
   below zero. *)
THEOREM Typed ==
  ASSUME GapsCovered
  PROVE  Spec => []TypeOK
<1>1. IInv => TypeOK
  BY DEF IInv, ScalarTypes, MapInv, EntryOK, TypeOK
<1> QED BY <1>1, Inductive, PTL

(* updateCntModulo and the jump limits recover the full cycle number from its
   low bits: no packet is filed under another cycle than its own. *)
THEOREM RocsRecovered ==
  ASSUME GapsCovered
  PROVE  Spec => []RocRecovered
<1>1. IInv => RocRecovered
  BY DEF IInv, CounterInv, MapInv, EntryOK, RocRecovered
<1> QED BY <1>1, Inductive, PTL

(* The trigger numbers readLDATimestamp extends from 16 bits are the true
   ones, and every cycle holds them in increasing order. *)
THEOREM TriggersRecovered ==
  ASSUME GapsCovered
  PROVE  Spec => []TriggersFaithful
<1>1. IInv => TriggersFaithful
  BY DEF IInv, CounterInv, MapInv, EntryOK, TriggersFaithful
<1> QED BY <1>1, Inductive, PTL

(* On-time and off-time of the run statistics add up to the time between the
   first and the last packet. *)
THEOREM TimesAddUp ==
  ASSUME GapsCovered
  PROVE  Spec => []TimeAccounted
<1>1. IInv => TimeAccounted
  BY DEF IInv, TimeInv, TimeAccounted
<1> QED BY <1>1, Inductive, PTL

(* Recorded and lost triggers add up to the triggers that happened. *)
THEOREM TriggersAddUp ==
  ASSUME GapsCovered
  PROVE  Spec => []TriggersAccounted
<1>1. IInv => TriggersAccounted
  BY DEF IInv, CounterInv, TriggersAccounted
<1> QED BY <1>1, Inductive, PTL

-----------------------------------------------------------------------------
(* The byte parser.  The kinds of an LDA packet. *)
PacketKinds == {"temp", "ts", "conf", "other", "asic", "invalid"}

ParserTypes ==
  /\ input \in Inputs
  /\ pos \in Nat /\ arrived \in Nat /\ pos <= arrived /\ arrived <= Len(Stream)
  /\ state \in {"DONE", "SLOWCONTROL"} /\ pc \in {"wait", "scan"}
  /\ slowcontrol \in Seq(Nat) /\ attached \subseteq Seq(Nat)
  /\ read \in Seq([kind : Kinds, at : Nat])

(* What begins in the part of the stream that is erased, was read. *)
ReadInv ==
  /\ \A i \in DOMAIN read :
       /\ read[i].at <= pos
       /\ \E b \in ToRead : read[i] = [kind |-> b.kind, at |-> b.first]
  /\ \A i, j \in DOMAIN read : i < j => read[i].at < read[j].at
  /\ \A b \in ToRead : b.first <= pos => HasRead(b)

(* What is left in the buffer between two calls of Read is not whole. *)
LeftInv ==
  pc = "wait" /\ (\A b \in input.blocks : b.kind # "broken hv")
  => \A b \in ToRead : b.first > pos => ~Arrived(b)

Recorded(b) == \E chunk \in attached \cup {slowcontrol} : HoldsBody(chunk, b)

(* A slow control block is erased as a whole, and is recorded then. *)
SlowInv ==
  \A b \in input.blocks : b.kind = "sc" =>
    /\ ~(b.first <= pos /\ pos < b.last)
    /\ b.last <= pos => Recorded(b)

ParserInv == ParserTypes /\ (Clean => ReadInv /\ LeftInv /\ SlowInv)

HeaderAt(p) == [i \in 1 .. MinPacket |-> Stream[p + i - 1]]

LEMMA BytesAreNat == \A x \in 0 .. 255 : x \in Nat
OBVIOUS

LEMMA MagicsDiffer ==
  /\ MagicSc \notin {MagicLed, MagicData, MagicHv}
  /\ MagicLed \notin {MagicData, MagicHv}
  /\ MagicData # MagicHv
  /\ \A m \in {MagicLed, MagicData, MagicHv} : m[1] # MagicSc[2]
BY DEF MagicSc, MagicLed, MagicData, MagicHv

LEMMA KindOfHeader ==
  ASSUME NEW h PROVE PacketKind(h) \in PacketKinds
BY DEF PacketKind, PacketKinds

(* The bytes of a block, by the places in the stream. *)
LEMMA BlockBytes ==
  ASSUME input \in Inputs, NEW b \in input.blocks
  PROVE  /\ Stream \in Seq(0 .. 255)
         /\ b.first \in 1 .. Len(Stream) /\ b.last \in 1 .. Len(Stream)
         /\ b.first <= b.last
         /\ \E bytes \in Seq(0 .. 255) :
              /\ Form(b.kind, bytes)
              /\ Len(bytes) = b.last - b.first + 1
              /\ \A k \in 1 .. Len(bytes) : bytes[k] = Stream[b.first + k - 1]
<1> DEFINE bytes == SubSeq(Stream, b.first, b.last)
<1>1. /\ Stream \in Seq(0 .. 255)
      /\ b \in [kind : Kinds, first : 1 .. Len(Stream), last : 1 .. Len(Stream)]
      /\ b.first <= b.last /\ Form(b.kind, bytes)
  BY InputsAssumption DEF Stream
<1>2. Len(Stream) \in Nat /\ DOMAIN Stream = 1 .. Len(Stream)
  BY <1>1, LenProperties
<1>3. /\ b.first \in 1 .. Len(Stream) /\ b.last \in 1 .. Len(Stream)
      /\ b.first \in Int /\ b.last \in Int
  BY <1>1, <1>2
<1>4. ASSUME NEW i \in b.first .. b.last PROVE Stream[i] \in 0 .. 255
  <2>1. i \in 1 .. Len(Stream)
    BY <1>2, <1>3
  <2> QED BY <1>1, <2>1, ElementOfSeq
<1>5. /\ bytes \in Seq(0 .. 255)
      /\ Len(bytes) = IF b.first <= b.last THEN b.last - b.first + 1 ELSE 0
      /\ \A i \in 1 .. b.last - b.first + 1 : bytes[i] = Stream[b.first + i - 1]
  <2> DEFINE f == b.first
             l == b.last
  <2>1. f \in Int /\ l \in Int /\ \A i \in f .. l : Stream[i] \in 0 .. 255
    BY <1>3, <1>4
  <2> HIDE DEF f, l
  <2>2. /\ SubSeq(Stream, f, l) \in Seq(0 .. 255)
        /\ Len(SubSeq(Stream, f, l)) = IF f <= l THEN l - f + 1 ELSE 0
        /\ \A i \in 1 .. l - f + 1 : SubSeq(Stream, f, l)[i] = Stream[f + i - 1]
    BY <2>1, SubSeqProperties
  <2> QED BY <2>2 DEF f, l
<1> HIDE DEF bytes
<1> QED BY <1>1, <1>3, <1>5

(* What the form of a block says of the stream. *)
LEMMA BlockForm ==
  ASSUME input \in Inputs, NEW b \in input.blocks
  PROVE  /\ b.kind = "junk" \/ b.first < b.last
         /\ b.kind = "sc" => StreamPair(b.first) = MagicSc
         /\ b.kind = "led" =>
              StreamPair(b.first) = MagicLed /\ b.last = b.first + 2 + 4 * Stream[b.first + 2]
         /\ b.kind = "hv" =>
              /\ StreamPair(b.first) = MagicHv /\ b.last = b.first + 11
              /\ StreamPair(b.first + 10) = Footer
         /\ b.kind = "broken hv" => StreamPair(b.first) = MagicHv
         /\ b.kind \in PacketKinds =>
              /\ StreamPair(b.first) = MagicData /\ b.last >= b.first + 13
              /\ b.last = b.first + 9 + length(HeaderAt(b.first))
              /\ b.kind = PacketKind(HeaderAt(b.first))
         /\ b.kind \in {"junk", "sc", "led", "hv", "broken hv"} \cup PacketKinds
<1> DEFINE h == HeaderAt(b.first)
           f == b.first
           n == b.last - b.first + 1
           magic == StreamPair(b.first)
<1>1. f \in Nat /\ b.last \in Nat /\ n \in Nat
  <2>1. Len(Stream) \in Nat
    BY BlockBytes, LenProperties
  <2> QED BY <2>1, BlockBytes
<1>2. PICK bytes \in Seq(0 .. 255) :
        /\ Form(b.kind, bytes) /\ Len(bytes) = n
        /\ \A k \in 1 .. n : bytes[k] = Stream[f + k - 1]
  BY BlockBytes
<1>3. \A k \in 1 .. 14 : k <= n => bytes[k] = Stream[f + k - 1]
  BY <1>1, <1>2
<1>4. b.last = f + n - 1
  BY <1>1
<1>7. \A k \in 1 .. 14 : k <= n => bytes[k] \in 0 .. 255
  <2> SUFFICES ASSUME NEW k \in 1 .. 14, k <= n PROVE bytes[k] \in 0 .. 255
    OBVIOUS
  <2>1. k \in 1 .. Len(bytes)
    BY <1>1, <1>2
  <2> QED BY <1>2, <2>1, ElementOfSeq
<1>8. \A x \in 0 .. 255 : x \in Nat
  BY BytesAreNat
<1> HIDE DEF n, f
<1>5. CASE b.kind = "junk"
  BY <1>5 DEF PacketKinds
<1>6. CASE b.kind # "junk"
  <2>1. n >= 2
    BY <1>2, <1>6 DEF Form
  <2>2. bytes[1] = Stream[f] /\ bytes[2] = Stream[f + 1]
    <3>1. bytes[1] = Stream[f + 1 - 1] /\ bytes[2] = Stream[f + 2 - 1]
      BY <1>3, <2>1, <1>1
    <3> QED BY <3>1, <1>1
  <2>3. magic = <<bytes[1], bytes[2]>>
    BY <2>2 DEF StreamPair, f
  <2>4. b.first < b.last
    BY <1>1, <1>4, <2>1 DEF f
  <2> HIDE DEF magic
  <2>5. CASE b.kind = "sc" /\ magic = MagicSc
    BY <2>5, <2>4 DEF PacketKinds, magic
  <2>6. CASE b.kind = "led" /\ magic = MagicLed /\ n >= 3 /\ n = 3 + 4 * bytes[3]
    <3>1. bytes[3] = Stream[f + 2]
      <4>1. bytes[3] = Stream[f + 3 - 1]
        BY <1>3, <2>6, <1>1
      <4> QED BY <4>1, <1>1
    <3>2. bytes[3] \in Nat
      <4>1. 3 \in 1 .. 14 /\ 3 <= n
        BY <2>6
      <4>2. bytes[3] \in 0 .. 255
        BY <1>7, <4>1
      <4> QED BY <4>2, <1>8
    <3>3. b.last = f + 2 + 4 * bytes[3]
      <4> DEFINE layers == bytes[3]
      <4>1. layers \in Nat /\ n = 3 + 4 * layers
        BY <2>6, <3>2
      <4> HIDE DEF layers
      <4>2. b.last = f + 2 + 4 * layers
        BY <4>1, <1>1, <1>4
      <4> QED BY <4>2 DEF layers
    <3> QED BY <3>1, <3>3, <2>6, <2>4 DEF PacketKinds, magic, f
  <2>7. CASE b.kind = "hv" /\ magic = MagicHv
               /\ n = SizeHv /\ <<bytes[11], bytes[12]>> = Footer
    <3>1. bytes[11] = Stream[f + 10] /\ bytes[12] = Stream[f + 11]
      <4>1. bytes[11] = Stream[f + 11 - 1] /\ bytes[12] = Stream[f + 12 - 1]
        BY <1>3, <2>7, <1>1 DEF SizeHv
      <4> QED BY <4>1, <1>1
    <3>2. StreamPair(f + 10) = Footer
      <4>1. f + 10 + 1 = f + 11
        BY <1>1
      <4> QED BY <4>1, <3>1, <2>7 DEF StreamPair
    <3>3. b.last = f + 11
      BY <1>1, <1>4, <2>7 DEF SizeHv
    <3> QED BY <3>2, <3>3, <2>7, <2>4 DEF PacketKinds, magic, f
  <2>8. CASE b.kind = "broken hv" /\ magic = MagicHv
    BY <2>8, <2>4 DEF PacketKinds, magic
  <2>9. CASE magic = MagicData /\ n >= MinPacket /\ n = SizeLdaHeader + length(bytes)
               /\ b.kind = PacketKind(bytes)
    <3>1. \A k \in 1 .. 14 : h[k] = bytes[k]
      <4>1. \A k \in 1 .. 14 : h[k] = Stream[f + k - 1]
        BY DEF HeaderAt, MinPacket, f
      <4>2. \A k \in 1 .. 14 : k <= n
        BY <2>9, <1>1 DEF MinPacket
      <4> HIDE DEF h
      <4> QED BY <4>1, <4>2, <1>3
    <3> HIDE DEF h
    <3>2. /\ h[3] = bytes[3] /\ h[4] = bytes[4] /\ h[10] = bytes[10] /\ h[11] = bytes[11]
          /\ h[12] = bytes[12] /\ h[13] = bytes[13] /\ h[14] = bytes[14]
      BY <3>1
    <3>3. length(h) = length(bytes) /\ status(h) = status(bytes) /\ Type(h) = Type(bytes)
      BY <3>2 DEF length, status, Type
    <3>4. PacketKind(h) = PacketKind(bytes)
      BY <3>3 DEF PacketKind
    <3>5. b.kind \in PacketKinds
      BY <2>9, KindOfHeader
    <3>6. b.last >= f + 13
      BY <1>1, <1>4, <2>9 DEF MinPacket
    <3>7. b.last = f + 9 + length(h)
      <4>1. length(bytes) = n - 10
        <5>1. bytes[3] \in Nat /\ bytes[4] \in Nat
          <6>1. 3 \in 1 .. 14 /\ 4 \in 1 .. 14 /\ 3 <= n /\ 4 <= n
            BY <2>9, <1>1 DEF MinPacket
          <6>2. bytes[3] \in 0 .. 255 /\ bytes[4] \in 0 .. 255
            BY <1>7, <6>1
          <6> QED BY <6>2, <1>8
        <5> QED BY <5>1, <1>1, <2>9 DEF length, SizeLdaHeader
      <4> QED BY <4>1, <3>3, <1>1, <1>4
    <3> QED BY <3>3, <3>4, <3>5, <3>6, <3>7, <2>9, <2>4 DEF PacketKinds, magic, f, h
  <2>10. Form(b.kind, bytes) /\ Len(bytes) = n
    BY <1>2
  <2> QED BY <2>10, <1>6, <2>3, <2>5, <2>6, <2>7, <2>8, <2>9 DEF Form
<1> QED BY <1>5, <1>6

LEMMA BlocksDisjoint ==
  ASSUME input \in Inputs, NEW b \in input.blocks, NEW c \in input.blocks, b # c
  PROVE  b.last < c.first \/ c.last < b.first
BY InputsAssumption

(* A magic in the buffer is the begin of a block. *)
LEMMA BlockBegins ==
  ASSUME ParserTypes, Clean, NEW k \in Nat, k + 1 < bufsize,
         PairAt(k) \in {MagicData, MagicLed, MagicHv}
  PROVE  \E b \in input.blocks :
           b.kind # "junk" /\ b.first = pos + 1 + k /\ StreamPair(b.first) = PairAt(k)
<1>1. pos + 1 + k \in 1 .. Len(Stream) - 1 /\ pos \in Nat /\ arrived \in Nat
  <2>1. Len(Stream) \in Nat
    BY InputsAssumption DEF ParserTypes, Stream
  <2> QED BY <2>1 DEF ParserTypes, bufsize
<1>2. StreamPair(pos + 1 + k) = PairAt(k)
  BY <1>1 DEF StreamPair, PairAt, buf
<1> QED BY <1>1, <1>2 DEF Clean

(* The kind of a block that begins with a magic. *)
LEMMA KindAtMagic ==
  ASSUME input \in Inputs, NEW b \in input.blocks, b.kind # "junk"
  PROVE  /\ StreamPair(b.first) = MagicLed <=> b.kind = "led"
         /\ StreamPair(b.first) = MagicSc <=> b.kind = "sc"
         /\ StreamPair(b.first) = MagicHv <=> b.kind \in {"hv", "broken hv"}
         /\ StreamPair(b.first) = MagicData <=> b.kind \in PacketKinds
BY BlockForm, MagicsDiffer DEF PacketKinds

(* A step inside of a block passes the begin of no other one. *)
LEMMA InsideBlock ==
  ASSUME ParserTypes, NEW c \in input.blocks, c.kind # "sc", c.first = pos + 1,
         NEW q \in Int, pos < q, q <= c.last
  PROVE  /\ \A b \in input.blocks : b # c /\ b.first > pos => b.first > q
         /\ \A b \in input.blocks : b.kind = "sc" /\ ~(b.first <= pos /\ pos < b.last)
              => ~(b.first <= q /\ q < b.last) /\ (b.last <= q => b.last <= pos)
<1>1. pos \in Nat /\ input \in Inputs
  BY DEF ParserTypes
<1>2. c.first \in Nat /\ c.last \in Nat
  BY <1>1, BlockBytes
<1>3. ASSUME NEW b \in input.blocks, b # c
      PROVE  b.first \in Nat /\ b.last \in Nat /\ b.first <= b.last
             /\ (b.last < c.first \/ c.last < b.first)
  BY <1>1, <1>3, BlockBytes, BlocksDisjoint
<1> QED BY <1>1, <1>2, <1>3
-----------------------------------------------------------------------------
(* The buffer. *)
LEMMA Buffer ==
  ASSUME ParserTypes
  PROVE  /\ input \in Inputs /\ pos \in Nat /\ arrived \in Nat /\ bufsize \in Nat
         /\ bufsize = arrived - pos
         /\ Len(Stream) \in Nat /\ arrived <= Len(Stream)
         /\ \A k \in Nat : k < bufsize => buf(k) = Stream[pos + 1 + k] /\ buf(k) \in Nat
<1>1. /\ input \in Inputs /\ pos \in Nat /\ arrived \in Nat
      /\ pos <= arrived /\ arrived <= Len(Stream) /\ bufsize = arrived - pos
  BY DEF ParserTypes, bufsize
<1>2. Stream \in Seq(0 .. 255)
  BY <1>1, InputsAssumption DEF Stream
<1>3. Len(Stream) \in Nat
  BY <1>2, LenProperties
<1>4. ASSUME NEW k \in Nat, k < bufsize
      PROVE  buf(k) = Stream[pos + 1 + k] /\ buf(k) \in Nat
  <2>1. pos + 1 + k \in 1 .. Len(Stream)
    BY <1>1, <1>3, <1>4
  <2>2. Stream[pos + 1 + k] \in 0 .. 255
    BY <1>2, <2>1, ElementOfSeq
  <2>3. \A x \in 0 .. 255 : x \in Nat
    BY BytesAreNat
  <2> QED BY <2>2, <2>3 DEF buf
<1> QED BY <1>1, <1>3, <1>4

LEMMA ToReadBlocks ==
  ASSUME input \in Inputs, NEW b \in ToRead
  PROVE  /\ b \in input.blocks /\ b.kind # "sc" /\ b.kind # "junk"
         /\ b.kind \in {"led", "hv", "temp", "ts", "asic"}
         /\ b.first \in Nat /\ b.last \in Nat /\ b.first < b.last /\ 1 <= b.first
         /\ b.last <= Len(Stream) /\ Len(Stream) \in Nat
<1>1. b \in input.blocks /\ b.kind \in {"led", "hv", "temp", "ts", "asic"}
  BY DEF ToRead
<1>2. Stream \in Seq(0 .. 255) /\ Len(Stream) \in Nat
  BY <1>1, BlockBytes, LenProperties
<1>3. b.first \in 1 .. Len(Stream) /\ b.last \in 1 .. Len(Stream)
  BY <1>1, BlockBytes
<1>4. b.first < b.last
  BY <1>1, BlockForm
<1>5. b.kind # "sc" /\ b.kind # "junk"
  BY <1>1
<1> QED BY <1>1, <1>2, <1>3, <1>4, <1>5

(* Whatever is erased, unless a block to be read begins in it. *)
LEMMA ReadKept ==
  ASSUME ParserTypes, ReadInv, input' = input, read' = read, pos' \in Nat, pos <= pos',
         \A b \in ToRead : b.first > pos => b.first > pos'
  PROVE  ReadInv'
<1>1. ToRead' = ToRead
  BY DEF ToRead
<1>2. \A b \in ToRead : b.first \in Nat
  BY ToReadBlocks DEF ParserTypes
<1>3. pos \in Nat /\ \A i \in DOMAIN read : read[i].at \in Nat
  <2>1. read \in Seq([kind : Kinds, at : Nat]) /\ DOMAIN read = 1 .. Len(read)
    BY LenProperties DEF ParserTypes
  <2>2. \A i \in DOMAIN read : read[i] \in [kind : Kinds, at : Nat]
    BY <2>1, ElementOfSeq
  <2> QED BY <2>2 DEF ParserTypes
<1>4. \A b \in ToRead : HasRead(b)' <=> HasRead(b)
  BY DEF HasRead
<1>5. \A i \in DOMAIN read' :
        /\ read'[i].at <= pos'
        /\ \E b \in ToRead' : read'[i] = [kind |-> b.kind, at |-> b.first]
  BY <1>1, <1>3 DEF ReadInv
<1>6. \A i, j \in DOMAIN read' : i < j => read'[i].at < read'[j].at
  BY DEF ReadInv
<1>7. ASSUME NEW b \in ToRead', b.first <= pos'
      PROVE  HasRead(b)'
  <2>1. b.first <= pos
    BY <1>1, <1>2, <1>3, <1>7
  <2> QED BY <1>1, <1>4, <2>1 DEF ReadInv
<1> QED BY <1>5, <1>6, <1>7 DEF ReadInv

(* The block at the begin of the buffer is read, and at most it is erased. *)
LEMMA ReadTaken ==
  ASSUME ParserTypes, ReadInv, input' = input,
         NEW c \in ToRead, c.first = pos + 1,
         pos' \in Nat, pos < pos', pos' <= c.last,
         read' = Append(read, [kind |-> c.kind, at |-> pos + 1])
  PROVE  ReadInv'
<1> DEFINE T == [kind : Kinds, at : Nat]
           e == [kind |-> c.kind, at |-> pos + 1]
<1>1. ToRead' = ToRead
  BY DEF ToRead
<1>2. \A b \in ToRead : b.first \in Nat /\ b \in input.blocks
  BY ToReadBlocks DEF ParserTypes
<1>3. /\ pos \in Nat /\ input \in Inputs /\ read \in Seq(T)
      /\ Len(read) \in Nat /\ DOMAIN read = 1 .. Len(read)
  BY LenProperties DEF ParserTypes
<1>4. e \in T
  <2>1. c \in [kind : Kinds, first : 1 .. Len(input.bytes), last : 1 .. Len(input.bytes)]
    BY <1>2, <1>3, InputsAssumption
  <2> QED BY <1>3, <2>1
<1> DEFINE n == Len(read)
<1>5. /\ read' \in Seq(T) /\ DOMAIN read' = 1 .. n + 1
      /\ \A i \in 1 .. n : read'[i] = read[i]
      /\ read'[n + 1] = e
  <2>1. /\ read' \in Seq(T) /\ Len(read') = n + 1
        /\ \A i \in 1 .. n : read'[i] = read[i]
        /\ read'[n + 1] = e
    BY <1>3, <1>4, AppendProperties
  <2> QED BY <2>1, LenProperties
<1>6. \A i \in 1 .. n : read[i].at \in Nat
  <2> TAKE i \in 1 .. n
  <2>1. read[i] \in T
    BY <1>3, ElementOfSeq
  <2> QED BY <2>1
<1> HIDE DEF n
<1>7. ASSUME NEW i \in DOMAIN read'
      PROVE  /\ read'[i].at <= pos'
             /\ \E b \in ToRead' : read'[i] = [kind |-> b.kind, at |-> b.first]
  <2>1. CASE i \in 1 .. n
    <3>1. read'[i] = read[i] /\ i \in DOMAIN read
      BY <1>3, <1>5, <2>1 DEF n
    <3>2. read[i].at <= pos /\ \E b \in ToRead : read[i] = [kind |-> b.kind, at |-> b.first]
      BY <3>1 DEF ReadInv
    <3>3. read[i].at <= pos'
      BY <3>2, <1>3, <1>6, <2>1
    <3> QED BY <3>1, <3>2, <3>3, <1>1
  <2>2. CASE i = n + 1
    <3>1. read'[i] = [kind |-> c.kind, at |-> c.first] /\ read'[i].at = pos + 1
      BY <1>5, <2>2
    <3>2. read'[i].at <= pos'
      BY <3>1, <1>3
    <3>3. c \in ToRead'
      BY <1>1
    <3> QED BY <3>1, <3>2, <3>3
  <2>3. i \in 1 .. n \/ i = n + 1
    BY <1>3, <1>5 DEF n
  <2> QED BY <2>1, <2>2, <2>3
<1>8. ASSUME NEW i \in DOMAIN read', NEW j \in DOMAIN read', i < j
      PROVE  read'[i].at < read'[j].at
  <2>1. i \in 1 .. n /\ j \in 1 .. n + 1 /\ n \in Nat
    BY <1>3, <1>5, <1>8 DEF n
  <2>2. read'[i] = read[i] /\ i \in DOMAIN read /\ read[i].at <= pos
    BY <1>3, <1>5, <2>1 DEF n, ReadInv
  <2>3. CASE j \in 1 .. n
    <3>1. read'[j] = read[j] /\ j \in DOMAIN read
      BY <1>3, <1>5, <2>3 DEF n
    <3> QED BY <2>2, <3>1, <1>8 DEF ReadInv
  <2>4. CASE j = n + 1
    <3>1. read'[j].at = pos + 1
      BY <1>5, <2>4
    <3> QED BY <2>1, <2>2, <3>1, <1>3, <1>6
  <2> QED BY <2>1, <2>3, <2>4
<1>9. ASSUME NEW b \in ToRead', b.first <= pos'
      PROVE  HasRead(b)'
  <2>1. b \in ToRead
    BY <1>1
  <2>2. CASE b = c
    <3>1. n + 1 \in DOMAIN read' /\ read'[n + 1].at = b.first
      BY <1>3, <1>5, <2>2 DEF n
    <3> QED BY <3>1 DEF HasRead
  <2>3. CASE b # c
    <3>1. c \in input.blocks /\ c.kind # "sc" /\ pos' \in Int
      BY <1>3, ToReadBlocks
    <3>2. b.first > pos => b.first > pos'
      BY <3>1, <2>1, <2>3, <1>2, InsideBlock
    <3>3. b.first <= pos
      BY <3>2, <1>2, <1>3, <1>9, <2>1
    <3>4. PICK i \in DOMAIN read : read[i].at = b.first
      BY <2>1, <3>3 DEF ReadInv, HasRead
    <3>5. i \in DOMAIN read' /\ read'[i].at = b.first
      BY <3>4, <1>3, <1>5 DEF n
    <3> QED BY <3>5 DEF HasRead
  <2> QED BY <2>2, <2>3
<1> QED BY <1>7, <1>8, <1>9 DEF ReadInv

(* What was recorded stays recorded when events are built. *)
LEMMA SlowKept ==
  ASSUME SlowInv, input' = input,
         \A b \in input.blocks : Recorded(b) => Recorded(b)',
         \A b \in input.blocks : b.kind = "sc" /\ ~(b.first <= pos /\ pos < b.last) =>
           /\ ~(b.first <= pos' /\ pos' < b.last)
           /\ b.last <= pos' => b.last <= pos \/ Recorded(b)'
  PROVE  SlowInv'
BY DEF SlowInv

LEMMA RecordedKept ==
  ASSUME slowcontrol' = slowcontrol, attached' = attached, NEW b
  PROVE  Recorded(b)' <=> Recorded(b)
BY DEF Recorded, HoldsBody

LEMMA RecordedBuilt ==
  ASSUME Build, NEW b, Recorded(b)
  PROVE  Recorded(b)'
<1>1. PICK chunk \in attached \cup {slowcontrol} : HoldsBody(chunk, b)
  BY DEF Recorded
<1>2. chunk \in attached' \cup {slowcontrol'}
  BY DEF Build
<1> QED BY <1>1, <1>2 DEF Recorded, HoldsBody

(* The conditions of a stream do not change within a run. *)
LEMMA ParserStep ==
  ASSUME ParserTypes', input' = input, Clean => ReadInv' /\ LeftInv' /\ SlowInv'
  PROVE  ParserInv'
<1>1. Clean' <=> Clean
  BY DEF Clean, StreamPair, Stream
<1> QED BY <1>1 DEF ParserInv
-----------------------------------------------------------------------------
(* Types. *)
LEMMA MovedTypes ==
  ASSUME ParserTypes, input' = input, arrived' = arrived, read' = read,
         pos' \in Nat, pos' <= arrived, state' \in {"DONE", "SLOWCONTROL"},
         pc' \in {"wait", "scan"}, slowcontrol' \in Seq(Nat), attached' \subseteq Seq(Nat)
  PROVE  ParserTypes'
BY DEF ParserTypes, Stream

LEMMA TookTypes ==
  ASSUME ParserTypes, NEW n \in Nat, n <= bufsize, NEW kind \in Kinds, Took(kind, n)
  PROVE  ParserTypes'
<1>1. /\ pos \in Nat /\ arrived \in Nat /\ pos' = pos + n /\ n <= arrived - pos
  BY DEF ParserTypes, Took, bufsize
<1>2. pos' \in Nat /\ pos' <= arrived
  BY <1>1
<1>3. read' \in Seq([kind : Kinds, at : Nat])
  <2>1. [kind |-> kind, at |-> pos + 1] \in [kind : Kinds, at : Nat]
    BY <1>1
  <2> QED BY <2>1, AppendProperties DEF ParserTypes, Took
<1> QED BY <1>2, <1>3 DEF ParserTypes, Took, Stream

(* The block c is read. *)
LEMMA TookInv ==
  ASSUME ParserTypes, ReadInv, SlowInv, pc = "scan",
         NEW c \in ToRead, c.first = pos + 1,
         NEW n \in Nat, 0 < n, pos + n <= c.last, Took(c.kind, n)
  PROVE  ReadInv' /\ LeftInv' /\ SlowInv'
<1>1. pos \in Nat /\ input \in Inputs
  BY DEF ParserTypes
<1>2. pos' = pos + n /\ pos' \in Nat /\ pos' \in Int /\ pos < pos' /\ pos' <= c.last
  BY <1>1 DEF Took
<1>3. /\ input' = input /\ pc' = "scan" /\ slowcontrol' = slowcontrol /\ attached' = attached
      /\ read' = Append(read, [kind |-> c.kind, at |-> pos + 1])
  BY DEF Took
<1>4. ReadInv'
  BY <1>2, <1>3, ReadTaken
<1>5. LeftInv'
  BY <1>3 DEF LeftInv
<1>6. SlowInv'
  <2>1. c \in input.blocks /\ c.kind # "sc"
    BY <1>1, ToReadBlocks
  <2>2. \A b \in input.blocks : b.kind = "sc" /\ ~(b.first <= pos /\ pos < b.last)
          => ~(b.first <= pos' /\ pos' < b.last) /\ (b.last <= pos' => b.last <= pos)
    BY <2>1, <1>2, InsideBlock
  <2>3. \A b \in input.blocks : Recorded(b) => Recorded(b)'
    BY <1>3, RecordedKept
  <2> QED BY <1>3, <2>2, <2>3, SlowKept
<1> QED BY <1>4, <1>5, <1>6

(* Bytes of the block c are erased, which is not to be read. *)
LEMMA InsideInv ==
  ASSUME ParserTypes, ReadInv, SlowInv,
         NEW c \in input.blocks, c \notin ToRead, c.kind # "sc", c.first = pos + 1,
         pos' \in Nat, pos < pos', pos' <= c.last,
         input' = input, read' = read, slowcontrol' = slowcontrol, attached' = attached
  PROVE  ReadInv' /\ SlowInv'
<1>1. pos \in Nat /\ input \in Inputs /\ pos' \in Int /\ pos <= pos'
  BY DEF ParserTypes
<1>2. /\ \A b \in input.blocks : b # c /\ b.first > pos => b.first > pos'
      /\ \A b \in input.blocks : b.kind = "sc" /\ ~(b.first <= pos /\ pos < b.last)
          => ~(b.first <= pos' /\ pos' < b.last) /\ (b.last <= pos' => b.last <= pos)
  BY <1>1, InsideBlock
<1>3. \A b \in ToRead : b \in input.blocks /\ b # c
  BY DEF ToRead
<1>4. ReadInv'
  <2>1. \A b \in ToRead : b.first > pos => b.first > pos'
    BY <1>2, <1>3
  <2> QED BY <1>1, <2>1, ReadKept
<1>5. SlowInv'
  <2>1. \A b \in input.blocks : Recorded(b) => Recorded(b)'
    BY RecordedKept
  <2> QED BY <1>2, <2>1, SlowKept
<1> QED BY <1>4, <1>5

(* Nothing is erased. *)
LEMMA StayInv ==
  ASSUME ParserTypes, ReadInv, SlowInv, input' = input, read' = read, pos' = pos,
         \A b \in input.blocks : Recorded(b) => Recorded(b)'
  PROVE  ReadInv' /\ SlowInv'
<1>1. ReadInv'
  <2>1. pos \in Nat /\ \A b \in ToRead : b.first \in Nat
    BY ToReadBlocks DEF ParserTypes
  <2> QED BY <2>1, ReadKept
<1> QED BY <1>1, SlowKept

(* The block at the begin of the buffer is not whole. *)
LEMMA LeftBlock ==
  ASSUME ParserTypes, NEW c \in input.blocks, c.first = pos + 1,
         c.last > arrived \/ (c.kind = "hv" /\ c.last = arrived),
         input' = input, pos' = pos, arrived' = arrived
  PROVE  LeftInv'
<1> SUFFICES ASSUME NEW b \in ToRead', b.first > pos', Arrived(b)'
             PROVE  FALSE
  BY DEF LeftInv
<1>1. pos \in Nat /\ arrived \in Nat /\ input \in Inputs
  BY DEF ParserTypes
<1>2. b \in ToRead
  BY DEF ToRead
<1>3. b \in input.blocks /\ b.first \in Nat /\ b.last \in Nat /\ b.first < b.last
  BY <1>1, <1>2, ToReadBlocks
<1>4. /\ b.last + (IF b.kind = "hv" THEN 1 ELSE 0) <= arrived
  BY DEF Arrived
<1>5. c.first \in Nat /\ c.last \in Nat /\ c.last >= arrived
  <2>1. Stream \in Seq(0 .. 255) /\ Len(Stream) \in Nat
    BY <1>1, BlockBytes, LenProperties
  <2>2. c.first \in 1 .. Len(Stream) /\ c.last \in 1 .. Len(Stream)
    BY <1>1, BlockBytes
  <2> QED BY <2>1, <2>2, <1>1
<1>6. CASE b = c
  BY <1>1, <1>4, <1>5, <1>6
<1>7. CASE b # c
  <2>1. b.last < c.first \/ c.last < b.first
    BY <1>1, <1>3, <1>7, BlocksDisjoint
  <2>2. b.last <= arrived
    BY <1>1, <1>3, <1>4
  <2> QED BY <1>1, <1>3, <1>5, <2>1, <2>2
<1> QED BY <1>6, <1>7
-----------------------------------------------------------------------------
(* The actions of Read. *)
LEMMA LedLayers ==
  ASSUME NEW layerN \in Nat
  PROVE  (CHOOSE k \in 0 .. layerN :
            /\ k = layerN \/ buf(4 * k + 2) = MagicData[1]
            /\ \A j \in 0 .. k - 1 : buf(4 * j + 2) # MagicData[1]) \in 0 .. layerN
<1> DEFINE S == {k \in 0 .. layerN : k = layerN \/ buf(4 * k + 2) = MagicData[1]}
           Ends(k) == /\ k = layerN \/ buf(4 * k + 2) = MagicData[1]
                      /\ \A j \in 0 .. k - 1 : buf(4 * j + 2) # MagicData[1]
<1>1. S \in SUBSET Nat /\ S # {}
  OBVIOUS
<1>2. PICK k \in S : \A x \in S : k <= x
  BY <1>1, LeastExists
<1>3. Ends(k)
  <2> SUFFICES ASSUME NEW j \in 0 .. k - 1, buf(4 * j + 2) = MagicData[1] PROVE FALSE
    BY <1>2
  <2>1. j \in S /\ j < k
    BY <1>2
  <2> QED BY <1>1, <1>2, <2>1
<1>4. \E x \in 0 .. layerN : Ends(x)
  BY <1>2, <1>3
<1> HIDE DEF Ends
<1>5. (CHOOSE x \in 0 .. layerN : Ends(x)) \in 0 .. layerN
  BY <1>4
<1> QED BY <1>5 DEF Ends

LEMMA ReadLedInv ==
  ASSUME ParserInv, ReadLed
  PROVE  ParserInv'
<1> DEFINE layerN == buf(2)
           Ends(k) == /\ k = layerN \/ buf(4 * k + 2) = MagicData[1]
                      /\ \A j \in 0 .. k - 1 : buf(4 * j + 2) # MagicData[1]
           layers == CHOOSE k \in 0 .. layerN : Ends(k)
<1>0. ParserTypes
  BY DEF ParserInv
<1>1. /\ pc = "scan" /\ bufsize >= 8 /\ PairAt(0) = MagicLed
      /\ input' = input /\ arrived' = arrived
      /\ IF bufsize < 3 + layerN * 4
         THEN IncompleteInfo /\ UNCHANGED <<pos, state, slowcontrol>>
         ELSE Took("led", 4 * layers + 1)
  BY DEF ReadLed, Scanning, MinSize, IncompleteInfo, Took
<1>2. /\ input \in Inputs /\ pos \in Nat /\ arrived \in Nat /\ bufsize = arrived - pos
      /\ layerN \in Nat /\ layerN = Stream[pos + 1 + 2]
  BY <1>0, <1>1, Buffer
<1>3. layers \in 0 .. layerN
  BY <1>2, LedLayers
<1>4. ASSUME Clean
      PROVE  \E c \in ToRead : c.kind = "led" /\ c.first = pos + 1
                               /\ c.last = pos + 3 + 4 * layerN
  <2>1. PICK c \in input.blocks : c.kind # "junk" /\ c.first = pos + 1 + 0
                                  /\ StreamPair(c.first) = PairAt(0)
    BY <1>0, <1>1, <1>2, <1>4, BlockBegins
  <2>2. c.kind = "led" /\ c.first = pos + 1
    <3>1. c.kind # "junk" /\ StreamPair(c.first) = MagicLed /\ c.first = pos + 1
      BY <1>1, <1>2, <2>1
    <3>2. StreamPair(c.first) = MagicLed <=> c.kind = "led"
      BY <1>2, <3>1, KindAtMagic
    <3> QED BY <3>1, <3>2
  <2>3. c.last = c.first + 2 + 4 * Stream[c.first + 2]
    BY <1>2, <2>2, BlockForm
  <2>4. c.first + 2 = pos + 1 + 2
    BY <1>2, <2>2
  <2>5. c.last = (pos + 1) + 2 + 4 * layerN
    BY <1>2, <2>2, <2>3, <2>4
  <2>6. c.last = pos + 3 + 4 * layerN
    <3> HIDE DEF layerN
    <3> QED BY <1>2, <2>5
  <2> QED BY <2>2, <2>6 DEF ToRead
<1> HIDE DEF layerN, layers
<1>5. CASE bufsize < 3 + layerN * 4
  <2>1. /\ pc' = "wait" /\ pos' = pos /\ state' = state /\ slowcontrol' = slowcontrol
        /\ attached' = attached /\ read' = read
    BY <1>1, <1>5 DEF IncompleteInfo
  <2>2. ParserTypes'
    BY <1>0, <1>1, <2>1, MovedTypes DEF ParserTypes
  <2>3. ASSUME Clean
        PROVE  ReadInv' /\ LeftInv' /\ SlowInv'
    <3>1. ReadInv /\ SlowInv
      BY <2>3 DEF ParserInv
    <3>2. ReadInv' /\ SlowInv'
      BY <1>0, <1>1, <2>1, <3>1, StayInv, RecordedKept
    <3>3. PICK c \in ToRead : c.kind = "led" /\ c.first = pos + 1
                              /\ c.last = pos + 3 + 4 * layerN
      BY <2>3, <1>4
    <3>4. c \in input.blocks /\ c.last > arrived
      BY <1>2, <1>5, <3>3 DEF ToRead
    <3> QED BY <1>0, <1>1, <2>1, <3>2, <3>3, <3>4, LeftBlock
  <2> QED BY <1>1, <2>2, <2>3, ParserStep
<1>6. CASE ~(bufsize < 3 + layerN * 4)
  <2> DEFINE n == 4 * layers + 1
  <2>1. n \in Nat /\ 0 < n /\ n <= bufsize /\ n <= 3 + 4 * layerN
    BY <1>2, <1>3, <1>6
  <2>2. Took("led", n)
    BY <1>1, <1>6
  <2> HIDE DEF n
  <2>3. ParserTypes'
    <3>1. "led" \in Kinds
      BY DEF Kinds
    <3> QED BY <1>0, <2>1, <2>2, <3>1, TookTypes
  <2>4. ASSUME Clean
        PROVE  ReadInv' /\ LeftInv' /\ SlowInv'
    <3>1. ReadInv /\ SlowInv
      BY <2>4 DEF ParserInv
    <3>2. PICK c \in ToRead : c.kind = "led" /\ c.first = pos + 1
                              /\ c.last = pos + 3 + 4 * layerN
      BY <2>4, <1>4
    <3>3. pos + n <= c.last
      BY <1>2, <2>1, <3>2
    <3>4. Took(c.kind, n)
      BY <2>2, <3>2
    <3> QED BY <1>0, <1>1, <2>1, <3>1, <3>2, <3>3, <3>4, TookInv
  <2> QED BY <1>1, <2>3, <2>4, ParserStep
<1> QED BY <1>5, <1>6
(* What is recorded of a slow control block. *)
LEMMA PlacesAre ==
  ASSUME pos \in Nat, NEW i \in Nat, NEW j \in Nat, i <= j
  PROVE  /\ Places(i, j) \in Seq(Nat) /\ Len(Places(i, j)) = j - i
         /\ \A k \in 1 .. j - i : Places(i, j)[k] = pos + i + k
<1>1. j - i \in Nat /\ \A k \in 1 .. j - i : pos + i + k \in Nat
  OBVIOUS
<1> DEFINE n == j - i
<1> HIDE DEF n
<1>2. [k \in 1 .. n |-> pos + i + k] \in [1 .. n -> Nat]
  BY <1>1 DEF n
<1>3. n \in Nat
  BY <1>1 DEF n
<1> QED BY <1>2, <1>3 DEF Places, n

LEMMA HoldsAppended ==
  ASSUME NEW s \in Seq(Nat), NEW t \in Seq(Nat), NEW b, b.first \in Nat, b.last \in Nat,
         b.first < b.last, HoldsBody(s, b)
  PROVE  HoldsBody(s \o t, b)
<1> DEFINE n == b.last - b.first - 1
<1>1. n \in Nat /\ Len(s) \in Nat /\ Len(t) \in Nat
  BY LenProperties
<1>2. PICK i \in 0 .. Len(s) - n : \A k \in 1 .. n : s[i + k] = b.first + 1 + k
  BY DEF HoldsBody
<1> HIDE DEF n
<1>3. i \in 0 .. Len(s \o t) - n
  BY <1>1, ConcatProperties
<1>4. ASSUME NEW k \in 1 .. n
      PROVE  (s \o t)[i + k] = b.first + 1 + k
  <2>1. i + k \in 1 .. Len(s) + Len(t) /\ i + k <= Len(s)
    BY <1>1, <1>2
  <2>2. (s \o t)[i + k] = s[i + k]
    BY <2>1, ConcatProperties
  <2> QED BY <1>2, <2>2
<1> QED BY <1>3, <1>4 DEF HoldsBody, n

LEMMA HoldsPlaces ==
  ASSUME pos \in Nat, NEW i \in Nat, NEW j \in Nat, i <= j, NEW s \in Seq(Nat),
         NEW b, b.first \in Nat, b.last \in Nat, b.first < b.last,
         pos + i <= b.first + 1, b.last <= pos + j
  PROVE  HoldsBody(s \o Places(i, j), b)
<1> DEFINE n == b.last - b.first - 1
           t == Places(i, j)
           d == b.first + 1 - pos - i
           f == b.first
<1>1. /\ t \in Seq(Nat) /\ Len(t) = j - i
      /\ \A k \in 1 .. j - i : t[k] = pos + i + k
  BY PlacesAre
<1>2. /\ n \in Nat /\ d \in Nat /\ Len(s) \in Nat /\ d + n <= j - i /\ f \in Nat
      /\ pos + i + d = f + 1
  BY LenProperties
<1> HIDE DEF n, t, d, f
<1>3. /\ Len(s \o t) = Len(s) + (j - i)
      /\ \A k \in 1 .. Len(s) + (j - i) :
           (s \o t)[k] = IF k <= Len(s) THEN s[k] ELSE t[k - Len(s)]
  BY <1>1, ConcatProperties
<1>4. Len(s) + d \in 0 .. Len(s \o t) - n
  BY <1>2, <1>3
<1>5. ASSUME NEW k \in 1 .. n
      PROVE  (s \o t)[Len(s) + d + k] = f + 1 + k
  <2>1. /\ Len(s) + d + k \in 1 .. Len(s) + (j - i) /\ ~(Len(s) + d + k <= Len(s))
        /\ (Len(s) + d + k) - Len(s) = d + k /\ d + k \in 1 .. j - i
    BY <1>2
  <2>2. (s \o t)[Len(s) + d + k] = t[d + k]
    BY <1>3, <2>1
  <2>3. t[d + k] = pos + i + (d + k)
    BY <1>1, <2>1
  <2> QED BY <1>2, <2>2, <2>3
<1> QED BY <1>4, <1>5 DEF HoldsBody, n, t, f

LEMMA LeastIs ==
  ASSUME NEW S \in SUBSET Nat, S # {}
  PROVE  Min(S) \in S /\ \A x \in S : Min(S) <= x
BY LeastExists DEF Min

LEMMA ReadSlowcontrolInv ==
  ASSUME ParserInv, ReadSlowcontrol
  PROVE  ParserInv'
<1> DEFINE first == IF state = "SLOWCONTROL" THEN 0 ELSE 2
           stops == {i \in first .. bufsize - 1 : AnotherMagic(i)}
           stop  == IF stops = {} THEN bufsize - 1 ELSE Min(stops)
<1>0. ParserTypes
  BY DEF ParserInv
<1>1. /\ pc = "scan" /\ bufsize >= 8 /\ (first = 0 \/ PairAt(0) = MagicSc)
      /\ slowcontrol' = slowcontrol \o Places(first, stop)
      /\ IF stops = {} THEN SlowIncomplete(stop) ELSE SlowEnds(stop)
  BY DEF ReadSlowcontrol, Scanning, MinSize
<1>2. /\ input \in Inputs /\ pos \in Nat /\ arrived \in Nat /\ bufsize = arrived - pos
      /\ bufsize \in Nat /\ first \in {0, 2}
      /\ buf(0) = Stream[pos + 1 + 0] /\ buf(1) = Stream[pos + 1 + 1]
  BY <1>0, <1>1, Buffer
<1>3. /\ stop \in Nat /\ first <= stop /\ stop <= bufsize - 1
      /\ stops # {} => stop \in stops /\ \A x \in stops : stop <= x
  <2>1. CASE stops = {}
    BY <1>1, <1>2, <2>1
  <2>2. CASE stops # {}
    <3>1. stops \in SUBSET Nat
      BY <1>2
    <3>2. Min(stops) \in stops /\ \A x \in stops : Min(stops) <= x
      BY <2>2, <3>1, LeastIs
    <3> QED BY <1>2, <2>2, <3>2
  <2> QED BY <2>1, <2>2
<1>4. ASSUME NEW x
      PROVE  x \in stops <=> x \in first .. bufsize - 1 /\ AnotherMagic(x)
  OBVIOUS
<1> HIDE DEF first, stops, stop
<1>5. /\ input' = input /\ arrived' = arrived /\ attached' = attached /\ read' = read
      /\ stops = {} => pc' = "wait" /\ pos' = pos /\ state' = "SLOWCONTROL"
      /\ stops # {} => pc' = "scan" /\ pos' = pos + stop /\ state' = "DONE"
  BY <1>1 DEF SlowIncomplete, SlowEnds, IncompleteInfo
<1>6. pos' \in Nat /\ pos <= pos' /\ pos' <= arrived
  BY <1>2, <1>3, <1>5
<1>7. /\ slowcontrol \in Seq(Nat) /\ Places(first, stop) \in Seq(Nat)
      /\ slowcontrol' \in Seq(Nat)
  <2>1. slowcontrol \in Seq(Nat) /\ first \in Nat
    BY <1>0, <1>2 DEF ParserTypes
  <2>2. Places(first, stop) \in Seq(Nat)
    BY <1>2, <1>3, <2>1, PlacesAre
  <2> QED BY <1>1, <2>1, <2>2, ConcatProperties
<1>8. ParserTypes'
  <2>1. attached' \subseteq Seq(Nat)
    BY <1>0, <1>5 DEF ParserTypes
  <2> QED BY <1>0, <1>5, <1>6, <1>7, <2>1, <1>1, MovedTypes
<1>9. ASSUME NEW b \in input.blocks, b.kind = "sc"
      PROVE  b.first \in Nat /\ b.last \in Nat /\ b.first < b.last
  <2>1. Stream \in Seq(0 .. 255) /\ Len(Stream) \in Nat
    BY <1>2, BlockBytes, LenProperties
  <2>2. b.first \in 1 .. Len(Stream) /\ b.last \in 1 .. Len(Stream)
    BY <1>2, BlockBytes
  <2>3. b.first < b.last
    BY <1>2, <1>9, BlockForm
  <2> QED BY <2>1, <2>2, <2>3
<1>10. ASSUME NEW b \in input.blocks, b.kind = "sc", Recorded(b)
       PROVE  Recorded(b)'
  <2>1. PICK chunk \in attached \cup {slowcontrol} : HoldsBody(chunk, b)
    BY <1>10 DEF Recorded
  <2>2. CASE chunk \in attached
    <3>1. chunk \in attached' \cup {slowcontrol'}
      BY <1>5, <2>2
    <3> QED BY <2>1, <3>1 DEF Recorded, HoldsBody
  <2>3. CASE chunk = slowcontrol
    <3>1. HoldsBody(slowcontrol', b)
      BY <1>1, <1>7, <1>9, <1>10, <2>1, <2>3, HoldsAppended
    <3> QED BY <3>1 DEF Recorded, HoldsBody
  <2> QED BY <2>1, <2>2, <2>3
(* A block to be read that begins in the buffer is found. *)
<1>11. ASSUME NEW b \in ToRead, b.first > pos, b.first < arrived
       PROVE  b.first - pos - 1 \in stops
  <2> DEFINE i == b.first - pos - 1
  <2>1. b \in input.blocks /\ b.first \in Nat /\ b.kind \in {"led", "hv", "temp", "ts", "asic"}
    BY <1>2, ToReadBlocks
  <2>2. i \in Nat /\ i + 1 < bufsize /\ b.first = pos + 1 + i
    BY <1>2, <1>11, <2>1
  <2>3. StreamPair(b.first) \in {MagicData, MagicLed, MagicHv}
    BY <1>2, <2>1, BlockForm DEF PacketKinds
  <2> HIDE DEF i
  <2>4. PairAt(i) = StreamPair(b.first)
    <3>1. buf(i) = Stream[b.first]
      BY <1>0, <1>2, <2>2, Buffer
    <3>2. buf(i + 1) = Stream[b.first + 1]
      <4>1. pos + 1 + (i + 1) = b.first + 1
        BY <1>2, <2>2
      <4> QED BY <4>1 DEF buf
    <3> QED BY <3>1, <3>2 DEF PairAt, StreamPair
  <2>5. AnotherMagic(i)
    BY <2>2, <2>3, <2>4 DEF AnotherMagic
  <2>6. i >= first
    <3> SUFFICES ASSUME first = 2, i \in {0, 1} PROVE FALSE
      BY <1>2, <2>2
    <3>1. PairAt(0) = MagicSc
      BY <1>1
    <3>2. CASE i = 0
      BY <2>3, <2>4, <3>1, <3>2, MagicsDiffer
    <3>3. CASE i = 1
      <4>1. PairAt(1)[1] = buf(1) /\ PairAt(0)[2] = buf(1)
        <5>1. 0 + 1 = 1
          OBVIOUS
        <5> QED BY <5>1 DEF PairAt
      <4> QED BY <2>3, <2>4, <3>1, <3>3, <4>1, MagicsDiffer
    <3> QED BY <3>2, <3>3
  <2>7. i \in first .. bufsize - 1
    BY <1>2, <2>2, <2>6
  <2> QED BY <1>4, <2>5, <2>7 DEF i
<1>12. CASE stops = {}
  <2>1. ASSUME Clean
        PROVE  ReadInv' /\ LeftInv' /\ SlowInv'
    <3>1. ReadInv /\ SlowInv
      BY <2>1 DEF ParserInv
    <3>2. ReadInv'
      <4>1. \A b \in ToRead : b.first > pos => b.first > pos'
        BY <1>5, <1>12
      <4> QED BY <1>0, <1>5, <1>6, <3>1, <4>1, ReadKept
    <3>3. LeftInv'
      <4> SUFFICES ASSUME NEW b \in ToRead', b.first > pos', Arrived(b)'
                   PROVE  FALSE
        BY DEF LeftInv
      <4>1. b \in ToRead /\ b.first > pos
        BY <1>5, <1>12 DEF ToRead
      <4>2. b.first \in Nat
        BY <1>2, <4>1, ToReadBlocks
      <4>3. b.first < arrived
        BY <1>2, <1>5, <4>2 DEF Arrived, MinSize
      <4> QED BY <1>11, <1>12, <4>1, <4>3
    <3>4. SlowInv'
      BY <1>5, <1>10, <1>12, <3>1 DEF SlowInv
    <3> QED BY <3>2, <3>3, <3>4
  <2> QED BY <1>5, <1>8, <2>1, ParserStep
<1>13. CASE stops # {}
  <2>1. ASSUME Clean
        PROVE  ReadInv' /\ LeftInv' /\ SlowInv'
    <3>1. ReadInv /\ SlowInv
      BY <2>1 DEF ParserInv
    <3>2. /\ stop \in stops /\ stop \in Nat /\ stop + 1 < bufsize
          /\ PairAt(stop) \in {MagicData, MagicLed, MagicHv}
      BY <1>3, <1>4, <1>13 DEF AnotherMagic
    <3>3. ReadInv'
      <4>1. ASSUME NEW b \in ToRead, b.first > pos
            PROVE  b.first > pos'
        <5> SUFFICES ASSUME b.first <= pos + stop PROVE FALSE
          BY <1>2, <1>3, <1>5, <1>13, <1>2, ToReadBlocks
        <5>1. b.first \in Nat
          BY <1>2, ToReadBlocks
        <5>2. b.first < arrived
          BY <1>2, <3>2, <5>1
        <5>3. stop <= b.first - pos - 1
          BY <1>3, <1>11, <1>13, <4>1, <5>2
        <5> QED BY <1>2, <3>2, <5>1, <5>3
      <4> QED BY <1>0, <1>5, <1>6, <3>1, <4>1, ReadKept
    <3>4. LeftInv'
      BY <1>5, <1>13 DEF LeftInv
    <3>5. SlowInv'
      <4>1. PICK c \in input.blocks : c.kind # "junk" /\ c.first = pos + 1 + stop
                                      /\ StreamPair(c.first) = PairAt(stop)
        BY <1>0, <2>1, <3>2, BlockBegins
      <4>2. c.kind # "sc"
        BY <1>2, <3>2, <4>1, BlockForm, MagicsDiffer
      <4> SUFFICES ASSUME NEW b \in input.blocks, b.kind = "sc"
                   PROVE  /\ ~(b.first <= pos' /\ pos' < b.last)
                          /\ b.last <= pos' => Recorded(b)'
        BY <1>5 DEF SlowInv
      <4>3. b.last < c.first \/ c.last < b.first
        BY <1>2, <4>2, BlocksDisjoint
      <4>4. c.first <= c.last /\ c.last \in Nat /\ c.first \in Nat
        <5>1. Stream \in Seq(0 .. 255) /\ Len(Stream) \in Nat
          BY <1>2, BlockBytes, LenProperties
        <5> QED BY <1>2, <5>1, BlockBytes
      <4>5. b.first \in Nat /\ b.last \in Nat /\ b.first < b.last /\ pos' = pos + stop
        BY <1>5, <1>9, <1>13
      <4>6. ~(b.first <= pos' /\ pos' < b.last)
        BY <1>2, <3>2, <4>1, <4>3, <4>4, <4>5
      <4>7. ASSUME b.last <= pos'
            PROVE  Recorded(b)'
        <5>1. CASE b.last <= pos
          BY <1>10, <3>1, <5>1 DEF SlowInv
        <5>2. CASE ~(b.last <= pos)
          <6>1. ~(b.first <= pos /\ pos < b.last)
            BY <3>1 DEF SlowInv
          <6>2. b.first > pos
            BY <1>2, <4>5, <5>2, <6>1
          <6>3. /\ first \in Nat /\ stop \in Nat /\ first <= stop
                /\ pos + first <= b.first + 1 /\ b.last <= pos + stop
            BY <1>2, <1>3, <4>5, <4>7, <6>2
          <6>4. HoldsBody(slowcontrol', b)
            BY <1>1, <1>2, <1>7, <4>5, <6>3, HoldsPlaces
          <6> QED BY <6>4 DEF Recorded, HoldsBody
        <5> QED BY <5>1, <5>2
      <4> QED BY <4>6, <4>7
    <3> QED BY <3>3, <3>4, <3>5
  <2> QED BY <1>5, <1>8, <2>1, ParserStep
<1> QED BY <1>12, <1>13
-----------------------------------------------------------------------------
(* HV blocks. *)
LEMMA HvAt ==
  ASSUME ParserTypes, Clean, AtHv
  PROVE  \E c \in input.blocks :
           /\ c.first = pos + 1 /\ c.last \in Nat /\ c.first < c.last
           /\ \/ c.kind = "hv" /\ c.last = pos + 12 /\ PairAt(10) = Footer
              \/ c.kind = "broken hv" /\ (bufsize > 12 => PairAt(10) # Footer)
<1>1. /\ input \in Inputs /\ pos \in Nat /\ arrived \in Nat /\ bufsize = arrived - pos
      /\ Len(Stream) \in Nat /\ arrived <= Len(Stream)
      /\ bufsize >= 8 /\ PairAt(0) = MagicHv
  BY Buffer DEF AtHv, Scanning, MinSize
<1>2. PICK c \in input.blocks : c.kind # "junk" /\ c.first = pos + 1 + 0
                                /\ StreamPair(c.first) = PairAt(0)
  BY <1>1, BlockBegins
<1>3. c.kind # "junk" /\ StreamPair(c.first) = MagicHv /\ c.first = pos + 1
  BY <1>1, <1>2
<1>4. c.kind \in {"hv", "broken hv"}
  BY <1>1, <1>3, KindAtMagic
<1>5. c.last \in Nat /\ c.first < c.last
  <2>1. c.last \in 1 .. Len(Stream)
    BY <1>1, BlockBytes
  <2>2. c.first < c.last
    BY <1>1, <1>3, BlockForm
  <2> QED BY <1>1, <2>1, <2>2
<1>6. StreamPair(c.first + 10) = PairAt(10)
  <2>1. c.first + 10 = pos + 1 + 10 /\ c.first + 10 + 1 = pos + 1 + (10 + 1)
    BY <1>1, <1>3
  <2> QED BY <2>1 DEF StreamPair, PairAt, buf
<1>7. CASE c.kind = "hv"
  <2>1. c.last = c.first + 11 /\ StreamPair(c.first + 10) = Footer
    BY <1>1, <1>7, BlockForm
  <2>2. c.last = pos + 12
    BY <1>1, <1>3, <2>1
  <2> QED BY <1>3, <1>5, <1>6, <1>7, <2>1, <2>2
<1>8. CASE c.kind = "broken hv"
  <2>1. ASSUME bufsize > 12
        PROVE  PairAt(10) # Footer
    <3>1. c.first + 11 <= Len(Stream)
      BY <1>1, <1>3, <2>1
    <3> QED BY <1>6, <1>8, <3>1 DEF Clean
  <2> QED BY <1>3, <1>5, <1>8, <2>1
<1> QED BY <1>4, <1>7, <1>8

LEMMA ReadHvInv ==
  ASSUME ParserInv, ReadHv
  PROVE  ParserInv'
<1>1. /\ ParserTypes /\ AtHv /\ pc = "scan" /\ bufsize > 12 /\ PairAt(10) = Footer
      /\ Took("hv", 12) /\ input' = input
  BY DEF ParserInv, ReadHv, AtHv, Scanning, SizeHv, Took
<1>2. pos \in Nat /\ bufsize \in Nat
  BY <1>1, Buffer
<1>3. ParserTypes'
  <2>1. "hv" \in Kinds /\ 12 \in Nat /\ 12 <= bufsize
    BY <1>1, <1>2 DEF Kinds
  <2> QED BY <1>1, <2>1, TookTypes
<1>4. ASSUME Clean
      PROVE  ReadInv' /\ LeftInv' /\ SlowInv'
  <2>1. ReadInv /\ SlowInv
    BY <1>4 DEF ParserInv
  <2>2. PICK c \in input.blocks : c.first = pos + 1 /\ c.kind = "hv" /\ c.last = pos + 12
    BY <1>1, <1>4, HvAt
  <2>3. c \in ToRead /\ 12 \in Nat /\ 0 < 12 /\ pos + 12 <= c.last /\ Took(c.kind, 12)
    BY <1>1, <1>2, <2>2 DEF ToRead
  <2> QED BY <1>1, <2>1, <2>2, <2>3, TookInv
<1> QED BY <1>1, <1>3, <1>4, ParserStep

LEMMA HvIncompleteInv ==
  ASSUME ParserInv, HvIncomplete
  PROVE  ParserInv'
<1>1. /\ ParserTypes /\ AtHv
      /\ input' = input /\ arrived' = arrived /\ attached' = attached /\ read' = read
      /\ state' = state /\ slowcontrol' = slowcontrol /\ pc' = "wait"
      /\ \/ bufsize <= 12 /\ pos' = pos
         \/ bufsize > 12 /\ PairAt(10) # Footer /\ pos' = pos + 1
  BY DEF ParserInv, HvIncomplete, IncompleteInfo, SizeHv
<1>2. /\ input \in Inputs /\ pos \in Nat /\ arrived \in Nat /\ bufsize = arrived - pos
  BY <1>1, Buffer
<1>3. ParserTypes'
  <2>1. pos' \in Nat /\ pos' <= arrived
    BY <1>1, <1>2 DEF ParserTypes
  <2> QED BY <1>1, <2>1, MovedTypes DEF ParserTypes
<1>4. ASSUME Clean
      PROVE  ReadInv' /\ LeftInv' /\ SlowInv'
  <2>1. ReadInv /\ SlowInv
    BY <1>4 DEF ParserInv
  <2>2. PICK c \in input.blocks :
           /\ c.first = pos + 1 /\ c.last \in Nat /\ c.first < c.last
           /\ \/ c.kind = "hv" /\ c.last = pos + 12 /\ PairAt(10) = Footer
              \/ c.kind = "broken hv" /\ (bufsize > 12 => PairAt(10) # Footer)
    BY <1>1, <1>4, HvAt
  <2>3. CASE bufsize <= 12 /\ pos' = pos
    <3>1. ReadInv' /\ SlowInv'
      BY <1>1, <2>1, <2>3, StayInv, RecordedKept
    <3>2. CASE c.kind = "hv"
      <4>1. c.last > arrived \/ c.last = arrived
        BY <1>2, <2>2, <2>3, <3>2
      <4> QED BY <1>1, <2>2, <2>3, <3>1, <3>2, <4>1, LeftBlock
    <3>3. CASE c.kind = "broken hv"
      BY <1>1, <3>1, <3>3 DEF LeftInv
    <3> QED BY <2>2, <3>2, <3>3
  <2>4. CASE bufsize > 12 /\ PairAt(10) # Footer /\ pos' = pos + 1
    <3>1. c.kind = "broken hv"
      BY <2>2, <2>4
    <3>2. LeftInv'
      BY <1>1, <3>1 DEF LeftInv
    <3>3. pos' \in Nat /\ pos < pos' /\ pos' <= c.last
      <4>1. pos + 1 < c.last /\ c.last \in Nat
        BY <2>2
      <4> QED BY <1>2, <2>4, <4>1
    <3>4. c \notin ToRead /\ c.kind # "sc"
      BY <3>1 DEF ToRead
    <3> QED BY <1>1, <2>1, <2>2, <3>2, <3>3, <3>4, InsideInv
  <2> QED BY <1>1, <2>3, <2>4
<1> QED BY <1>1, <1>3, <1>4, ParserStep

LEMMA ThrowAwayInv ==
  ASSUME ParserInv, ThrowAway
  PROVE  ParserInv'
<1>1. /\ ParserTypes /\ pc = "scan" /\ bufsize >= 8
      /\ PairAt(0) \notin {MagicLed, MagicSc, MagicHv, MagicData}
      /\ pos' = pos + 1
      /\ input' = input /\ arrived' = arrived /\ attached' = attached /\ read' = read
      /\ state' = state /\ slowcontrol' = slowcontrol /\ pc' = pc
  BY DEF ParserInv, ThrowAway, Scanning, MinSize, Erase
<1>2. /\ input \in Inputs /\ pos \in Nat /\ arrived \in Nat /\ bufsize = arrived - pos
      /\ pos' \in Nat /\ pos <= pos' /\ pos' <= arrived
  BY <1>1, Buffer
<1>3. ParserTypes'
  BY <1>1, <1>2, MovedTypes DEF ParserTypes
<1>4. ASSUME NEW b \in input.blocks, b.kind \in {"sc", "led", "hv", "temp", "ts", "asic"}
      PROVE  /\ b.first \in Nat /\ b.last \in Nat /\ b.first < b.last
             /\ b.first # pos + 1
  <2>1. Stream \in Seq(0 .. 255) /\ Len(Stream) \in Nat
    BY <1>2, BlockBytes, LenProperties
  <2>2. b.first \in 1 .. Len(Stream) /\ b.last \in 1 .. Len(Stream)
    BY <1>2, BlockBytes
  <2>3. b.first < b.last
    BY <1>2, <1>4, BlockForm
  <2>4. StreamPair(b.first) \in {MagicLed, MagicSc, MagicHv, MagicData}
    BY <1>2, <1>4, BlockForm DEF PacketKinds
  <2>5. ASSUME b.first = pos + 1
        PROVE  FALSE
    <3>1. b.first = pos + 1 + 0 /\ b.first + 1 = pos + 1 + (0 + 1)
      BY <1>2, <2>5
    <3>2. StreamPair(b.first) = PairAt(0)
      BY <3>1 DEF StreamPair, PairAt, buf
    <3> QED BY <1>1, <2>4, <3>2
  <2> QED BY <2>1, <2>2, <2>3, <2>5
<1>5. ASSUME Clean
      PROVE  ReadInv' /\ LeftInv' /\ SlowInv'
  <2>1. ReadInv /\ SlowInv
    BY <1>5 DEF ParserInv
  <2>2. ReadInv'
    <3>1. \A b \in ToRead : b.first > pos => b.first > pos'
      <4> TAKE b \in ToRead
      <4>1. b \in input.blocks /\ b.kind \in {"sc", "led", "hv", "temp", "ts", "asic"}
        BY DEF ToRead
      <4>2. b.first \in Nat /\ b.first # pos + 1
        BY <1>4, <4>1
      <4> QED BY <1>1, <1>2, <4>2
    <3> QED BY <1>1, <1>2, <2>1, <3>1, ReadKept
  <2>3. LeftInv'
    BY <1>1 DEF LeftInv
  <2>4. SlowInv'
    <3>1. \A b \in input.blocks : b.kind = "sc" /\ ~(b.first <= pos /\ pos < b.last) =>
            ~(b.first <= pos' /\ pos' < b.last) /\ (b.last <= pos' => b.last <= pos)
      <4> SUFFICES ASSUME NEW b \in input.blocks, b.kind = "sc",
                          ~(b.first <= pos /\ pos < b.last)
                   PROVE  ~(b.first <= pos' /\ pos' < b.last) /\ (b.last <= pos' => b.last <= pos)
        OBVIOUS
      <4>1. b.first \in Nat /\ b.last \in Nat /\ b.first < b.last /\ b.first # pos + 1
        BY <1>4
      <4> QED BY <1>1, <1>2, <4>1
    <3>2. \A b \in input.blocks : Recorded(b) => Recorded(b)'
      BY <1>1, RecordedKept
    <3> QED BY <1>1, <2>1, <3>1, <3>2, SlowKept
  <2> QED BY <2>2, <2>3, <2>4
<1> QED BY <1>1, <1>3, <1>5, ParserStep
-----------------------------------------------------------------------------
(* LDA packets. *)
LEMMA PacketAt ==
  ASSUME ParserTypes, Clean, AtData
  PROVE  /\ length(Header) \in Nat
         /\ \E c \in input.blocks :
              /\ c.first = pos + 1 /\ c.last \in Nat /\ c.last >= pos + 14
              /\ c.last = pos + 10 + length(Header)
              /\ c.kind = PacketKind(Header) /\ c.kind \in PacketKinds
<1>1. /\ input \in Inputs /\ pos \in Nat /\ arrived \in Nat /\ bufsize = arrived - pos
      /\ Len(Stream) \in Nat /\ bufsize >= 8 /\ PairAt(0) = MagicData
  BY Buffer DEF AtData, Scanning, MinSize
<1>2. PICK c \in input.blocks : c.kind # "junk" /\ c.first = pos + 1 + 0
                                /\ StreamPair(c.first) = PairAt(0)
  BY <1>1, BlockBegins
<1>3. c.kind # "junk" /\ StreamPair(c.first) = MagicData /\ c.first = pos + 1
  BY <1>1, <1>2
<1>4. c.kind \in PacketKinds
  BY <1>1, <1>3, KindAtMagic
<1>5. /\ c.last >= c.first + 13 /\ c.last = c.first + 9 + length(HeaderAt(c.first))
      /\ c.kind = PacketKind(HeaderAt(c.first))
  BY <1>1, <1>4, BlockForm
<1>6. HeaderAt(c.first) = Header
  <2>1. \A i \in 1 .. MinPacket : c.first + i - 1 = pos + 1 + (i - 1)
    BY <1>1, <1>3 DEF MinPacket
  <2> QED BY <2>1 DEF HeaderAt, Header, buf
<1>7. c.last \in Nat
  <2>1. c.last \in 1 .. Len(Stream)
    BY <1>1, BlockBytes
  <2> QED BY <1>1, <2>1
<1>8. c.last = (pos + 1) + 9 + length(Header) /\ c.last >= (pos + 1) + 13
  BY <1>3, <1>5, <1>6
<1>9. length(Header) \in Nat
  <2>1. pos + 3 \in 1 .. Len(Stream) /\ pos + 4 \in 1 .. Len(Stream)
    <3>1. c.last <= Len(Stream)
      BY <1>1, BlockBytes
    <3> QED BY <1>1, <1>7, <1>8, <3>1
  <2>2. Stream[pos + 3] \in 0 .. 255 /\ Stream[pos + 4] \in 0 .. 255
    <3>1. Stream \in Seq(0 .. 255)
      BY <1>1, BlockBytes
    <3> QED BY <2>1, <3>1, ElementOfSeq
  <2>3. Header[3] = Stream[pos + 3] /\ Header[4] = Stream[pos + 4]
    <3>1. pos + 1 + (3 - 1) = pos + 3 /\ pos + 1 + (4 - 1) = pos + 4
      BY <1>1
    <3> QED BY <3>1 DEF Header, buf, MinPacket
  <2>4. \A x \in 0 .. 255 : x \in Nat
    BY BytesAreNat
  <2> DEFINE low == Header[3]
             high == Header[4]
  <2>5. low \in Nat /\ high \in Nat
    BY <2>2, <2>3, <2>4
  <2> HIDE DEF low, high
  <2>6. high * 256 + low \in Nat
    BY <2>5
  <2> QED BY <2>6 DEF length, low, high
<1>10. c.last = pos + 10 + length(Header) /\ c.last >= pos + 14
  <2> DEFINE n == length(Header)
  <2>1. n \in Nat /\ c.last = (pos + 1) + 9 + n
    BY <1>8, <1>9
  <2> HIDE DEF n
  <2>2. c.last = pos + 10 + n
    BY <1>1, <2>1
  <2> QED BY <1>1, <1>7, <1>8, <2>2 DEF n
<1> QED BY <1>3, <1>4, <1>5, <1>6, <1>7, <1>9, <1>10
LEMMA PacketErased ==
  ASSUME ParserTypes, PacketComplete
  PROVE  /\ length(Header) \in Nat
         /\ SizeLdaHeader + length(Header) \in Nat /\ 0 < SizeLdaHeader + length(Header)
         /\ SizeLdaHeader + length(Header) <= bufsize
<1>1. bufsize \in Nat /\ bufsize >= 14
  BY Buffer DEF PacketComplete, MinPacket
<1> DEFINE low == buf(2)
           high == buf(3)
<1>2. low \in Nat /\ high \in Nat
  BY <1>1, Buffer
<1>3. Header[3] = low /\ Header[4] = high
  <2>1. 3 - 1 = 2 /\ 4 - 1 = 3
    OBVIOUS
  <2> QED BY <2>1 DEF Header, MinPacket
<1>4. length(Header) = high * 256 + low
  BY <1>3 DEF length
<1> HIDE DEF low, high
<1> DEFINE n == high * 256 + low
<1>5. n \in Nat
  BY <1>2
<1>6. 10 + n <= bufsize
  BY <1>4 DEF PacketComplete, SizeLdaHeader
<1> HIDE DEF n
<1>7. 10 + n \in Nat /\ 0 < 10 + n
  BY <1>5
<1> QED BY <1>4, <1>5, <1>6, <1>7 DEF SizeLdaHeader, n

LEMMA ReadPacketInv ==
  ASSUME ParserInv, ReadPacket
  PROVE  ParserInv'
<1> DEFINE n == SizeLdaHeader + length(Header)
           kind == PacketKind(Header)
<1>1. /\ ParserTypes /\ AtData /\ PacketComplete /\ pc = "scan"
      /\ kind \in {"temp", "ts", "asic"} /\ Took(kind, n) /\ input' = input
  BY DEF ParserInv, ReadPacket, AtData, Scanning, Took
<1>2. n \in Nat /\ 0 < n /\ n <= bufsize /\ pos \in Nat
  BY <1>1, PacketErased, Buffer
<1>3. ParserTypes'
  <2>1. kind \in Kinds
    BY <1>1 DEF Kinds
  <2> HIDE DEF n, kind
  <2> QED BY <1>1, <1>2, <2>1, TookTypes
<1>4. ASSUME Clean
      PROVE  ReadInv' /\ LeftInv' /\ SlowInv'
  <2>1. ReadInv /\ SlowInv
    BY <1>4 DEF ParserInv
  <2>2. PICK c \in input.blocks : /\ c.first = pos + 1 /\ c.kind = kind
                                  /\ c.last = pos + 10 + length(Header)
    BY <1>1, <1>4, PacketAt
  <2>3. c.last = pos + n
    BY <1>1, <1>2, <2>2, PacketErased DEF SizeLdaHeader
  <2> HIDE DEF n, kind
  <2>4. c \in ToRead /\ c.first = pos + 1 /\ Took(c.kind, n)
    BY <1>1, <2>2 DEF ToRead
  <2>5. pos + n <= c.last
    BY <1>2, <2>3
  <2> QED BY <1>1, <1>2, <2>1, <2>4, <2>5, TookInv
<1> QED BY <1>1, <1>3, <1>4, ParserStep

(* A packet that is erased but not read. *)
LEMMA SkippedInv ==
  ASSUME ParserInv, AtData, NEW n \in Nat, 0 < n, n <= bufsize, Erase(n),
         PacketKind(Header) \in {"conf", "other", "invalid"},
         n <= 10 + length(Header)
  PROVE  ParserInv'
<1>1. /\ ParserTypes /\ pc = "scan" /\ pos' = pos + n
      /\ input' = input /\ arrived' = arrived /\ attached' = attached /\ read' = read
      /\ state' = state /\ slowcontrol' = slowcontrol /\ pc' = pc
  BY DEF ParserInv, AtData, Scanning, Erase
<1>2. /\ pos \in Nat /\ arrived \in Nat /\ bufsize = arrived - pos
      /\ pos' \in Nat /\ pos' <= arrived /\ pos < pos'
  BY <1>1, Buffer
<1>3. ParserTypes'
  BY <1>1, <1>2, MovedTypes DEF ParserTypes
<1>4. ASSUME Clean
      PROVE  ReadInv' /\ LeftInv' /\ SlowInv'
  <2>1. ReadInv /\ SlowInv
    BY <1>4 DEF ParserInv
  <2>2. PICK c \in input.blocks : /\ c.first = pos + 1 /\ c.kind = PacketKind(Header)
                                  /\ c.last \in Nat
                                  /\ c.last = pos + 10 + length(Header)
    BY <1>1, <1>4, PacketAt
  <2>3. c \notin ToRead /\ c.kind # "sc"
    BY <2>2 DEF ToRead
  <2>4. pos' <= c.last
    <3> DEFINE m == length(Header)
    <3>1. m \in Nat
      BY <1>1, <1>4, PacketAt
    <3>2. c.last = pos + 10 + m /\ n <= 10 + m
      BY <2>2
    <3> HIDE DEF m
    <3> QED BY <1>1, <1>2, <3>1, <3>2
  <2>5. ReadInv' /\ SlowInv'
    BY <1>1, <1>2, <2>1, <2>2, <2>3, <2>4, InsideInv
  <2>6. LeftInv'
    BY <1>1 DEF LeftInv
  <2> QED BY <2>5, <2>6
<1> QED BY <1>1, <1>3, <1>4, ParserStep

LEMMA DropPacketInv ==
  ASSUME ParserInv, DropPacket
  PROVE  ParserInv'
<1> DEFINE n == SizeLdaHeader + length(Header)
<1>1. /\ ParserTypes /\ AtData /\ PacketComplete
      /\ PacketKind(Header) \in {"conf", "other", "invalid"} /\ Erase(n)
  BY DEF ParserInv, DropPacket
<1>2. n \in Nat /\ 0 < n /\ n <= bufsize /\ n <= 10 + length(Header)
  BY <1>1, PacketErased DEF SizeLdaHeader
<1> HIDE DEF n
<1> QED BY <1>1, <1>2, SkippedInv

LEMMA HeaderInvalidInv ==
  ASSUME ParserInv, HeaderInvalid
  PROVE  ParserInv'
<1>1. /\ ParserTypes /\ AtData /\ PacketComplete
      /\ PacketKind(Header) \in {"conf", "other", "invalid"} /\ Erase(1)
  BY DEF ParserInv, HeaderInvalid
<1>2. 1 \in Nat /\ 0 < 1 /\ 1 <= bufsize /\ 1 <= 10 + length(Header)
  <2>1. bufsize \in Nat /\ bufsize >= 14
    BY <1>1, Buffer DEF PacketComplete, MinPacket
  <2> DEFINE m == length(Header)
  <2>2. m \in Nat
    BY <1>1, PacketErased
  <2> HIDE DEF m
  <2>3. 1 <= 10 + m
    BY <2>2
  <2> QED BY <2>1, <2>3 DEF m
<1> QED BY <1>1, <1>2, SkippedInv

LEMMA DataShortInv ==
  ASSUME ParserInv, DataShort
  PROVE  ParserInv'
<1>1. /\ ParserTypes /\ Build /\ pc' = "wait"
      /\ bufsize < 8 \/ (AtData /\ ~PacketComplete)
      /\ input' = input /\ pos' = pos /\ arrived' = arrived /\ state' = state /\ read' = read
  BY DEF ParserInv, DataShort, NeedMoreData, MinSize
<1>2. pos \in Nat /\ arrived \in Nat /\ bufsize = arrived - pos /\ input \in Inputs
  BY <1>1, Buffer
<1>3. ParserTypes'
  <2>1. slowcontrol' \in Seq(Nat) /\ attached' \subseteq Seq(Nat)
    <3>1. slowcontrol \in Seq(Nat) /\ attached \subseteq Seq(Nat) /\ <<>> \in Seq(Nat)
      BY <1>1, EmptySeq DEF ParserTypes
    <3>2. /\ slowcontrol' = slowcontrol \/ slowcontrol' = <<>>
          /\ attached' = attached \/ attached' = attached \cup {slowcontrol}
      BY <1>1 DEF Build
    <3> QED BY <3>1, <3>2
  <2> QED BY <1>1, <2>1, MovedTypes DEF ParserTypes
<1>4. ASSUME Clean
      PROVE  ReadInv' /\ LeftInv' /\ SlowInv'
  <2>1. ReadInv /\ SlowInv
    BY <1>4 DEF ParserInv
  <2>2. ReadInv' /\ SlowInv'
    BY <1>1, <2>1, StayInv, RecordedBuilt
  <2>3. CASE bufsize < 8
    <3> SUFFICES ASSUME NEW b \in ToRead', b.first > pos', Arrived(b)'
                 PROVE  FALSE
      BY <2>2 DEF LeftInv
    <3>1. b.first \in Nat
      BY <1>1, <1>2, ToReadBlocks DEF ToRead
    <3>2. b.first + 8 - 1 <= arrived
      BY <1>1 DEF Arrived, MinSize
    <3> QED BY <1>1, <1>2, <2>3, <3>1, <3>2
  <2>4. CASE AtData /\ ~PacketComplete
    <3>1. PICK c \in input.blocks : /\ c.first = pos + 1 /\ c.last \in Nat
                                    /\ c.last >= pos + 14
                                    /\ c.last = pos + 10 + length(Header)
      BY <1>1, <1>4, <2>4, PacketAt
    <3>2. length(Header) \in Nat
      BY <1>1, <1>4, <2>4, PacketAt
    <3>3. c.last > arrived
      <4> DEFINE m == length(Header)
      <4>1. bufsize < 14 \/ bufsize < 10 + m
        <5>1. ~(bufsize >= 14 /\ bufsize >= 10 + m)
          BY <2>4 DEF PacketComplete, MinPacket, SizeLdaHeader
        <5>2. m \in Nat
          BY <3>2
        <5> HIDE DEF m
        <5> QED BY <1>2, <5>1, <5>2
      <4>2. m \in Nat /\ c.last = pos + 10 + m
        BY <3>1, <3>2
      <4> HIDE DEF m
      <4> QED BY <1>2, <3>1, <4>1, <4>2
    <3> QED BY <1>1, <2>2, <3>1, <3>3, LeftBlock
  <2> QED BY <1>1, <2>2, <2>3, <2>4
<1> QED BY <1>1, <1>3, <1>4, ParserStep
-----------------------------------------------------------------------------
(* What arrives, and the next run. *)
LEMMA ReceiveInv ==
  ASSUME ParserInv, Receive
  PROVE  ParserInv'
<1>1. /\ ParserTypes /\ arrived' \in arrived + 1 .. Len(Stream) /\ pc' = "scan"
      /\ input' = input /\ pos' = pos /\ state' = state /\ read' = read
      /\ slowcontrol' = slowcontrol /\ attached' = attached
  BY DEF ParserInv, Receive
<1>2. ParserTypes'
  <2>1. pos \in Nat /\ arrived \in Nat /\ pos <= arrived /\ Len(Stream) \in Nat
    BY <1>1, Buffer DEF ParserTypes
  <2>2. arrived' \in Nat /\ pos <= arrived' /\ arrived' <= Len(Stream)
    BY <1>1, <2>1
  <2> QED BY <1>1, <2>1, <2>2 DEF ParserTypes, Stream
<1>3. ASSUME Clean
      PROVE  ReadInv' /\ LeftInv' /\ SlowInv'
  <2>1. ReadInv /\ SlowInv
    BY <1>3 DEF ParserInv
  <2>2. ReadInv' /\ SlowInv'
    BY <1>1, <2>1, StayInv, RecordedKept
  <2>3. LeftInv'
    BY <1>1 DEF LeftInv
  <2> QED BY <2>2, <2>3
<1> QED BY <1>1, <1>2, <1>3, ParserStep

LEMMA BlocksAfterBegin ==
  ASSUME NEW in \in Inputs, NEW b \in in.blocks
  PROVE  b.first \in Nat /\ b.last \in Nat /\ 1 <= b.first /\ b.first <= b.last
         /\ Len(in.bytes) \in Nat
<1>1. /\ in.bytes \in Seq(0 .. 255)
      /\ b \in [kind : Kinds, first : 1 .. Len(in.bytes), last : 1 .. Len(in.bytes)]
      /\ b.first <= b.last
  BY InputsAssumption
<1>2. Len(in.bytes) \in Nat
  BY <1>1, LenProperties
<1> QED BY <1>1, <1>2

LEMMA StreamLength ==
  ASSUME NEW in \in Inputs
  PROVE  Len(in.bytes) \in Nat
<1>1. in.bytes \in Seq(0 .. 255)
  BY InputsAssumption
<1> QED BY <1>1, LenProperties

LEMMA ParserInitInv ==
  ASSUME ParserInit
  PROVE  ParserInv
<1>1. ParserTypes
  BY StreamLength DEF ParserInit, ParserTypes, Stream
<1>2. \A b \in input.blocks : b.first > pos /\ b.last > pos /\ ~Arrived(b)
  BY BlocksAfterBegin DEF ParserInit, Arrived, MinSize
<1>3. ReadInv
  <2>1. read = <<>> /\ DOMAIN read = {}
    BY DEF ParserInit
  <2> QED BY <1>2, <2>1, BlocksAfterBegin DEF ParserInit, ReadInv, ToRead
<1>4. LeftInv
  BY <1>2 DEF LeftInv, ToRead
<1>5. SlowInv
  BY <1>2, BlocksAfterBegin DEF ParserInit, SlowInv
<1> QED BY <1>1, <1>3, <1>4, <1>5 DEF ParserInv

LEMMA NextRunInv ==
  ASSUME NextRun
  PROVE  ParserInv'
<1>1. /\ input' \in Inputs /\ pos' = 0 /\ arrived' = 0 /\ state' = "DONE" /\ pc' = "wait"
      /\ slowcontrol' = <<>> /\ attached' = {} /\ read' = <<>>
  BY DEF NextRun
<1>2. ParserTypes'
  BY <1>1, StreamLength DEF ParserTypes, Stream
<1>3. \A b \in input'.blocks : b.first > pos' /\ b.last > pos' /\ ~Arrived(b)'
  BY <1>1, BlocksAfterBegin DEF Arrived, MinSize
<1>4. ReadInv'
  <2>1. read' = <<>> /\ DOMAIN read' = {}
    BY <1>1
  <2> QED BY <1>1, <1>3, <2>1, BlocksAfterBegin DEF ReadInv, ToRead
<1>5. LeftInv'
  BY <1>3 DEF LeftInv, ToRead
<1>6. SlowInv'
  BY <1>1, <1>3, BlocksAfterBegin DEF SlowInv
<1> QED BY <1>2, <1>4, <1>5, <1>6 DEF ParserInv
-----------------------------------------------------------------------------
LEMMA ParserNextInv ==
  ASSUME ParserInv, [ParserNext]_parserVars
  PROVE  ParserInv'
<1>1. CASE Receive
  BY <1>1, ReceiveInv
<1>2. CASE NextRun
  BY <1>2, NextRunInv
<1>3. CASE ReadLed
  BY <1>3, ReadLedInv
<1>4. CASE ReadSlowcontrol
  BY <1>4, ReadSlowcontrolInv
<1>5. CASE ReadHv
  BY <1>5, ReadHvInv
<1>6. CASE HvIncomplete
  BY <1>6, HvIncompleteInv
<1>7. CASE ThrowAway
  BY <1>7, ThrowAwayInv
<1>8. CASE ReadPacket
  BY <1>8, ReadPacketInv
<1>9. CASE DropPacket
  BY <1>9, DropPacketInv
<1>10. CASE HeaderInvalid
  BY <1>10, HeaderInvalidInv
<1>11. CASE DataShort
  BY <1>11, DataShortInv
<1>12. CASE UNCHANGED parserVars
  <2>1. /\ input' = input /\ pos' = pos /\ arrived' = arrived /\ state' = state /\ pc' = pc
        /\ slowcontrol' = slowcontrol /\ attached' = attached /\ read' = read
    BY <1>12 DEF parserVars
  <2>2. ParserTypes'
    BY <2>1 DEF ParserInv, ParserTypes, Stream
  <2>3. ASSUME Clean
        PROVE  ReadInv' /\ LeftInv' /\ SlowInv'
    <3>1. ReadInv' /\ SlowInv'
      BY <2>1, <2>3, StayInv, RecordedKept DEF ParserInv
    <3>2. LeftInv'
      BY <2>1, <2>3 DEF ParserInv, LeftInv, ToRead, Arrived
    <3> QED BY <3>1, <3>2
  <2> QED BY <2>1, <2>2, <2>3, ParserStep
<1> QED BY <1>1, <1>2, <1>3, <1>4, <1>5, <1>6, <1>7, <1>8, <1>9, <1>10, <1>11, <1>12
        DEF ParserNext, Read

(* Whatever the pieces are in which TCP delivers a clean stream, Read reads every
   LDA packet, LED and HV block once, in order and at its first byte, and leaves
   none in the buffer that is whole. *)
THEOREM BlocksRead == ParserSpec => []EveryBlockRead
<1>1. ParserInv => EveryBlockRead
  <2> SUFFICES ASSUME ParserInv, Clean
               PROVE  /\ \A i \in DOMAIN read :
                           \E b \in ToRead : read[i] = [kind |-> b.kind, at |-> b.first]
                      /\ \A i, j \in DOMAIN read : i < j => read[i].at < read[j].at
                      /\ \A b, c \in ToRead : b.first < c.first /\ HasRead(c) => HasRead(b)
                      /\ pc = "wait" /\ (\A b \in input.blocks : b.kind # "broken hv")
                         => \A b \in ToRead : Arrived(b) => HasRead(b)
    BY DEF EveryBlockRead
  <2>1. ParserTypes /\ ReadInv /\ LeftInv
    BY DEF ParserInv
  <2>2. pos \in Nat /\ \A b \in ToRead : b.first \in Nat
    BY <2>1, ToReadBlocks DEF ParserTypes
  <2>3. \A b, c \in ToRead : b.first < c.first /\ HasRead(c) => HasRead(b)
    <3> SUFFICES ASSUME NEW b \in ToRead, NEW c \in ToRead, b.first < c.first, HasRead(c)
                 PROVE  HasRead(b)
      OBVIOUS
    <3>1. c.first <= pos
      BY <2>1 DEF ReadInv, HasRead
    <3>2. b.first <= pos
      BY <2>2, <3>1
    <3> QED BY <2>1, <3>2 DEF ReadInv
  <2>4. ASSUME pc = "wait", \A b \in input.blocks : b.kind # "broken hv",
               NEW b \in ToRead, Arrived(b)
        PROVE  HasRead(b)
    <3>1. ~(b.first > pos)
      BY <2>1, <2>4 DEF LeftInv
    <3>2. b.first <= pos
      BY <2>2, <3>1
    <3> QED BY <2>1, <3>2 DEF ReadInv
  <2> QED BY <2>1, <2>3, <2>4 DEF ReadInv
<1> QED BY <1>1, ParserInitInv, ParserNextInv, PTL DEF ParserSpec

-----------------------------------------------------------------------------
(* The slow control in pieces; nothing of this needs a clean stream. *)
Magics == {MagicData, MagicLed, MagicHv}

Recorder == slowcontrol[Len(slowcontrol)]

(* What is erased goes as far as another magic. *)
WholeInv ==
  /\ \A k \in DOMAIN slowcontrol : slowcontrol[k] <= pos
  /\ slowcontrol # <<>> => StreamPair(Recorder + 1) \in Magics

(* What a Read found a part of begins with its magic at the begin of the buffer. *)
PartInv ==
  /\ slowcontrol # <<>> /\ bufsize >= 8
  /\ \A k \in DOMAIN slowcontrol : slowcontrol[k] <= Recorder
  /\ pos + 1 <= Recorder /\ Recorder + 1 <= arrived
  /\ \E b \in split : Recorder \in b.first .. b.last
  /\ StreamPair(pos + 1) = MagicSc
  /\ \A i \in pos + 1 .. Recorder : StreamPair(i) \notin Magics

Joined(chunk) == \A k \in 1 .. Len(chunk) - 1 : Follows(chunk[k], chunk[k + 1])

ApartInv ==
  /\ \A chunk \in attached : \A k \in DOMAIN chunk : chunk[k] <= pos
  /\ \A chunk, other \in attached : chunk = other \/ Apart(chunk, other)
  /\ \A chunk \in attached : Apart(chunk, slowcontrol)

PieceInv ==
  /\ SplitAt(arrived) \subseteq split
  /\ ApartInv
  /\ \A chunk \in attached \cup {slowcontrol} : Joined(chunk)
  /\ state = "DONE" => WholeInv
  /\ state = "SLOWCONTROL" => PartInv

LEMMA JoinedKept ==
  ASSUME input' = input, split \subseteq split', NEW chunk, Joined(chunk)
  PROVE  Joined(chunk)'
<1> SUFFICES ASSUME NEW k \in 1 .. Len(chunk) - 1
             PROVE  Follows(chunk[k], chunk[k + 1])'
  BY DEF Joined
<1>1. Follows(chunk[k], chunk[k + 1])
  BY DEF Joined
<1> DEFINE p == chunk[k]
           q == chunk[k + 1]
<1>2. Follows(p, q)
  BY <1>1
<1> HIDE DEF p, q
<1>3. (\E b \in split : p \in b.first .. b.last) => \E b \in split' : p \in b.first .. b.last
  OBVIOUS
<1>4. \A i : StreamPair(i)' = StreamPair(i)
  BY DEF StreamPair, Stream
<1>5. Follows(p, q)'
  BY <1>2, <1>3, <1>4 DEF Follows
<1> QED BY <1>5 DEF p, q

(* The bytes of the slow control stay where they are. *)
LEMMA PiecesKept ==
  ASSUME ParserTypes, ParserTypes', PieceInv, input' = input, state' = state,
         slowcontrol' = slowcontrol, attached' = attached,
         state = "DONE" \/ pos' = pos, pos <= pos', arrived <= arrived',
         split \subseteq split', (SplitAt(arrived) \subseteq split)'
  PROVE  PieceInv'
<1>1. /\ pos \in Nat /\ arrived \in Nat /\ pos' \in Nat /\ arrived' \in Nat
      /\ slowcontrol \in Seq(Nat) /\ attached \subseteq Seq(Nat)
      /\ state \in {"DONE", "SLOWCONTROL"}
  BY DEF ParserTypes
<1>2. ApartInv'
  <2>1. \A chunk \in attached : \A k \in DOMAIN chunk : chunk[k] \in Nat
    BY <1>1
  <2>2. \A chunk \in attached : \A k \in DOMAIN chunk : chunk[k] <= pos'
    BY <1>1, <2>1 DEF PieceInv, ApartInv
  <2> QED BY <2>2 DEF PieceInv, ApartInv, Apart
<1>3. \A chunk \in attached' \cup {slowcontrol'} : Joined(chunk)'
  BY JoinedKept DEF PieceInv
<1>4. \A i : StreamPair(i)' = StreamPair(i)
  BY DEF StreamPair, Stream
<1>5. Recorder' = Recorder /\ \A k \in DOMAIN slowcontrol : slowcontrol[k] \in Nat
  BY <1>1 DEF Recorder
<1>6. CASE state = "DONE"
  <2>1. WholeInv
    BY <1>6 DEF PieceInv
  <2>2. \A k \in DOMAIN slowcontrol' : slowcontrol'[k] <= pos'
    BY <1>1, <1>5, <2>1 DEF WholeInv
  <2>3. slowcontrol' # <<>> => (StreamPair(Recorder + 1) \in Magics)'
    BY <1>4, <1>5, <2>1 DEF WholeInv, Magics, MagicData, MagicLed, MagicHv
  <2> QED BY <1>2, <1>3, <1>6, <2>2, <2>3 DEF PieceInv, WholeInv
<1>7. CASE state = "SLOWCONTROL"
  <2>1. PartInv /\ pos' = pos
    BY <1>7 DEF PieceInv
  <2>2. bufsize' >= 8 /\ (Recorder + 1 <= arrived)'
    <3>1. slowcontrol # <<>> /\ bufsize >= 8 /\ Recorder + 1 <= arrived
      BY <2>1 DEF PartInv
    <3>2. Recorder \in Nat
      BY <1>1, <3>1 DEF Recorder
    <3>3. bufsize' >= 8
      <4>1. arrived - pos >= 8
        BY <3>1 DEF bufsize
      <4>2. pos' = pos /\ arrived <= arrived'
        BY <2>1
      <4>3. arrived' - pos' >= 8
        <5>1. \A x, y, z \in Nat : x - y >= 8 /\ x <= z => z - y >= 8
          OBVIOUS
        <5>2. arrived' - pos >= 8
          BY <1>1, <4>1, <4>2, <5>1
        <5> QED BY <4>2, <5>2
      <4> QED BY <4>3 DEF bufsize
    <3>4. Recorder' + 1 <= arrived'
      BY <1>1, <1>5, <3>1, <3>2
    <3> QED BY <3>3, <3>4
  <2>3. (\E b \in split : Recorder \in b.first .. b.last)'
    BY <1>5, <2>1 DEF PartInv
  <2>4. (StreamPair(pos + 1) = MagicSc)'
    BY <1>4, <2>1 DEF PartInv, MagicSc
  <2>5. (\A i \in pos + 1 .. Recorder : StreamPair(i) \notin Magics)'
    BY <1>4, <1>5, <2>1 DEF PartInv, Magics, MagicData, MagicLed, MagicHv
  <2>6. PartInv'
    BY <1>5, <2>1, <2>2, <2>3, <2>4, <2>5 DEF PartInv
  <2> QED BY <1>2, <1>3, <1>7, <2>6 DEF PieceInv
<1> QED BY <1>1, <1>6, <1>7

(* Events are built. *)
LEMMA PiecesBuilt ==
  ASSUME ParserTypes, ParserTypes', PieceInv, state = "DONE", state' = state, Build, input' = input,
         pos' = pos, arrived' = arrived, split' = split
  PROVE  PieceInv'
<1>1. CASE UNCHANGED <<slowcontrol, attached>>
  <2>1. pos <= pos' /\ arrived <= arrived'
    BY DEF ParserTypes
  <2>2. (SplitAt(arrived) \subseteq split)'
    BY DEF PieceInv, SplitAt
  <2> QED BY <1>1, <2>1, <2>2, PiecesKept
<1>2. CASE slowcontrol # <<>> /\ slowcontrol' = <<>> /\ attached' = attached \cup {slowcontrol}
  <2>1. ApartInv /\ WholeInv
    BY DEF PieceInv
  <2>2. Len(<<>>) = 0 /\ DOMAIN <<>> = {}
    OBVIOUS
  <2>3. ApartInv'
    <3>1. \A chunk \in attached' : \A k \in DOMAIN chunk : chunk[k] <= pos'
      BY <1>2, <2>1 DEF ApartInv, WholeInv
    <3>2. \A chunk, other \in attached' : chunk = other \/ Apart(chunk, other)
      BY <1>2, <2>1 DEF ApartInv, Apart
    <3>3. \A chunk \in attached' : Apart(chunk, <<>>)
      BY <2>2 DEF Apart
    <3> QED BY <1>2, <3>1, <3>2, <3>3 DEF ApartInv, Apart
  <2>4. \A chunk \in attached' \cup {slowcontrol'} : Joined(chunk)'
    <3>1. \A chunk \in attached \cup {slowcontrol} : Joined(chunk)'
      BY JoinedKept DEF PieceInv
    <3>2. Joined(<<>>)'
      BY <2>2 DEF Joined
    <3> QED BY <1>2, <3>1, <3>2 DEF Joined
  <2>5. WholeInv'
    BY <1>2, <2>2 DEF WholeInv
  <2>6. (SplitAt(arrived) \subseteq split)'
    BY DEF PieceInv, SplitAt
  <2> QED BY <2>3, <2>4, <2>5, <2>6 DEF PieceInv
<1> QED BY <1>1, <1>2 DEF Build

LEMMA PlacesAppended ==
  ASSUME pos \in Nat, NEW i \in Nat, NEW j \in Nat, i <= j, NEW s \in Seq(Nat)
  PROVE  LET t == s \o Places(i, j) IN
         /\ t \in Seq(Nat) /\ Len(t) = Len(s) + (j - i) /\ DOMAIN t = 1 .. Len(t)
         /\ \A k \in 1 .. Len(t) :
              t[k] = IF k <= Len(s) THEN s[k] ELSE pos + i + (k - Len(s))
<1> DEFINE u == Places(i, j)
           t == s \o u
<1>1. u \in Seq(Nat) /\ Len(u) = j - i /\ \A k \in 1 .. j - i : u[k] = pos + i + k
  BY PlacesAre
<1>2. Len(s) \in Nat /\ j - i \in Nat
  BY LenProperties
<1> HIDE DEF u
<1>3. /\ t \in Seq(Nat) /\ Len(t) = Len(s) + (j - i)
      /\ \A k \in 1 .. Len(s) + (j - i) : t[k] = IF k <= Len(s) THEN s[k] ELSE u[k - Len(s)]
  <2>1. \A k \in 1 .. Len(s) + Len(u) : (s \o u)[k] = IF k <= Len(s) THEN s[k] ELSE u[k - Len(s)]
    BY <1>1, ConcatProperties
  <2>2. s \o u \in Seq(Nat) /\ Len(s \o u) = Len(s) + Len(u)
    BY <1>1, ConcatProperties
  <2> QED BY <1>1, <2>1, <2>2
<1> HIDE DEF t
<1>4. ASSUME NEW k \in 1 .. Len(t)
      PROVE  t[k] = IF k <= Len(s) THEN s[k] ELSE pos + i + (k - Len(s))
  <2>1. k \in Int /\ (k <= Len(s) \/ k - Len(s) \in 1 .. j - i)
    BY <1>2, <1>3
  <2> QED BY <1>1, <1>3, <2>1
<1>5. DOMAIN t = 1 .. Len(t)
  BY <1>3, LenProperties
<1> QED BY <1>3, <1>4, <1>5 DEF t, u

(* What ReadSlowcontrol does, by the place up to which it reads. *)
LEMMA SlowcontrolRead ==
  ASSUME ParserTypes, ReadSlowcontrol
  PROVE  \E first \in {0, 2}, stop \in Nat :
           /\ first <= stop /\ stop <= bufsize - 1 /\ bufsize >= 8
           /\ first = 0 <=> state = "SLOWCONTROL"
           /\ first = 2 => PairAt(0) = MagicSc
           /\ slowcontrol' = slowcontrol \o Places(first, stop)
           /\ \A i \in first .. stop - 1 : ~AnotherMagic(i)
           /\ \/ AnotherMagic(stop) /\ pos' = pos + stop /\ state' = "DONE"
              \/ stop = bufsize - 1 /\ pos' = pos /\ state' = "SLOWCONTROL"
<1> DEFINE first == IF state = "SLOWCONTROL" THEN 0 ELSE 2
           stops == {i \in first .. bufsize - 1 : AnotherMagic(i)}
           stop  == IF stops = {} THEN bufsize - 1 ELSE Min(stops)
<1>1. /\ bufsize >= 8 /\ (first = 0 \/ PairAt(0) = MagicSc)
      /\ slowcontrol' = slowcontrol \o Places(first, stop)
      /\ IF stops = {} THEN SlowIncomplete(stop) ELSE SlowEnds(stop)
  BY DEF ReadSlowcontrol, Scanning, MinSize
<1>2. bufsize \in Nat /\ first \in {0, 2} /\ (first = 0 <=> state = "SLOWCONTROL")
  BY Buffer
<1>3. ASSUME NEW x
      PROVE  x \in stops <=> x \in first .. bufsize - 1 /\ AnotherMagic(x)
  OBVIOUS
<1>4. CASE stops = {}
  <2>1. stop = bufsize - 1
    BY <1>4
  <2>2. pos' = pos /\ state' = "SLOWCONTROL"
    BY <1>1, <1>4 DEF SlowIncomplete
  <2> HIDE DEF first, stops, stop
  <2>3. /\ stop \in Nat /\ first <= stop
        /\ \A i \in first .. stop - 1 : i \in first .. bufsize - 1
    BY <1>1, <1>2, <2>1
  <2>4. \A i \in first .. stop - 1 : ~AnotherMagic(i)
    BY <1>3, <1>4, <2>3
  <2> first \in {0, 2} /\ stop \in Nat
    BY <1>2, <2>3
  <2> WITNESS first \in {0, 2}, stop \in Nat
  <2> QED BY <1>1, <1>2, <2>1, <2>2, <2>3, <2>4
<1>5. CASE stops # {}
  <2>1. stops \in SUBSET Nat
    BY <1>2
  <2>2. stop = Min(stops) /\ pos' = pos + stop /\ state' = "DONE"
    BY <1>1, <1>5 DEF SlowEnds
  <2> HIDE DEF first, stops, stop
  <2>3. stop \in stops /\ \A x \in stops : stop <= x
    BY <1>5, <2>1, <2>2, LeastIs
  <2>4. stop \in first .. bufsize - 1 /\ AnotherMagic(stop)
    BY <1>3, <2>3
  <2>5. stop \in Nat /\ first <= stop /\ stop <= bufsize - 1
    BY <1>2, <2>4
  <2>6. ASSUME NEW i \in first .. stop - 1, AnotherMagic(i)
        PROVE  FALSE
    <3>1. i \in first .. bufsize - 1 /\ ~(stop <= i)
      BY <1>2, <2>5
    <3> QED BY <1>3, <2>3, <2>6, <3>1
  <2> first \in {0, 2} /\ stop \in Nat
    BY <1>2, <2>5
  <2> WITNESS first \in {0, 2}, stop \in Nat
  <2> QED BY <1>1, <1>2, <2>2, <2>4, <2>5, <2>6
<1> QED BY <1>4, <1>5

(* In the buffer another magic is found where the stream has one. *)
LEMMA MagicFound ==
  ASSUME ParserTypes, NEW i \in Nat, i + 1 < bufsize
  PROVE  PairAt(i) = StreamPair(pos + 1 + i) /\ (AnotherMagic(i) <=> PairAt(i) \in Magics)
<1>1. pos \in Nat
  BY DEF ParserTypes
<1>2. buf(i) = Stream[pos + 1 + i] /\ buf(i + 1) = Stream[pos + 1 + (i + 1)]
  BY DEF buf
<1>3. pos + 1 + (i + 1) = (pos + 1 + i) + 1
  BY <1>1
<1> QED BY <1>2, <1>3 DEF PairAt, StreamPair, AnotherMagic, Magics

(* A piece is recorded that goes up to the place e. *)
LEMMA PieceRecorded ==
  ASSUME ParserTypes, PieceInv, input' = input, split' = split, attached' = attached,
         NEW q \in Nat, NEW e \in Nat, pos < q, q <= e, slowcontrol' \in Seq(Nat),
         Len(slowcontrol') = Len(slowcontrol) + (e - q + 1),
         \A k \in 1 .. Len(slowcontrol') :
           slowcontrol'[k] = IF k <= Len(slowcontrol) THEN slowcontrol[k]
                             ELSE q - 1 + (k - Len(slowcontrol)),
         \A k \in DOMAIN slowcontrol : slowcontrol[k] <= e,
         slowcontrol # <<>> => Follows(Recorder, q),
         pos' \in Nat, pos <= pos'
  PROVE  /\ ApartInv' /\ Joined(slowcontrol)'
         /\ slowcontrol' # <<>> /\ Recorder' = e
         /\ \A k \in DOMAIN slowcontrol' : slowcontrol'[k] <= e
<1> DEFINE s == slowcontrol
           t == slowcontrol'
<1>1. /\ pos \in Nat /\ attached \subseteq Seq(Nat) /\ s \in Seq(Nat) /\ t \in Seq(Nat)
  BY DEF ParserTypes
<1>2. /\ Len(s) \in Nat /\ DOMAIN s = 1 .. Len(s) /\ DOMAIN t = 1 .. Len(t) /\ Len(t) \in Nat
  BY <1>1, LenProperties
<1>3. Len(t) > Len(s)
  BY <1>2
<1>4. \A k \in 1 .. Len(s) : s[k] \in Nat
  BY <1>1, <1>2
<1>5. ASSUME NEW k \in 1 .. Len(t)
      PROVE  /\ k <= Len(s) => k \in 1 .. Len(s) /\ t[k] = s[k]
             /\ ~(k <= Len(s)) => t[k] = q - 1 + (k - Len(s)) /\ q <= t[k]
             /\ t[k] \in Nat /\ t[k] <= e
  <2>1. CASE k <= Len(s)
    <3>1. k \in 1 .. Len(s) /\ t[k] = s[k]
      BY <1>2, <2>1
    <3> QED BY <1>2, <1>4, <2>1, <3>1
  <2>2. CASE ~(k <= Len(s))
    <3>1. t[k] = q - 1 + (k - Len(s)) /\ k <= Len(s) + (e - q + 1)
      BY <1>2, <2>2
    <3> QED BY <1>2, <2>2, <3>1
  <2> QED BY <2>1, <2>2
<1>6. t # <<>>
  BY <1>2, <1>3
<1>7. Recorder' = e
  <2>1. Recorder' = t[Len(t)] /\ Len(t) \in 1 .. Len(t)
    BY <1>2, <1>3 DEF Recorder
  <2>2. t[Len(t)] = q - 1 + (Len(t) - Len(s))
    BY <1>2, <1>3, <1>5, <2>1
  <2> QED BY <1>2, <2>1, <2>2
<1>8. ApartInv'
  <2>1. ASSUME NEW chunk \in attached
        PROVE  (\A k \in DOMAIN chunk : chunk[k] <= pos') /\ Apart(chunk, t)
    <3>1. \A k \in DOMAIN chunk : chunk[k] \in Nat /\ chunk[k] <= pos
      BY <1>1, <2>1 DEF PieceInv, ApartInv
    <3>2. \A k \in DOMAIN chunk : chunk[k] <= pos'
      BY <1>1, <3>1
    <3>3. ASSUME NEW k \in DOMAIN chunk, NEW m \in DOMAIN t
          PROVE  chunk[k] # t[m]
      <4>1. CASE m <= Len(s)
        <5>1. m \in DOMAIN s /\ t[m] = s[m]
          BY <1>2, <1>5, <3>3, <4>1
        <5>2. Apart(chunk, s)
          BY <2>1 DEF PieceInv, ApartInv
        <5> QED BY <5>1, <5>2 DEF Apart
      <4>2. CASE ~(m <= Len(s))
        <5>1. q <= t[m] /\ t[m] \in Nat
          BY <1>2, <1>5, <3>3, <4>2
        <5>2. chunk[k] \in Nat /\ chunk[k] <= pos
          BY <3>1, <3>3
        <5> QED BY <1>1, <5>1, <5>2
      <4> QED BY <4>1, <4>2
    <3> QED BY <3>2, <3>3 DEF Apart
  <2>2. \A chunk, other \in attached' : chunk = other \/ Apart(chunk, other)
    BY DEF PieceInv, ApartInv
  <2>3. \A chunk \in attached' : Apart(chunk, t)
    BY <2>1
  <2>4. \A chunk \in attached' : \A k \in DOMAIN chunk : chunk[k] <= pos'
    BY <2>1
  <2> QED BY <2>2, <2>3, <2>4 DEF ApartInv, Apart
<1>9. Joined(slowcontrol)'
  <2> SUFFICES ASSUME NEW k \in 1 .. Len(t) - 1
               PROVE  Follows(slowcontrol[k], slowcontrol[k + 1])'
    BY DEF Joined
  <2>1. k \in 1 .. Len(t) /\ k + 1 \in 1 .. Len(t) /\ k \in Int
    BY <1>2
  <2>2. CASE k + 1 <= Len(s)
    <3>1. t[k] = s[k] /\ t[k + 1] = s[k + 1] /\ k \in 1 .. Len(s) - 1
      BY <1>2, <1>5, <2>1, <2>2
    <3>2. Follows(s[k], s[k + 1])
      BY <3>1 DEF PieceInv, Joined
    <3> QED BY <3>1, <3>2 DEF Follows, StreamPair, Stream
  <2>3. CASE k = Len(s)
    <3>1. t[k] = s[k] /\ t[k + 1] = q
      BY <1>2, <1>5, <2>1, <2>3
    <3>2. s # <<>> /\ s[k] = Recorder
      BY <1>2, <2>1, <2>3 DEF Recorder
    <3>3. Follows(t[k], t[k + 1])
      BY <3>1, <3>2
    <3> QED BY <3>3 DEF Follows, StreamPair, Stream
  <2>4. CASE k > Len(s)
    <3>1. ~(k <= Len(s)) /\ ~(k + 1 <= Len(s))
      BY <1>2, <2>1, <2>4
    <3>2. t[k] = q - 1 + (k - Len(s)) /\ t[k + 1] = q - 1 + (k + 1 - Len(s))
      BY <1>5, <2>1, <3>1
    <3>3. t[k + 1] = t[k] + 1
      BY <1>2, <2>1, <3>2
    <3> QED BY <3>3 DEF Follows
  <2>5. k + 1 <= Len(s) \/ k = Len(s) \/ k > Len(s)
    <3>1. \A x, y \in Int : x + 1 <= y \/ x = y \/ x > y
      OBVIOUS
    <3>2. k \in Int /\ Len(s) \in Int
      BY <1>2, <2>1
    <3> QED BY ONLY <3>1, <3>2
  <2> QED BY <2>2, <2>3, <2>4, <2>5
<1> QED BY <1>2, <1>5, <1>6, <1>7, <1>8, <1>9

LEMMA SlowcontrolPieces ==
  ASSUME ParserTypes, ParserTypes', PieceInv, ReadSlowcontrol
  PROVE  PieceInv'
<1>1. PICK first \in {0, 2}, stop \in Nat :
           /\ first <= stop /\ stop <= bufsize - 1 /\ bufsize >= 8
           /\ first = 0 <=> state = "SLOWCONTROL"
           /\ first = 2 => PairAt(0) = MagicSc
           /\ slowcontrol' = slowcontrol \o Places(first, stop)
           /\ \A i \in first .. stop - 1 : ~AnotherMagic(i)
           /\ \/ AnotherMagic(stop) /\ pos' = pos + stop /\ state' = "DONE"
              \/ stop = bufsize - 1 /\ pos' = pos /\ state' = "SLOWCONTROL"
  BY SlowcontrolRead
<1>2. /\ input' = input /\ arrived' = arrived /\ attached' = attached /\ split' = split
  BY DEF ReadSlowcontrol, SlowIncomplete, SlowEnds, IncompleteInfo
<1>3. /\ pos \in Nat /\ arrived \in Nat /\ bufsize = arrived - pos /\ bufsize \in Nat
      /\ pos' \in Nat /\ pos <= pos' /\ arrived <= Len(Stream) /\ Len(Stream) \in Nat
      /\ slowcontrol \in Seq(Nat) /\ slowcontrol' \in Seq(Nat)
      /\ state \in {"DONE", "SLOWCONTROL"} /\ input \in Inputs
  <2>1. pos' \in Nat /\ slowcontrol \in Seq(Nat) /\ slowcontrol' \in Seq(Nat)
        /\ state \in {"DONE", "SLOWCONTROL"}
    BY DEF ParserTypes
  <2>2. pos <= pos'
    BY <1>1, Buffer
  <2> QED BY <2>1, <2>2, Buffer
<1>4. /\ first = 0 => state = "SLOWCONTROL" /\ PartInv
      /\ first = 2 => state = "DONE" /\ WholeInv
  BY <1>1, <1>3 DEF PieceInv
<1>5. StreamPair(pos + 1) = MagicSc
  <2>1. CASE first = 0
    BY <1>4, <2>1 DEF PartInv
  <2>2. CASE first = 2
    <3>1. PairAt(0) = StreamPair(pos + 1 + 0)
      BY <1>1, <1>3, MagicFound
    <3> QED BY <1>1, <1>3, <2>2, <3>1
  <2> QED BY <2>1, <2>2
<1>6. StreamPair(pos + 1) \notin Magics /\ StreamPair(pos + 2) \notin Magics
  <2>1. StreamPair(pos + 1)[2] = StreamPair(pos + 2)[1]
    <3>1. pos + 1 + 1 = pos + 2
      BY <1>3
    <3> QED BY <3>1 DEF StreamPair
  <2> QED BY <1>5, <2>1, MagicsDiffer DEF Magics
<1>7. ASSUME NEW i \in Nat, i < stop
      PROVE  StreamPair(pos + 1 + i) \notin Magics
  <2>1. CASE i >= first
    <3>1. i \in first .. stop - 1 /\ i + 1 < bufsize
      BY <1>1, <1>3, <1>7, <2>1
    <3> QED BY <1>1, <3>1, MagicFound
  <2>2. CASE ~(i >= first)
    <3>1. i = 0 \/ i = 1
      BY <1>1, <1>7, <2>2
    <3>2. pos + 1 + i = pos + 1 \/ pos + 1 + i = pos + 2
      BY <1>3, <3>1
    <3> QED BY <1>6, <3>2
  <2> QED BY <2>1, <2>2
<1>8. AnotherMagic(stop) => StreamPair(pos + 1 + stop) \in Magics /\ stop + 1 < bufsize
  <2>1. AnotherMagic(stop) => stop + 1 < bufsize
    BY DEF AnotherMagic
  <2> QED BY <1>1, <2>1, MagicFound
<1>9. stop >= 2
  <2>1. ASSUME stop = 0 \/ stop = 1
        PROVE  FALSE
    <3>1. AnotherMagic(stop)
      BY <1>1, <1>3, <2>1
    <3>2. pos + 1 + stop = pos + 1 \/ pos + 1 + stop = pos + 2
      BY <1>3, <2>1
    <3> QED BY <1>6, <1>8, <3>1, <3>2
  <2> QED BY <1>1, <2>1
<1>10. (SplitAt(arrived) \subseteq split)'
  BY <1>2 DEF PieceInv, SplitAt
<1>11. CASE first = stop
  <2>1. Len(Places(first, stop)) = 0 /\ Places(first, stop) \in Seq(Nat)
    <3>1. Places(first, stop) \in Seq(Nat) /\ Len(Places(first, stop)) = stop - first
      <4>1. first \in Nat
        OBVIOUS
      <4> QED BY <1>1, <1>3, <4>1, PlacesAre
    <3> QED BY <1>11, <3>1
  <2>2. slowcontrol' = slowcontrol
    BY <1>1, <1>3, <2>1, EmptySeq, ConcatEmptySeq
  <2>3. state = "DONE" /\ state' = "DONE"
    BY <1>1, <1>3, <1>4, <1>9, <1>11
  <2> QED BY <1>2, <1>3, <1>10, <2>2, <2>3, PiecesKept
<1>12. CASE first < stop
  <2> DEFINE q == pos + first + 1
             e == pos + stop
  <2>1. q \in Nat /\ e \in Nat /\ pos < q /\ q <= e
    BY <1>1, <1>3, <1>12
  <2>2. /\ Len(slowcontrol') = Len(slowcontrol) + (e - q + 1)
        /\ \A k \in 1 .. Len(slowcontrol') :
             slowcontrol'[k] = IF k <= Len(slowcontrol) THEN slowcontrol[k]
                               ELSE q - 1 + (k - Len(slowcontrol))
    <3>1. /\ Len(slowcontrol') = Len(slowcontrol) + (stop - first)
          /\ \A k \in 1 .. Len(slowcontrol') :
               slowcontrol'[k] = IF k <= Len(slowcontrol) THEN slowcontrol[k]
                                 ELSE pos + first + (k - Len(slowcontrol))
      <4>1. first \in Nat
        OBVIOUS
      <4> DEFINE t == slowcontrol \o Places(first, stop)
      <4>2. /\ Len(t) = Len(slowcontrol) + (stop - first)
            /\ \A k \in 1 .. Len(t) :
                 t[k] = IF k <= Len(slowcontrol) THEN slowcontrol[k]
                        ELSE pos + first + (k - Len(slowcontrol))
        BY <1>1, <1>3, <4>1, PlacesAppended
      <4>3. slowcontrol' = t
        BY <1>1
      <4> HIDE DEF t
      <4> QED BY <4>2, <4>3
    <3>2. stop - first = e - q + 1 /\ pos + first = q - 1
      BY <1>1, <1>3
    <3> QED BY <3>1, <3>2
  <2>3. \A k \in DOMAIN slowcontrol : slowcontrol[k] <= e
    <3>1. \A k \in DOMAIN slowcontrol : slowcontrol[k] \in Nat
      BY <1>3
    <3>2. CASE first = 2
      BY <1>1, <1>3, <1>4, <3>1, <3>2 DEF WholeInv
    <3>3. CASE first = 0
      <4>1. Recorder \in Nat
        BY <1>3, <1>4, <3>3 DEF PartInv, Recorder
      <4>2. Recorder <= e
        <5>1. CASE AnotherMagic(stop)
          <6>1. ~(pos + 1 + stop \in pos + 1 .. Recorder)
            BY <1>4, <1>8, <3>3, <5>1 DEF PartInv
          <6> QED BY <1>1, <1>3, <4>1, <6>1
        <5>2. CASE stop = bufsize - 1
          <6>1. Recorder + 1 <= arrived
            BY <1>4, <3>3 DEF PartInv
          <6> QED BY <1>1, <1>3, <4>1, <5>2, <6>1
        <5> QED BY <1>1, <5>1, <5>2
      <4>3. \A k \in DOMAIN slowcontrol : slowcontrol[k] <= Recorder
        BY <1>4, <3>3 DEF PartInv
      <4> HIDE DEF e
      <4> QED BY <2>1, <3>1, <4>1, <4>2, <4>3
    <3> QED BY <3>2, <3>3
  <2>4. slowcontrol # <<>> => Follows(Recorder, q)
    <3> SUFFICES ASSUME slowcontrol # <<>> PROVE Follows(Recorder, q)
      OBVIOUS
    <3>1. Recorder \in Nat /\ Len(slowcontrol) \in DOMAIN slowcontrol
      BY <1>3 DEF Recorder
    <3>2. CASE first = 2
      <4>1. StreamPair(Recorder + 1) \in Magics /\ Recorder <= pos
        BY <1>4, <3>1, <3>2 DEF WholeInv, Recorder
      <4>2. q - 2 = pos + 1 /\ Recorder + 1 < q
        BY <1>3, <3>1, <3>2, <4>1
      <4> HIDE DEF q
      <4> QED BY <1>5, <4>1, <4>2 DEF Follows, Magics
    <3>3. CASE first = 0
      <4>1. q = pos + 1
        BY <1>3, <3>3
      <4>2. PartInv
        BY <1>4, <3>3
      <4> HIDE DEF q
      <4> QED BY <4>1, <4>2 DEF Follows, PartInv, Magics
    <3> QED BY <3>2, <3>3
  <2> HIDE DEF q, e
  <2>5. /\ ApartInv' /\ Joined(slowcontrol)'
        /\ slowcontrol' # <<>> /\ Recorder' = e
        /\ \A k \in DOMAIN slowcontrol' : slowcontrol'[k] <= e
    BY <1>2, <1>3, <2>1, <2>2, <2>3, <2>4, PieceRecorded
  <2>6. \A chunk \in attached' : Joined(chunk)'
    BY <1>2, JoinedKept DEF PieceInv
  <2>7. \A i : StreamPair(i)' = StreamPair(i)
    BY <1>2 DEF StreamPair, Stream
  <2>8. state' = "DONE" => WholeInv'
    <3> SUFFICES ASSUME state' = "DONE" PROVE WholeInv'
      OBVIOUS
    <3>1. AnotherMagic(stop) /\ pos' = e
      BY <1>1 DEF e
    <3>2. StreamPair(e + 1) \in Magics
      <4>1. pos + 1 + stop = e + 1
        BY <1>3 DEF e
      <4> QED BY <1>8, <3>1, <4>1
    <3>3. (StreamPair(Recorder + 1) \in Magics)'
      BY <2>5, <2>7, <3>2 DEF Magics, MagicData, MagicLed, MagicHv
    <3> QED BY <2>5, <3>1, <3>3 DEF WholeInv
  <2>9. state' = "SLOWCONTROL" => PartInv'
    <3> SUFFICES ASSUME state' = "SLOWCONTROL" PROVE PartInv'
      OBVIOUS
    <3>1. pos' = pos /\ e = arrived - 1 /\ pos + 1 <= e /\ e + 1 <= arrived
      BY <1>1, <1>3, <1>9 DEF e
    <3>2. bufsize' >= 8
      BY <1>1, <1>2, <3>1 DEF bufsize
    <3>3. \E b \in split : e \in b.first .. b.last
      <4>1. e \in 1 .. Len(Stream)
        BY <1>3, <3>1
      <4>2. PICK b \in input.blocks : e \in b.first .. b.last
        BY <1>3, <4>1, InputsAssumption DEF Stream
      <4>3. b \in SplitAt(arrived)
        BY <3>1, <4>2 DEF SplitAt
      <4> QED BY <4>2, <4>3 DEF PieceInv
    <3>4. (StreamPair(pos + 1) = MagicSc)'
      BY <1>5, <2>7, <3>1 DEF MagicSc
    <3>5. ASSUME NEW i \in pos + 1 .. e
          PROVE  StreamPair(i) \notin Magics
      <4>1. i - pos - 1 \in Nat /\ i - pos - 1 < stop /\ pos + 1 + (i - pos - 1) = i
        BY <1>1, <1>3, <3>5 DEF e
      <4> QED BY <1>7, <4>1
    <3>6. (\A i \in pos + 1 .. Recorder : StreamPair(i) \notin Magics)'
      BY <2>5, <2>7, <3>1, <3>5 DEF Magics, MagicData, MagicLed, MagicHv
    <3> QED BY <1>2, <2>5, <3>1, <3>2, <3>3, <3>4, <3>6 DEF PartInv
  <2>10. \A chunk \in attached' \cup {slowcontrol'} : Joined(chunk)'
    BY <2>5, <2>6 DEF Joined
  <2> QED BY <1>10, <2>5, <2>8, <2>9, <2>10 DEF PieceInv
<1> QED BY <1>1, <1>11, <1>12

LEMMA PieceStep ==
  ASSUME ParserTypes, ParserTypes', PieceInv, [ParserNext]_parserVars
  PROVE  PieceInv'
<1>1. /\ pos \in Nat /\ arrived \in Nat /\ pos' \in Nat /\ arrived' \in Nat
      /\ pos <= arrived /\ pos' <= arrived' /\ state \in {"DONE", "SLOWCONTROL"}
  BY DEF ParserTypes
<1>2. SplitAt(arrived) \subseteq split
  BY DEF PieceInv
<1>3. CASE Receive
  <2>1. /\ input' = input /\ pos' = pos /\ state' = state /\ slowcontrol' = slowcontrol
        /\ attached' = attached /\ arrived' \in arrived + 1 .. Len(Stream)
        /\ split' = split \cup SplitAt(arrived')
    BY <1>3 DEF Receive
  <2>2. arrived <= arrived'
    BY <1>1, <2>1
  <2>3. (SplitAt(arrived) \subseteq split)'
    BY <2>1 DEF SplitAt
  <2> QED BY <1>1, <2>1, <2>2, <2>3, PiecesKept
<1>4. CASE NextRun
  <2>1. /\ input' \in Inputs /\ pos' = 0 /\ arrived' = 0 /\ state' = "DONE"
        /\ slowcontrol' = <<>> /\ attached' = {} /\ split' = {}
    BY <1>4 DEF NextRun
  <2>2. Len(<<>>) = 0 /\ DOMAIN <<>> = {}
    OBVIOUS
  <2>3. ApartInv' /\ WholeInv'
    BY <2>1, <2>2 DEF ApartInv, WholeInv
  <2>4. \A chunk \in attached' \cup {slowcontrol'} : Joined(chunk)'
    BY <2>1, <2>2 DEF Joined
  <2>5. (SplitAt(arrived) \subseteq split)'
    <3>1. ASSUME NEW b \in input'.blocks
          PROVE  ~(0 - 1 \in b.first .. b.last)
      BY <2>1, BlocksAfterBegin
    <3> QED BY <2>1, <3>1 DEF SplitAt
  <2> QED BY <2>1, <2>3, <2>4, <2>5 DEF PieceInv
<1>5. CASE ReadSlowcontrol
  BY <1>5, SlowcontrolPieces
<1>6. CASE DataShort
  <2>1. /\ Build /\ input' = input /\ pos' = pos /\ arrived' = arrived /\ state' = state
        /\ split' = split /\ (bufsize < 8 \/ state = "DONE")
    BY <1>6 DEF DataShort, NeedMoreData, AtData, MinSize
  <2>2. state = "DONE"
    <3>1. state = "SLOWCONTROL" => bufsize >= 8 /\ bufsize \in Nat
      BY Buffer DEF PieceInv, PartInv
    <3> QED BY <1>1, <2>1, <3>1
  <2> QED BY <2>1, <2>2, PiecesBuilt
<1>7. ASSUME /\ input' = input /\ arrived' = arrived /\ state' = state /\ split' = split
             /\ slowcontrol' = slowcontrol /\ attached' = attached
             /\ state = "DONE" \/ pos' = pos
             /\ pos <= pos'
      PROVE  PieceInv'
  <2>1. (SplitAt(arrived) \subseteq split)'
    BY <1>2, <1>7 DEF SplitAt
  <2> QED BY <1>1, <1>7, <2>1, PiecesKept
<1>8. ASSUME NEW n \in Nat, NEW kind, state = "DONE", Took(kind, n) \/ Erase(n)
      PROVE  PieceInv'
  <2>1. pos' = pos + n
    BY <1>8 DEF Took, Erase
  <2> QED BY <1>1, <1>7, <1>8, <2>1 DEF Took, Erase
<1>9. CASE ReadLed
  <2> DEFINE layerN == buf(2)
             layers == CHOOSE k \in 0 .. layerN :
                         /\ k = layerN \/ buf(4 * k + 2) = MagicData[1]
                         /\ \A j \in 0 .. k - 1 : buf(4 * j + 2) # MagicData[1]
  <2>1. /\ state = "DONE"
        /\ IF bufsize < 3 + layerN * 4
           THEN IncompleteInfo /\ UNCHANGED <<pos, state, slowcontrol>>
           ELSE Took("led", 4 * layers + 1)
    BY <1>9 DEF ReadLed
  <2>2. bufsize >= 8
    BY <1>9 DEF ReadLed, Scanning, MinSize
  <2>3. layerN \in Nat
    BY <2>2, Buffer
  <2>4. layers \in 0 .. layerN
    BY <2>3, LedLayers
  <2> HIDE DEF layerN, layers
  <2>5. CASE bufsize < 3 + layerN * 4
    BY <1>1, <1>7, <2>1, <2>5 DEF IncompleteInfo
  <2>6. CASE ~(bufsize < 3 + layerN * 4)
    <3> DEFINE n == 4 * layers + 1
    <3>1. n \in Nat
      BY <2>3, <2>4
    <3>2. Took("led", n)
      BY <2>1, <2>6
    <3> HIDE DEF n
    <3> QED BY <1>8, <2>1, <3>1, <3>2
  <2> QED BY <2>5, <2>6
<1>10. CASE ReadHv
  BY <1>8, <1>10 DEF ReadHv, AtHv, SizeHv
<1>11. CASE HvIncomplete
  <2>1. /\ state = "DONE" /\ (pos' = pos \/ pos' = pos + 1)
        /\ input' = input /\ arrived' = arrived /\ state' = state /\ split' = split
        /\ slowcontrol' = slowcontrol /\ attached' = attached
    BY <1>11 DEF HvIncomplete, AtHv, IncompleteInfo
  <2> QED BY <1>1, <1>7, <2>1
<1>12. CASE ThrowAway \/ HeaderInvalid
  BY <1>8, <1>12 DEF ThrowAway, HeaderInvalid, AtData
<1>13. CASE ReadPacket \/ DropPacket
  <2>1. state = "DONE" /\ PacketComplete
    BY <1>13 DEF ReadPacket, DropPacket, AtData
  <2>2. length(Header) \in Nat
    BY <2>1, PacketErased
  <2> DEFINE m == length(Header)
  <2> HIDE DEF m
  <2>3. 10 + m \in Nat
    BY <2>2 DEF m
  <2>4. (\E kind : Took(kind, 10 + m)) \/ Erase(10 + m)
    BY <1>13 DEF ReadPacket, DropPacket, SizeLdaHeader, m
  <2> QED BY <1>8, <2>1, <2>3, <2>4
<1>14. CASE UNCHANGED parserVars
  BY <1>1, <1>7, <1>14 DEF parserVars
<1> QED BY <1>3, <1>4, <1>5, <1>6, <1>9, <1>10, <1>11, <1>12, <1>13, <1>14
        DEF ParserNext, Read

LEMMA PieceInit ==
  ASSUME ParserInit
  PROVE  PieceInv
<1>1. /\ input \in Inputs /\ pos = 0 /\ arrived = 0 /\ state = "DONE"
      /\ slowcontrol = <<>> /\ attached = {} /\ split = {}
  BY DEF ParserInit
<1>2. Len(<<>>) = 0 /\ DOMAIN <<>> = {}
  OBVIOUS
<1>3. ApartInv /\ WholeInv
  BY <1>1, <1>2 DEF ApartInv, WholeInv
<1>4. \A chunk \in attached \cup {slowcontrol} : Joined(chunk)
  BY <1>1, <1>2 DEF Joined
<1>5. SplitAt(arrived) \subseteq split
  <2>1. ASSUME NEW b \in input.blocks
        PROVE  ~(0 - 1 \in b.first .. b.last)
    BY <1>1, BlocksAfterBegin
  <2> QED BY <1>1, <2>1 DEF SplitAt
<1> QED BY <1>1, <1>3, <1>4, <1>5 DEF PieceInv

(* However often slow control that arrives in pieces is recorded again, and whenever
   events are built meanwhile: a block that was erased is recorded in one piece, a
   begin of slow control is repeated only where a Read found a part of it, and no
   byte goes to two events. *)
THEOREM SlowControlKept == ParserSpec => []SlowControlWhole
<1>1. ParserInv /\ PieceInv => SlowControlWhole
  <2> SUFFICES ASSUME ParserInv, PieceInv PROVE SlowControlWhole
    OBVIOUS
  <2>1. Clean => \A b \in input.blocks : b.kind = "sc" /\ b.last <= pos
          => \E chunk \in attached \cup {slowcontrol} : HoldsBody(chunk, b)
    BY DEF ParserInv, SlowInv, Recorded
  <2> QED BY <2>1 DEF PieceInv, ApartInv, Joined, SlowControlWhole
<1>2. ParserInit => ParserInv /\ PieceInv
  BY ParserInitInv, PieceInit
<1>3. ParserInv /\ PieceInv /\ [ParserNext]_parserVars => ParserInv' /\ PieceInv'
  BY ParserNextInv, PieceStep DEF ParserInv
<1> QED BY <1>1, <1>2, <1>3, PTL DEF ParserSpec
=============================================================================
