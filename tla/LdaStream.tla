------------------------------ MODULE LdaStream ------------------------------
(***************************************************************************)
(* How ScReader follows the counters of the LDA (the AHCAL readout board). *)
(* Every LDA packet carries only the low 8 bits of the readout cycle (ROC) *)
(* and, for a trigger, the low 16 bits of the trigger number.  ScReader    *)
(* extends both to full counters while packets are missing, repeated or    *)
(* belong to a neighbouring cycle, files the packets under the extended    *)
(* ROC and keeps the run time statistics.                                  *)
(*                                                                         *)
(* The reader is readLDATimestamp, readAHCALData (its header part),        *)
(* updateCntModulo and OnStart.  The LDA itself is outside the repository  *)
(* and is modelled by what the code expects of it: the hw* variables are   *)
(* the true counters; a packet shows them modulo RocMod and TrigMod.       *)
(* Variables named last* and first*, and the field "of", are history: they *)
(* record what was truly sent and are read by no guard of the reader.      *)
(***************************************************************************)
EXTENDS Integers, Sequences, FiniteSets, Functions

CONSTANTS
  RocMod,         \* 2^8: the ROC field of an LDA packet header
  RocBack,        \* 127: how far back readLDATimestamp lets a cycle be
  TrigMod,        \* 2^16: the trigger number field of a timestamp packet
  MaxRocJump,     \* _maxRocJump (MaximumROCJump, default 50)
  MaxTrigidSkip,  \* _maxTrigidSkip (MaximumTrigidSkip, default 1000)
  TsGap,          \* LDA: most cycles between two delivered timestamp packets
  DataGap,        \* LDA: most cycles between two delivered ASIC packets
  DataLag,        \* LDA: how many cycles late an ASIC packet may be
  TrigGap,        \* LDA: largest step between two delivered trigger numbers
  KeepBuffered,   \* _KeepBuffered: cycles a map keeps before events are built
  IdleSpans,      \* LDA: numbers of cycles that may pass without any packet
  FirstTrigs,     \* trigger numbers a run may begin with
  MaxRoc, MaxTrig, MaxClock, MaxRuns     \* bounds of the model

ASSUME CounterAssumption ==
  /\ RocMod \in Nat \ {0} /\ TrigMod \in Nat \ {0}
  /\ RocBack \in Nat /\ MaxRocJump \in Nat \ {0} /\ MaxTrigidSkip \in Nat
  /\ TsGap \in Nat \ {0} /\ DataGap \in Nat \ {0}
  /\ DataLag \in Nat /\ TrigGap \in Nat \ {0} /\ KeepBuffered \in Nat
  /\ FirstTrigs \subseteq Nat /\ IdleSpans \subseteq Nat
  /\ MaxRoc \in Nat /\ MaxTrig \in Nat /\ MaxClock \in Nat /\ MaxRuns \in Nat

VARIABLES
  hwRoc, hwAcq, hwTrig, clock, runs,    \* the LDA, its clock and the run count
  cycleNo, cycleNoTS,                   \* _cycleNo, _cycleNoTS
  trigID, trigidNotKnown,               \* _trigID, _trigidNotKnown
  insideAcq,                            \* _buffer_inside_acquisition
  asicData,                             \* _LDAAsicData: ROC |-> set of true ROCs
  tsData,                               \* _LDATimestampData
  stats,                                \* _RunTimesStatistics
  histogram,                            \* its triggers_in_cycle_histogram
  lastTS, lastData, firstTrig, lastTrig, accepted    \* history

hw     == <<hwRoc, hwAcq, hwTrig, clock, runs>>
tsVars == <<cycleNoTS, trigID, trigidNotKnown, insideAcq, tsData, stats,
            histogram>>
vars   == <<hw, tsVars, cycleNo, asicData,
            lastTS, lastData, firstTrig, lastTrig, accepted>>
-----------------------------------------------------------------------------
(* A value of width mod, read as a two's complement signed number. *)
Signed(x, mod) == LET r == x % mod IN IF 2 * r >= mod THEN r - mod ELSE r

(* Fault: the border of the window is taken for the next period. *)
updateCntModuloOffByOne(oldCnt, newCnt, mod, maxBack) ==
  LET low   == oldCnt - maxBack
      value == IF (low % mod) >= (newCnt % mod) THEN low + mod ELSE low
  IN  (value - (value % mod)) + (newCnt % mod)

(* The value congruent to newCnt, in the window that begins maxBack below
   oldCnt and is one period long. *)
updateCntModulo(oldCnt, newCnt, mod, maxBack) ==
  LET low   == oldCnt - maxBack
      value == IF (low % mod) > (newCnt % mod) THEN low + mod ELSE low
  IN  (value - (value % mod)) + (newCnt % mod)

Abs(x) == IF x < 0 THEN -x ELSE x

(* f with the value v at k, which may be new. *)
Put(f, k, v) == [x \in DOMAIN f \cup {k} |-> IF x = k THEN v ELSE f[x]]

EmptyMap == [x \in {} |-> 0]

NoTimes == [start |-> 0, stop |-> 0, trigs |-> <<>>, of |-> {}]

ClearedStats ==
  [first_TS |-> 0, last_TS |-> 0, previous_start_TS |-> 0,
   previous_stop_TS |-> 0, ontime |-> 0, offtime |-> 0, cycles |-> 0,
   cycle_triggers |-> 0, triggers_inside_roc |-> 0,
   triggers_outside_roc |-> 0, triggers_lost |-> 0]

(* h[k] += 1 of a std::map *)
Counted(h, k) == Put(h, k, (IF k \in DOMAIN h THEN h[k] ELSE 0) + 1)

(* Statistics of a start-of-acquisition packet outside an acquisition. *)
StatsOfStart(s, ts) ==
  [s EXCEPT !.last_TS = ts,
            !.first_TS = IF @ = 0 THEN ts ELSE @,
            !.previous_start_TS = ts,
            !.offtime = IF s.previous_stop_TS # 0
                        THEN @ + (ts - s.previous_stop_TS) ELSE @,
            !.cycle_triggers = 0]

(* Fault: the time of the stop is not kept for the next start. *)
StatsOfStopForgotten(s, ts) ==
  [s EXCEPT !.last_TS = ts,
            !.ontime = IF s.previous_start_TS # 0
                       THEN @ + (ts - s.previous_start_TS) ELSE @,
            !.cycles = IF s.previous_start_TS # 0 THEN @ + 1 ELSE @]

(* Statistics of a stop-of-acquisition packet inside an acquisition. *)
StatsOfStop(s, ts) ==
  [s EXCEPT !.last_TS = ts,
            !.previous_stop_TS = ts,
            !.ontime = IF s.previous_start_TS # 0
                       THEN @ + (ts - s.previous_start_TS) ELSE @,
            !.cycles = IF s.previous_start_TS # 0 THEN @ + 1 ELSE @]
-----------------------------------------------------------------------------
(* OnStart: the reader's counters, maps and statistics begin anew.  (trigID
   is LdaTrigidStartsFrom - 1, which the first trigger replaces.)  The LDA
   restarts its cycle counter on RUN_START; the trigger counter belongs to
   the trigger logic and goes on from any number. *)
OnStart ==
  /\ runs < MaxRuns
  /\ runs' = runs + 1
  /\ hwRoc' = 0 /\ hwAcq' = FALSE
  /\ hwTrig' \in FirstTrigs \cup {hwTrig}
  /\ cycleNo' = -1 /\ cycleNoTS' = -1
  /\ trigID' = -1 /\ trigidNotKnown' = TRUE
  /\ asicData' = EmptyMap /\ tsData' = EmptyMap
  /\ stats' = ClearedStats /\ histogram' = EmptyMap
  /\ insideAcq' = FALSE
  /\ lastTS' = -1 /\ lastData' = -1
  /\ firstTrig' = 0 /\ lastTrig' = -1 /\ accepted' = 0
  /\ UNCHANGED clock

(* The part of readLDATimestamp common to the three packet types: extend the
   header cycle, adopt it unless it jumps too far, and find the entry of the
   map the packet goes to (the entry exists afterwards in any case). *)
TsCycle(roc) == updateCntModulo(cycleNoTS, roc % RocMod, RocMod, RocBack)

AdoptTsCycle(roc) ==
  /\ cycleNoTS' = IF Abs(TsCycle(roc) - cycleNoTS) > MaxRocJump
                  THEN cycleNoTS ELSE TsCycle(roc)
  /\ lastTS' = roc

TsEntry(roc) ==
  LET old == IF TsCycle(roc) \in DOMAIN tsData
             THEN tsData[TsCycle(roc)] ELSE NoTimes
  IN  [old EXCEPT !.of = @ \cup {roc}]

ReadStart(roc, ts) ==
  /\ AdoptTsCycle(roc)
  /\ tsData' = Put(tsData, TsCycle(roc), [TsEntry(roc) EXCEPT !.start = ts])
  /\ stats' = IF insideAcq THEN stats ELSE StatsOfStart(stats, ts)
  /\ insideAcq' = TRUE
  /\ UNCHANGED <<histogram, trigID, trigidNotKnown, firstTrig, lastTrig, accepted>>

ReadStop(roc, ts) ==
  /\ AdoptTsCycle(roc)
  /\ tsData' = Put(tsData, TsCycle(roc), [TsEntry(roc) EXCEPT !.stop = ts])
  /\ stats' = IF insideAcq THEN StatsOfStop(stats, ts) ELSE stats
  /\ histogram' = IF insideAcq /\ stats.previous_start_TS # 0
                  THEN Counted(histogram, stats.cycle_triggers) ELSE histogram
  /\ insideAcq' = FALSE
  /\ UNCHANGED <<trigID, trigidNotKnown, firstTrig, lastTrig, accepted>>

(* Fault: the first trigger of a run is compared with the initial trigID. *)
KnownTrigIDNeverSet(raw) == trigID

(* The trigger number the reader counts on from: the first trigger of a run
   is taken as it comes. *)
KnownTrigID(raw) == IF trigidNotKnown THEN raw - 1 ELSE trigID

(* trigIDdifference: an int16_t. *)
TrigidDifference(raw) == Signed(raw - (KnownTrigID(raw) % TrigMod), TrigMod)

(* Fault: a repeated trigger is followed as well. *)
TrigidAcceptedRepeated(raw) ==
  TrigidDifference(raw) >= 0 /\ TrigidDifference(raw) < MaxTrigidSkip

(* A step of one, or a small jump forward, is followed; a repetition, a step
   back and a jump too big to be compensated drop the packet. *)
TrigidAccepted(raw) ==
  \/ TrigidDifference(raw) = 1
  \/ TrigidDifference(raw) > 1 /\ TrigidDifference(raw) < MaxTrigidSkip

ReadTrigger(roc, n, ts) ==
  LET raw  == n % TrigMod
      diff == TrigidDifference(raw)
      id   == KnownTrigID(raw) + diff
      out  == IF insideAcq THEN stats
              ELSE [stats EXCEPT !.triggers_outside_roc = @ + 1]
  IN /\ AdoptTsCycle(roc)
     /\ trigidNotKnown' = FALSE
     /\ IF TrigidAccepted(raw)
        THEN /\ trigID' = id
             /\ tsData' = Put(tsData, TsCycle(roc),
                  [TsEntry(roc) EXCEPT !.trigs =
                      Append(@, [id |-> id, ts |-> ts, roc |-> roc, n |-> n])])
             /\ stats' =
                  [out EXCEPT
                     !.triggers_lost = @ + (diff - 1),
                     !.triggers_inside_roc = IF insideAcq THEN @ + 1 ELSE @,
                     !.cycle_triggers = IF insideAcq THEN @ + 1 ELSE @]
             /\ accepted' = accepted + 1
        ELSE /\ trigID' = KnownTrigID(raw)
             /\ tsData' = Put(tsData, TsCycle(roc), TsEntry(roc))
             /\ stats' = out
             /\ UNCHANGED accepted
     /\ firstTrig' = IF trigidNotKnown THEN n ELSE firstTrig
     /\ lastTrig' = n
     /\ UNCHANGED <<insideAcq, histogram>>

(* readAHCALData up to the length check: the cycle is extended within
   MaxRocJump below the old one; the difference is kept in an int8_t, and a
   jump forward that is too big is undone.  The map entry is created before
   the length check, so a packet of a wrong length (good = FALSE) leaves an
   entry behind. *)
DataCycle(roc) == updateCntModulo(cycleNo, roc % RocMod, RocMod, MaxRocJump)

ReadAsic(roc, good) ==
  LET jump == Signed(DataCycle(roc) - cycleNo, RocMod)
      to   == IF jump > MaxRocJump THEN cycleNo ELSE DataCycle(roc)
      old  == IF to \in DOMAIN asicData THEN asicData[to] ELSE {}
  IN /\ cycleNo' = to
     /\ asicData' = Put(asicData, to, IF good THEN old \cup {roc} ELSE old)
     /\ lastData' = roc
-----------------------------------------------------------------------------
(* Event building takes the oldest cycle out of a map that holds more than
   KeepBuffered of them; here it does so before the next packet is read. *)
Overfull == {m \in {"ts", "asic"} :
               Cardinality(DOMAIN (IF m = "ts" THEN tsData ELSE asicData))
                 > KeepBuffered}

Oldest(map) == CHOOSE r \in DOMAIN map : \A q \in DOMAIN map : r <= q

Without(map, r) == [x \in DOMAIN map \ {r} |-> map[x]]

TakeOldest ==
  /\ Overfull # {}
  /\ tsData' = IF "ts" \in Overfull
               THEN Without(tsData, Oldest(tsData)) ELSE tsData
  /\ asicData' = IF "asic" \in Overfull
                 THEN Without(asicData, Oldest(asicData)) ELSE asicData
  /\ UNCHANGED <<hw, cycleNoTS, trigID, trigidNotKnown, insideAcq, stats,
                 histogram, cycleNo, lastTS, lastData, firstTrig, lastTrig,
                 accepted>>

(* The LDA.  Each packet is delivered or lost; the bounds on the gaps are
   the LDA's, not the reader's. *)
Tick == /\ clock < MaxClock
        /\ clock' = clock + 1
        /\ Overfull = {}

Lose == UNCHANGED <<tsVars, lastTS, firstTrig, lastTrig, accepted>>

StartAcq ==
  /\ Tick /\ ~hwAcq
  /\ hwAcq' = TRUE
  /\ ReadStart(hwRoc, clock) \/ Lose
  /\ UNCHANGED <<hwRoc, hwTrig, runs, cycleNo, asicData, lastData>>

StopAcq ==
  /\ Tick /\ hwAcq /\ hwRoc < MaxRoc
  /\ hwAcq' = FALSE
  /\ hwRoc' = hwRoc + 1
  /\ hwRoc + 1 - lastData <= DataGap
  /\ \/ ReadStop(hwRoc, clock)
     \/ hwRoc + 1 - lastTS <= TsGap /\ Lose
  /\ UNCHANGED <<hwTrig, runs, cycleNo, asicData, lastData>>

(* Cycles pass of which no packet arrives. *)
IdleCycles ==
  /\ Overfull = {} /\ ~hwAcq
  /\ \E k \in IdleSpans :
       /\ hwRoc + k <= MaxRoc
       /\ hwRoc + k - lastTS <= TsGap /\ hwRoc + k - lastData <= DataGap
       /\ hwRoc' = hwRoc + k
  /\ UNCHANGED <<hwAcq, hwTrig, clock, runs, tsVars, cycleNo, asicData,
                 lastTS, lastData, firstTrig, lastTrig, accepted>>

(* A trigger between two acquisitions may carry the number of either. *)
TriggerRocs == {hwRoc} \cup (IF hwAcq THEN {} ELSE {hwRoc - 1} \ {-1})

Trigger ==
  /\ Tick /\ hwTrig < MaxTrig
  /\ hwTrig' = hwTrig + 1
  /\ \/ \E roc \in TriggerRocs : ReadTrigger(roc, hwTrig, clock)
     \/ /\ lastTrig # -1 => hwTrig + 1 - lastTrig <= TrigGap
        /\ Lose
  /\ UNCHANGED <<hwRoc, hwAcq, runs, cycleNo, asicData, lastData>>

(* The LDA repeats its last trigger packet. *)
RepeatTrigger ==
  /\ Tick /\ lastTrig # -1
  /\ ReadTrigger(hwRoc, lastTrig, clock)
  /\ UNCHANGED <<hwRoc, hwAcq, hwTrig, runs, cycleNo, asicData, lastData>>

AsicPacket ==
  /\ Overfull = {}
  /\ \E roc \in {r \in (hwRoc - DataLag) .. hwRoc : r >= 0}, good \in BOOLEAN :
       /\ Abs(roc - lastData) <= DataGap
       /\ ReadAsic(roc, good)
  /\ UNCHANGED <<hw, tsVars, lastTS, firstTrig, lastTrig, accepted>>

-----------------------------------------------------------------------------
Init ==
  /\ hwRoc = 0 /\ hwAcq = FALSE /\ hwTrig \in FirstTrigs
  /\ clock = 1 /\ runs = 1
  /\ cycleNo = -1 /\ cycleNoTS = -1
  /\ trigID = -1 /\ trigidNotKnown = TRUE /\ insideAcq = FALSE
  /\ asicData = EmptyMap /\ tsData = EmptyMap /\ stats = ClearedStats
  /\ histogram = EmptyMap
  /\ lastTS = -1 /\ lastData = -1
  /\ firstTrig = 0 /\ lastTrig = -1 /\ accepted = 0

Next ==
  \/ OnStart
  \/ StartAcq
  \/ StopAcq
  \/ IdleCycles
  \/ Trigger
  \/ RepeatTrigger
  \/ AsicPacket
  \/ TakeOldest

Spec == Init /\ [][Next]_vars
-----------------------------------------------------------------------------
(* The gaps the reader is built to bridge: a cycle stays within MaxRocJump
   and the window of updateCntModulo, a trigger number below MaxTrigidSkip. *)
GapsCovered ==
  /\ TsGap <= MaxRocJump /\ 0 < RocBack /\ RocBack + TsGap < RocMod
  /\ DataGap <= MaxRocJump /\ MaxRocJump + DataGap < RocMod
  /\ 2 * DataGap < RocMod
  /\ TrigGap < MaxTrigidSkip /\ 2 * MaxTrigidSkip <= TrigMod

TrigRecord == [id : Int, ts : Nat, roc : Nat, n : Nat]

TimeData ==
  [start : Nat, stop : Nat, trigs : Seq(TrigRecord), of : SUBSET Nat]

StatsType ==
  [first_TS : Nat, last_TS : Nat, previous_start_TS : Nat,
   previous_stop_TS : Nat, ontime : Nat, offtime : Nat, cycles : Nat,
   cycle_triggers : Nat, triggers_inside_roc : Nat,
   triggers_outside_roc : Nat, triggers_lost : Nat]

TypeOK ==
  /\ hwRoc \in Nat /\ hwAcq \in BOOLEAN /\ hwTrig \in Nat
  /\ clock \in Nat \ {0} /\ runs \in Nat
  /\ cycleNo \in Int /\ cycleNoTS \in Int /\ trigID \in Int
  /\ trigidNotKnown \in BOOLEAN /\ insideAcq \in BOOLEAN
  /\ DOMAIN asicData \subseteq Int
  /\ \A r \in DOMAIN asicData : asicData[r] \subseteq Nat
  /\ DOMAIN tsData \subseteq Int
  /\ \A r \in DOMAIN tsData : tsData[r] \in TimeData
  /\ stats \in StatsType
  /\ DOMAIN histogram \subseteq Nat
  /\ \A k \in DOMAIN histogram : histogram[k] \in Nat
  /\ lastTS \in Int /\ lastData \in Int
  /\ firstTrig \in Nat /\ lastTrig \in Int /\ accepted \in Nat

(* As long as the gaps are covered, both cycle counters follow the true cycle
   through every wrap of the 8-bit field, so that no packet, of timestamps or
   of ASIC data, is ever filed under another cycle than its own. *)
RocRecovered ==
  /\ cycleNoTS = lastTS /\ cycleNo = lastData
  /\ \A r \in DOMAIN tsData : tsData[r].of \subseteq {r}
  /\ \A r \in DOMAIN asicData : asicData[r] \subseteq {r}

(* The number of the first trigger is known up to a multiple of TrigMod. *)
TrigBase == firstTrig - (firstTrig % TrigMod)

(* Every recorded trigger has its true number, counted from TrigBase, through
   lost and repeated packets and every wrap of the 16-bit field, and a cycle
   records its triggers in the order they happened. *)
TriggersFaithful ==
  /\ trigidNotKnown <=> lastTrig = -1
  /\ ~trigidNotKnown => trigID = lastTrig - TrigBase
  /\ \A r \in DOMAIN tsData :
       LET trigs == tsData[r].trigs
       IN  \A i \in 1 .. Len(trigs) :
             /\ trigs[i].id = trigs[i].n - TrigBase
             /\ trigs[i].roc = r
             /\ \A j \in 1 .. i - 1 : trigs[j].id < trigs[i].id

(* The time the detector was on and off adds up to the length of the run,
   whichever start and stop packets are missing. *)
TimeAccounted ==
  stats.ontime + stats.offtime = stats.last_TS - stats.first_TS

(* The recorded and the lost triggers together are all triggers since the
   first one, whatever was lost or repeated. *)
TriggersAccounted ==
  ~trigidNotKnown => accepted + stats.triggers_lost = lastTrig - firstTrig + 1
=============================================================================
