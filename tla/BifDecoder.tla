----------------------------- MODULE BifDecoder -----------------------------
(***************************************************************************)
(* ProcessQueuedBifData and buildEudaqEvents of caliceahcalbifProducer,    *)
(* the producer of the BIF: a mini TLU that records the shutter            *)
(* (acquisition on and off) and the beam triggers.  A shutter word carries *)
(* the low bits (CycleMod) of the cycle number, a trigger its own number;  *)
(* the decoder collects the packets of a cycle in _cycleData and turns     *)
(* them into EUDAQ events.  How the words get from the FIFO to the decoder *)
(* and the events to the collector is the subject of BifRunLoop.           *)
(*                                                                         *)
(* The BIF is outside the repository: hw* are its true counters.  It loses *)
(* shutter words, whole cycles and triggers and may repeat a start.  The   *)
(* field "of" of a packet and the variables lastOn, onDelivered, firstOn,  *)
(* fresh and accepted are history that no guard of the producer reads.     *)
(***************************************************************************)
EXTENDS Integers, Sequences, FiniteSets, SequencesExt, Subsequences

CONSTANTS
  CycleMod,       \* 2^12: the cycle field of a shutter word
  MaxCompensate,  \* 500: largest loss for which a cycle without stop is built
  Setups,         \* pairs of EventBuildingMode and source of the triggers
  BxidOffset, BxidLength,        \* _firstBxidOffsetBins, _bxidLengthBins
  IgnorePeriod,   \* _consecutiveTriggerIgnorePeriod
  TsMod,          \* 2^32: what is kept of the time of an internal trigger
  CountRocFrom,   \* _countRocFrom
  Fired,          \* BIF: how many inputs an external trigger may fire
  FirstCycle,     \* BIF: the cycle number it begins with
  FirstTrig,      \* BIF: number of the first trigger after a reset
  MaxGap,         \* BIF: most cycles between two delivered starts
  MaxPackets, MaxRuns      \* bounds of the model

ASSUME BifAssumption ==
  /\ CycleMod \in Nat /\ MaxCompensate \in 0 .. CycleMod - 2
  /\ MaxGap \in 1 .. MaxCompensate + 1
  /\ Setups \subseteq {"ROC", "TRIGGERS", "BXID"} \X {"internal", "external"}
  /\ BxidOffset \in Nat /\ BxidLength \in Nat \ {0} /\ IgnorePeriod \in Nat
  /\ TsMod \in Nat \ {0} /\ CountRocFrom \in Int
  /\ Fired \subseteq Nat /\ FirstCycle \in Nat /\ FirstTrig \in Nat
  /\ MaxPackets \in Nat /\ MaxRuns \in Nat

VARIABLES
  hwCycle, hwOn, hwStart, hwTrig, clock, runs,     \* the BIF
  mode, source,   \* _eventBuildingMode, the source of the triggers
  ReadoutCycle, ROC_started, firstShutterCycle, acq_start_ts,
  trigger_id, firstTrigger, firstTriggerNumber, lastTriggerTime,
  cycleData,      \* _cycleData
  deqEvent,       \* all events pushed to _deqEvent in this run
  lastOn, onDelivered, firstOn, fresh, accepted   \* history

shutter == <<hwCycle, hwOn, hwStart, lastOn, onDelivered>>
config  == <<mode, source, runs, fresh>>
cycle   == <<ReadoutCycle, ROC_started, firstShutterCycle, acq_start_ts, firstOn>>
trigger == <<trigger_id, firstTrigger, firstTriggerNumber, lastTriggerTime, accepted>>
vars    == <<shutter, hwTrig, clock, config, cycle, trigger, cycleData, deqEvent>>
-----------------------------------------------------------------------------
(* An entry of _cycleData, as trigger_push_back stores it. *)
Entry(kind, no, ts, of) == [kind |-> kind, no |-> no, ts |-> ts, of |-> of]

(* Fault: the last entry is not looked at. *)
OfKindButLast(data, kind) ==
  Selected(data, {i \in DOMAIN data : data[i].kind = kind} \ {Len(data)})

OfKind(data, kind) == Selected(data, {i \in DOMAIN data : data[i].kind = kind})

(* start_packet and stop_packet: the last one of its kind, if there is one. *)
LastOf(data, kind) ==
  LET s == OfKind(data, kind) IN IF s = <<>> THEN <<>> ELSE <<Last(s)>>

(* int64_t division truncates towards zero. *)
Quotient(a, b) == IF a < 0 THEN -((-a) \div b) ELSE a \div b

Bxid(ts, start) == Quotient(ts - start - BxidOffset, BxidLength)

Event(roc, bxid, trigN, data) ==
  [roc |-> roc + CountRocFrom, bxid |-> bxid, trigN |-> trigN, data |-> data]

(* One event per cycle, also for one without data; it has no BXID. *)
buildEudaqEventsROC(data, roc) == <<Event(roc, 0, roc, data)>>

(* One event per entry of a trigger, with copies of the start and the stop. *)
buildEudaqEventsTriggers(data, roc, start) ==
  LET trigs == OfKind(data, "trigger")
  IN  [i \in DOMAIN trigs |->
         Event(roc, Bxid(trigs[i].ts, start), trigs[i].no - firstTriggerNumber,
               LastOf(data, "start") \o <<trigs[i]>> \o LastOf(data, "stop"))]

(* One event per uninterrupted series of triggers with the same BXID.  A
   trigger is copied twice, unless it begins a second or later event. *)
buildEudaqEventsBxid(data, roc, start) ==
  LET trigs    == OfKind(data, "trigger")
      bxid(i)  == Bxid(trigs[i].ts, start)
      begins   == Selected([i \in DOMAIN trigs |-> i],
                           {i \in DOMAIN trigs : i = 1 \/ bxid(i) # bxid(i - 1)})
      end(k)   == IF k = Len(begins) THEN Len(trigs) ELSE begins[k + 1] - 1
      copy(i)  == (IF i = 1 \/ bxid(i) = bxid(i - 1) THEN <<trigs[i]>> ELSE <<>>)
                  \o LastOf(data, "start") \o <<trigs[i]>>
      block(k) == FlattenSeq([j \in 1 .. end(k) - begins[k] + 1 |-> copy(begins[k] + j - 1)])
                  \o LastOf(data, "stop")
  IN  [k \in DOMAIN begins |->
         Event(roc, bxid(begins[k]), trigs[begins[k]].no - firstTriggerNumber, block(k))]

buildEudaqEvents(data, roc, start) ==
  CASE mode = "ROC"      -> buildEudaqEventsROC(data, roc)
    [] mode = "TRIGGERS" -> buildEudaqEventsTriggers(data, roc, start)
    [] mode = "BXID"     -> buildEudaqEventsBxid(data, roc, start)
-----------------------------------------------------------------------------
(* How far the arrived cycle number is ahead of the cycle roc. *)
Missing(no, roc) == (no - firstShutterCycle - roc) % CycleMod

(* Fault: a cycle without stop is not built. *)
NeverBuildsUnstopped(no) == FALSE

(* Fault: it is built only if no cycle is missing. *)
BuildsUnstoppedInSequence(no) ==
  ROC_started /\ Missing(no, ReadoutCycle + 1) = 0

(* A start while the last cycle has no stop: that cycle is built, unless the
   loss is too big. *)
BuildsUnstopped(no) ==
  ROC_started /\ Missing(no, ReadoutCycle + 1) \in 0 .. MaxCompensate

(* Fault: a repeated start counts as a new cycle. *)
NeverRepeated(no) == FALSE

(* The same start arrives twice. *)
Repeated(no) == ROC_started /\ Missing(no, ReadoutCycle + 1) = CycleMod - 1

(* The lost cycles after old are padded with events; rest goes into the first. *)
Padding(rest, old, lost, ts) ==
  FlattenSeq([i \in 1 .. lost |->
    buildEudaqEvents(IF i = 1 THEN rest ELSE <<>>, old + i, ts)])

(* Shutter on: what is left of an unstopped cycle is built or goes into the
   padding. *)
ShutterOn(w) ==
  LET old   == IF Repeated(w.no) THEN ReadoutCycle - 1 ELSE ReadoutCycle
      lost  == IF old = -1 THEN 0 ELSE Missing(w.no, old + 1)
      built == IF BuildsUnstopped(w.no)
               THEN buildEudaqEvents(cycleData, ReadoutCycle, acq_start_ts)
               ELSE <<>>
      rest  == IF BuildsUnstopped(w.no) THEN <<>> ELSE cycleData
  IN /\ ReadoutCycle' = old + 1 + lost
     /\ deqEvent' = deqEvent \o built \o Padding(rest, old, lost, w.ts)
     /\ cycleData' = Append(IF lost > 0 THEN <<>> ELSE rest,
                            Entry("start", old + 1 + lost, w.ts, w.of))
     /\ firstShutterCycle' = IF old = -1 THEN w.no ELSE firstShutterCycle
     /\ firstOn' = IF old = -1 THEN w.of.cyc ELSE firstOn
     /\ firstTrigger' = (firstTrigger \/ old = -1)
     /\ ROC_started' = TRUE
     /\ acq_start_ts' = w.ts
     /\ UNCHANGED <<trigger_id, firstTriggerNumber, lastTriggerTime, accepted>>

ShutterOff(w) ==
  LET data == Append(cycleData, Entry("stop", ReadoutCycle, w.ts, w.of))
  IN /\ ROC_started' = FALSE
     /\ deqEvent' = deqEvent \o buildEudaqEvents(data, ReadoutCycle, acq_start_ts)
     /\ cycleData' = <<>>
     /\ UNCHANGED <<ReadoutCycle, firstShutterCycle, acq_start_ts, firstOn, trigger>>

(* evtNumber != ++_trigger_id *)
Sequence(n) ==
  /\ trigger_id' = n
  /\ IF n = trigger_id + 1
     THEN UNCHANGED <<firstTrigger, firstTriggerNumber>>
     ELSE /\ firstTrigger' = FALSE
          /\ firstTriggerNumber' = IF firstTrigger THEN n ELSE firstTriggerNumber

(* An external trigger too soon after the last one is dropped (the unsigned
   difference is large when the clock went back). *)
TooSoon(ts) == ts >= lastTriggerTime /\ ts - lastTriggerTime <= IgnorePeriod

(* An entry for every input that fired; of the time of an internal trigger
   only the low bits are kept. *)
TriggerEntries(w) ==
  IF source = "internal" THEN <<Entry("trigger", w.no, w.ts % TsMod, w.of)>>
  ELSE IF TooSoon(w.ts) THEN <<>>
  ELSE [i \in 1 .. w.fired |-> Entry("trigger", w.no, w.ts, w.of)]

TriggerPacket(w) ==
  LET entries == TriggerEntries(w)
  IN /\ Sequence(w.no)
     /\ lastTriggerTime' = IF source = "external" /\ ~TooSoon(w.ts)
                           THEN w.ts ELSE lastTriggerTime
     /\ cycleData' = cycleData \o entries
     /\ accepted' = IF entries = <<>> THEN accepted
                    ELSE accepted \cup {[e |-> entries[1], n |-> Len(entries)]}
     /\ UNCHANGED <<cycle, deqEvent>>

(* What DoStartRun resets.  _cycleData, _ROC_started, _trigger_id and
   _lastTriggerTime stay as the last run left them.  The FIFO is emptied, so
   that the BIF may be anywhere in a cycle; its trigger counter may be reset. *)
DoStartRun ==
  /\ runs < MaxRuns
  /\ runs' = runs + 1
  /\ deqEvent' = <<>>
  /\ ReadoutCycle' = -1
  /\ firstTriggerNumber' = 0 /\ firstTrigger' = TRUE
  /\ hwTrig' \in {hwTrig, FirstTrig} /\ hwOn' \in BOOLEAN
  /\ lastOn' = -1 /\ onDelivered' = FALSE /\ firstOn' = -1
  /\ fresh' = (~hwOn' /\ ~ROC_started /\ cycleData = <<>>)
  /\ accepted' = {a \in accepted : a.e \in ToSet(cycleData)}
  /\ UNCHANGED <<hwCycle, hwStart, clock, mode, source, ROC_started,
                 firstShutterCycle, acq_start_ts, trigger_id, lastTriggerTime,
                 cycleData>>
-----------------------------------------------------------------------------
(* The BIF.  A packet that is lost takes no time. *)
Tick == clock <= MaxPackets /\ clock' = clock + 1

Lose == UNCHANGED <<clock, cycle, trigger, cycleData, deqEvent>>

(* Where a packet belongs: its time, its cycle, when that began, and whether the start
   of the cycle was delivered. *)
Place ==
  [at |-> clock, cyc |-> hwCycle, start |-> hwStart, known |-> hwOn /\ onDelivered]

Shutter(cyc, ts, start) ==
  [no |-> cyc % CycleMod, ts |-> ts,
   of |-> [at |-> clock, cyc |-> cyc, start |-> start, known |-> TRUE]]

(* The first start of a run is not lost. *)
HwOn ==
  /\ ~hwOn
  /\ hwOn' = TRUE /\ hwCycle' = hwCycle + 1 /\ hwStart' = clock
  /\ \/ /\ Tick
        /\ ShutterOn(Shutter(hwCycle + 1, clock, clock))
        /\ lastOn' = hwCycle + 1 /\ onDelivered' = TRUE
     \/ /\ lastOn # -1 /\ hwCycle + 2 - lastOn <= MaxGap
        /\ Lose
        /\ onDelivered' = FALSE /\ UNCHANGED lastOn
  /\ UNCHANGED <<hwTrig, config>>

HwRepeatOn ==
  /\ hwOn /\ onDelivered /\ Tick
  /\ ShutterOn(Shutter(hwCycle, hwStart, hwStart))
  /\ UNCHANGED <<shutter, hwTrig, config>>

HwOff ==
  /\ hwOn
  /\ hwOn' = FALSE
  /\ Lose \/ (Tick /\ ShutterOff(Shutter(hwCycle, clock, hwStart)))
  /\ UNCHANGED <<hwCycle, hwStart, lastOn, onDelivered, hwTrig, config>>

(* A trigger, before which another one may have been lost. *)
HwTrigger ==
  /\ Tick
  /\ \E k \in Fired, n \in {hwTrig, hwTrig + 1} :
       /\ TriggerPacket([no |-> n, fired |-> k, ts |-> clock, of |-> Place])
       /\ hwTrig' = n + 1
  /\ UNCHANGED <<shutter, config>>
-----------------------------------------------------------------------------
Init ==
  /\ hwCycle = FirstCycle /\ hwOn = FALSE /\ hwStart = 0
  /\ hwTrig = FirstTrig /\ clock = 1 /\ runs = 1
  /\ \E s \in Setups : mode = s[1] /\ source = s[2]
  /\ ReadoutCycle = -1 /\ ROC_started = FALSE /\ firstShutterCycle = -1
  /\ acq_start_ts = 0 /\ trigger_id = -1 /\ firstTrigger = TRUE
  /\ firstTriggerNumber = 0 /\ lastTriggerTime = 0
  /\ cycleData = <<>> /\ deqEvent = <<>>
  /\ lastOn = -1 /\ onDelivered = FALSE /\ firstOn = -1 /\ fresh = TRUE
  /\ accepted = {}

Next ==
  \/ DoStartRun
  \/ HwOn
  \/ HwRepeatOn
  \/ HwOff
  \/ HwTrigger

Spec == Init /\ [][Next]_vars
-----------------------------------------------------------------------------
PlaceType == [at : Nat, cyc : Nat, start : Nat, known : BOOLEAN]

EntryType ==
  [kind : {"start", "stop", "trigger"}, no : Int, ts : Nat, of : PlaceType]

EventType == [roc : Int, bxid : Int, trigN : Int, data : Seq(EntryType)]

TypeOK ==
  /\ hwCycle \in Nat /\ hwOn \in BOOLEAN /\ hwStart \in Nat /\ hwTrig \in Nat
  /\ clock \in Nat /\ runs \in Nat /\ <<mode, source>> \in Setups
  /\ ReadoutCycle \in Int /\ ROC_started \in BOOLEAN
  /\ firstShutterCycle \in -1 .. CycleMod - 1 /\ acq_start_ts \in Nat
  /\ trigger_id \in Int /\ firstTrigger \in BOOLEAN
  /\ firstTriggerNumber \in Nat /\ lastTriggerTime \in Nat
  /\ cycleData \in Seq(EntryType) /\ deqEvent \in Seq(EventType)
  /\ lastOn \in Int /\ onDelivered \in BOOLEAN /\ firstOn \in Int
  /\ fresh \in BOOLEAN
  /\ accepted \subseteq [e : EntryType, n : Nat]

(* The readout cycle follows the BIF through every wrap of the cycle field
   and every lost or repeated shutter word within MaxGap. *)
CycleFollowed ==
  fresh => IF lastOn = -1 THEN ReadoutCycle = -1
           ELSE /\ ReadoutCycle = lastOn - firstOn
                /\ firstShutterCycle = firstOn % CycleMod

(* In a run that begins between two acquisitions, with nothing left over, a
   trigger of a cycle whose start was delivered is in an event of that cycle,
   counted from the first, and in its own BXID, although other shutter words
   are lost or repeated and the cycle field wraps. *)
TriggersFiled ==
  fresh => \A i \in DOMAIN deqEvent : \A t \in ToSet(deqEvent[i].data) :
    t.kind = "trigger" /\ t.of.known =>
      /\ deqEvent[i].roc = t.of.cyc - firstOn + CountRocFrom
      /\ mode # "ROC" /\ source = "external" =>
           deqEvent[i].bxid = Quotient(t.ts - t.of.start - BxidOffset, BxidLength)

(* How many events of the run contain the entry. *)
Holders(e) == Cardinality({i \in DOMAIN deqEvent : e \in ToSet(deqEvent[i].data)})

(* No accepted trigger is lost or built twice, whatever is lost around it: it
   waits in _cycleData, or is in exactly one event, or in the TRIGGERS mode in
   one event for every input that fired. *)
TriggersOnce ==
  \A a \in accepted :
    IF a.e \in ToSet(cycleData) THEN Holders(a.e) = 0
    ELSE Holders(a.e) = IF mode = "TRIGGERS" THEN a.n ELSE 1

(* In the ROC mode, the events of a run are numbered without interruption,
   however many cycles are missing; a number is repeated only by an event
   without a start, of a cycle whose start was lost. *)
RocUninterrupted ==
  fresh /\ mode = "ROC" => \A i \in DOMAIN deqEvent :
    \/ i = 1 /\ deqEvent[i].roc = CountRocFrom
    \/ i > 1 /\ deqEvent[i].roc = deqEvent[i - 1].roc + 1
    \/ /\ i > 1 /\ deqEvent[i].roc = deqEvent[i - 1].roc
       /\ \A t \in ToSet(deqEvent[i].data) : t.kind # "start"
=============================================================================
