------------------------------- MODULE TsMerge -------------------------------
(***************************************************************************)
(* The collectors that merge by time: "Ts" (CaliceTsDataCollector) merges  *)
(* AHCAL and BIF events whose intervals overlap; "Tel" adds the telescope  *)
(* event of the trigger (CaliceTelDataCollector and, with a lock and       *)
(* queues for devices it never reads, AhcalBifTluAlpidTableDataCollector). *)
(*                                                                         *)
(* AHCAL times are counted in another clock from another zero: they are    *)
(* multiplied by Scale (<<5) and shifted by an offset that the first       *)
(* events of the run, the BORE events, determine.  All times are unsigned  *)
(* and wrap at TimeMod (2^64).  The producers are external: the events of  *)
(* each are in the order of their times, but for those that end no later   *)
(* than they begin (Untimed).  run, taken and flooded are history.         *)
(***************************************************************************)
EXTENDS Integers, Sequences, FiniteSets, Subsequences

CONSTANTS
  Kinds,                \* subset of {"Ts", "Tel"}
  Scale, Lead, TimeMod, \* 32, 120, 2^64
  Starts,               \* FirstROCStartTS of AHCAL and BIF: pairs
  CalSpans, BifSpans,   \* spans of timed events, counted from the start
  Shifts,               \* values of m_shift_tgn_cal
  CalLimit, Limit,      \* 100000 and 10000: events that a queue holds
  BoreChoices,          \* whether a first event is marked BORE
  MaxEvents, MaxTrig, MaxRuns,  \* bounds: events of a producer, triggers
  MaxUntimed,           \* bound: untimed events of a producer in a run
  MaxWritten,           \* bound: events written by rounds that take none
  None                          \* no event

(* AHCAL and BIF events, and events of the telescope. *)
SpanEvents == [beg : Nat, end : Nat, trig : Int, bore : BOOLEAN, run : Nat]
TelEvents  == [trig : Int, bore : BOOLEAN, run : Nat]

Parameters ==
  /\ Kinds \subseteq {"Ts", "Tel"} /\ Shifts \subseteq Int
  /\ Scale \in Nat \ {0} /\ Lead \in Nat /\ TimeMod \in Nat \ {0}
  /\ Starts \subseteq Nat \X Nat
  /\ CalSpans \cup BifSpans \subseteq {s \in Nat \X Nat : s[1] < s[2]}
  /\ CalLimit \in Nat \ {0} /\ Limit \in Nat \ {0}
  /\ BoreChoices \subseteq BOOLEAN
  /\ MaxTrig \in Nat /\ MaxUntimed \in Nat /\ MaxWritten \in Nat
  /\ None \notin SpanEvents \cup TelEvents

(* No AHCAL time, brought to BIF counts, reaches 2^64. *)
TimesFit ==
  \A s \in Starts, c \in CalSpans : c[2] * Scale + s[2] + Lead < TimeMod

ASSUME TsAssumption == Parameters /\ TimesFit

VARIABLES
  kind, shift, start,           \* configuration and the true zero of AHCAL and BIF time
  accept,                       \* m_accept_ev
  qCal, qBif, qTel,             \* m_que_cal, m_que_bif, m_que_tel
  lastCal, lastBif, lastTel,    \* m_ev_last_*
  endCal, endBif,               \* m_ts_end_last_*
  offset, offsetDone,           \* m_ts_offset_cal2bif, m_offset_ts_done
  at,                           \* "idle" or "loop" inside DoReceive
  written,                      \* written events of the run
  run, made, taken, flooded     \* history: run, events made and taken from
                                \* the queues in it, a queue was cleared

config == <<kind, shift, start>>
results == <<lastCal, lastBif, lastTel, endCal, endBif, written, taken>>
tsVars  == <<config, accept, qCal, qBif, qTel, results, offset, offsetDone, at,
             run, made, flooded>>
-----------------------------------------------------------------------------
Least(a, b) == IF a < b THEN a ELSE b

NoEvents == [cal |-> <<>>, bif |-> <<>>, tel |-> <<>>]

(* Fault: the ends of the last events survive. *)
ClearedButEnds ==
  /\ qCal' = <<>> /\ qBif' = <<>> /\ qTel' = <<>>
  /\ offset' = 0 /\ offsetDone' = FALSE
  /\ UNCHANGED <<endCal, endBif, lastCal, lastBif, lastTel>>

(* What DoStartRun, and in "Tel" DoStopRun as well, sets back.  "Ts" keeps the
   last events; they are out of reach once their ends are 0. *)
Cleared ==
  /\ qCal' = <<>> /\ qBif' = <<>> /\ qTel' = <<>>
  /\ endCal' = 0 /\ endBif' = 0
  /\ offset' = 0 /\ offsetDone' = FALSE
  /\ IF kind = "Ts" THEN UNCHANGED <<lastCal, lastBif, lastTel>>
     ELSE lastCal' = None /\ lastBif' = None /\ lastTel' = None

(* DoStartRun. *)
StartRun ==
  /\ at = "idle" /\ run < MaxRuns
  /\ Cleared
  /\ accept' = TRUE
  /\ run' = run + 1 /\ made' = NoEvents /\ taken' = {} /\ written' = <<>>
  /\ flooded' = FALSE
  /\ start' \in Starts
  /\ UNCHANGED <<kind, shift, at>>

(* DoStopRun. *)
StopRun ==
  /\ at = "idle" /\ kind = "Tel" /\ accept
  /\ Cleared
  /\ accept' = FALSE
  /\ UNCHANGED <<config, at, run, made, taken, written, flooded>>
-----------------------------------------------------------------------------
Timed(e) == e.beg < e.end

(* The spans of the timed events that a producer may make next; those of AHCAL
   in its own counts. *)
Spans(p) ==
  {s \in IF p = "cal" THEN {<<start[1] + c[1], start[1] + c[2]>> : c \in CalSpans}
         ELSE {<<start[2] + c[1], start[2] + c[2]>> : c \in BifSpans} :
     \A i \in DOMAIN made[p] :
       Timed(made[p][i]) => s[1] > made[p][i].beg /\ s[2] > made[p][i].end}

(* AHCAL sets no times when a start or stop is missing, nor for a lost trigger;
   BIF ends a cycle without a stop when the cycle before it ended. *)
Untimed(p) ==
  IF p = "cal" THEN {<<0, 0>>}
  ELSE {s \in {x[1] : x \in Spans("bif")} \X
               ({0} \cup {made.bif[i].end : i \in DOMAIN made.bif}) :
          /\ s[2] <= s[1]
          /\ \A i \in DOMAIN made.bif : Timed(made.bif[i]) => made.bif[i].end <= s[2]}

LastTrig(evs) == IF evs = <<>> THEN 0 ELSE evs[Len(evs)].trig

(* "Ts" reads no trigger number; one will do. *)
Triggers(evs) ==
  {x \in 1 .. MaxTrig : IF kind = "Ts" THEN x = LastTrig(evs) + 1 ELSE x > LastTrig(evs)}

EventsOf(p) ==
  IF p = "tel"
  THEN {[trig |-> t, bore |-> made.tel = <<>>, run |-> run] :
          t \in {x \in 1 .. MaxTrig : x = LastTrig(made.tel) + 1}}
  ELSE {[beg |-> s[1], end |-> s[2], trig |-> t, bore |-> b, run |-> run] :
          s \in IF Cardinality({i \in DOMAIN made[p] : ~Timed(made[p][i])}) < MaxUntimed
                THEN Spans(p) \cup Untimed(p) ELSE Spans(p),
          t \in Triggers(made[p]),
          b \in IF made[p] = <<>> THEN BoreChoices ELSE {FALSE}}

(* The trigger shift: of the AHCAL number when positive, else of the event
   number of the telescope. *)
Shifted(p, e) ==
  CASE kind = "Tel" /\ p = "cal" /\ shift > 0 -> [e EXCEPT !.trig = @ + shift]
    [] kind = "Tel" /\ p = "tel" /\ shift < 0 -> [e EXCEPT !.trig = @ - shift]
    [] OTHER -> e

(* A queue at its limit is cleared and the event dropped ("Tel"). *)
Queued(q, limit, e) ==
  IF kind = "Ts" \/ Len(q) < limit THEN Append(q, e) ELSE <<>>

(* The first events of the run must be BORE; "Ts" asks it of AHCAL only. *)
BoreMissing(qc, qb, qt) ==
  \/ ~Head(qc).bore
  \/ kind = "Tel" /\ (~Head(qb).bore \/ ~Head(qt).bore)

(* Without a BORE event of BIF its start is taken for 0. *)
Offset(qb) == start[1] * Scale - (IF Head(qb).bore THEN start[2] ELSE 0) - Lead

(* "Ts" refuses an event without a timestamp. *)
Refused(p, e) == kind = "Ts" /\ p = "cal" /\ ~Timed(e)

(* DoReceive up to its loop.  Without a BORE event it throws each time. *)
ReceiveEvent(p, e) ==
  LET qc == IF p = "cal" THEN Queued(qCal, CalLimit, Shifted(p, e)) ELSE qCal
      qb == IF p = "bif" THEN Queued(qBif, Limit, e) ELSE qBif
      qt == IF p = "tel" THEN Queued(qTel, Limit, Shifted(p, e)) ELSE qTel
      full == Len(qc) + Len(qb) + Len(qt) < Len(qCal) + Len(qBif) + Len(qTel)
      enough == qc # <<>> /\ qb # <<>> /\ (kind = "Tel" => qt # <<>>)
      throws == enough /\ ~offsetDone /\ BoreMissing(qc, qb, qt)
      goesOn == ~full /\ enough /\ ~throws
  IN  /\ at = "idle"
      /\ qCal' = qc /\ qBif' = qb /\ qTel' = qt
      /\ flooded' = (flooded \/ full)
      /\ offset' = IF goesOn /\ ~offsetDone THEN Offset(qb) ELSE offset
      /\ offsetDone' = (offsetDone \/ goesOn)
      /\ at' = IF goesOn THEN "loop" ELSE "idle"
      /\ UNCHANGED <<config, accept, results, run>>

Receive ==
  \E p \in IF kind = "Ts" THEN {"cal", "bif"} ELSE {"cal", "bif", "tel"} :
    /\ run > 0 /\ accept
    /\ Len(made[p]) < MaxEvents
    /\ \E e \in EventsOf(p) :
         /\ made' = [made EXCEPT ![p] = Append(@, e)]
         /\ IF Refused(p, e)
            THEN /\ at = "idle"
                 /\ UNCHANGED <<config, accept, qCal, qBif, qTel, results, offset,
                                offsetDone, at, run, flooded>>
            ELSE ReceiveEvent(p, e)
-----------------------------------------------------------------------------
ToBifTime(t) == (t * Scale - offset) % TimeMod

FrontCal == Head(qCal)
FrontBif == Head(qBif)
CalBeg == ToBifTime(FrontCal.beg)
CalEnd == ToBifTime(FrontCal.end)
TsBeg  == Least(FrontBif.beg, CalBeg)

(* Fault: the begin of the AHCAL event is taken for its end. *)
TsEndSwapped == Least(FrontBif.end, CalBeg)

TsEnd == Least(FrontBif.end, CalEnd)

TakesBif == FrontBif.beg < TsEnd
TakesCal == CalBeg < TsEnd

(* A round that takes neither front is repeated as it is. *)
Stalls == ~TakesBif /\ ~TakesCal

(* The last event of a producer is used again while it reaches into the
   interval. *)
SubBif ==
  IF TakesBif THEN FrontBif ELSE IF endBif > TsBeg THEN lastBif ELSE None

(* Fault: an AHCAL event is used once. *)
SubCalOnce == IF TakesCal THEN FrontCal ELSE None

SubCal ==
  IF TakesCal THEN FrontCal ELSE IF endCal > TsBeg THEN lastCal ELSE None

(* Fault: the telescope is not waited for. *)
LoopsUnsynchronised ==
  qCal # <<>> /\ qBif # <<>> /\ (kind = "Tel" => qTel # <<>>)

(* The condition of the loop: "Tel" waits until the telescope has reached the
   AHCAL trigger. *)
Loops ==
  /\ qCal # <<>> /\ qBif # <<>>
  /\ kind = "Tel" => qTel # <<>> /\ qTel[Len(qTel)].trig >= FrontCal.trig

LoopEnds ==
  /\ at = "loop" /\ ~Loops
  /\ at' = "idle"
  /\ UNCHANGED <<config, accept, qCal, qBif, qTel, results, offset, offsetDone, run, made, flooded>>

Event(bif, cal, tel) == [bif |-> bif, cal |-> cal, tel |-> tel]

(* What an iteration takes from the two queues. *)
TakeFronts ==
  /\ qBif' = IF TakesBif THEN Tail(qBif) ELSE qBif
  /\ qCal' = IF TakesCal THEN Tail(qCal) ELSE qCal
  /\ lastBif' = IF TakesBif THEN FrontBif ELSE lastBif
  /\ lastCal' = IF TakesCal THEN FrontCal ELSE lastCal
  /\ endBif' = IF TakesBif THEN FrontBif.end ELSE endBif
  /\ endCal' = IF TakesCal THEN CalEnd ELSE endCal
  /\ taken' = taken \cup (IF TakesBif THEN {<<"bif", FrontBif>>} ELSE {})
                    \cup (IF TakesCal THEN {<<"cal", FrontCal>>} ELSE {})

MergeTs ==
  /\ at = "loop" /\ kind = "Ts" /\ Loops
  /\ Stalls => Len(written) < MaxWritten
  /\ TakeFronts
  /\ written' = Append(written, Event(SubBif, SubCal, None))
  /\ UNCHANGED <<config, accept, qTel, lastTel, offset, offsetDone, at, run, made, flooded>>

(* Only a BIF event that is used again, or an AHCAL event, gives the merged
   event a trigger number; without one nothing is written. *)
MergeUntriggered ==
  /\ at = "loop" /\ kind = "Tel" /\ Loops
  /\ SubCal = None /\ (TakesBif \/ SubBif = None)
  /\ TakeFronts
  /\ UNCHANGED <<config, accept, qTel, lastTel, written, offset, offsetDone, at, run, made, flooded>>

(* What the trigger takes from the queue of the telescope: the events before
   it, and its own one, or the last one when it was that. *)
FromTel(trig) ==
  LET passed == {i \in DOMAIN qTel : \A j \in 1 .. i : qTel[j].trig < trig}
      early == Selected(qTel, passed)
      rest  == Selected(qTel, DOMAIN qTel \ passed)
      last  == IF early = <<>> THEN lastTel ELSE early[Len(early)]
      joins == rest # <<>> /\ Head(rest).trig = trig
  IN  [early |-> early,
       tel   |-> IF joins THEN Head(rest)
                 ELSE IF last # None /\ last.trig = trig THEN last ELSE None,
       rest  |-> IF joins THEN Tail(rest) ELSE rest,
       last  |-> IF joins THEN Head(rest) ELSE last]

(* Telescope events before the trigger are written alone, the one of the
   trigger joins the event. *)
MergeTel ==
  /\ at = "loop" /\ kind = "Tel" /\ Loops
  /\ SubCal # None \/ (~TakesBif /\ SubBif # None)
  /\ Stalls => Len(written) < MaxWritten
  /\ TakeFronts
  /\ LET t == FromTel(IF SubCal # None THEN SubCal.trig ELSE SubBif.trig)
     IN  /\ written' = written \o [i \in DOMAIN t.early |-> Event(None, None, t.early[i])]
                       \o <<Event(SubBif, SubCal, t.tel)>>
         /\ qTel' = t.rest
         /\ lastTel' = t.last
  /\ UNCHANGED <<config, accept, offset, offsetDone, at, run, made, flooded>>
-----------------------------------------------------------------------------
TsInit ==
  /\ kind \in Kinds /\ start \in Starts
  /\ shift \in IF kind = "Tel" THEN Shifts ELSE {0}
  /\ accept = (kind = "Ts")
  /\ qCal = <<>> /\ qBif = <<>> /\ qTel = <<>>
  /\ lastCal = None /\ lastBif = None /\ lastTel = None
  /\ endCal = 0 /\ endBif = 0 /\ offset = 0 /\ offsetDone = FALSE
  /\ at = "idle" /\ written = <<>> /\ run = 0 /\ made = NoEvents /\ taken = {}
  /\ flooded = FALSE

Loop == LoopEnds \/ MergeTs \/ MergeUntriggered \/ MergeTel

TsNext ==
  \/ StartRun
  \/ StopRun
  \/ Receive
  \/ LoopEnds
  \/ MergeTs
  \/ MergeUntriggered
  \/ MergeTel

TsSpec == TsInit /\ [][TsNext]_tsVars

(* The thread that is inside DoReceive goes on. *)
TsFairSpec == TsSpec /\ WF_tsVars(Loop)
-----------------------------------------------------------------------------
(* The interval of an AHCAL event in BIF time, without any wrap. *)
TrueBeg(e) == (e.beg - start[1]) * Scale + start[2] + Lead
TrueEnd(e) == (e.end - start[1]) * Scale + start[2] + Lead

Overlap(c, b) == TrueBeg(c) < b.end /\ b.beg < TrueEnd(c)

(* A run whose AHCAL and BIF events have times, and in which BIF sent BORE. *)
ProperRun ==
  /\ \A p \in {"cal", "bif"} : \A i \in DOMAIN made[p] : Timed(made[p][i])
  /\ made.bif # <<>> => made.bif[1].bore

(* AHCAL and BIF events of a proper run that are written together overlap in
   true time and are of this run, whatever the order of arrival, however long one event
   spans several of the other, and whichever clock began first. *)
SubeventsOverlap ==
  ProperRun => \A i \in DOMAIN written :
    written[i].cal # None /\ written[i].bif # None
    => Overlap(written[i].cal, written[i].bif) /\ written[i].cal.run = written[i].bif.run

(* In a proper run no overlap is overlooked: an AHCAL event that was taken from
   its queue is written together with a BIF event, and a BIF event with an AHCAL
   event, if any event of the other producer that was taken overlaps it.  (Not with every
   one that does: of two pairs in the fronts only the pairs are written.) *)
OverlapSeen ==
  ProperRun => \A x, y \in taken :
    x[1] = "cal" /\ y[1] = "bif" /\ Overlap(x[2], y[2])
    => /\ \E i \in DOMAIN written : written[i].cal = x[2] /\ written[i].bif # None
       /\ \E i \in DOMAIN written : written[i].bif = y[2] /\ written[i].cal # None

(* In a proper run an event with an AHCAL sub-event holds the telescope event
   of its trigger, if the telescope sent one and no queue overflowed; no
   telescope event is written with another trigger. *)
TelescopeJoined ==
  kind = "Tel" /\ ProperRun => \A i \in DOMAIN written : written[i].cal # None =>
    IF written[i].tel # None THEN written[i].tel.trig = written[i].cal.trig
    ELSE flooded \/ \A j \in DOMAIN made.tel :
                      Shifted("tel", made.tel[j]).trig # written[i].cal.trig

(* An event without times is in front: no round will take it. *)
Stuck == Loops /\ (~Timed(FrontCal) \/ ~Timed(FrontBif))

(* Every iteration takes an event from a queue, so that DoReceive returns, but
   for ever repeats the round at an event that ends no later than it begins. *)
ReceiveReturns == at = "loop" ~> (at = "idle" \/ Stuck)
=============================================================================
