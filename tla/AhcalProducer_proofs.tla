------------------------ MODULE AhcalProducer_proofs ------------------------
(***************************************************************************)
(* Two parts of the AHCAL producer: its threads, and the event builder of  *)
(* its ScReader.                                                           *)
(*                                                                         *)
(* The threads (AhcalProducer).  Whatever RunLoop, the command thread,     *)
(* Labview and a failing collector do: no event is sent outside a run, the *)
(* raw file is not closed before RunLoop has read its last, a stopped run  *)
(* is read to its end, and its events are sent once, in order and between  *)
(* BORE and EORE.  RunLoop may outlive the run it belongs to; the first    *)
(* two rest on _stopped alone.  The last one rests on how the events in    *)
(* the queue and those that were sent divide what ScReader built           *)
(* (FrameInv).                                                             *)
(*                                                                         *)
(* The event builder (EventBuilder).  What each iteration of the four      *)
(* loops does to a state of the maps (the lemmas about BuildROCCycle and   *)
(* the others), what buildEvents therefore keeps (BuildEventsKeep), and    *)
(* the invariants: of the maps (MapsInv), of the events (EventsInv), of    *)
(* where the hits are (HitsInv), of the numbers (NumbersInv), of the order *)
(* (OrderInv) and of what became of each trigger (BuiltInv).  Most rests   *)
(* on one argument: a cycle that was built is frozen, too old for any      *)
(* packet still to come.                                                   *)
(***************************************************************************)
EXTENDS AhcalProducer, EventBuilder, SharedLemmas, FiniteSetTheorems, TLAPS

(* A run is over only when RunLoop raised _stopped; RunLoop looks at it before
   every send, and nobody lowers it while RunLoop is there. *)
StopInv ==
  /\ inRun \in BOOLEAN /\ stopped \in BOOLEAN
  /\ ~inRun => stopped
  /\ pc = "send" => ~stopped
-----------------------------------------------------------------------------
LEMMA StopInit == Init => StopInv
BY DEF Init, StopInv

LEMMA StopStep == StopInv /\ [Next]_vars => StopInv' /\ (out' # out => inRun')
<1> SUFFICES ASSUME StopInv, [Next]_vars
             PROVE  StopInv' /\ (out' # out => inRun')
  OBVIOUS
<1> USE DEF StopInv
<1>1. CASE LoopTop
  BY <1>1 DEF LoopTop, command, flags, events
<1>2. CASE ReadData
  BY <1>2 DEF ReadData, MaySend, command, flags
<1>3. CASE Send
  <2>1. pc = "send" /\ pc' = "top" /\ inRun' = inRun /\ stopped' \in {stopped, TRUE}
    BY <1>3 DEF Send, command
  <2>2. inRun
    BY <2>1
  <2> QED BY <2>1, <2>2
<1>4. CASE ReadEnds
  BY <1>4 DEF ReadEnds, command, flags, events
<1>5. CASE Flush
  <2>1. pc' = "close" /\ inRun' = inRun /\ stopped' = TRUE
    BY <1>5 DEF Flush, command
  <2>2. stopped => out' = out
    BY <1>5 DEF Flush, MaySend
  <2> QED BY <2>1, <2>2
<1>6. CASE Close
  BY <1>6 DEF Close, command, flags
<1>7. CASE Signal
  BY <1>7 DEF Signal, command, flags, events
<1>8. CASE DoStartRun
  BY <1>8 DEF DoStartRun
<1>9. CASE StopBegins
  BY <1>9 DEF StopBegins, flags, events
<1>10. CASE StopRunning
  BY <1>10 DEF StopRunning, events
<1>11. CASE StopReturns
  BY <1>11 DEF StopReturns, flags, events
<1>12. CASE DoTerminate
  BY <1>12 DEF DoTerminate, flags, events
<1>13. CASE PeerSends
  BY <1>13 DEF PeerSends, command, flags, events
<1>14. CASE PeerCloses \/ PeerResets
  BY <1>14 DEF PeerCloses, PeerResets, PeerGoes, command, flags, events
<1>15. CASE UNCHANGED vars
  BY <1>15 DEF vars, command, flags, events
<1> QED BY <1>1, <1>2, <1>3, <1>4, <1>5, <1>6, <1>7, <1>8, <1>9, <1>10, <1>11,
           <1>12, <1>13, <1>14, <1>15 DEF Next, RunLoop

(* Spec implies NotToStoppedCollector: once DoStopRun has returned, RunLoop
   sends nothing, even if it is still reading. *)
THEOREM NothingSentAfterStop == Spec => NotToStoppedCollector
<1>1. StopInv /\ [Next]_vars => [out' # out => inRun']_vars
  BY StopStep
<1>2. Spec => []StopInv
  BY StopInit, StopStep, PTL DEF Spec
<1> QED BY <1>1, <1>2, PTL DEF Spec, NotToStoppedCollector
-----------------------------------------------------------------------------
(* While the collector has not failed, _stopped tells that the loop is over;
   until then DoStopRun waits, and the raw file is open. *)
RawInv ==
  /\ rawFile \in Nat /\ nRead \in Nat /\ stopped \in BOOLEAN /\ inRun \in BOOLEAN
  /\ ~inRun => stopped
  /\ inRun => rawOpen = TRUE
  /\ failed = FALSE => /\ stopped => Over
                      /\ rawFile = nRead
  /\ failed \in BOOLEAN

LEMMA RawStep == RawInv /\ [Next]_vars => RawInv'
<1> SUFFICES ASSUME RawInv, [Next]_vars
             PROVE  RawInv'
  OBVIOUS
<1> USE DEF RawInv, Over
<1>1. CASE LoopTop
  BY <1>1 DEF LoopTop, command, flags, events, raw
<1>2. CASE ReadData
  <2>1. pc = "read" /\ pc' \in {"send", "top"} /\ UNCHANGED <<inRun, stopped, rawOpen, failed>>
    BY <1>2 DEF ReadData, command, flags
  <2>2. nRead' = nRead + 1 /\ rawFile' = IF rawOpen THEN rawFile + 1 ELSE rawFile
    BY <1>2 DEF ReadData
  <2>3. CASE failed
    BY <2>1, <2>2, <2>3
  <2>4. CASE ~failed
    <3>1. ~stopped /\ inRun /\ rawOpen = TRUE
      BY <2>1, <2>4
    <3> QED  BY <2>1, <2>2, <2>4, <3>1
  <2> QED  BY <2>3, <2>4
<1>3. CASE Send
  <2>1. /\ pc = "send" /\ pc' = "top" /\ UNCHANGED <<inRun, rawOpen, rawFile, nRead>>
        /\ \/ stopped' = stopped /\ failed' = failed
           \/ stopped' = TRUE /\ failed' = TRUE
    BY <1>3 DEF Send, command, raw, sendallevents, SendThrows
  <2>2. CASE stopped' = stopped /\ failed' = failed
    BY <2>1, <2>2
  <2>3. CASE stopped' = TRUE /\ failed' = TRUE
    BY <2>1, <2>3
  <2> QED  BY <2>1, <2>2, <2>3
<1>4. CASE ReadEnds
  BY <1>4 DEF ReadEnds, command, flags, events, raw
<1>5. CASE Flush
  <2>1. /\ pc' = "close" /\ stopped' = TRUE /\ UNCHANGED <<inRun, rawOpen, rawFile, nRead>>
        /\ failed' = failed \/ failed' = TRUE
    BY <1>5 DEF Flush, command, raw, sendallevents, SendThrows
  <2> QED  BY <2>1
<1>6. CASE Close
  BY <1>6 DEF Close, command, flags, raw
<1>7. CASE Signal
  BY <1>7 DEF Signal, command, flags, events, raw
<1>8. CASE DoStartRun
  BY <1>8 DEF DoStartRun
<1>9. CASE StopBegins
  BY <1>9 DEF StopBegins, flags, events, raw
<1>10. CASE StopRunning
  BY <1>10 DEF StopRunning, events, raw
<1>11. CASE StopReturns
  BY <1>11 DEF StopReturns, flags, events
<1>12. CASE DoTerminate
  BY <1>12 DEF DoTerminate, flags, events, raw
<1>13. CASE PeerSends
  BY <1>13 DEF PeerSends, command, flags, events, raw
<1>14. CASE PeerCloses \/ PeerResets
  BY <1>14 DEF PeerCloses, PeerResets, PeerGoes, command, flags, events, raw
<1>15. CASE UNCHANGED vars
  BY <1>15 DEF vars, command, flags, events, raw
<1> QED BY <1>1, <1>2, <1>3, <1>4, <1>5, <1>6, <1>7, <1>8, <1>9, <1>10, <1>11,
           <1>12, <1>13, <1>14, <1>15 DEF Next, RunLoop

LEMMA RawInit == Init => RawInv
<1> SUFFICES ASSUME Init PROVE RawInv
  OBVIOUS
<1>1. /\ inRun = FALSE /\ stopped = TRUE /\ failed = FALSE /\ pc = "idle"
      /\ rawFile = 0 /\ nRead = 0
  BY DEF Init
<1>2. rawFile \in Nat /\ nRead \in Nat /\ rawFile = nRead
  BY <1>1
<1> QED  BY <1>1, <1>2, Zenon DEF RawInv, Over

(* Unless the collector failed, every byte that RunLoop reads is written to the
   raw file, also what comes after the stop: DoStopRun closes it last. *)
THEOREM RawFileKept == Spec => []RawFileComplete
<1>2. RawInv => RawFileComplete
  BY DEF RawInv, RawFileComplete
<1> QED BY <1>2, RawInit, RawStep, PTL DEF Spec
-----------------------------------------------------------------------------
(* No byte is lost between Labview and RunLoop, a connection that failed to
   open has none, and RunLoop leaves the connection only when it is used up,
   unless it was told to terminate. *)
DrainInv ==
  /\ nRead \in Nat /\ pending \in Nat /\ chunks \in Nat
  /\ peer # "reset" => nRead + pending = chunks
  /\ fd = "bad" => peer = "none" /\ pending = 0
  /\ pc \in {"flush", "close", "signal", "idle"} /\ input = "tcp" /\ ~terminated
       => peer # "open" /\ pending = 0

LEMMA DrainStep == DrainInv /\ [Next]_vars => DrainInv'
<1> SUFFICES ASSUME DrainInv, [Next]_vars
             PROVE  DrainInv'
  OBVIOUS
<1> USE DEF DrainInv
<1>1. CASE LoopTop
  BY <1>1 DEF LoopTop, LeavesLoop, command, source
<1>2. CASE ReadData
  BY <1>2 DEF ReadData, command
<1>3. CASE Send
  BY <1>3 DEF Send, command, source
<1>4. CASE ReadEnds
  BY <1>4 DEF ReadEnds, command, source
<1>5. CASE Flush
  BY <1>5 DEF Flush, command, source
<1>6. CASE Close
  BY <1>6 DEF Close, command, source
<1>7. CASE Signal
  BY <1>7 DEF Signal, command, source
<1>8. CASE DoStartRun
  <2>1. nRead' = 0 /\ pc' = "top" /\ chunks' = pending'
    BY <1>8 DEF DoStartRun
  <2>2. pending' \in Nat /\ (fd' = "bad" => peer' = "none" /\ pending' = 0)
    BY <1>8, ProducerAssumption DEF DoStartRun, OpenConnection
  <2>3. nRead' \in Nat /\ chunks' \in Nat /\ nRead' + pending' = chunks'
    <3>1. \A x \in Nat : 0 + x = x
      OBVIOUS
    <3>2. pending' \in Nat /\ 0 \in Nat
      BY <2>2
    <3> QED  BY <2>1, <3>1, <3>2, Zenon
  <2>4. pc' \notin {"flush", "close", "signal", "idle"}
    BY <2>1
  <2> QED  BY <2>2, <2>3, <2>4
<1>9. CASE StopBegins
  BY <1>9 DEF StopBegins
<1>10. CASE StopRunning
  BY <1>10 DEF StopRunning, source
<1>11. CASE StopReturns
  BY <1>11 DEF StopReturns, source
<1>12. CASE DoTerminate
  BY <1>12 DEF DoTerminate, source
<1>13. CASE PeerSends
  BY <1>13 DEF PeerSends, command
<1>14. CASE PeerCloses \/ PeerResets
  BY <1>14 DEF PeerCloses, PeerResets, PeerGoes, command
<1>15. CASE UNCHANGED vars
  BY <1>15 DEF vars, command, source
<1> QED BY <1>1, <1>2, <1>3, <1>4, <1>5, <1>6, <1>7, <1>8, <1>9, <1>10, <1>11,
           <1>12, <1>13, <1>14, <1>15 DEF Next, RunLoop

(* All that Labview sent until it closed the connection was read when the loop
   is over, however the stop, the sending and the reading interleave. *)
THEOREM StoppedRunDrained == Spec => []StopDrains
<1>1. Init => DrainInv
  BY DEF Init, DrainInv
<1>2. DrainInv => StopDrains
  BY DEF DrainInv, StopDrains, Over
<1> QED BY <1>1, <1>2, DrainStep, PTL DEF Spec
-----------------------------------------------------------------------------
(* The queue q holds the last of the events built, of which B tells whether they
   have enough hits. *)
Numbered(q, B) ==
  /\ q \in Seq(EventType) /\ B \in Seq(BOOLEAN) /\ Len(q) <= Len(B)
  /\ \A i \in 1 .. Len(q) : /\ q[i].id = Len(B) - Len(q) + i
                            /\ q[i].hits = B[Len(B) - Len(q) + i]

(* o has those of the first m events that have enough hits. *)
SentUpTo(o, B, m) ==
  /\ o \in Seq(EventType)
  /\ \A i, j \in 1 .. Len(o) : i < j => o[i].id < o[j].id
  /\ \A i \in 1 .. Len(o) : /\ o[i].id \in 1 .. m /\ B[o[i].id] = TRUE
                            /\ o[i].bore <=> o[i].id = 1
  /\ \A n \in 1 .. m : B[n] = TRUE => \E i \in 1 .. Len(o) : o[i].id = n

Unmarked(o) == \A i \in 1 .. Len(o) : o[i].eore = FALSE

(* Unless the collector failed.  One event at least is held back until the loop
   is over: it may be the last. *)
FrameInv ==
  failed = FALSE =>
    /\ Numbered(deqEvent, built)
    /\ SentUpTo(out, built, Len(built) - Len(deqEvent))
    /\ BORE_sent \in BOOLEAN /\ (BORE_sent = TRUE <=> Len(built) > Len(deqEvent))
    /\ ~Over => Unmarked(out) /\ (deqEvent = <<>> => built = <<>>)
    /\ Over => /\ deqEvent = <<>>
               /\ \A i \in 1 .. Len(out) : out[i].eore <=> out[i].id = Len(built)

LEMMA CompletedQueued ==
  ASSUME Numbered(deqEvent, built), NEW n \in Nat, NEW new \in Completed(n),
         SentUpTo(out, built, Len(built) - Len(deqEvent))
  PROVE  LET q == deqEvent \o new
             B == built \o [i \in 1 .. n |-> new[i].hits]
         IN  /\ Numbered(q, B) /\ SentUpTo(out, B, Len(B) - Len(q))
             /\ Len(B) - Len(q) = Len(built) - Len(deqEvent)
             /\ Len(q) = Len(deqEvent) + n /\ Len(B) = Len(built) + n
<1> DEFINE hs == [i \in 1 .. n |-> new[i].hits]
           d  == Len(built) - Len(deqEvent)
           q  == deqEvent \o new
           B  == built \o hs
<1>1. /\ new \in Seq(EventType) /\ Len(new) = n /\ hs \in Seq(BOOLEAN) /\ Len(hs) = n
      /\ \A i \in 1 .. n : new[i].id = Len(built) + i /\ new[i].hits = hs[i]
  <2>1. PICK h \in [1 .. n -> BOOLEAN] :
          new = [i \in 1 .. n |-> [id |-> Len(built) + i, hits |-> h[i], bore |-> FALSE, eore |-> FALSE]]
    BY DEF Completed
  <2>2. Len(built) \in Nat
    BY LenProperties DEF Numbered
  <2>3. \A i \in 1 .. n : [id |-> Len(built) + i, hits |-> h[i], bore |-> FALSE, eore |-> FALSE] \in EventType
    BY <2>2 DEF EventType
  <2>4. new \in Seq(EventType) /\ Len(new) = n
    BY <2>1, <2>3
  <2>5. \A i \in 1 .. n : new[i].id = Len(built) + i /\ new[i].hits = h[i] /\ new[i].hits \in BOOLEAN
    BY <2>1
  <2>6. hs \in Seq(BOOLEAN) /\ Len(hs) = n
    BY <2>5
  <2> QED  BY <2>4, <2>5, <2>6
<1>2. deqEvent \in Seq(EventType) /\ built \in Seq(BOOLEAN) /\ Len(deqEvent) \in Nat /\ Len(built) \in Nat
  BY LenProperties DEF Numbered
<1> HIDE DEF hs, q, B
<1>4. /\ q \in Seq(EventType) /\ Len(q) = Len(deqEvent) + n
      /\ B \in Seq(BOOLEAN) /\ Len(B) = Len(built) + n
  <2>1. q \in Seq(EventType) /\ Len(q) = Len(deqEvent) + Len(new)
    BY <1>1, <1>2, Concatenated DEF q
  <2>2. B \in Seq(BOOLEAN) /\ Len(B) = Len(built) + Len(hs)
    BY <1>1, <1>2, Concatenated, ZenonT(60) DEF B
  <2> QED  BY <1>1, <2>1, <2>2
<1>5. /\ \A i \in 1 .. Len(deqEvent) : q[i] = deqEvent[i]
      /\ \A i \in 1 .. n : q[Len(deqEvent) + i] = new[i]
  BY <1>1, <1>2, Concatenated DEF q
<1>6. /\ \A i \in 1 .. Len(built) : B[i] = built[i]
      /\ \A i \in 1 .. n : B[Len(built) + i] = hs[i]
  BY <1>1, <1>2, Concatenated DEF B
<1>7. ASSUME NEW i \in 1 .. Len(q)
      PROVE  q[i].id = Len(B) - Len(q) + i /\ q[i].hits = B[Len(B) - Len(q) + i]
  <2>1. CASE i \in 1 .. Len(deqEvent)
    <3>1. Len(B) - Len(q) + i = Len(built) - Len(deqEvent) + i
      BY <1>2, <1>4
    <3>2. Len(built) - Len(deqEvent) + i \in 1 .. Len(built)
      BY <1>2, <2>1 DEF Numbered
    <3>3. /\ deqEvent[i].id = Len(built) - Len(deqEvent) + i
          /\ deqEvent[i].hits = built[Len(built) - Len(deqEvent) + i]
      BY <2>1 DEF Numbered
    <3>4. B[Len(B) - Len(q) + i] = built[Len(built) - Len(deqEvent) + i]
      BY <1>6, <3>1, <3>2
    <3> QED  BY <1>5, <2>1, <3>1, <3>3, <3>4
  <2>2. CASE i \notin 1 .. Len(deqEvent)
    <3>1. PICK k \in 1 .. n : i = Len(deqEvent) + k
      <4>1. i - Len(deqEvent) \in 1 .. n /\ i = Len(deqEvent) + (i - Len(deqEvent))
        BY <1>2, <1>4, <2>2
      <4> QED  BY <4>1
    <3>2. Len(B) - Len(q) + i = Len(built) + k
      BY <1>2, <1>4, <3>1
    <3> QED  BY <1>1, <1>5, <1>6, <3>1, <3>2, ZenonT(60)
  <2> QED  BY <2>1, <2>2
<1>8. Len(q) <= Len(B) /\ Len(B) - Len(q) = d /\ d \in 0 .. Len(built)
  BY <1>2, <1>4 DEF Numbered
<1>9. Numbered(q, B)
  BY <1>4, <1>7, <1>8 DEF Numbered
<1>10. \A k \in 1 .. d : B[k] = built[k]
  BY <1>2, <1>6, <1>8
<1>11. SentUpTo(out, B, d)
  <2> HIDE DEF d
  <2>1. SentUpTo(out, built, d)
    BY DEF d
  <2> QED  BY <1>10, <2>1 DEF SentUpTo
<1> QED  BY <1>4, <1>8, <1>9, <1>11 DEF hs, q, B

(* The events of mk, the first of which is the one after event d: BORE is on the
   first of the run, EORE on the last if none is held back. *)
WellMarked(mk, B, d, min) ==
  /\ mk \in Seq(EventType)
  /\ \A i \in 1 .. Len(mk) :
       /\ mk[i].id = d + i /\ mk[i].hits = B[d + i]
       /\ mk[i].bore <=> BORE_sent = FALSE /\ i = 1
       /\ mk[i].eore <=> min = 0 /\ i = Len(mk)

LEMMA MarkedEvents ==
  ASSUME NEW q, NEW B, Numbered(q, B), NEW min \in {0, 1}, BORE_sent \in BOOLEAN
  PROVE  /\ WellMarked(Marked(q, min), B, Len(B) - Len(q), min)
         /\ Len(Marked(q, min)) = IF Len(q) >= min THEN Len(q) - min ELSE 0
<1> DEFINE due == Due(q, min)
           marked == Marked(q, min)
           d == Len(B) - Len(q)
<1>1. q \in Seq(EventType) /\ Len(q) \in Nat /\ \A i \in 1 .. Len(q) : q[i] \in EventType
  BY LenProperties, ElementOfSeq DEF Numbered
<1>2. Len(q) - min \in Int /\ 1 \in Int /\ 1 .. Len(q) - min \subseteq 1 .. Len(q)
  BY <1>1
<1>3. /\ due \in Seq(EventType)
      /\ Len(due) = IF 1 <= Len(q) - min THEN (Len(q) - min) - 1 + 1 ELSE 0
      /\ \A i \in 1 .. (Len(q) - min) - 1 + 1 : due[i] = q[1 + i - 1]
  <2>1. \A i \in 1 .. Len(q) - min : q[i] \in EventType
    BY <1>1, <1>2
  <2> QED  BY <1>2, <2>1, SubSeqProperties DEF Due
<1> HIDE DEF due
<1>4. Len(due) = (IF Len(q) >= min THEN Len(q) - min ELSE 0) /\ Len(due) \in Nat
  BY <1>1, <1>3
<1>5. ASSUME NEW i \in 1 .. Len(due)
      PROVE  due[i] = q[i] /\ i \in 1 .. Len(q)
  <2>1. i \in 1 .. (Len(q) - min) - 1 + 1 /\ 1 + i - 1 = i /\ i \in 1 .. Len(q)
    BY <1>1, <1>4
  <2> QED  BY <1>3, <2>1
<1>6. marked = [i \in 1 .. Len(due) |-> [due[i] EXCEPT !.bore = ~BORE_sent /\ i = 1,
                                                   !.eore = min = 0 /\ i = Len(due)]]
  <2>1. DOMAIN due = 1 .. Len(due)
    BY <1>3, LenProperties
  <2> QED  BY <2>1 DEF Marked, due
<1> HIDE DEF marked
<1>7. ASSUME NEW i \in 1 .. Len(due)
      PROVE  /\ marked[i] \in EventType
             /\ marked[i].id = q[i].id /\ marked[i].hits = q[i].hits
             /\ marked[i].bore <=> BORE_sent = FALSE /\ i = 1
             /\ marked[i].eore <=> min = 0 /\ i = Len(due)
  <2>1. q[i] \in EventType /\ due[i] = q[i]
    BY <1>1, <1>5
  <2>2. marked[i] = [q[i] EXCEPT !.bore = ~BORE_sent /\ i = 1, !.eore = min = 0 /\ i = Len(due)]
    BY <1>6, <2>1
  <2> QED  BY <2>1, <2>2 DEF EventType
<1>8. marked \in Seq(EventType) /\ Len(marked) = Len(due)
  <2>1. marked \in [1 .. Len(due) -> EventType]
    BY <1>6, <1>7
  <2>2. marked \in Seq(EventType)
    BY <1>4, <2>1, SeqDef
  <2>3. DOMAIN marked = 1 .. Len(due)
    BY <2>1
  <2> QED  BY <1>4, <2>2, <2>3, LenProperties
<1>9. ASSUME NEW i \in 1 .. Len(marked)
      PROVE  marked[i].id = d + i /\ marked[i].hits = B[d + i]
  <2>1. i \in 1 .. Len(due) /\ i \in 1 .. Len(q)
    BY <1>5, <1>8
  <2>2. q[i].id = Len(B) - Len(q) + i /\ q[i].hits = B[Len(B) - Len(q) + i]
    BY <2>1 DEF Numbered
  <2> QED  BY <1>7, <2>1, <2>2
<1>10. WellMarked(marked, B, d, min)
  <2> HIDE DEF d
  <2> QED  BY <1>7, <1>8, <1>9 DEF WellMarked
<1> QED  BY <1>4, <1>8, <1>10 DEF marked

EoreOn(o, S) == \A i \in 1 .. Len(o) : o[i].eore <=> o[i].id \in S

(* After sendallevents, out has all of the events that left the queue and have
   enough hits. *)
LEMMA EventsSent ==
  ASSUME NEW q, NEW B, Numbered(q, B), NEW min \in {0, 1},
         BORE_sent \in BOOLEAN, BORE_sent = TRUE <=> Len(B) > Len(q),
         SentUpTo(out, B, Len(B) - Len(q)), Unmarked(out)
  PROVE  LET marked == Marked(q, min)
             m      == Len(B) - Len(q) + Len(marked)
             o      == out \o SentOf(marked)
         IN  /\ SentUpTo(o, B, m)
             /\ EoreOn(o, IF min = 0 /\ Len(marked) > 0 THEN {m} ELSE {})
<1> DEFINE marked == Marked(q, min)
           d == Len(B) - Len(q)
           n == Len(marked)
           S == {i \in DOMAIN marked : marked[i].hits}
           s == SentOf(marked)
           o == out \o s
<1>1. /\ marked \in Seq(EventType)
      /\ \A i \in 1 .. n :
           /\ marked[i].id = d + i /\ marked[i].hits = B[d + i]
           /\ marked[i].bore <=> BORE_sent = FALSE /\ i = 1
           /\ marked[i].eore <=> min = 0 /\ i = n
  <2>1. WellMarked(marked, B, d, min)
    BY MarkedEvents
  <2> HIDE DEF marked, d
  <2> QED  BY <2>1 DEF WellMarked
<1>2. d \in Nat /\ (BORE_sent = FALSE <=> d = 0)
  BY LenProperties DEF Numbered
<1>3. SentUpTo(out, B, d) /\ out \in Seq(EventType)
  BY DEF SentUpTo
<1> HIDE DEF marked, d
<1>4. n \in Nat /\ S = {i \in 1 .. n : marked[i].hits}
  BY <1>1, LenProperties
<1>5. s \in Seq(EventType)
  BY <1>1, SelectedPlaces DEF SentOf
<1>6. PICK h : /\ Lists(h, S, n) /\ Len(h) = Len(s)
               /\ \A k \in 1 .. Len(h) : s[k] = marked[h[k]]
  <2>1. s = Selected(marked, S)
    BY DEF SentOf
  <2>2. marked \in Seq(EventType)
    BY <1>1
  <2> HIDE DEF S, s
  <2>3. \E h : /\ Lists(h, S, Len(marked)) /\ Len(h) = Len(Selected(marked, S))
              /\ \A k \in 1 .. Len(h) : Selected(marked, S)[k] = marked[h[k]]
    BY <2>2, SelectedPlaces
  <2> QED  BY <2>1, <2>3
<1> HIDE DEF n, S, s
<1>7. Len(s) \in Nat
  BY <1>5, LenProperties
<1>8. ASSUME NEW k \in 1 .. Len(s)
      PROVE  /\ h[k] \in 1 .. n /\ s[k].id = d + h[k] /\ B[d + h[k]] = TRUE
             /\ s[k].bore <=> d + h[k] = 1
             /\ s[k].eore <=> min = 0 /\ h[k] = n
  <2>1. h[k] \in 1 .. n /\ h[k] \in S /\ s[k] = marked[h[k]]
    BY <1>6 DEF Lists
  <2>2. marked[h[k]].hits = TRUE
    <3>1. marked[h[k]] \in EventType
      BY <1>1, <2>1, ElementOfSeq DEF n
    <3> QED  BY <1>4, <2>1, <3>1 DEF EventType
  <2>3. BORE_sent = FALSE /\ h[k] = 1 <=> d + h[k] = 1
    BY <1>2, <1>4, <2>1
  <2> QED  BY <1>1, <2>1, <2>2, <2>3
<1>9. /\ o \in Seq(EventType) /\ Len(o) = Len(out) + Len(s) /\ Len(out) \in Nat
      /\ \A i \in 1 .. Len(out) : o[i] = out[i]
      /\ \A i \in 1 .. Len(s) : o[Len(out) + i] = s[i]
      /\ \A i \in 1 .. Len(o) : \/ i \in 1 .. Len(out)
                                \/ \E k \in 1 .. Len(s) : i = Len(out) + k
  BY <1>3, <1>5, Concatenated
<1> HIDE DEF o
<1>10. \A i \in 1 .. Len(out) : /\ out[i].id \in 1 .. d /\ B[out[i].id] = TRUE
                                /\ out[i].bore <=> out[i].id = 1
  BY <1>3 DEF SentUpTo
<1>11. \A i, j \in 1 .. Len(o) : i < j => o[i].id < o[j].id
  <2> SUFFICES ASSUME NEW i \in 1 .. Len(o), NEW j \in 1 .. Len(o), i < j
               PROVE  o[i].id < o[j].id
    OBVIOUS
  <2>1. CASE j \in 1 .. Len(out)
    <3>1. i \in 1 .. Len(out)
      BY <1>9, <2>1
    <3> QED  BY <1>3, <1>9, <2>1, <3>1 DEF SentUpTo
  <2>2. ASSUME NEW k \in 1 .. Len(s), j = Len(out) + k PROVE o[i].id < o[j].id
    <3>1. o[j].id = d + h[k] /\ h[k] \in 1 .. n
      BY <1>8, <1>9, <2>2
    <3>2. CASE i \in 1 .. Len(out)
      <4>1. o[i].id \in 1 .. d
        BY <1>9, <1>10, <3>2
      <4> QED  BY <1>2, <1>4, <3>1, <4>1, SMTT(60)
    <3>3. ASSUME NEW l \in 1 .. Len(s), i = Len(out) + l PROVE o[i].id < o[j].id
      <4>1. o[i].id = d + h[l] /\ h[l] \in 1 .. n
        BY <1>8, <1>9, <3>3
      <4>2. l < k
        BY <1>7, <1>9, <2>2, <3>3
      <4>3. h[l] < h[k]
        BY <1>6, <4>2 DEF Lists
      <4> QED  BY <1>2, <1>4, <3>1, <4>1, <4>3
    <3> QED  BY <1>9, <3>2, <3>3
  <2> QED  BY <1>9, <2>1, <2>2
<1>12. \A i \in 1 .. Len(o) : /\ o[i].id \in 1 .. d + n /\ B[o[i].id] = TRUE
                              /\ o[i].bore <=> o[i].id = 1
                              /\ o[i].eore <=> min = 0 /\ n > 0 /\ o[i].id = d + n
  <2> SUFFICES ASSUME NEW i \in 1 .. Len(o)
               PROVE  /\ o[i].id \in 1 .. d + n /\ B[o[i].id] = TRUE
                      /\ o[i].bore <=> o[i].id = 1
                      /\ o[i].eore <=> min = 0 /\ n > 0 /\ o[i].id = d + n
    OBVIOUS
  <2>1. CASE i \in 1 .. Len(out)
    <3>1. o[i] = out[i] /\ out[i].id \in 1 .. d /\ B[out[i].id] = TRUE
          /\ (out[i].bore <=> out[i].id = 1) /\ out[i].eore = FALSE
      BY <1>9, <1>10, <2>1 DEF Unmarked
    <3>2. out[i].id \in 1 .. d + n /\ ~(n > 0 /\ out[i].id = d + n)
      BY <1>2, <1>4, <3>1
    <3> QED  BY <3>1, <3>2, Zenon
  <2>2. ASSUME NEW k \in 1 .. Len(s), i = Len(out) + k
        PROVE  /\ o[i].id \in 1 .. d + n /\ B[o[i].id] = TRUE
               /\ o[i].bore <=> o[i].id = 1
               /\ o[i].eore <=> min = 0 /\ n > 0 /\ o[i].id = d + n
    <3>1. o[i] = s[k]
      BY <1>9, <2>2
    <3>2. /\ h[k] \in 1 .. n /\ s[k].id = d + h[k] /\ B[d + h[k]] = TRUE
          /\ s[k].bore <=> d + h[k] = 1
          /\ s[k].eore <=> min = 0 /\ h[k] = n
      BY <1>8
    <3>3. d + h[k] \in 1 .. d + n /\ (h[k] = n <=> n > 0 /\ d + h[k] = d + n)
      BY <1>2, <1>4, <3>2, SMTT(60)
    <3> QED  BY <3>1, <3>2, <3>3, Zenon
  <2> QED  BY <1>9, <2>1, <2>2
<1>13. ASSUME NEW x \in 1 .. d + n, B[x] = TRUE
       PROVE  \E i \in 1 .. Len(o) : o[i].id = x
  <2>1. CASE x \in 1 .. d
    <3>1. PICK i \in 1 .. Len(out) : out[i].id = x
      BY <1>3, <1>13, <2>1 DEF SentUpTo
    <3>2. i \in 1 .. Len(o) /\ o[i] = out[i]
      BY <1>7, <1>9, <3>1
    <3> QED  BY <3>1, <3>2
  <2>2. CASE x \notin 1 .. d
    <3>1. x - d \in 1 .. n /\ x = d + (x - d)
      BY <1>2, <1>4, <2>2
    <3>2. PICK y \in 1 .. n : x = d + y
      BY <3>1
    <3>3. y \in S
      BY <1>1, <1>4, <1>13, <3>2
    <3>4. PICK k \in 1 .. Len(s) : h[k] = y
      BY <1>6, <3>2, <3>3 DEF Lists
    <3>5. o[Len(out) + k] = s[k] /\ Len(out) + k \in 1 .. Len(o)
      BY <1>7, <1>9
    <3>6. s[k].id = x
      BY <1>8, <3>2, <3>4
    <3> QED  BY <3>5, <3>6
  <2> QED  BY <2>1, <2>2
<1>14. SentUpTo(o, B, d + n)
  <2>1. o \in Seq(EventType)
    BY <1>9
  <2> QED  BY <1>11, <1>12, <1>13, <2>1, Zenon DEF SentUpTo
<1>15. EoreOn(o, IF min = 0 /\ n > 0 THEN {d + n} ELSE {})
  BY <1>12 DEF EoreOn
<1> QED  BY <1>14, <1>15 DEF marked, d, n, s, o

LEMMA QueueSent ==
  ASSUME NEW q, NEW B, Numbered(q, B), NEW min \in {0, 1},
         BORE_sent \in BOOLEAN, BORE_sent = TRUE <=> Len(B) > Len(q),
         SentUpTo(out, B, Len(B) - Len(q)), Unmarked(out),
         q = <<>> => B = <<>>, sendallevents(q, min)
  PROVE  /\ Numbered(deqEvent', B)
         /\ SentUpTo(out', B, Len(B) - Len(deqEvent'))
         /\ BORE_sent' \in BOOLEAN /\ (BORE_sent' = TRUE <=> Len(B) > Len(deqEvent'))
         /\ min = 1 => Unmarked(out') /\ (deqEvent' = <<>> => B = <<>>)
         /\ min = 0 => /\ deqEvent' = <<>>
                       /\ \A i \in 1 .. Len(out') : out'[i].eore <=> out'[i].id = Len(B)
<1> DEFINE marked == Marked(q, min)
           n == Len(marked)
           o == out \o SentOf(marked)
           r == SubSeq(q, n + 1, Len(q))
<1>1. n = IF Len(q) >= min THEN Len(q) - min ELSE 0
  BY MarkedEvents
<1>2. q \in Seq(EventType) /\ Len(q) \in Nat /\ Len(B) \in Nat /\ Len(q) <= Len(B)
      /\ \A i \in 1 .. Len(q) : q[i] \in EventType
  BY LenProperties, ElementOfSeq DEF Numbered
<1>3. n \in 0 .. Len(q)
  BY <1>1, <1>2
<1>4. /\ SentUpTo(o, B, Len(B) - Len(q) + n)
      /\ EoreOn(o, IF min = 0 /\ n > 0 THEN {Len(B) - Len(q) + n} ELSE {})
  BY EventsSent
<1>5. out' = o /\ deqEvent' = r /\ BORE_sent' = (BORE_sent \/ marked # <<>>)
  BY DEF sendallevents
<1>6. marked # <<>> <=> n > 0
  <2>1. marked \in Seq(EventType)
    BY MarkedEvents DEF WellMarked
  <2> HIDE DEF marked
  <2> QED  BY <2>1, EmptySeq, LenProperties
<1> HIDE DEF marked, n, o
<1>7. /\ r \in Seq(EventType) /\ Len(r) = Len(q) - n
      /\ \A i \in 1 .. Len(r) : r[i] = q[n + i] /\ n + i \in 1 .. Len(q)
  <2>1. n + 1 \in Int /\ Len(q) \in Int /\ n + 1 .. Len(q) \subseteq 1 .. Len(q)
    BY <1>2, <1>3
  <2>2. \A i \in n + 1 .. Len(q) : q[i] \in EventType
    BY <1>2, <2>1
  <2>3. /\ r \in Seq(EventType)
        /\ Len(r) = IF n + 1 <= Len(q) THEN Len(q) - (n + 1) + 1 ELSE 0
        /\ \A i \in 1 .. Len(q) - (n + 1) + 1 : r[i] = q[(n + 1) + i - 1]
    BY <2>1, <2>2, SubSeqProperties
  <2> HIDE DEF r
  <2>4. Len(r) = Len(q) - n
    BY <1>2, <1>3, <2>3
  <2>5. ASSUME NEW i \in 1 .. Len(r)
        PROVE  r[i] = q[n + i] /\ n + i \in 1 .. Len(q)
    <3>1. i \in 1 .. Len(q) - (n + 1) + 1 /\ (n + 1) + i - 1 = n + i /\ n + i \in 1 .. Len(q)
      BY <1>2, <1>3, <2>4
    <3> QED  BY <2>3, <3>1
  <2> QED  BY <2>3, <2>4, <2>5
<1> HIDE DEF r
<1>8. Len(B) - Len(r) = Len(B) - Len(q) + n /\ Len(r) \in Nat /\ Len(r) <= Len(B)
  BY <1>2, <1>3, <1>7
<1>9. Numbered(r, B)
  <2>1. ASSUME NEW i \in 1 .. Len(r)
        PROVE  r[i].id = Len(B) - Len(r) + i /\ r[i].hits = B[Len(B) - Len(r) + i]
    <3>1. /\ q[n + i].id = Len(B) - Len(q) + (n + i)
          /\ q[n + i].hits = B[Len(B) - Len(q) + (n + i)]
      BY <1>7 DEF Numbered
    <3>2. Len(B) - Len(q) + (n + i) = Len(B) - Len(r) + i
      BY <1>2, <1>3, <1>7
    <3> QED  BY <1>7, <3>1, <3>2
  <2>2. r \in Seq(EventType) /\ B \in Seq(BOOLEAN)
    BY <1>7 DEF Numbered
  <2> QED  BY <1>8, <2>1, <2>2 DEF Numbered
<1>10. BORE_sent' \in BOOLEAN /\ (BORE_sent' = TRUE <=> Len(B) > Len(r))
  <2>1. BORE_sent' = (BORE_sent = TRUE \/ n > 0) /\ BORE_sent' \in BOOLEAN
    BY <1>5, <1>6
  <2>2. Len(B) > Len(q) \/ n > 0 <=> Len(B) > Len(r)
    BY <1>2, <1>3, <1>7
  <2> QED  BY <2>1, <2>2
<1>11. ASSUME min = 1
       PROVE  Unmarked(o) /\ (r = <<>> => B = <<>>)
  <2>1. \A i \in 1 .. Len(o) : o[i].eore = FALSE
    <3>1. o \in Seq(EventType)
      BY <1>4 DEF SentUpTo
    <3>2. \A i \in 1 .. Len(o) : o[i] \in EventType
      BY <3>1, ElementOfSeq
    <3>3. \A i \in 1 .. Len(o) : o[i].eore \in BOOLEAN
      BY <3>2 DEF EventType
    <3> QED  BY <1>4, <1>11, <3>3 DEF EoreOn
  <2>2. ASSUME r = <<>> PROVE q = <<>>
    <3>1. Len(r) = 0
      BY <2>2
    <3>2. Len(q) = 0
      BY <1>1, <1>2, <1>7, <1>11, <3>1
    <3> QED  BY <1>2, <3>2, EmptySeq
  <2> QED  BY <2>1, <2>2 DEF Unmarked
<1>12. ASSUME min = 0
       PROVE  r = <<>> /\ \A i \in 1 .. Len(o) : o[i].eore <=> o[i].id = Len(B)
  <2>1. n = Len(q) /\ Len(r) = 0
    BY <1>1, <1>2, <1>7, <1>12
  <2>2. r = <<>>
    BY <1>7, <2>1, EmptySeq
  <2>3. ASSUME NEW i \in 1 .. Len(o)
        PROVE  o[i].eore <=> o[i].id = Len(B)
    <3>1. o[i].eore <=> n > 0 /\ o[i].id = Len(B)
      <4>1. Len(B) - Len(q) + n = Len(B)
        BY <1>2, <2>1
      <4> QED  BY <1>4, <1>12, <4>1 DEF EoreOn
    <3>2. n > 0
      <4>1. o[i].id \in 1 .. Len(B)
        BY <1>2, <1>4, <2>1 DEF SentUpTo
      <4>2. B # <<>>
        BY <1>2, <4>1
      <4>3. Len(q) # 0
        BY <1>2, <4>2, EmptySeq
      <4> QED  BY <1>2, <2>1, <4>3
    <3> QED  BY <3>1, <3>2
  <2> QED  BY <2>2, <2>3
<1> QED  BY <1>4, <1>5, <1>8, <1>9, <1>10, <1>11, <1>12

LEMMA EmptyFrame ==
  /\ Numbered(<<>>, <<>>) /\ SentUpTo(<<>>, <<>>, Len(<<>>) - Len(<<>>)) /\ Unmarked(<<>>)
  /\ ~(Len(<<>>) > Len(<<>>)) /\ 1 .. Len(<<>>) = {}
<1>1. Len(<<>>) = 0 /\ Len(<<>>) - Len(<<>>) = 0 /\ 1 .. Len(<<>>) = {} /\ ~(Len(<<>>) > Len(<<>>))
  OBVIOUS
<1>2. <<>> \in Seq(EventType) /\ <<>> \in Seq(BOOLEAN)
  OBVIOUS
<1>3. Numbered(<<>>, <<>>)
  BY <1>1, <1>2 DEF Numbered
<1>4. SentUpTo(<<>>, <<>>, 0)
  BY <1>1, <1>2 DEF SentUpTo
<1>5. Unmarked(<<>>)
  BY <1>1 DEF Unmarked
<1> QED  BY <1>1, <1>3, <1>4, <1>5

LEMMA FrameInit == Init => FrameInv
<1> SUFFICES ASSUME Init PROVE FrameInv
  OBVIOUS
<1>1. /\ deqEvent = <<>> /\ out = <<>> /\ built = <<>> /\ BORE_sent = FALSE /\ pc = "idle"
  BY DEF Init
<1>2. Over
  BY <1>1 DEF Over
<1> QED  BY <1>1, <1>2, EmptyFrame, Zenon DEF FrameInv

(* What a step that neither builds nor sends leaves as it is. *)
LEMMA FrameKept ==
  ASSUME FrameInv, UNCHANGED events, Over' <=> Over
  PROVE  FrameInv'
BY DEF FrameInv, events

LEMMA FrameStep == FrameInv /\ RawInv /\ [Next]_vars => FrameInv'
<1> SUFFICES ASSUME FrameInv, RawInv, [Next]_vars
             PROVE  FrameInv'
  OBVIOUS
<1>1. CASE LoopTop
  BY <1>1, FrameKept DEF LoopTop, Over
<1>2. CASE ReadData
  <2> SUFFICES ASSUME failed' = FALSE PROVE FrameInv'
    BY DEF FrameInv
  <2>1. failed = FALSE /\ ~Over /\ ~Over' /\ UNCHANGED <<BORE_sent, out>>
    BY <1>2 DEF ReadData, Over
  <2>2. PICK n \in 0 .. MaxYield : \E new \in Completed(n) :
          /\ deqEvent' = deqEvent \o new
          /\ built' = built \o [i \in 1 .. n |-> new[i].hits]
    BY <1>2 DEF ReadData
  <2>3. PICK new \in Completed(n) : /\ deqEvent' = deqEvent \o new
                                    /\ built' = built \o [i \in 1 .. n |-> new[i].hits]
    BY <2>2
  <2>4. n \in Nat
    BY <2>2, ProducerAssumption
  <2>5. /\ Numbered(deqEvent, built) /\ SentUpTo(out, built, Len(built) - Len(deqEvent))
        /\ Len(deqEvent) \in Nat /\ Len(built) \in Nat
    BY <2>1, LenProperties DEF FrameInv, Numbered
  <2>6. /\ Numbered(deqEvent', built') /\ SentUpTo(out', built', Len(built') - Len(deqEvent'))
        /\ Len(deqEvent') = Len(deqEvent) + n /\ Len(built') = Len(built) + n
    BY <2>1, <2>3, <2>4, <2>5, CompletedQueued
  <2>7. ASSUME deqEvent' = <<>> PROVE built' = <<>>
    <3>1. Len(deqEvent) = 0 /\ n = 0
      BY <2>4, <2>5, <2>6, <2>7
    <3>2. deqEvent = <<>>
      BY <2>5, <3>1, EmptySeq DEF Numbered
    <3>3. built = <<>>
      BY <2>1, <3>2 DEF FrameInv
    <3>4. Len(built') = 0
      BY <2>6, <3>1, <3>3
    <3> QED  BY <2>6, <3>4, EmptySeq DEF Numbered
  <2>8. Len(built') > Len(deqEvent') <=> Len(built) > Len(deqEvent)
    BY <2>4, <2>5, <2>6
  <2> QED  BY <2>1, <2>6, <2>7, <2>8 DEF FrameInv
<1>3. CASE Send
  <2> SUFFICES ASSUME failed' = FALSE PROVE FrameInv'
    BY DEF FrameInv
  <2>1. /\ sendallevents(deqEvent, 1) /\ failed = FALSE /\ built' = built
        /\ ~Over /\ ~Over'
    BY <1>3 DEF Send, SendThrows, sendallevents, Over
  <2>2. /\ Numbered(deqEvent, built) /\ SentUpTo(out, built, Len(built) - Len(deqEvent))
        /\ BORE_sent \in BOOLEAN /\ (BORE_sent = TRUE <=> Len(built) > Len(deqEvent))
        /\ Unmarked(out) /\ (deqEvent = <<>> => built = <<>>)
    BY <2>1 DEF FrameInv
  <2>3. 1 \in {0, 1}
    OBVIOUS
  <2>4. /\ Numbered(deqEvent', built)
        /\ SentUpTo(out', built, Len(built) - Len(deqEvent'))
        /\ BORE_sent' \in BOOLEAN /\ (BORE_sent' = TRUE <=> Len(built) > Len(deqEvent'))
        /\ Unmarked(out') /\ (deqEvent' = <<>> => built = <<>>)
    BY <2>1, <2>2, <2>3, QueueSent
  <2> QED  BY <2>1, <2>4 DEF FrameInv, Unmarked
<1>4. CASE ReadEnds
  BY <1>4, FrameKept DEF ReadEnds, Over
<1>5. CASE Flush
  <2> SUFFICES ASSUME failed' = FALSE PROVE FrameInv'
    BY DEF FrameInv
  <2>1. ~Over /\ Over'
    BY <1>5 DEF Flush, Over
  <2>2. PICK n \in 0 .. MaxYield : \E new \in Completed(n) :
          /\ built' = built \o [i \in 1 .. n |-> new[i].hits]
          /\ \/ MaySend /\ sendallevents(deqEvent \o new, 0)
             \/ MaySend /\ SendThrows(deqEvent \o new, 0)
             \/ ~MaySend /\ deqEvent' = deqEvent \o new /\ UNCHANGED <<BORE_sent, out, failed>>
    BY <1>5 DEF Flush
  <2>3. PICK new \in Completed(n) :
          /\ built' = built \o [i \in 1 .. n |-> new[i].hits]
          /\ \/ MaySend /\ sendallevents(deqEvent \o new, 0)
             \/ MaySend /\ SendThrows(deqEvent \o new, 0)
             \/ ~MaySend /\ deqEvent' = deqEvent \o new /\ UNCHANGED <<BORE_sent, out, failed>>
    BY <2>2
  <2>4. failed = FALSE /\ sendallevents(deqEvent \o new, 0)
    <3>1. ~SendThrows(deqEvent \o new, 0)
      BY DEF SendThrows
    <3>2. CASE sendallevents(deqEvent \o new, 0)
      BY <3>2 DEF sendallevents
    <3>3. CASE ~MaySend /\ failed' = failed
      BY <2>1, <3>3 DEF MaySend, RawInv
    <3> QED  BY <2>3, <3>1, <3>2, <3>3
  <2>5. n \in Nat
    BY <2>2, ProducerAssumption
  <2>6. /\ Numbered(deqEvent, built) /\ SentUpTo(out, built, Len(built) - Len(deqEvent))
        /\ Len(deqEvent) \in Nat /\ Len(built) \in Nat
        /\ BORE_sent \in BOOLEAN /\ (BORE_sent = TRUE <=> Len(built) > Len(deqEvent))
        /\ Unmarked(out) /\ (deqEvent = <<>> => built = <<>>)
    BY <2>1, <2>4, LenProperties DEF FrameInv, Numbered
  <2> DEFINE q == deqEvent \o new
  <2>7. /\ Numbered(q, built') /\ SentUpTo(out, built', Len(built') - Len(q))
        /\ Len(q) = Len(deqEvent) + n /\ Len(built') = Len(built) + n
    BY <2>3, <2>5, <2>6, CompletedQueued
  <2>8. sendallevents(q, 0)
    BY <2>4
  <2> HIDE DEF q
  <2>9. ASSUME q = <<>> PROVE built' = <<>>
    <3>1. Len(deqEvent) = 0 /\ n = 0
      BY <2>5, <2>6, <2>7, <2>9
    <3>2. deqEvent = <<>>
      BY <2>6, <3>1, EmptySeq DEF Numbered
    <3>3. Len(built') = 0
      BY <2>6, <2>7, <3>1, <3>2
    <3> QED  BY <2>7, <3>3, EmptySeq DEF Numbered
  <2>10. BORE_sent = TRUE <=> Len(built') > Len(q)
    BY <2>5, <2>6, <2>7
  <2>11. 0 \in {0, 1}
    OBVIOUS
  <2>12. /\ Numbered(deqEvent', built')
         /\ SentUpTo(out', built', Len(built') - Len(deqEvent'))
         /\ BORE_sent' \in BOOLEAN /\ (BORE_sent' = TRUE <=> Len(built') > Len(deqEvent'))
         /\ deqEvent' = <<>>
         /\ \A i \in 1 .. Len(out') : out'[i].eore <=> out'[i].id = Len(built')
    BY <2>6, <2>7, <2>8, <2>9, <2>10, <2>11, QueueSent
  <2> QED  BY <2>1, <2>12 DEF FrameInv
<1>6. CASE Close
  <2>1. Over /\ Over' /\ deqEvent' = <<>> /\ UNCHANGED <<BORE_sent, out, built, failed>>
    BY <1>6 DEF Close, Over
  <2>2. failed = FALSE => deqEvent' = deqEvent
    BY <2>1 DEF FrameInv
  <2> QED  BY <2>1, <2>2 DEF FrameInv
<1>7. CASE Signal
  BY <1>7, FrameKept DEF Signal, Over
<1>8. CASE DoStartRun
  <2>1. /\ deqEvent' = <<>> /\ out' = <<>> /\ built' = <<>> /\ BORE_sent' = FALSE /\ pc' = "top"
    BY <1>8 DEF DoStartRun
  <2>2. ~Over'
    BY <2>1 DEF Over
  <2> QED  BY <2>1, <2>2, EmptyFrame, Zenon DEF FrameInv
<1>9. CASE StopBegins
  BY <1>9, FrameKept DEF StopBegins, Over
<1>10. CASE StopRunning
  BY <1>10, FrameKept DEF StopRunning, Over
<1>11. CASE StopReturns
  BY <1>11, FrameKept DEF StopReturns, Over
<1>12. CASE DoTerminate
  BY <1>12, FrameKept DEF DoTerminate, Over
<1>13. CASE PeerSends
  BY <1>13, FrameKept DEF PeerSends, Over
<1>14. CASE PeerCloses \/ PeerResets
  BY <1>14, FrameKept DEF PeerCloses, PeerResets, PeerGoes, Over
<1>15. CASE UNCHANGED vars
  BY <1>15, FrameKept DEF vars, Over
<1> QED BY <1>1, <1>2, <1>3, <1>4, <1>5, <1>6, <1>7, <1>8, <1>9, <1>10, <1>11,
           <1>12, <1>13, <1>14, <1>15 DEF Next, RunLoop

LEMMA FrameFramed == FrameInv /\ RawInv => RunFramed
<1> SUFFICES ASSUME FrameInv, failed = FALSE
             PROVE  /\ \A i, j \in DOMAIN out : i < j => out[i].id < out[j].id
                    /\ \E m \in 0 .. Len(built) :
                         /\ {out[i].id : i \in DOMAIN out} = {n \in 1 .. m : built[n]}
                         /\ Over => m = Len(built)
                    /\ \A i \in DOMAIN out : /\ out[i].bore <=> out[i].id = 1
                                             /\ out[i].eore <=> Over /\ out[i].id = Len(built)
  BY DEF RunFramed, RawInv
<1> DEFINE m == Len(built) - Len(deqEvent)
<1>1. /\ SentUpTo(out, built, m) /\ Numbered(deqEvent, built)
      /\ ~Over => Unmarked(out)
      /\ Over => /\ deqEvent = <<>>
                 /\ \A i \in 1 .. Len(out) : out[i].eore <=> out[i].id = Len(built)
  BY DEF FrameInv
<1>2. DOMAIN out = 1 .. Len(out)
  BY <1>1, LenProperties DEF SentUpTo
<1>3. m \in 0 .. Len(built) /\ (Over => m = Len(built))
  <2>1. Len(built) \in Nat /\ Len(deqEvent) \in Nat /\ Len(deqEvent) <= Len(built)
    BY <1>1, LenProperties DEF Numbered
  <2>2. Over => Len(deqEvent) = 0
    BY <1>1
  <2> QED  BY <2>1, <2>2
<1>4. \A n \in 1 .. m : built[n] \in BOOLEAN
  BY <1>1, <1>3, ElementOfSeq DEF Numbered
<1> HIDE DEF m
<1>5. {out[i].id : i \in DOMAIN out} = {n \in 1 .. m : built[n]}
  <2>1. \A i \in DOMAIN out : out[i].id \in 1 .. m /\ built[out[i].id] = TRUE
    BY <1>1, <1>2 DEF SentUpTo
  <2>2. \A n \in 1 .. m : built[n] = TRUE => \E i \in DOMAIN out : out[i].id = n
    BY <1>1, <1>2 DEF SentUpTo
  <2> QED  BY <1>4, <2>1, <2>2
<1>6. \A i \in DOMAIN out : /\ out[i].bore <=> out[i].id = 1
                            /\ out[i].eore <=> Over /\ out[i].id = Len(built)
  BY <1>1, <1>2 DEF SentUpTo, Unmarked
<1>7. \A i, j \in DOMAIN out : i < j => out[i].id < out[j].id
  BY <1>1, <1>2 DEF SentUpTo
<1> QED  BY <1>3, <1>5, <1>6, <1>7

(* As long as the collector is there, every event that ScReader built and that
   has enough hits is sent once and in order, with BORE on the first and EORE on
   the last of the run only, for any number of reads and events. *)
THEOREM RunsFramed == Spec => []RunFramed
<1> QED BY RawInit, RawStep, FrameInit, FrameStep, FrameFramed, PTL DEF Spec
-----------------------------------------------------------------------------
LEMMA MinIs ==
  ASSUME NEW S \in SUBSET Nat, S # {}
  PROVE  /\ Min(S) \in S /\ Min(S) \in Nat
         /\ \A x \in S : Min(S) <= x
<1>1. \E m \in S : \A x \in S : m <= x
  BY LeastExists
<1> QED  BY <1>1 DEF Min

LEMMA MaxIs ==
  ASSUME NEW S \in SUBSET Nat, S # {}, NEW b \in Nat, \A x \in S : x <= b
  PROVE  /\ Max(S) \in S /\ Max(S) \in Nat
         /\ \A x \in S : x <= Max(S)
<1>1. PICK m \in S : \A x \in S : x <= m
  BY GreatestExists
<1>2. \A x \in S : m >= x
  BY <1>1
<1>3. Max(S) \in S /\ \A x \in S : Max(S) >= x
  BY <1>2 DEF Max
<1> QED  BY <1>3

(* A finite set of numbers has an upper bound. *)
LEMMA Bounded ==
  ASSUME NEW S \in SUBSET Nat, IsFiniteSet(S)
  PROVE  \E b \in Nat : \A x \in S : x <= b
<1> DEFINE Ok(T) == \E b \in Nat : \A x \in T : x <= b
           N == {n \in Nat : \A T \in SUBSET S : Cardinality(T) = n => Ok(T)}
<1>1. 0 \in N
  <2> SUFFICES ASSUME NEW T \in SUBSET S, Cardinality(T) = 0 PROVE Ok(T)
    OBVIOUS
  <2>1. IsFiniteSet(T)
    BY FS_Subset
  <2>2. T = {}
    BY <2>1, FS_EmptySet
  <2> QED  BY <2>2
<1>2. ASSUME NEW n \in Nat, n \in N
      PROVE  n + 1 \in N
  <2> SUFFICES ASSUME NEW T \in SUBSET S, Cardinality(T) = n + 1 PROVE Ok(T)
    OBVIOUS
  <2>1. IsFiniteSet(T)
    BY FS_Subset
  <2>2. T # {}
    BY FS_EmptySet
  <2>3. PICK x \in T : TRUE
    BY <2>2
  <2>4. Cardinality(T \ {x}) = n
    <3>1. Cardinality(T \ {x}) = Cardinality(T) - 1
      BY <2>1, <2>3, FS_RemoveElement
    <3> QED  BY <3>1
  <2>5. T \ {x} \in SUBSET S
    OBVIOUS
  <2>6. PICK b \in Nat : \A y \in T \ {x} : y <= b
    BY <1>2, <2>4, <2>5
  <2>7. x \in Nat
    BY <2>3
  <2>8. CASE x <= b
    BY <2>6, <2>7, <2>8
  <2>9. CASE ~(x <= b)
    <3>1. \A y \in T : y \in Nat /\ y <= x
      BY <2>6, <2>7, <2>9
    <3> QED  BY <2>7, <3>1
  <2> QED  BY <2>8, <2>9
<1> HIDE DEF N, Ok
<1>3. Cardinality(S) \in Nat
  BY FS_CardinalityType
<1>4. Cardinality(S) \in N
  BY <1>1, <1>2, <1>3, NatSetInduction
<1>5. Ok(S)
  BY <1>4 DEF N
<1> QED  BY <1>5 DEF Ok

(* Ascending lists the keys, each once. *)
LEMMA AscendingIs ==
  ASSUME NEW S \in SUBSET Nat, IsFiniteSet(S)
  PROVE  /\ Ascending(S) \in Seq(Nat)
         /\ \A k \in 1 .. Len(Ascending(S)) : Ascending(S)[k] \in S
         /\ \A x \in S : \E k \in 1 .. Len(Ascending(S)) : Ascending(S)[k] = x
         /\ \A j, k \in 1 .. Len(Ascending(S)) :
              j < k => Ascending(S)[j] < Ascending(S)[k]
<1>1. CASE S = {}
  <2>1. Ascending(S) = <<>>
    BY <1>1 DEF Ascending
  <2>2. <<>> \in Seq(Nat) /\ Len(<<>>) = 0
    OBVIOUS
  <2>3. \A k \in 1 .. Len(<<>>) : FALSE
    BY <2>2
  <2> HIDE DEF Ascending
  <2> QED  BY ONLY <1>1, <2>1, <2>2, <2>3
<1>2. CASE S # {}
  <2>1. PICK b \in Nat : \A x \in S : x <= b
    BY Bounded
  <2>2. Max(S) \in Nat /\ \A x \in S : x <= Max(S)
    BY <1>2, <2>1, MaxIs
  <2> DEFINE n == Max(S) + 1
             s == [i \in 1 .. n |-> i - 1]
             P == {x + 1 : x \in S}
             a == Ascending(S)
  <2>3. a = Selected(s, P)
    BY <1>2 DEF Ascending
  <2>4. n \in Nat
    BY <2>2
  <2> HIDE DEF n
  <2>5. s \in Seq(Nat) /\ Len(s) = n /\ \A i \in 1 .. n : s[i] = i - 1
    <3>1. \A i \in 1 .. n : i - 1 \in Nat
      BY <2>4
    <3> QED  BY <2>4, <3>1
  <2>6. \A i \in 1 .. n : i \in P => i - 1 \in S
    OBVIOUS
  <2>7. \A x \in S : x + 1 \in P /\ x + 1 \in 1 .. n /\ (x + 1) - 1 = x
    BY <2>2 DEF n
  <2> HIDE DEF s, P, a
  <2>8. a \in Seq(Nat)
    BY <2>3, <2>5, SelectedPlaces
  <2>14. \E h : /\ Lists(h, P, Len(s)) /\ Len(h) = Len(Selected(s, P))
                /\ \A k \in 1 .. Len(h) : Selected(s, P)[k] = s[h[k]]
    BY <2>5, SelectedPlaces
  <2>9. PICK h : /\ Lists(h, P, n) /\ Len(h) = Len(a)
                 /\ \A k \in 1 .. Len(h) : a[k] = s[h[k]]
    BY <2>3, <2>5, <2>14
  <2>10. \A k \in 1 .. Len(a) : h[k] \in P /\ h[k] \in 1 .. n /\ a[k] = h[k] - 1
    BY <2>5, <2>9 DEF Lists
  <2>11. \A k \in 1 .. Len(a) : a[k] \in S
    BY <2>6, <2>10
  <2>12. ASSUME NEW x \in S PROVE \E k \in 1 .. Len(a) : a[k] = x
    <3>1. PICK k \in 1 .. Len(h) : h[k] = x + 1
      BY <2>7, <2>9 DEF Lists
    <3> QED  BY <2>7, <2>9, <2>10, <3>1
  <2>13. ASSUME NEW j \in 1 .. Len(a), NEW k \in 1 .. Len(a), j < k
         PROVE  a[j] < a[k]
    <3>1. h[j] < h[k]
      BY <2>9, <2>13 DEF Lists
    <3>2. h[j] \in 1 .. n /\ h[k] \in 1 .. n /\ a[j] = h[j] - 1 /\ a[k] = h[k] - 1
      BY <2>10
    <3> QED  BY <2>4, <3>1, <3>2
  <2> QED  BY <2>8, <2>11, <2>12, <2>13 DEF a
<1> QED  BY <1>1, <1>2
-----------------------------------------------------------------------------
(* What the variables may hold. *)
Maps(X)   == UNION {[D -> X] : D \in SUBSET Nat}
Hit       == Nat \X Nat
Hits      == {S \in SUBSET Hit : IsFiniteSet(S)}
Trig      == [id : Nat, ts : Int]
Arrived   == {q \in Seq(Trig) : \A i, j \in 1 .. Len(q) :
                                 i < j => q[i].id < q[j].id /\ q[i].ts < q[j].ts}
Times     == [start : Int, stop : Int, trigs : Arrived]
BuiltEvent ==
  [kind : {"data", "dummy", "empty"}, roc : Int, bxid : Int, n : Int,
   trigs : Seq(Int), hits : SUBSET Hit, from : Int, to : Int]
BuildState ==
  [asic : Maps(Hits), ts : Maps(Times), last : Int, out : Seq(BuiltEvent),
   undefined : BOOLEAN]

LEMMA NoTimesIs == NoTimes \in Times
<1>1. <<>> \in Seq(Trig) /\ Len(<<>>) = 0
  OBVIOUS
<1>2. <<>> \in Arrived
  BY <1>1 DEF Arrived
<1> QED  BY <1>2 DEF NoTimes, Times

LEMMA MapIs ==
  ASSUME NEW X
  PROVE  \A f : f \in Maps(X) <=> DOMAIN f \in SUBSET Nat /\ f \in [DOMAIN f -> X]
<1>1. ASSUME NEW f, f \in Maps(X)
      PROVE  DOMAIN f \in SUBSET Nat /\ f \in [DOMAIN f -> X]
  <2>1. PICK D \in SUBSET Nat : f \in [D -> X]
    BY <1>1 DEF Maps
  <2> QED  BY <2>1
<1>2. ASSUME NEW f, DOMAIN f \in SUBSET Nat, f \in [DOMAIN f -> X]
      PROVE  f \in Maps(X)
  BY <1>2 DEF Maps
<1> QED  BY <1>1, <1>2

LEMMA KeepOnlyIs ==
  ASSUME NEW X, NEW f \in Maps(X), NEW S
  PROVE  /\ KeepOnly(f, S) \in Maps(X)
         /\ DOMAIN KeepOnly(f, S) = DOMAIN f \cap S
         /\ \A x \in DOMAIN f \cap S : KeepOnly(f, S)[x] = f[x]
<1>1. DOMAIN f \in SUBSET Nat /\ f \in [DOMAIN f -> X]
  BY MapIs
<1> DEFINE g == KeepOnly(f, S)
<1>2. /\ DOMAIN g = DOMAIN f \cap S /\ g \in [DOMAIN f \cap S -> X]
      /\ \A x \in DOMAIN f \cap S : g[x] = f[x]
  BY <1>1 DEF KeepOnly
<1> HIDE DEF g
<1>3. DOMAIN g \in SUBSET Nat /\ g \in [DOMAIN g -> X]
  BY <1>1, <1>2
<1>4. g \in Maps(X)
  BY <1>3, MapIs
<1> QED  BY <1>2, <1>4 DEF g

LEMMA PutIs ==
  ASSUME NEW X, NEW f \in Maps(X), NEW k \in Nat, NEW v \in X
  PROVE  /\ Put(f, k, v) \in Maps(X)
         /\ DOMAIN Put(f, k, v) = DOMAIN f \cup {k}
         /\ Put(f, k, v)[k] = v
         /\ \A x \in DOMAIN f \ {k} : Put(f, k, v)[x] = f[x]
<1>1. DOMAIN f \in SUBSET Nat /\ f \in [DOMAIN f -> X]
  BY MapIs
<1> DEFINE g == Put(f, k, v)
<1>2. /\ DOMAIN g = DOMAIN f \cup {k} /\ g \in [DOMAIN f \cup {k} -> X] /\ g[k] = v
      /\ \A x \in DOMAIN f \ {k} : g[x] = f[x]
  BY <1>1 DEF Put
<1> HIDE DEF g
<1>3. DOMAIN g \in SUBSET Nat /\ g \in [DOMAIN g -> X]
  BY <1>1, <1>2
<1>4. g \in Maps(X)
  BY <1>3, MapIs
<1> QED  BY <1>2, <1>4 DEF g

LEMMA AtIs ==
  ASSUME NEW X, NEW f \in Maps(X), NEW k, NEW default \in X
  PROVE  /\ At(f, k, default) \in X
         /\ k \in DOMAIN f => At(f, k, default) = f[k]
         /\ k \notin DOMAIN f => At(f, k, default) = default
<1>1. f \in [DOMAIN f -> X]
  BY MapIs
<1> QED  BY <1>1 DEF At

(* An event is of the right type when its parts are. *)
LEMMA EventIs ==
  ASSUME NEW kind \in {"data", "dummy", "empty"}, NEW roc \in Int, NEW bxid \in Int,
         NEW n \in Int, NEW trigs \in Seq(Int), NEW hits \in SUBSET Hit,
         NEW from \in Int, NEW to \in Int
  PROVE  LET e == EventOf(kind, roc, bxid, n, trigs, hits, from, to)
         IN  /\ e \in BuiltEvent
             /\ e.kind = kind /\ e.roc = roc /\ e.bxid = bxid /\ e.n = n
             /\ e.trigs = trigs /\ e.hits = hits /\ e.from = from /\ e.to = to
BY DEF EventOf, BuiltEvent

LEMMA DummiesAre ==
  \A roc, a, b \in Int :
    /\ Dummies(roc, a, b) \in Seq(BuiltEvent)
    /\ Len(Dummies(roc, a, b)) = IF b >= a THEN b - a + 1 ELSE 0
    /\ \A i \in 1 .. Len(Dummies(roc, a, b)) :
         /\ Dummies(roc, a, b)[i].kind = "dummy" /\ Dummies(roc, a, b)[i].roc = roc
         /\ Dummies(roc, a, b)[i].bxid = None /\ Dummies(roc, a, b)[i].n = a + i - 1
         /\ Dummies(roc, a, b)[i].trigs = <<>> /\ Dummies(roc, a, b)[i].hits = {}
<1> SUFFICES ASSUME NEW roc \in Int, NEW a \in Int, NEW b \in Int
             PROVE
    /\ Dummies(roc, a, b) \in Seq(BuiltEvent)
    /\ Len(Dummies(roc, a, b)) = IF b >= a THEN b - a + 1 ELSE 0
    /\ \A i \in 1 .. Len(Dummies(roc, a, b)) :
         /\ Dummies(roc, a, b)[i].kind = "dummy" /\ Dummies(roc, a, b)[i].roc = roc
         /\ Dummies(roc, a, b)[i].bxid = None /\ Dummies(roc, a, b)[i].n = a + i - 1
         /\ Dummies(roc, a, b)[i].trigs = <<>> /\ Dummies(roc, a, b)[i].hits = {}
  OBVIOUS
<1> DEFINE n == IF b >= a THEN b - a + 1 ELSE 0
           e(i) == EventOf("dummy", roc, None, a + i - 1, <<>>, {}, 0, 0)
           d == [i \in 1 .. n |-> e(i)]
<1>1. n \in Nat
  OBVIOUS
<1>2. <<>> \in Seq(Int) /\ None \in Int /\ {} \in SUBSET Hit
  BY DEF None
<1> HIDE DEF n
<1>3. ASSUME NEW i \in 1 .. n
      PROVE  /\ e(i) \in BuiltEvent
             /\ e(i).kind = "dummy" /\ e(i).roc = roc /\ e(i).bxid = None
             /\ e(i).n = a + i - 1 /\ e(i).trigs = <<>> /\ e(i).hits = {}
  <2>1. a + i - 1 \in Int
    BY <1>1
  <2>2. PICK m \in Int : m = a + i - 1
    BY <2>1
  <2>3. PICK z \in Int : z = 0
    OBVIOUS
  <2>4. e(i) = EventOf("dummy", roc, None, m, <<>>, {}, z, z)
    BY <2>2, <2>3
  <2>5. EventOf("dummy", roc, None, m, <<>>, {}, z, z) \in BuiltEvent
    BY <1>2, <2>2, <2>3, EventIs
  <2>6. e(i) = [kind |-> "dummy", roc |-> roc, bxid |-> None, n |-> m, trigs |-> <<>>,
                hits |-> {}, from |-> z, to |-> z]
    BY <2>4 DEF EventOf
  <2> HIDE DEF e
  <2> QED  BY <2>2, <2>4, <2>5, <2>6
<1> HIDE DEF e
<1>4. d \in Seq(BuiltEvent) /\ Len(d) = n /\ \A i \in 1 .. n : d[i] = e(i)
  BY <1>1, <1>3
<1>5. d = Dummies(roc, a, b)
  BY DEF Dummies, n, e
<1> QED  BY <1>3, <1>4, <1>5 DEF n
LEMMA DummiesLen ==
  \A roc, a, b \in Int : Len(Dummies(roc, a, b)) = IF b >= a THEN b - a + 1 ELSE 0
<1> SUFFICES ASSUME NEW roc \in Int, NEW a \in Int, NEW b \in Int
             PROVE  Len(Dummies(roc, a, b)) = IF b >= a THEN b - a + 1 ELSE 0
  OBVIOUS
<1> QED  BY DummiesAre

LEMMA MissedIs ==
  \A roc, last, n \in Int : Missed(roc, last, n) \in Seq(BuiltEvent)
<1> SUFFICES ASSUME NEW roc \in Int, NEW last \in Int, NEW n \in Int
             PROVE  Missed(roc, last, n) \in Seq(BuiltEvent)
  OBVIOUS
<1>1. PICK x \in Int, y \in Int : x = last + 1 /\ y = n - 1
  OBVIOUS
<1>2. Dummies(roc, x, y) \in Seq(BuiltEvent)
  BY DummiesAre
<1>3. <<>> \in Seq(BuiltEvent)
  OBVIOUS
<1> QED  BY <1>1, <1>2, <1>3 DEF Missed

-----------------------------------------------------------------------------
LEMMA StateIs ==
  ASSUME NEW s \in BuildState
  PROVE  /\ s.asic \in Maps(Hits) /\ DOMAIN s.asic \in SUBSET Nat
         /\ \A r \in DOMAIN s.asic : s.asic[r] \in Hits /\ s.asic[r] \in SUBSET Hit /\ IsFiniteSet(s.asic[r])
         /\ s.ts \in Maps(Times) /\ DOMAIN s.ts \in SUBSET Nat
         /\ \A r \in DOMAIN s.ts : s.ts[r] \in Times
         /\ s.last \in Int /\ s.out \in Seq(BuiltEvent) /\ s.undefined \in BOOLEAN
<1>1. /\ s.asic \in Maps(Hits) /\ s.ts \in Maps(Times)
      /\ s.last \in Int /\ s.out \in Seq(BuiltEvent) /\ s.undefined \in BOOLEAN
  BY DEF BuildState
<1>2. /\ DOMAIN s.asic \in SUBSET Nat /\ s.asic \in [DOMAIN s.asic -> Hits]
      /\ DOMAIN s.ts \in SUBSET Nat /\ s.ts \in [DOMAIN s.ts -> Times]
  BY <1>1, MapIs
<1>3. \A r \in DOMAIN s.asic : s.asic[r] \in Hits
  BY <1>2
<1>4. \A r \in DOMAIN s.asic : s.asic[r] \in SUBSET Hit /\ IsFiniteSet(s.asic[r])
  BY <1>3 DEF Hits
<1> QED  BY <1>1, <1>2, <1>3, <1>4

(* What is left of a map of a state. *)
LEMMA KeptIs ==
  ASSUME NEW s \in BuildState, NEW S
  PROVE  /\ KeepOnly(s.asic, S) \in Maps(Hits)
         /\ DOMAIN KeepOnly(s.asic, S) = DOMAIN s.asic \cap S
         /\ \A x \in DOMAIN s.asic \cap S : KeepOnly(s.asic, S)[x] = s.asic[x]
         /\ KeepOnly(s.ts, S) \in Maps(Times)
         /\ DOMAIN KeepOnly(s.ts, S) = DOMAIN s.ts \cap S
         /\ \A x \in DOMAIN s.ts \cap S : KeepOnly(s.ts, S)[x] = s.ts[x]
<1>1. PICK f \in Maps(Hits) : f = s.asic
  BY StateIs
<1>2. PICK g \in Maps(Times) : g = s.ts
  BY StateIs
<1>3. /\ KeepOnly(f, S) \in Maps(Hits) /\ DOMAIN KeepOnly(f, S) = DOMAIN f \cap S
      /\ \A x \in DOMAIN f \cap S : KeepOnly(f, S)[x] = f[x]
  BY KeepOnlyIs
<1>4. /\ KeepOnly(g, S) \in Maps(Times) /\ DOMAIN KeepOnly(g, S) = DOMAIN g \cap S
      /\ \A x \in DOMAIN g \cap S : KeepOnly(g, S)[x] = g[x]
  BY KeepOnlyIs
<1> QED  BY <1>1, <1>2, <1>3, <1>4

(* The cycle that is built is taken out of both maps. *)
TakenOut(s, t, roc) ==
  /\ t.asic = KeepOnly(s.asic, DOMAIN s.asic \ {roc})
  /\ t.ts = KeepOnly(s.ts, DOMAIN s.ts \ {roc})
  /\ t.undefined = s.undefined

(* Events by ROC: an event with all data of the oldest cycle. *)
LEMMA BuildROCCycleIs ==
  ASSUME NEW s \in BuildState, DOMAIN s.asic # {}
  PROVE  LET t == BuildROCCycle(s)
             roc == First(s.asic)
         IN  /\ t \in BuildState
             /\ TakenOut(s, t, roc)
             /\ t.last = IF ~dummies THEN s.last
                         ELSE IF s.last + 1 < roc THEN roc ELSE s.last + 1
             /\ \E e \in BuiltEvent :
                  /\ t.out = s.out \o (Missed(None, s.last, roc) \o <<e>>)
                  /\ e.kind = "data" /\ e.roc = roc /\ e.bxid = None /\ e.n = roc
                  /\ e.trigs = <<>> /\ e.hits = s.asic[roc]
<1> DEFINE roc == First(s.asic)
           times == At(s.ts, roc, NoTimes)
           timed == times.start # 0 /\ times.stop # 0
           from == IF timed THEN times.start ELSE 0
           to == IF timed THEN times.stop ELSE 0
           e == EventOf("data", roc, None, roc, <<>>, s.asic[roc], from, to)
           d == Missed(None, s.last, roc)
           l == IF ~dummies THEN s.last ELSE IF s.last + 1 < roc THEN roc ELSE s.last + 1
           t == BuildROCCycle(s)
           o == s.out \o d \o <<e>>
           a == KeepOnly(s.asic, DOMAIN s.asic \ {roc})
           b == KeepOnly(s.ts, DOMAIN s.ts \ {roc})
<1>1. t = [s EXCEPT !.out = o, !.last = l, !.asic = a, !.ts = b]
  BY DEF BuildROCCycle
<1>2. roc \in DOMAIN s.asic /\ roc \in Nat
  BY StateIs, MinIs DEF First
<1>3. times \in Times
  BY NoTimesIs, StateIs, AtIs
<1>4. from \in Int /\ to \in Int
  <2> HIDE DEF times
  <2> QED  BY <1>3 DEF Times
<1> HIDE DEF roc, from, to
<1>5. <<>> \in Seq(Int) /\ None \in Int /\ s.asic[roc] \in SUBSET Hit /\ s.last \in Int
  BY <1>2, StateIs DEF None
<1>6. e \in BuiltEvent
  BY <1>2, <1>4, <1>5 DEF EventOf, BuiltEvent
<1>7. /\ e.kind = "data" /\ e.roc = roc /\ e.bxid = None /\ e.n = roc
      /\ e.trigs = <<>> /\ e.hits = s.asic[roc]
  BY DEF EventOf
<1> HIDE DEF e
<1>8. d \in Seq(BuiltEvent)
  <2>1. roc \in Int
    BY <1>2
  <2> QED  BY <1>5, <2>1, MissedIs
<1> HIDE DEF d
<1>9. <<e>> \in Seq(BuiltEvent) /\ s.out \in Seq(BuiltEvent)
  BY <1>6, StateIs
<1>10. o = s.out \o (d \o <<e>>) /\ o \in Seq(BuiltEvent)
  <2>1. s.out \o d \in Seq(BuiltEvent)
    BY <1>8, <1>9, ConcatProperties
  <2>2. o \in Seq(BuiltEvent)
    BY <2>1, <1>9, ConcatProperties
  <2>3. \A x, y, z \in Seq(BuiltEvent) : (x \o y) \o z = x \o (y \o z)
    BY ConcatAssociative
  <2> QED  BY <2>2, <2>3, <1>8, <1>9
<1>11. l \in Int
  BY <1>2, <1>5
<1>12. a \in Maps(Hits) /\ b \in Maps(Times)
  BY StateIs, KeptIs
<1> HIDE DEF o, l, a, b, t
<1>13. /\ t \in BuildState /\ t.out = o /\ t.last = l /\ t.asic = a /\ t.ts = b
       /\ t.undefined = s.undefined
  BY <1>1, <1>10, <1>11, <1>12 DEF BuildState
<1>14. TakenOut(s, t, roc)
  BY <1>13 DEF TakenOut, a, b
<1>15. t.last = IF ~dummies THEN s.last
                ELSE IF s.last + 1 < roc THEN roc ELSE s.last + 1
  BY <1>13 DEF l
<1>16. t.out = s.out \o (d \o <<e>>)
  BY <1>10, <1>13
<1> QED
  <2>1. \E f \in BuiltEvent :
          /\ t.out = s.out \o (Missed(None, s.last, roc) \o <<f>>)
          /\ f.kind = "data" /\ f.roc = roc /\ f.bxid = None /\ f.n = roc
          /\ f.trigs = <<>> /\ f.hits = s.asic[roc]
    BY <1>6, <1>7, <1>16 DEF d
  <2> QED  BY <1>13, <1>14, <1>15, <2>1 DEF t, roc

LEMMA BxidsFinite ==
  ASSUME NEW S \in Hits
  PROVE  {h[2] : h \in S} \in SUBSET Nat /\ IsFiniteSet({h[2] : h \in S})
<1> DEFINE T == {h[2] : h \in S}
           f == [h \in S |-> h[2]]
<1>1. IsFiniteSet(S) /\ \A h \in S : h[2] \in Nat
  BY DEF Hits, Hit
<1>2. f \in [S -> T] /\ \A y \in T : \E h \in S : f[h] = y
  OBVIOUS
<1>3. f \in Surjection(S, T)
  BY <1>2 DEF Surjection
<1>4. IsFiniteSet(T)
  BY <1>1, <1>3, FS_Surjection
<1> QED  BY <1>1, <1>4

(* new has an event for each of the BXIDs, which order lists in their order. *)
BxidEvents(s, roc, bxids, order, new) ==
  /\ Len(order) = Len(new)
  /\ \A k \in 1 .. Len(order) : order[k] \in bxids
  /\ \A x \in bxids : \E k \in 1 .. Len(order) : order[k] = x
  /\ \A j, k \in 1 .. Len(order) : j < k => order[j] < order[k]
  /\ \A k \in 1 .. Len(new) :
       /\ new[k].kind = "data" /\ new[k].roc = roc
       /\ new[k].bxid = order[k] /\ new[k].trigs = <<>>
       /\ new[k].hits = {h \in s.asic[roc] : h[2] = order[k]}

(* Events by all BXIDs: an event for every complete BXID of the oldest cycle. *)
LEMMA BuildBXIDCycleIs ==
  ASSUME NEW s \in BuildState, DOMAIN s.asic # {}
  PROVE  LET t == BuildBXIDCycle(s)
             roc == First(s.asic)
             bxids == {b \in {h[2] : h \in s.asic[roc]} : IsBXIDComplete(roc, b)}
         IN  /\ t \in BuildState
             /\ TakenOut(s, t, roc)
             /\ \E new \in Seq(BuiltEvent), order \in Seq(Nat) :
                  /\ t.out = s.out \o new
                  /\ BxidEvents(s, roc, bxids, order, new)
<1> DEFINE roc == First(s.asic)
           start == At(s.ts, roc, NoTimes).start
           bxids == {b \in {h[2] : h \in s.asic[roc]} : IsBXIDComplete(roc, b)}
           from(b) == IF start # 0 THEN BxidBegin(start, b) ELSE 0
           to(b) == IF start # 0 THEN BxidEnd(start, b) ELSE 0
           hits(b) == {h \in s.asic[roc] : h[2] = b}
           event(b) == EventOf("data", roc, b, None, <<>>, hits(b), from(b), to(b))
           order == Ascending(bxids)
           new == [i \in DOMAIN order |-> event(order[i])]
           o == s.out \o new
           l == s.last + Cardinality(bxids)
           t == BuildBXIDCycle(s)
           a == KeepOnly(s.asic, DOMAIN s.asic \ {roc})
           b == KeepOnly(s.ts, DOMAIN s.ts \ {roc})
<1>1. t = [s EXCEPT !.out = o, !.last = l, !.asic = a, !.ts = b]
  BY DEF BuildBXIDCycle
<1>2. roc \in DOMAIN s.asic /\ roc \in Nat
  BY StateIs, MinIs DEF First
<1>3. start \in Int
  <2>2. At(s.ts, roc, NoTimes) \in Times
    BY NoTimesIs, StateIs, AtIs
  <2> QED  BY <2>2 DEF Times
<1> HIDE DEF roc, start
<1>4. <<>> \in Seq(Int) /\ None \in Int /\ s.asic[roc] \in SUBSET Hit /\ s.last \in Int
      /\ s.asic[roc] \in Hits
  BY <1>2, StateIs DEF None
<1>5. bxids \in SUBSET Nat /\ IsFiniteSet(bxids)
  <2>1. /\ {h[2] : h \in s.asic[roc]} \in SUBSET Nat
        /\ IsFiniteSet({h[2] : h \in s.asic[roc]})
    BY <1>4, BxidsFinite
  <2>2. bxids \subseteq {h[2] : h \in s.asic[roc]}
    OBVIOUS
  <2> QED  BY <2>1, <2>2, FS_Subset
<1> HIDE DEF bxids
<1>6. /\ order \in Seq(Nat)
      /\ \A k \in 1 .. Len(order) : order[k] \in bxids
      /\ \A x \in bxids : \E k \in 1 .. Len(order) : order[k] = x
      /\ \A j, k \in 1 .. Len(order) : j < k => order[j] < order[k]
  BY <1>5, AscendingIs
<1> HIDE DEF order
<1>7. ASSUME NEW x \in Nat
      PROVE  /\ event(x) \in BuiltEvent
             /\ event(x).kind = "data" /\ event(x).roc = roc /\ event(x).bxid = x
             /\ event(x).trigs = <<>> /\ event(x).hits = hits(x)
  <2>1. from(x) \in Int /\ to(x) \in Int
    <3>1. x * BxidWidth \in Int /\ (x + 1) * BxidWidth \in Int /\ Bxid0Offset \in Int
      BY BuilderAssumption
    <3> QED  BY <1>3, <3>1 DEF BxidBegin, BxidEnd
  <2>2. hits(x) \in SUBSET Hit
    BY <1>4
  <2> HIDE DEF from, to, hits
  <2> QED  BY <1>2, <1>4, <2>1, <2>2 DEF EventOf, BuiltEvent
<1> HIDE DEF event
<1>8. Len(order) \in Nat /\ DOMAIN order = 1 .. Len(order)
      /\ \A k \in 1 .. Len(order) : order[k] \in Nat
  BY <1>6, LenProperties, ElementOfSeq
<1>9. /\ new \in Seq(BuiltEvent) /\ Len(new) = Len(order)
      /\ \A k \in 1 .. Len(order) : new[k] = event(order[k])
  BY <1>7, <1>8
<1>10. \A k \in 1 .. Len(new) :
         /\ new[k].kind = "data" /\ new[k].roc = roc /\ new[k].bxid = order[k]
         /\ new[k].trigs = <<>> /\ new[k].hits = {h \in s.asic[roc] : h[2] = order[k]}
  BY <1>7, <1>8, <1>9
<1>11. o \in Seq(BuiltEvent)
  BY <1>9, StateIs, ConcatProperties
<1>12. l \in Int
  <2>1. Cardinality(bxids) \in Nat
    BY <1>5, FS_CardinalityType
  <2> QED  BY <2>1, <1>4
<1>13. a \in Maps(Hits) /\ b \in Maps(Times)
  BY StateIs, KeptIs
<1> HIDE DEF new, l, a, b, t
<1>14. /\ t \in BuildState /\ t.out = o /\ t.last = l /\ t.asic = a /\ t.ts = b
       /\ t.undefined = s.undefined
  BY <1>1, <1>11, <1>12, <1>13 DEF BuildState
<1>15. TakenOut(s, t, roc)
  BY <1>14 DEF TakenOut, a, b
<1> QED
  <2>1. BxidEvents(s, roc, bxids, order, new)
    BY <1>6, <1>9, <1>10 DEF BxidEvents
  <2>2. t.out = s.out \o new
    BY <1>14
  <2>3. \E n \in Seq(BuiltEvent), r \in Seq(Nat) :
          t.out = s.out \o n /\ BxidEvents(s, roc, bxids, r, n)
    BY ONLY <1>6, <1>9, <2>1, <2>2
  <2> QED  BY <1>14, <1>15, <2>3 DEF t, roc, bxids
-----------------------------------------------------------------------------
(* Dummies, or nothing, and an event are put behind the events. *)
LEMMA PutBehind ==
  ASSUME NEW q \in Seq(BuiltEvent), NEW d \in Seq(BuiltEvent), NEW e \in BuiltEvent
  PROVE  /\ d \o <<e>> \in Seq(BuiltEvent)
         /\ q \o d \o <<e>> = q \o (d \o <<e>>)
         /\ q \o (d \o <<e>>) \in Seq(BuiltEvent)
<1>1. <<e>> \in Seq(BuiltEvent)
  OBVIOUS
<1>2. \A x, y, z \in Seq(BuiltEvent) :
        (x \o y) \o z = x \o (y \o z) /\ x \o y \in Seq(BuiltEvent)
  BY ConcatAssociative, ConcatProperties, SMTT(60)
<1> QED  BY <1>1, <1>2, Zenon

TrigidState == [last : Int, out : Seq(BuiltEvent)]

TriggerEmitted(roc, hits, b, t, c) ==
  /\ c.last = IF ~dummies THEN b.last
              ELSE IF b.last + 1 < t.id + TrigidOffset THEN t.id + TrigidOffset
              ELSE b.last + 1
  /\ \E e \in BuiltEvent :
       /\ c.out = b.out \o (Missed(None, b.last, t.id + TrigidOffset) \o <<e>>)
       /\ e.kind = "data" /\ e.roc = roc /\ e.bxid = None
       /\ e.n = t.id + TrigidOffset /\ e.trigs = <<t.id>> /\ e.hits = hits

LEMMA EmitTriggerIs ==
  ASSUME NEW roc \in Nat, NEW hits \in SUBSET Hit, NEW b \in TrigidState, NEW t \in Trig
  PROVE  LET c == EmitTrigger(roc, hits, b, t)
         IN  c \in TrigidState /\ TriggerEmitted(roc, hits, b, t, c)
<1> DEFINE number == t.id + TrigidOffset
           from == t.ts - BxidWidth
           to == t.ts + BxidWidth
           e == EventOf("data", roc, None, number, <<t.id>>, hits, from, to)
           d == Missed(None, b.last, number)
           l == IF ~dummies THEN b.last
                ELSE IF b.last + 1 < number THEN number ELSE b.last + 1
           c == EmitTrigger(roc, hits, b, t)
           o == b.out \o d \o <<e>>
<1>1. c = [last |-> l, out |-> o]
  BY DEF EmitTrigger
<1>2. /\ number \in Int /\ from \in Int /\ to \in Int /\ b.last \in Int
      /\ b.out \in Seq(BuiltEvent) /\ None \in Int
  BY BuilderAssumption DEF Trig, TrigidState, None
<1>3. <<t.id>> \in Seq(Int)
  <2>1. t.id \in Int
    BY DEF Trig
  <2> QED  BY <2>1
<1> HIDE DEF number, from, to
<1>4. e \in BuiltEvent
  BY <1>2, <1>3 DEF EventOf, BuiltEvent
<1>5. /\ e.kind = "data" /\ e.roc = roc /\ e.bxid = None /\ e.n = number
      /\ e.trigs = <<t.id>> /\ e.hits = hits
  BY DEF EventOf
<1> HIDE DEF e
<1>6. d \in Seq(BuiltEvent)
  BY <1>2, MissedIs
<1>7. l \in Int
  BY <1>2
<1> HIDE DEF d, l, c
<1>8. o = b.out \o (d \o <<e>>) /\ o \in Seq(BuiltEvent)
  BY <1>2, <1>4, <1>6, PutBehind
<1> HIDE DEF o
<1>9. c \in TrigidState /\ c.last = l /\ c.out = b.out \o (d \o <<e>>)
  BY <1>1, <1>7, <1>8 DEF TrigidState
<1>10. \E f \in BuiltEvent :
         /\ c.out = b.out \o (d \o <<f>>)
         /\ f.kind = "data" /\ f.roc = roc /\ f.bxid = None /\ f.n = number
         /\ f.trigs = <<t.id>> /\ f.hits = hits
  BY <1>4, <1>5, <1>9
<1>11. TriggerEmitted(roc, hits, b, t, c)
  BY <1>9, <1>10 DEF TriggerEmitted, l, d, number
<1> QED  BY <1>9, <1>11 DEF c

(* Events by trigger: f is what the loop over the triggers inside the
   acquisition has after each of them. *)
TrigidLoop(s, roc, inside, f) ==
  /\ f \in [0 .. Len(inside) -> TrigidState]
  /\ f[0] = [last |-> s.last, out |-> s.out]
  /\ \A k \in 1 .. Len(inside) : f[k] = EmitTrigger(roc, s.asic[roc], f[k - 1], inside[k])

LEMMA BuildTRIGIDCycleIs ==
  ASSUME NEW s \in BuildState, DOMAIN s.asic # {}
  PROVE  LET t == BuildTRIGIDCycle(s)
             roc == First(s.asic)
             trigs == At(s.ts, roc, NoTimes).trigs
         IN  /\ t \in BuildState
             /\ TakenOut(s, t, roc)
             /\ trigs \in Seq(Trig)
             /\ \E inside \in Seq(Trig) : \E f :
                  /\ TrigidLoop(s, roc, inside, f)
                  /\ t.last = f[Len(inside)].last /\ t.out = f[Len(inside)].out
                  /\ \E h, P : /\ Lists(h, P, Len(trigs)) /\ Len(h) = Len(inside)
                               /\ \A k \in 1 .. Len(h) : inside[k] = trigs[h[k]]
<1> DEFINE roc == First(s.asic)
           times == At(s.ts, roc, NoTimes)
           trigs == times.trigs
           P == {i \in DOMAIN trigs : InAcquisition(times, trigs[i])}
           inside == Selected(trigs, P)
           n == Len(inside)
           hits == s.asic[roc]
           x == [last |-> s.last, out |-> s.out]
           Good(g) == g = [k \in 0 .. n |-> IF k = 0 THEN x
                                            ELSE EmitTrigger(roc, hits, g[k - 1], inside[k])]
           u == CHOOSE g : Good(g)
           t == BuildTRIGIDCycle(s)
           a == KeepOnly(s.asic, DOMAIN s.asic \ {roc})
           b == KeepOnly(s.ts, DOMAIN s.ts \ {roc})
<1>1. t = [s EXCEPT !.out = u[n].out, !.last = u[n].last, !.asic = a, !.ts = b]
  BY DEF BuildTRIGIDCycle
<1>2. roc \in DOMAIN s.asic /\ roc \in Nat
  BY StateIs, MinIs DEF First
<1>3. trigs \in Seq(Trig)
  <2>2. times \in Times
    BY NoTimesIs, StateIs, AtIs
  <2> HIDE DEF times
  <2> QED  BY <2>2 DEF Times, Arrived
<1>4. hits \in SUBSET Hit
  BY <1>2, StateIs
<1> HIDE DEF roc, trigs, P, hits, t
<1>5. inside \in Seq(Trig)
  BY <1>3, SelectedPlaces
<1>6. PICK h : /\ Lists(h, P, Len(trigs)) /\ Len(h) = Len(inside)
               /\ \A k \in 1 .. Len(h) : inside[k] = trigs[h[k]]
  <2>1. \E g : /\ Lists(g, P, Len(trigs)) /\ Len(g) = Len(Selected(trigs, P))
               /\ \A k \in 1 .. Len(g) : Selected(trigs, P)[k] = trigs[g[k]]
    BY <1>3, SelectedPlaces
  <2> QED  BY <2>1
<1> HIDE DEF inside
<1>7. n \in Nat /\ \A k \in 1 .. n : inside[k] \in Trig
  BY <1>5, LenProperties, ElementOfSeq
<1>8. x \in TrigidState
  BY StateIs DEF TrigidState
<1> DEFINE step == [p \in (1 .. n) \X TrigidState |-> EmitTrigger(roc, hits, p[2], inside[p[1]])]
<1>9. \A k \in 1 .. n : \A c \in TrigidState : EmitTrigger(roc, hits, c, inside[k]) \in TrigidState
  BY <1>2, <1>4, <1>7, EmitTriggerIs
<1>11. \A k \in 1 .. n : \A c \in TrigidState : step[<<k, c>>] = EmitTrigger(roc, hits, c, inside[k])
  OBVIOUS
<1>10. StepIn(step, n, TrigidState)
  BY <1>9, <1>11 DEF StepIn
<1> HIDE DEF step, x, n
<1>12. PICK f \in [0 .. n -> TrigidState] : Iterates(f, n, x, step)
  BY <1>7, <1>8, <1>10, IterationExists
<1>13. Good(f)
  <2> DEFINE g == [k \in 0 .. n |-> IF k = 0 THEN x
                                   ELSE EmitTrigger(roc, hits, f[k - 1], inside[k])]
  <2>1. \A k \in 0 .. n : k # 0 => k \in 1 .. n /\ f[k - 1] \in TrigidState
    BY <1>7
  <2>2. \A k \in 0 .. n : f[k] = g[k]
    BY <1>11, <1>12, <2>1 DEF Iterates
  <2>3. f = [k \in 0 .. n |-> f[k]] /\ g = [k \in 0 .. n |-> g[k]]
    OBVIOUS
  <2> HIDE DEF g
  <2>4. f = g
    BY ONLY <2>2, <2>3
  <2> QED  BY <2>4 DEF g
<1>14. Good(u)
  BY <1>13
<1> HIDE DEF u
<1>15. /\ DOMAIN u = 0 .. n /\ u[0] = x
       /\ \A k \in 1 .. n : u[k] = EmitTrigger(roc, hits, u[k - 1], inside[k])
  <2>1. 0 \in 0 .. n /\ \A k \in 1 .. n : k \in 0 .. n /\ k # 0
    BY <1>7
  <2> QED  BY <1>14, <2>1
<1>16. \A k \in 0 .. n : u[k] \in TrigidState
  <2>1. \A k \in 1 .. n : u[k - 1] \in TrigidState => u[k] \in TrigidState
    BY <1>9, <1>15
  <2>2. u[0] \in TrigidState
    BY <1>8, <1>15
  <2> QED  BY <1>7, <2>1, <2>2, IterationIn
<1>17. u \in [0 .. n -> TrigidState]
  <2>1. u = [k \in 0 .. n |-> u[k]]
    BY <1>14, <1>15
  <2> QED  BY <1>16, <2>1
<1>18. TrigidLoop(s, roc, inside, u)
  BY <1>15, <1>17 DEF TrigidLoop, n, x, hits
<1>19. u[n].last \in Int /\ u[n].out \in Seq(BuiltEvent)
  BY <1>7, <1>16 DEF TrigidState
<1>20. a \in Maps(Hits) /\ b \in Maps(Times)
  BY StateIs, KeptIs
<1> HIDE DEF a, b
<1>21. /\ t \in BuildState /\ t.out = u[n].out /\ t.last = u[n].last /\ t.asic = a /\ t.ts = b
       /\ t.undefined = s.undefined
  BY <1>1, <1>19, <1>20 DEF BuildState
<1>22. TakenOut(s, t, roc)
  BY <1>21 DEF TakenOut, a, b
<1>24. \E g, S : /\ Lists(g, S, Len(trigs)) /\ Len(g) = Len(inside)
                 /\ \A k \in 1 .. Len(g) : inside[k] = trigs[g[k]]
  BY <1>6
<1>25. \E i \in Seq(Trig) : \E g :
         /\ TrigidLoop(s, roc, i, g)
         /\ t.last = g[Len(i)].last /\ t.out = g[Len(i)].out
         /\ \E m, S : /\ Lists(m, S, Len(trigs)) /\ Len(m) = Len(i)
                      /\ \A k \in 1 .. Len(m) : i[k] = trigs[m[k]]
  BY <1>5, <1>18, <1>21, <1>24 DEF n
<1> QED  BY <1>3, <1>21, <1>22, <1>25 DEF t, roc, trigs, times
-----------------------------------------------------------------------------
(* Division of C++: the quotient is between 0 and the fraction. *)
LEMMA QuotientIs ==
  ASSUME NEW a \in Int, NEW b \in Nat \ {0}
  PROVE  /\ Quotient(a, b) \in Int
         /\ a >= 0 => /\ Quotient(a, b) >= 0 /\ b * Quotient(a, b) <= a
                      /\ a < b * Quotient(a, b) + b
         /\ ~(a >= 0) => /\ Quotient(a, b) <= 0 /\ a <= b * Quotient(a, b)
                         /\ b * Quotient(a, b) - b < a
<1>1. CASE a >= 0
  <2>1. PICK q \in Int, r \in 0 .. b - 1 : q = a \div b /\ a = b * q + r
    BY DivMod
  <2>2. q >= 0
    <3> SUFFICES ASSUME q <= -1 PROVE FALSE
      BY <2>1
    <3>1. b * q <= b * (-1)
      OBVIOUS
    <3> QED  BY <2>1, <1>1, <3>1
  <2>3. Quotient(a, b) = q
    BY <1>1, <2>1 DEF Quotient
  <2> QED  BY <1>1, <2>1, <2>2, <2>3
<1>2. CASE ~(a >= 0)
  <2>1. PICK c \in Int : c = -a
    OBVIOUS
  <2>2. PICK q \in Int, r \in 0 .. b - 1 : q = c \div b /\ c = b * q + r
    BY DivMod
  <2>3. q >= 0
    <3> SUFFICES ASSUME q <= -1 PROVE FALSE
      BY <2>2
    <3>1. b * q <= b * (-1)
      OBVIOUS
    <3> QED  BY <2>1, <2>2, <1>2, <3>1
  <2>4. Quotient(a, b) = -q
    BY <1>2, <2>1, <2>2 DEF Quotient
  <2>5. b * (-q) = -(b * q)
    OBVIOUS
  <2> QED  BY <1>2, <2>1, <2>2, <2>3, <2>4, <2>5
<1> QED  BY <1>1, <1>2

LEMMA QuotientMonotone ==
  ASSUME NEW a \in Int, NEW c \in Int, NEW b \in Nat \ {0}, a <= c
  PROVE  Quotient(a, b) <= Quotient(c, b)
<1>1. PICK p \in Int : p = Quotient(a, b)
  BY QuotientIs
<1>2. PICK q \in Int : q = Quotient(c, b)
  BY QuotientIs
<1>3. /\ a >= 0 => p >= 0 /\ b * p <= a /\ a < b * p + b
      /\ ~(a >= 0) => p <= 0 /\ a <= b * p /\ b * p - b < a
  BY <1>1, QuotientIs
<1>4. /\ c >= 0 => q >= 0 /\ b * q <= c /\ c < b * q + b
      /\ ~(c >= 0) => q <= 0 /\ c <= b * q /\ b * q - b < c
  BY <1>2, QuotientIs
<1>5. p <= q
  <2> SUFFICES ASSUME q + 1 <= p PROVE FALSE
    OBVIOUS
  <2>1. b * (q + 1) <= b * p
    OBVIOUS
  <2>2. b * (q + 1) = b * q + b
    OBVIOUS
  <2>3. b * q \in Int /\ b * p \in Int
    OBVIOUS
  <2> QED  BY <1>3, <1>4, <2>1, <2>2, <2>3
<1> QED  BY <1>1, <1>2, <1>5

-----------------------------------------------------------------------------
BxidTrig == [id : Nat, ts : Int, bxid : Int]

(* The triggers of a cycle as triggerBxids has them: in the order in which they
   arrived, which is that of their BXIDs. *)
InBxidOrder(start, q) ==
  /\ q \in Seq(BxidTrig)
  /\ \A i \in 1 .. Len(q) : /\ q[i].bxid <= MaxTrigBxid
                            /\ q[i].bxid = TriggerBxid(start, q[i].ts)
  /\ \A i, j \in 1 .. Len(q) :
       i < j => q[i].id < q[j].id /\ q[i].ts < q[j].ts /\ q[i].bxid <= q[j].bxid

TakenFrom(q, trigs, n) ==
  \A i \in 1 .. Len(q) : \E j \in 1 .. n : q[i].id = trigs[j].id /\ q[i].ts = trigs[j].ts

(* None is left out whose BXID is not too large. *)
AllTaken(start, q, trigs, n) ==
  \A j \in 1 .. n : TriggerBxid(start, trigs[j].ts) <= MaxTrigBxid =>
    \E i \in 1 .. Len(q) : q[i] = WithBxid(start, trigs[j])

LEMMA TriggerBxidIs ==
  ASSUME NEW start \in Int, NEW t \in Int, NEW u \in Int, t <= u
  PROVE  /\ TriggerBxid(start, t) \in Int /\ TriggerBxid(start, u) \in Int
         /\ TriggerBxid(start, t) <= TriggerBxid(start, u)
<1>1. PICK a \in Int, c \in Int : a = t - start - Bxid0Offset /\ c = u - start - Bxid0Offset
  BY BuilderAssumption
<1>2. a <= c /\ BxidWidth \in Nat \ {0}
  BY <1>1, BuilderAssumption
<1>3. Quotient(a, BxidWidth) \in Int /\ Quotient(c, BxidWidth) \in Int
  BY <1>2, QuotientIs
<1>4. Quotient(a, BxidWidth) <= Quotient(c, BxidWidth)
  BY <1>2, QuotientMonotone
<1> QED  BY <1>1, <1>3, <1>4 DEF TriggerBxid

(* A trigger that is not before any other goes to the end. *)
LEMMA InsertedIs ==
  ASSUME NEW m \in Seq(BxidTrig), NEW t \in BxidTrig,
         \A i \in 1 .. Len(m) : m[i].bxid <= t.bxid
  PROVE  Inserted(m, t) = Append(m, t)
<1>1. Len(m) \in Nat /\ DOMAIN m = 1 .. Len(m)
  BY LenProperties
<1> DEFINE S == {i \in DOMAIN m : m[i].bxid <= t.bxid}
           k == Cardinality(S)
<1>2. S = 1 .. Len(m)
  BY <1>1
<1>0. PICK one \in Int : one = 1
  OBVIOUS
<1>3. PICK n \in Nat : n = Len(m)
  BY <1>1
<1>4. Cardinality(one .. n) = IF one > n THEN 0 ELSE n - one + 1
  BY FS_Interval
<1>5. k = n
  <2>1. S = one .. n
    BY ONLY <1>0, <1>2, <1>3
  <2>2. (IF one > n THEN 0 ELSE n - one + 1) = n
    BY ONLY <1>0, n \in Nat
  <2> HIDE DEF S
  <2> QED  BY ONLY <1>4, <2>1, <2>2 DEF k
<1>6. SubSeq(m, 1, n) = m
  BY <1>3, SubSeqFull
<1>7. SubSeq(m, n + 1, n) = <<>>
  <2>1. PICK a \in Int : a = n + 1
    OBVIOUS
  <2>2. n < a /\ n \in Int
    BY <2>1
  <2>3. SubSeq(m, a, n) = <<>>
    BY <2>2, SubSeqEmpty
  <2> QED  BY <2>1, <2>3
<1> HIDE DEF k
<1>8. Inserted(m, t) = SubSeq(m, 1, k) \o <<t>> \o SubSeq(m, k + 1, Len(m))
  BY DEF Inserted, k
<1>9. Inserted(m, t) = (m \o <<t>>) \o <<>>
  BY <1>3, <1>5, <1>6, <1>7, <1>8
<1>10. m \o <<t>> = Append(m, t) /\ Append(m, t) \in Seq(BxidTrig)
  OBVIOUS
<1>11. \A q \in Seq(BxidTrig) : q \o <<>> = q
  BY ConcatEmptySeq
<1> QED  BY <1>9, <1>10, <1>11

LEMMA TriggerBxidsIs ==
  ASSUME NEW times \in Times
  PROVE  /\ InBxidOrder(times.start, TriggerBxids(times))
         /\ TakenFrom(TriggerBxids(times), times.trigs, Len(times.trigs))
         /\ times.start # 0 =>
              AllTaken(times.start, TriggerBxids(times), times.trigs, Len(times.trigs))
<1> DEFINE start == times.start
           trigs == times.trigs
           n == Len(trigs)
           w(k) == WithBxid(start, trigs[k])
           next(m, k) == IF TriggerBxid(start, trigs[k].ts) <= MaxTrigBxid
                         THEN Inserted(m, w(k)) ELSE m
           Good(g) == g = [k \in 0 .. n |->
                             IF k = 0 THEN <<>>
                             ELSE IF TriggerBxid(start, trigs[k].ts) <= MaxTrigBxid
                             THEN Inserted(g[k - 1], w(k))
                             ELSE g[k - 1]]
           u == CHOOSE g : Good(g)
           P(k, m) == InBxidOrder(start, m) /\ TakenFrom(m, trigs, k) /\ AllTaken(start, m, trigs, k)
<1>1. TriggerBxids(times) = IF start = 0 THEN <<>> ELSE u[n]
  BY DEF TriggerBxids
<1>2. /\ start \in Int /\ trigs \in Seq(Trig)
      /\ \A i, j \in 1 .. n : i < j => trigs[i].id < trigs[j].id /\ trigs[i].ts < trigs[j].ts
  BY DEF Times, Arrived
<1> HIDE DEF start, trigs
<1>3. n \in Nat /\ \A k \in 1 .. n : trigs[k] \in Trig
  BY <1>2, LenProperties, ElementOfSeq
<1>4. \A k \in 1 .. n : /\ trigs[k].ts \in Int /\ trigs[k].id \in Nat
                        /\ TriggerBxid(start, trigs[k].ts) \in Int
  <2>1. \A k \in 1 .. n : trigs[k].ts \in Int /\ trigs[k].id \in Nat
    BY <1>3 DEF Trig
  <2>2. \A x \in Int : TriggerBxid(start, x) \in Int
    BY <1>2, TriggerBxidIs
  <2> QED  BY <2>1, <2>2
<1>5. \A k \in 1 .. n : /\ w(k) \in BxidTrig /\ w(k).id = trigs[k].id /\ w(k).ts = trigs[k].ts
                        /\ w(k).bxid = TriggerBxid(start, trigs[k].ts)
  BY <1>4 DEF WithBxid, BxidTrig
<1> HIDE DEF w, n
<1>6. \A m \in Seq(BxidTrig) : \A k \in 1 .. n : next(m, k) \in Seq(BxidTrig)
  <2>1. \A m \in Seq(BxidTrig) : \A t \in BxidTrig : Inserted(m, t) \in Seq(BxidTrig)
    <3> SUFFICES ASSUME NEW m \in Seq(BxidTrig), NEW t \in BxidTrig
                 PROVE  Inserted(m, t) \in Seq(BxidTrig)
      OBVIOUS
    <3> DEFINE S == {i \in DOMAIN m : m[i].bxid <= t.bxid}
               k == Cardinality(S)
    <3>1. Len(m) \in Nat /\ DOMAIN m = 1 .. Len(m)
      BY LenProperties
    <3>2. IsFiniteSet(S) /\ k <= Len(m) /\ k \in Nat
      <4>1. PICK one \in Int : one = 1
        OBVIOUS
      <4>2. PICK l \in Nat : l = Len(m)
        BY <3>1
      <4>3. IsFiniteSet(one .. l) /\ Cardinality(one .. l) = IF one > l THEN 0 ELSE l - one + 1
        BY FS_Interval
      <4>4. Cardinality(one .. l) = l
        BY <4>1, <4>3
      <4>5. S \in SUBSET (one .. l)
        BY <3>1, <4>1, <4>2
      <4> HIDE DEF S
      <4>6. IsFiniteSet(S) /\ Cardinality(S) <= Cardinality(one .. l)
        BY <4>3, <4>5, FS_Subset
      <4>7. Cardinality(S) \in Nat
        BY <4>6, FS_CardinalityType
      <4> QED  BY <4>2, <4>4, <4>6, <4>7
    <3> HIDE DEF S, k
    <3>3. SubSeq(m, 1, k) \in Seq(BxidTrig)
      <4>1. \A i \in 1 .. k : m[i] \in BxidTrig
        BY <3>1, <3>2, ElementOfSeq
      <4>2. PICK one \in Int : one = 1
        OBVIOUS
      <4>3. SubSeq(m, one, k) \in Seq(BxidTrig)
        BY <3>2, <4>1, <4>2, SubSeqProperties
      <4> QED  BY <4>2, <4>3
    <3>4. SubSeq(m, k + 1, Len(m)) \in Seq(BxidTrig)
      <4>1. \A i \in k + 1 .. Len(m) : m[i] \in BxidTrig
        BY <3>1, <3>2, ElementOfSeq
      <4>2. PICK l \in Int : l = k + 1
        BY <3>2
      <4>3. SubSeq(m, l, Len(m)) \in Seq(BxidTrig)
        BY <3>1, <4>1, <4>2, SubSeqProperties
      <4> QED  BY <4>2, <4>3
    <3>5. <<t>> \in Seq(BxidTrig)
      OBVIOUS
    <3>6. \A x, y \in Seq(BxidTrig) : x \o y \in Seq(BxidTrig)
      BY ConcatProperties
    <3>7. Inserted(m, t) = SubSeq(m, 1, k) \o <<t>> \o SubSeq(m, k + 1, Len(m))
      BY DEF Inserted, k, S
    <3> QED  BY <3>3, <3>4, <3>5, <3>6, <3>7
  <2> QED  BY <1>5, <2>1
<1> DEFINE V == Seq(BxidTrig)
           step == [p \in (1 .. n) \X V |-> next(p[2], p[1])]
<1>7. \A k \in 1 .. n : \A m \in V : step[<<k, m>>] = next(m, k)
  OBVIOUS
<1>8. StepIn(step, n, V)
  BY <1>6, <1>7 DEF StepIn
<1>9. <<>> \in V
  OBVIOUS
<1> HIDE DEF V, step
<1>10. PICK e \in V : e = <<>>
  BY <1>9
<1>11. n \in Nat
  BY <1>3
<1>12. PICK f \in [0 .. n -> V] : Iterates(f, n, e, step)
  BY <1>8, <1>11, IterationExists
<1>13. Good(f)
  <2> DEFINE g == [k \in 0 .. n |->
                     IF k = 0 THEN <<>>
                     ELSE IF TriggerBxid(start, trigs[k].ts) <= MaxTrigBxid
                     THEN Inserted(f[k - 1], w(k))
                     ELSE f[k - 1]]
  <2>1. \A k \in 0 .. n : k # 0 => k \in 1 .. n /\ f[k - 1] \in V
    BY <1>11
  <2>2. \A k \in 0 .. n : f[k] = g[k]
    BY <1>7, <1>10, <1>12, <2>1 DEF Iterates
  <2>3. f = [k \in 0 .. n |-> f[k]] /\ g = [k \in 0 .. n |-> g[k]]
    OBVIOUS
  <2> HIDE DEF g
  <2>4. f = g
    BY ONLY <2>2, <2>3
  <2> QED  BY <2>4 DEF g
<1>14. Good(u)
  BY <1>13
<1> HIDE DEF u
<1>15. /\ u[0] = <<>>
       /\ \A k \in 1 .. n : u[k] = next(u[k - 1], k)
  <2>1. 0 \in 0 .. n /\ \A k \in 1 .. n : k \in 0 .. n /\ k # 0
    BY <1>11
  <2> QED  BY <1>14, <2>1
<1> HIDE DEF next
<1> DEFINE S == {k \in 0 .. n : P(k, u[k])}
<1>16. InBxidOrder(start, <<>>) /\ TakenFrom(<<>>, trigs, 0) /\ TakenFrom(<<>>, trigs, n)
       /\ AllTaken(start, <<>>, trigs, 0)
  <2>1. <<>> \in Seq(BxidTrig) /\ Len(<<>>) = 0
    OBVIOUS
  <2>2. AllTaken(start, <<>>, trigs, 0)
    BY DEF AllTaken
  <2> QED  BY <2>1, <2>2 DEF InBxidOrder, TakenFrom
<1>17. 0 \in S
  BY <1>11, <1>15, <1>16
<1>18. ASSUME NEW k \in 1 .. n, k - 1 \in S
       PROVE  k \in S
  <2>1. PICK m : m = u[k - 1]
    OBVIOUS
  <2>2. InBxidOrder(start, m) /\ TakenFrom(m, trigs, k - 1) /\ AllTaken(start, m, trigs, k - 1)
    BY <1>18, <2>1
  <2>3. u[k] = next(m, k)
    BY <1>15, <2>1
  <2>4. Len(m) \in Nat /\ m \in Seq(BxidTrig) /\ \A i \in 1 .. Len(m) : m[i] \in BxidTrig
    BY <2>2, LenProperties, ElementOfSeq DEF InBxidOrder
  <2>5. CASE ~(TriggerBxid(start, trigs[k].ts) <= MaxTrigBxid)
    <3>1. u[k] = m
      BY <2>3, <2>5 DEF next
    <3>2. TakenFrom(m, trigs, k)
      BY <1>11, <2>2 DEF TakenFrom
    <3>3. AllTaken(start, m, trigs, k)
      <4>1. \A j \in 1 .. k : j \in 1 .. k - 1 \/ j = k
        BY <1>11
      <4> QED  BY <2>2, <2>5, <4>1 DEF AllTaken
    <3> QED  BY <1>11, <2>2, <3>1, <3>2, <3>3
  <2>6. CASE TriggerBxid(start, trigs[k].ts) <= MaxTrigBxid
    <3>1. PICK t \in BxidTrig : /\ t = w(k) /\ t.id = trigs[k].id /\ t.ts = trigs[k].ts
                                /\ t.bxid = TriggerBxid(start, trigs[k].ts)
      BY <1>5
    <3>2. ASSUME NEW i \in 1 .. Len(m)
          PROVE  m[i].id < t.id /\ m[i].ts < t.ts /\ m[i].bxid <= t.bxid
      <4>1. PICK j \in 1 .. k - 1 : m[i].id = trigs[j].id /\ m[i].ts = trigs[j].ts
        BY <2>2 DEF TakenFrom
      <4>2. j \in 1 .. n /\ j < k /\ k \in 1 .. n
        BY <1>11
      <4>3. trigs[j].id < trigs[k].id /\ trigs[j].ts < trigs[k].ts
        BY <1>2, <4>2 DEF n
      <4>4. trigs[j].ts \in Int /\ trigs[k].ts \in Int /\ trigs[j].ts <= trigs[k].ts
        BY <1>4, <4>2, <4>3
      <4>5. TriggerBxid(start, trigs[j].ts) <= TriggerBxid(start, trigs[k].ts)
        BY <1>2, <4>4, TriggerBxidIs
      <4>6. m[i].bxid = TriggerBxid(start, m[i].ts)
        BY <2>2 DEF InBxidOrder
      <4> QED  BY <3>1, <4>1, <4>3, <4>5, <4>6
    <3>3. u[k] = Inserted(m, t)
      BY <2>3, <2>6, <3>1 DEF next
    <3>4. u[k] = Append(m, t)
      BY <2>4, <3>2, <3>3, InsertedIs
    <3>5. PICK q : q = Append(m, t)
      OBVIOUS
    <3>6. /\ q \in Seq(BxidTrig) /\ Len(q) = Len(m) + 1 /\ q[Len(m) + 1] = t
          /\ \A i \in 1 .. Len(m) : q[i] = m[i]
      BY <2>4, <3>5, AppendProperties
    <3>7. ASSUME NEW i \in 1 .. Len(q)
          PROVE  \/ i \in 1 .. Len(m) /\ q[i] = m[i]
                 \/ i = Len(m) + 1 /\ q[i] = t
      BY <2>4, <3>6
    <3>8. ASSUME NEW i \in 1 .. Len(q)
          PROVE  q[i].bxid <= MaxTrigBxid /\ q[i].bxid = TriggerBxid(start, q[i].ts)
      <4>1. CASE i \in 1 .. Len(m) /\ q[i] = m[i]
        BY <2>2, <4>1 DEF InBxidOrder
      <4>2. CASE q[i] = t
        BY <2>6, <3>1, <4>2
      <4> QED  BY <3>7, <4>1, <4>2
    <3>9. ASSUME NEW i \in 1 .. Len(q), NEW j \in 1 .. Len(q), i < j
          PROVE  q[i].id < q[j].id /\ q[i].ts < q[j].ts /\ q[i].bxid <= q[j].bxid
      <4>1. i \in 1 .. Len(m) /\ q[i] = m[i]
        BY <2>4, <3>6, <3>9
      <4>2. CASE j \in 1 .. Len(m) /\ q[j] = m[j]
        BY <2>2, <3>9, <4>1, <4>2 DEF InBxidOrder
      <4>3. CASE q[j] = t
        BY <3>2, <4>1, <4>3
      <4> QED  BY <3>7, <4>2, <4>3
    <3>10. InBxidOrder(start, q)
      BY <3>6, <3>8, <3>9 DEF InBxidOrder
    <3>11. ASSUME NEW i \in 1 .. Len(q)
           PROVE  \E j \in 1 .. k : q[i].id = trigs[j].id /\ q[i].ts = trigs[j].ts
      <4>1. CASE i \in 1 .. Len(m) /\ q[i] = m[i]
        <5>1. PICK j \in 1 .. k - 1 : m[i].id = trigs[j].id /\ m[i].ts = trigs[j].ts
          BY <2>2, <4>1 DEF TakenFrom
        <5>2. j \in 1 .. k
          BY <1>11
        <5> QED  BY <4>1, <5>1, <5>2
      <4>2. CASE q[i] = t
        <5>1. k \in 1 .. k
          BY <1>11
        <5> QED  BY <3>1, <4>2, <5>1
      <4> QED  BY <3>7, <4>1, <4>2
    <3>12. TakenFrom(q, trigs, k)
      BY <3>11 DEF TakenFrom
    <3>13. k \in 0 .. n
      BY <1>11
    <3>14. ASSUME NEW j \in 1 .. k, TriggerBxid(start, trigs[j].ts) <= MaxTrigBxid
           PROVE  \E i \in 1 .. Len(q) : q[i] = WithBxid(start, trigs[j])
      <4>1. CASE j = k
        <5>1. t = WithBxid(start, trigs[k])
          BY <3>1 DEF w
        <5>2. Len(m) + 1 \in 1 .. Len(q)
          BY <2>4, <3>6
        <5> QED  BY <3>6, <4>1, <5>1, <5>2
      <4>2. CASE j # k
        <5>1. j \in 1 .. k - 1
          BY <1>11, <4>2
        <5>2. PICK i \in 1 .. Len(m) : m[i] = WithBxid(start, trigs[j])
          BY <2>2, <3>14, <5>1 DEF AllTaken
        <5>3. i \in 1 .. Len(q)
          BY <2>4, <3>6
        <5> QED  BY <3>6, <5>2, <5>3
      <4> QED  BY <4>1, <4>2
    <3>15. AllTaken(start, q, trigs, k)
      BY <3>14 DEF AllTaken
    <3> QED  BY <3>4, <3>5, <3>10, <3>12, <3>13, <3>15
  <2> QED  BY <2>5, <2>6
<1> HIDE DEF S
<1>19. 0 .. n \subseteq S
  BY <1>11, <1>17, <1>18, UpToInduction
<1>20. P(n, u[n])
  <2>1. n \in S
    BY <1>11, <1>19
  <2> QED  BY <2>1 DEF S
<1>21. /\ InBxidOrder(start, TriggerBxids(times))
       /\ TakenFrom(TriggerBxids(times), trigs, n)
       /\ start # 0 => AllTaken(start, TriggerBxids(times), trigs, n)
  BY <1>1, <1>16, <1>20
<1> QED  BY <1>21 DEF start, trigs, n
-----------------------------------------------------------------------------
(* The triggers of a BXID are next to each other. *)
LEMMA SameBxidIs ==
  ASSUME NEW start \in Int, NEW trigs, InBxidOrder(start, trigs), NEW k \in 1 .. Len(trigs)
  PROVE  /\ Cardinality(SameBxid(trigs, k)) \in 0 .. Len(trigs) - k
         /\ SameBxid(trigs, k) = {} <=> Cardinality(SameBxid(trigs, k)) = 0
         /\ \A j \in k .. k + Cardinality(SameBxid(trigs, k)) : trigs[j].bxid = trigs[k].bxid
         /\ \A j \in k + 1 .. Len(trigs) :
              k + Cardinality(SameBxid(trigs, k)) < j => trigs[k].bxid < trigs[j].bxid
<1> DEFINE S == SameBxid(trigs, k)
<1>1. PICK n \in Nat : n = Len(trigs)
  BY LenProperties DEF InBxidOrder
<1>2. k \in 1 .. n /\ k \in Nat
  BY <1>1
<1>3. /\ \A j \in 1 .. n : trigs[j].bxid \in Int
      /\ \A i, j \in 1 .. n : i < j => trigs[i].bxid <= trigs[j].bxid
  <2>1. \A j \in 1 .. n : trigs[j] \in BxidTrig
    BY <1>1, ElementOfSeq DEF InBxidOrder
  <2> QED  BY <1>1, <2>1 DEF InBxidOrder, BxidTrig
<1>4. \A j : j \in S <=> j \in k + 1 .. n /\ trigs[j].bxid = trigs[k].bxid
  BY <1>1 DEF SameBxid
<1>5. \E m \in k .. n : S = k + 1 .. m
  <2>1. CASE S = {}
    <3>1. k \in k .. n /\ k + 1 .. k = {}
      BY <1>2
    <3> QED  BY <2>1, <3>1
  <2>2. CASE S # {}
    <3>1. S \in SUBSET Nat /\ \A x \in S : x <= n
      BY <1>2, <1>4
    <3>2. PICK m \in S : \A x \in S : x <= m
      BY <2>2, <3>1, GreatestExists
    <3>3. m \in k + 1 .. n /\ trigs[m].bxid = trigs[k].bxid
      BY <1>4, <3>2
    <3>4. ASSUME NEW j \in k + 1 .. m PROVE j \in S
      <4>1. j \in 1 .. n /\ m \in 1 .. n /\ k < j /\ (j < m \/ j = m)
        BY <1>2, <3>3
      <4>2. trigs[j].bxid = trigs[k].bxid
        BY <1>2, <1>3, <3>3, <4>1
      <4>3. j \in k + 1 .. n
        BY <1>2, <3>3
      <4> QED  BY <1>4, <4>2, <4>3
    <3>5. ASSUME NEW j \in S PROVE j \in k + 1 .. m
      BY <1>2, <1>4, <3>2, <3>3
    <3> HIDE DEF S
    <3>6. S = k + 1 .. m
      BY ONLY <3>4, <3>5
    <3> QED  BY <1>2, <3>3, <3>6
  <2> QED  BY <2>1, <2>2
<1> HIDE DEF S
<1>6. PICK m \in k .. n : S = k + 1 .. m
  BY <1>5
<1>7. Cardinality(S) = m - k
  <2>1. PICK a \in Int : a = k + 1
    BY <1>2
  <2>2. m \in Int
    BY <1>2
  <2>3. Cardinality(a .. m) = IF a > m THEN 0 ELSE m - a + 1
    BY <2>2, FS_Interval
  <2> QED  BY <1>2, <1>6, <2>1, <2>3
<1>8. PICK c \in 0 .. n - k : c = Cardinality(S) /\ m = k + c
  BY <1>2, <1>7
<1>9. S = {} <=> c = 0
  <2>1. S = {} <=> m = k
    BY <1>2, <1>6
  <2> QED  BY <1>2, <1>8, <2>1
<1>10. \A j \in k .. k + c : trigs[j].bxid = trigs[k].bxid
  <2>1. \A j \in k .. k + c : j = k \/ j \in S
    BY <1>2, <1>6, <1>8
  <2> QED  BY <1>4, <2>1
<1>11. ASSUME NEW j \in k + 1 .. n, k + c < j
       PROVE  trigs[k].bxid < trigs[j].bxid
  <2>1. j \notin S
    BY <1>2, <1>6, <1>8, <1>11
  <2>2. trigs[j].bxid # trigs[k].bxid
    BY <1>4, <2>1
  <2>3. j \in 1 .. n /\ k < j
    BY <1>2
  <2> QED  BY <1>2, <1>3, <2>2, <2>3
<1> QED  BY <1>1, <1>8, <1>9, <1>10, <1>11 DEF S

ValidState ==
  [left : SUBSET Nat, last : Int, joined : Nat, undefined : BOOLEAN, out : Seq(BuiltEvent)]

LEMMA LookedIs ==
  ASSUME NEW left \in SUBSET Nat, NEW x \in Int, x <= MaxTrigBxid
  PROVE  /\ Looked(Remaining(left, x)) \in Nat /\ x <= Looked(Remaining(left, x))
         /\ Remaining(left, x) \in SUBSET Nat /\ Remaining(left, x) \subseteq left
         /\ Remaining(left, x) = {} => Looked(Remaining(left, x)) > x
         /\ Remaining(left, x) # {} => Looked(Remaining(left, x)) \in Remaining(left, x)
         /\ \A y \in left : y >= x => Looked(Remaining(left, x)) <= y
<1> DEFINE R == Remaining(left, x)
<1>1. R \in SUBSET Nat /\ R \subseteq left /\ \A y : y \in R <=> y \in left /\ y >= x
  BY DEF Remaining
<1>2. NoBxid \in Nat /\ x < NoBxid
  BY BuilderAssumption DEF NoBxid
<1> HIDE DEF R
<1>3. CASE R = {}
  <2>1. Looked(Remaining(left, x)) = NoBxid
    BY <1>3 DEF Looked, R
  <2> QED  BY <1>1, <1>2, <1>3, <2>1 DEF R
<1>4. CASE R # {}
  <2>1. Looked(Remaining(left, x)) = Min(R)
    BY <1>4 DEF Looked, R
  <2>2. Min(R) \in R /\ Min(R) \in Nat /\ \A y \in R : Min(R) <= y
    BY <1>1, <1>4, MinIs
  <2> QED  BY <1>1, <1>4, <2>1, <2>2 DEF R
<1> QED  BY <1>3, <1>4

(* What the trigger loop does for trigger k: skip it, write an empty event, drop
   an incomplete BXID, or write an event. *)
Skipped(b, k, c) == k <= b.joined /\ c = b

WritesEmpty(roc, times, trigs, b, k, c) ==
  LET t == trigs[k]
  IN  /\ ~(k <= b.joined) /\ Looked(Remaining(b.left, t.bxid)) > t.bxid /\ minHits = 0
      /\ c.left = Remaining(b.left, t.bxid) /\ c.joined = b.joined
      /\ c.undefined = b.undefined
      /\ \E e \in BuiltEvent :
           /\ c.out = b.out \o (Missed(roc, b.last, t.id + TrigidOffset) \o <<e>>)
           /\ e.kind = "empty" /\ e.roc = roc /\ e.bxid = t.bxid
           /\ e.trigs = <<t.id>> /\ e.hits = {}
           /\ e.from = BxidBegin(times.start, t.bxid) /\ e.to = BxidEnd(times.start, t.bxid)

DropsIncomplete(roc, trigs, b, k, c) ==
  LET t == trigs[k]
      bxid == Looked(Remaining(b.left, t.bxid))
  IN  /\ ~(k <= b.joined) /\ ~(bxid > t.bxid /\ minHits = 0)
      /\ ~IsBXIDComplete(roc, bxid) /\ ~dummies
      /\ c.left = Remaining(b.left, t.bxid) \ {bxid} /\ c.joined = b.joined
      /\ c.undefined = (b.undefined \/ Remaining(b.left, t.bxid) = {})
      /\ c.out = b.out

WritesEvent(roc, times, hits, trigs, b, k, c) ==
  LET t == trigs[k]
      bxid == Looked(Remaining(b.left, t.bxid))
      left == Remaining(b.left, t.bxid)
  IN  /\ ~(k <= b.joined) /\ ~(bxid > t.bxid /\ minHits = 0)
      /\ IsBXIDComplete(roc, bxid) \/ dummies
      /\ c.left = IF ~dummies /\ SameBxid(trigs, k) = {} THEN left \ {bxid} ELSE left
      /\ c.joined = IF dummies THEN k ELSE k + Cardinality(SameBxid(trigs, k))
      /\ c.undefined = (b.undefined \/ left = {})
      /\ \E e \in BuiltEvent :
           /\ c.out = b.out \o (Missed(roc, b.last, t.id + TrigidOffset) \o <<e>>)
           /\ e.kind = "data" /\ e.roc = roc /\ e.bxid = t.bxid
           /\ e.trigs = JoinedIds(trigs, k, SameBxid(trigs, k)) /\ e.hits = {h \in hits : h[2] = bxid}
           /\ e.from = BxidBegin(times.start, t.bxid) /\ e.to = BxidEnd(times.start, t.bxid)

Validated(roc, times, hits, trigs, b, k, c) ==
  \/ Skipped(b, k, c)
  \/ WritesEmpty(roc, times, trigs, b, k, c)
  \/ DropsIncomplete(roc, trigs, b, k, c)
  \/ WritesEvent(roc, times, hits, trigs, b, k, c)

LEMMA ValidateTriggerIs ==
  ASSUME NEW roc \in Nat, NEW times \in Times, NEW hits \in SUBSET Hit,
         NEW trigs, InBxidOrder(times.start, trigs),
         NEW b \in ValidState, NEW k \in 1 .. Len(trigs)
  PROVE  LET c == ValidateTrigger(roc, times, hits, trigs, b, k)
         IN  c \in ValidState /\ Validated(roc, times, hits, trigs, b, k, c)
<1> DEFINE t == trigs[k]
           number == t.id + TrigidOffset
           missed == Missed(roc, b.last, t.id + TrigidOffset)
           last == b.last + Len(missed)
           left == Remaining(b.left, t.bxid)
           bxid == Looked(Remaining(b.left, t.bxid))
           same == SameBxid(trigs, k)
           from == BxidBegin(times.start, t.bxid)
           to == BxidEnd(times.start, t.bxid)
           e1 == EmptyEvent(roc, t, from, to)
           e2 == EventOf("data", roc, t.bxid, number, JoinedIds(trigs, k, SameBxid(trigs, k)),
                         {h \in hits : h[2] = bxid}, from, to)
           empty == [b EXCEPT !.left = left, !.last = last + 1,
                              !.out = @ \o missed \o <<e1>>]
           drop == [b EXCEPT !.left = left \ {bxid}, !.undefined = @ \/ left = {}]
           event == [b EXCEPT
                       !.left = IF ~dummies /\ same = {} THEN left \ {bxid} ELSE left,
                       !.last = last, !.joined = JoinedUpTo(k, same),
                       !.undefined = @ \/ left = {},
                       !.out = @ \o missed \o <<e2>>]
           c == ValidateTrigger(roc, times, hits, trigs, b, k)
<1>1. c = IF k <= b.joined THEN b
          ELSE IF bxid > t.bxid /\ minHits = 0 THEN empty
          ELSE IF ~IsBXIDComplete(roc, bxid) /\ ~dummies THEN drop ELSE event
  BY DEF ValidateTrigger
<1>2. /\ trigs \in Seq(BxidTrig) /\ t \in BxidTrig
      /\ t.id \in Nat /\ t.bxid \in Int /\ t.bxid <= MaxTrigBxid /\ times.start \in Int
  <2>1. trigs \in Seq(BxidTrig)
    BY DEF InBxidOrder
  <2>2. t \in BxidTrig
    BY <2>1, ElementOfSeq
  <2> QED  BY <2>1, <2>2 DEF InBxidOrder, BxidTrig, Times
<1>3. /\ b.left \in SUBSET Nat /\ b.last \in Int /\ b.joined \in Nat
      /\ b.undefined \in BOOLEAN /\ b.out \in Seq(BuiltEvent)
  BY DEF ValidState
<1>4. /\ bxid \in Nat /\ left \in SUBSET Nat
  BY <1>2, <1>3, LookedIs
<1>5. Cardinality(same) \in 0 .. Len(trigs) - k /\ Len(trigs) \in Nat /\ k \in Nat
  <2>1. Len(trigs) \in Nat
    BY <1>2, LenProperties
  <2>2. Cardinality(SameBxid(trigs, k)) \in 0 .. Len(trigs) - k
    BY <1>2, SameBxidIs
  <2> QED  BY <2>1, <2>2
<1> HIDE DEF same, bxid, left, t, c
<1>6. missed \in Seq(BuiltEvent) /\ Len(missed) \in Nat
  <2>1. number \in Int
    BY <1>2, BuilderAssumption
  <2> HIDE DEF number
  <2>2. missed \in Seq(BuiltEvent)
    <3>1. roc \in Int
      OBVIOUS
    <3> QED  BY <1>3, <2>1, <3>1, MissedIs DEF number
  <2> HIDE DEF missed
  <2> QED  BY <2>2, LenProperties
<1> HIDE DEF missed
<1>7. from \in Int /\ to \in Int
  <2>1. t.bxid * BxidWidth \in Int /\ (t.bxid + 1) * BxidWidth \in Int /\ Bxid0Offset \in Int
    BY <1>2, BuilderAssumption
  <2> QED  BY <1>2, <2>1 DEF BxidBegin, BxidEnd
<1> HIDE DEF from, to
<1>8. /\ e1 \in BuiltEvent
      /\ e1.kind = "empty" /\ e1.roc = roc /\ e1.bxid = t.bxid
      /\ e1.trigs = <<t.id>> /\ e1.hits = {} /\ e1.from = from /\ e1.to = to
  <2>1. <<t.id>> \in Seq(Int)
    <3>1. t.id \in Int
      BY <1>2
    <3> QED  BY <3>1
  <2> QED  BY <1>2, <1>7, <2>1 DEF EmptyEvent, EventOf, BuiltEvent
<1>9. JoinedIds(trigs, k, SameBxid(trigs, k)) \in Seq(Int)
  <2>1. <<t.id>> \in Seq(Int)
    <3>1. t.id \in Int
      BY <1>2
    <3> QED  BY <3>1
  <2>2. ASSUME NEW j \in 1 .. 1 + Cardinality(same)
        PROVE  trigs[k + j - 1].id \in Int
    <3>1. k + j - 1 \in 1 .. Len(trigs)
      BY <1>5
    <3>2. trigs[k + j - 1] \in BxidTrig
      BY <1>2, <3>1, ElementOfSeq
    <3> QED  BY <3>2 DEF BxidTrig
  <2>3. [j \in 1 .. 1 + Cardinality(same) |-> trigs[k + j - 1].id] \in Seq(Int)
    BY <1>5, <2>2, SMTT(60)
  <2> QED  BY <2>1, <2>3 DEF JoinedIds, same, t
<1>10. /\ e2 \in BuiltEvent
       /\ e2.kind = "data" /\ e2.roc = roc /\ e2.bxid = t.bxid
       /\ e2.trigs = JoinedIds(trigs, k, SameBxid(trigs, k)) /\ e2.hits = {h \in hits : h[2] = bxid}
       /\ e2.from = from /\ e2.to = to
  <2>1. number \in Int
    BY <1>2, BuilderAssumption
  <2>2. {h \in hits : h[2] = bxid} \in SUBSET Hit
    OBVIOUS
  <2> HIDE DEF number
  <2> QED  BY <1>2, <1>7, <1>9, <2>1, <2>2 DEF EventOf, BuiltEvent
<1> HIDE DEF e1, e2
<1>11. /\ b.out \o missed \o <<e1>> = b.out \o (missed \o <<e1>>)
       /\ b.out \o (missed \o <<e1>>) \in Seq(BuiltEvent)
       /\ b.out \o missed \o <<e2>> = b.out \o (missed \o <<e2>>)
       /\ b.out \o (missed \o <<e2>>) \in Seq(BuiltEvent)
  BY <1>3, <1>6, <1>8, <1>10, PutBehind
<1>12. CASE k <= b.joined
  <2>1. c = b
    BY <1>1, <1>12
  <2> QED  BY <1>12, <2>1 DEF c, Validated, Skipped
<1>13. CASE ~(k <= b.joined) /\ bxid > t.bxid /\ minHits = 0
  <2>1. c = empty
    BY <1>1, <1>13
  <2>2. PICK l \in Int : l = last + 1
    BY <1>3, <1>6
  <2>3. PICK o \in Seq(BuiltEvent) : /\ o = b.out \o missed \o <<e1>>
                                     /\ o = b.out \o (missed \o <<e1>>)
    BY <1>11
  <2>4. c = [b EXCEPT !.left = left, !.last = l, !.out = o]
    BY <2>1, <2>2, <2>3
  <2>5. c \in ValidState /\ c.left = left /\ c.joined = b.joined
        /\ c.undefined = b.undefined /\ c.out = o
    BY <1>3, <1>4, <2>4 DEF ValidState
  <2>6. WritesEmpty(roc, times, trigs, b, k, c)
    BY <1>8, <1>13, <2>3, <2>5 DEF WritesEmpty, t, left, bxid, missed, from, to
  <2> QED  BY <2>5, <2>6 DEF c, Validated
<1>14. CASE /\ ~(k <= b.joined) /\ ~(bxid > t.bxid /\ minHits = 0)
            /\ ~IsBXIDComplete(roc, bxid) /\ ~dummies
  <2>1. c = drop
    BY <1>1, <1>14
  <2>2. PICK u \in BOOLEAN : u = (b.undefined \/ left = {})
    BY <1>3
  <2>3. c = [b EXCEPT !.left = left \ {bxid}, !.undefined = u]
    BY <2>1, <2>2
  <2>4. c \in ValidState /\ c.left = left \ {bxid} /\ c.joined = b.joined
        /\ c.undefined = u /\ c.out = b.out
    BY <1>3, <1>4, <2>3 DEF ValidState
  <2>5. DropsIncomplete(roc, trigs, b, k, c)
    BY <1>14, <2>2, <2>4 DEF DropsIncomplete, t, left, bxid
  <2> QED  BY <2>4, <2>5 DEF c, Validated
<1>15. CASE /\ ~(k <= b.joined) /\ ~(bxid > t.bxid /\ minHits = 0)
            /\ ~(~IsBXIDComplete(roc, bxid) /\ ~dummies)
  <2>1. c = event
    BY <1>1, <1>15
  <2>2. PICK u \in BOOLEAN : u = (b.undefined \/ left = {})
    BY <1>3
  <2>3. PICK o \in Seq(BuiltEvent) : /\ o = b.out \o missed \o <<e2>>
                                     /\ o = b.out \o (missed \o <<e2>>)
    BY <1>11
  <2>4. PICK j \in Nat : /\ j = JoinedUpTo(k, same)
                         /\ j = IF dummies THEN k ELSE k + Cardinality(same)
    <3>1. k + Cardinality(same) \in Nat
      BY <1>5
    <3> QED  BY <1>5, <3>1 DEF JoinedUpTo
  <2>5. PICK l \in SUBSET Nat : l = IF ~dummies /\ same = {} THEN left \ {bxid} ELSE left
    BY <1>4
  <2>6. PICK m \in Int : m = last
    BY <1>3, <1>6
  <2>7. c = [b EXCEPT !.left = l, !.last = m, !.joined = j, !.undefined = u, !.out = o]
    BY <2>1, <2>2, <2>3, <2>4, <2>5, <2>6
  <2>8. c \in ValidState /\ c.left = l /\ c.joined = j /\ c.undefined = u /\ c.out = o
    BY <1>3, <2>7 DEF ValidState
  <2>9. WritesEvent(roc, times, hits, trigs, b, k, c)
    <3>1. \E e \in BuiltEvent :
            /\ c.out = b.out \o (missed \o <<e>>)
            /\ e.kind = "data" /\ e.roc = roc /\ e.bxid = t.bxid
            /\ e.trigs = JoinedIds(trigs, k, SameBxid(trigs, k)) /\ e.hits = {h \in hits : h[2] = bxid}
            /\ e.from = from /\ e.to = to
      BY <1>10, <2>3, <2>8
    <3>2. IsBXIDComplete(roc, bxid) \/ dummies
      BY <1>15
    <3> QED  BY <1>15, <2>2, <2>4, <2>5, <2>8, <3>1, <3>2
             DEF WritesEvent, t, left, bxid, missed, from, to, same
  <2> QED  BY <2>8, <2>9 DEF c, Validated
<1> QED  BY <1>12, <1>13, <1>14, <1>15

(* Validated events: f is what the trigger loop has after each trigger. *)
ValidLoop(s, roc, hits, trigs, f) ==
  /\ f \in [0 .. Len(trigs) -> ValidState]
  /\ f[0] = [left |-> {h[2] : h \in hits}, last |-> s.last, joined |-> 0,
             undefined |-> s.undefined, out |-> s.out]
  /\ \A k \in 1 .. Len(trigs) :
       f[k] = ValidateTrigger(roc, s.ts[roc], hits, trigs, f[k - 1], k)

HitsOf(s, roc) == IF First(s.asic) = roc THEN s.asic[roc] ELSE {}

(* ASIC data without timestamps go. *)
DropsCycle(s, t) ==
  /\ DOMAIN s.ts = {} \/ First(s.asic) < First(s.ts)
  /\ t.asic = KeepOnly(s.asic, DOMAIN s.asic \ {First(s.asic)})
  /\ t.ts = s.ts /\ t.out = s.out /\ t.last = s.last /\ t.undefined = s.undefined

(* The oldest cycle of the timestamps is processed. *)
ProcessesCycle(s, t) ==
  LET roc == First(s.ts)
      trigs == TriggerBxids(s.ts[roc])
  IN  /\ roc \in DOMAIN s.ts /\ roc \in Nat /\ roc <= First(s.asic)
      /\ \A r \in DOMAIN s.ts : roc <= r
      /\ t.asic = IF First(s.asic) = roc THEN [s.asic EXCEPT ![roc] = {}] ELSE s.asic
      /\ t.ts = KeepOnly(s.ts, {r \in DOMAIN s.ts : r > roc})
      /\ HitsOf(s, roc) \in Hits
      /\ InBxidOrder(s.ts[roc].start, trigs)
      /\ TakenFrom(trigs, s.ts[roc].trigs, Len(s.ts[roc].trigs))
      /\ \E f : /\ ValidLoop(s, roc, HitsOf(s, roc), trigs, f)
                /\ t.out = f[Len(trigs)].out /\ t.last = f[Len(trigs)].last
                /\ t.undefined = f[Len(trigs)].undefined

LEMMA BuildValidatedCycleIs ==
  ASSUME NEW s \in BuildState, DOMAIN s.asic # {}
  PROVE  LET t == BuildValidatedCycle(s)
         IN  t \in BuildState /\ (DropsCycle(s, t) \/ ProcessesCycle(s, t))
<1> DEFINE asicRoc == First(s.asic)
           roc == First(s.ts)
           times == s.ts[roc]
           hits == IF asicRoc = roc THEN s.asic[roc] ELSE {}
           trigs == TriggerBxids(times)
           n == Len(trigs)
           x == [left |-> {h[2] : h \in hits}, last |-> s.last, joined |-> 0,
                 undefined |-> s.undefined, out |-> s.out]
           Good(g) == g = [k \in 0 .. n |->
                             IF k = 0 THEN x
                             ELSE ValidateTrigger(roc, times, hits, trigs, g[k - 1], k)]
           u == CHOOSE g : Good(g)
           t == BuildValidatedCycle(s)
           dropped == [s EXCEPT !.asic = KeepOnly(@, DOMAIN @ \ {asicRoc})]
           processed == [s EXCEPT
                           !.out = u[n].out, !.last = u[n].last,
                           !.undefined = u[n].undefined,
                           !.asic = IF asicRoc = roc THEN [@ EXCEPT ![roc] = {}] ELSE @,
                           !.ts = KeepOnly(@, {r \in DOMAIN @ : r > roc})]
<1>1. t = IF DOMAIN s.ts = {} \/ asicRoc < roc THEN dropped ELSE processed
  BY DEF BuildValidatedCycle
<1>2. asicRoc \in DOMAIN s.asic /\ asicRoc \in Nat
  BY StateIs, MinIs DEF First
<1>3. CASE DOMAIN s.ts = {} \/ asicRoc < roc
  <2>1. PICK a \in Maps(Hits) : a = KeepOnly(s.asic, DOMAIN s.asic \ {asicRoc})
    BY StateIs, KeptIs
  <2>2. t = [s EXCEPT !.asic = a]
    BY <1>1, <1>3, <2>1
  <2> HIDE DEF t, asicRoc, roc
  <2>3. /\ t \in BuildState /\ t.asic = a /\ t.ts = s.ts /\ t.out = s.out /\ t.last = s.last
        /\ t.undefined = s.undefined
    BY <2>2 DEF BuildState
  <2>4. DropsCycle(s, t)
    BY <1>3, <2>1, <2>3 DEF DropsCycle, asicRoc, roc
  <2> QED  BY <2>3, <2>4 DEF t
<1>4. CASE ~(DOMAIN s.ts = {} \/ asicRoc < roc)
  <2>1. roc \in DOMAIN s.ts /\ roc \in Nat /\ \A r \in DOMAIN s.ts : roc <= r
    BY <1>4, StateIs, MinIs DEF First
  <2>2. times \in Times
    BY <2>1, StateIs
  <2>3. hits \in Hits /\ hits \in SUBSET Hit
    <3>1. {} \in Hits
      BY FS_EmptySet DEF Hits
    <3>2. hits \in Hits
      BY <1>2, <3>1, StateIs
    <3> QED  BY <3>2 DEF Hits
  <2>4. InBxidOrder(times.start, trigs) /\ TakenFrom(trigs, times.trigs, Len(times.trigs))
    BY <2>2, TriggerBxidsIs
  <2>5. x \in ValidState
    <3>1. {h[2] : h \in hits} \in SUBSET Nat
      BY <2>3 DEF Hit
    <3>2. 0 \in Nat
      OBVIOUS
    <3> HIDE DEF hits
    <3> QED  BY <3>1, <3>2, StateIs DEF ValidState
  <2> HIDE DEF roc, times, hits, trigs, x, t
  <2>6. n \in Nat
    BY <2>4, LenProperties DEF InBxidOrder
  <2>7. \A k \in 1 .. n : \A c \in ValidState :
          ValidateTrigger(roc, times, hits, trigs, c, k) \in ValidState
    BY <2>1, <2>2, <2>3, <2>4, ValidateTriggerIs
  <2> DEFINE step == [p \in (1 .. n) \X ValidState |->
                        ValidateTrigger(roc, times, hits, trigs, p[2], p[1])]
  <2>8. \A k \in 1 .. n : \A c \in ValidState :
          step[<<k, c>>] = ValidateTrigger(roc, times, hits, trigs, c, k)
    OBVIOUS
  <2>9. StepIn(step, n, ValidState)
    BY <2>7, <2>8 DEF StepIn
  <2> HIDE DEF step, n
  <2>10. PICK f \in [0 .. n -> ValidState] : Iterates(f, n, x, step)
    BY <2>5, <2>6, <2>9, IterationExists
  <2>11. Good(f)
    <3> DEFINE g == [k \in 0 .. n |->
                       IF k = 0 THEN x
                       ELSE ValidateTrigger(roc, times, hits, trigs, f[k - 1], k)]
    <3>1. \A k \in 0 .. n : k # 0 => k \in 1 .. n /\ f[k - 1] \in ValidState
      BY <2>6
    <3>2. \A k \in 0 .. n : f[k] = g[k]
      BY <2>8, <2>10, <3>1 DEF Iterates
    <3>3. f = [k \in 0 .. n |-> f[k]] /\ g = [k \in 0 .. n |-> g[k]]
      OBVIOUS
    <3> HIDE DEF g
    <3>4. f = g
      BY ONLY <3>2, <3>3
    <3> QED  BY <3>4 DEF g
  <2>12. Good(u)
    BY <2>11
  <2> HIDE DEF u
  <2>13. /\ DOMAIN u = 0 .. n /\ u[0] = x
         /\ \A k \in 1 .. n : u[k] = ValidateTrigger(roc, times, hits, trigs, u[k - 1], k)
    <3>1. 0 \in 0 .. n /\ \A k \in 1 .. n : k \in 0 .. n /\ k # 0
      BY <2>6
    <3> QED  BY <2>12, <3>1
  <2>14. \A k \in 0 .. n : u[k] \in ValidState
    <3>1. \A k \in 1 .. n : u[k - 1] \in ValidState => u[k] \in ValidState
      BY <2>7, <2>13
    <3>2. u[0] \in ValidState
      BY <2>5, <2>13
    <3> QED  BY <2>6, <3>1, <3>2, IterationIn
  <2>15. u \in [0 .. n -> ValidState]
    <3>1. u = [k \in 0 .. n |-> u[k]]
      BY <2>12, <2>13
    <3> QED  BY <2>14, <3>1
  <2>16. ValidLoop(s, roc, hits, trigs, u)
    BY <2>13, <2>15 DEF ValidLoop, n, x, times
  <2>17. u[n].last \in Int /\ u[n].out \in Seq(BuiltEvent) /\ u[n].undefined \in BOOLEAN
    BY <2>6, <2>14 DEF ValidState
  <2>18. PICK b \in Maps(Times) : b = KeepOnly(s.ts, {r \in DOMAIN s.ts : r > roc})
    BY StateIs, KeptIs
  <2>19. PICK a \in Maps(Hits) :
           a = IF asicRoc = roc THEN [s.asic EXCEPT ![roc] = {}] ELSE s.asic
    <3>1. s.asic \in Maps(Hits) /\ DOMAIN s.asic \in SUBSET Nat /\ s.asic \in [DOMAIN s.asic -> Hits]
      BY StateIs, MapIs
    <3>2. {} \in Hits
      BY FS_EmptySet DEF Hits
    <3>3. PICK c : c = [s.asic EXCEPT ![roc] = {}]
      OBVIOUS
    <3>4. DOMAIN c = DOMAIN s.asic /\ c \in [DOMAIN s.asic -> Hits]
      BY <3>1, <3>2, <3>3
    <3>5. c \in Maps(Hits)
      BY <3>1, <3>4, MapIs
    <3> QED  BY <3>1, <3>3, <3>5
  <2>20. t = [s EXCEPT !.out = u[n].out, !.last = u[n].last, !.undefined = u[n].undefined,
                       !.asic = a, !.ts = b]
    BY <1>1, <1>4, <2>18, <2>19
  <2> HIDE DEF asicRoc
  <2>21. /\ t \in BuildState /\ t.asic = a /\ t.ts = b /\ t.out = u[n].out
         /\ t.last = u[n].last /\ t.undefined = u[n].undefined
    BY <2>17, <2>20 DEF BuildState
  <2>22. HitsOf(s, roc) = hits
    BY DEF HitsOf, hits, asicRoc
  <2>23. roc <= asicRoc
    BY <1>2, <1>4, <2>1
  <2>24. \E g : /\ ValidLoop(s, roc, hits, trigs, g)
                /\ t.out = g[n].out /\ t.last = g[n].last /\ t.undefined = g[n].undefined
    BY <2>16, <2>21
  <2>25. ProcessesCycle(s, t)
    BY <2>1, <2>3, <2>4, <2>18, <2>19, <2>21, <2>22, <2>23, <2>24
       DEF ProcessesCycle, roc, trigs, times, n, asicRoc
  <2> QED  BY <2>21, <2>25 DEF t
<1> QED  BY <1>3, <1>4
-----------------------------------------------------------------------------
(* b is a with more events, all of them in E, behind. *)
Extends(E, a, b) == \E new \in Seq(E) : b = a \o new

AllIn(q, E) == \A i \in 1 .. Len(q) : q[i] \in E

LEMMA AllInSeq ==
  ASSUME NEW q \in Seq(BuiltEvent), NEW E, AllIn(q, E)
  PROVE  q \in Seq(E)
<1>1. PICK n \in Nat : n = Len(q)
  BY LenProperties
<1>2. q = [i \in 1 .. n |-> q[i]]
  BY <1>1, LenProperties
<1>3. [i \in 1 .. n |-> q[i]] \in Seq(E)
  BY <1>1 DEF AllIn
<1> QED  BY ONLY <1>2, <1>3

LEMMA ExtendsRefl ==
  ASSUME NEW E, NEW a \in Seq(BuiltEvent)
  PROVE  Extends(E, a, a)
<1>1. a \o <<>> = a
  BY ConcatEmptySeq
<1>2. <<>> \in Seq(E)
  OBVIOUS
<1> QED  BY <1>1, <1>2 DEF Extends

LEMMA ExtendsMore ==
  ASSUME NEW E \in SUBSET BuiltEvent, NEW a \in Seq(BuiltEvent), NEW b, Extends(E, a, b),
         NEW w \in Seq(E)
  PROVE  Extends(E, a, b \o w)
<1>1. PICK v \in Seq(E) : b = a \o v
  BY DEF Extends
<1>2. v \in Seq(BuiltEvent) /\ w \in Seq(BuiltEvent)
  BY SeqMonotonic
<1>3. (a \o v) \o w = a \o (v \o w)
  BY <1>2, ConcatAssociative
<1>4. v \o w \in Seq(E)
  BY ConcatProperties
<1> QED  BY <1>1, <1>3, <1>4 DEF Extends

DummyEvent == {e \in BuiltEvent : e.kind = "dummy" /\ e.hits = {} /\ e.trigs = <<>>}

LEMMA MissedEvents ==
  \A roc, last, n \in Int : Missed(roc, last, n) \in Seq(DummyEvent)
<1> SUFFICES ASSUME NEW roc \in Int, NEW last \in Int, NEW n \in Int
             PROVE  Missed(roc, last, n) \in Seq(DummyEvent)
  OBVIOUS
<1>1. PICK x \in Int, y \in Int : x = last + 1 /\ y = n - 1
  OBVIOUS
<1>2. PICK d : d = Dummies(roc, x, y)
  OBVIOUS
<1>3. d \in Seq(BuiltEvent)
  BY <1>1, <1>2, DummiesAre
<1>7. ASSUME NEW i \in 1 .. Len(d)
      PROVE  d[i].kind = "dummy" /\ d[i].hits = {} /\ d[i].trigs = <<>>
  <2>1. Len(d) = IF y >= x THEN y - x + 1 ELSE 0
    BY <1>1, <1>2, DummiesLen
  <2>2. i \in 1 .. (IF y >= x THEN y - x + 1 ELSE 0)
    BY <2>1
  <2>3. /\ Dummies(roc, x, y)[i].kind = "dummy" /\ Dummies(roc, x, y)[i].hits = {}
        /\ Dummies(roc, x, y)[i].trigs = <<>>
    BY <2>2 DEF Dummies, EventOf
  <2> QED  BY <1>2, <2>3
<1>4. AllIn(d, DummyEvent)
  BY <1>3, <1>7, ElementOfSeq DEF DummyEvent, AllIn
<1>5. d \in Seq(DummyEvent)
  BY <1>3, <1>4, AllInSeq
<1>6. <<>> \in Seq(DummyEvent)
  OBVIOUS
<1> QED  BY <1>1, <1>2, <1>5, <1>6 DEF Missed

(* Dummies and an event are events of a set that has dummies. *)
LEMMA MissedAndEvent ==
  ASSUME NEW E \in SUBSET BuiltEvent, DummyEvent \subseteq E, NEW e \in E,
         NEW roc \in Int, NEW last \in Int, NEW n \in Int
  PROVE  Missed(roc, last, n) \o <<e>> \in Seq(E)
<1>1. PICK d \in Seq(DummyEvent) : d = Missed(roc, last, n)
  BY MissedEvents
<1>2. d \in Seq(E)
  BY SeqMonotonic
<1>3. <<e>> \in Seq(E)
  OBVIOUS
<1> QED  BY <1>1, <1>2, <1>3, ConcatProperties
-----------------------------------------------------------------------------
(* What a new event may have in it: hits of the oldest ASIC data only, when it
   has a BXID those of this BXID only, which is complete unless dummies are asked
   for. *)
NewEvent(s) ==
  {e \in BuiltEvent :
     e.hits # {} =>
       /\ e.roc = First(s.asic) /\ e.hits \subseteq s.asic[e.roc]
       /\ e.bxid # None /\ minHits = 0 => \A h \in e.hits : h[2] = e.bxid
       /\ e.bxid # None /\ ~dummies => IsBXIDComplete(e.roc, e.bxid)}

(* What the maps keep of each cycle. *)
Shrinks(s, t) ==
  /\ DOMAIN t.asic \subseteq DOMAIN s.asic
  /\ \A r \in DOMAIN t.asic : t.asic[r] \subseteq s.asic[r]
  /\ DOMAIN t.ts \subseteq DOMAIN s.ts
  /\ \A r \in DOMAIN t.ts : t.ts[r] = s.ts[r]

BuildsCycle(s, t) ==
  /\ t \in BuildState
  /\ Shrinks(s, t)
  /\ Extends(NewEvent(s), s.out, t.out)
  /\ minHits = 0 => t.undefined = s.undefined

LEMMA NewEventIs ==
  \A s : NewEvent(s) \in SUBSET BuiltEvent /\ DummyEvent \subseteq NewEvent(s)
BY DEF NewEvent, DummyEvent

LEMMA TakenOutShrinks ==
  ASSUME NEW s \in BuildState, NEW t, NEW roc, TakenOut(s, t, roc)
  PROVE  Shrinks(s, t)
<1>1. PICK a, b : /\ a = DOMAIN s.asic \ {roc} /\ b = DOMAIN s.ts \ {roc}
  OBVIOUS
<1>2. t.asic = KeepOnly(s.asic, a) /\ t.ts = KeepOnly(s.ts, b)
  BY <1>1 DEF TakenOut
<1>3. /\ DOMAIN KeepOnly(s.asic, a) = DOMAIN s.asic \cap a
      /\ \A x \in DOMAIN s.asic \cap a : KeepOnly(s.asic, a)[x] = s.asic[x]
  <2>1. PICK f \in Maps(Hits) : f = s.asic
    BY StateIs
  <2>2. /\ DOMAIN KeepOnly(f, a) = DOMAIN f \cap a
        /\ \A x \in DOMAIN f \cap a : KeepOnly(f, a)[x] = f[x]
    BY KeepOnlyIs
  <2> QED  BY <2>1, <2>2
<1>4. /\ DOMAIN KeepOnly(s.ts, b) = DOMAIN s.ts \cap b
      /\ \A x \in DOMAIN s.ts \cap b : KeepOnly(s.ts, b)[x] = s.ts[x]
  BY StateIs, KeptIs
<1> QED  BY <1>2, <1>3, <1>4 DEF Shrinks

LEMMA ROCBuilds ==
  ASSUME NEW s \in BuildState, DOMAIN s.asic # {}
  PROVE  BuildsCycle(s, BuildROCCycle(s))
<1> DEFINE t == BuildROCCycle(s)
           roc == First(s.asic)
<1>1. /\ t \in BuildState
      /\ TakenOut(s, t, roc)
      /\ \E e \in BuiltEvent :
           /\ t.out = s.out \o (Missed(None, s.last, roc) \o <<e>>)
           /\ e.roc = roc /\ e.bxid = None /\ e.hits = s.asic[roc]
  BY BuildROCCycleIs
<1>2. roc \in Int /\ s.last \in Int /\ s.out \in Seq(BuiltEvent) /\ None \in Int
  BY StateIs, MinIs DEF First, None
<1> HIDE DEF t, roc
<1>3. PICK e \in BuiltEvent : /\ t.out = s.out \o (Missed(None, s.last, roc) \o <<e>>)
                              /\ e.roc = roc /\ e.bxid = None /\ e.hits = s.asic[roc]
  BY <1>1
<1>4. e \in NewEvent(s)
  BY <1>3 DEF NewEvent, roc
<1>5. Missed(None, s.last, roc) \o <<e>> \in Seq(NewEvent(s))
  BY <1>2, <1>4, NewEventIs, MissedAndEvent
<1>6. Extends(NewEvent(s), s.out, t.out)
  BY <1>3, <1>5 DEF Extends
<1>7. t.undefined = s.undefined
  BY <1>1 DEF TakenOut
<1> QED  BY <1>1, <1>6, <1>7, TakenOutShrinks DEF BuildsCycle, t

LEMMA BXIDBuilds ==
  ASSUME NEW s \in BuildState, DOMAIN s.asic # {}
  PROVE  BuildsCycle(s, BuildBXIDCycle(s))
<1> DEFINE t == BuildBXIDCycle(s)
           roc == First(s.asic)
           bxids == {b \in {h[2] : h \in s.asic[roc]} : IsBXIDComplete(roc, b)}
<1>1. /\ t \in BuildState
      /\ TakenOut(s, t, roc)
      /\ \E new \in Seq(BuiltEvent), order \in Seq(Nat) :
           t.out = s.out \o new /\ BxidEvents(s, roc, bxids, order, new)
  BY BuildBXIDCycleIs
<1> HIDE DEF t, roc
<1>2. PICK new \in Seq(BuiltEvent), order \in Seq(Nat) :
        t.out = s.out \o new /\ BxidEvents(s, roc, bxids, order, new)
  BY <1>1
<1>3. ASSUME NEW k \in 1 .. Len(new)
      PROVE  new[k] \in NewEvent(s)
  <2>1. /\ new[k].roc = roc /\ new[k].bxid = order[k]
        /\ new[k].hits = {h \in s.asic[roc] : h[2] = order[k]}
        /\ order[k] \in bxids
    BY <1>2 DEF BxidEvents
  <2>2. IsBXIDComplete(roc, order[k])
    BY <2>1
  <2>3. new[k] \in BuiltEvent
    BY ElementOfSeq
  <2> QED  BY <2>1, <2>2, <2>3 DEF NewEvent, roc
<1>4. new \in Seq(NewEvent(s))
  <2>1. AllIn(new, NewEvent(s))
    BY <1>3 DEF AllIn
  <2> QED  BY <2>1, AllInSeq
<1>5. Extends(NewEvent(s), s.out, t.out)
  BY <1>2, <1>4 DEF Extends
<1>6. t.undefined = s.undefined
  BY <1>1 DEF TakenOut
<1> QED  BY <1>1, <1>5, <1>6, TakenOutShrinks DEF BuildsCycle, t

LEMMA TRIGIDBuilds ==
  ASSUME NEW s \in BuildState, DOMAIN s.asic # {}
  PROVE  BuildsCycle(s, BuildTRIGIDCycle(s))
<1> DEFINE t == BuildTRIGIDCycle(s)
           roc == First(s.asic)
<1>1. /\ t \in BuildState
      /\ TakenOut(s, t, roc)
      /\ \E inside \in Seq(Trig) : \E f :
           /\ TrigidLoop(s, roc, inside, f)
           /\ t.out = f[Len(inside)].out
  BY BuildTRIGIDCycleIs
<1> HIDE DEF t
<1>2. PICK inside \in Seq(Trig) : \E f :
           /\ TrigidLoop(s, roc, inside, f)
           /\ t.out = f[Len(inside)].out
  BY <1>1
<1>3. PICK f : TrigidLoop(s, roc, inside, f) /\ t.out = f[Len(inside)].out
  BY <1>2
<1>4. PICK n \in Nat : n = Len(inside)
  BY LenProperties
<1>5. roc \in Nat /\ s.asic[roc] \in SUBSET Hit /\ None \in Int
  <2>1. DOMAIN s.asic \in SUBSET Nat /\ \A r \in DOMAIN s.asic : s.asic[r] \in SUBSET Hit
    BY StateIs
  <2>2. roc \in DOMAIN s.asic
    BY <2>1, MinIs DEF First
  <2> QED  BY <2>1, <2>2 DEF None
<1> HIDE DEF roc
<1>6. /\ f \in [0 .. n -> TrigidState] /\ f[0] = [last |-> s.last, out |-> s.out]
      /\ \A k \in 1 .. n : f[k] = EmitTrigger(roc, s.asic[roc], f[k - 1], inside[k])
  BY <1>3, <1>4 DEF TrigidLoop
<1> DEFINE S == {k \in 0 .. n : Extends(NewEvent(s), s.out, f[k].out)}
<1>7. 0 \in S
  <2>1. f[0].out = s.out
    BY <1>6
  <2>2. s.out \in Seq(BuiltEvent)
    BY StateIs
  <2> QED  BY <2>1, <2>2, ExtendsRefl
<1>8. ASSUME NEW k \in 1 .. n, k - 1 \in S
      PROVE  k \in S
  <2>1. PICK b \in TrigidState : b = f[k - 1]
    BY <1>6
  <2>2. PICK u \in Trig : u = inside[k]
    BY <1>4, ElementOfSeq
  <2>3. PICK e \in BuiltEvent :
          /\ f[k].out = b.out \o (Missed(None, b.last, u.id + TrigidOffset) \o <<e>>)
          /\ e.roc = roc /\ e.bxid = None /\ e.hits = s.asic[roc]
    <3>1. PICK hits \in SUBSET Hit : hits = s.asic[roc]
      BY <1>5
    <3>2. f[k] = EmitTrigger(roc, hits, b, u)
      BY <1>6, <2>1, <2>2, <3>1
    <3>3. TriggerEmitted(roc, hits, b, u, EmitTrigger(roc, hits, b, u))
      BY <1>5, EmitTriggerIs
    <3> QED  BY <3>1, <3>2, <3>3 DEF TriggerEmitted
  <2>4. e \in NewEvent(s)
    BY <2>3 DEF NewEvent, roc
  <2>5. PICK m \in Int : m = u.id + TrigidOffset
    BY BuilderAssumption DEF Trig
  <2>6. b.last \in Int /\ b.out \in Seq(BuiltEvent)
    BY DEF TrigidState
  <2>7. Missed(None, b.last, m) \o <<e>> \in Seq(NewEvent(s))
    BY <1>5, <2>4, <2>6, NewEventIs, MissedAndEvent
  <2>8. s.out \in Seq(BuiltEvent) /\ Extends(NewEvent(s), s.out, b.out)
    BY <1>8, <2>1, StateIs
  <2>9. Extends(NewEvent(s), s.out, f[k].out)
    BY <2>3, <2>5, <2>6, <2>7, <2>8, NewEventIs, ExtendsMore
  <2> QED  BY <2>9
<1> HIDE DEF S
<1>9. 0 .. n \subseteq S
  BY <1>7, <1>8, UpToInduction
<1>10. Extends(NewEvent(s), s.out, t.out)
  <2>1. n \in S
    BY <1>9
  <2> QED  BY <2>1, <1>3, <1>4 DEF S
<1>11. t.undefined = s.undefined
  BY <1>1 DEF TakenOut
<1> QED  BY <1>1, <1>10, <1>11, TakenOutShrinks DEF BuildsCycle, t

LEMMA CompleteBefore ==
  ASSUME minLast \in Maps(Nat), NEW r, NEW x \in Int, NEW y \in Int, x <= y,
         IsBXIDComplete(r, y)
  PROVE  IsBXIDComplete(r, x)
<1>1. minLast \in [DOMAIN minLast -> Nat]
  BY MapIs
<1>2. \A q \in DOMAIN minLast : minLast[q] \in Nat
  BY <1>1
<1> QED  BY <1>2 DEF IsBXIDComplete

(* One trigger of the validated loop. *)
LEMMA ValidatedEvent ==
  ASSUME minLast \in Maps(Nat), NEW s \in BuildState, NEW roc \in Nat, NEW times \in Times,
         NEW trigs, InBxidOrder(times.start, trigs),
         NEW b \in ValidState, NEW c \in ValidState, NEW k \in 1 .. Len(trigs),
         Validated(roc, times, HitsOf(s, roc), trigs, b, k, c)
  PROVE  /\ Extends(NewEvent(s), b.out, c.out)
         /\ minHits = 0 => c.undefined = b.undefined
<1> DEFINE hits == HitsOf(s, roc)
           t == trigs[k]
           left == Remaining(b.left, t.bxid)
<1>1. t.bxid \in Int /\ t.bxid <= MaxTrigBxid /\ t.id \in Nat
  <2>1. t \in BxidTrig
    BY ElementOfSeq DEF InBxidOrder
  <2> QED  BY <2>1 DEF BxidTrig, InBxidOrder
<1>2. PICK x \in Int : x = t.bxid
  BY <1>1
<1>3. PICK m \in Int : m = t.id + TrigidOffset
  BY <1>1, BuilderAssumption
<1>4. b.left \in SUBSET Nat /\ b.last \in Int /\ b.out \in Seq(BuiltEvent) /\ roc \in Int
  BY DEF ValidState
<1>5. PICK bxid \in Nat : bxid = Looked(left)
  BY <1>1, <1>2, <1>4, LookedIs
<1>6. x <= bxid /\ (left = {} => bxid > x)
  BY <1>1, <1>2, <1>4, <1>5, LookedIs
<1> HIDE DEF t, left
<1>7. CASE Skipped(b, k, c)
  BY <1>4, <1>7, ExtendsRefl DEF Skipped
<1>8. CASE WritesEmpty(roc, times, trigs, b, k, c)
  <2>1. PICK e \in BuiltEvent :
          c.out = b.out \o (Missed(roc, b.last, m) \o <<e>>) /\ e.hits = {}
    BY <1>8, <1>3 DEF WritesEmpty, t
  <2>2. e \in NewEvent(s)
    BY <2>1 DEF NewEvent
  <2>3. Missed(roc, b.last, m) \o <<e>> \in Seq(NewEvent(s))
    BY <1>4, <2>2, NewEventIs, MissedAndEvent
  <2>4. c.undefined = b.undefined
    BY <1>8 DEF WritesEmpty
  <2> QED  BY <2>1, <2>3, <2>4 DEF Extends
<1>9. CASE DropsIncomplete(roc, trigs, b, k, c)
  <2>1. /\ ~(bxid > x /\ minHits = 0) /\ c.out = b.out
        /\ c.undefined = (b.undefined \/ left = {})
    BY <1>9, <1>2, <1>5 DEF DropsIncomplete, t, left
  <2>2. minHits = 0 => left # {}
    BY <1>6, <2>1
  <2>3. b.undefined \in BOOLEAN
    BY DEF ValidState
  <2>4. minHits = 0 => c.undefined = b.undefined
    BY <2>1, <2>2, <2>3
  <2> QED  BY <1>4, <2>1, <2>4, ExtendsRefl
<1>10. CASE WritesEvent(roc, times, hits, trigs, b, k, c)
  <2>1. /\ ~(bxid > x /\ minHits = 0)
        /\ IsBXIDComplete(roc, bxid) \/ dummies
        /\ c.undefined = (b.undefined \/ left = {})
        /\ \E e \in BuiltEvent :
              /\ c.out = b.out \o (Missed(roc, b.last, m) \o <<e>>)
              /\ e.roc = roc /\ e.bxid = x /\ e.hits = {h \in hits : h[2] = bxid}
    BY <1>10, <1>2, <1>3, <1>5 DEF WritesEvent, t, left
  <2>2. minHits = 0 => left # {}
    BY <1>6, <2>1
  <2>3. b.undefined \in BOOLEAN
    BY DEF ValidState
  <2>4. minHits = 0 => c.undefined = b.undefined
    BY <2>1, <2>2, <2>3
  <2>5. PICK e \in BuiltEvent :
              /\ c.out = b.out \o (Missed(roc, b.last, m) \o <<e>>)
              /\ e.roc = roc /\ e.bxid = x /\ e.hits = {h \in hits : h[2] = bxid}
    BY <2>1
  <2>6. ASSUME e.hits # {}
        PROVE  /\ e.roc = First(s.asic) /\ e.hits \subseteq s.asic[e.roc]
               /\ minHits = 0 => \A h \in e.hits : h[2] = e.bxid
               /\ ~dummies => IsBXIDComplete(e.roc, e.bxid)
    <3>1. hits # {}
      BY <2>5, <2>6
    <3>2. roc = First(s.asic) /\ hits = s.asic[roc]
      BY <3>1 DEF HitsOf
    <3>3. minHits = 0 => bxid = x
      BY <1>6, <2>1
    <3>4. ~dummies => IsBXIDComplete(roc, x)
      BY <1>6, <2>1, CompleteBefore
    <3> QED  BY <2>5, <3>2, <3>3, <3>4
  <2>7. e \in NewEvent(s)
    BY <2>6 DEF NewEvent
  <2>8. Missed(roc, b.last, m) \o <<e>> \in Seq(NewEvent(s))
    BY <1>4, <2>7, NewEventIs, MissedAndEvent
  <2> QED  BY <2>4, <2>5, <2>8 DEF Extends
<1> QED  BY <1>7, <1>8, <1>9, <1>10 DEF Validated

LEMMA ExtendsFurther ==
  ASSUME NEW E \in SUBSET BuiltEvent, NEW a \in Seq(BuiltEvent), NEW b, NEW c,
         Extends(E, a, b), Extends(E, b, c)
  PROVE  Extends(E, a, c)
<1>1. PICK w \in Seq(E) : c = b \o w
  BY DEF Extends
<1> QED  BY <1>1, ExtendsMore

LEMMA ValidatedBuilds ==
  ASSUME minLast \in Maps(Nat), NEW s \in BuildState, DOMAIN s.asic # {}
  PROVE  BuildsCycle(s, BuildValidatedCycle(s))
<1>1. PICK t : t = BuildValidatedCycle(s)
  OBVIOUS
<1>2. t \in BuildState /\ (DropsCycle(s, t) \/ ProcessesCycle(s, t))
  BY <1>1, BuildValidatedCycleIs
<1>3. /\ s.asic \in Maps(Hits) /\ s.ts \in Maps(Times) /\ s.out \in Seq(BuiltEvent)
      /\ \A r \in DOMAIN s.ts : s.ts[r] \in Times
      /\ s.undefined \in BOOLEAN
  BY StateIs
<1>4. CASE DropsCycle(s, t)
  <2>1. PICK a : a = DOMAIN s.asic \ {First(s.asic)}
    OBVIOUS
  <2>2. t.asic = KeepOnly(s.asic, a) /\ t.ts = s.ts /\ t.out = s.out /\ t.undefined = s.undefined
    BY <1>4, <2>1 DEF DropsCycle
  <2>3. /\ DOMAIN KeepOnly(s.asic, a) = DOMAIN s.asic \cap a
        /\ \A x \in DOMAIN s.asic \cap a : KeepOnly(s.asic, a)[x] = s.asic[x]
    <3>1. PICK f \in Maps(Hits) : f = s.asic
      BY <1>3
    <3>2. /\ DOMAIN KeepOnly(f, a) = DOMAIN f \cap a
          /\ \A x \in DOMAIN f \cap a : KeepOnly(f, a)[x] = f[x]
      BY KeepOnlyIs
    <3> QED  BY <3>1, <3>2
  <2>4. Shrinks(s, t)
    BY <2>2, <2>3 DEF Shrinks
  <2> QED  BY <1>1, <1>2, <1>3, <2>2, <2>4, ExtendsRefl DEF BuildsCycle
<1>5. CASE ProcessesCycle(s, t)
  <2>1. PICK roc \in Nat : roc = First(s.ts) /\ roc \in DOMAIN s.ts
    BY <1>5 DEF ProcessesCycle
  <2>2. PICK trigs : trigs = TriggerBxids(s.ts[roc])
    OBVIOUS
  <2>3. /\ t.asic = IF First(s.asic) = roc THEN [s.asic EXCEPT ![roc] = {}] ELSE s.asic
        /\ t.ts = KeepOnly(s.ts, {r \in DOMAIN s.ts : r > roc})
        /\ HitsOf(s, roc) \in Hits /\ InBxidOrder(s.ts[roc].start, trigs)
        /\ \E f : /\ ValidLoop(s, roc, HitsOf(s, roc), trigs, f)
                  /\ t.out = f[Len(trigs)].out /\ t.undefined = f[Len(trigs)].undefined
    BY <1>5, <2>1, <2>2 DEF ProcessesCycle
  <2>4. PICK f : /\ ValidLoop(s, roc, HitsOf(s, roc), trigs, f)
                 /\ t.out = f[Len(trigs)].out /\ t.undefined = f[Len(trigs)].undefined
    BY <2>3
  <2>5. PICK n \in Nat : n = Len(trigs)
    BY <2>3, LenProperties DEF InBxidOrder
  <2>6. PICK times \in Times : times = s.ts[roc]
    BY <1>3, <2>1
  <2>7. PICK hits \in SUBSET Hit : hits = HitsOf(s, roc)
    BY <2>3 DEF Hits
  <2>8. /\ f \in [0 .. n -> ValidState]
        /\ f[0].out = s.out /\ f[0].undefined = s.undefined
        /\ \A k \in 1 .. n : f[k] = ValidateTrigger(roc, times, hits, trigs, f[k - 1], k)
    BY <2>4, <2>5, <2>6, <2>7 DEF ValidLoop
  <2> DEFINE S == {k \in 0 .. n : /\ Extends(NewEvent(s), s.out, f[k].out)
                                  /\ minHits = 0 => f[k].undefined = s.undefined}
  <2>9. 0 \in S
    BY <1>3, <2>8, ExtendsRefl
  <2>10. ASSUME NEW k \in 1 .. n, k - 1 \in S
         PROVE  k \in S
    <3>1. PICK b \in ValidState : b = f[k - 1]
      BY <2>8
    <3>2. PICK c \in ValidState : c = f[k]
      BY <2>8
    <3>3. Validated(roc, times, hits, trigs, b, k, c)
      <4>1. c = ValidateTrigger(roc, times, hits, trigs, b, k)
        BY <2>8, <3>1, <3>2
      <4>2. InBxidOrder(times.start, trigs) /\ k \in 1 .. Len(trigs)
        BY <2>3, <2>5, <2>6
      <4> QED  BY <4>1, <4>2, ValidateTriggerIs
    <3>4. Extends(NewEvent(s), b.out, c.out) /\ (minHits = 0 => c.undefined = b.undefined)
      <4>1. InBxidOrder(times.start, trigs) /\ k \in 1 .. Len(trigs)
        BY <2>3, <2>5, <2>6
      <4>2. Validated(roc, times, HitsOf(s, roc), trigs, b, k, c)
        BY <2>7, <3>3
      <4> QED  BY <4>1, <4>2, ValidatedEvent
    <3>5. Extends(NewEvent(s), s.out, b.out) /\ (minHits = 0 => b.undefined = s.undefined)
      BY <2>10, <3>1
    <3>6. Extends(NewEvent(s), s.out, c.out)
      BY <1>3, <3>4, <3>5, NewEventIs, ExtendsFurther
    <3> QED  BY <3>2, <3>4, <3>5, <3>6
  <2> HIDE DEF S
  <2>11. 0 .. n \subseteq S
    BY <2>9, <2>10, UpToInduction
  <2>12. Extends(NewEvent(s), s.out, t.out) /\ (minHits = 0 => t.undefined = s.undefined)
    <3>1. n \in S
      BY <2>11
    <3> QED  BY <2>4, <2>5, <3>1 DEF S
  <2>13. Shrinks(s, t)
    <3>1. PICK g \in Maps(Hits) : g = s.asic
      BY <1>3
    <3>2. PICK d : d = {r \in DOMAIN s.ts : r > roc}
      OBVIOUS
    <3>3. /\ DOMAIN KeepOnly(s.ts, d) = DOMAIN s.ts \cap d
          /\ \A x \in DOMAIN s.ts \cap d : KeepOnly(s.ts, d)[x] = s.ts[x]
      <4>1. PICK h \in Maps(Times) : h = s.ts
        BY <1>3
      <4>2. /\ DOMAIN KeepOnly(h, d) = DOMAIN h \cap d
            /\ \A x \in DOMAIN h \cap d : KeepOnly(h, d)[x] = h[x]
        BY KeepOnlyIs
      <4> QED  BY <4>1, <4>2
    <3>4. /\ DOMAIN t.asic = DOMAIN s.asic
          /\ \A r \in DOMAIN t.asic : t.asic[r] \subseteq s.asic[r]
      <4>1. CASE First(s.asic) = roc
        <5>1. t.asic = [g EXCEPT ![roc] = {}]
          BY <2>3, <3>1, <4>1
        <5>2. DOMAIN t.asic = DOMAIN g
          BY <5>1
        <5>3. \A r \in DOMAIN t.asic : t.asic[r] = IF r = roc THEN {} ELSE g[r]
          BY <5>1
        <5> QED  BY <3>1, <5>2, <5>3
      <4>2. CASE First(s.asic) # roc
        BY <2>3, <4>2
      <4> QED  BY <4>1, <4>2
    <3> QED  BY <2>3, <3>2, <3>3, <3>4 DEF Shrinks
  <2> QED  BY <1>1, <1>2, <2>12, <2>13 DEF BuildsCycle
<1> QED  BY <1>2, <1>4, <1>5
-----------------------------------------------------------------------------
AllModes == {"ROC", "TRIGGERID", "BXID_ALL", "BXID_VALIDATED"}

Current == [asic |-> asicData, ts |-> tsData, last |-> lastBuilt,
            out |-> queued, undefined |-> undefined]

(* One round leaves the state as it is, or builds a cycle of a map that has more
   cycles than are kept. *)
Builds(s, t, dumpAll) ==
  /\ Cardinality(DOMAIN s.asic) > Kept(dumpAll) /\ DOMAIN s.asic # {}
  /\ t = BuildCycle(s)

LEMMA RoundIs ==
  ASSUME NEW s \in BuildState, NEW dumpAll \in BOOLEAN
  PROVE  Round(s, dumpAll) = s \/ Builds(s, Round(s, dumpAll), dumpAll)
<1>1. Kept(dumpAll) \in Nat
  BY BuilderAssumption DEF Kept
<1>2. Cardinality({}) = 0
  BY FS_EmptySet
<1>3. Cardinality(DOMAIN s.asic) > Kept(dumpAll) => DOMAIN s.asic # {}
  <2> SUFFICES ASSUME DOMAIN s.asic = {} PROVE ~(Cardinality(DOMAIN s.asic) > Kept(dumpAll))
    OBVIOUS
  <2> QED  BY <1>1, <1>2
<1> QED  BY <1>3 DEF Round, Builds

LEMMA CycleBuilds ==
  ASSUME minLast \in Maps(Nat), mode \in AllModes, NEW s \in BuildState, DOMAIN s.asic # {}
  PROVE  BuildsCycle(s, BuildCycle(s))
<1>1. CASE mode = "ROC"
  BY <1>1, ROCBuilds DEF BuildCycle
<1>2. CASE mode = "TRIGGERID"
  BY <1>2, TRIGIDBuilds DEF BuildCycle
<1>3. CASE mode = "BXID_ALL"
  BY <1>3, BXIDBuilds DEF BuildCycle
<1>4. CASE mode = "BXID_VALIDATED"
  BY <1>4, ValidatedBuilds DEF BuildCycle
<1> QED  BY <1>1, <1>2, <1>3, <1>4 DEF AllModes

(* buildEvents: h is what its loop has after each round. *)
Rounds(h, n, dumpAll) ==
  /\ h \in [0 .. n -> BuildState]
  /\ h[0] = Current
  /\ \A k \in 1 .. n : h[k] = Round(h[k - 1], dumpAll)

LEMMA BuildEventsIs ==
  ASSUME minLast \in Maps(Nat), mode \in AllModes, Current \in BuildState,
         IsFiniteSet(DOMAIN asicData), IsFiniteSet(DOMAIN tsData),
         NEW dumpAll \in BOOLEAN, buildEvents(dumpAll)
  PROVE  \E n \in Nat : \E h :
           /\ Rounds(h, n, dumpAll)
           /\ asicData' = h[n].asic /\ tsData' = h[n].ts /\ lastBuilt' = h[n].last
           /\ queued' = h[n].out /\ undefined' = h[n].undefined
<1> DEFINE n == Cardinality(DOMAIN asicData) + Cardinality(DOMAIN tsData)
           x == Current
           Good(g) == g = [k \in 0 .. n |-> IF k = 0 THEN x ELSE Round(g[k - 1], dumpAll)]
           u == CHOOSE g : Good(g)
           step == [p \in (1 .. n) \X BuildState |-> Round(p[2], dumpAll)]
<1>1. /\ asicData' = u[n].asic /\ tsData' = u[n].ts /\ lastBuilt' = u[n].last
      /\ queued' = u[n].out /\ undefined' = u[n].undefined
  BY DEF buildEvents, Current
<1>2. n \in Nat
  BY FS_CardinalityType
<1> HIDE DEF n
<1>3. x \in BuildState
  OBVIOUS
<1> HIDE DEF x
<1>4. \A s \in BuildState : Round(s, dumpAll) \in BuildState
  <2> SUFFICES ASSUME NEW s \in BuildState PROVE Round(s, dumpAll) \in BuildState
    OBVIOUS
  <2> QED  BY RoundIs, CycleBuilds DEF Builds, BuildsCycle
<1>5. \A k \in 1 .. n : \A s \in BuildState : step[<<k, s>>] = Round(s, dumpAll)
  OBVIOUS
<1>6. StepIn(step, n, BuildState)
  BY <1>4, <1>5 DEF StepIn
<1> HIDE DEF step
<1>7. PICK f \in [0 .. n -> BuildState] : Iterates(f, n, x, step)
  BY <1>2, <1>3, <1>6, IterationExists
<1>8. Good(f)
  <2> DEFINE g == [k \in 0 .. n |-> IF k = 0 THEN x ELSE Round(f[k - 1], dumpAll)]
  <2>1. \A k \in 0 .. n : k # 0 => k \in 1 .. n /\ f[k - 1] \in BuildState
    BY <1>2
  <2>2. \A k \in 0 .. n : f[k] = g[k]
    BY <1>5, <1>7, <2>1 DEF Iterates
  <2>3. f = [k \in 0 .. n |-> f[k]] /\ g = [k \in 0 .. n |-> g[k]]
    OBVIOUS
  <2> HIDE DEF g
  <2>4. f = g
    BY ONLY <2>2, <2>3
  <2> QED  BY <2>4 DEF g
<1>9. Good(u)
  BY <1>8
<1> HIDE DEF u
<1>10. /\ DOMAIN u = 0 .. n /\ u[0] = x
       /\ \A k \in 1 .. n : u[k] = Round(u[k - 1], dumpAll)
  <2>1. 0 \in 0 .. n /\ \A k \in 1 .. n : k \in 0 .. n /\ k # 0
    BY <1>2
  <2> QED  BY <1>9, <2>1
<1>11. \A k \in 0 .. n : u[k] \in BuildState
  <2>1. \A k \in 1 .. n : u[k - 1] \in BuildState => u[k] \in BuildState
    BY <1>4, <1>10
  <2>2. u[0] \in BuildState
    BY <1>3, <1>10
  <2> QED  BY <1>2, <2>1, <2>2, IterationIn
<1>12. u \in [0 .. n -> BuildState]
  <2>1. u = [k \in 0 .. n |-> u[k]]
    BY <1>9, <1>10
  <2> QED  BY <1>11, <2>1
<1>13. Rounds(u, n, dumpAll)
  BY <1>10, <1>12 DEF Rounds, x
<1> QED  BY <1>1, <1>2, <1>13

(* What holds of the current state, and stays true when a cycle is built, holds
   of the state buildEvents leaves. *)
Becomes(t) ==
  /\ asicData' = t.asic /\ tsData' = t.ts /\ lastBuilt' = t.last
  /\ queued' = t.out /\ undefined' = t.undefined

MayBuild(s, dumpAll) == Cardinality(DOMAIN s.asic) > Kept(dumpAll) /\ DOMAIN s.asic # {}

LEMMA BuildEventsKeep ==
  ASSUME minLast \in Maps(Nat), mode \in AllModes, Current \in BuildState,
         IsFiniteSet(DOMAIN asicData), IsFiniteSet(DOMAIN tsData),
         NEW dumpAll \in BOOLEAN, buildEvents(dumpAll),
         NEW V \in SUBSET BuildState, Current \in V,
         \A s \in V : MayBuild(s, dumpAll) => BuildCycle(s) \in V
  PROVE  \E t \in V : Becomes(t)
<1>1. PICK n \in Nat : \E h :
           /\ Rounds(h, n, dumpAll)
           /\ asicData' = h[n].asic /\ tsData' = h[n].ts /\ lastBuilt' = h[n].last
           /\ queued' = h[n].out /\ undefined' = h[n].undefined
  BY BuildEventsIs
<1>2. PICK h :
           /\ Rounds(h, n, dumpAll)
           /\ asicData' = h[n].asic /\ tsData' = h[n].ts /\ lastBuilt' = h[n].last
           /\ queued' = h[n].out /\ undefined' = h[n].undefined
  BY <1>1
<1>3. /\ h[0] = Current
      /\ \A k \in 1 .. n : h[k] = Round(h[k - 1], dumpAll)
  BY <1>2 DEF Rounds
<1>4. \A k \in 1 .. n : h[k - 1] \in V => h[k] \in V
  <2> SUFFICES ASSUME NEW k \in 1 .. n, h[k - 1] \in V PROVE h[k] \in V
    OBVIOUS
  <2>1. PICK s \in BuildState : s = h[k - 1]
    OBVIOUS
  <2>2. h[k] = Round(s, dumpAll)
    BY <1>3, <2>1
  <2>3. Round(s, dumpAll) = s \/ Builds(s, Round(s, dumpAll), dumpAll)
    BY RoundIs
  <2> QED  BY <2>1, <2>2, <2>3 DEF Builds, MayBuild
<1>5. h[0] \in V
  BY <1>3
<1>6. h[n] \in V
  <2>1. \A k \in 0 .. n : h[k] \in V
    BY <1>4, <1>5, IterationIn
  <2> QED  BY <2>1
<1> QED  BY <1>2, <1>6 DEF Becomes
-----------------------------------------------------------------------------
(* What holds of the maps in every reachable state: a cycle that is in one of
   them has begun, a hit is in the entry of its cycle, and triggers are numbered
   and happen one after the other, also from one cycle to the next. *)
BuilderTypeOK ==
  /\ mode \in AllModes /\ dummies \in BOOLEAN /\ minHits \in MinHitChoices
  /\ asicData \in Maps(Hits) /\ tsData \in Maps(Times) /\ minLast \in Maps(Nat)
  /\ lastBuilt \in Int /\ queued \in Seq(BuiltEvent) /\ undefined \in BOOLEAN
  /\ hwRoc \in Nat /\ phase \in {"before", "acquiring", "after", "ended"}
  /\ nextTrig \in Nat /\ lastTime \in Int
  /\ seenTs \in Maps(Times) /\ seenHits \in SUBSET Hit

HitsOfCycles(asic) == \A r \in DOMAIN asic : \A h \in asic[r] : h[1] = r

CyclesBegun ==
  /\ DOMAIN asicData \subseteq 0 .. hwRoc /\ DOMAIN tsData \subseteq 0 .. hwRoc
  /\ DOMAIN minLast \subseteq 0 .. hwRoc /\ DOMAIN seenTs \subseteq 0 .. hwRoc
  /\ HitsOfCycles(asicData)

TriggersOk(m, next, last) ==
  \A r \in DOMAIN m : \A i \in 1 .. Len(m[r].trigs) :
    /\ m[r].trigs[i].id < next /\ m[r].trigs[i].ts <= last
    /\ \A q \in DOMAIN m : q < r =>
         \A j \in 1 .. Len(m[q].trigs) : m[q].trigs[j].id < m[r].trigs[i].id

MapsInv ==
  /\ BuilderTypeOK /\ CyclesBegun
  /\ TriggersOk(tsData, nextTrig, lastTime) /\ TriggersOk(seenTs, nextTrig, lastTime)

(* A timestamp packet changes nothing, or one field of the entry of the current
   cycle. *)
PacketFiled(m, w) ==
  \/ w = m
  \/ \E e \in Times :
       /\ w = Put(m, hwRoc, e)
       /\ \/ e.trigs = At(m, hwRoc, NoTimes).trigs
          \/ /\ nextTrig' = nextTrig + 1 /\ lastTime' > lastTime
             /\ e.trigs = Append(At(m, hwRoc, NoTimes).trigs, [id |-> nextTrig, ts |-> lastTime'])

LEMMA TimesIs ==
  ASSUME NEW e \in Times
  PROVE  /\ e.start \in Int /\ e.stop \in Int /\ e.trigs \in Seq(Trig)
         /\ \A i, j \in 1 .. Len(e.trigs) :
              i < j => e.trigs[i].id < e.trigs[j].id /\ e.trigs[i].ts < e.trigs[j].ts
         /\ \A i \in 1 .. Len(e.trigs) : e.trigs[i].id \in Nat /\ e.trigs[i].ts \in Int
<1>1. /\ e.start \in Int /\ e.stop \in Int /\ e.trigs \in Seq(Trig)
      /\ \A i, j \in 1 .. Len(e.trigs) :
              i < j => e.trigs[i].id < e.trigs[j].id /\ e.trigs[i].ts < e.trigs[j].ts
  BY DEF Times, Arrived
<1>2. \A i \in 1 .. Len(e.trigs) : e.trigs[i] \in Trig
  BY <1>1, ElementOfSeq
<1> QED  BY <1>1, <1>2 DEF Trig

(* A trigger behind all triggers of a cycle. *)
LEMMA ArrivedMore ==
  ASSUME NEW q \in Arrived, NEW u \in Trig,
         \A i \in 1 .. Len(q) : q[i].id < u.id /\ q[i].ts < u.ts
  PROVE  /\ Append(q, u) \in Arrived /\ Len(Append(q, u)) = Len(q) + 1
         /\ \A i \in 1 .. Len(q) : Append(q, u)[i] = q[i]
         /\ Append(q, u)[Len(q) + 1] = u
<1> DEFINE p == Append(q, u)
<1>1. q \in Seq(Trig) /\ \A i, j \in 1 .. Len(q) :
                            i < j => q[i].id < q[j].id /\ q[i].ts < q[j].ts
  BY DEF Arrived
<1>2. PICK n \in Nat : n = Len(q)
  BY <1>1, LenProperties
<1>3. /\ p \in Seq(Trig) /\ Len(p) = n + 1
      /\ \A i \in 1 .. n : p[i] = q[i]
      /\ p[n + 1] = u
  BY <1>1, <1>2, AppendProperties
<1> HIDE DEF p
<1>4. ASSUME NEW i \in 1 .. Len(p), NEW j \in 1 .. Len(p), i < j
      PROVE  p[i].id < p[j].id /\ p[i].ts < p[j].ts
  <2>1. i \in 1 .. n /\ p[i] = q[i]
    BY <1>3, <1>4
  <2>2. CASE j \in 1 .. n
    BY <1>1, <1>2, <1>3, <1>4, <2>1, <2>2
  <2>3. CASE j = n + 1
    BY <1>2, <1>3, <2>1, <2>3
  <2> QED  BY <1>3, <2>2, <2>3
<1>5. p \in Arrived
  BY <1>3, <1>4 DEF Arrived
<1> QED  BY <1>2, <1>3, <1>5 DEF p

LEMMA PacketKeeps ==
  ASSUME NEW m \in Maps(Times), DOMAIN m \subseteq 0 .. hwRoc, hwRoc \in Nat,
         nextTrig \in Nat, lastTime \in Int, nextTrig' \in Nat, lastTime' \in Int,
         nextTrig <= nextTrig', lastTime <= lastTime',
         TriggersOk(m, nextTrig, lastTime), NEW w, PacketFiled(m, w)
  PROVE  /\ w \in Maps(Times) /\ DOMAIN w \subseteq 0 .. hwRoc
         /\ TriggersOk(w, nextTrig', lastTime')
<1>1. /\ \A r \in DOMAIN m : m[r] \in Times
      /\ DOMAIN m \subseteq Nat
  BY MapIs
<1>2. \A r \in DOMAIN m : \A i \in 1 .. Len(m[r].trigs) :
        m[r].trigs[i].id \in Nat /\ m[r].trigs[i].ts \in Int
  BY <1>1, TimesIs
<1>3. CASE w = m
  <2>1. \A r \in DOMAIN m : \A i \in 1 .. Len(m[r].trigs) :
          m[r].trigs[i].id < nextTrig' /\ m[r].trigs[i].ts <= lastTime'
    BY <1>2 DEF TriggersOk
  <2> QED  BY <1>3, <2>1 DEF TriggersOk
<1>4. CASE w # m
  <2> DEFINE old == At(m, hwRoc, NoTimes)
             new == [id |-> nextTrig, ts |-> lastTime']
  <2>1. PICK e \in Times :
       /\ w = Put(m, hwRoc, e)
       /\ \/ e.trigs = old.trigs
          \/ /\ nextTrig' = nextTrig + 1 /\ lastTime' > lastTime
             /\ e.trigs = Append(old.trigs, new)
    BY <1>4 DEF PacketFiled
  <2>2. /\ w \in Maps(Times) /\ DOMAIN w = DOMAIN m \cup {hwRoc}
        /\ w[hwRoc] = e /\ \A x \in DOMAIN m \ {hwRoc} : w[x] = m[x]
    <3>1. PICK k \in Nat : k = hwRoc
      OBVIOUS
    <3>2. w = Put(m, k, e)
      BY <2>1, <3>1
    <3>3. Put(m, k, e) \in Maps(Times)
      BY <2>1, PutIs
    <3>4. /\ DOMAIN w = DOMAIN m \cup {k} /\ w[k] = e
          /\ \A x \in DOMAIN m \ {k} : w[x] = m[x]
      BY <3>2 DEF Put
    <3> QED  BY <3>1, <3>2, <3>3, <3>4
  <2>3. /\ old \in Times
        /\ hwRoc \in DOMAIN m => old = m[hwRoc]
        /\ hwRoc \notin DOMAIN m => old = NoTimes
    BY NoTimesIs, AtIs
  <2>4. hwRoc \notin DOMAIN m => Len(old.trigs) = 0
    BY <2>3 DEF NoTimes
  <2> HIDE DEF old
  <2>5. ASSUME NEW i \in 1 .. Len(old.trigs)
        PROVE  /\ old.trigs[i].id \in Nat /\ old.trigs[i].ts \in Int
               /\ old.trigs[i].id < nextTrig /\ old.trigs[i].ts <= lastTime
               /\ \A q \in DOMAIN m : q < hwRoc =>
                    \A j \in 1 .. Len(m[q].trigs) : m[q].trigs[j].id < old.trigs[i].id
    <3>1. hwRoc \in DOMAIN m /\ old = m[hwRoc]
      BY <2>3, <2>4
    <3> QED  BY <1>2, <3>1 DEF TriggersOk
  <2>6. ASSUME NEW i \in 1 .. Len(e.trigs)
        PROVE  \/ i \in 1 .. Len(old.trigs) /\ e.trigs[i] = old.trigs[i]
               \/ e.trigs[i] = new /\ nextTrig' = nextTrig + 1
    <3>1. old.trigs \in Arrived /\ new \in Trig
      BY <2>3 DEF Times, Trig
    <3>2. CASE e.trigs = old.trigs
      BY <3>2
    <3>3. CASE nextTrig' = nextTrig + 1 /\ lastTime' > lastTime /\ e.trigs = Append(old.trigs, new)
      <4>1. \A j \in 1 .. Len(old.trigs) : old.trigs[j].id < new.id /\ old.trigs[j].ts < new.ts
        BY <2>5, <3>3
      <4>2. /\ Len(e.trigs) = Len(old.trigs) + 1
            /\ \A j \in 1 .. Len(old.trigs) : e.trigs[j] = old.trigs[j]
            /\ e.trigs[Len(old.trigs) + 1] = new
        BY <3>1, <3>3, <4>1, ArrivedMore
      <4>3. PICK n \in Nat : n = Len(old.trigs)
        BY <3>1, LenProperties DEF Arrived
      <4>4. i \in 1 .. n \/ i = n + 1
        BY <4>2, <4>3
      <4> QED  BY <3>3, <4>2, <4>3, <4>4
    <3> QED  BY <2>1, <3>2, <3>3
  <2>7. ASSUME NEW i \in 1 .. Len(e.trigs)
        PROVE  /\ e.trigs[i].id < nextTrig' /\ e.trigs[i].ts <= lastTime'
               /\ \A q \in DOMAIN m : q < hwRoc =>
                    \A j \in 1 .. Len(m[q].trigs) : m[q].trigs[j].id < e.trigs[i].id
    <3>1. CASE i \in 1 .. Len(old.trigs) /\ e.trigs[i] = old.trigs[i]
      BY <2>5, <3>1
    <3>2. CASE e.trigs[i] = new /\ nextTrig' = nextTrig + 1
      <4>1. e.trigs[i].id = nextTrig /\ e.trigs[i].ts = lastTime'
        BY <3>2
      <4>2. \A q \in DOMAIN m : \A j \in 1 .. Len(m[q].trigs) : m[q].trigs[j].id < nextTrig
        BY DEF TriggersOk
      <4>3. nextTrig < nextTrig' /\ lastTime' <= lastTime'
        BY <3>2
      <4> HIDE DEF new
      <4> QED  BY <4>1, <4>2, <4>3
    <3> QED  BY <2>6, <3>1, <3>2
  <2>8. ASSUME NEW r \in DOMAIN w, NEW i \in 1 .. Len(w[r].trigs)
        PROVE  /\ w[r].trigs[i].id < nextTrig' /\ w[r].trigs[i].ts <= lastTime'
               /\ \A q \in DOMAIN w : q < r =>
                    \A j \in 1 .. Len(w[q].trigs) : w[q].trigs[j].id < w[r].trigs[i].id
    <3>1. CASE r = hwRoc
      <4>1. w[r] = e /\ \A q \in DOMAIN w : q < r => q \in DOMAIN m /\ w[q] = m[q]
        BY <2>2, <3>1
      <4> QED  BY <2>7, <3>1, <4>1
    <3>2. CASE r # hwRoc
      <4>1. r \in DOMAIN m /\ w[r] = m[r] /\ r < hwRoc
        BY <2>2, <3>2
      <4>2. \A q \in DOMAIN w : q < r => q \in DOMAIN m /\ w[q] = m[q]
        BY <2>2, <4>1
      <4>3. m[r].trigs[i].id < nextTrig' /\ m[r].trigs[i].ts <= lastTime'
        BY <1>2, <4>1 DEF TriggersOk
      <4> QED  BY <4>1, <4>2, <4>3 DEF TriggersOk
    <3> QED  BY <3>1, <3>2
  <2>9. TriggersOk(w, nextTrig', lastTime')
    BY <2>8 DEF TriggersOk
  <2> QED  BY <2>2, <2>9
<1> QED  BY <1>3, <1>4

(* What the three timestamp packets do to the maps. *)
TimestampPacket ==
  /\ PacketFiled(tsData, tsData') /\ PacketFiled(seenTs, seenTs')
  /\ nextTrig' \in Nat /\ lastTime' \in Int /\ nextTrig <= nextTrig' /\ lastTime <= lastTime'
  /\ phase' \in {"before", "acquiring", "after"}
  /\ UNCHANGED <<config, asicData, minLast, lastBuilt, queued, undefined, hwRoc, seenHits>>

LEMMA StartOfIs ==
  ASSUME hwRoc \in Nat
  PROVE  StartOf(hwRoc) \in Int
<1>1. PICK p \in Nat : p = Period
  BY BuilderAssumption
<1> QED  BY <1>1 DEF StartOf

LEMMA StartFiled ==
  ASSUME MapsInv, StartPacket
  PROVE  TimestampPacket
<1>1. /\ hwRoc \in Nat /\ tsData \in Maps(Times) /\ seenTs \in Maps(Times)
      /\ nextTrig \in Nat /\ lastTime \in Int
  BY DEF MapsInv, BuilderTypeOK
<1>2. PICK start \in Int : start = StartOf(hwRoc)
  BY <1>1, StartOfIs
<1>3. \A m \in Maps(Times) :
        LET e == At(m, hwRoc, NoTimes)
            w == [e EXCEPT !.start = start]
        IN  w \in Times /\ w.trigs = e.trigs
  <2> SUFFICES ASSUME NEW m \in Maps(Times)
               PROVE  LET e == At(m, hwRoc, NoTimes)
                          w == [e EXCEPT !.start = start]
                      IN  w \in Times /\ w.trigs = e.trigs
    OBVIOUS
  <2>1. PICK e \in Times : e = At(m, hwRoc, NoTimes)
    BY NoTimesIs, AtIs
  <2>2. [e EXCEPT !.start = start] \in Times /\ [e EXCEPT !.start = start].trigs = e.trigs
    BY DEF Times
  <2> QED  BY <2>1, <2>2
<1>4. /\ \/ tsData' = tsData /\ seenTs' = seenTs
         \/ /\ tsData' = Put(tsData, hwRoc, [At(tsData, hwRoc, NoTimes) EXCEPT !.start = start])
            /\ seenTs' = Put(seenTs, hwRoc, [At(seenTs, hwRoc, NoTimes) EXCEPT !.start = start])
      /\ lastTime' = IF lastTime > start THEN lastTime ELSE start
      /\ nextTrig' = nextTrig /\ phase' = "acquiring"
      /\ UNCHANGED <<config, asicData, minLast, lastBuilt, queued, undefined, hwRoc, seenHits>>
  BY <1>2 DEF StartPacket, File
<1>5. PacketFiled(tsData, tsData') /\ PacketFiled(seenTs, seenTs')
  BY <1>1, <1>3, <1>4 DEF PacketFiled
<1> QED  BY <1>1, <1>4, <1>5 DEF TimestampPacket

LEMMA StopFiled ==
  ASSUME MapsInv, StopPacket
  PROVE  TimestampPacket
<1>1. /\ hwRoc \in Nat /\ tsData \in Maps(Times) /\ seenTs \in Maps(Times)
      /\ nextTrig \in Nat /\ lastTime \in Int
  BY DEF MapsInv, BuilderTypeOK
<1>2. PICK stop \in Int : stop = StartOf(hwRoc) + StopAfter
  BY <1>1, StartOfIs, BuilderAssumption
<1>3. \A m \in Maps(Times) :
        LET e == At(m, hwRoc, NoTimes)
            w == [e EXCEPT !.stop = stop]
        IN  w \in Times /\ w.trigs = e.trigs
  <2> SUFFICES ASSUME NEW m \in Maps(Times)
               PROVE  LET e == At(m, hwRoc, NoTimes)
                          w == [e EXCEPT !.stop = stop]
                      IN  w \in Times /\ w.trigs = e.trigs
    OBVIOUS
  <2>1. PICK e \in Times : e = At(m, hwRoc, NoTimes)
    BY NoTimesIs, AtIs
  <2>2. [e EXCEPT !.stop = stop] \in Times /\ [e EXCEPT !.stop = stop].trigs = e.trigs
    BY DEF Times
  <2> QED  BY <2>1, <2>2
<1>4. /\ \/ tsData' = tsData /\ seenTs' = seenTs
         \/ /\ tsData' = Put(tsData, hwRoc, [At(tsData, hwRoc, NoTimes) EXCEPT !.stop = stop])
            /\ seenTs' = Put(seenTs, hwRoc, [At(seenTs, hwRoc, NoTimes) EXCEPT !.stop = stop])
      /\ lastTime' = IF lastTime > stop THEN lastTime ELSE stop
      /\ nextTrig' = nextTrig /\ phase' = "after"
      /\ UNCHANGED <<config, asicData, minLast, lastBuilt, queued, undefined, hwRoc, seenHits>>
  BY <1>2 DEF StopPacket, File
<1>5. PacketFiled(tsData, tsData') /\ PacketFiled(seenTs, seenTs')
  BY <1>1, <1>3, <1>4 DEF PacketFiled
<1> QED  BY <1>1, <1>4, <1>5 DEF TimestampPacket

LEMMA TriggerFiled ==
  ASSUME MapsInv, TriggerPacket
  PROVE  TimestampPacket
<1>1. /\ hwRoc \in Nat /\ tsData \in Maps(Times) /\ seenTs \in Maps(Times)
      /\ nextTrig \in Nat /\ lastTime \in Int /\ phase \in {"before", "acquiring", "after", "ended"}
      /\ TriggersOk(tsData, nextTrig, lastTime) /\ TriggersOk(seenTs, nextTrig, lastTime)
  BY DEF MapsInv, BuilderTypeOK
<1>2. PICK dt \in TrigTimes :
       LET ts == StartOf(hwRoc) + dt
       IN  /\ ts > lastTime
           /\ lastTime' = ts
           /\ File(LAMBDA e : [e EXCEPT !.trigs =
                                 Append(@, [id |-> nextTrig, ts |-> ts])])
  BY DEF TriggerPacket
<1>3. PICK ts \in Int : ts = StartOf(hwRoc) + dt
  BY <1>1, StartOfIs, BuilderAssumption
<1> DEFINE u == [id |-> nextTrig, ts |-> ts]
<1>4. u \in Trig
  BY <1>1 DEF Trig
<1>5. ts > lastTime /\ lastTime' = ts
  BY <1>2, <1>3
<1>6. \/ tsData' = tsData /\ seenTs' = seenTs
      \/ /\ tsData' = Put(tsData, hwRoc,
                          [At(tsData, hwRoc, NoTimes) EXCEPT !.trigs = Append(@, u)])
         /\ seenTs' = Put(seenTs, hwRoc,
                          [At(seenTs, hwRoc, NoTimes) EXCEPT !.trigs = Append(@, u)])
  BY <1>2, <1>3 DEF File
<1>7. ASSUME NEW m \in Maps(Times), TriggersOk(m, nextTrig, lastTime)
      PROVE  LET e == At(m, hwRoc, NoTimes)
                 w == [e EXCEPT !.trigs = Append(@, u)]
             IN  w \in Times /\ w.trigs = Append(e.trigs, u)
  <2>1. PICK e \in Times : e = At(m, hwRoc, NoTimes)
    BY NoTimesIs, AtIs
  <2>2. ASSUME NEW i \in 1 .. Len(e.trigs)
        PROVE  e.trigs[i].id < u.id /\ e.trigs[i].ts < u.ts
    <3>1. hwRoc \notin DOMAIN m => Len(e.trigs) = 0
      BY <2>1, NoTimesIs, AtIs DEF NoTimes
    <3>2. hwRoc \in DOMAIN m /\ e = m[hwRoc]
      BY <2>1, <3>1, NoTimesIs, AtIs
    <3>3. e.trigs[i].id < nextTrig /\ e.trigs[i].ts <= lastTime
      BY <1>7, <3>2 DEF TriggersOk
    <3>4. e.trigs[i].id \in Nat /\ e.trigs[i].ts \in Int
      BY TimesIs
    <3> QED  BY <1>1, <1>5, <3>3, <3>4
  <2>3. e.trigs \in Arrived
    BY DEF Times
  <2> HIDE DEF u
  <2>4. Append(e.trigs, u) \in Arrived
    BY <1>4, <2>2, <2>3, ArrivedMore
  <2>5. /\ [e EXCEPT !.trigs = Append(@, u)] \in Times
        /\ [e EXCEPT !.trigs = Append(@, u)].trigs = Append(e.trigs, u)
    <3>1. PICK q \in Arrived : q = Append(e.trigs, u)
      BY <2>4
    <3>2. [e EXCEPT !.trigs = q] \in Times /\ [e EXCEPT !.trigs = q].trigs = q
      BY DEF Times
    <3> QED  BY <3>1, <3>2
  <2> QED  BY <2>1, <2>5
<1>8. /\ nextTrig' = nextTrig + 1
      /\ UNCHANGED <<config, asicData, minLast, lastBuilt, queued, undefined, hwRoc,
                     phase, packets, seenHits>>
      /\ phase # "ended"
  BY DEF TriggerPacket, Running
<1>9. u = [id |-> nextTrig, ts |-> lastTime']
  BY <1>5
<1> HIDE DEF u
<1>10. PacketFiled(tsData, tsData')
  BY <1>1, <1>5, <1>6, <1>7, <1>8, <1>9 DEF PacketFiled
<1>11. PacketFiled(seenTs, seenTs')
  BY <1>1, <1>5, <1>6, <1>7, <1>8, <1>9 DEF PacketFiled
<1> QED  BY <1>1, <1>5, <1>8, <1>10, <1>11 DEF TimestampPacket

LEMMA ShrinksRefl ==
  \A s : Shrinks(s, s)
BY DEF Shrinks

LEMMA ShrinksFurther ==
  ASSUME NEW s, NEW t, NEW u, Shrinks(s, t), Shrinks(t, u)
  PROVE  Shrinks(s, u)
BY DEF Shrinks

LEMMA CurrentIs ==
  ASSUME MapsInv
  PROVE  /\ minLast \in Maps(Nat) /\ mode \in AllModes /\ Current \in BuildState
         /\ IsFiniteSet(DOMAIN asicData) /\ IsFiniteSet(DOMAIN tsData)
         /\ Current.asic = asicData /\ Current.ts = tsData /\ Current.out = queued
         /\ Current.last = lastBuilt /\ Current.undefined = undefined
<1>1. PICK z \in Int, m \in Int : z = 0 /\ m = hwRoc
  BY DEF MapsInv, BuilderTypeOK
<1>2. IsFiniteSet(z .. m)
  BY FS_Interval
<1>3. IsFiniteSet(0 .. hwRoc)
  BY <1>1, <1>2
<1>4. IsFiniteSet(DOMAIN asicData) /\ IsFiniteSet(DOMAIN tsData)
  BY <1>3, FS_Subset DEF MapsInv, CyclesBegun
<1>5. /\ asicData \in Maps(Hits) /\ tsData \in Maps(Times) /\ lastBuilt \in Int
      /\ queued \in Seq(BuiltEvent) /\ undefined \in BOOLEAN
      /\ minLast \in Maps(Nat) /\ mode \in AllModes
  BY DEF MapsInv, BuilderTypeOK
<1>6. Current \in BuildState
  BY <1>5 DEF Current, BuildState
<1> QED  BY <1>4, <1>5, <1>6 DEF Current

LEMMA TriggersShrink ==
  ASSUME NEW m, NEW w, DOMAIN w \subseteq DOMAIN m, \A r \in DOMAIN w : w[r] = m[r],
         NEW next, NEW last, TriggersOk(m, next, last)
  PROVE  TriggersOk(w, next, last)
BY DEF TriggersOk

(* The maps after buildEvents. *)
LEMMA MapsBuilt ==
  ASSUME MapsInv, NEW dumpAll \in BOOLEAN, buildEvents(dumpAll)
  PROVE  \E t \in BuildState : Becomes(t) /\ Shrinks(Current, t)
<1> DEFINE V == {s \in BuildState : Shrinks(Current, s)}
<1>1. Current \in V
  BY CurrentIs, ShrinksRefl
<1>2. \A s \in V : MayBuild(s, dumpAll) => BuildCycle(s) \in V
  <2> SUFFICES ASSUME NEW s \in BuildState, Shrinks(Current, s), MayBuild(s, dumpAll)
               PROVE  BuildCycle(s) \in BuildState /\ Shrinks(Current, BuildCycle(s))
    OBVIOUS
  <2>1. BuildsCycle(s, BuildCycle(s))
    BY CurrentIs, CycleBuilds DEF MayBuild
  <2> QED  BY <2>1, ShrinksFurther DEF BuildsCycle
<1>3. V \in SUBSET BuildState
  OBVIOUS
<1> HIDE DEF V
<1>4. \E t \in V : Becomes(t)
  BY <1>1, <1>2, <1>3, CurrentIs, BuildEventsKeep
<1> QED  BY <1>4 DEF V

LEMMA MapsStepBuild ==
  ASSUME MapsInv, NEW dumpAll \in BOOLEAN, buildEvents(dumpAll),
         UNCHANGED <<config, minLast, hwRoc, nextTrig, lastTime, seenTs, seenHits>>,
         phase' \in {"before", "acquiring", "after", "ended"}
  PROVE  MapsInv'
<1>1. PICK t \in BuildState : Becomes(t) /\ Shrinks(Current, t)
  BY MapsBuilt
<1>2. /\ asicData' = t.asic /\ tsData' = t.ts /\ lastBuilt' = t.last
      /\ queued' = t.out /\ undefined' = t.undefined
  BY <1>1 DEF Becomes
<1>3. /\ t.asic \in Maps(Hits) /\ t.ts \in Maps(Times) /\ t.last \in Int
      /\ t.out \in Seq(BuiltEvent) /\ t.undefined \in BOOLEAN
  BY StateIs
<1>4. /\ DOMAIN t.asic \subseteq DOMAIN asicData
      /\ \A r \in DOMAIN t.asic : t.asic[r] \subseteq asicData[r]
      /\ DOMAIN t.ts \subseteq DOMAIN tsData
      /\ \A r \in DOMAIN t.ts : t.ts[r] = tsData[r]
  BY <1>1, CurrentIs DEF Shrinks
<1>5. BuilderTypeOK'
  BY <1>2, <1>3 DEF MapsInv, BuilderTypeOK, config
<1>6. CyclesBegun'
  BY <1>2, <1>4 DEF MapsInv, CyclesBegun, HitsOfCycles
<1>7. TriggersOk(tsData', nextTrig, lastTime)
  BY <1>2, <1>4, TriggersShrink DEF MapsInv
<1>8. TriggersOk(seenTs, nextTrig, lastTime)
  BY DEF MapsInv
<1> QED  BY <1>5, <1>6, <1>7, <1>8 DEF MapsInv

(* readAHCALData puts hits into the entry of their cycle, and perhaps a bound of
   the complete BXIDs. *)
DataStored(roc, new, last) ==
  /\ roc <= hwRoc /\ hwRoc - DataLag <= roc /\ phase # "ended"
  /\ \A h \in new : h[1] = roc
  /\ asicData' = Put(asicData, roc, At(asicData, roc, {}) \cup new)
  /\ minLast' = minLast \/ minLast' = Put(minLast, roc, last)
  /\ seenHits' = seenHits \cup new
  /\ UNCHANGED <<config, tsData, lastBuilt, queued, undefined, hwRoc, phase,
                 nextTrig, lastTime, seenTs>>

LEMMA NewHits ==
  ASSUME NEW roc \in Nat, NEW bxids \in Packets
  PROVE  /\ {<<roc, b>> : b \in {x \in bxids : x >= MinBxid}} \in Hits
         /\ \A h \in {<<roc, b>> : b \in {x \in bxids : x >= MinBxid}} : h[1] = roc
<1> DEFINE B == {x \in bxids : x >= MinBxid}
           S == {<<roc, b>> : b \in B}
           f == [b \in B |-> <<roc, b>>]
<1>1. bxids \in SUBSET Nat /\ IsFiniteSet(bxids)
  BY BuilderAssumption
<1>2. B \in SUBSET Nat /\ IsFiniteSet(B)
  BY <1>1, FS_Subset
<1>3. S \in SUBSET Hit /\ \A h \in S : h[1] = roc
  BY <1>2 DEF Hit
<1>4. f \in [B -> S] /\ \A y \in S : \E b \in B : f[b] = y
  OBVIOUS
<1>5. f \in Surjection(B, S)
  BY <1>4 DEF Surjection
<1>6. IsFiniteSet(S)
  BY <1>2, <1>5, FS_Surjection
<1> QED  BY <1>3, <1>6 DEF Hits

LEMMA DataStoredIs ==
  ASSUME MapsInv, DataPacket
  PROVE  \E roc \in Nat, new \in Hits, last \in Nat : DataStored(roc, new, last)
<1>1. PICK roc \in {r \in (hwRoc - DataLag) .. hwRoc : r >= 0} :
        \E bxids \in Packets, memoryFull \in BOOLEAN : AsicPacket(roc, bxids, memoryFull)
  BY DEF DataPacket
<1>2. PICK bxids \in Packets : \E memoryFull \in BOOLEAN : AsicPacket(roc, bxids, memoryFull)
  BY <1>1
<1>3. PICK memoryFull \in BOOLEAN : AsicPacket(roc, bxids, memoryFull)
  BY <1>2
<1>4. /\ hwRoc \in Nat /\ minLast \in Maps(Nat) /\ DataLag \in Nat
  BY BuilderAssumption DEF MapsInv, BuilderTypeOK
<1>5. roc \in Nat /\ roc <= hwRoc /\ hwRoc - DataLag <= roc
  BY <1>1, <1>4
<1>6. PICK last \in Nat : last = Max(bxids)
  <2>1. bxids \in SUBSET Nat /\ IsFiniteSet(bxids) /\ bxids # {}
    BY BuilderAssumption
  <2>2. PICK b \in Nat : \A x \in bxids : x <= b
    BY <2>1, Bounded
  <2> QED  BY <2>1, <2>2, MaxIs
<1>7. PICK new \in Hits : new = {<<roc, b>> : b \in {x \in bxids : x >= MinBxid}}
  BY <1>5, NewHits
<1>8. \A h \in new : h[1] = roc
  BY <1>5, <1>7, NewHits
<1>9. PICK old \in Nat : old = At(minLast, roc, 0)
  <2>1. PICK z \in Nat : z = 0
    OBVIOUS
  <2>2. At(minLast, roc, z) \in Nat
    BY <1>4, AtIs
  <2> QED  BY <2>1, <2>2
<1>10. /\ asicData' = Put(asicData, roc, At(asicData, roc, {}) \cup new)
       /\ minLast' = IF ~memoryFull THEN minLast
                     ELSE Put(minLast, roc, IF old # 0 /\ old <= last THEN old ELSE last)
       /\ seenHits' = seenHits \cup new
  BY <1>3, <1>6, <1>7, <1>9 DEF AsicPacket
<1>11. \E l \in Nat : minLast' = minLast \/ minLast' = Put(minLast, roc, l)
  BY <1>10
<1>12. PICK l \in Nat : minLast' = minLast \/ minLast' = Put(minLast, roc, l)
  BY <1>11
<1>13. /\ phase # "ended"
       /\ UNCHANGED <<config, tsData, lastBuilt, queued, undefined, hwRoc, phase,
                      nextTrig, lastTime, seenTs>>
  BY DEF DataPacket, Running
<1>14. DataStored(roc, new, l)
  BY <1>5, <1>8, <1>10, <1>12, <1>13 DEF DataStored
<1> QED  BY <1>5, <1>14

LEMMA UnionHits ==
  ASSUME NEW S \in Hits, NEW T \in Hits
  PROVE  S \cup T \in Hits
BY FS_Union DEF Hits

LEMMA MapsStepData ==
  ASSUME MapsInv, DataPacket
  PROVE  MapsInv'
<1>1. PICK roc \in Nat, new \in Hits : \E last \in Nat : DataStored(roc, new, last)
  BY DataStoredIs
<1>2. PICK last \in Nat : DataStored(roc, new, last)
  BY <1>1
<1>3. /\ roc <= hwRoc
      /\ \A h \in new : h[1] = roc
      /\ asicData' = Put(asicData, roc, At(asicData, roc, {}) \cup new)
      /\ minLast' = minLast \/ minLast' = Put(minLast, roc, last)
      /\ seenHits' = seenHits \cup new
      /\ UNCHANGED <<mode, dummies, minHits, tsData, lastBuilt, queued, undefined, hwRoc, phase,
                     nextTrig, lastTime, seenTs>>
  BY <1>2 DEF DataStored, config
<1>4. /\ asicData \in Maps(Hits) /\ minLast \in Maps(Nat) /\ hwRoc \in Nat
      /\ DOMAIN asicData \subseteq 0 .. hwRoc /\ DOMAIN minLast \subseteq 0 .. hwRoc
      /\ HitsOfCycles(asicData)
  BY DEF MapsInv, BuilderTypeOK, CyclesBegun
<1>5. PICK none \in Hits : none = {}
  <2>1. IsFiniteSet({})
    BY FS_EmptySet
  <2> QED  BY <2>1 DEF Hits
<1>6. PICK old \in Hits : old = At(asicData, roc, none)
  BY <1>4, AtIs
<1>7. old \cup new \in Hits
  BY UnionHits
<1>8. \A h \in old : h[1] = roc
  <2>1. roc \in DOMAIN asicData => old = asicData[roc]
    BY <1>4, <1>6, AtIs
  <2>2. roc \notin DOMAIN asicData => old = {}
    BY <1>4, <1>5, <1>6, AtIs
  <2> QED  BY <1>4, <2>1, <2>2 DEF HitsOfCycles
<1>9. PICK w : w = asicData'
  OBVIOUS
<1>10. w = Put(asicData, roc, old \cup new)
  BY <1>3, <1>5, <1>6, <1>9
<1>11. w \in Maps(Hits)
  BY <1>4, <1>7, <1>10, PutIs
<1>12. /\ DOMAIN w = DOMAIN asicData \cup {roc} /\ w[roc] = old \cup new
       /\ \A x \in DOMAIN asicData \ {roc} : w[x] = asicData[x]
  BY <1>10 DEF Put
<1>13. HitsOfCycles(w)
  <2> SUFFICES ASSUME NEW r \in DOMAIN w, NEW h \in w[r] PROVE h[1] = r
    BY DEF HitsOfCycles
  <2>1. CASE r = roc
    BY <1>3, <1>8, <1>12, <2>1
  <2>2. CASE r # roc
    BY <1>4, <1>12, <2>2 DEF HitsOfCycles
  <2> QED  BY <2>1, <2>2
<1>14. DOMAIN w \subseteq 0 .. hwRoc
  BY <1>3, <1>4, <1>12
<1>15. minLast' \in Maps(Nat) /\ DOMAIN minLast' \subseteq 0 .. hwRoc
  <2>1. Put(minLast, roc, last) \in Maps(Nat)
    BY <1>4, PutIs
  <2>2. DOMAIN Put(minLast, roc, last) = DOMAIN minLast \cup {roc}
    BY DEF Put
  <2> QED  BY <1>3, <1>4, <2>1, <2>2
<1>16. seenHits' \in SUBSET Hit
  BY <1>3 DEF MapsInv, BuilderTypeOK, Hits
<1>17. BuilderTypeOK'
  BY <1>3, <1>9, <1>11, <1>15, <1>16 DEF MapsInv, BuilderTypeOK
<1>18. CyclesBegun'
  BY <1>3, <1>9, <1>13, <1>14, <1>15 DEF MapsInv, CyclesBegun
<1>19. TriggersOk(tsData, nextTrig, lastTime)' /\ TriggersOk(seenTs, nextTrig, lastTime)'
  BY <1>3 DEF MapsInv, TriggersOk
<1> QED  BY <1>17, <1>18, <1>19 DEF MapsInv

LEMMA MapsStepTimes ==
  ASSUME MapsInv, TimestampPacket
  PROVE  MapsInv'
<1>1. /\ PacketFiled(tsData, tsData') /\ PacketFiled(seenTs, seenTs')
      /\ nextTrig' \in Nat /\ lastTime' \in Int /\ nextTrig <= nextTrig' /\ lastTime <= lastTime'
      /\ phase' \in {"before", "acquiring", "after"}
      /\ UNCHANGED <<mode, dummies, minHits, asicData, minLast, lastBuilt, queued, undefined,
                     hwRoc, seenHits>>
  BY DEF TimestampPacket, config
<1>2. /\ tsData \in Maps(Times) /\ DOMAIN tsData \subseteq 0 .. hwRoc
      /\ seenTs \in Maps(Times) /\ DOMAIN seenTs \subseteq 0 .. hwRoc
      /\ hwRoc \in Nat /\ nextTrig \in Nat /\ lastTime \in Int
      /\ TriggersOk(tsData, nextTrig, lastTime) /\ TriggersOk(seenTs, nextTrig, lastTime)
  BY DEF MapsInv, BuilderTypeOK, CyclesBegun
<1>3. \A m \in Maps(Times) : \A w :
        DOMAIN m \subseteq 0 .. hwRoc /\ TriggersOk(m, nextTrig, lastTime) /\ PacketFiled(m, w)
        => /\ w \in Maps(Times) /\ DOMAIN w \subseteq 0 .. hwRoc
           /\ TriggersOk(w, nextTrig', lastTime')
  BY <1>1, <1>2, PacketKeeps
<1>4. /\ tsData' \in Maps(Times) /\ DOMAIN tsData' \subseteq 0 .. hwRoc
      /\ TriggersOk(tsData', nextTrig', lastTime')
  BY <1>1, <1>2, <1>3
<1>5. /\ seenTs' \in Maps(Times) /\ DOMAIN seenTs' \subseteq 0 .. hwRoc
      /\ TriggersOk(seenTs', nextTrig', lastTime')
  BY <1>1, <1>2, <1>3
<1>6. BuilderTypeOK'
  BY <1>1, <1>4, <1>5 DEF MapsInv, BuilderTypeOK
<1>7. CyclesBegun'
  BY <1>1, <1>4, <1>5 DEF MapsInv, CyclesBegun, HitsOfCycles
<1> QED  BY <1>4, <1>5, <1>6, <1>7 DEF MapsInv

LEMMA MapsStepNextCycle ==
  ASSUME MapsInv, NextCycle
  PROVE  MapsInv'
<1>1. /\ hwRoc' = hwRoc + 1 /\ phase' = "before"
      /\ UNCHANGED <<mode, dummies, minHits, asicData, tsData, minLast, lastBuilt, queued,
                     undefined, nextTrig, lastTime, packets, lost, seenTs, seenHits>>
  BY DEF NextCycle, config, maps
<1>2. hwRoc \in Nat /\ 0 .. hwRoc \subseteq 0 .. hwRoc'
  BY <1>1 DEF MapsInv, BuilderTypeOK
<1>3. BuilderTypeOK'
  BY <1>1, <1>2 DEF MapsInv, BuilderTypeOK
<1>4. CyclesBegun'
  BY <1>1, <1>2 DEF MapsInv, CyclesBegun, HitsOfCycles
<1>5. TriggersOk(tsData, nextTrig, lastTime)' /\ TriggersOk(seenTs, nextTrig, lastTime)'
  BY <1>1 DEF MapsInv, TriggersOk
<1> QED  BY <1>3, <1>4, <1>5 DEF MapsInv

LEMMA MapsStep ==
  MapsInv /\ [BuilderNext]_builderVars => MapsInv'
<1> SUFFICES ASSUME MapsInv, [BuilderNext]_builderVars PROVE MapsInv'
  OBVIOUS
<1>1. CASE StartPacket
  BY <1>1, StartFiled, MapsStepTimes
<1>2. CASE StopPacket
  BY <1>2, StopFiled, MapsStepTimes
<1>3. CASE TriggerPacket
  BY <1>3, TriggerFiled, MapsStepTimes
<1>4. CASE NextCycle
  BY <1>4, MapsStepNextCycle
<1>5. CASE DataPacket
  BY <1>5, MapsStepData
<1>6. CASE EndOfRead
  <2>1. PICK d \in BOOLEAN : d = FALSE
    OBVIOUS
  <2>2. /\ buildEvents(d)
        /\ UNCHANGED <<config, minLast, hwRoc, phase, nextTrig, lastTime, seenTs, seenHits>>
    BY <1>6, <2>1 DEF EndOfRead, lda
  <2>3. phase' \in {"before", "acquiring", "after", "ended"}
    BY <2>2 DEF MapsInv, BuilderTypeOK
  <2> QED  BY <2>2, <2>3, MapsStepBuild
<1>7. CASE RunEnds
  <2>1. PICK d \in BOOLEAN : d = TRUE
    OBVIOUS
  <2>2. /\ buildEvents(d) /\ phase' = "ended"
        /\ UNCHANGED <<config, minLast, hwRoc, nextTrig, lastTime, seenTs, seenHits>>
    BY <1>7, <2>1 DEF RunEnds
  <2> QED  BY <2>2, MapsStepBuild
<1>8. CASE UNCHANGED builderVars
  <2>1. UNCHANGED <<mode, dummies, minHits, asicData, tsData, minLast, lastBuilt, queued,
                    undefined, hwRoc, phase, nextTrig, lastTime, seenTs, seenHits>>
    BY <1>8 DEF builderVars, config, maps, lda
  <2>2. BuilderTypeOK' /\ CyclesBegun'
    BY <2>1 DEF MapsInv, BuilderTypeOK, CyclesBegun, HitsOfCycles
  <2>3. TriggersOk(tsData, nextTrig, lastTime)' /\ TriggersOk(seenTs, nextTrig, lastTime)'
    BY <2>1 DEF MapsInv, TriggersOk
  <2> QED  BY <2>2, <2>3 DEF MapsInv
<1> QED  BY <1>1, <1>2, <1>3, <1>4, <1>5, <1>6, <1>7, <1>8 DEF BuilderNext

LEMMA MapsInit ==
  BuilderInit => MapsInv
<1> SUFFICES ASSUME BuilderInit PROVE MapsInv
  OBVIOUS
<1>1. \A X : EmptyMap \in Maps(X)
  <2> SUFFICES ASSUME NEW X PROVE EmptyMap \in Maps(X)
    OBVIOUS
  <2>1. EmptyMap \in [{} -> X]
    BY DEF EmptyMap
  <2> QED  BY <2>1 DEF Maps
<1>2. DOMAIN EmptyMap = {}
  BY DEF EmptyMap
<1>3. /\ mode \in Modes /\ dummies \in DummyChoices /\ minHits \in MinHitChoices
      /\ asicData = EmptyMap /\ tsData = EmptyMap /\ minLast = EmptyMap
      /\ lastBuilt = GenerateFrom - 1 \/ lastBuilt = -1
      /\ queued = <<>> /\ undefined = FALSE
      /\ hwRoc = 0 /\ phase = "before" /\ nextTrig = 0 /\ lastTime = 0
      /\ seenTs = EmptyMap /\ seenHits = {}
  BY DEF BuilderInit
<1>4. mode \in AllModes /\ dummies \in BOOLEAN
  BY <1>3, BuilderAssumption DEF AllModes
<1>5. GenerateFrom - 1 \in Int /\ -1 \in Int
  BY BuilderAssumption
<1>6. lastBuilt \in Int
  BY <1>3, <1>5
<1>7. queued \in Seq(BuiltEvent)
  BY <1>3
<1>8. BuilderTypeOK
  <2>1. /\ asicData \in Maps(Hits) /\ tsData \in Maps(Times) /\ minLast \in Maps(Nat)
        /\ seenTs \in Maps(Times)
    BY <1>1, <1>3
  <2>2. minHits \in MinHitChoices /\ undefined \in BOOLEAN /\ seenHits \in SUBSET Hit
    BY <1>3
  <2>3. /\ hwRoc \in Nat /\ phase \in {"before", "acquiring", "after", "ended"}
        /\ nextTrig \in Nat /\ lastTime \in Int
    BY <1>3
  <2> QED  BY <1>4, <1>6, <1>7, <2>1, <2>2, <2>3 DEF BuilderTypeOK
<1>9. CyclesBegun
  BY <1>2, <1>3 DEF CyclesBegun, HitsOfCycles
<1>10. TriggersOk(tsData, nextTrig, lastTime) /\ TriggersOk(seenTs, nextTrig, lastTime)
  BY <1>2, <1>3 DEF TriggersOk
<1> QED  BY <1>8, <1>9, <1>10 DEF MapsInv

(* Every reachable state of the event builder. *)
THEOREM MapsAlways == BuilderSpec => []MapsInv
<1> QED  BY MapsInit, MapsStep, PTL DEF BuilderSpec
-----------------------------------------------------------------------------
(* A cycle is frozen when no packet can change it or the bound of its complete
   BXIDs any more: the packets are at most DataLag cycles late. *)
FrozenIn(r, dumpAll) == r < hwRoc - DataLag \/ dumpAll

Frozen(r) == r < hwRoc - DataLag \/ phase = "ended"

(* Only frozen cycles are built: more cycles are kept than packets are late. *)
LEMMA FirstFrozen ==
  ASSUME hwRoc \in Nat, NEW s \in BuildState, NEW dumpAll \in BOOLEAN,
         MayBuild(s, dumpAll), DOMAIN s.asic \subseteq 0 .. hwRoc
  PROVE  /\ First(s.asic) \in DOMAIN s.asic /\ First(s.asic) \in Nat
         /\ FrozenIn(First(s.asic), dumpAll)
<1> DEFINE D == DOMAIN s.asic
<1>1. D # {} /\ D \in SUBSET Nat /\ Cardinality(D) > Kept(dumpAll)
  BY StateIs DEF MayBuild
<1>2. PICK f \in Nat : f = First(s.asic) /\ f \in D /\ \A x \in D : f <= x
  BY <1>1, MinIs DEF First
<1>3. PICK m \in Int : m = hwRoc
  OBVIOUS
<1>4. D \subseteq f .. m
  BY <1>1, <1>2, <1>3
<1>5. IsFiniteSet(f .. m) /\ Cardinality(f .. m) = IF f > m THEN 0 ELSE m - f + 1
  BY FS_Interval
<1>6. Cardinality(D) <= Cardinality(f .. m) /\ IsFiniteSet(D)
  BY <1>4, <1>5, FS_Subset
<1>7. PICK c \in Nat : c = Cardinality(D)
  BY <1>6, FS_CardinalityType
<1>8. f <= m
  BY <1>2, <1>4
<1>9. c <= m - f + 1
  BY <1>5, <1>6, <1>7, <1>8
<1>10. CASE dumpAll = FALSE
  <2>1. c > KeepBuffered
    BY <1>1, <1>7, <1>10 DEF Kept
  <2>2. f < m - DataLag
    BY <1>9, <2>1, BuilderAssumption
  <2> QED  BY <1>2, <1>3, <2>2 DEF FrozenIn
<1>11. CASE dumpAll = TRUE
  BY <1>2, <1>11 DEF FrozenIn
<1> QED  BY <1>10, <1>11

LEMMA ExtendsEach ==
  ASSUME NEW E \in SUBSET BuiltEvent, NEW a \in Seq(BuiltEvent), NEW b, Extends(E, a, b)
  PROVE  /\ b \in Seq(BuiltEvent) /\ Len(a) <= Len(b)
         /\ \A i \in 1 .. Len(a) : b[i] = a[i]
         /\ \A i \in 1 .. Len(b) : i \in 1 .. Len(a) \/ b[i] \in E
<1>1. PICK w \in Seq(E) : b = a \o w
  BY DEF Extends
<1>2. w \in Seq(BuiltEvent)
  BY SeqMonotonic
<1>3. PICK n \in Nat, m \in Nat : n = Len(a) /\ m = Len(w)
  BY <1>2, LenProperties
<1>4. /\ b \in Seq(BuiltEvent) /\ Len(b) = n + m
      /\ \A i \in 1 .. n : b[i] = a[i]
      /\ \A i \in n + 1 .. n + m : b[i] = w[i - n]
  BY <1>1, <1>2, <1>3, ConcatProperties
<1>5. \A i \in n + 1 .. n + m : b[i] \in E
  <2> SUFFICES ASSUME NEW i \in n + 1 .. n + m PROVE b[i] \in E
    OBVIOUS
  <2>1. i - n \in 1 .. Len(w)
    BY <1>3
  <2> QED  BY <1>4, <2>1, ElementOfSeq
<1> QED  BY <1>3, <1>4, <1>5

(* An event's hits belong to it, and its BXID is complete. *)
EventOk(e) ==
  e.hits # {} =>
    /\ \A h \in e.hits : h[1] = e.roc
    /\ e.bxid # None /\ minHits = 0 => \A h \in e.hits : h[2] = e.bxid
    /\ e.bxid # None /\ ~dummies => IsBXIDComplete(e.roc, e.bxid)

EventsOk(q) == \A i \in 1 .. Len(q) : EventOk(q[i])

WithHitsFrozen(q, dumpAll) ==
  \A i \in 1 .. Len(q) : q[i].hits # {} => FrozenIn(q[i].roc, dumpAll)

EventsInv ==
  /\ EventsOk(queued) /\ WithHitsFrozen(queued, phase = "ended")
  /\ minHits = 0 => ~undefined

LEMMA EventsStepBuild ==
  ASSUME MapsInv, EventsInv, Running, NEW dumpAll \in BOOLEAN, buildEvents(dumpAll),
         UNCHANGED <<config, minLast, hwRoc>>, phase' = IF dumpAll THEN "ended" ELSE phase
  PROVE  EventsInv'
<1> DEFINE Good(s) == /\ Shrinks(Current, s) /\ EventsOk(s.out) /\ WithHitsFrozen(s.out, dumpAll)
                      /\ minHits = 0 => ~s.undefined
           V == {s \in BuildState : Good(s)}
<1>1. Current \in V
  <2>1. WithHitsFrozen(queued, dumpAll)
    BY DEF EventsInv, WithHitsFrozen, FrozenIn, Running
  <2> QED  BY <2>1, CurrentIs, ShrinksRefl DEF EventsInv
<1>2. ASSUME NEW s \in BuildState, Good(s), MayBuild(s, dumpAll)
      PROVE  BuildCycle(s) \in V
  <2>1. PICK t : t = BuildCycle(s)
    OBVIOUS
  <2>2. /\ t \in BuildState /\ Shrinks(s, t) /\ Extends(NewEvent(s), s.out, t.out)
        /\ minHits = 0 => t.undefined = s.undefined
    BY <1>2, <2>1, CurrentIs, CycleBuilds DEF MayBuild, BuildsCycle
  <2>3. Shrinks(Current, t)
    BY <1>2, <2>2, ShrinksFurther
  <2>4. /\ DOMAIN s.asic \subseteq DOMAIN asicData
        /\ \A r \in DOMAIN s.asic : s.asic[r] \subseteq asicData[r]
    BY <1>2, CurrentIs DEF Shrinks
  <2>5. /\ hwRoc \in Nat /\ DOMAIN asicData \subseteq 0 .. hwRoc /\ HitsOfCycles(asicData)
    BY DEF MapsInv, BuilderTypeOK, CyclesBegun
  <2>6. First(s.asic) \in DOMAIN s.asic /\ FrozenIn(First(s.asic), dumpAll)
    BY <1>2, <2>4, <2>5, FirstFrozen
  <2>7. ASSUME NEW e \in NewEvent(s)
        PROVE  EventOk(e) /\ (e.hits # {} => FrozenIn(e.roc, dumpAll))
    <3> SUFFICES ASSUME e.hits # {} PROVE EventOk(e) /\ FrozenIn(e.roc, dumpAll)
      BY DEF EventOk
    <3>1. /\ e.roc = First(s.asic) /\ e.hits \subseteq s.asic[e.roc]
          /\ e.bxid # None /\ minHits = 0 => \A h \in e.hits : h[2] = e.bxid
          /\ e.bxid # None /\ ~dummies => IsBXIDComplete(e.roc, e.bxid)
      BY DEF NewEvent
    <3>2. \A h \in e.hits : h[1] = e.roc
      BY <2>4, <2>5, <2>6, <3>1 DEF HitsOfCycles
    <3>3. EventOk(e)
      BY <3>1, <3>2 DEF EventOk
    <3> QED  BY <2>6, <3>1, <3>3
  <2>8. s.out \in Seq(BuiltEvent)
    BY StateIs
  <2>9. /\ \A i \in 1 .. Len(s.out) : t.out[i] = s.out[i]
        /\ \A i \in 1 .. Len(t.out) : i \in 1 .. Len(s.out) \/ t.out[i] \in NewEvent(s)
    BY <2>2, <2>8, NewEventIs, ExtendsEach
  <2>10. EventsOk(t.out) /\ WithHitsFrozen(t.out, dumpAll)
    BY <1>2, <2>7, <2>9 DEF EventsOk, WithHitsFrozen
  <2> QED  BY <1>2, <2>1, <2>2, <2>3, <2>10
<1>3. V \in SUBSET BuildState /\ \A s \in V : MayBuild(s, dumpAll) => BuildCycle(s) \in V
  BY <1>2
<1> HIDE DEF V
<1>4. PICK t \in V : Becomes(t)
  BY <1>1, <1>3, CurrentIs, BuildEventsKeep
<1>5. /\ EventsOk(t.out) /\ WithHitsFrozen(t.out, dumpAll) /\ (minHits = 0 => ~t.undefined)
      /\ queued' = t.out /\ undefined' = t.undefined
  BY <1>4 DEF V, Becomes
<1>6. UNCHANGED <<mode, dummies, minHits, minLast, hwRoc>>
  BY DEF config
<1>7. EventsOk(queued)'
  BY <1>5, <1>6 DEF EventsOk, EventOk, IsBXIDComplete
<1>8. (phase' = "ended") = dumpAll
  BY DEF Running
<1>9. WithHitsFrozen(queued, phase = "ended")'
  BY <1>5, <1>6, <1>8 DEF WithHitsFrozen, FrozenIn
<1>10. (minHits = 0 => ~undefined)'
  BY <1>5, <1>6
<1> QED  BY <1>7, <1>9, <1>10 DEF EventsInv

LEMMA EventsKept ==
  ASSUME EventsInv,
         UNCHANGED <<mode, dummies, minHits, queued, undefined>>, hwRoc' >= hwRoc,
         hwRoc \in Nat, hwRoc' \in Nat, queued \in Seq(BuiltEvent), phase # "ended",
         \A r \in Int : \A b : FrozenIn(r, FALSE) /\ IsBXIDComplete(r, b)
                               => IsBXIDComplete(r, b)'
  PROVE  EventsInv'
<1>1. ASSUME NEW i \in 1 .. Len(queued)
      PROVE  /\ EventOk(queued[i])'
             /\ queued[i].hits # {} => FrozenIn(queued[i].roc, phase = "ended")'
  <2>1. PICK e \in BuiltEvent : e = queued[i]
    BY ElementOfSeq
  <2>2. e.roc \in Int
    BY DEF BuiltEvent
  <2>3. EventOk(e) /\ (e.hits # {} => FrozenIn(e.roc, FALSE))
    BY <2>1 DEF EventsInv, EventsOk, WithHitsFrozen
  <2>4. DataLag \in Nat
    BY BuilderAssumption
  <2>5. e.hits # {} => e.roc < hwRoc' - DataLag
    BY <2>2, <2>3, <2>4 DEF FrozenIn
  <2>6. queued[i]' = e
    BY <2>1
  <2>7. ASSUME e.hits # {}
        PROVE  e.bxid # None /\ ~dummies => IsBXIDComplete(e.roc, e.bxid)'
    BY <2>2, <2>3, <2>7 DEF EventOk
  <2>8. EventOk(queued[i])'
    <3>1. e.hits # {} =>
            /\ \A h \in e.hits : h[1] = e.roc
            /\ e.bxid # None /\ minHits = 0 => \A h \in e.hits : h[2] = e.bxid
      BY <2>3 DEF EventOk
    <3> QED  BY <2>6, <2>7, <3>1 DEF EventOk
  <2>9. queued[i].hits' # {} => FrozenIn(queued[i].roc, phase = "ended")'
    BY <2>5, <2>6 DEF FrozenIn
  <2> QED  BY <2>8, <2>9
<1>2. EventsOk(queued)'
  BY <1>1 DEF EventsOk
<1>3. WithHitsFrozen(queued, phase = "ended")'
  BY <1>1 DEF WithHitsFrozen
<1>4. (minHits = 0 => ~undefined)'
  BY DEF EventsInv
<1> QED  BY <1>2, <1>3, <1>4 DEF EventsInv

LEMMA EventsStep ==
  MapsInv /\ EventsInv /\ [BuilderNext]_builderVars => EventsInv'
<1> SUFFICES ASSUME MapsInv, EventsInv, [BuilderNext]_builderVars PROVE EventsInv'
  OBVIOUS
<1>0. hwRoc \in Nat /\ queued \in Seq(BuiltEvent) /\ minLast \in Maps(Nat) /\ DataLag \in Nat
  BY BuilderAssumption DEF MapsInv, BuilderTypeOK
<1>a. ASSUME TimestampPacket, Running PROVE EventsInv'
  <2>1. /\ UNCHANGED <<mode, dummies, minHits, minLast, queued, undefined, hwRoc>>
        /\ phase # "ended"
    BY <1>a DEF TimestampPacket, config, Running
  <2>2. \A r \in Int : \A b : FrozenIn(r, FALSE) /\ IsBXIDComplete(r, b) => IsBXIDComplete(r, b)'
    BY <2>1 DEF IsBXIDComplete
  <2>3. hwRoc' \in Nat /\ hwRoc' >= hwRoc
    BY <1>0, <2>1
  <2> QED  BY <1>0, <2>1, <2>2, <2>3, EventsKept
<1>1. CASE StartPacket
  BY <1>1, <1>a, StartFiled DEF StartPacket
<1>2. CASE StopPacket
  BY <1>2, <1>a, StopFiled DEF StopPacket
<1>3. CASE TriggerPacket
  BY <1>3, <1>a, TriggerFiled DEF TriggerPacket
<1>4. CASE NextCycle
  <2>1. /\ UNCHANGED <<mode, dummies, minHits, minLast, queued, undefined>>
        /\ phase # "ended" /\ hwRoc' = hwRoc + 1
    BY <1>4 DEF NextCycle, config, maps, Running
  <2>2. \A r \in Int : \A b : FrozenIn(r, FALSE) /\ IsBXIDComplete(r, b) => IsBXIDComplete(r, b)'
    BY <2>1 DEF IsBXIDComplete
  <2>3. hwRoc' \in Nat /\ hwRoc' >= hwRoc
    BY <1>0, <2>1
  <2> QED  BY <1>0, <2>1, <2>2, <2>3, EventsKept
<1>5. CASE DataPacket
  <2>1. PICK roc \in Nat, new \in Hits : \E last \in Nat : DataStored(roc, new, last)
    BY <1>5, DataStoredIs
  <2>2. PICK last \in Nat : DataStored(roc, new, last)
    BY <2>1
  <2>3. /\ UNCHANGED <<mode, dummies, minHits, queued, undefined, hwRoc>>
        /\ phase # "ended" /\ hwRoc - DataLag <= roc
        /\ minLast' = minLast \/ minLast' = Put(minLast, roc, last)
    BY <2>2 DEF DataStored, config
  <2>4. ASSUME NEW r \in Int, NEW b, FrozenIn(r, FALSE), IsBXIDComplete(r, b)
        PROVE  IsBXIDComplete(r, b)'
    <3>1. r # roc
      BY <1>0, <2>3, <2>4 DEF FrozenIn
    <3>2. CASE minLast' = minLast
      BY <2>4, <3>2 DEF IsBXIDComplete
    <3>3. CASE minLast' = Put(minLast, roc, last)
      <4>1. /\ DOMAIN Put(minLast, roc, last) = DOMAIN minLast \cup {roc}
            /\ \A x \in DOMAIN minLast \ {roc} : Put(minLast, roc, last)[x] = minLast[x]
        BY DEF Put
      <4> QED  BY <2>4, <3>1, <3>3, <4>1 DEF IsBXIDComplete
    <3> QED  BY <2>3, <3>2, <3>3
  <2>5. hwRoc' \in Nat /\ hwRoc' >= hwRoc
    BY <1>0, <2>3
  <2> QED  BY <1>0, <2>3, <2>4, <2>5, EventsKept
<1>6. CASE EndOfRead
  <2>1. PICK d \in BOOLEAN : d = FALSE
    OBVIOUS
  <2>2. /\ buildEvents(d) /\ Running
        /\ UNCHANGED <<config, minLast, hwRoc, phase>>
    BY <1>6, <2>1 DEF EndOfRead, lda
  <2>3. phase' = IF d THEN "ended" ELSE phase
    BY <2>1, <2>2
  <2> QED  BY <2>2, <2>3, EventsStepBuild
<1>7. CASE RunEnds
  <2>1. PICK d \in BOOLEAN : d = TRUE
    OBVIOUS
  <2>2. /\ buildEvents(d) /\ Running /\ phase' = "ended"
        /\ UNCHANGED <<config, minLast, hwRoc>>
    BY <1>7, <2>1 DEF RunEnds
  <2>3. phase' = IF d THEN "ended" ELSE phase
    BY <2>1, <2>2
  <2> QED  BY <2>2, <2>3, EventsStepBuild
<1>8. CASE UNCHANGED builderVars
  <2>1. UNCHANGED <<mode, dummies, minHits, minLast, queued, undefined, hwRoc, phase>>
    BY <1>8 DEF builderVars, config, maps, lda
  <2> QED  BY <2>1 DEF EventsInv, EventsOk, EventOk, WithHitsFrozen, FrozenIn, IsBXIDComplete
<1> QED  BY <1>1, <1>2, <1>3, <1>4, <1>5, <1>6, <1>7, <1>8 DEF BuilderNext

LEMMA EventsInit ==
  BuilderInit => EventsInv
<1> SUFFICES ASSUME BuilderInit PROVE EventsInv
  OBVIOUS
<1>1. Len(queued) = 0 /\ ~undefined
  BY DEF BuilderInit
<1> QED  BY <1>1 DEF EventsInv, EventsOk, WithHitsFrozen

(* In every reachable state the events hold hits of their own cycle and BXID, of
   complete BXIDs unless dummies are asked for, and of cycles too old to get more. *)
THEOREM EventsAlways == BuilderSpec => []EventsInv
<1> QED  BY MapsAlways, EventsInit, EventsStep, PTL DEF BuilderSpec

LEMMA EventElements ==
  ASSUME MapsInv, NEW e \in Events
  PROVE  e \in BuiltEvent /\ \E i \in 1 .. Len(queued) : e = queued[i]
<1>1. queued \in Seq(BuiltEvent) /\ DOMAIN queued = 1 .. Len(queued)
  BY LenProperties DEF MapsInv, BuilderTypeOK
<1>2. PICK i \in 1 .. Len(queued) : e = queued[i]
  BY <1>1 DEF Events, Range
<1> QED  BY <1>1, <1>2, ElementOfSeq

(* HitsBelong: the hits of an event are hits of its own cycle and BXID, and no
   past-the-end iterator is used, when no minimum of hits is asked for. *)
THEOREM EventsHoldTheirHits ==
  ASSUME MinHitChoices = {0}
  PROVE  BuilderSpec => []HitsBelong
<1>1. MapsInv /\ EventsInv => HitsBelong
  <2> SUFFICES ASSUME MapsInv, EventsInv PROVE HitsBelong
    OBVIOUS
  <2>1. minHits = 0
    BY DEF MapsInv, BuilderTypeOK
  <2>2. ~undefined
    BY <2>1 DEF EventsInv
  <2>3. ASSUME NEW e \in Events, NEW h \in e.hits
        PROVE  h[1] = e.roc /\ (e.bxid # None => h[2] = e.bxid)
    <3>1. PICK i \in 1 .. Len(queued) : e = queued[i]
      BY EventElements
    <3>2. EventOk(e)
      BY <3>1 DEF EventsInv, EventsOk
    <3> QED  BY <2>1, <3>2 DEF EventOk
  <2> QED  BY <2>2, <2>3 DEF HitsBelong
<1> QED  BY <1>1, MapsAlways, EventsAlways, PTL

(* OnlyComplete: unless dummies are asked for, no BXID is in an event that some
   full ASIC may have missed, also when the full memory is reported late. *)
THEOREM EventsAreComplete == BuilderSpec => []OnlyComplete
<1>1. MapsInv /\ EventsInv => OnlyComplete
  <2> SUFFICES ASSUME MapsInv, EventsInv, ~dummies,
                      NEW e \in Events, e.bxid # None, e.hits # {}
               PROVE  ~MayBeIncomplete(e.roc, e.bxid)
    BY DEF OnlyComplete
  <2>1. PICK i \in 1 .. Len(queued) : e = queued[i]
    BY EventElements
  <2>2. IsBXIDComplete(e.roc, e.bxid)
    BY <2>1 DEF EventsInv, EventsOk, EventOk
  <2>3. e.bxid \in Int
    BY EventElements DEF BuiltEvent
  <2>4. \A r \in DOMAIN minLast : minLast[r] \in Nat
    BY MapIs DEF MapsInv, BuilderTypeOK
  <2> QED  BY <2>2, <2>3, <2>4 DEF IsBXIDComplete, MayBeIncomplete
<1> QED  BY <1>1, MapsAlways, EventsAlways, PTL
-----------------------------------------------------------------------------
(* How often a hit is in the events: when its BXID may be incomplete and events
   are built by all BXIDs, in none, otherwise in exactly one. *)
HeldNever(h, q) == \A i \in 1 .. Len(q) : h \notin q[i].hits

HeldOnce(h, q) ==
  \E i \in 1 .. Len(q) : h \in q[i].hits /\ \A j \in 1 .. Len(q) : h \in q[j].hits => j = i

LeftOut(h) == mode = "BXID_ALL" /\ MayBeIncomplete(h[1], h[2])

Held(h, q) == IF LeftOut(h) THEN HeldNever(h, q) ELSE HeldOnce(h, q)

LEMMA HeldConcat ==
  ASSUME NEW a \in Seq(BuiltEvent), NEW b \in Seq(BuiltEvent), NEW h
  PROVE  /\ HeldNever(h, a) /\ HeldNever(h, b) => HeldNever(h, a \o b)
         /\ HeldNever(h, a) /\ HeldOnce(h, b) => HeldOnce(h, a \o b)
         /\ HeldOnce(h, a) /\ HeldNever(h, b) => HeldOnce(h, a \o b)
<1>1. PICK n \in Nat, m \in Nat : n = Len(a) /\ m = Len(b)
  BY LenProperties
<1>2. PICK c : c = a \o b
  OBVIOUS
<1>3. /\ Len(c) = n + m
      /\ \A i \in 1 .. n : c[i] = a[i]
      /\ \A i \in n + 1 .. n + m : c[i] = b[i - n]
  BY <1>1, <1>2, ConcatProperties
<1>4. \A i \in 1 .. m : c[n + i] = b[i]
  <2> SUFFICES ASSUME NEW i \in 1 .. m PROVE c[n + i] = b[i]
    OBVIOUS
  <2>1. n + i \in n + 1 .. n + m /\ (n + i) - n = i
    OBVIOUS
  <2> QED  BY <1>3, <2>1
<1>5. \A i \in 1 .. n + m : i \in 1 .. n \/ i - n \in 1 .. m
  OBVIOUS
<1>6. HeldNever(h, a) /\ HeldNever(h, b) => HeldNever(h, c)
  BY <1>1, <1>3, <1>5 DEF HeldNever
<1>7. ASSUME HeldNever(h, a), HeldOnce(h, b) PROVE HeldOnce(h, c)
  <2>1. PICK i \in 1 .. m : h \in b[i].hits /\ \A j \in 1 .. m : h \in b[j].hits => j = i
    BY <1>1, <1>7 DEF HeldOnce
  <2>2. h \in c[n + i].hits /\ n + i \in 1 .. n + m
    BY <1>4, <2>1
  <2>3. ASSUME NEW j \in 1 .. n + m, h \in c[j].hits PROVE j = n + i
    <3>1. j \notin 1 .. n
      BY <1>1, <1>3, <1>7, <2>3 DEF HeldNever
    <3>2. j - n \in 1 .. m /\ j \in n + 1 .. n + m
      BY <3>1
    <3>3. h \in b[j - n].hits
      BY <1>3, <2>3, <3>2
    <3>4. j - n = i
      BY <2>1, <3>2, <3>3
    <3> QED  BY <3>4
  <2> QED  BY <1>3, <2>2, <2>3 DEF HeldOnce
<1>8. ASSUME HeldOnce(h, a), HeldNever(h, b) PROVE HeldOnce(h, c)
  <2>1. PICK i \in 1 .. n : h \in a[i].hits /\ \A j \in 1 .. n : h \in a[j].hits => j = i
    BY <1>1, <1>8 DEF HeldOnce
  <2>2. h \in c[i].hits /\ i \in 1 .. n + m
    BY <1>3, <2>1
  <2>3. ASSUME NEW j \in 1 .. n + m, h \in c[j].hits PROVE j = i
    <3>1. CASE j \in 1 .. n
      BY <1>3, <2>1, <2>3, <3>1
    <3>2. CASE j \notin 1 .. n
      <4>1. j - n \in 1 .. m /\ j \in n + 1 .. n + m
        BY <3>2
      <4>2. h \in b[j - n].hits
        BY <1>3, <2>3, <4>1
      <4> QED  BY <1>1, <1>8, <4>1, <4>2 DEF HeldNever
    <3> QED  BY <3>1, <3>2
  <2> QED  BY <1>3, <2>2, <2>3 DEF HeldOnce
<1> QED  BY <1>2, <1>6, <1>7, <1>8

(* The events of a cycle hold its hits. *)
HoldsHits(s, t, roc) ==
  \E new \in Seq(BuiltEvent) :
    /\ t.out = s.out \o new
    /\ \A h \in s.asic[roc] : Held(h, new)
    /\ \A h : h \notin s.asic[roc] => HeldNever(h, new)

LEMMA ROCHolds ==
  ASSUME mode = "ROC", NEW s \in BuildState, DOMAIN s.asic # {}
  PROVE  /\ TakenOut(s, BuildROCCycle(s), First(s.asic))
         /\ HoldsHits(s, BuildROCCycle(s), First(s.asic))
<1> DEFINE t == BuildROCCycle(s)
           roc == First(s.asic)
<1>1. /\ TakenOut(s, t, roc)
      /\ \E e \in BuiltEvent :
           /\ t.out = s.out \o (Missed(None, s.last, roc) \o <<e>>)
           /\ e.roc = roc /\ e.bxid = None /\ e.hits = s.asic[roc]
  BY BuildROCCycleIs
<1>2. roc \in Int /\ s.last \in Int /\ None \in Int
  BY StateIs, MinIs DEF First, None
<1> HIDE DEF t, roc
<1>3. PICK e \in BuiltEvent : /\ t.out = s.out \o (Missed(None, s.last, roc) \o <<e>>)
                              /\ e.hits = s.asic[roc]
  BY <1>1
<1>4. PICK d \in Seq(DummyEvent) : d = Missed(None, s.last, roc)
  BY <1>2, MissedEvents
<1>5. d \in Seq(BuiltEvent) /\ <<e>> \in Seq(BuiltEvent)
  BY SeqMonotonic DEF DummyEvent
<1>6. \A h : HeldNever(h, d)
  BY ElementOfSeq DEF HeldNever, DummyEvent
<1>7. Len(<<e>>) = 1 /\ <<e>>[1] = e
  OBVIOUS
<1>8. \A i \in 1 .. Len(<<e>>) : i = 1
  BY <1>7
<1>9. \A h : h \in e.hits => HeldOnce(h, <<e>>)
  BY <1>7, <1>8 DEF HeldOnce
<1>10. \A h : h \notin e.hits => HeldNever(h, <<e>>)
  BY <1>7, <1>8 DEF HeldNever
<1>11. d \o <<e>> \in Seq(BuiltEvent)
  BY <1>5, ConcatProperties
<1>12. PICK w \in Seq(BuiltEvent) : w = <<e>>
  BY <1>5
<1>13. \A h : /\ HeldNever(h, d) /\ HeldNever(h, w) => HeldNever(h, d \o w)
              /\ HeldNever(h, d) /\ HeldOnce(h, w) => HeldOnce(h, d \o w)
  BY <1>5, HeldConcat
<1>14. /\ \A h \in s.asic[roc] : HeldOnce(h, d \o <<e>>)
       /\ \A h : h \notin s.asic[roc] => HeldNever(h, d \o <<e>>)
  BY <1>3, <1>6, <1>9, <1>10, <1>12, <1>13
<1>15. \A h : ~LeftOut(h)
  BY DEF LeftOut
<1>16. HoldsHits(s, t, roc)
  BY <1>3, <1>4, <1>11, <1>14, <1>15 DEF HoldsHits, Held
<1> QED  BY <1>1, <1>16 DEF t, roc

LEMMA BXIDHolds ==
  ASSUME mode = "BXID_ALL", minLast \in Maps(Nat), NEW s \in BuildState, DOMAIN s.asic # {},
         HitsOfCycles(s.asic)
  PROVE  /\ TakenOut(s, BuildBXIDCycle(s), First(s.asic))
         /\ HoldsHits(s, BuildBXIDCycle(s), First(s.asic))
<1> DEFINE t == BuildBXIDCycle(s)
           roc == First(s.asic)
           bxids == {b \in {h[2] : h \in s.asic[roc]} : IsBXIDComplete(roc, b)}
<1>1. /\ TakenOut(s, t, roc)
      /\ \E new \in Seq(BuiltEvent), order \in Seq(Nat) :
           t.out = s.out \o new /\ BxidEvents(s, roc, bxids, order, new)
  BY BuildBXIDCycleIs
<1>2. PICK new \in Seq(BuiltEvent), order \in Seq(Nat) :
        t.out = s.out \o new /\ BxidEvents(s, roc, bxids, order, new)
  BY <1>1
<1>3. PICK n \in Nat : n = Len(new) /\ n = Len(order)
  BY <1>2, LenProperties DEF BxidEvents
<1>4. /\ \A k \in 1 .. n : order[k] \in bxids /\ order[k] \in Nat
      /\ \A x \in bxids : \E k \in 1 .. n : order[k] = x
      /\ \A j, k \in 1 .. n : j < k => order[j] < order[k]
      /\ \A k \in 1 .. n : new[k].hits = {h \in s.asic[roc] : h[2] = order[k]}
  BY <1>2, <1>3, ElementOfSeq DEF BxidEvents
<1>5. \A h \in s.asic[roc] : h[1] = roc /\ h[2] \in Nat
  <2>1. roc \in DOMAIN s.asic /\ s.asic[roc] \in SUBSET Hit
    BY StateIs, MinIs DEF First
  <2> QED  BY <2>1 DEF HitsOfCycles, Hit
<1>6. \A r \in DOMAIN minLast : minLast[r] \in Nat
  BY MapIs
<1>7. \A h \in s.asic[roc] : LeftOut(h) <=> ~IsBXIDComplete(roc, h[2])
  BY <1>5, <1>6 DEF LeftOut, MayBeIncomplete, IsBXIDComplete
<1>8. \A h \in s.asic[roc] : h[2] \in bxids <=> ~LeftOut(h)
  BY <1>7
<1> HIDE DEF t, roc, bxids
<1>9. ASSUME NEW h \in s.asic[roc]
      PROVE  Held(h, new)
  <2>1. CASE LeftOut(h)
    <3>1. \A k \in 1 .. n : order[k] # h[2]
      BY <1>4, <1>8, <2>1
    <3>2. HeldNever(h, new)
      BY <1>3, <1>4, <3>1 DEF HeldNever
    <3> QED  BY <2>1, <3>2 DEF Held
  <2>2. CASE ~LeftOut(h)
    <3>1. PICK k \in 1 .. n : order[k] = h[2]
      BY <1>4, <1>8, <2>2
    <3>2. h \in new[k].hits
      BY <1>4, <3>1
    <3>3. ASSUME NEW j \in 1 .. n, h \in new[j].hits PROVE j = k
      <4>1. order[j] = order[k]
        BY <1>4, <3>1, <3>3
      <4>2. ~(j < k) /\ ~(k < j)
        BY <1>4, <4>1
      <4> QED  BY <4>2
    <3>4. HeldOnce(h, new)
      BY <1>3, <3>2, <3>3 DEF HeldOnce
    <3> QED  BY <2>2, <3>4 DEF Held
  <2> QED  BY <2>1, <2>2
<1>10. \A h : h \notin s.asic[roc] => HeldNever(h, new)
  BY <1>3, <1>4 DEF HeldNever
<1>11. HoldsHits(s, t, roc)
  BY <1>2, <1>9, <1>10 DEF HoldsHits
<1> QED  BY <1>1, <1>11 DEF t, roc

(* Where the hits that arrived are: in the entry of their cycle and in no event,
   or, when the cycle has been built, in the events. *)
HitsPlaced(asic, q, dumpAll) ==
  \A h \in seenHits :
    IF h[1] \in DOMAIN asic THEN h \in asic[h[1]] /\ HeldNever(h, q)
    ELSE FrozenIn(h[1], dumpAll) /\ Held(h, q)

ByCycle == mode \in {"ROC", "BXID_ALL"}

HitsInv == ByCycle => HitsPlaced(asicData, queued, phase = "ended")

LEMMA PlacedStep ==
  ASSUME ByCycle, minLast \in Maps(Nat), hwRoc \in Nat, seenHits \in SUBSET Hit,
         NEW s \in BuildState, NEW dumpAll \in BOOLEAN, MayBuild(s, dumpAll),
         DOMAIN s.asic \subseteq 0 .. hwRoc, HitsOfCycles(s.asic),
         HitsPlaced(s.asic, s.out, dumpAll)
  PROVE  HitsPlaced(BuildCycle(s).asic, BuildCycle(s).out, dumpAll)
<1>1. PICK t : t = BuildCycle(s)
  OBVIOUS
<1>2. PICK roc \in Nat : roc = First(s.asic) /\ roc \in DOMAIN s.asic /\ FrozenIn(roc, dumpAll)
  BY FirstFrozen
<1>3. TakenOut(s, t, roc) /\ HoldsHits(s, t, roc)
  <2>1. CASE mode = "ROC"
    BY <1>1, <1>2, <2>1, ROCHolds DEF BuildCycle, MayBuild
  <2>2. CASE mode = "BXID_ALL"
    BY <1>1, <1>2, <2>2, BXIDHolds DEF BuildCycle, MayBuild
  <2> QED  BY <2>1, <2>2 DEF ByCycle
<1>4. PICK new \in Seq(BuiltEvent) :
        /\ t.out = s.out \o new
        /\ \A h \in s.asic[roc] : Held(h, new)
        /\ \A h : h \notin s.asic[roc] => HeldNever(h, new)
  BY <1>3 DEF HoldsHits
<1>5. s.out \in Seq(BuiltEvent) /\ s.asic \in Maps(Hits)
  BY StateIs
<1>6. PICK d : d = DOMAIN s.asic \ {roc}
  OBVIOUS
<1>7. /\ DOMAIN t.asic = DOMAIN s.asic \ {roc}
      /\ \A r \in DOMAIN t.asic : t.asic[r] = s.asic[r]
  <2>1. t.asic = KeepOnly(s.asic, d)
    BY <1>3, <1>6 DEF TakenOut
  <2> QED  BY <1>6, <2>1 DEF KeepOnly
<1>8. \A h : HeldNever(h, s.out) /\ Held(h, new) => Held(h, t.out)
  BY <1>4, <1>5, HeldConcat DEF Held
<1>9. \A h : Held(h, s.out) /\ HeldNever(h, new) => Held(h, t.out)
  BY <1>4, <1>5, HeldConcat DEF Held
<1>10. \A h : HeldNever(h, s.out) /\ HeldNever(h, new) => HeldNever(h, t.out)
  BY <1>4, <1>5, HeldConcat
<1>11. ASSUME NEW h \in seenHits
       PROVE  IF h[1] \in DOMAIN t.asic THEN h \in t.asic[h[1]] /\ HeldNever(h, t.out)
              ELSE FrozenIn(h[1], dumpAll) /\ Held(h, t.out)
  <2>1. IF h[1] \in DOMAIN s.asic THEN h \in s.asic[h[1]] /\ HeldNever(h, s.out)
        ELSE FrozenIn(h[1], dumpAll) /\ Held(h, s.out)
    BY DEF HitsPlaced
  <2>2. h \in s.asic[roc] => h[1] = roc
    BY <1>2 DEF HitsOfCycles
  <2>3. CASE h[1] = roc
    <3>1. h \in s.asic[roc] /\ HeldNever(h, s.out)
      BY <1>2, <2>1, <2>3
    <3>2. Held(h, t.out)
      BY <1>4, <1>8, <3>1
    <3>3. h[1] \notin DOMAIN t.asic
      BY <1>7, <2>3
    <3> QED  BY <1>2, <2>3, <3>2, <3>3
  <2>4. CASE h[1] # roc
    <3>1. HeldNever(h, new)
      BY <1>4, <2>2, <2>4
    <3>2. h[1] \in DOMAIN t.asic <=> h[1] \in DOMAIN s.asic
      BY <1>7, <2>4
    <3>3. CASE h[1] \in DOMAIN s.asic
      BY <1>7, <1>10, <2>1, <3>1, <3>2, <3>3
    <3>4. CASE h[1] \notin DOMAIN s.asic
      BY <1>9, <2>1, <3>1, <3>2, <3>4
    <3> QED  BY <3>3, <3>4
  <2> QED  BY <2>3, <2>4
<1>12. HitsPlaced(t.asic, t.out, dumpAll)
  BY <1>11 DEF HitsPlaced
<1> QED  BY <1>1, <1>12

LEMMA PlacedStepBuild ==
  ASSUME MapsInv, HitsInv, Running, NEW dumpAll \in BOOLEAN, buildEvents(dumpAll),
         UNCHANGED <<config, minLast, hwRoc, seenHits>>,
         phase' = IF dumpAll THEN "ended" ELSE phase
  PROVE  HitsInv'
<1> SUFFICES ASSUME ByCycle PROVE HitsPlaced(asicData, queued, phase = "ended")'
  BY DEF HitsInv, ByCycle, config
<1> DEFINE V == {s \in BuildState :
                   Shrinks(Current, s) /\ HitsPlaced(s.asic, s.out, dumpAll)}
<1>1. Current \in V
  <2>1. HitsPlaced(asicData, queued, dumpAll)
    BY DEF HitsInv, HitsPlaced, FrozenIn, Running
  <2> QED  BY <2>1, CurrentIs, ShrinksRefl
<1>2. ASSUME NEW s \in BuildState, Shrinks(Current, s), HitsPlaced(s.asic, s.out, dumpAll),
             MayBuild(s, dumpAll)
      PROVE  BuildCycle(s) \in V
  <2>1. /\ BuildCycle(s) \in BuildState /\ Shrinks(s, BuildCycle(s))
    BY <1>2, CurrentIs, CycleBuilds DEF MayBuild, BuildsCycle
  <2>2. Shrinks(Current, BuildCycle(s))
    BY <1>2, <2>1, ShrinksFurther
  <2>3. /\ DOMAIN s.asic \subseteq DOMAIN asicData
        /\ \A r \in DOMAIN s.asic : s.asic[r] \subseteq asicData[r]
    BY <1>2, CurrentIs DEF Shrinks
  <2>4. /\ hwRoc \in Nat /\ DOMAIN asicData \subseteq 0 .. hwRoc /\ HitsOfCycles(asicData)
        /\ minLast \in Maps(Nat) /\ seenHits \in SUBSET Hit
    BY DEF MapsInv, BuilderTypeOK, CyclesBegun
  <2>5. DOMAIN s.asic \subseteq 0 .. hwRoc /\ HitsOfCycles(s.asic)
    BY <2>3, <2>4 DEF HitsOfCycles
  <2>6. HitsPlaced(BuildCycle(s).asic, BuildCycle(s).out, dumpAll)
    BY <1>2, <2>4, <2>5, PlacedStep
  <2> QED  BY <2>1, <2>2, <2>6
<1>3. V \in SUBSET BuildState /\ \A s \in V : MayBuild(s, dumpAll) => BuildCycle(s) \in V
  BY <1>2
<1> HIDE DEF V
<1>4. PICK t \in V : Becomes(t)
  BY <1>1, <1>3, CurrentIs, BuildEventsKeep
<1>5. HitsPlaced(asicData', queued', dumpAll)
  BY <1>4 DEF V, Becomes
<1>6. UNCHANGED <<mode, minLast, hwRoc, seenHits>>
  BY DEF config
<1>7. (phase' = "ended") = dumpAll
  BY DEF Running
<1> QED  BY <1>5, <1>6, <1>7
         DEF HitsPlaced, FrozenIn, Held, LeftOut, MayBeIncomplete, HeldNever, HeldOnce

(* What leaves asicData, the events and the frozen bounds alone. *)
LEMMA PlacedKept ==
  ASSUME HitsInv, hwRoc \in Nat, hwRoc' \in Nat, hwRoc' >= hwRoc, seenHits \in SUBSET Hit,
         UNCHANGED <<mode, asicData, minLast, queued, seenHits>>,
         (phase' # "ended" /\ phase # "ended") \/ UNCHANGED <<phase, hwRoc>>
  PROVE  HitsInv'
<1> SUFFICES ASSUME ByCycle PROVE HitsPlaced(asicData, queued, phase = "ended")'
  BY DEF HitsInv, ByCycle
<1>1. DataLag \in Nat
  BY BuilderAssumption
<1>2. ASSUME NEW h \in seenHits
      PROVE  FrozenIn(h[1], phase = "ended") => FrozenIn(h[1], phase = "ended")'
  <2>1. PICK r \in Nat : r = h[1]
    BY DEF Hit
  <2>2. r < hwRoc - DataLag => r < hwRoc' - DataLag
    <3>1. PICK a \in Nat, b \in Nat, d \in Nat : a = hwRoc /\ b = hwRoc' /\ d = DataLag /\ a <= b
      BY <1>1
    <3>2. r < a - d => r < b - d
      BY ONLY <3>1, <2>1
    <3> QED  BY <3>1, <3>2
  <2>3. phase = "ended" => phase' = "ended"
    OBVIOUS
  <2>4. FrozenIn(r, phase = "ended") => FrozenIn(r, phase = "ended")'
    BY <2>2, <2>3 DEF FrozenIn
  <2> QED  BY <2>1, <2>4
<1>3. \A h : Held(h, queued)' <=> Held(h, queued)
  BY DEF Held, LeftOut, MayBeIncomplete, HeldNever, HeldOnce
<1>4. \A h : HeldNever(h, queued)' <=> HeldNever(h, queued)
  BY DEF HeldNever
<1>5. HitsPlaced(asicData, queued, phase = "ended")
  BY DEF HitsInv
<1>6. ASSUME NEW h \in seenHits'
      PROVE  (IF h[1] \in DOMAIN asicData THEN h \in asicData[h[1]] /\ HeldNever(h, queued)
              ELSE FrozenIn(h[1], phase = "ended") /\ Held(h, queued))'
  <2>1. h \in seenHits
    OBVIOUS
  <2>2. IF h[1] \in DOMAIN asicData THEN h \in asicData[h[1]] /\ HeldNever(h, queued)
        ELSE FrozenIn(h[1], phase = "ended") /\ Held(h, queued)
    BY <1>5, <2>1 DEF HitsPlaced
  <2> QED  BY <1>2, <1>3, <1>4, <2>1, <2>2
<1> QED  BY <1>6 DEF HitsPlaced

LEMMA PlacedStepData ==
  ASSUME MapsInv, EventsInv, HitsInv, DataPacket
  PROVE  HitsInv'
<1>1. PICK roc \in Nat, new \in Hits : \E last \in Nat : DataStored(roc, new, last)
  BY DataStoredIs
<1>2. PICK last \in Nat : DataStored(roc, new, last)
  BY <1>1
<1>3. /\ hwRoc - DataLag <= roc /\ phase # "ended"
      /\ \A h \in new : h[1] = roc
      /\ asicData' = Put(asicData, roc, At(asicData, roc, {}) \cup new)
      /\ minLast' = minLast \/ minLast' = Put(minLast, roc, last)
      /\ seenHits' = seenHits \cup new
      /\ UNCHANGED <<mode, dummies, minHits, queued, hwRoc, phase>>
  BY <1>2 DEF DataStored, config
<1> SUFFICES ASSUME ByCycle PROVE HitsPlaced(asicData, queued, phase = "ended")'
  BY <1>3 DEF HitsInv, ByCycle
<1>4. hwRoc \in Nat /\ DataLag \in Nat /\ seenHits \in SUBSET Hit /\ queued \in Seq(BuiltEvent)
  BY BuilderAssumption DEF MapsInv, BuilderTypeOK
<1>5. HitsPlaced(asicData, queued, FALSE)
  BY <1>3 DEF HitsInv, HitsPlaced, FrozenIn
<1>6. ~FrozenIn(roc, FALSE)
  BY <1>3, <1>4 DEF FrozenIn
<1>7. ASSUME NEW h, h[1] = roc
      PROVE  HeldNever(h, queued)
  <2> SUFFICES ASSUME NEW i \in 1 .. Len(queued), h \in queued[i].hits PROVE FALSE
    BY DEF HeldNever
  <2>1. EventOk(queued[i]) /\ FrozenIn(queued[i].roc, phase = "ended")
    BY DEF EventsInv, EventsOk, WithHitsFrozen
  <2>2. queued[i].roc = roc
    BY <1>7, <2>1 DEF EventOk
  <2> QED  BY <1>3, <1>6, <2>1, <2>2 DEF FrozenIn
<1>8. PICK w : w = asicData'
  OBVIOUS
<1>9. /\ DOMAIN w = DOMAIN asicData \cup {roc} /\ w[roc] = At(asicData, roc, {}) \cup new
      /\ \A x \in DOMAIN asicData \ {roc} : w[x] = asicData[x]
  BY <1>3, <1>8 DEF Put
<1>10. roc \in DOMAIN asicData => asicData[roc] \subseteq w[roc]
  BY <1>9 DEF At
<1>11. \A r \in Nat : r # roc => \A b : MayBeIncomplete(r, b)' <=> MayBeIncomplete(r, b)
  <2> SUFFICES ASSUME NEW r \in Nat, r # roc, NEW b
               PROVE  MayBeIncomplete(r, b)' <=> MayBeIncomplete(r, b)
    OBVIOUS
  <2>1. CASE minLast' = minLast
    BY <2>1 DEF MayBeIncomplete
  <2>2. CASE minLast' = Put(minLast, roc, last)
    <3>1. /\ DOMAIN Put(minLast, roc, last) = DOMAIN minLast \cup {roc}
          /\ \A x \in DOMAIN minLast \ {roc} : Put(minLast, roc, last)[x] = minLast[x]
      BY DEF Put
    <3> QED  BY <2>2, <3>1 DEF MayBeIncomplete
  <2> QED  BY <1>3, <2>1, <2>2
<1>12. ASSUME NEW h \in seenHits \cup new
       PROVE  IF h[1] \in DOMAIN w THEN h \in w[h[1]] /\ HeldNever(h, queued)
              ELSE FrozenIn(h[1], FALSE) /\ Held(h, queued)'
  <2>1. CASE h[1] = roc
    <3>1. h \in w[roc]
      <4>1. CASE h \in new
        BY <1>9, <4>1
      <4>2. CASE h \in seenHits
        <5>1. roc \in DOMAIN asicData /\ h \in asicData[roc]
          BY <1>5, <1>6, <2>1, <4>2 DEF HitsPlaced
        <5> QED  BY <1>10, <5>1
      <4> QED  BY <4>1, <4>2
    <3> QED  BY <1>7, <1>9, <2>1, <3>1
  <2>2. CASE h[1] # roc
    <3>1. h \in seenHits
      BY <1>3, <2>2
    <3>2. IF h[1] \in DOMAIN asicData THEN h \in asicData[h[1]] /\ HeldNever(h, queued)
          ELSE FrozenIn(h[1], FALSE) /\ Held(h, queued)
      BY <1>5, <3>1 DEF HitsPlaced
    <3>3. h[1] \in Nat
      BY <1>4, <3>1 DEF Hit
    <3>4. MayBeIncomplete(h[1], h[2])' <=> MayBeIncomplete(h[1], h[2])
      BY <1>11, <2>2, <3>3
    <3>5. Held(h, queued)' <=> Held(h, queued)
      BY <1>3, <3>4 DEF Held, LeftOut, HeldNever, HeldOnce
    <3>6. CASE h[1] \in DOMAIN asicData
      BY <1>9, <2>2, <3>2, <3>6
    <3>7. CASE h[1] \notin DOMAIN asicData
      BY <1>9, <2>2, <3>2, <3>5, <3>7
    <3> QED  BY <3>6, <3>7
  <2> QED  BY <2>1, <2>2
<1>13. ASSUME NEW h \in seenHits'
       PROVE  (IF h[1] \in DOMAIN asicData THEN h \in asicData[h[1]] /\ HeldNever(h, queued)
               ELSE FrozenIn(h[1], phase = "ended") /\ Held(h, queued))'
  <2>1. HeldNever(h, queued)' <=> HeldNever(h, queued)
    BY <1>3 DEF HeldNever
  <2>2. FrozenIn(h[1], FALSE) => FrozenIn(h[1], phase = "ended")'
    BY <1>3 DEF FrozenIn
  <2> QED  BY <1>3, <1>8, <1>12, <2>1, <2>2
<1> QED  BY <1>13 DEF HitsPlaced

LEMMA PlacedNext ==
  MapsInv /\ EventsInv /\ HitsInv /\ [BuilderNext]_builderVars => HitsInv'
<1> SUFFICES ASSUME MapsInv, EventsInv, HitsInv, [BuilderNext]_builderVars PROVE HitsInv'
  OBVIOUS
<1>0. hwRoc \in Nat /\ seenHits \in SUBSET Hit
  BY DEF MapsInv, BuilderTypeOK
<1>a. ASSUME TimestampPacket, Running PROVE HitsInv'
  <2>1. /\ UNCHANGED <<mode, asicData, minLast, queued, hwRoc, seenHits>>
        /\ phase # "ended" /\ phase' # "ended"
    BY <1>a DEF TimestampPacket, config, Running
  <2>2. hwRoc' \in Nat /\ hwRoc' >= hwRoc
    BY <1>0, <2>1
  <2> QED  BY <1>0, <2>1, <2>2, PlacedKept
<1>1. CASE StartPacket
  BY <1>1, <1>a, StartFiled DEF StartPacket
<1>2. CASE StopPacket
  BY <1>2, <1>a, StopFiled DEF StopPacket
<1>3. CASE TriggerPacket
  BY <1>3, <1>a, TriggerFiled DEF TriggerPacket
<1>4. CASE NextCycle
  <2>1. /\ UNCHANGED <<mode, asicData, minLast, queued, seenHits>>
        /\ phase # "ended" /\ phase' # "ended" /\ hwRoc' = hwRoc + 1
    BY <1>4 DEF NextCycle, config, maps, Running
  <2>2. hwRoc' \in Nat /\ hwRoc' >= hwRoc
    BY <1>0, <2>1
  <2> QED  BY <1>0, <2>1, <2>2, PlacedKept
<1>5. CASE DataPacket
  BY <1>5, PlacedStepData
<1>6. CASE EndOfRead
  <2>1. PICK d \in BOOLEAN : d = FALSE
    OBVIOUS
  <2>2. /\ buildEvents(d) /\ Running
        /\ UNCHANGED <<config, minLast, hwRoc, phase, seenHits>>
    BY <1>6, <2>1 DEF EndOfRead, lda
  <2>3. phase' = IF d THEN "ended" ELSE phase
    BY <2>1, <2>2
  <2> QED  BY <2>2, <2>3, PlacedStepBuild
<1>7. CASE RunEnds
  <2>1. PICK d \in BOOLEAN : d = TRUE
    OBVIOUS
  <2>2. /\ buildEvents(d) /\ Running /\ phase' = "ended"
        /\ UNCHANGED <<config, minLast, hwRoc, seenHits>>
    BY <1>7, <2>1 DEF RunEnds
  <2>3. phase' = IF d THEN "ended" ELSE phase
    BY <2>1, <2>2
  <2> QED  BY <2>2, <2>3, PlacedStepBuild
<1>8. CASE UNCHANGED builderVars
  <2>1. UNCHANGED <<mode, asicData, minLast, queued, hwRoc, phase, seenHits>>
    BY <1>8 DEF builderVars, config, maps, lda
  <2>2. hwRoc' \in Nat /\ hwRoc' >= hwRoc
    BY <1>0, <2>1
  <2> QED  BY <1>0, <2>1, <2>2, PlacedKept
<1> QED  BY <1>1, <1>2, <1>3, <1>4, <1>5, <1>6, <1>7, <1>8 DEF BuilderNext

LEMMA HitsInit ==
  BuilderInit => HitsInv
BY DEF BuilderInit, HitsInv, HitsPlaced

(* HitsOnce: by ROC, or by all BXIDs, every hit of a built cycle is in exactly
   one event, however late its packet; an incomplete BXID is in none. *)
THEOREM EveryHitOnce == BuilderSpec => []HitsOnce
<1>1. MapsInv /\ HitsInv => HitsOnce
  <2> SUFFICES ASSUME MapsInv, HitsInv, mode \in {"ROC", "BXID_ALL"},
                      NEW h \in seenHits, h[1] \notin DOMAIN asicData
               PROVE  Cardinality({i \in 1 .. Len(queued) : h \in queued[i].hits}) =
                        IF mode = "BXID_ALL" /\ MayBeIncomplete(h[1], h[2]) THEN 0 ELSE 1
    BY DEF HitsOnce
  <2> DEFINE S == {i \in 1 .. Len(queued) : h \in queued[i].hits}
  <2>1. Held(h, queued)
    BY DEF HitsInv, HitsPlaced, ByCycle
  <2>2. CASE LeftOut(h)
    <3>1. S = {}
      BY <2>1, <2>2 DEF Held, HeldNever
    <3>2. Cardinality(S) = 0
      BY <3>1, FS_EmptySet
    <3> QED  BY <2>2, <3>2 DEF LeftOut
  <2>3. CASE ~LeftOut(h)
    <3>1. \E i \in 1 .. Len(queued) : S = {i}
      BY <2>1, <2>3 DEF Held, HeldOnce
    <3>2. Cardinality(S) = 1
      BY <3>1, FS_Singleton
    <3> QED  BY <2>3, <3>2 DEF LeftOut
  <2> QED  BY <2>2, <2>3
<1> QED  BY <1>1, MapsAlways, EventsAlways, HitsInit, PlacedNext, PTL DEF BuilderSpec
-----------------------------------------------------------------------------
(* A trigger of the maps is one that was there, or the next one, which is put
   into the current cycle. *)
LEMMA FiledTrigs ==
  ASSUME NEW m \in Maps(Times), hwRoc \in Nat, nextTrig \in Nat, lastTime' \in Int,
         NEW w, PacketFiled(m, w)
  PROVE  /\ DOMAIN m \subseteq DOMAIN w /\ DOMAIN w \subseteq DOMAIN m \cup {hwRoc}
         /\ \A r \in DOMAIN m \ {hwRoc} : w[r] = m[r]
         /\ \A r \in DOMAIN w : \A i \in 1 .. Len(w[r].trigs) :
              \/ r \in DOMAIN m /\ i \in 1 .. Len(m[r].trigs) /\ w[r].trigs[i] = m[r].trigs[i]
              \/ /\ r = hwRoc /\ nextTrig' = nextTrig + 1
                 /\ w[r].trigs[i].id = nextTrig /\ w[r].trigs[i].ts = lastTime'
<1>1. CASE w = m
  BY <1>1
<1>2. CASE w # m
  <2> DEFINE old == At(m, hwRoc, NoTimes)
             new == [id |-> nextTrig, ts |-> lastTime']
  <2>1. PICK e \in Times :
       /\ w = Put(m, hwRoc, e)
       /\ \/ e.trigs = old.trigs
          \/ /\ nextTrig' = nextTrig + 1
             /\ e.trigs = Append(old.trigs, new)
    BY <1>2 DEF PacketFiled
  <2>2. /\ DOMAIN w = DOMAIN m \cup {hwRoc}
        /\ w[hwRoc] = e /\ \A x \in DOMAIN m \ {hwRoc} : w[x] = m[x]
    <3>1. PICK k \in Nat : k = hwRoc
      OBVIOUS
    <3>2. w = Put(m, k, e)
      BY <2>1, <3>1
    <3>3. /\ DOMAIN w = DOMAIN m \cup {k} /\ w[k] = e
          /\ \A x \in DOMAIN m \ {k} : w[x] = m[x]
      BY <3>2 DEF Put
    <3> QED  BY <3>1, <3>3
  <2>3. /\ old \in Times
        /\ hwRoc \in DOMAIN m => old = m[hwRoc]
        /\ hwRoc \notin DOMAIN m => old = NoTimes
    BY NoTimesIs, AtIs
  <2>4. hwRoc \notin DOMAIN m => Len(old.trigs) = 0
    BY <2>3 DEF NoTimes
  <2> HIDE DEF old
  <2>5. ASSUME NEW i \in 1 .. Len(e.trigs)
        PROVE  \/ i \in 1 .. Len(old.trigs) /\ e.trigs[i] = old.trigs[i]
               \/ e.trigs[i] = new /\ nextTrig' = nextTrig + 1
    <3>1. old.trigs \in Seq(Trig) /\ new \in Trig
      BY <2>3 DEF Times, Arrived, Trig
    <3>2. CASE e.trigs = old.trigs
      BY <3>2
    <3>3. CASE nextTrig' = nextTrig + 1 /\ e.trigs = Append(old.trigs, new)
      <4>1. PICK n \in Nat : n = Len(old.trigs)
        BY <3>1, LenProperties
      <4>2. /\ Len(e.trigs) = n + 1
            /\ \A j \in 1 .. n : e.trigs[j] = old.trigs[j]
            /\ e.trigs[n + 1] = new
        BY <3>1, <3>3, <4>1, AppendProperties
      <4>3. i \in 1 .. n \/ i = n + 1
        BY <4>1, <4>2
      <4> QED  BY <3>3, <4>1, <4>2, <4>3
    <3> QED  BY <2>1, <3>2, <3>3
  <2>6. new.id = nextTrig /\ new.ts = lastTime'
    OBVIOUS
  <2> HIDE DEF new
  <2>7. ASSUME NEW r \in DOMAIN w, NEW i \in 1 .. Len(w[r].trigs)
        PROVE  \/ r \in DOMAIN m /\ i \in 1 .. Len(m[r].trigs) /\ w[r].trigs[i] = m[r].trigs[i]
               \/ /\ r = hwRoc /\ nextTrig' = nextTrig + 1
                  /\ w[r].trigs[i].id = nextTrig /\ w[r].trigs[i].ts = lastTime'
    <3>1. CASE r = hwRoc
      <4>1. i \in 1 .. Len(e.trigs) /\ w[r].trigs[i] = e.trigs[i]
        BY <2>2, <3>1
      <4>2. CASE i \in 1 .. Len(old.trigs) /\ e.trigs[i] = old.trigs[i]
        <5>1. hwRoc \in DOMAIN m /\ old = m[hwRoc]
          BY <2>3, <2>4, <4>2
        <5> QED  BY <3>1, <4>1, <4>2, <5>1
      <4>3. CASE e.trigs[i] = new /\ nextTrig' = nextTrig + 1
        BY <2>6, <3>1, <4>1, <4>3
      <4> QED  BY <2>5, <4>1, <4>2, <4>3
    <3>2. CASE r # hwRoc
      BY <2>2, <3>2
    <3> QED  BY <3>1, <3>2
  <2> QED  BY <2>2, <2>7
<1> QED  BY <1>1, <1>2

(* The numbers of the events: they go up by one from the first to the last. *)
FirstNumber == IF mode = "ROC" THEN 0 ELSE GenerateFrom

NumberedTo(q, last) ==
  /\ last = FirstNumber + Len(q) - 1
  /\ \A i \in 1 .. Len(q) : q[i].n = FirstNumber + i - 1

LEMMA EventsConcat ==
  \A a, b, c : a \in Seq(BuiltEvent) /\ b \in Seq(BuiltEvent) /\ c = a \o b =>
    /\ c \in Seq(BuiltEvent) /\ Len(c) = Len(a) + Len(b)
    /\ \A i \in 1 .. Len(a) : c[i] = a[i]
    /\ \A i \in Len(a) + 1 .. Len(a) + Len(b) : c[i] = b[i - Len(a)]
BY ConcatProperties

LEMMA NumberedMore ==
  ASSUME dummies, NEW q \in Seq(BuiltEvent), NEW last \in Int, NumberedTo(q, last),
         NEW n \in Int, last < n, NEW e \in BuiltEvent, e.n = n
  PROVE  NumberedTo(q \o (Missed(None, last, n) \o <<e>>), n)
<1>1. PICK a \in Int, b \in Int, none \in Int : a = last + 1 /\ b = n - 1 /\ none = None
  BY DEF None
<1>2. PICK d : d = Dummies(none, a, b)
  OBVIOUS
<1>3. d \in Seq(BuiltEvent)
  BY <1>1, <1>2, DummiesAre
<1>4. Len(d) = IF b >= a THEN b - a + 1 ELSE 0
  BY <1>1, <1>2, DummiesLen
<1>5. PICK k \in Nat : k = Len(d) /\ k = n - last - 1
  BY <1>1, <1>4
<1>6. \A i \in 1 .. k : d[i].n = last + i
  <2> SUFFICES ASSUME NEW i \in 1 .. k PROVE d[i].n = last + i
    OBVIOUS
  <2>1. i \in 1 .. (IF b >= a THEN b - a + 1 ELSE 0)
    BY <1>4, <1>5
  <2>2. Dummies(none, a, b)[i].n = a + i - 1
    BY <2>1 DEF Dummies, EventOf
  <2> QED  BY <1>1, <1>2, <2>2
<1>7. d = Missed(None, last, n)
  BY <1>1, <1>2 DEF Missed
<1>8. <<e>> \in Seq(BuiltEvent) /\ Len(<<e>>) = 1 /\ <<e>>[1] = e
  OBVIOUS
<1>9. PICK w \in Seq(BuiltEvent) : w = <<e>>
  BY <1>8
<1>10. PICK dw \in Seq(BuiltEvent) : dw = d \o w
  BY <1>3, ConcatProperties
<1>11. /\ Len(dw) = k + 1
       /\ \A i \in 1 .. k : dw[i] = d[i]
       /\ \A i \in k + 1 .. k + 1 : dw[i] = w[i - k]
  <2>1. Len(w) = 1
    BY <1>8, <1>9
  <2>2. /\ Len(dw) = Len(d) + Len(w)
        /\ \A i \in 1 .. Len(d) : dw[i] = d[i]
        /\ \A i \in Len(d) + 1 .. Len(d) + Len(w) : dw[i] = w[i - Len(d)]
    BY <1>3, <1>10, EventsConcat
  <2> QED  BY ONLY <1>5, <2>1, <2>2
<1>12. dw[k + 1] = e
  BY <1>8, <1>9, <1>11
<1>13. \A i \in 1 .. k + 1 : dw[i].n = last + i
  <2> SUFFICES ASSUME NEW i \in 1 .. k + 1 PROVE dw[i].n = last + i
    OBVIOUS
  <2>1. CASE i \in 1 .. k
    BY <1>6, <1>11, <2>1
  <2>2. CASE i = k + 1
    BY <1>5, <1>12, <2>2
  <2> QED  BY <2>1, <2>2
<1>14. PICK m \in Nat : m = Len(q)
  BY LenProperties
<1>15. PICK c : c = q \o dw
  OBVIOUS
<1>16. /\ Len(c) = m + (k + 1)
       /\ \A i \in 1 .. m : c[i] = q[i]
       /\ \A i \in m + 1 .. m + (k + 1) : c[i] = dw[i - m]
  <2>1. /\ Len(c) = Len(q) + Len(dw)
        /\ \A i \in 1 .. Len(q) : c[i] = q[i]
        /\ \A i \in Len(q) + 1 .. Len(q) + Len(dw) : c[i] = dw[i - Len(q)]
    BY <1>15, EventsConcat
  <2>2. Len(dw) = k + 1
    BY <1>11
  <2> QED  BY ONLY <1>14, <2>1, <2>2
<1>17. PICK f \in Int : f = FirstNumber
  BY BuilderAssumption DEF FirstNumber
<1>18. last = f + m - 1 /\ \A i \in 1 .. m : q[i].n = f + i - 1
  BY <1>14, <1>17 DEF NumberedTo
<1>19. n = f + Len(c) - 1
  BY <1>5, <1>16, <1>18
<1>20. \A i \in 1 .. Len(c) : c[i].n = f + i - 1
  <2> SUFFICES ASSUME NEW i \in 1 .. Len(c) PROVE c[i].n = f + i - 1
    OBVIOUS
  <2>1. CASE i \in 1 .. m
    BY <1>16, <1>18, <2>1
  <2>2. CASE i \notin 1 .. m
    <3>1. i \in m + 1 .. m + (k + 1) /\ i - m \in 1 .. k + 1
      BY <1>16, <2>2
    <3>2. c[i].n = last + (i - m)
      BY <1>13, <1>16, <3>1
    <3> QED  BY <1>18, <3>1, <3>2
  <2> QED  BY <2>1, <2>2
<1>21. NumberedTo(c, n)
  BY <1>17, <1>19, <1>20 DEF NumberedTo
<1> QED  BY <1>7, <1>9, <1>10, <1>15, <1>21

(* The cycles and triggers still to be built have numbers after the last one. *)
AheadIn(asic, ts, last, dumpAll) ==
  /\ mode = "ROC" => /\ \A r \in DOMAIN asic : last < r
                     /\ last = -1 \/ FrozenIn(last, dumpAll)
  /\ mode = "TRIGGERID" =>
       /\ last < nextTrig + TrigidOffset
       /\ \A r \in DOMAIN ts : r \in DOMAIN asic \/ ~FrozenIn(r, dumpAll) =>
            \A i \in 1 .. Len(ts[r].trigs) : last < ts[r].trigs[i].id + TrigidOffset

ByNumber == mode \in {"ROC", "TRIGGERID"} /\ dummies

NumbersInv ==
  ByNumber => /\ NumberedTo(queued, lastBuilt)
              /\ AheadIn(asicData, tsData, lastBuilt, phase = "ended")

LEMMA NumbersROC ==
  ASSUME mode = "ROC", dummies, hwRoc \in Nat, NEW s \in BuildState, NEW dumpAll \in BOOLEAN,
         MayBuild(s, dumpAll), DOMAIN s.asic \subseteq 0 .. hwRoc,
         NumberedTo(s.out, s.last), AheadIn(s.asic, s.ts, s.last, dumpAll)
  PROVE  LET t == BuildROCCycle(s)
         IN  NumberedTo(t.out, t.last) /\ AheadIn(t.asic, t.ts, t.last, dumpAll)
<1> DEFINE t == BuildROCCycle(s)
           roc == First(s.asic)
<1>1. /\ TakenOut(s, t, roc)
      /\ t.last = IF ~dummies THEN s.last ELSE IF s.last + 1 < roc THEN roc ELSE s.last + 1
      /\ \E e \in BuiltEvent :
           /\ t.out = s.out \o (Missed(None, s.last, roc) \o <<e>>)
           /\ e.roc = roc /\ e.bxid = None /\ e.n = roc
  BY BuildROCCycleIs DEF MayBuild
<1> HIDE DEF t
<1>2. PICK r \in Int : /\ r = roc /\ r \in DOMAIN s.asic /\ FrozenIn(r, dumpAll)
                       /\ \A x \in DOMAIN s.asic : r <= x
  <2>1. DOMAIN s.asic \in SUBSET Nat /\ DOMAIN s.asic # {}
    BY StateIs DEF MayBuild
  <2> QED  BY <2>1, FirstFrozen, MinIs DEF First
<1> HIDE DEF roc
<1>3. PICK l \in Int : l = s.last /\ l < r
  <2>1. s.last < r
    BY <1>2 DEF AheadIn
  <2> QED  BY <2>1, StateIs
<1>4. t.last = r
  BY <1>1, <1>2, <1>3
<1>5. PICK e \in BuiltEvent : t.out = s.out \o (Missed(None, l, r) \o <<e>>) /\ e.n = r
  BY <1>1, <1>2, <1>3
<1>6. NumberedTo(t.out, r)
  <2>1. s.out \in Seq(BuiltEvent) /\ NumberedTo(s.out, l)
    BY <1>3, StateIs
  <2> QED  BY <1>3, <1>5, <2>1, NumberedMore
<1>7. PICK d : d = DOMAIN s.asic \ {r}
  OBVIOUS
<1>8. t.asic = KeepOnly(s.asic, d)
  BY <1>1, <1>2, <1>7 DEF TakenOut
<1>9. DOMAIN t.asic = DOMAIN s.asic \cap d
  BY <1>8 DEF KeepOnly
<1>10. \A x \in DOMAIN t.asic : r < x
  <2>1. DOMAIN s.asic \in SUBSET Nat
    BY StateIs
  <2> QED  BY <1>2, <1>7, <1>9, <2>1
<1>11. AheadIn(t.asic, t.ts, r, dumpAll)
  BY <1>2, <1>10 DEF AheadIn
<1> QED  BY <1>4, <1>6, <1>11 DEF t

LEMMA BothMore == \A a, b, c \in Int : a < b => a + c < b + c
OBVIOUS

LEMMA BelowMore == \A r, a, b, d \in Int : a <= b /\ r < a - d => r < b - d
OBVIOUS

LEMMA BelowSum == \A l, a, b, c \in Int : a <= b /\ l < a + c => l < b + c
OBVIOUS

LEMMA NumbersTRIGID ==
  ASSUME mode = "TRIGGERID", dummies, hwRoc \in Nat, nextTrig \in Nat,
         NEW s \in BuildState, NEW dumpAll \in BOOLEAN,
         MayBuild(s, dumpAll), DOMAIN s.asic \subseteq 0 .. hwRoc,
         TriggersOk(s.ts, nextTrig, lastTime),
         NumberedTo(s.out, s.last), AheadIn(s.asic, s.ts, s.last, dumpAll)
  PROVE  LET t == BuildTRIGIDCycle(s)
         IN  NumberedTo(t.out, t.last) /\ AheadIn(t.asic, t.ts, t.last, dumpAll)
<1> DEFINE t == BuildTRIGIDCycle(s)
           trigs == At(s.ts, First(s.asic), NoTimes).trigs
<1>1. /\ TakenOut(s, t, First(s.asic))
      /\ trigs \in Seq(Trig)
      /\ \E inside \in Seq(Trig) : \E f :
           /\ TrigidLoop(s, First(s.asic), inside, f)
           /\ t.last = f[Len(inside)].last /\ t.out = f[Len(inside)].out
           /\ \E h, P : /\ Lists(h, P, Len(trigs)) /\ Len(h) = Len(inside)
                        /\ \A k \in 1 .. Len(h) : inside[k] = trigs[h[k]]
  BY BuildTRIGIDCycleIs DEF MayBuild
<1> HIDE DEF t
<1>2. PICK roc \in Nat : /\ roc = First(s.asic) /\ roc \in DOMAIN s.asic /\ FrozenIn(roc, dumpAll)
                         /\ \A x \in DOMAIN s.asic : roc <= x
  <2>1. DOMAIN s.asic \in SUBSET Nat /\ DOMAIN s.asic # {}
    BY StateIs DEF MayBuild
  <2> QED  BY <2>1, FirstFrozen, MinIs DEF First
<1>3. /\ roc \in DOMAIN s.ts => trigs = s.ts[roc].trigs /\ s.ts[roc] \in Times
      /\ roc \notin DOMAIN s.ts => Len(trigs) = 0
  BY <1>2, StateIs DEF At, NoTimes
<1>4. PICK m \in Nat : m = Len(trigs)
  BY <1>1, LenProperties
<1> HIDE DEF trigs
<1>5. PICK off \in Int, l \in Int : off = TrigidOffset /\ l = s.last
  BY StateIs, BuilderAssumption
<1>6. /\ \A i \in 1 .. m : trigs[i].id \in Nat /\ trigs[i].id < nextTrig /\ l < trigs[i].id + off
      /\ \A i, j \in 1 .. m : i < j => trigs[i].id < trigs[j].id
  <2>1. CASE roc \in DOMAIN s.ts
    <3>1. trigs = s.ts[roc].trigs /\ s.ts[roc] \in Times
      BY <1>3, <2>1
    <3>2. \A i \in 1 .. m : trigs[i].id \in Nat
      BY <1>4, <3>1, TimesIs
    <3>3. \A i, j \in 1 .. m : i < j => trigs[i].id < trigs[j].id
      BY <1>4, <3>1, TimesIs
    <3>4. \A i \in 1 .. m : trigs[i].id < nextTrig
      BY <1>4, <2>1, <3>1 DEF TriggersOk
    <3>5. \A i \in 1 .. m : l < trigs[i].id + off
      BY <1>2, <1>4, <1>5, <2>1, <3>1 DEF AheadIn
    <3> QED  BY <3>2, <3>3, <3>4, <3>5
  <2>2. CASE roc \notin DOMAIN s.ts
    BY <1>3, <1>4, <2>2
  <2> QED  BY <2>1, <2>2
<1>7. PICK inside \in Seq(Trig) : \E f :
           /\ TrigidLoop(s, roc, inside, f)
           /\ t.last = f[Len(inside)].last /\ t.out = f[Len(inside)].out
           /\ \E h, P : /\ Lists(h, P, m) /\ Len(h) = Len(inside)
                        /\ \A k \in 1 .. Len(h) : inside[k] = trigs[h[k]]
  BY <1>1, <1>2, <1>4
<1>8. PICK f :
           /\ TrigidLoop(s, roc, inside, f)
           /\ t.last = f[Len(inside)].last /\ t.out = f[Len(inside)].out
           /\ \E h, P : /\ Lists(h, P, m) /\ Len(h) = Len(inside)
                        /\ \A k \in 1 .. Len(h) : inside[k] = trigs[h[k]]
  BY <1>7
<1>9. PICK n \in Nat : n = Len(inside)
  BY LenProperties
<1>10. PICK h : \E P : /\ Lists(h, P, m) /\ Len(h) = n
                       /\ \A k \in 1 .. n : inside[k] = trigs[h[k]]
  BY <1>8, <1>9
<1>11. /\ \A k \in 1 .. n : h[k] \in 1 .. m /\ inside[k] = trigs[h[k]]
       /\ \A j, k \in 1 .. n : j < k => h[j] < h[k]
  BY <1>10 DEF Lists
<1>12. \A k \in 1 .. n : /\ inside[k].id \in Nat /\ inside[k].id < nextTrig
                         /\ l < inside[k].id + off
  BY <1>6, <1>11
<1>13. \A k \in 1 .. n : k - 1 \in 1 .. n => inside[k - 1].id < inside[k].id
  <2> SUFFICES ASSUME NEW k \in 1 .. n, k - 1 \in 1 .. n
               PROVE  inside[k - 1].id < inside[k].id
    OBVIOUS
  <2>1. k - 1 < k
    OBVIOUS
  <2>2. h[k - 1] < h[k] /\ h[k - 1] \in 1 .. m /\ h[k] \in 1 .. m
    BY <1>11, <2>1
  <2> QED  BY <1>6, <1>11, <2>2
<1>14. roc \in Nat /\ s.asic[roc] \in SUBSET Hit /\ s.out \in Seq(BuiltEvent) /\ None \in Int
  BY <1>2, StateIs DEF None
<1>15. PICK hits \in SUBSET Hit : hits = s.asic[roc]
  BY <1>14
<1>16. /\ f \in [0 .. n -> TrigidState] /\ f[0] = [last |-> s.last, out |-> s.out]
       /\ \A k \in 1 .. n : f[k] = EmitTrigger(roc, hits, f[k - 1], inside[k])
  BY <1>8, <1>9, <1>15 DEF TrigidLoop
<1> DEFINE S == {k \in 0 .. n : /\ NumberedTo(f[k].out, f[k].last)
                                /\ f[k].last = IF k = 0 THEN l ELSE inside[k].id + off}
<1>17. 0 \in S
  BY <1>5, <1>16
<1>18. ASSUME NEW k \in 1 .. n, k - 1 \in S
       PROVE  k \in S
  <2>1. PICK b \in TrigidState : b = f[k - 1]
    BY <1>16
  <2>2. PICK u \in Trig : u = inside[k]
    BY <1>9, ElementOfSeq
  <2>3. TriggerEmitted(roc, hits, b, u, EmitTrigger(roc, hits, b, u))
    BY EmitTriggerIs
  <2>4. PICK c : c = f[k]
    OBVIOUS
  <2>5. TriggerEmitted(roc, hits, b, u, c)
    BY <1>16, <2>1, <2>2, <2>3, <2>4
  <2>61. PICK ui \in Nat : ui = u.id
    BY DEF Trig
  <2>6. PICK num \in Int : num = u.id + TrigidOffset /\ num = ui + off
    BY <1>5, <2>61
  <2>7. PICK bl \in Int : bl = b.last /\ b.out \in Seq(BuiltEvent)
    BY DEF TrigidState
  <2>8. NumberedTo(b.out, bl) /\ bl = IF k - 1 = 0 THEN l ELSE inside[k - 1].id + off
    BY <1>18, <2>1, <2>7
  <2>9. bl < num
    <3>0. inside[k].id = ui
      BY <2>2, <2>61
    <3>1. CASE k - 1 = 0
      <4>1. l < ui + off
        BY <1>12, <3>0
      <4>2. bl = l
        BY <2>8, <3>1
      <4> QED  BY <2>6, <4>1, <4>2
    <3>2. CASE k - 1 # 0
      <4>1. k - 1 \in 1 .. n
        BY <3>2
      <4>2. PICK pi \in Nat : pi = inside[k - 1].id /\ pi < ui
        BY <1>12, <1>13, <3>0, <4>1
      <4>3. bl = pi + off
        BY <2>8, <3>2, <4>2
      <4> QED  BY <1>5, <2>6, <2>7, <2>61, <4>2, <4>3
    <3> QED  BY <3>1, <3>2
  <2>10. c.last = num
    <3>1. c.last = IF ~dummies THEN bl ELSE IF bl + 1 < num THEN num ELSE bl + 1
      BY <2>5, <2>6, <2>7 DEF TriggerEmitted
    <3> QED  BY <2>9, <3>1
  <2>11. PICK e \in BuiltEvent : c.out = b.out \o (Missed(None, bl, num) \o <<e>>) /\ e.n = num
    BY <2>5, <2>6, <2>7 DEF TriggerEmitted
  <2>12. NumberedTo(c.out, num)
    BY <2>7, <2>8, <2>9, <2>11, NumberedMore
  <2> QED  BY <1>5, <2>2, <2>4, <2>6, <2>10, <2>12
<1> HIDE DEF S
<1>19. n \in S
  <2>1. 0 .. n \subseteq S
    BY <1>17, <1>18, UpToInduction
  <2> QED  BY <2>1
<1>20. /\ NumberedTo(t.out, t.last)
       /\ t.last = IF n = 0 THEN l ELSE inside[n].id + off
  BY <1>8, <1>9, <1>19 DEF S
<1>21. PICK d, g : d = DOMAIN s.asic \ {roc} /\ g = DOMAIN s.ts \ {roc}
  OBVIOUS
<1>22. t.asic = KeepOnly(s.asic, d) /\ t.ts = KeepOnly(s.ts, g)
  BY <1>1, <1>2, <1>21 DEF TakenOut
<1>23. /\ DOMAIN t.asic = DOMAIN s.asic \cap d /\ DOMAIN t.ts = DOMAIN s.ts \cap g
       /\ \A r \in DOMAIN t.ts : t.ts[r] = s.ts[r]
  BY <1>22 DEF KeepOnly
<1>24. l < nextTrig + off
  BY <1>5 DEF AheadIn
<1>25. ASSUME NEW r \in DOMAIN t.ts, r \in DOMAIN t.asic \/ ~FrozenIn(r, dumpAll),
              NEW i \in 1 .. Len(t.ts[r].trigs)
       PROVE  t.last < t.ts[r].trigs[i].id + off
  <2>1. PICK q \in Nat : q = r /\ q \in DOMAIN s.ts
    BY <1>23, StateIs
  <2>2. q # roc /\ t.ts[r] = s.ts[q] /\ s.ts[q] \in Times
    BY <1>21, <1>23, <2>1, StateIs
  <2>3. roc < q
    <3>1. CASE r \in DOMAIN t.asic
      BY <1>2, <1>23, <2>1, <2>2, <3>1
    <3>2. CASE ~FrozenIn(r, dumpAll)
      <4>1. PICK x \in Nat, y \in Nat : x = hwRoc /\ y = DataLag
        BY BuilderAssumption
      <4>2. ~(q < x - y) /\ roc < x - y
        BY <1>2, <2>1, <3>2, <4>1 DEF FrozenIn
      <4> QED  BY <4>2
    <3> QED  BY <1>25, <3>1, <3>2
  <2>4. PICK z \in Nat : z = t.ts[r].trigs[i].id
    BY <2>2, TimesIs
  <2>5. CASE n = 0
    <3>1. r \in DOMAIN s.asic \/ ~FrozenIn(r, dumpAll)
      BY <1>23, <1>25
    <3>2. s.last < s.ts[r].trigs[i].id + TrigidOffset
      BY <2>1, <2>2, <3>1 DEF AheadIn
    <3>3. l < z + off
      BY <1>5, <2>1, <2>2, <2>4, <3>2
    <3>4. t.last = l
      BY <1>20, <2>5
    <3> QED  BY <2>4, <3>3, <3>4
  <2>6. CASE n # 0
    <3>1. n \in 1 .. n
      BY <2>6
    <3>2. PICK j \in 1 .. m : j = h[n] /\ inside[n] = trigs[j]
      BY <1>11, <3>1
    <3>3. roc \in DOMAIN s.ts /\ trigs = s.ts[roc].trigs
      BY <1>3, <1>4, <3>2
    <3>4. trigs[j].id < z
      BY <1>4, <2>1, <2>2, <2>3, <2>4, <3>2, <3>3 DEF TriggersOk
    <3>5. PICK y \in Nat : y = trigs[j].id
      BY <1>6, <3>2
    <3>41. y < z
      BY <3>4, <3>5
    <3>6. t.last = y + off
      BY <1>20, <2>6, <3>2, <3>5
    <3>7. y \in Int /\ z \in Int /\ off \in Int
      BY <1>5, <2>4, <3>5
    <3>8. y + off < z + off
      BY <3>41, <3>7, BothMore
    <3> QED  BY <2>4, <3>6, <3>8
  <2> QED  BY <2>5, <2>6
<1>26. t.last < nextTrig + off
  <2>1. CASE n = 0
    BY <1>20, <1>24, <2>1
  <2>2. CASE n # 0
    <3>1. n \in 1 .. n
      BY <2>2
    <3>2. inside[n].id < nextTrig /\ inside[n].id \in Nat
      BY <1>12, <3>1
    <3> QED  BY <1>20, <2>2, <3>2
  <2> QED  BY <2>1, <2>2
<1>27. AheadIn(t.asic, t.ts, t.last, dumpAll)
  BY <1>5, <1>25, <1>26 DEF AheadIn
<1> QED  BY <1>20, <1>27 DEF t

LEMMA AheadWhenEnded ==
  \A asic, ts, last : AheadIn(asic, ts, last, FALSE) => AheadIn(asic, ts, last, TRUE)
BY DEF AheadIn, FrozenIn

LEMMA NumbersStepBuild ==
  ASSUME MapsInv, NumbersInv, Running, NEW dumpAll \in BOOLEAN, buildEvents(dumpAll),
         UNCHANGED <<config, minLast, hwRoc, nextTrig>>,
         phase' = IF dumpAll THEN "ended" ELSE phase
  PROVE  NumbersInv'
<1> SUFFICES ASSUME ByNumber
             PROVE  (NumberedTo(queued, lastBuilt) /\ AheadIn(asicData, tsData, lastBuilt, phase = "ended"))'
  BY DEF NumbersInv, ByNumber, config
<1> DEFINE V == {s \in BuildState : /\ Shrinks(Current, s) /\ NumberedTo(s.out, s.last)
                                    /\ AheadIn(s.asic, s.ts, s.last, dumpAll)}
<1>0. mode \in {"ROC", "TRIGGERID"} /\ dummies
  BY DEF ByNumber
<1>1. Current \in V
  <2>1. NumberedTo(queued, lastBuilt) /\ AheadIn(asicData, tsData, lastBuilt, FALSE)
    BY DEF NumbersInv, Running
  <2>2. AheadIn(asicData, tsData, lastBuilt, dumpAll)
    BY <2>1, AheadWhenEnded
  <2> QED  BY <2>1, <2>2, CurrentIs, ShrinksRefl
<1>2. ASSUME NEW s \in BuildState, Shrinks(Current, s), NumberedTo(s.out, s.last),
             AheadIn(s.asic, s.ts, s.last, dumpAll), MayBuild(s, dumpAll)
      PROVE  BuildCycle(s) \in V
  <2>1. /\ BuildCycle(s) \in BuildState /\ Shrinks(s, BuildCycle(s))
    BY <1>2, CurrentIs, CycleBuilds DEF MayBuild, BuildsCycle
  <2>2. Shrinks(Current, BuildCycle(s))
    BY <1>2, <2>1, ShrinksFurther
  <2>3. /\ hwRoc \in Nat /\ nextTrig \in Nat /\ DOMAIN asicData \subseteq 0 .. hwRoc
        /\ TriggersOk(tsData, nextTrig, lastTime)
    BY DEF MapsInv, BuilderTypeOK, CyclesBegun
  <2>4. /\ DOMAIN s.asic \subseteq 0 .. hwRoc
        /\ DOMAIN s.ts \subseteq DOMAIN tsData /\ \A r \in DOMAIN s.ts : s.ts[r] = tsData[r]
    BY <1>2, <2>3, CurrentIs DEF Shrinks
  <2>5. TriggersOk(s.ts, nextTrig, lastTime)
    BY <2>3, <2>4, TriggersShrink
  <2>6. CASE mode = "ROC"
    <3>1. /\ NumberedTo(BuildROCCycle(s).out, BuildROCCycle(s).last)
          /\ AheadIn(BuildROCCycle(s).asic, BuildROCCycle(s).ts, BuildROCCycle(s).last, dumpAll)
      BY <1>0, <1>2, <2>3, <2>4, <2>6, NumbersROC
    <3>2. BuildCycle(s) = BuildROCCycle(s)
      BY <2>6 DEF BuildCycle
    <3> QED  BY <2>1, <2>2, <3>1, <3>2
  <2>7. CASE mode = "TRIGGERID"
    <3>1. /\ NumberedTo(BuildTRIGIDCycle(s).out, BuildTRIGIDCycle(s).last)
          /\ AheadIn(BuildTRIGIDCycle(s).asic, BuildTRIGIDCycle(s).ts,
                     BuildTRIGIDCycle(s).last, dumpAll)
      BY <1>0, <1>2, <2>3, <2>4, <2>5, <2>7, NumbersTRIGID
    <3>2. BuildCycle(s) = BuildTRIGIDCycle(s)
      BY <2>7 DEF BuildCycle
    <3> QED  BY <2>1, <2>2, <3>1, <3>2
  <2> QED  BY <1>0, <2>6, <2>7
<1>3. V \in SUBSET BuildState /\ \A s \in V : MayBuild(s, dumpAll) => BuildCycle(s) \in V
  BY <1>2
<1> HIDE DEF V
<1>4. PICK t \in V : Becomes(t)
  BY <1>1, <1>3, CurrentIs, BuildEventsKeep
<1>5. NumberedTo(queued', lastBuilt') /\ AheadIn(asicData', tsData', lastBuilt', dumpAll)
  BY <1>4 DEF V, Becomes
<1>6. UNCHANGED <<mode, dummies, hwRoc, nextTrig>>
  BY DEF config
<1>7. (phase' = "ended") = dumpAll
  BY DEF Running
<1> QED  BY <1>5, <1>6, <1>7 DEF NumberedTo, FirstNumber, AheadIn, FrozenIn

(* A frozen cycle stays frozen. *)
LEMMA FrozenStays ==
  ASSUME hwRoc \in Nat, hwRoc' \in Nat, hwRoc <= hwRoc', phase = "ended" => phase' = "ended"
  PROVE  \A r \in Int : FrozenIn(r, phase = "ended") => FrozenIn(r, phase = "ended")'
<1>1. PICK a \in Nat, b \in Nat, d \in Nat : a = hwRoc /\ b = hwRoc' /\ d = DataLag /\ a <= b
  BY BuilderAssumption
<1>2. ASSUME NEW r \in Int
      PROVE  FrozenIn(r, phase = "ended") => FrozenIn(r, phase = "ended")'
  <2>1. r \in Int /\ a \in Int /\ b \in Int /\ d \in Int
    BY <1>1
  <2>2. r < a - d => r < b - d
    BY <1>1, <2>1, BelowMore
  <2> QED  BY <1>1, <2>2 DEF FrozenIn
<1> QED  BY <1>2

(* What leaves the maps and the events alone. *)
LEMMA NumbersKept ==
  ASSUME MapsInv, NumbersInv, hwRoc' \in Nat, hwRoc' >= hwRoc,
         UNCHANGED <<mode, dummies, asicData, tsData, lastBuilt, queued, nextTrig>>,
         (phase' # "ended" /\ phase # "ended") \/ UNCHANGED <<phase, hwRoc>>
  PROVE  NumbersInv'
<1> SUFFICES ASSUME ByNumber
             PROVE  (NumberedTo(queued, lastBuilt) /\ AheadIn(asicData, tsData, lastBuilt, phase = "ended"))'
  BY DEF NumbersInv, ByNumber
<1>1. /\ NumberedTo(queued, lastBuilt) /\ AheadIn(asicData, tsData, lastBuilt, phase = "ended")
      /\ lastBuilt \in Int /\ tsData \in Maps(Times)
  BY DEF NumbersInv, MapsInv, BuilderTypeOK
<1>2. hwRoc \in Nat /\ hwRoc <= hwRoc' /\ (phase = "ended" => phase' = "ended")
  BY DEF MapsInv, BuilderTypeOK
<1>3. \A r \in Int : FrozenIn(r, phase = "ended") => FrozenIn(r, phase = "ended")'
  BY <1>2, FrozenStays
<1>4. DOMAIN tsData \subseteq Int
  BY <1>1, MapIs
<1>5. NumberedTo(queued, lastBuilt)'
  BY <1>1 DEF NumberedTo, FirstNumber
<1>6. mode = "ROC" => lastBuilt = -1 \/ FrozenIn(lastBuilt, phase = "ended")'
  BY <1>1, <1>3 DEF AheadIn
<1>7. \A r \in DOMAIN tsData :
        ~FrozenIn(r, phase = "ended")' => ~FrozenIn(r, phase = "ended")
  BY <1>3, <1>4
<1>8. AheadIn(asicData, tsData, lastBuilt, phase = "ended")'
  BY <1>1, <1>6, <1>7 DEF AheadIn
<1> QED  BY <1>5, <1>8

LEMMA NumbersStepTimes ==
  ASSUME MapsInv, NumbersInv, TimestampPacket, Running
  PROVE  NumbersInv'
<1>1. /\ PacketFiled(tsData, tsData') /\ nextTrig' \in Nat /\ lastTime' \in Int /\ nextTrig <= nextTrig'
      /\ phase' # "ended" /\ phase # "ended"
      /\ UNCHANGED <<mode, dummies, asicData, lastBuilt, queued, hwRoc>>
  BY DEF TimestampPacket, config, Running
<1> SUFFICES ASSUME ByNumber
             PROVE  (NumberedTo(queued, lastBuilt) /\ AheadIn(asicData, tsData, lastBuilt, phase = "ended"))'
  BY <1>1 DEF NumbersInv, ByNumber
<1>2. /\ NumberedTo(queued, lastBuilt) /\ AheadIn(asicData, tsData, lastBuilt, FALSE)
      /\ lastBuilt \in Int /\ tsData \in Maps(Times) /\ hwRoc \in Nat /\ nextTrig \in Nat
  BY <1>1 DEF NumbersInv, MapsInv, BuilderTypeOK
<1>3. PICK w : w = tsData'
  OBVIOUS
<1>4. PacketFiled(tsData, w)
  BY <1>1, <1>3
<1>5. \A r \in DOMAIN w : \A i \in 1 .. Len(w[r].trigs) :
         \/ r \in DOMAIN tsData /\ i \in 1 .. Len(tsData[r].trigs) /\ w[r].trigs[i] = tsData[r].trigs[i]
         \/ /\ r = hwRoc /\ nextTrig' = nextTrig + 1
            /\ w[r].trigs[i].id = nextTrig /\ w[r].trigs[i].ts = lastTime'
  BY <1>1, <1>2, <1>4, FiledTrigs
<1>6. NumberedTo(queued, lastBuilt)'
  BY <1>1, <1>2 DEF NumberedTo, FirstNumber
<1>7. CASE mode = "ROC"
  <2>1. /\ \A r \in DOMAIN asicData : lastBuilt < r
        /\ lastBuilt = -1 \/ FrozenIn(lastBuilt, FALSE)
    BY <1>2, <1>7 DEF AheadIn
  <2>2. FrozenIn(lastBuilt, FALSE) => FrozenIn(lastBuilt, phase = "ended")'
    BY <1>1 DEF FrozenIn
  <2> QED  BY <1>1, <1>6, <1>7, <2>1, <2>2 DEF AheadIn
<1>8. CASE mode = "TRIGGERID"
  <2>1. PICK a \in Nat, b \in Nat, off \in Int, l \in Int :
          a = nextTrig /\ b = nextTrig' /\ off = TrigidOffset /\ l = lastBuilt /\ a <= b
    BY <1>1, <1>2, BuilderAssumption
  <2>2. l < a + off
    BY <1>2, <1>8, <2>1 DEF AheadIn
  <2>31. l \in Int /\ a \in Int /\ b \in Int /\ off \in Int
    BY <2>1
  <2>3. l < b + off
    BY <2>1, <2>2, <2>31, BelowSum
  <2>4. ASSUME NEW r \in DOMAIN w, r \in DOMAIN asicData \/ ~FrozenIn(r, FALSE),
               NEW i \in 1 .. Len(w[r].trigs)
        PROVE  lastBuilt < w[r].trigs[i].id + TrigidOffset
    <3>1. CASE r \in DOMAIN tsData /\ i \in 1 .. Len(tsData[r].trigs)
               /\ w[r].trigs[i] = tsData[r].trigs[i]
      BY <1>2, <1>8, <2>4, <3>1 DEF AheadIn
    <3>2. CASE w[r].trigs[i].id = nextTrig
      BY <2>1, <2>2, <3>2
    <3> QED  BY <1>5, <3>1, <3>2
  <2>5. \A r \in DOMAIN w : r \in DOMAIN asicData \/ ~FrozenIn(r, phase = "ended")' =>
          \A i \in 1 .. Len(w[r].trigs) : lastBuilt < w[r].trigs[i].id + TrigidOffset
    <3>1. \A r : ~FrozenIn(r, phase = "ended")' => ~FrozenIn(r, FALSE)
      BY <1>1 DEF FrozenIn
    <3> QED  BY <2>4, <3>1
  <2>6. lastBuilt' < nextTrig' + TrigidOffset
    BY <1>1, <2>1, <2>3
  <2> QED  BY <1>1, <1>3, <1>6, <1>8, <2>5, <2>6 DEF AheadIn
<1> QED  BY <1>7, <1>8 DEF ByNumber

LEMMA NumbersStepData ==
  ASSUME MapsInv, NumbersInv, DataPacket
  PROVE  NumbersInv'
<1>1. PICK roc \in Nat, new \in Hits : \E last \in Nat : DataStored(roc, new, last)
  BY DataStoredIs
<1>2. PICK last \in Nat : DataStored(roc, new, last)
  BY <1>1
<1>3. /\ hwRoc - DataLag <= roc /\ phase # "ended"
      /\ asicData' = Put(asicData, roc, At(asicData, roc, {}) \cup new)
      /\ UNCHANGED <<mode, dummies, tsData, lastBuilt, queued, hwRoc, phase, nextTrig>>
  BY <1>2 DEF DataStored, DataPacket, config
<1> SUFFICES ASSUME ByNumber
             PROVE  (NumberedTo(queued, lastBuilt) /\ AheadIn(asicData, tsData, lastBuilt, phase = "ended"))'
  BY <1>3 DEF NumbersInv, ByNumber
<1>4. /\ NumberedTo(queued, lastBuilt) /\ AheadIn(asicData, tsData, lastBuilt, FALSE)
      /\ lastBuilt \in Int /\ hwRoc \in Nat /\ DataLag \in Nat
  BY <1>3, BuilderAssumption DEF NumbersInv, MapsInv, BuilderTypeOK
<1>5. PICK w : w = asicData'
  OBVIOUS
<1>6. DOMAIN w = DOMAIN asicData \cup {roc}
  BY <1>3, <1>5 DEF Put
<1>7. PICK l \in Int, a \in Nat, d \in Nat : l = lastBuilt /\ a = hwRoc /\ d = DataLag /\ a - d <= roc
  BY <1>3, <1>4
<1>8. ~FrozenIn(roc, FALSE)
  BY <1>7 DEF FrozenIn
<1>9. NumberedTo(queued, lastBuilt)'
  BY <1>3, <1>4 DEF NumberedTo, FirstNumber
<1>10. CASE mode = "ROC"
  <2>1. /\ \A r \in DOMAIN asicData : lastBuilt < r
        /\ l = -1 \/ l < a - d
    BY <1>4, <1>7, <1>10 DEF AheadIn, FrozenIn
  <2>2. l < roc
    BY ONLY <1>7, <2>1
  <2>3. \A r \in DOMAIN w : lastBuilt < r
    BY <1>6, <1>7, <2>1, <2>2
  <2>4. lastBuilt = -1 \/ FrozenIn(lastBuilt, phase = "ended")'
    BY <1>3, <1>7, <2>1 DEF FrozenIn
  <2> QED  BY <1>3, <1>5, <1>9, <1>10, <2>3, <2>4 DEF AheadIn
<1>11. CASE mode = "TRIGGERID"
  <2>1. \A r \in DOMAIN tsData : r \in DOMAIN w \/ ~FrozenIn(r, FALSE) =>
            \A i \in 1 .. Len(tsData[r].trigs) : lastBuilt < tsData[r].trigs[i].id + TrigidOffset
    BY <1>4, <1>6, <1>8, <1>11 DEF AheadIn
  <2>2. lastBuilt < nextTrig + TrigidOffset
    BY <1>4, <1>11 DEF AheadIn
  <2>3. \A r : FrozenIn(r, FALSE) <=> FrozenIn(r, phase = "ended")'
    BY <1>3 DEF FrozenIn
  <2> QED  BY <1>3, <1>5, <1>9, <1>11, <2>1, <2>2, <2>3 DEF AheadIn
<1> QED  BY <1>10, <1>11 DEF ByNumber

LEMMA NumbersNext ==
  MapsInv /\ NumbersInv /\ [BuilderNext]_builderVars => NumbersInv'
<1> SUFFICES ASSUME MapsInv, NumbersInv, [BuilderNext]_builderVars PROVE NumbersInv'
  OBVIOUS
<1>0. hwRoc \in Nat
  BY DEF MapsInv, BuilderTypeOK
<1>1. CASE StartPacket
  BY <1>1, StartFiled, NumbersStepTimes DEF StartPacket
<1>2. CASE StopPacket
  BY <1>2, StopFiled, NumbersStepTimes DEF StopPacket
<1>3. CASE TriggerPacket
  BY <1>3, TriggerFiled, NumbersStepTimes DEF TriggerPacket
<1>4. CASE NextCycle
  <2>1. /\ UNCHANGED <<mode, dummies, asicData, tsData, lastBuilt, queued, nextTrig>>
        /\ phase # "ended" /\ phase' # "ended" /\ hwRoc' = hwRoc + 1
    BY <1>4 DEF NextCycle, config, maps, Running
  <2>2. hwRoc' \in Nat /\ hwRoc' >= hwRoc
    BY <1>0, <2>1
  <2> QED  BY <2>1, <2>2, NumbersKept
<1>5. CASE DataPacket
  BY <1>5, NumbersStepData
<1>6. CASE EndOfRead
  <2>1. PICK d \in BOOLEAN : d = FALSE
    OBVIOUS
  <2>2. /\ buildEvents(d) /\ Running
        /\ UNCHANGED <<config, minLast, hwRoc, phase, nextTrig>>
    BY <1>6, <2>1 DEF EndOfRead, lda
  <2>3. phase' = IF d THEN "ended" ELSE phase
    BY <2>1, <2>2
  <2> QED  BY <2>2, <2>3, NumbersStepBuild
<1>7. CASE RunEnds
  <2>1. PICK d \in BOOLEAN : d = TRUE
    OBVIOUS
  <2>2. /\ buildEvents(d) /\ Running /\ phase' = "ended"
        /\ UNCHANGED <<config, minLast, hwRoc, nextTrig>>
    BY <1>7, <2>1 DEF RunEnds
  <2>3. phase' = IF d THEN "ended" ELSE phase
    BY <2>1, <2>2
  <2> QED  BY <2>2, <2>3, NumbersStepBuild
<1>8. CASE UNCHANGED builderVars
  <2>1. UNCHANGED <<mode, dummies, asicData, tsData, lastBuilt, queued, nextTrig, phase, hwRoc>>
    BY <1>8 DEF builderVars, config, maps, lda
  <2>2. hwRoc' \in Nat /\ hwRoc' >= hwRoc
    BY <1>0, <2>1
  <2> QED  BY <2>1, <2>2, NumbersKept
<1> QED  BY <1>1, <1>2, <1>3, <1>4, <1>5, <1>6, <1>7, <1>8 DEF BuilderNext

LEMMA NumbersInit ==
  ASSUME GenerateFrom <= TrigidOffset
  PROVE  BuilderInit => NumbersInv
<1> SUFFICES ASSUME BuilderInit, ByNumber
             PROVE  NumberedTo(queued, lastBuilt) /\ AheadIn(asicData, tsData, lastBuilt, phase = "ended")
  BY DEF NumbersInv
<1>1. /\ lastBuilt = IF mode = "TRIGGERID" THEN GenerateFrom - 1 ELSE -1
      /\ queued = <<>> /\ nextTrig = 0 /\ DOMAIN asicData = {} /\ DOMAIN tsData = {}
  BY DEF BuilderInit, EmptyMap, ByNumber
<1>2. PICK g \in Int, off \in Int, z \in Nat :
        g = GenerateFrom /\ off = TrigidOffset /\ z = 0 /\ g <= off
  BY BuilderAssumption
<1>3. Len(queued) = z
  BY <1>1, <1>2
<1>4. CASE mode = "ROC"
  <2>1. NumberedTo(queued, lastBuilt)
    BY <1>1, <1>2, <1>3, <1>4 DEF NumberedTo, FirstNumber
  <2>2. AheadIn(asicData, tsData, lastBuilt, phase = "ended")
    BY <1>1, <1>4 DEF AheadIn
  <2> QED  BY <2>1, <2>2
<1>5. CASE mode = "TRIGGERID"
  <2>1. NumberedTo(queued, lastBuilt)
    BY <1>1, <1>2, <1>3, <1>5 DEF NumberedTo, FirstNumber
  <2>2. lastBuilt < nextTrig + TrigidOffset
    BY <1>1, <1>2, <1>5
  <2>3. AheadIn(asicData, tsData, lastBuilt, phase = "ended")
    BY <1>1, <1>5, <2>2 DEF AheadIn
  <2> QED  BY <2>1, <2>3
<1> QED  BY <1>4, <1>5 DEF ByNumber

(* UninterruptedByRocOrTrigger: with dummy packets, what is built by ROC or by
   trigger is numbered without a gap from the configured number on, whatever is
   lost, provided no trigger has a number before that one. *)
THEOREM NumbersUninterrupted ==
  ASSUME GenerateFrom <= TrigidOffset
  PROVE  BuilderSpec => []UninterruptedByRocOrTrigger
<1>1. MapsInv /\ NumbersInv => UninterruptedByRocOrTrigger
  <2> SUFFICES ASSUME MapsInv, NumbersInv, mode \in {"ROC", "TRIGGERID"}, dummies
               PROVE  /\ \A i \in 1 .. Len(queued) - 1 : queued[i + 1].n = queued[i].n + 1
                      /\ queued # <<>> =>
                           queued[1].n = IF mode = "ROC" THEN 0 ELSE GenerateFrom
    BY DEF UninterruptedByRocOrTrigger, Uninterrupted
  <2>1. PICK f \in Int : f = FirstNumber
    BY BuilderAssumption DEF FirstNumber
  <2>2. PICK m \in Nat : m = Len(queued)
    BY LenProperties DEF MapsInv, BuilderTypeOK
  <2>3. \A i \in 1 .. m : queued[i].n = f + i - 1
    BY <2>1, <2>2 DEF NumbersInv, ByNumber, NumberedTo
  <2>4. ASSUME NEW i \in 1 .. m - 1
        PROVE  queued[i + 1].n = queued[i].n + 1
    <3>1. i \in 1 .. m /\ i + 1 \in 1 .. m
      BY <2>2
    <3>2. queued[i].n = f + i - 1 /\ queued[i + 1].n = f + (i + 1) - 1
      BY <2>3, <3>1
    <3> QED  BY <2>1, <3>2
  <2>5. ASSUME queued # <<>>
        PROVE  queued[1].n = f
    <3>1. m # 0
      BY <2>2, <2>5, EmptySeq DEF MapsInv, BuilderTypeOK
    <3>2. 1 \in 1 .. m
      BY <2>2, <3>1
    <3>3. queued[1].n = f + 1 - 1
      BY <2>3, <3>2
    <3> QED  BY <2>1, <3>3
  <2> QED  BY <2>1, <2>2, <2>4, <2>5 DEF FirstNumber
<1> QED  BY <1>1, MapsAlways, NumbersInit, NumbersNext, PTL DEF BuilderSpec
-----------------------------------------------------------------------------
(* The order of the events: each may precede the ones behind it, and has its
   triggers in their order. *)
Rising(trigs) == \A k, l \in 1 .. Len(trigs) : k < l => trigs[k] < trigs[l]

Ordered(q) ==
  \A j \in 1 .. Len(q) : /\ \A i \in 1 .. j - 1 : MayPrecede(q[i], q[j])
                         /\ Rising(q[j].trigs)

(* The cycles that still are to be built. *)
Pending(asic, ts) == IF mode = "BXID_VALIDATED" THEN DOMAIN ts ELSE DOMAIN asic

(* An event is of a frozen cycle before all of those. *)
OfEarlierCycle(e, due, dumpAll) ==
  e.kind # "dummy" => FrozenIn(e.roc, dumpAll) /\ \A r \in due : e.roc < r

(* Its triggers are before all that may still be built. *)
OfEarlierTriggers(e, due, ts, dumpAll) ==
  \A a \in Range(e.trigs) :
    /\ a < nextTrig
    /\ \A r \in DOMAIN ts : r \in due \/ ~FrozenIn(r, dumpAll) =>
         \A i \in 1 .. Len(ts[r].trigs) : a < ts[r].trigs[i].id

EarlierIn(q, asic, ts, dumpAll) ==
  \A i \in 1 .. Len(q) :
    /\ OfEarlierCycle(q[i], Pending(asic, ts), dumpAll)
    /\ OfEarlierTriggers(q[i], Pending(asic, ts), ts, dumpAll)

OrderInv == Ordered(queued) /\ EarlierIn(queued, asicData, tsData, phase = "ended")

LEMMA RangeIs ==
  ASSUME NEW T, NEW q \in Seq(T)
  PROVE  /\ \A x : x \in Range(q) <=> \E i \in 1 .. Len(q) : x = q[i]
         /\ Range(q) \subseteq T
<1>1. DOMAIN q = 1 .. Len(q) /\ \A i \in 1 .. Len(q) : q[i] \in T
  BY LenProperties, ElementOfSeq
<1> QED  BY <1>1 DEF Range

(* Dummies have no order. *)
LEMMA DummiesPrecede ==
  ASSUME NEW e \in DummyEvent
  PROVE  /\ Range(e.trigs) = {} /\ Rising(e.trigs) /\ e.kind = "dummy"
         /\ \A d : MayPrecede(d, e) /\ MayPrecede(e, d)
<1>1. e.kind = "dummy" /\ e.trigs = <<>>
  BY DEF DummyEvent
<1>2. Range(<<>>) = {} /\ Len(<<>>) = 0
  BY DEF Range
<1>3. Rising(e.trigs)
  BY <1>1, <1>2 DEF Rising
<1> QED  BY <1>1, <1>2, <1>3 DEF MayPrecede

LEMMA OrderedConcat ==
  ASSUME NEW a \in Seq(BuiltEvent), NEW b \in Seq(BuiltEvent), Ordered(a), Ordered(b),
         \A i \in 1 .. Len(a), j \in 1 .. Len(b) : MayPrecede(a[i], b[j])
  PROVE  a \o b \in Seq(BuiltEvent) /\ Ordered(a \o b)
<1>1. PICK m \in Nat, n \in Nat : m = Len(a) /\ n = Len(b)
  BY LenProperties
<1>2. PICK c : c = a \o b
  OBVIOUS
<1>3. /\ c \in Seq(BuiltEvent) /\ Len(c) = m + n
      /\ \A i \in 1 .. m : c[i] = a[i]
      /\ \A i \in m + 1 .. m + n : c[i] = b[i - m]
  BY <1>1, <1>2, EventsConcat
<1>4. ASSUME NEW j \in 1 .. m + n
      PROVE  (\A i \in 1 .. j - 1 : MayPrecede(c[i], c[j])) /\ Rising(c[j].trigs)
  <2>1. CASE j \in 1 .. m
    <3>1. c[j] = a[j] /\ \A i \in 1 .. j - 1 : i \in 1 .. m /\ c[i] = a[i]
      BY <1>3, <2>1
    <3> QED  BY <1>1, <2>1, <3>1 DEF Ordered
  <2>2. CASE j \notin 1 .. m
    <3>1. PICK k \in 1 .. n : k = j - m /\ c[j] = b[k]
      <4>1. j \in m + 1 .. m + n /\ j - m \in 1 .. n
        BY <2>2
      <4> QED  BY <1>3, <4>1
    <3>2. ASSUME NEW i \in 1 .. j - 1
          PROVE  MayPrecede(c[i], c[j])
      <4>1. CASE i \in 1 .. m
        BY <1>1, <1>3, <3>1, <4>1
      <4>2. CASE i \notin 1 .. m
        <5>1. i \in m + 1 .. m + n /\ i - m \in 1 .. k - 1
          BY <3>1, <4>2
        <5>2. c[i] = b[i - m]
          BY <1>3, <5>1
        <5> QED  BY <1>1, <3>1, <5>1, <5>2 DEF Ordered
      <4> QED  BY <4>1, <4>2
    <3> QED  BY <1>1, <3>1, <3>2 DEF Ordered
  <2> QED  BY <2>1, <2>2
<1> QED  BY <1>2, <1>3, <1>4 DEF Ordered

(* Each is a dummy, or the event. *)
OnlyEvent(w, e) ==
  w \in Seq(BuiltEvent) /\ \A i \in 1 .. Len(w) : w[i] \in DummyEvent \/ w[i] = e

LEMMA MissedAndEventEach ==
  ASSUME NEW e \in BuiltEvent, NEW roc \in Int, NEW last \in Int, NEW n \in Int
  PROVE  OnlyEvent(Missed(roc, last, n) \o <<e>>, e)
<1> DEFINE E == DummyEvent \cup {e}
           w == Missed(roc, last, n) \o <<e>>
<1>1. E \in SUBSET BuiltEvent /\ DummyEvent \subseteq E /\ e \in E
  BY DEF DummyEvent
<1>2. PICK F : F = E
  OBVIOUS
<1>3. F \in SUBSET BuiltEvent /\ DummyEvent \subseteq F /\ e \in F
  BY <1>1, <1>2
<1>4. w \in Seq(F)
  BY <1>3, MissedAndEvent
<1> HIDE DEF w
<1>5. \A i \in 1 .. Len(w) : w[i] \in F
  BY <1>4, ElementOfSeq
<1>6. w \in Seq(BuiltEvent)
  BY <1>3, <1>4
<1> QED  BY <1>2, <1>5, <1>6 DEF w, OnlyEvent

LEMMA OrderedEvent ==
  ASSUME NEW e \in BuiltEvent, Rising(e.trigs), NEW roc \in Int, NEW last \in Int, NEW n \in Int
  PROVE  Ordered(Missed(roc, last, n) \o <<e>>)
<1>1. PICK d : d = Missed(roc, last, n)
  OBVIOUS
<1>2. d \in Seq(DummyEvent) /\ d \in Seq(BuiltEvent)
  BY <1>1, MissedEvents, MissedIs
<1>3. \A i \in 1 .. Len(d) : d[i] \in DummyEvent
  BY <1>2, ElementOfSeq
<1>4. Ordered(d)
  <2>1. Len(d) \in Nat
    BY <1>2, LenProperties
  <2>2. \A j \in 1 .. Len(d) : \A i \in 1 .. j - 1 : i \in 1 .. Len(d)
    BY <2>1
  <2> QED  BY <1>3, <2>2, DummiesPrecede DEF Ordered
<1>5. PICK w : w = <<e>>
  OBVIOUS
<1>6. w \in Seq(BuiltEvent) /\ Len(w) = 1 /\ w[1] = e
  BY <1>5
<1>7. Ordered(w)
  BY <1>6 DEF Ordered
<1>8. \A i \in 1 .. Len(d), j \in 1 .. Len(w) : MayPrecede(d[i], w[j])
  BY <1>3, DummiesPrecede
<1>9. Ordered(d \o w)
  BY <1>2, <1>4, <1>6, <1>7, <1>8, OrderedConcat
<1> QED  BY <1>1, <1>5, <1>9

(* b has the events of q, dummies and e. *)
EachOf(b, q, e) ==
  \A i \in 1 .. Len(b) : (\E j \in 1 .. Len(q) : b[i] = q[j]) \/ b[i] \in DummyEvent \/ b[i] = e

(* An event, and dummies before it, behind the events that may precede it. *)
LEMMA OrderedMore ==
  ASSUME NEW q \in Seq(BuiltEvent), Ordered(q), NEW e \in BuiltEvent, Rising(e.trigs),
         \A i \in 1 .. Len(q) : MayPrecede(q[i], e),
         NEW roc \in Int, NEW last \in Int, NEW n \in Int
  PROVE  LET b == q \o (Missed(roc, last, n) \o <<e>>)
         IN  b \in Seq(BuiltEvent) /\ Ordered(b) /\ EachOf(b, q, e)
<1>1. PICK w : w = Missed(roc, last, n) \o <<e>>
  OBVIOUS
<1>2. /\ w \in Seq(BuiltEvent) /\ Ordered(w)
      /\ \A i \in 1 .. Len(w) : w[i] \in DummyEvent \/ w[i] = e
  <2>1. /\ w \in Seq(BuiltEvent)
        /\ \A i \in 1 .. Len(w) : w[i] \in DummyEvent \/ w[i] = e
    <3>1. OnlyEvent(Missed(roc, last, n) \o <<e>>, e)
      BY MissedAndEventEach
    <3> QED  BY <1>1, <3>1 DEF OnlyEvent
  <2>2. Ordered(w)
    BY <1>1, OrderedEvent
  <2> QED  BY <2>1, <2>2
<1>3. \A i \in 1 .. Len(q), j \in 1 .. Len(w) : MayPrecede(q[i], w[j])
  BY <1>2, DummiesPrecede
<1>4. q \o w \in Seq(BuiltEvent) /\ Ordered(q \o w)
  BY <1>2, <1>3, OrderedConcat
<1>5. PICK b : b = q \o w
  OBVIOUS
<1>6. PICK m \in Nat, k \in Nat : m = Len(q) /\ k = Len(w)
  BY <1>2, LenProperties
<1>7. /\ Len(b) = m + k
      /\ \A i \in 1 .. m : b[i] = q[i]
      /\ \A i \in m + 1 .. m + k : b[i] = w[i - m]
  BY <1>2, <1>5, <1>6, EventsConcat
<1>8. ASSUME NEW i \in 1 .. Len(b)
      PROVE  (\E j \in 1 .. Len(q) : b[i] = q[j]) \/ b[i] \in DummyEvent \/ b[i] = e
  <2>1. CASE i \in 1 .. m
    BY <1>6, <1>7, <2>1
  <2>2. CASE i \notin 1 .. m
    <3>1. i \in m + 1 .. m + k /\ i - m \in 1 .. k
      BY <1>7, <2>2
    <3>2. b[i] = w[i - m]
      BY <1>7, <3>1
    <3> QED  BY <1>2, <1>6, <3>1, <3>2
  <2> QED  BY <2>1, <2>2
<1> QED  BY <1>1, <1>4, <1>5, <1>8 DEF EachOf
-----------------------------------------------------------------------------
(* An event of cycle c has triggers of this cycle only. *)
OfCycle(e, ts, c) ==
  /\ e.kind # "dummy" => e.roc = c
  /\ \A a \in Range(e.trigs) :
       c \in DOMAIN ts /\ \E i \in 1 .. Len(ts[c].trigs) : a = ts[c].trigs[i].id

(* Events of cycle c come behind the others. *)
OrderedOf(q, ts, c) == Ordered(q) /\ \A i \in 1 .. Len(q) : OfCycle(q[i], ts, c)

BuildsInOrder(s, t, c) ==
  \E new \in Seq(BuiltEvent) : t.out = s.out \o new /\ OrderedOf(new, s.ts, c)

(* The cycle that is built, when it is frozen and the first of the due ones. *)
FirstPending(s, t, c, dumpAll) ==
  /\ FrozenIn(c, dumpAll) /\ c \in Pending(s.asic, s.ts)
  /\ \A r \in Pending(t.asic, t.ts) : c < r /\ r \in Pending(s.asic, s.ts)
  /\ DOMAIN t.ts \subseteq DOMAIN s.ts /\ \A r \in DOMAIN t.ts : t.ts[r] = s.ts[r]

LEMMA OrderBuilt ==
  ASSUME hwRoc \in Nat, nextTrig \in Nat, NEW s \in BuildState, NEW t, NEW c \in Nat,
         NEW dumpAll \in BOOLEAN, TriggersOk(s.ts, nextTrig, lastTime),
         FirstPending(s, t, c, dumpAll), BuildsInOrder(s, t, c),
         Ordered(s.out), EarlierIn(s.out, s.asic, s.ts, dumpAll)
  PROVE  Ordered(t.out) /\ EarlierIn(t.out, t.asic, t.ts, dumpAll)
<1>1. PICK new \in Seq(BuiltEvent) : t.out = s.out \o new /\ OrderedOf(new, s.ts, c)
  BY DEF BuildsInOrder
<1>2. PICK q \in Seq(BuiltEvent) : q = s.out
  BY StateIs
<1>3. PICK P, R : P = Pending(s.asic, s.ts) /\ R = Pending(t.asic, t.ts)
  OBVIOUS
<1>4. PICK m \in Nat, n \in Nat : m = Len(q) /\ n = Len(new)
  BY LenProperties
<1>5. PICK b : b = q \o new
  OBVIOUS
<1>6. /\ b \in Seq(BuiltEvent) /\ Len(b) = m + n
      /\ \A i \in 1 .. m : b[i] = q[i]
      /\ \A i \in m + 1 .. m + n : b[i] = new[i - m]
  BY <1>4, <1>5, EventsConcat
<1>7. /\ c \in P /\ FrozenIn(c, dumpAll) /\ \A r \in R : c < r /\ r \in P
      /\ DOMAIN t.ts \subseteq DOMAIN s.ts /\ \A r \in DOMAIN t.ts : t.ts[r] = s.ts[r]
  BY <1>3 DEF FirstPending
<1>8. \A i \in 1 .. m : OfEarlierCycle(q[i], P, dumpAll) /\ OfEarlierTriggers(q[i], P, s.ts, dumpAll)
  BY <1>2, <1>3, <1>4 DEF EarlierIn
<1>9. \A i \in 1 .. n : OfCycle(new[i], s.ts, c)
  BY <1>1, <1>4 DEF OrderedOf
<1>10. ASSUME NEW x, NEW y, OfEarlierCycle(x, P, dumpAll),
              OfEarlierTriggers(x, P, s.ts, dumpAll), OfCycle(y, s.ts, c)
       PROVE  MayPrecede(x, y)
  <2>1. "dummy" \notin {x.kind, y.kind} => x.roc < y.roc
    BY <1>7, <1>10 DEF OfEarlierCycle, OfCycle
  <2>2. ASSUME NEW v \in Range(x.trigs), NEW w \in Range(y.trigs)
        PROVE  v < w
    <3>1. PICK i \in 1 .. Len(s.ts[c].trigs) : c \in DOMAIN s.ts /\ w = s.ts[c].trigs[i].id
      BY <1>10 DEF OfCycle
    <3> QED  BY <1>7, <1>10, <3>1 DEF OfEarlierTriggers
  <2> QED  BY <2>1, <2>2 DEF MayPrecede
<1>11. Ordered(b)
  <2>1. \A i \in 1 .. Len(q), j \in 1 .. Len(new) : MayPrecede(q[i], new[j])
    BY <1>4, <1>8, <1>9, <1>10
  <2>2. Ordered(q) /\ Ordered(new)
    BY <1>1, <1>2 DEF OrderedOf
  <2> QED  BY <1>5, <2>1, <2>2, OrderedConcat
<1>12. ASSUME NEW x, OfEarlierCycle(x, P, dumpAll), OfEarlierTriggers(x, P, s.ts, dumpAll)
       PROVE  OfEarlierCycle(x, R, dumpAll) /\ OfEarlierTriggers(x, R, t.ts, dumpAll)
  <2>1. OfEarlierCycle(x, R, dumpAll)
    BY <1>7, <1>12 DEF OfEarlierCycle
  <2>2. OfEarlierTriggers(x, R, t.ts, dumpAll)
    BY <1>7, <1>12 DEF OfEarlierTriggers
  <2> QED  BY <2>1, <2>2
<1>13. ASSUME NEW x, OfCycle(x, s.ts, c)
       PROVE  OfEarlierCycle(x, R, dumpAll) /\ OfEarlierTriggers(x, R, t.ts, dumpAll)
  <2>1. OfEarlierCycle(x, R, dumpAll)
    BY <1>7, <1>13 DEF OfEarlierCycle, OfCycle
  <2>2. ASSUME NEW a \in Range(x.trigs)
        PROVE  /\ a < nextTrig
               /\ \A r \in DOMAIN t.ts : r \in R \/ ~FrozenIn(r, dumpAll) =>
                    \A i \in 1 .. Len(t.ts[r].trigs) : a < t.ts[r].trigs[i].id
    <3>1. PICK k \in 1 .. Len(s.ts[c].trigs) : c \in DOMAIN s.ts /\ a = s.ts[c].trigs[k].id
      BY <1>13 DEF OfCycle
    <3>2. a < nextTrig
      BY <3>1 DEF TriggersOk
    <3>3. ASSUME NEW r \in DOMAIN t.ts, r \in R \/ ~FrozenIn(r, dumpAll),
                 NEW i \in 1 .. Len(t.ts[r].trigs)
          PROVE  a < t.ts[r].trigs[i].id
      <4>1. PICK z \in Nat : z = r /\ z \in DOMAIN s.ts /\ t.ts[r] = s.ts[z]
        BY <1>7, StateIs
      <4>2. c < z
        <5>1. CASE r \in R
          BY <1>7, <4>1, <5>1
        <5>2. CASE ~FrozenIn(r, dumpAll)
          <6>1. PICK h \in Nat, d \in Nat : h = hwRoc /\ d = DataLag
            BY BuilderAssumption
          <6>2. ~(z < h - d) /\ c < h - d
            BY <1>7, <4>1, <5>2, <6>1 DEF FrozenIn
          <6> QED  BY <6>2
        <5> QED  BY <3>3, <5>1, <5>2
      <4> QED  BY <3>1, <4>1, <4>2 DEF TriggersOk
    <3> QED  BY <3>2, <3>3
  <2> QED  BY <2>1, <2>2 DEF OfEarlierTriggers
<1>14. ASSUME NEW i \in 1 .. Len(b)
       PROVE  OfEarlierCycle(b[i], R, dumpAll) /\ OfEarlierTriggers(b[i], R, t.ts, dumpAll)
  <2>1. CASE i \in 1 .. m
    BY <1>6, <1>8, <1>12, <2>1
  <2>2. CASE i \notin 1 .. m
    <3>1. i \in m + 1 .. m + n /\ i - m \in 1 .. n
      BY <1>6, <2>2
    <3> QED  BY <1>6, <1>9, <1>13, <3>1
  <2> QED  BY <2>1, <2>2
<1>15. b = t.out
  BY <1>1, <1>2, <1>5
<1> QED  BY <1>3, <1>11, <1>14, <1>15 DEF EarlierIn

(* The oldest ASIC data are the first of the due ones. *)
LEMMA TakenOutPending ==
  ASSUME mode # "BXID_VALIDATED", hwRoc \in Nat, NEW s \in BuildState,
         NEW dumpAll \in BOOLEAN, MayBuild(s, dumpAll), DOMAIN s.asic \subseteq 0 .. hwRoc,
         NEW t, TakenOut(s, t, First(s.asic))
  PROVE  FirstPending(s, t, First(s.asic), dumpAll)
<1>1. DOMAIN s.asic \in SUBSET Nat /\ DOMAIN s.asic # {} /\ DOMAIN s.ts \in SUBSET Nat
  BY StateIs DEF MayBuild
<1>2. PICK c \in Nat : /\ c = First(s.asic) /\ c \in DOMAIN s.asic /\ FrozenIn(c, dumpAll)
                       /\ \A x \in DOMAIN s.asic : c <= x
  BY <1>1, FirstFrozen, MinIs DEF First
<1>3. PICK d, g : d = DOMAIN s.asic \ {c} /\ g = DOMAIN s.ts \ {c}
  OBVIOUS
<1>4. t.asic = KeepOnly(s.asic, d) /\ t.ts = KeepOnly(s.ts, g)
  BY <1>2, <1>3 DEF TakenOut
<1>5. /\ DOMAIN t.asic = DOMAIN s.asic \cap d /\ DOMAIN t.ts = DOMAIN s.ts \cap g
      /\ \A r \in DOMAIN t.ts : t.ts[r] = s.ts[r]
  BY <1>4 DEF KeepOnly
<1>6. \A r \in DOMAIN t.asic : c < r /\ r \in DOMAIN s.asic
  BY <1>1, <1>2, <1>3, <1>5
<1> QED  BY <1>2, <1>5, <1>6 DEF FirstPending, Pending
-----------------------------------------------------------------------------
LEMMA ROCInOrder ==
  ASSUME NEW s \in BuildState, DOMAIN s.asic # {}
  PROVE  /\ TakenOut(s, BuildROCCycle(s), First(s.asic))
         /\ BuildsInOrder(s, BuildROCCycle(s), First(s.asic))
<1>1. PICK t : t = BuildROCCycle(s)
  OBVIOUS
<1>2. /\ TakenOut(s, t, First(s.asic))
      /\ \E e \in BuiltEvent :
           /\ t.out = s.out \o (Missed(None, s.last, First(s.asic)) \o <<e>>)
           /\ e.kind = "data" /\ e.roc = First(s.asic) /\ e.trigs = <<>>
  BY <1>1, BuildROCCycleIs
<1>3. PICK roc \in Nat, last \in Int, none \in Int :
        roc = First(s.asic) /\ last = s.last /\ none = None
  BY StateIs, MinIs DEF First, None
<1>4. PICK e \in BuiltEvent :
        /\ t.out = s.out \o (Missed(none, last, roc) \o <<e>>)
        /\ e.kind = "data" /\ e.roc = roc /\ e.trigs = <<>>
  BY <1>2, <1>3
<1>5. PICK w : w = Missed(none, last, roc) \o <<e>>
  OBVIOUS
<1>6. Range(e.trigs) = {} /\ Rising(e.trigs)
  <2>1. Range(<<>>) = {} /\ Len(<<>>) = 0
    BY DEF Range
  <2> QED  BY <1>4, <2>1 DEF Rising
<1>7. Ordered(w)
  BY <1>3, <1>5, <1>6, OrderedEvent
<1>8. w \in Seq(BuiltEvent) /\ \A i \in 1 .. Len(w) : w[i] \in DummyEvent \/ w[i] = e
  <2>1. OnlyEvent(Missed(none, last, roc) \o <<e>>, e)
    <3>1. roc \in Int /\ last \in Int /\ none \in Int /\ e \in BuiltEvent
      BY <1>3, <1>4
    <3> QED  BY <3>1, MissedAndEventEach
  <2> QED  BY <1>5, <2>1 DEF OnlyEvent
<1>9. \A x : x \in DummyEvent \/ x = e => OfCycle(x, s.ts, roc)
  BY <1>4, <1>6, DummiesPrecede DEF OfCycle
<1>10. OrderedOf(w, s.ts, roc)
  BY <1>7, <1>8, <1>9 DEF OrderedOf
<1>11. BuildsInOrder(s, t, roc)
  BY <1>4, <1>5, <1>8, <1>10 DEF BuildsInOrder
<1> QED  BY <1>1, <1>2, <1>3, <1>11

LEMMA BXIDInOrder ==
  ASSUME NEW s \in BuildState, DOMAIN s.asic # {}
  PROVE  /\ TakenOut(s, BuildBXIDCycle(s), First(s.asic))
         /\ BuildsInOrder(s, BuildBXIDCycle(s), First(s.asic))
<1>1. PICK t : t = BuildBXIDCycle(s)
  OBVIOUS
<1>2. PICK roc \in Nat : roc = First(s.asic)
  BY StateIs, MinIs DEF First
<1>3. PICK bxids : bxids = {b \in {h[2] : h \in s.asic[roc]} : IsBXIDComplete(roc, b)}
  OBVIOUS
<1>4. /\ TakenOut(s, t, roc)
      /\ \E new \in Seq(BuiltEvent), order \in Seq(Nat) :
           t.out = s.out \o new /\ BxidEvents(s, roc, bxids, order, new)
  BY <1>1, <1>2, <1>3, BuildBXIDCycleIs
<1>5. PICK new \in Seq(BuiltEvent), order \in Seq(Nat) :
        t.out = s.out \o new /\ BxidEvents(s, roc, bxids, order, new)
  BY <1>4
<1>6. PICK n \in Nat : n = Len(new)
  BY LenProperties
<1>7. /\ \A j, k \in 1 .. n : j < k => order[j] < order[k]
      /\ \A k \in 1 .. n : new[k].roc = roc /\ new[k].bxid = order[k] /\ new[k].trigs = <<>>
  BY <1>5, <1>6 DEF BxidEvents
<1>8. \A k \in 1 .. n : order[k] \in Int
  BY <1>5, <1>6, ElementOfSeq DEF BxidEvents
<1>9. Range(<<>>) = {} /\ Rising(<<>>)
  <2>1. Len(<<>>) = 0
    OBVIOUS
  <2> QED  BY <2>1 DEF Range, Rising
<1>10. ASSUME NEW j \in 1 .. n, NEW i \in 1 .. j - 1
       PROVE  MayPrecede(new[i], new[j])
  <2>1. i \in 1 .. n /\ i < j
    OBVIOUS
  <2>2. PICK x \in Int, y \in Int : x = new[i].bxid /\ y = new[j].bxid /\ x < y
    BY <1>7, <1>8, <2>1
  <2>3. x <= y /\ new[i].roc = new[j].roc
    BY <1>7, <2>1, <2>2
  <2> QED  BY <1>7, <1>9, <2>1, <2>2, <2>3 DEF MayPrecede
<1>11. OrderedOf(new, s.ts, roc)
  BY <1>6, <1>7, <1>9, <1>10 DEF OrderedOf, Ordered, OfCycle
<1>12. BuildsInOrder(s, t, roc)
  BY <1>5, <1>11 DEF BuildsInOrder
<1> QED  BY <1>1, <1>2, <1>4, <1>12
-----------------------------------------------------------------------------
(* An event may precede trigger t: its BXID is not larger, and its triggers are
   before t. *)
BeforeTrigger(e, bxid, id) ==
  /\ e.kind # "dummy" => e.bxid <= bxid
  /\ \A a \in Range(e.trigs) : a < id

(* An event of the cycle behind the events that the loop has built so far. *)
LEMMA OrderedOfMore ==
  ASSUME NEW q \in Seq(BuiltEvent), NEW ts, NEW c \in Nat, OrderedOf(q, ts, c),
         NEW e \in BuiltEvent, e.roc = c, OfCycle(e, ts, c), Rising(e.trigs),
         \A i \in 1 .. Len(q) : \A b \in Range(e.trigs) : BeforeTrigger(q[i], e.bxid, b),
         Range(e.trigs) # {},
         NEW roc \in Int, NEW last \in Int, NEW n \in Int
  PROVE  LET b == q \o (Missed(roc, last, n) \o <<e>>)
         IN  b \in Seq(BuiltEvent) /\ OrderedOf(b, ts, c) /\ EachOf(b, q, e)
<1>1. \A i \in 1 .. Len(q) : MayPrecede(q[i], e)
  <2> SUFFICES ASSUME NEW i \in 1 .. Len(q)
               PROVE  MayPrecede(q[i], e)
    OBVIOUS
  <2>1. OfCycle(q[i], ts, c) /\ \A b \in Range(e.trigs) : BeforeTrigger(q[i], e.bxid, b)
    BY DEF OrderedOf
  <2>2. q[i].kind # "dummy" => q[i].roc = e.roc /\ q[i].bxid <= e.bxid
    BY <2>1 DEF OfCycle, BeforeTrigger
  <2>3. \A a \in Range(q[i].trigs), b \in Range(e.trigs) : a < b
    BY <2>1 DEF BeforeTrigger
  <2> QED  BY <2>2, <2>3 DEF MayPrecede
<1>2. PICK b : b = q \o (Missed(roc, last, n) \o <<e>>)
  OBVIOUS
<1>3. b \in Seq(BuiltEvent) /\ Ordered(b) /\ EachOf(b, q, e)
  <2>1. Ordered(q)
    BY DEF OrderedOf
  <2>2. LET u == q \o (Missed(roc, last, n) \o <<e>>)
        IN  u \in Seq(BuiltEvent) /\ Ordered(u) /\ EachOf(u, q, e)
    BY <1>1, <2>1, OrderedMore
  <2> QED  BY <1>2, <2>2
<1>4. \A x : x \in DummyEvent => OfCycle(x, ts, c)
  BY DummiesPrecede DEF OfCycle
<1>5. OrderedOf(b, ts, c)
  BY <1>3, <1>4 DEF OrderedOf, EachOf
<1> QED  BY <1>2, <1>3, <1>5

(* What a loop over triggers has built: events of the cycle, in order, that may
   precede the triggers <<BXID, number>> still to come. *)
LoopOrdered(so, base, ts, c, rest) ==
  \E w \in Seq(BuiltEvent) :
    /\ so = base \o w /\ OrderedOf(w, ts, c)
    /\ \A i \in 1 .. Len(w), p \in rest : BeforeTrigger(w[i], p[1], p[2])

LEMMA LoopStarts ==
  ASSUME NEW base \in Seq(BuiltEvent), NEW ts, NEW c, NEW rest
  PROVE  LoopOrdered(base, base, ts, c, rest)
<1>1. <<>> \in Seq(BuiltEvent) /\ Len(<<>>) = 0 /\ base \o <<>> = base
  BY ConcatEmptySeq
<1>2. PICK w \in Seq(BuiltEvent) : w = <<>> /\ Len(w) = 0
  BY <1>1
<1>3. OrderedOf(w, ts, c)
  BY <1>2 DEF OrderedOf, Ordered
<1>4. base = base \o w
  BY <1>1, <1>2
<1>5. \A i \in 1 .. Len(w), p \in rest : BeforeTrigger(w[i], p[1], p[2])
  BY <1>2
<1> QED  BY <1>3, <1>4, <1>5 DEF LoopOrdered

LEMMA LoopSkips ==
  ASSUME NEW so, NEW base, NEW ts, NEW c, NEW rest, LoopOrdered(so, base, ts, c, rest),
         NEW less, less \subseteq rest
  PROVE  LoopOrdered(so, base, ts, c, less)
BY DEF LoopOrdered

(* The event of some of the triggers to come is written. *)
LEMMA LoopWrites ==
  ASSUME NEW so, NEW base \in Seq(BuiltEvent), NEW ts, NEW c \in Nat, NEW rest,
         LoopOrdered(so, base, ts, c, rest),
         NEW e \in BuiltEvent, e.roc = c, OfCycle(e, ts, c), Rising(e.trigs), Range(e.trigs) # {},
         \A a \in Range(e.trigs) : <<e.bxid, a>> \in rest,
         NEW less, less \subseteq rest, \A p \in less : BeforeTrigger(e, p[1], p[2]),
         NEW roc \in Int, NEW last \in Int, NEW n \in Int
  PROVE  LoopOrdered(so \o (Missed(roc, last, n) \o <<e>>), base, ts, c, less)
<1>1. PICK w \in Seq(BuiltEvent) :
        /\ so = base \o w /\ OrderedOf(w, ts, c)
        /\ \A i \in 1 .. Len(w), p \in rest : BeforeTrigger(w[i], p[1], p[2])
  BY DEF LoopOrdered
<1>2. PICK m : m = Missed(roc, last, n) \o <<e>>
  OBVIOUS
<1>3. m \in Seq(BuiltEvent)
  <2>1. OnlyEvent(Missed(roc, last, n) \o <<e>>, e)
    BY MissedAndEventEach
  <2> QED  BY <1>2, <2>1 DEF OnlyEvent
<1>4. \A i \in 1 .. Len(w) : \A b \in Range(e.trigs) : BeforeTrigger(w[i], e.bxid, b)
  <2> SUFFICES ASSUME NEW i \in 1 .. Len(w), NEW b \in Range(e.trigs)
               PROVE  BeforeTrigger(w[i], e.bxid, b)
    OBVIOUS
  <2>1. PICK p \in rest : p = <<e.bxid, b>>
    OBVIOUS
  <2>2. BeforeTrigger(w[i], p[1], p[2])
    BY <1>1, <2>1
  <2>3. p[1] = e.bxid /\ p[2] = b
    BY <2>1
  <2> QED  BY <2>2, <2>3
<1>5. /\ w \o m \in Seq(BuiltEvent) /\ OrderedOf(w \o m, ts, c) /\ EachOf(w \o m, w, e)
  <2>1. LET b == w \o (Missed(roc, last, n) \o <<e>>)
        IN  b \in Seq(BuiltEvent) /\ OrderedOf(b, ts, c) /\ EachOf(b, w, e)
    BY <1>1, <1>4, OrderedOfMore
  <2> QED  BY <1>2, <2>1
<1>6. PICK b \in Seq(BuiltEvent) : b = w \o m /\ OrderedOf(b, ts, c) /\ EachOf(b, w, e)
  BY <1>5
<1>7. so \o m = base \o b
  BY <1>1, <1>3, <1>6, ConcatAssociative
<1>8. ASSUME NEW i \in 1 .. Len(b), NEW p \in less
      PROVE  BeforeTrigger(b[i], p[1], p[2])
  <2>1. CASE \E j \in 1 .. Len(w) : b[i] = w[j]
    BY <1>1, <2>1
  <2>2. CASE b[i] \in DummyEvent
    BY <2>2, DummiesPrecede DEF BeforeTrigger
  <2>3. CASE b[i] = e
    BY <2>3
  <2> QED  BY <1>6, <2>1, <2>2, <2>3 DEF EachOf
<1>9. LoopOrdered(so \o m, base, ts, c, less)
  BY <1>6, <1>7, <1>8 DEF LoopOrdered
<1> QED  BY <1>2, <1>9

LEMMA LoopEnds ==
  ASSUME NEW s, NEW t, NEW c, NEW rest, LoopOrdered(t.out, s.out, s.ts, c, rest)
  PROVE  BuildsInOrder(s, t, c)
BY DEF LoopOrdered, BuildsInOrder

(* The triggers of an event with only one. *)
LEMMA OneTriggerOnly ==
  ASSUME NEW a \in Int
  PROVE  Range(<<a>>) = {a} /\ Rising(<<a>>)
<1>1. DOMAIN <<a>> = {1} /\ Len(<<a>>) = 1 /\ <<a>>[1] = a
  OBVIOUS
<1>2. Range(<<a>>) = {a}
  BY <1>1 DEF Range
<1>3. Rising(<<a>>)
  BY <1>1 DEF Rising
<1> QED  BY <1>2, <1>3

LEMMA TRIGIDInOrder ==
  ASSUME NEW s \in BuildState, DOMAIN s.asic # {}
  PROVE  /\ TakenOut(s, BuildTRIGIDCycle(s), First(s.asic))
         /\ BuildsInOrder(s, BuildTRIGIDCycle(s), First(s.asic))
<1> DEFINE t == BuildTRIGIDCycle(s)
           trigs == At(s.ts, First(s.asic), NoTimes).trigs
<1>1. /\ TakenOut(s, t, First(s.asic))
      /\ trigs \in Seq(Trig)
      /\ \E inside \in Seq(Trig) : \E f :
           /\ TrigidLoop(s, First(s.asic), inside, f)
           /\ t.last = f[Len(inside)].last /\ t.out = f[Len(inside)].out
           /\ \E h, P : /\ Lists(h, P, Len(trigs)) /\ Len(h) = Len(inside)
                        /\ \A k \in 1 .. Len(h) : inside[k] = trigs[h[k]]
  BY BuildTRIGIDCycleIs
<1> HIDE DEF t
<1>2. PICK roc \in Nat : roc = First(s.asic) /\ roc \in DOMAIN s.asic
  <2>1. DOMAIN s.asic \in SUBSET Nat /\ DOMAIN s.asic # {}
    BY StateIs
  <2> QED  BY <2>1, MinIs DEF First
<1>3. /\ roc \in DOMAIN s.ts => trigs = s.ts[roc].trigs /\ s.ts[roc] \in Times
      /\ roc \notin DOMAIN s.ts => Len(trigs) = 0
  BY <1>2, StateIs DEF At, NoTimes
<1>4. PICK m \in Nat : m = Len(trigs)
  BY <1>1, LenProperties
<1> HIDE DEF trigs
<1>5. /\ \A i \in 1 .. m : roc \in DOMAIN s.ts /\ trigs[i].id \in Nat
                           /\ \E j \in 1 .. Len(s.ts[roc].trigs) : trigs[i].id = s.ts[roc].trigs[j].id
      /\ \A i, j \in 1 .. m : i < j => trigs[i].id < trigs[j].id
  <2>1. CASE roc \in DOMAIN s.ts
    <3>1. trigs = s.ts[roc].trigs /\ s.ts[roc] \in Times
      BY <1>3, <2>1
    <3>2. \A i \in 1 .. m : trigs[i].id \in Nat
      BY <1>4, <3>1, TimesIs
    <3>3. \A i, j \in 1 .. m : i < j => trigs[i].id < trigs[j].id
      BY <1>4, <3>1, TimesIs
    <3> QED  BY <1>4, <2>1, <3>1, <3>2, <3>3
  <2>2. CASE roc \notin DOMAIN s.ts
    BY <1>3, <1>4, <2>2
  <2> QED  BY <2>1, <2>2
<1>7. PICK inside \in Seq(Trig) : \E f :
           /\ TrigidLoop(s, roc, inside, f)
           /\ t.last = f[Len(inside)].last /\ t.out = f[Len(inside)].out
           /\ \E h, P : /\ Lists(h, P, m) /\ Len(h) = Len(inside)
                        /\ \A k \in 1 .. Len(h) : inside[k] = trigs[h[k]]
  BY <1>1, <1>2, <1>4
<1>8. PICK f :
           /\ TrigidLoop(s, roc, inside, f)
           /\ t.last = f[Len(inside)].last /\ t.out = f[Len(inside)].out
           /\ \E h, P : /\ Lists(h, P, m) /\ Len(h) = Len(inside)
                        /\ \A k \in 1 .. Len(h) : inside[k] = trigs[h[k]]
  BY <1>7
<1>9. PICK n \in Nat : n = Len(inside)
  BY LenProperties
<1>10. PICK h : \E P : /\ Lists(h, P, m) /\ Len(h) = n
                       /\ \A k \in 1 .. n : inside[k] = trigs[h[k]]
  BY <1>8, <1>9
<1>11. /\ \A k \in 1 .. n : h[k] \in 1 .. m /\ inside[k] = trigs[h[k]]
       /\ \A j, k \in 1 .. n : j < k => h[j] < h[k]
  BY <1>10 DEF Lists
<1>12. \A k \in 1 .. n : /\ inside[k].id \in Nat /\ roc \in DOMAIN s.ts
                         /\ \E j \in 1 .. Len(s.ts[roc].trigs) : inside[k].id = s.ts[roc].trigs[j].id
  <2> SUFFICES ASSUME NEW k \in 1 .. n
               PROVE  /\ inside[k].id \in Nat /\ roc \in DOMAIN s.ts
                      /\ \E j \in 1 .. Len(s.ts[roc].trigs) : inside[k].id = s.ts[roc].trigs[j].id
    OBVIOUS
  <2>1. PICK i \in 1 .. m : i = h[k] /\ inside[k] = trigs[i]
    BY <1>11
  <2> QED  BY <1>5, <2>1
<1>13. \A j, k \in 1 .. n : j < k => inside[j].id < inside[k].id
  BY <1>5, <1>11
<1>14. roc \in Nat /\ s.asic[roc] \in SUBSET Hit /\ s.out \in Seq(BuiltEvent)
  BY <1>2, StateIs
<1>15. PICK hits \in SUBSET Hit : hits = s.asic[roc]
  BY <1>14
<1>16. /\ f \in [0 .. n -> TrigidState] /\ f[0] = [last |-> s.last, out |-> s.out]
       /\ \A k \in 1 .. n : f[k] = EmitTrigger(roc, hits, f[k - 1], inside[k])
  BY <1>8, <1>9, <1>15 DEF TrigidLoop
<1> DEFINE Rest(k) == {<<None, inside[j].id>> : j \in k + 1 .. n}
           S == {k \in 0 .. n : LoopOrdered(f[k].out, s.out, s.ts, roc, Rest(k))}
<1> HIDE DEF Rest
<1>17. 0 \in S
  BY <1>14, <1>16, LoopStarts
<1>18. ASSUME NEW k \in 1 .. n, k - 1 \in S
       PROVE  k \in S
  <2>1. PICK b \in TrigidState : b = f[k - 1]
    BY <1>16
  <2>2. PICK u \in Trig : u = inside[k]
    BY <1>9, ElementOfSeq
  <2>3. TriggerEmitted(roc, hits, b, u, EmitTrigger(roc, hits, b, u))
    BY EmitTriggerIs
  <2>4. PICK c : c = f[k]
    OBVIOUS
  <2>5. TriggerEmitted(roc, hits, b, u, c)
    BY <1>16, <2>1, <2>2, <2>3, <2>4
  <2>6. PICK id \in Nat, num \in Int, bl \in Int, none \in Int :
          id = u.id /\ num = u.id + TrigidOffset /\ bl = b.last /\ none = None
    BY BuilderAssumption DEF Trig, TrigidState, None
  <2>7. PICK e \in BuiltEvent :
          /\ c.out = b.out \o (Missed(none, bl, num) \o <<e>>)
          /\ e.roc = roc /\ e.bxid = none /\ e.trigs = <<id>>
    BY <2>5, <2>6 DEF TriggerEmitted
  <2>8. Range(e.trigs) = {id} /\ Rising(e.trigs)
    BY <2>6, <2>7, OneTriggerOnly
  <2>9. OfCycle(e, s.ts, roc)
    BY <1>12, <2>2, <2>6, <2>7, <2>8 DEF OfCycle
  <2>10. LoopOrdered(b.out, s.out, s.ts, roc, Rest(k - 1))
    BY <1>18, <2>1
  <2>11. \A a \in Range(e.trigs) : <<e.bxid, a>> \in Rest(k - 1)
    <3>1. k \in (k - 1) + 1 .. n
      OBVIOUS
    <3>2. <<None, inside[k].id>> \in Rest(k - 1)
      BY <3>1 DEF Rest
    <3> QED  BY <2>2, <2>6, <2>7, <2>8, <3>2
  <2>12. Rest(k) \subseteq Rest(k - 1)
    <3>1. k + 1 .. n \subseteq (k - 1) + 1 .. n
      OBVIOUS
    <3> QED  BY <3>1 DEF Rest
  <2>13. ASSUME NEW p \in Rest(k)
         PROVE  BeforeTrigger(e, p[1], p[2])
    <3>1. PICK j \in k + 1 .. n : p = <<None, inside[j].id>>
      BY DEF Rest
    <3>2. p[1] = none /\ p[2] = inside[j].id
      BY <2>6, <3>1
    <3>3. id < inside[j].id
      BY <1>13, <2>2, <2>6
    <3> QED  BY <2>7, <2>8, <3>2, <3>3, SMTT(60) DEF BeforeTrigger
  <2>14. LoopOrdered(b.out \o (Missed(none, bl, num) \o <<e>>), s.out, s.ts, roc, Rest(k))
    BY <1>14, <2>6, <2>7, <2>8, <2>9, <2>10, <2>11, <2>12, <2>13, LoopWrites
  <2>15. LoopOrdered(f[k].out, s.out, s.ts, roc, Rest(k))
    BY <2>4, <2>7, <2>14
  <2>16. k \in 0 .. n
    OBVIOUS
  <2> QED  BY <2>15, <2>16
<1> HIDE DEF S
<1>19. n \in S
  <2>1. 0 .. n \subseteq S
    BY <1>17, <1>18, UpToInduction
  <2> QED  BY <2>1
<1>20. LoopOrdered(t.out, s.out, s.ts, roc, Rest(n))
  BY <1>8, <1>9, <1>19 DEF S
<1> QED  BY <1>1, <1>2, <1>20, LoopEnds DEF t

(* The triggers an event stands for: those of its BXID from the first to the last
   that is joined. *)
JoinedFrom(trigs, k, l, ids) ==
  /\ l \in k .. Len(trigs)
  /\ \A a \in Range(ids) : \E j \in k .. l : a = trigs[j].id
  /\ Range(ids) # {} /\ Rising(ids)
  /\ \A j \in k .. l : trigs[j].bxid = trigs[k].bxid /\ trigs[j].id \in Range(ids)

LEMMA JoinedIdsAre ==
  ASSUME NEW start \in Int, NEW trigs, InBxidOrder(start, trigs), NEW k \in 1 .. Len(trigs)
  PROVE  JoinedFrom(trigs, k, JoinedUpTo(k, SameBxid(trigs, k)),
                    JoinedIds(trigs, k, SameBxid(trigs, k)))
<1>1. PICK m \in Nat : m = Len(trigs)
  BY LenProperties DEF InBxidOrder
<1>2. /\ \A j \in 1 .. m : trigs[j].id \in Int
      /\ \A i, j \in 1 .. m : i < j => trigs[i].id < trigs[j].id
  <2>1. \A j \in 1 .. m : trigs[j] \in BxidTrig
    BY <1>1, ElementOfSeq DEF InBxidOrder
  <2>2. \A j \in 1 .. m : trigs[j].id \in Int
    BY <2>1 DEF BxidTrig
  <2>3. \A i, j \in 1 .. m : i < j => trigs[i].id < trigs[j].id
    BY <1>1 DEF InBxidOrder
  <2> QED  BY <2>2, <2>3
<1>3. PICK same : same = SameBxid(trigs, k)
  OBVIOUS
<1>4. CASE dummies
  <2>1. PICK a \in Int : a = trigs[k].id
    BY <1>1, <1>2
  <2>2. JoinedUpTo(k, same) = k /\ JoinedIds(trigs, k, same) = <<a>>
    BY <1>4, <2>1 DEF JoinedUpTo, JoinedIds
  <2>3. \A j \in k .. k : j = k
    OBVIOUS
  <2>4. k \in k .. Len(trigs) /\ k \in k .. k
    BY <1>1
  <2> QED  BY <1>3, <2>1, <2>2, <2>3, <2>4, OneTriggerOnly DEF JoinedFrom
<1>5. CASE ~dummies
  <2>1. PICK n \in Nat : n = Cardinality(same) /\ k + n <= m
    BY <1>1, <1>3, SameBxidIs
  <2>2. PICK q : q = [j \in 1 .. 1 + n |-> trigs[k + j - 1].id]
    OBVIOUS
  <2>3. JoinedUpTo(k, same) = k + n /\ JoinedIds(trigs, k, same) = q
    BY <1>5, <2>1, <2>2 DEF JoinedUpTo, JoinedIds
  <2>4. /\ DOMAIN q = 1 .. 1 + n /\ \A j \in 1 .. 1 + n : q[j] = trigs[k + j - 1].id
        /\ q = [j \in 1 .. 1 + n |-> q[j]]
    BY <2>2
  <2>5. \A j \in 1 .. 1 + n : k + j - 1 \in k .. k + n /\ k + j - 1 \in 1 .. m
    BY <1>1, <2>1
  <2>6. \A j \in 1 .. 1 + n : q[j] \in Int
    BY <1>2, <2>4, <2>5
  <2>7. q \in Seq(Int) /\ Len(q) = 1 + n
    BY <2>4, <2>6
  <2>8. Rising(q)
    <3> SUFFICES ASSUME NEW i \in 1 .. 1 + n, NEW j \in 1 .. 1 + n, i < j
                 PROVE  q[i] < q[j]
      BY <2>7 DEF Rising
    <3>1. k + i - 1 < k + j - 1
      OBVIOUS
    <3> QED  BY <1>2, <2>4, <2>5, <3>1
  <2>9. \A a \in Range(q) : \E j \in k .. k + n : a = trigs[j].id
    <3> SUFFICES ASSUME NEW a \in Range(q)
                 PROVE  \E j \in k .. k + n : a = trigs[j].id
      OBVIOUS
    <3>1. PICK j \in 1 .. 1 + n : a = q[j]
      BY <2>4 DEF Range
    <3> QED  BY <2>4, <2>5, <3>1
  <2>10. ASSUME NEW j \in k .. k + n
         PROVE  trigs[j].bxid = trigs[k].bxid /\ trigs[j].id \in Range(q)
    <3>1. PICK i \in 1 .. 1 + n : j = k + i - 1
      <4>1. j - k + 1 \in 1 .. 1 + n /\ j = k + (j - k + 1) - 1
        BY <1>1, <2>1
      <4> QED  BY <4>1
    <3>2. q[i] = trigs[j].id
      BY <2>4, <3>1
    <3>3. trigs[j].id \in Range(q)
      BY <2>4, <3>2 DEF Range
    <3> QED  BY <1>3, <2>1, <3>3, SameBxidIs
  <2>11. k + n \in k .. Len(trigs) /\ k \in k .. k + n
    BY <1>1, <2>1
  <2>12. Range(q) # {}
    BY <2>10, <2>11
  <2> QED  BY <1>3, <2>3, <2>8, <2>9, <2>10, <2>11, <2>12 DEF JoinedFrom
<1> QED  BY <1>4, <1>5

(* The triggers the loop still has to look at. *)
RestOf(trigs, k, joined) ==
  {<<trigs[j].bxid, trigs[j].id>> : j \in {i \in 1 .. Len(trigs) : i > k /\ i > joined}}

OwnTriggers(trigs, ts, roc) ==
  \A j \in 1 .. Len(trigs) :
    roc \in DOMAIN ts /\ \E i \in 1 .. Len(ts[roc].trigs) : trigs[j].id = ts[roc].trigs[i].id

(* An event for the triggers k to l. *)
LEMMA ValidatedWrites ==
  ASSUME NEW ts, NEW roc \in Nat, NEW start \in Int, NEW trigs, InBxidOrder(start, trigs),
         OwnTriggers(trigs, ts, roc), NEW base \in Seq(BuiltEvent),
         NEW k \in 1 .. Len(trigs), NEW joined \in Nat, joined < k, NEW so,
         LoopOrdered(so, base, ts, roc, RestOf(trigs, k - 1, joined)),
         NEW e \in BuiltEvent, e.roc = roc, e.bxid = trigs[k].bxid,
         NEW l \in Int, JoinedFrom(trigs, k, l, e.trigs), NEW last \in Int, NEW n \in Int,
         NEW more \in Nat, more = l \/ (l = k /\ more = joined)
  PROVE  LoopOrdered(so \o (Missed(roc, last, n) \o <<e>>), base, ts, roc, RestOf(trigs, k, more))
<1>1. PICK m \in Nat : m = Len(trigs)
  BY LenProperties DEF InBxidOrder
<1>2. /\ \A j \in 1 .. m : trigs[j].id \in Int /\ trigs[j].bxid \in Int
      /\ \A i, j \in 1 .. m : i < j => trigs[i].id < trigs[j].id /\ trigs[i].bxid <= trigs[j].bxid
  <2>1. \A j \in 1 .. m : trigs[j] \in BxidTrig
    BY <1>1, ElementOfSeq DEF InBxidOrder
  <2>2. \A j \in 1 .. m : trigs[j].id \in Int /\ trigs[j].bxid \in Int
    BY <2>1 DEF BxidTrig
  <2>3. \A i, j \in 1 .. m : i < j => trigs[i].id < trigs[j].id /\ trigs[i].bxid <= trigs[j].bxid
    BY <1>1 DEF InBxidOrder
  <2> QED  BY <2>2, <2>3
<1>3. /\ l \in k .. m /\ Range(e.trigs) # {} /\ Rising(e.trigs)
      /\ \A a \in Range(e.trigs) : \E j \in k .. l : a = trigs[j].id
      /\ \A j \in k .. l : trigs[j].bxid = trigs[k].bxid
  BY <1>1 DEF JoinedFrom
<1>4. \A j \in k .. l : j \in 1 .. m
  BY <1>1, <1>3
<1>5. OfCycle(e, ts, roc)
  <2>1. ASSUME NEW a \in Range(e.trigs)
        PROVE  roc \in DOMAIN ts /\ \E i \in 1 .. Len(ts[roc].trigs) : a = ts[roc].trigs[i].id
    <3>1. PICK j \in k .. l : a = trigs[j].id
      BY <1>3
    <3>2. j \in 1 .. Len(trigs)
      BY <1>1, <1>4
    <3> QED  BY <3>1, <3>2 DEF OwnTriggers
  <2> QED  BY <2>1 DEF OfCycle
<1>6. ASSUME NEW a \in Range(e.trigs)
      PROVE  <<e.bxid, a>> \in RestOf(trigs, k - 1, joined)
  <2>1. PICK j \in k .. l : a = trigs[j].id
    BY <1>3
  <2>2. j \in 1 .. Len(trigs) /\ j > k - 1 /\ j > joined
    BY <1>1, <1>4
  <2>3. e.bxid = trigs[j].bxid
    BY <1>3
  <2> QED  BY <2>1, <2>2, <2>3 DEF RestOf
<1>7. \A i \in 1 .. m : i > k /\ i > more => i > l /\ i > joined /\ i > k - 1
  BY <1>1, <1>3
<1>8. RestOf(trigs, k, more) \subseteq RestOf(trigs, k - 1, joined)
  BY <1>1, <1>7 DEF RestOf
<1>9. ASSUME NEW p \in RestOf(trigs, k, more)
      PROVE  BeforeTrigger(e, p[1], p[2])
  <2>1. PICK i \in 1 .. m : i > k /\ i > more /\ p = <<trigs[i].bxid, trigs[i].id>>
    BY <1>1 DEF RestOf
  <2>2. p[1] = trigs[i].bxid /\ p[2] = trigs[i].id
    BY <2>1
  <2>3. e.bxid <= p[1]
    BY <1>1, <1>2, <2>1, <2>2
  <2>4. ASSUME NEW a \in Range(e.trigs)
        PROVE  a < p[2]
    <3>1. PICK j \in k .. l : a = trigs[j].id
      BY <1>3
    <3>2. j < i /\ j \in 1 .. m
      BY <1>4, <1>7, <2>1
    <3> QED  BY <1>2, <2>2, <3>1, <3>2
  <2> QED  BY <2>3, <2>4 DEF BeforeTrigger
<1>10. roc \in Int
  OBVIOUS
<1> QED  BY <1>3, <1>5, <1>6, <1>8, <1>9, <1>10, LoopWrites

LEMMA ValidatedOrder ==
  ASSUME NEW ts, NEW roc \in Nat, NEW times \in Times, NEW hits, NEW trigs,
         InBxidOrder(times.start, trigs), OwnTriggers(trigs, ts, roc),
         NEW base \in Seq(BuiltEvent), NEW b \in ValidState, NEW c \in ValidState,
         NEW k \in 1 .. Len(trigs), Validated(roc, times, hits, trigs, b, k, c),
         LoopOrdered(b.out, base, ts, roc, RestOf(trigs, k - 1, b.joined))
  PROVE  LoopOrdered(c.out, base, ts, roc, RestOf(trigs, k, c.joined))
<1>1. PICK m \in Nat : m = Len(trigs)
  BY LenProperties DEF InBxidOrder
<1>0. trigs[k] \in BxidTrig /\ times.start \in Int
  BY ElementOfSeq, TimesIs DEF InBxidOrder
<1>2. PICK id \in Nat, num \in Int, last \in Int, j \in Nat, start \in Int :
        /\ id = trigs[k].id /\ num = trigs[k].id + TrigidOffset /\ last = b.last /\ j = b.joined
        /\ start = times.start
  <2>1. PICK id \in Nat : id = trigs[k].id
    BY <1>0 DEF BxidTrig
  <2>2. PICK num \in Int : num = id + TrigidOffset
    <3>1. TrigidOffset \in Int
      BY BuilderAssumption
    <3> QED  BY <2>1, <3>1
  <2>3. b.last \in Int /\ b.joined \in Nat
    BY DEF ValidState
  <2> QED  BY <1>0, <2>1, <2>2, <2>3
<1>7. /\ InBxidOrder(start, trigs)
      /\ LoopOrdered(b.out, base, ts, roc, RestOf(trigs, k - 1, j))
  BY <1>2
<1>3. CASE c.out = b.out /\ c.joined = b.joined
  <2>1. RestOf(trigs, k, j) \subseteq RestOf(trigs, k - 1, j)
    <3>1. \A i \in 1 .. m : i > k => i > k - 1
      BY <1>1
    <3> QED  BY <1>1, <3>1 DEF RestOf
  <2> QED  BY <1>2, <1>3, <2>1, LoopSkips
<1>4. CASE WritesEmpty(roc, times, trigs, b, k, c)
  <2>1. PICK e \in BuiltEvent :
          /\ c.out = b.out \o (Missed(roc, last, num) \o <<e>>)
          /\ e.roc = roc /\ e.bxid = trigs[k].bxid /\ e.trigs = <<id>>
    BY <1>2, <1>4 DEF WritesEmpty
  <2>2. j < k /\ c.joined = j
    BY <1>1, <1>2, <1>4 DEF WritesEmpty
  <2>3. JoinedFrom(trigs, k, k, e.trigs)
    <3>1. Range(e.trigs) = {id} /\ Rising(e.trigs)
      BY <1>2, <2>1, OneTriggerOnly
    <3>2. k \in k .. Len(trigs) /\ \A i \in k .. k : i = k
      BY <1>1
    <3>3. k \in k .. k
      OBVIOUS
    <3> QED  BY <1>2, <3>1, <3>2, <3>3 DEF JoinedFrom
  <2>4. LoopOrdered(b.out \o (Missed(roc, last, num) \o <<e>>), base, ts, roc, RestOf(trigs, k, j))
    <3>1. k \in Int /\ j \in Nat /\ last \in Int /\ num \in Int /\ start \in Int /\ e \in BuiltEvent
      BY <1>1, <1>2, <2>1
    <3>2. j = k \/ (k = k /\ j = j)
      OBVIOUS
    <3> QED  BY <1>7, <2>1, <2>2, <2>3, <3>1, <3>2, ValidatedWrites, ZenonT(60)
  <2> QED  BY <2>1, <2>2, <2>4
<1>5. CASE WritesEvent(roc, times, hits, trigs, b, k, c)
  <2>1. PICK l : l = JoinedUpTo(k, SameBxid(trigs, k))
    OBVIOUS
  <2>2. PICK e \in BuiltEvent :
          /\ c.out = b.out \o (Missed(roc, last, num) \o <<e>>)
          /\ e.roc = roc /\ e.bxid = trigs[k].bxid /\ e.trigs = JoinedIds(trigs, k, SameBxid(trigs, k))
    BY <1>2, <1>5 DEF WritesEvent
  <2>3. j < k /\ c.joined = l
    BY <1>1, <1>2, <1>5, <2>1 DEF WritesEvent, JoinedUpTo
  <2>4. JoinedFrom(trigs, k, l, e.trigs)
    BY <1>2, <2>1, <2>2, JoinedIdsAre
  <2>5. l \in Nat
    BY <2>3 DEF ValidState
  <2>6. LoopOrdered(b.out \o (Missed(roc, last, num) \o <<e>>), base, ts, roc, RestOf(trigs, k, l))
    <3>1. l \in Int /\ j \in Nat /\ last \in Int /\ num \in Int /\ start \in Int /\ e \in BuiltEvent
      BY <1>2, <2>2, <2>5
    <3>2. l = l \/ (l = k /\ l = j)
      OBVIOUS
    <3> QED  BY <1>7, <2>2, <2>3, <2>4, <2>5, <3>1, <3>2, ValidatedWrites, ZenonT(60)
  <2> QED  BY <2>2, <2>3, <2>6
<1>6. Skipped(b, k, c) \/ DropsIncomplete(roc, trigs, b, k, c)
        => c.out = b.out /\ c.joined = b.joined
  BY DEF Skipped, DropsIncomplete
<1> QED  BY <1>3, <1>4, <1>5, <1>6 DEF Validated

LEMMA ValidatedInOrder ==
  ASSUME NEW s \in BuildState, NEW t, ProcessesCycle(s, t)
  PROVE  BuildsInOrder(s, t, First(s.ts))
<1>1. PICK roc \in Nat : roc = First(s.ts) /\ roc \in DOMAIN s.ts
  BY DEF ProcessesCycle
<1>2. PICK trigs : trigs = TriggerBxids(s.ts[roc])
  OBVIOUS
<1>3. PICK hits : hits = HitsOf(s, roc)
  OBVIOUS
<1>4. /\ InBxidOrder(s.ts[roc].start, trigs)
      /\ TakenFrom(trigs, s.ts[roc].trigs, Len(s.ts[roc].trigs))
      /\ \E f : ValidLoop(s, roc, hits, trigs, f) /\ t.out = f[Len(trigs)].out
  BY <1>1, <1>2, <1>3 DEF ProcessesCycle
<1>5. PICK f : ValidLoop(s, roc, hits, trigs, f) /\ t.out = f[Len(trigs)].out
  BY <1>4
<1>6. PICK times \in Times : times = s.ts[roc]
  BY <1>1, StateIs
<1>7. PICK n \in Nat : n = Len(trigs)
  BY <1>4, LenProperties DEF InBxidOrder
<1>8. OwnTriggers(trigs, s.ts, roc)
  BY <1>1, <1>4 DEF OwnTriggers, TakenFrom
<1>9. /\ f \in [0 .. n -> ValidState] /\ f[0].out = s.out /\ f[0].joined = 0
      /\ \A k \in 1 .. n : f[k] = ValidateTrigger(roc, times, hits, trigs, f[k - 1], k)
  BY <1>5, <1>6, <1>7 DEF ValidLoop
<1>10. PICK base \in Seq(BuiltEvent) : base = s.out
  BY StateIs
<1>11. hits \in SUBSET Hit
  BY <1>1, <1>3 DEF ProcessesCycle, Hits
<1> DEFINE S == {k \in 0 .. n : LoopOrdered(f[k].out, base, s.ts, roc, RestOf(trigs, k, f[k].joined))}
<1>12. 0 \in S
  BY <1>9, <1>10, LoopStarts
<1>13. ASSUME NEW k \in 1 .. n, k - 1 \in S
       PROVE  k \in S
  <2>1. PICK b \in ValidState : b = f[k - 1]
    BY <1>9
  <2>2. PICK c \in ValidState : c = f[k]
    BY <1>9
  <2>3. Validated(roc, times, hits, trigs, b, k, c)
    <3>1. c = ValidateTrigger(roc, times, hits, trigs, b, k)
      BY <1>9, <2>1, <2>2
    <3>2. InBxidOrder(times.start, trigs) /\ k \in 1 .. Len(trigs)
      BY <1>4, <1>6, <1>7
    <3> QED  BY <1>11, <3>1, <3>2, ValidateTriggerIs
  <2>4. LoopOrdered(b.out, base, s.ts, roc, RestOf(trigs, k - 1, b.joined))
    BY <1>13, <2>1
  <2>5. InBxidOrder(times.start, trigs) /\ k \in 1 .. Len(trigs)
    BY <1>4, <1>6, <1>7
  <2>6. LoopOrdered(c.out, base, s.ts, roc, RestOf(trigs, k, c.joined))
    BY <1>8, <2>3, <2>4, <2>5, ValidatedOrder
  <2>7. k \in 0 .. n
    OBVIOUS
  <2> QED  BY <2>2, <2>6, <2>7
<1> HIDE DEF S
<1>14. n \in S
  <2>1. 0 .. n \subseteq S
    BY <1>12, <1>13, UpToInduction
  <2> QED  BY <2>1
<1>15. LoopOrdered(t.out, s.out, s.ts, roc, RestOf(trigs, n, f[n].joined))
  BY <1>5, <1>7, <1>10, <1>14 DEF S
<1> QED  BY <1>1, <1>15, LoopEnds
-----------------------------------------------------------------------------
(* Building a cycle keeps the order. *)
OrderKept(s, t, dumpAll) ==
  Ordered(s.out) /\ EarlierIn(s.out, s.asic, s.ts, dumpAll)
    => Ordered(t.out) /\ EarlierIn(t.out, t.asic, t.ts, dumpAll)

LEMMA OrderTakenOut ==
  ASSUME mode # "BXID_VALIDATED", hwRoc \in Nat, nextTrig \in Nat,
         NEW s \in BuildState, NEW dumpAll \in BOOLEAN, MayBuild(s, dumpAll),
         DOMAIN s.asic \subseteq 0 .. hwRoc, TriggersOk(s.ts, nextTrig, lastTime),
         NEW t, TakenOut(s, t, First(s.asic)), BuildsInOrder(s, t, First(s.asic))
  PROVE  OrderKept(s, t, dumpAll)
<1>1. First(s.asic) \in Nat
  BY FirstFrozen
<1>2. PICK c \in Nat : c = First(s.asic)
  BY <1>1
<1>3. FirstPending(s, t, c, dumpAll)
  BY <1>2, TakenOutPending
<1>4. BuildsInOrder(s, t, c)
  BY <1>2
<1> QED  BY <1>3, <1>4, OrderBuilt DEF OrderKept

(* The cycle that is processed is not newer than the oldest ASIC data. *)
LEMMA ProcessedFrozen ==
  ASSUME hwRoc \in Nat, NEW s \in BuildState, NEW dumpAll \in BOOLEAN, MayBuild(s, dumpAll),
         DOMAIN s.asic \subseteq 0 .. hwRoc, NEW c \in Nat, c <= First(s.asic)
  PROVE  FrozenIn(c, dumpAll)
<1>1. PICK a \in Nat : a = First(s.asic) /\ FrozenIn(a, dumpAll)
  BY FirstFrozen
<1>2. PICK h \in Nat, d \in Nat : h = hwRoc /\ d = DataLag
  BY BuilderAssumption
<1>3. c <= a
  BY <1>1
<1>4. a < h - d => c < h - d
  BY <1>1, <1>2, <1>3
<1> QED  BY <1>1, <1>2, <1>4 DEF FrozenIn

LEMMA OrderValidated ==
  ASSUME mode = "BXID_VALIDATED", hwRoc \in Nat, nextTrig \in Nat,
         NEW s \in BuildState, NEW dumpAll \in BOOLEAN, MayBuild(s, dumpAll),
         DOMAIN s.asic \subseteq 0 .. hwRoc, TriggersOk(s.ts, nextTrig, lastTime)
  PROVE  OrderKept(s, BuildValidatedCycle(s), dumpAll)
<1>1. PICK t : t = BuildValidatedCycle(s)
  OBVIOUS
<1>2. DropsCycle(s, t) \/ ProcessesCycle(s, t)
  BY <1>1, BuildValidatedCycleIs DEF MayBuild
<1>3. CASE DropsCycle(s, t)
  <2>1. t.ts = s.ts /\ t.out = s.out
    BY <1>3 DEF DropsCycle
  <2> QED  BY <1>1, <2>1 DEF OrderKept, EarlierIn, Pending
<1>4. CASE ProcessesCycle(s, t)
  <2>1. PICK c \in Nat : /\ c = First(s.ts) /\ c \in DOMAIN s.ts /\ c <= First(s.asic)
                         /\ t.ts = KeepOnly(s.ts, {r \in DOMAIN s.ts : r > c})
    BY <1>4 DEF ProcessesCycle
  <2>2. PICK g : g = {r \in DOMAIN s.ts : r > c}
    OBVIOUS
  <2>3. t.ts = KeepOnly(s.ts, g)
    BY <2>1, <2>2
  <2>4. DOMAIN t.ts = DOMAIN s.ts \cap g /\ \A r \in DOMAIN t.ts : t.ts[r] = s.ts[r]
    BY <2>3 DEF KeepOnly
  <2>5. DOMAIN s.ts \in SUBSET Nat
    BY StateIs
  <2>6. FrozenIn(c, dumpAll)
    BY <2>1, ProcessedFrozen
  <2>7. \A r \in DOMAIN t.ts : c < r /\ r \in DOMAIN s.ts
    BY <2>2, <2>4, <2>5
  <2>8. FirstPending(s, t, c, dumpAll)
    BY <2>1, <2>4, <2>6, <2>7 DEF FirstPending, Pending
  <2>9. BuildsInOrder(s, t, c)
    BY <1>4, <2>1, ValidatedInOrder
  <2> QED  BY <1>1, <2>8, <2>9, OrderBuilt DEF OrderKept
<1> QED  BY <1>2, <1>3, <1>4

LEMMA OrderCycle ==
  ASSUME mode \in AllModes, hwRoc \in Nat, nextTrig \in Nat,
         NEW s \in BuildState, NEW dumpAll \in BOOLEAN, MayBuild(s, dumpAll),
         DOMAIN s.asic \subseteq 0 .. hwRoc, TriggersOk(s.ts, nextTrig, lastTime)
  PROVE  OrderKept(s, BuildCycle(s), dumpAll)
<1>0. DOMAIN s.asic # {}
  BY DEF MayBuild
<1>1. CASE mode = "ROC"
  <2>1. PICK t : t = BuildROCCycle(s)
    OBVIOUS
  <2>2. TakenOut(s, t, First(s.asic)) /\ BuildsInOrder(s, t, First(s.asic))
    BY <1>0, <2>1, ROCInOrder
  <2>3. BuildCycle(s) = t /\ mode # "BXID_VALIDATED"
    BY <1>1, <2>1 DEF BuildCycle
  <2> QED  BY <2>2, <2>3, OrderTakenOut
<1>2. CASE mode = "TRIGGERID"
  <2>1. PICK t : t = BuildTRIGIDCycle(s)
    OBVIOUS
  <2>2. TakenOut(s, t, First(s.asic)) /\ BuildsInOrder(s, t, First(s.asic))
    BY <1>0, <2>1, TRIGIDInOrder
  <2>3. BuildCycle(s) = t /\ mode # "BXID_VALIDATED"
    BY <1>2, <2>1 DEF BuildCycle
  <2> QED  BY <2>2, <2>3, OrderTakenOut
<1>3. CASE mode = "BXID_ALL"
  <2>1. PICK t : t = BuildBXIDCycle(s)
    OBVIOUS
  <2>2. TakenOut(s, t, First(s.asic)) /\ BuildsInOrder(s, t, First(s.asic))
    BY <1>0, <2>1, BXIDInOrder
  <2>3. BuildCycle(s) = t /\ mode # "BXID_VALIDATED"
    BY <1>3, <2>1 DEF BuildCycle
  <2> QED  BY <2>2, <2>3, OrderTakenOut
<1>4. CASE mode = "BXID_VALIDATED"
  <2>1. BuildCycle(s) = BuildValidatedCycle(s)
    BY <1>4 DEF BuildCycle
  <2> QED  BY <1>4, <2>1, OrderValidated
<1> QED  BY <1>1, <1>2, <1>3, <1>4 DEF AllModes

(* The run ends: all is frozen. *)
LEMMA EarlierWhenEnded ==
  \A q, asic, ts : EarlierIn(q, asic, ts, FALSE) => EarlierIn(q, asic, ts, TRUE)
BY DEF EarlierIn, OfEarlierCycle, OfEarlierTriggers, FrozenIn

LEMMA OrderStepBuild ==
  ASSUME MapsInv, OrderInv, Running, NEW dumpAll \in BOOLEAN, buildEvents(dumpAll),
         UNCHANGED <<config, minLast, hwRoc, nextTrig>>,
         phase' = IF dumpAll THEN "ended" ELSE phase
  PROVE  OrderInv'
<1> DEFINE V == {s \in BuildState : /\ Shrinks(Current, s) /\ Ordered(s.out)
                                    /\ EarlierIn(s.out, s.asic, s.ts, dumpAll)}
<1>1. Current \in V
  <2>1. Ordered(queued) /\ EarlierIn(queued, asicData, tsData, FALSE)
    BY DEF OrderInv, Running
  <2>2. EarlierIn(queued, asicData, tsData, dumpAll)
    BY <2>1, EarlierWhenEnded
  <2> QED  BY <2>1, <2>2, CurrentIs, ShrinksRefl
<1>2. ASSUME NEW s \in BuildState, Shrinks(Current, s), Ordered(s.out),
             EarlierIn(s.out, s.asic, s.ts, dumpAll), MayBuild(s, dumpAll)
      PROVE  BuildCycle(s) \in V
  <2>1. /\ BuildCycle(s) \in BuildState /\ Shrinks(s, BuildCycle(s))
    BY <1>2, CurrentIs, CycleBuilds DEF MayBuild, BuildsCycle
  <2>2. Shrinks(Current, BuildCycle(s))
    BY <1>2, <2>1, ShrinksFurther
  <2>3. /\ hwRoc \in Nat /\ nextTrig \in Nat /\ DOMAIN asicData \subseteq 0 .. hwRoc
        /\ TriggersOk(tsData, nextTrig, lastTime) /\ mode \in AllModes
    BY DEF MapsInv, BuilderTypeOK, CyclesBegun
  <2>4. /\ DOMAIN s.asic \subseteq 0 .. hwRoc
        /\ DOMAIN s.ts \subseteq DOMAIN tsData /\ \A r \in DOMAIN s.ts : s.ts[r] = tsData[r]
    BY <1>2, <2>3, CurrentIs DEF Shrinks
  <2>5. TriggersOk(s.ts, nextTrig, lastTime)
    BY <2>3, <2>4, TriggersShrink
  <2>6. OrderKept(s, BuildCycle(s), dumpAll)
    BY <1>2, <2>3, <2>4, <2>5, OrderCycle
  <2>7. /\ Ordered(BuildCycle(s).out)
        /\ EarlierIn(BuildCycle(s).out, BuildCycle(s).asic, BuildCycle(s).ts, dumpAll)
    BY <1>2, <2>6 DEF OrderKept
  <2> QED  BY <2>1, <2>2, <2>7
<1>3. V \in SUBSET BuildState /\ \A s \in V : MayBuild(s, dumpAll) => BuildCycle(s) \in V
  BY <1>2
<1> HIDE DEF V
<1>4. PICK t \in V : Becomes(t)
  BY <1>1, <1>3, CurrentIs, BuildEventsKeep
<1>5. Ordered(queued') /\ EarlierIn(queued', asicData', tsData', dumpAll)
  BY <1>4 DEF V, Becomes
<1>6. UNCHANGED <<mode, hwRoc, nextTrig>>
  BY DEF config
<1>7. (phase' = "ended") = dumpAll
  BY DEF Running
<1>8. EarlierIn(queued, asicData, tsData, phase = "ended")'
  BY <1>5, <1>6, <1>7 DEF EarlierIn, OfEarlierCycle, OfEarlierTriggers, Pending, FrozenIn
<1>9. Ordered(queued)'
  BY <1>5 DEF Ordered, MayPrecede, Rising
<1> QED  BY <1>8, <1>9 DEF OrderInv

(* What leaves the maps and the events alone. *)
LEMMA OrderUnchanged ==
  ASSUME MapsInv, OrderInv, hwRoc' \in Nat, hwRoc' >= hwRoc,
         UNCHANGED <<mode, asicData, tsData, queued, nextTrig>>,
         (phase' # "ended" /\ phase # "ended") \/ UNCHANGED <<phase, hwRoc>>
  PROVE  OrderInv'
<1>1. /\ Ordered(queued) /\ EarlierIn(queued, asicData, tsData, phase = "ended")
      /\ tsData \in Maps(Times) /\ queued \in Seq(BuiltEvent)
  BY DEF OrderInv, MapsInv, BuilderTypeOK
<1>2. hwRoc \in Nat /\ hwRoc <= hwRoc' /\ (phase = "ended" => phase' = "ended")
  BY DEF MapsInv, BuilderTypeOK
<1>3. \A r \in Int : FrozenIn(r, phase = "ended") => FrozenIn(r, phase = "ended")'
  BY <1>2, FrozenStays
<1>4. DOMAIN tsData \subseteq Int
  BY <1>1, MapIs
<1>5. \A i \in 1 .. Len(queued) : queued[i] \in BuiltEvent
  BY <1>1, ElementOfSeq
<1>6. PICK P : P = Pending(asicData, tsData) /\ P = Pending(asicData, tsData)'
  BY DEF Pending
<1>7. ASSUME NEW i \in 1 .. Len(queued)
      PROVE  /\ OfEarlierCycle(queued[i], P, phase = "ended")'
             /\ OfEarlierTriggers(queued[i], P, tsData, phase = "ended")'
  <2>1. PICK e \in BuiltEvent : e = queued[i]
    BY <1>5
  <2>2. /\ OfEarlierCycle(e, P, phase = "ended")
        /\ OfEarlierTriggers(e, P, tsData, phase = "ended")
    BY <1>1, <1>6, <2>1 DEF EarlierIn
  <2>3. e.roc \in Int
    BY DEF BuiltEvent
  <2>4. OfEarlierCycle(e, P, phase = "ended")'
    BY <1>3, <2>2, <2>3 DEF OfEarlierCycle
  <2>5. OfEarlierTriggers(e, P, tsData, phase = "ended")'
    BY <1>3, <1>4, <2>2 DEF OfEarlierTriggers
  <2> QED  BY <2>1, <2>4, <2>5
<1>8. EarlierIn(queued, asicData, tsData, phase = "ended")'
  BY <1>6, <1>7 DEF EarlierIn
<1>9. Ordered(queued)'
  BY <1>1 DEF Ordered, MayPrecede, Rising
<1> QED  BY <1>8, <1>9 DEF OrderInv

(* A timestamp packet is of the current cycle, a new trigger after all others. *)
LEMMA OrderStepTimes ==
  ASSUME MapsInv, OrderInv, TimestampPacket, Running
  PROVE  OrderInv'
<1>1. /\ PacketFiled(tsData, tsData') /\ nextTrig' \in Nat /\ lastTime' \in Int /\ nextTrig <= nextTrig'
      /\ phase' # "ended" /\ phase # "ended"
      /\ UNCHANGED <<mode, asicData, queued, hwRoc>>
  BY DEF TimestampPacket, config, Running
<1>2. /\ Ordered(queued) /\ EarlierIn(queued, asicData, tsData, FALSE)
      /\ tsData \in Maps(Times) /\ hwRoc \in Nat /\ nextTrig \in Nat /\ queued \in Seq(BuiltEvent)
      /\ DOMAIN tsData \subseteq 0 .. hwRoc /\ DataLag \in Nat
  BY <1>1, BuilderAssumption DEF OrderInv, MapsInv, BuilderTypeOK, CyclesBegun
<1>3. PICK w : w = tsData'
  OBVIOUS
<1>4. PacketFiled(tsData, w)
  BY <1>1, <1>3
<1>5. /\ DOMAIN w \subseteq DOMAIN tsData \cup {hwRoc}
      /\ \A r \in DOMAIN w : \A i \in 1 .. Len(w[r].trigs) :
         \/ r \in DOMAIN tsData /\ i \in 1 .. Len(tsData[r].trigs) /\ w[r].trigs[i] = tsData[r].trigs[i]
         \/ /\ r = hwRoc /\ nextTrig' = nextTrig + 1
            /\ w[r].trigs[i].id = nextTrig /\ w[r].trigs[i].ts = lastTime'
  BY <1>1, <1>2, <1>4, FiledTrigs
<1>6. PICK P, R : P = Pending(asicData, tsData) /\ R = Pending(asicData, w)
  OBVIOUS
<1>7. R \subseteq P \cup {hwRoc}
  BY <1>5, <1>6 DEF Pending
<1>8. Pending(asicData, tsData)' = R
  BY <1>1, <1>3, <1>6 DEF Pending
<1>9. PICK h \in Nat, d \in Nat, n \in Nat, n2 \in Nat :
        h = hwRoc /\ d = DataLag /\ n = nextTrig /\ n2 = nextTrig' /\ n <= n2
  BY <1>1, <1>2
<1>10. \A r : /\ FrozenIn(r, FALSE) <=> r < h - d
              /\ FrozenIn(r, phase = "ended")' <=> r < h - d
  BY <1>1, <1>9 DEF FrozenIn
<1>11. ASSUME NEW e \in BuiltEvent, OfEarlierCycle(e, P, FALSE), OfEarlierTriggers(e, P, tsData, FALSE)
       PROVE  /\ OfEarlierCycle(e, R, phase = "ended")'
              /\ OfEarlierTriggers(e, R, w, phase = "ended")'
  <2>1. e.roc \in Int /\ Range(e.trigs) \subseteq Int
    <3>1. e.roc \in Int /\ e.trigs \in Seq(Int)
      BY DEF BuiltEvent
    <3> QED  BY <3>1, RangeIs
  <2>2. ASSUME e.kind # "dummy"
        PROVE  FrozenIn(e.roc, phase = "ended")' /\ \A r \in R : e.roc < r
    <3>1. e.roc < h - d /\ \A r \in P : e.roc < r
      BY <1>10, <1>11, <2>2 DEF OfEarlierCycle
    <3>2. e.roc < h
      BY <1>9, <2>1, <3>1
    <3>3. \A r \in R : e.roc < r
      BY <1>7, <1>9, <3>1, <3>2
    <3> QED  BY <1>10, <3>1, <3>3
  <2>3. OfEarlierCycle(e, R, phase = "ended")'
    BY <2>2 DEF OfEarlierCycle
  <2>4. ASSUME NEW a \in Range(e.trigs)
        PROVE  /\ a < nextTrig'
               /\ \A r \in DOMAIN w : r \in R \/ ~FrozenIn(r, phase = "ended")' =>
                    \A i \in 1 .. Len(w[r].trigs) : a < w[r].trigs[i].id
    <3>1. a \in Int /\ n \in Int /\ n2 \in Int /\ h \in Int /\ d \in Nat
      BY <1>9, <2>1
    <3>2. a < n
      BY <1>9, <1>11 DEF OfEarlierTriggers
    <3>3. a < nextTrig'
      BY <1>9, <3>1, <3>2
    <3>4. ~(h < h - d)
      BY <3>1
    <3>5. ASSUME NEW r \in DOMAIN w, r \in R \/ ~FrozenIn(r, phase = "ended")',
                 NEW i \in 1 .. Len(w[r].trigs)
          PROVE  a < w[r].trigs[i].id
      <4>1. CASE /\ r \in DOMAIN tsData /\ i \in 1 .. Len(tsData[r].trigs)
                 /\ w[r].trigs[i] = tsData[r].trigs[i]
        <5>1. r \in P \/ ~FrozenIn(r, FALSE)
          BY <1>7, <1>9, <1>10, <3>4, <3>5
        <5> QED  BY <1>11, <4>1, <5>1 DEF OfEarlierTriggers
      <4>2. CASE w[r].trigs[i].id = nextTrig
        BY <1>9, <3>2, <4>2
      <4> QED  BY <1>5, <3>5, <4>1, <4>2
    <3> QED  BY <3>3, <3>5
  <2>5. OfEarlierTriggers(e, R, w, phase = "ended")'
    BY <2>4 DEF OfEarlierTriggers
  <2> QED  BY <2>3, <2>5
<1>12. \A i \in 1 .. Len(queued) : queued[i] \in BuiltEvent
  BY <1>2, ElementOfSeq
<1>13. ASSUME NEW i \in 1 .. Len(queued)
       PROVE  /\ OfEarlierCycle(queued[i], R, phase = "ended")'
              /\ OfEarlierTriggers(queued[i], R, tsData, phase = "ended")'
  <2>1. PICK e \in BuiltEvent : e = queued[i]
    BY <1>12
  <2>2. OfEarlierCycle(e, P, FALSE) /\ OfEarlierTriggers(e, P, tsData, FALSE)
    BY <1>2, <1>6, <2>1 DEF EarlierIn
  <2>3. /\ OfEarlierCycle(e, R, phase = "ended")'
        /\ OfEarlierTriggers(e, R, w, phase = "ended")'
    BY <1>11, <2>2
  <2>4. queued'[i] = e /\ tsData' = w
    BY <1>1, <1>3, <2>1
  <2>5. OfEarlierCycle(queued[i], R, phase = "ended")'
    BY <2>3, <2>4 DEF OfEarlierCycle
  <2>6. OfEarlierTriggers(queued[i], R, tsData, phase = "ended")'
    BY <2>3, <2>4 DEF OfEarlierTriggers
  <2> QED  BY <2>5, <2>6
<1>14. EarlierIn(queued, asicData, tsData, phase = "ended")'
  BY <1>1, <1>8, <1>13 DEF EarlierIn
<1>15. Ordered(queued)'
  BY <1>1, <1>2 DEF Ordered, MayPrecede, Rising
<1> QED  BY <1>14, <1>15 DEF OrderInv

(* A late packet is of a cycle that is not frozen. *)
LEMMA OrderStepData ==
  ASSUME MapsInv, OrderInv, DataPacket
  PROVE  OrderInv'
<1>1. PICK roc \in Nat, new \in Hits : \E last \in Nat : DataStored(roc, new, last)
  BY DataStoredIs
<1>2. PICK last \in Nat : DataStored(roc, new, last)
  BY <1>1
<1>3. /\ hwRoc - DataLag <= roc /\ phase # "ended"
      /\ asicData' = Put(asicData, roc, At(asicData, roc, {}) \cup new)
      /\ UNCHANGED <<mode, tsData, queued, hwRoc, phase, nextTrig>>
  BY <1>2 DEF DataStored, DataPacket, config, Running
<1>4. /\ Ordered(queued) /\ EarlierIn(queued, asicData, tsData, FALSE)
      /\ hwRoc \in Nat /\ DataLag \in Nat /\ queued \in Seq(BuiltEvent)
  BY <1>3, BuilderAssumption DEF OrderInv, MapsInv, BuilderTypeOK
<1>5. DOMAIN asicData' = DOMAIN asicData \cup {roc}
  BY <1>3 DEF Put
<1>6. PICK P, R : P = Pending(asicData, tsData) /\ R = Pending(asicData, tsData)'
  OBVIOUS
<1>7. R \subseteq P \cup {roc}
  BY <1>3, <1>5, <1>6 DEF Pending
<1>8. PICK h \in Nat, d \in Nat : h = hwRoc /\ d = DataLag /\ h - d <= roc
  BY <1>3, <1>4
<1>9. \A r : /\ FrozenIn(r, FALSE) <=> r < h - d
             /\ FrozenIn(r, phase = "ended")' <=> r < h - d
  BY <1>3, <1>8 DEF FrozenIn
<1>10. ~(roc < h - d)
  BY <1>8
<1>11. \A i \in 1 .. Len(queued) : queued[i] \in BuiltEvent
  BY <1>4, ElementOfSeq
<1>12. ASSUME NEW i \in 1 .. Len(queued)
       PROVE  /\ OfEarlierCycle(queued[i], R, phase = "ended")'
              /\ OfEarlierTriggers(queued[i], R, tsData, phase = "ended")'
  <2>1. PICK e \in BuiltEvent : e = queued[i]
    BY <1>11
  <2>2. OfEarlierCycle(e, P, FALSE) /\ OfEarlierTriggers(e, P, tsData, FALSE)
    BY <1>4, <1>6, <2>1 DEF EarlierIn
  <2>3. queued'[i] = e /\ tsData' = tsData /\ nextTrig' = nextTrig
    BY <1>3, <2>1
  <2>4. ASSUME e.kind # "dummy"
        PROVE  FrozenIn(e.roc, phase = "ended")' /\ \A r \in R : e.roc < r
    <3>1. e.roc < h - d /\ \A r \in P : e.roc < r
      BY <1>9, <2>2, <2>4 DEF OfEarlierCycle
    <3>2. e.roc \in Int /\ roc \in Int
      BY DEF BuiltEvent
    <3>3. e.roc < roc
      BY <1>8, <3>1, <3>2
    <3> QED  BY <1>7, <1>9, <3>1, <3>3
  <2>5. OfEarlierCycle(queued[i], R, phase = "ended")'
    BY <2>3, <2>4 DEF OfEarlierCycle
  <2>6. \A r : r \in R \/ ~FrozenIn(r, phase = "ended")' => r \in P \/ ~FrozenIn(r, FALSE)
    BY <1>7, <1>9, <1>10
  <2>7. OfEarlierTriggers(queued[i], R, tsData, phase = "ended")'
    BY <2>2, <2>3, <2>6 DEF OfEarlierTriggers
  <2> QED  BY <2>5, <2>7
<1>13. EarlierIn(queued, asicData, tsData, phase = "ended")'
  BY <1>3, <1>6, <1>12 DEF EarlierIn
<1>14. Ordered(queued)'
  BY <1>3, <1>4 DEF Ordered, MayPrecede, Rising
<1> QED  BY <1>13, <1>14 DEF OrderInv

LEMMA OrderNext ==
  MapsInv /\ OrderInv /\ [BuilderNext]_builderVars => OrderInv'
<1> SUFFICES ASSUME MapsInv, OrderInv, [BuilderNext]_builderVars PROVE OrderInv'
  OBVIOUS
<1>0. hwRoc \in Nat
  BY DEF MapsInv, BuilderTypeOK
<1>1. CASE StartPacket
  BY <1>1, StartFiled, OrderStepTimes DEF StartPacket
<1>2. CASE StopPacket
  BY <1>2, StopFiled, OrderStepTimes DEF StopPacket
<1>3. CASE TriggerPacket
  BY <1>3, TriggerFiled, OrderStepTimes DEF TriggerPacket
<1>4. CASE NextCycle
  <2>1. /\ UNCHANGED <<mode, asicData, tsData, queued, nextTrig>> /\ hwRoc' = hwRoc + 1
        /\ phase # "ended" /\ phase' # "ended"
    BY <1>4 DEF NextCycle, Running, config, maps
  <2>2. hwRoc' \in Nat /\ hwRoc' >= hwRoc
    BY <1>0, <2>1
  <2> QED  BY <2>1, <2>2, OrderUnchanged
<1>5. CASE DataPacket
  BY <1>5, OrderStepData
<1>6. CASE EndOfRead
  <2>1. PICK d \in BOOLEAN : d = FALSE
    OBVIOUS
  <2>2. /\ buildEvents(d) /\ Running
        /\ UNCHANGED <<config, minLast, hwRoc, phase, nextTrig>>
    BY <1>6, <2>1 DEF EndOfRead, lda
  <2>3. phase' = IF d THEN "ended" ELSE phase
    BY <2>1, <2>2
  <2> QED  BY <2>2, <2>3, OrderStepBuild
<1>7. CASE RunEnds
  <2>1. PICK d \in BOOLEAN : d = TRUE
    OBVIOUS
  <2>2. /\ buildEvents(d) /\ Running /\ phase' = "ended"
        /\ UNCHANGED <<config, minLast, hwRoc, nextTrig>>
    BY <1>7, <2>1 DEF RunEnds
  <2>3. phase' = IF d THEN "ended" ELSE phase
    BY <2>1, <2>2
  <2> QED  BY <2>2, <2>3, OrderStepBuild
<1>8. CASE UNCHANGED builderVars
  <2>1. UNCHANGED <<mode, asicData, tsData, queued, nextTrig, phase, hwRoc>>
    BY <1>8 DEF builderVars, config, maps, lda
  <2>2. hwRoc' \in Nat /\ hwRoc' >= hwRoc
    BY <1>0, <2>1
  <2> QED  BY <2>1, <2>2, OrderUnchanged
<1> QED  BY <1>1, <1>2, <1>3, <1>4, <1>5, <1>6, <1>7, <1>8 DEF BuilderNext

LEMMA OrderInit == BuilderInit => OrderInv
<1> SUFFICES ASSUME BuilderInit PROVE OrderInv
  OBVIOUS
<1>1. queued = <<>> /\ Len(queued) = 0
  BY DEF BuilderInit
<1> QED  BY <1>1 DEF OrderInv, Ordered, EarlierIn

(* The events leave in the order of their cycles and, within a cycle, of their
   BXIDs, and the triggers of the whole queue are strictly increasing, joined
   ones included: in every mode, whatever arrives late or is lost, and however
   many cycles are built at once.  No trigger is in two events. *)
THEOREM OutputInOrder == BuilderSpec => []OutputOrdered
<1>1. OrderInv => OutputOrdered
  BY DEF OrderInv, Ordered, Rising, OutputOrdered
<1> QED  BY <1>1, MapsAlways, OrderInit, OrderNext, PTL DEF BuilderSpec
-----------------------------------------------------------------------------
(* Validated building: what became of a trigger of cycle r.  It is in an event of
   its BXID, or left out with hits that may be incomplete. *)
TriggerIn(e, r, t) ==
  e.roc = r /\ e.bxid = t.bxid /\ t.id \in Range(e.trigs) /\ Covers(e, t.ts)

MayLeaveOut(r, bxid) ==
  ~dummies /\ MayBeIncomplete(r, bxid) /\ <<r, bxid>> \in seenHits

Accounted(q, r, t) ==
  (\E e \in Range(q) : TriggerIn(e, r, t)) \/ MayLeaveOut(r, t.bxid)

CycleAccounted(q, r, trigs) == \A i \in 1 .. Len(trigs) : Accounted(q, r, trigs[i])

(* The cycles that are not in the map of timestamps any more. *)
BuiltIn(q, ts, dumpAll) ==
  \A r \in DOMAIN seenTs \ DOMAIN ts :
    FrozenIn(r, dumpAll) /\ CycleAccounted(q, r, TriggerBxids(seenTs[r]))

SeenIn(asic, ts) ==
  /\ \A r \in DOMAIN asic : asic[r] \subseteq seenHits
  /\ \A r \in DOMAIN ts : r \in DOMAIN seenTs /\ ts[r] = seenTs[r]

BuiltInv ==
  mode = "BXID_VALIDATED" =>
    SeenIn(asicData, tsData) /\ BuiltIn(queued, tsData, phase = "ended")

(* The interval of a BXID fits the times that are converted to it. *)
LEMMA CoversOwn ==
  ASSUME NEW start \in Int, NEW x \in Int, NEW e, e.bxid = TriggerBxid(start, x),
         e.from = BxidBegin(start, e.bxid), e.to = BxidEnd(start, e.bxid)
  PROVE  Covers(e, x)
<1>1. PICK off \in Nat, w \in Nat \ {0} : off = Bxid0Offset /\ w = BxidWidth
  BY BuilderAssumption
<1>2. PICK a \in Int : a = x - start - off
  OBVIOUS
<1>3. PICK b \in Int : b = Quotient(a, w)
  BY QuotientIs
<1>4. e.bxid = b
  BY <1>1, <1>2, <1>3 DEF TriggerBxid
<1>5. PICK f \in Int, g \in Int : f = start + off + b * w - 1 /\ g = start + off + (b + 1) * w + 1
  OBVIOUS
<1>6. e.from = f /\ e.to = g
  BY <1>1, <1>4, <1>5 DEF BxidBegin, BxidEnd
<1>7. PICK c \in Int : c = w * b
  OBVIOUS
<1>8. f = start + off + c - 1 /\ g = start + off + c + w + 1
  <2>1. b * w = c /\ (b + 1) * w = c + w
    BY <1>7
  <2> QED  BY <1>5, <2>1
<1>9. /\ a >= 0 => b >= 0 /\ c <= a /\ a < c + w
      /\ ~(a >= 0) => b <= 0 /\ a <= c /\ c - w < a
  BY <1>3, <1>7, QuotientIs
<1>10. b = 0 => c = 0
  BY <1>7
<1>11. x > f - (IF b > 0 THEN 0 ELSE w - 1)
  BY <1>2, <1>8, <1>9
<1>12. x < (IF b >= 0 THEN g ELSE f + 2)
  BY <1>2, <1>8, <1>9, <1>10
<1> QED  BY <1>1, <1>4, <1>6, <1>11, <1>12 DEF Covers

(* More events: what was accounted for stays so, and so is what the last event
   is for. *)
LEMMA RangeWritten ==
  ASSUME NEW q \in Seq(BuiltEvent), NEW m \in Seq(BuiltEvent), NEW e \in BuiltEvent
  PROVE  /\ q \o (m \o <<e>>) \in Seq(BuiltEvent)
         /\ Range(q) \subseteq Range(q \o (m \o <<e>>))
         /\ e \in Range(q \o (m \o <<e>>))
<1>1. PICK b : b = m \o <<e>>
  OBVIOUS
<1>2. /\ <<e>> \in Seq(BuiltEvent) /\ Len(<<e>>) = 1 /\ <<e>>[1] = e
  OBVIOUS
<1>3. PICK x \in Seq(BuiltEvent) : x = <<e>> /\ Len(x) = 1 /\ x[1] = e
  BY <1>2
<1>4. /\ b \in Seq(BuiltEvent) /\ Len(b) = Len(m) + 1 /\ b[Len(b)] = e
  <2>1. /\ m \o x \in Seq(BuiltEvent) /\ Len(m \o x) = Len(m) + Len(x)
        /\ \A i \in 1 .. Len(m) + Len(x) :
             (m \o x)[i] = IF i <= Len(m) THEN m[i] ELSE x[i - Len(m)]
    BY ConcatProperties
  <2>2. PICK k \in Nat : k = Len(m)
    BY LenProperties
  <2>3. k + 1 \in 1 .. k + 1 /\ ~(k + 1 <= k) /\ (k + 1) - k = 1
    OBVIOUS
  <2>4. (m \o x)[k + 1] = x[1]
    BY <1>3, <2>1, <2>2, <2>3
  <2> QED  BY <1>1, <1>3, <2>1, <2>2, <2>4
<1>5. PICK n \in Nat, k \in Nat : n = Len(q) /\ k = Len(m)
  BY LenProperties
<1>6. /\ q \o b \in Seq(BuiltEvent) /\ Len(q \o b) = n + (k + 1)
      /\ \A i \in 1 .. n + (k + 1) : (q \o b)[i] = IF i <= n THEN q[i] ELSE b[i - n]
  <2>1. /\ q \o b \in Seq(BuiltEvent) /\ Len(q \o b) = Len(q) + Len(b)
        /\ \A i \in 1 .. Len(q) + Len(b) :
             (q \o b)[i] = IF i <= Len(q) THEN q[i] ELSE b[i - Len(q)]
    BY <1>4, ConcatProperties
  <2>2. Len(q) = n /\ Len(b) = k + 1
    BY <1>4, <1>5
  <2> QED  BY <2>1, <2>2
<1>7. PICK r \in Seq(BuiltEvent) : r = q \o b
  BY <1>6
<1>8. \A i \in 1 .. n : i \in 1 .. Len(r) /\ r[i] = q[i]
  BY <1>6, <1>7
<1>9. Range(q) \subseteq Range(r)
  <2> SUFFICES ASSUME NEW y \in Range(q) PROVE y \in Range(r)
    OBVIOUS
  <2>1. PICK i \in 1 .. n : y = q[i]
    BY <1>5, RangeIs
  <2> QED  BY <1>8, <2>1, RangeIs
<1>10. e \in Range(r)
  <2>1. n + (k + 1) \in 1 .. n + (k + 1) /\ ~(n + (k + 1) <= n) /\ n + (k + 1) - n = k + 1
    OBVIOUS
  <2>2. r[n + (k + 1)] = e /\ n + (k + 1) \in 1 .. Len(r)
    BY <1>4, <1>5, <1>6, <1>7, <2>1
  <2> QED  BY <2>2, RangeIs
<1> QED  BY <1>1, <1>6, <1>7, <1>9, <1>10

LEMMA StillAccounted ==
  \A p, q, r, t : Range(p) \subseteq Range(q) /\ Accounted(p, r, t) => Accounted(q, r, t)
BY DEF Accounted
-----------------------------------------------------------------------------
(* The trigger loop: after trigger k, all up to k and those that were joined are
   accounted for. *)
AccountedTo(b, roc, bxids, trigs, k) ==
  /\ b.left \subseteq bxids
  /\ \A i \in 1 .. Len(trigs) : i <= k \/ i <= b.joined => Accounted(b.out, roc, trigs[i])

(* An event for the triggers k to l accounts for them. *)
LEMMA EventAccounts ==
  ASSUME NEW roc \in Nat, NEW start \in Int, NEW trigs, InBxidOrder(start, trigs),
         NEW q, NEW k \in 1 .. Len(trigs), NEW l \in Int,
         NEW e \in Range(q), e.roc = roc, e.bxid = trigs[k].bxid,
         e.from = BxidBegin(start, trigs[k].bxid), e.to = BxidEnd(start, trigs[k].bxid),
         JoinedFrom(trigs, k, l, e.trigs)
  PROVE  \A i \in k .. l : Accounted(q, roc, trigs[i])
<1> SUFFICES ASSUME NEW i \in k .. l PROVE Accounted(q, roc, trigs[i])
  OBVIOUS
<1>1. PICK m \in Nat : m = Len(trigs)
  BY LenProperties DEF InBxidOrder
<1>2. l \in k .. m /\ trigs[i].bxid = trigs[k].bxid /\ trigs[i].id \in Range(e.trigs)
  BY <1>1 DEF JoinedFrom
<1>3. i \in 1 .. m
  BY <1>1, <1>2
<1>4. trigs[i] \in BxidTrig /\ trigs[i].bxid = TriggerBxid(start, trigs[i].ts)
  BY <1>1, <1>3, ElementOfSeq DEF InBxidOrder
<1>5. PICK x \in Int : x = trigs[i].ts
  BY <1>4 DEF BxidTrig
<1>6. e.bxid = TriggerBxid(start, x) /\ e.from = BxidBegin(start, e.bxid) /\ e.to = BxidEnd(start, e.bxid)
  BY <1>2, <1>4, <1>5
<1>7. Covers(e, x)
  BY <1>6, CoversOwn
<1>8. TriggerIn(e, roc, trigs[i])
  BY <1>2, <1>5, <1>7 DEF TriggerIn
<1> QED  BY <1>8 DEF Accounted

(* The BXID a trigger is matched to. *)
LooksFrom(left, x) ==
  /\ Looked(Remaining(left, x)) \in Nat /\ x <= Looked(Remaining(left, x))
  /\ Remaining(left, x) \subseteq left
  /\ Remaining(left, x) = {} => Looked(Remaining(left, x)) > x
  /\ Remaining(left, x) # {} => Looked(Remaining(left, x)) \in Remaining(left, x)

LEMMA LooksIs ==
  \A left \in SUBSET Nat, x \in Int : x <= MaxTrigBxid => LooksFrom(left, x)
BY LookedIs DEF LooksFrom

LEMMA ValidatedAccounts ==
  ASSUME minHits = 0, minLast \in Maps(Nat),
         NEW roc \in Nat, NEW times \in Times, NEW hits \in SUBSET Hit,
         \A h \in hits : h[1] = roc /\ h \in seenHits,
         NEW trigs, InBxidOrder(times.start, trigs),
         NEW b \in ValidState, NEW c \in ValidState, NEW k \in 1 .. Len(trigs),
         Validated(roc, times, hits, trigs, b, k, c),
         NEW bxids, \A z \in bxids : \E h \in hits : h[2] = z,
         AccountedTo(b, roc, bxids, trigs, k - 1)
  PROVE  AccountedTo(c, roc, bxids, trigs, k)
<1>1. PICK m \in Nat : m = Len(trigs)
  BY LenProperties DEF InBxidOrder
<1>2. trigs[k] \in BxidTrig /\ times.start \in Int
  BY ElementOfSeq, TimesIs DEF InBxidOrder
<1>3. PICK id \in Nat, x \in Int : id = trigs[k].id /\ x = trigs[k].bxid
  BY <1>2 DEF BxidTrig
<1>4. x <= MaxTrigBxid
  BY <1>1, <1>3 DEF InBxidOrder
<1>5. PICK num \in Int : num = id + TrigidOffset
  <2>1. TrigidOffset \in Int
    BY BuilderAssumption
  <2> QED  BY <2>1
<1>6. PICK last \in Int, j \in Nat, start \in Int, q \in Seq(BuiltEvent) :
        last = b.last /\ j = b.joined /\ start = times.start /\ q = b.out
  BY <1>2 DEF ValidState
<1>7. PICK R : R = Remaining(b.left, x)
  OBVIOUS
<1>8. b.left \in SUBSET Nat
  BY DEF ValidState
<1>9. PICK y \in Nat :
         /\ y = Looked(R) /\ x <= y /\ R \subseteq b.left
         /\ R = {} => y > x
         /\ R # {} => y \in R
  <2>1. /\ Looked(Remaining(b.left, x)) \in Nat /\ x <= Looked(Remaining(b.left, x))
        /\ Remaining(b.left, x) \subseteq b.left
        /\ Remaining(b.left, x) = {} => Looked(Remaining(b.left, x)) > x
        /\ Remaining(b.left, x) # {} => Looked(Remaining(b.left, x)) \in Remaining(b.left, x)
    <3>1. x \in Int
      BY <1>3
    <3>2. LooksFrom(b.left, x)
      BY <1>4, <1>8, <3>1, LooksIs, Zenon
    <3> QED  BY <3>2 DEF LooksFrom
  <2> QED  BY <1>7, <2>1
<1>10. R = Remaining(b.left, trigs[k].bxid) /\ y = Looked(Remaining(b.left, trigs[k].bxid))
  <2>1. x = trigs[k].bxid
    BY <1>3
  <2>2. R = Remaining(b.left, trigs[k].bxid)
    BY <1>7, <2>1
  <2>3. y = Looked(R)
    BY <1>9
  <2> QED  BY <2>2, <2>3
<1>11. b.left \subseteq bxids /\ R \subseteq bxids
  <2>1. b.left \subseteq bxids
    BY DEF AccountedTo
  <2>2. R \subseteq b.left
    BY <1>9
  <2> QED  BY <2>1, <2>2
<1>12. \A i \in 1 .. m : i <= k - 1 \/ i <= j => Accounted(q, roc, trigs[i])
  BY <1>1, <1>6 DEF AccountedTo
<1>13. \A i \in 1 .. m : i <= k => i <= k - 1 \/ i = k
  BY <1>1
<1>14. CASE Skipped(b, k, c)
  <2>1. k <= j /\ c = b
    BY <1>6, <1>14 DEF Skipped
  <2>2. \A i \in 1 .. m : i <= k \/ i <= j => Accounted(q, roc, trigs[i])
    BY <1>12, <1>13, <2>1
  <2> QED  BY <1>1, <1>6, <1>11, <2>1, <2>2 DEF AccountedTo
<1>15. CASE WritesEmpty(roc, times, trigs, b, k, c)
  <2>1. PICK e \in BuiltEvent :
          /\ c.out = q \o (Missed(roc, last, num) \o <<e>>)
          /\ e.roc = roc /\ e.bxid = trigs[k].bxid /\ e.trigs = <<id>>
          /\ e.from = BxidBegin(start, trigs[k].bxid) /\ e.to = BxidEnd(start, trigs[k].bxid)
    BY <1>3, <1>5, <1>6, <1>15 DEF WritesEmpty
  <2>2. c.joined = j /\ c.left = R
    BY <1>6, <1>15, <1>10 DEF WritesEmpty
  <2>3. JoinedFrom(trigs, k, k, e.trigs)
    <3>1. Range(e.trigs) = {id} /\ Rising(e.trigs)
      BY <1>3, <2>1, OneTriggerOnly
    <3>2. k \in k .. Len(trigs) /\ \A i \in k .. k : i = k
      BY <1>1
    <3>3. k \in k .. k
      OBVIOUS
    <3> QED  BY <1>3, <3>1, <3>2, <3>3 DEF JoinedFrom
  <2>4. roc \in Int /\ k \in Int /\ k \in k .. k
    OBVIOUS
  <2>5. Missed(roc, last, num) \in Seq(BuiltEvent)
    BY <2>4, MissedIs
  <2>6. Range(q) \subseteq Range(c.out) /\ e \in Range(c.out)
    BY <2>1, <2>5, RangeWritten
  <2>7. Accounted(c.out, roc, trigs[k])
    <3>1. InBxidOrder(start, trigs)
      BY <1>6
    <3>2. \A i \in k .. k : Accounted(c.out, roc, trigs[i])
      BY <2>1, <2>3, <2>4, <2>6, <3>1, EventAccounts
    <3> QED  BY <2>4, <3>2
  <2>8. \A i \in 1 .. m : i <= k \/ i <= j => Accounted(c.out, roc, trigs[i])
    BY <1>12, <1>13, <2>6, <2>7, StillAccounted
  <2> QED  BY <1>1, <1>11, <2>2, <2>8 DEF AccountedTo
<1>16. CASE DropsIncomplete(roc, trigs, b, k, c)
  <2>1. /\ ~(y > x) /\ ~IsBXIDComplete(roc, y) /\ ~dummies
        /\ c.left = R \ {y} /\ c.joined = j /\ c.out = q
    BY <1>3, <1>6, <1>16, <1>10, minHits = 0 DEF DropsIncomplete
  <2>2. y = x /\ y \in R
    BY <1>3, <1>9, <2>1
  <2>3. PICK h \in hits : h[2] = x
    BY <1>11, <2>2
  <2>4. h = <<roc, x>>
    BY <2>3 DEF Hit
  <2>5. MayLeaveOut(roc, trigs[k].bxid)
    <3>1. <<roc, x>> \in seenHits
      BY <2>3, <2>4
    <3>2. roc \in DOMAIN minLast /\ ~(x <= minLast[roc])
      BY <2>1, <2>2 DEF IsBXIDComplete
    <3>3. minLast[roc] \in Nat
      BY <3>2, MapIs
    <3>4. MayBeIncomplete(roc, x)
      BY <3>2, <3>3 DEF MayBeIncomplete
    <3> QED  BY <1>3, <2>1, <3>1, <3>4 DEF MayLeaveOut
  <2>6. \A i \in 1 .. m : i <= k \/ i <= j => Accounted(q, roc, trigs[i])
    BY <1>12, <1>13, <2>5 DEF Accounted
  <2> QED  BY <1>1, <1>11, <2>1, <2>6 DEF AccountedTo
<1>17. CASE WritesEvent(roc, times, hits, trigs, b, k, c)
  <2>1. PICK l : l = JoinedUpTo(k, SameBxid(trigs, k))
    OBVIOUS
  <2>2. PICK e \in BuiltEvent :
          /\ c.out = q \o (Missed(roc, last, num) \o <<e>>)
          /\ e.roc = roc /\ e.bxid = trigs[k].bxid /\ e.trigs = JoinedIds(trigs, k, SameBxid(trigs, k))
          /\ e.from = BxidBegin(start, trigs[k].bxid) /\ e.to = BxidEnd(start, trigs[k].bxid)
    BY <1>3, <1>5, <1>6, <1>17 DEF WritesEvent
  <2>3. c.joined = l /\ c.left \subseteq R
    BY <1>17, <1>10, <2>1 DEF WritesEvent, JoinedUpTo
  <2>4. InBxidOrder(start, trigs)
    BY <1>6
  <2>5. JoinedFrom(trigs, k, l, e.trigs)
    BY <2>1, <2>2, <2>4, JoinedIdsAre
  <2>6. l \in Nat /\ l \in Int /\ roc \in Int /\ k \in Int /\ l \in k .. m
    BY <1>1, <2>3, <2>5 DEF ValidState, JoinedFrom
  <2>7. Missed(roc, last, num) \in Seq(BuiltEvent)
    BY <2>6, MissedIs
  <2>8. Range(q) \subseteq Range(c.out) /\ e \in Range(c.out)
    BY <2>2, <2>7, RangeWritten
  <2>9. \A i \in k .. l : Accounted(c.out, roc, trigs[i])
    BY <1>6, <2>2, <2>4, <2>5, <2>6, <2>8, EventAccounts
  <2>10. \A i \in 1 .. m : i <= k \/ i <= l => i <= k - 1 \/ i \in k .. l
    BY <1>1, <2>6
  <2>11. \A i \in 1 .. m : i <= k \/ i <= l => Accounted(c.out, roc, trigs[i])
    BY <1>12, <2>8, <2>9, <2>10, StillAccounted
  <2> QED  BY <1>1, <1>11, <2>3, <2>11 DEF AccountedTo
<1> QED  BY <1>14, <1>15, <1>16, <1>17 DEF Validated

LEMMA ValidatedAll ==
  ASSUME minHits = 0, minLast \in Maps(Nat), NEW s \in BuildState, DOMAIN s.asic # {},
         HitsOfCycles(s.asic), \A r \in DOMAIN s.asic : s.asic[r] \subseteq seenHits,
         NEW t, ProcessesCycle(s, t)
  PROVE  CycleAccounted(t.out, First(s.ts), TriggerBxids(s.ts[First(s.ts)]))
<1>1. PICK roc \in Nat : roc = First(s.ts) /\ roc \in DOMAIN s.ts
  BY DEF ProcessesCycle
<1>2. PICK trigs : trigs = TriggerBxids(s.ts[roc])
  OBVIOUS
<1>3. PICK hits : hits = HitsOf(s, roc)
  OBVIOUS
<1>4. /\ InBxidOrder(s.ts[roc].start, trigs)
      /\ \E f : ValidLoop(s, roc, hits, trigs, f) /\ t.out = f[Len(trigs)].out
  BY <1>1, <1>2, <1>3 DEF ProcessesCycle
<1>5. PICK f : ValidLoop(s, roc, hits, trigs, f) /\ t.out = f[Len(trigs)].out
  BY <1>4
<1>6. PICK times \in Times : times = s.ts[roc]
  BY <1>1, StateIs
<1>7. PICK n \in Nat : n = Len(trigs)
  BY <1>4, LenProperties DEF InBxidOrder
<1>8. PICK bxids : bxids = {h[2] : h \in hits}
  OBVIOUS
<1>9. \A z \in bxids : \E h \in hits : h[2] = z
  BY <1>8
<1>10. /\ f \in [0 .. n -> ValidState] /\ f[0].left = bxids /\ f[0].joined = 0
       /\ \A k \in 1 .. n : f[k] = ValidateTrigger(roc, times, hits, trigs, f[k - 1], k)
  BY <1>5, <1>6, <1>7, <1>8 DEF ValidLoop
<1>11. hits \in SUBSET Hit
  BY <1>1, <1>3 DEF ProcessesCycle, Hits
<1>12. \A h \in hits : h[1] = roc /\ h \in seenHits
  <2>1. First(s.asic) \in DOMAIN s.asic
    BY StateIs, MinIs DEF First
  <2>2. CASE First(s.asic) = roc
    <3>1. hits = s.asic[roc] /\ roc \in DOMAIN s.asic
      BY <1>3, <2>1, <2>2 DEF HitsOf
    <3> QED  BY <3>1 DEF HitsOfCycles
  <2>3. CASE First(s.asic) # roc
    BY <1>3, <2>3 DEF HitsOf
  <2> QED  BY <2>2, <2>3
<1> DEFINE S == {k \in 0 .. n : AccountedTo(f[k], roc, bxids, trigs, k)}
<1>13. 0 \in S
  <2>1. \A i \in 1 .. Len(trigs) : ~(i <= 0)
    BY <1>7
  <2>2. AccountedTo(f[0], roc, bxids, trigs, 0)
    BY <1>10, <2>1 DEF AccountedTo
  <2> QED  BY <1>7, <2>2
<1>14. ASSUME NEW k \in 1 .. n, k - 1 \in S
       PROVE  k \in S
  <2>1. PICK b \in ValidState : b = f[k - 1]
    BY <1>10
  <2>2. PICK c \in ValidState : c = f[k]
    BY <1>10
  <2>3. InBxidOrder(times.start, trigs) /\ k \in 1 .. Len(trigs)
    BY <1>4, <1>6, <1>7
  <2>4. Validated(roc, times, hits, trigs, b, k, c)
    <3>1. c = ValidateTrigger(roc, times, hits, trigs, b, k)
      BY <1>10, <2>1, <2>2
    <3> QED  BY <1>11, <2>3, <3>1, ValidateTriggerIs
  <2>5. AccountedTo(b, roc, bxids, trigs, k - 1)
    BY <1>14, <2>1
  <2>6. AccountedTo(c, roc, bxids, trigs, k)
    BY <1>9, <1>11, <1>12, <2>3, <2>4, <2>5, ValidatedAccounts
  <2>7. k \in 0 .. n
    OBVIOUS
  <2> QED  BY <2>2, <2>6, <2>7
<1> HIDE DEF S
<1>15. n \in S
  <2>1. 0 .. n \subseteq S
    BY <1>13, <1>14, UpToInduction
  <2> QED  BY <2>1
<1>16. AccountedTo(f[n], roc, bxids, trigs, n)
  BY <1>15 DEF S
<1>17. \A i \in 1 .. n : i <= n
  OBVIOUS
<1>18. CycleAccounted(t.out, roc, trigs)
  BY <1>5, <1>7, <1>16, <1>17 DEF CycleAccounted, AccountedTo
<1> QED  BY <1>1, <1>2, <1>18

LEMMA CycleStillAccounted ==
  \A p, q, r, trigs : Range(p) \subseteq Range(q) /\ CycleAccounted(p, r, trigs)
                        => CycleAccounted(q, r, trigs)
BY StillAccounted DEF CycleAccounted

LEMMA ExtendsRange ==
  ASSUME NEW E \in SUBSET BuiltEvent, NEW a \in Seq(BuiltEvent), NEW b, Extends(E, a, b)
  PROVE  Range(a) \subseteq Range(b)
<1>1. /\ b \in Seq(BuiltEvent) /\ Len(a) <= Len(b)
      /\ \A i \in 1 .. Len(a) : b[i] = a[i]
  BY ExtendsEach
<1>2. PICK m \in Nat, n \in Nat : m = Len(a) /\ n = Len(b) /\ m <= n
  BY <1>1, LenProperties
<1> SUFFICES ASSUME NEW y \in Range(a) PROVE y \in Range(b)
  OBVIOUS
<1>3. PICK i \in 1 .. m : y = a[i]
  BY <1>2, RangeIs
<1>4. i \in 1 .. n /\ b[i] = y
  BY <1>1, <1>2, <1>3
<1> QED  BY <1>1, <1>2, <1>4, RangeIs

BuiltKept(s, t, dumpAll) ==
  SeenIn(s.asic, s.ts) /\ BuiltIn(s.out, s.ts, dumpAll) => BuiltIn(t.out, t.ts, dumpAll)

LEMMA BuiltValidated ==
  ASSUME mode = "BXID_VALIDATED", minHits = 0, minLast \in Maps(Nat), hwRoc \in Nat,
         NEW s \in BuildState, NEW dumpAll \in BOOLEAN, MayBuild(s, dumpAll),
         DOMAIN s.asic \subseteq 0 .. hwRoc, HitsOfCycles(s.asic),
         NEW t, t = BuildValidatedCycle(s), Range(s.out) \subseteq Range(t.out)
  PROVE  BuiltKept(s, t, dumpAll)
<1> SUFFICES ASSUME SeenIn(s.asic, s.ts), BuiltIn(s.out, s.ts, dumpAll)
             PROVE  BuiltIn(t.out, t.ts, dumpAll)
  BY DEF BuiltKept
<1>1. DOMAIN s.asic # {}
  BY DEF MayBuild
<1>2. DropsCycle(s, t) \/ ProcessesCycle(s, t)
  BY <1>1, BuildValidatedCycleIs
<1>3. CASE DropsCycle(s, t)
  BY <1>3 DEF DropsCycle
<1>4. CASE ProcessesCycle(s, t)
  <2>1. PICK c \in Nat : /\ c = First(s.ts) /\ c \in DOMAIN s.ts /\ c <= First(s.asic)
                         /\ \A r \in DOMAIN s.ts : c <= r
                         /\ t.ts = KeepOnly(s.ts, {r \in DOMAIN s.ts : r > c})
    BY <1>4 DEF ProcessesCycle
  <2>2. PICK g : g = {r \in DOMAIN s.ts : r > c}
    OBVIOUS
  <2>3. t.ts = KeepOnly(s.ts, g)
    BY <2>1, <2>2
  <2>4. DOMAIN t.ts = DOMAIN s.ts \cap g
    BY <2>3 DEF KeepOnly
  <2>5. DOMAIN s.ts \in SUBSET Nat
    BY StateIs
  <2>6. FrozenIn(c, dumpAll)
    BY <2>1, ProcessedFrozen
  <2>7. ASSUME NEW r \in DOMAIN seenTs \ DOMAIN t.ts
        PROVE  r \in DOMAIN seenTs \ DOMAIN s.ts \/ r = c
    <3>1. CASE r \in DOMAIN s.ts
      <4>1. r \in Nat /\ c <= r /\ ~(r > c)
        BY <2>1, <2>2, <2>4, <2>5, <2>7, <3>1
      <4> QED  BY <2>1, <4>1
    <3> QED  BY <3>1
  <2>8. CycleAccounted(t.out, c, TriggerBxids(s.ts[c]))
    <3>1. \A r \in DOMAIN s.asic : s.asic[r] \subseteq seenHits
      BY DEF SeenIn
    <3> QED  BY <1>1, <1>4, <2>1, <3>1, ValidatedAll
  <2>9. seenTs[c] = s.ts[c]
    BY <2>1 DEF SeenIn
  <2>10. \A r \in DOMAIN seenTs \ DOMAIN s.ts :
           FrozenIn(r, dumpAll) /\ CycleAccounted(t.out, r, TriggerBxids(seenTs[r]))
    BY CycleStillAccounted DEF BuiltIn
  <2> QED  BY <2>6, <2>7, <2>8, <2>9, <2>10 DEF BuiltIn
<1> QED  BY <1>2, <1>3, <1>4

(* What is accounted for stays so while the bound of complete BXIDs does not
   change; the events and the hits that were seen only become more. *)
LEMMA AccountedStays ==
  ASSUME NEW r, NEW trigs, CycleAccounted(queued, r, trigs), dummies' = dummies,
         Range(queued) \subseteq Range(queued'), seenHits \subseteq seenHits',
         r \in DOMAIN minLast => r \in DOMAIN minLast' /\ minLast'[r] = minLast[r]
  PROVE  CycleAccounted(queued, r, trigs)'
<1>1. PICK d : d = dummies /\ d = dummies'
  OBVIOUS
<1>2. \A x : MayLeaveOut(r, x) => MayLeaveOut(r, x)'
  BY DEF MayLeaveOut, MayBeIncomplete
<1>3. ASSUME NEW i \in 1 .. Len(trigs)
      PROVE  Accounted(queued, r, trigs[i])'
  <2>1. PICK x : x = trigs[i]
    OBVIOUS
  <2>2. Accounted(queued, r, x)
    BY <2>1 DEF CycleAccounted
  <2>3. (\E e \in Range(queued') : TriggerIn(e, r, x)) \/ MayLeaveOut(r, x.bxid)'
    BY <1>2, <2>2 DEF Accounted
  <2>4. Accounted(queued, r, x)'
    BY <2>3 DEF Accounted, TriggerIn, Covers
  <2> QED  BY <2>1, <2>4
<1> QED  BY <1>3 DEF CycleAccounted

(* A packet changes the entry of the current cycle, or none, in both maps. *)
SameEntry ==
  \/ UNCHANGED <<tsData, seenTs>>
  \/ \E e : tsData' = Put(tsData, hwRoc, e) /\ seenTs' = Put(seenTs, hwRoc, e)

LEMMA FiledAlike ==
  ASSUME At(tsData, hwRoc, NoTimes) = At(seenTs, hwRoc, NoTimes)
  PROVE  StartPacket \/ StopPacket \/ TriggerPacket => SameEntry
<1>1. PICK e0 : e0 = At(tsData, hwRoc, NoTimes) /\ e0 = At(seenTs, hwRoc, NoTimes)
  OBVIOUS
<1>2. CASE StartPacket
  BY <1>1, <1>2 DEF StartPacket, File, SameEntry
<1>3. CASE StopPacket
  BY <1>1, <1>3 DEF StopPacket, File, SameEntry
<1>4. CASE TriggerPacket
  BY <1>1, <1>4 DEF TriggerPacket, File, SameEntry
<1> QED  BY <1>2, <1>3, <1>4

LEMMA BuiltStepTimes ==
  ASSUME MapsInv, BuiltInv, TimestampPacket, Running, StartPacket \/ StopPacket \/ TriggerPacket
  PROVE  BuiltInv'
<1>1. /\ phase' # "ended" /\ phase # "ended"
      /\ UNCHANGED <<mode, dummies, asicData, minLast, queued, hwRoc, seenHits>>
  BY DEF TimestampPacket, config, Running
<1> SUFFICES ASSUME mode = "BXID_VALIDATED"
             PROVE  (SeenIn(asicData, tsData) /\ BuiltIn(queued, tsData, phase = "ended"))'
  BY <1>1 DEF BuiltInv
<1>2. /\ SeenIn(asicData, tsData) /\ BuiltIn(queued, tsData, FALSE)
      /\ hwRoc \in Nat /\ tsData \in Maps(Times) /\ seenTs \in Maps(Times)
  BY <1>1 DEF BuiltInv, MapsInv, BuilderTypeOK
<1>3. ~FrozenIn(hwRoc, FALSE)
  BY <1>2, BuilderAssumption DEF FrozenIn
<1>4. hwRoc \in DOMAIN seenTs => hwRoc \in DOMAIN tsData
  BY <1>2, <1>3 DEF BuiltIn
<1>5. At(tsData, hwRoc, NoTimes) = At(seenTs, hwRoc, NoTimes)
  BY <1>2, <1>4 DEF At, SeenIn
<1>6. SameEntry
  BY <1>5, FiledAlike
<1>7. PICK w, v : w = tsData' /\ v = seenTs'
  OBVIOUS
<1>8. CASE UNCHANGED <<tsData, seenTs>>
  <2>1. SeenIn(asicData, tsData)'
    BY <1>1, <1>2, <1>8 DEF SeenIn
  <2>2. ASSUME NEW r \in DOMAIN seenTs \ DOMAIN tsData
        PROVE  FrozenIn(r, phase = "ended")' /\ CycleAccounted(queued, r, TriggerBxids(seenTs[r]))'
    <3>1. PICK T : T = TriggerBxids(seenTs[r]) /\ T = TriggerBxids(seenTs[r])'
      BY <1>8
    <3>2. FrozenIn(r, FALSE) /\ CycleAccounted(queued, r, T)
      BY <1>2, <2>2, <3>1 DEF BuiltIn
    <3>3. CycleAccounted(queued, r, T)'
      BY <1>1, <3>2, AccountedStays
    <3>4. FrozenIn(r, phase = "ended")'
      BY <1>1, <3>2 DEF FrozenIn
    <3> QED  BY <3>1, <3>3, <3>4
  <2> QED  BY <1>8, <2>1, <2>2 DEF BuiltIn
<1>9. ASSUME NEW e, tsData' = Put(tsData, hwRoc, e), seenTs' = Put(seenTs, hwRoc, e)
      PROVE  (SeenIn(asicData, tsData) /\ BuiltIn(queued, tsData, phase = "ended"))'
  <2>1. /\ DOMAIN tsData' = DOMAIN tsData \cup {hwRoc} /\ DOMAIN seenTs' = DOMAIN seenTs \cup {hwRoc}
        /\ \A r \in DOMAIN tsData' : tsData'[r] = IF r = hwRoc THEN e ELSE tsData[r]
        /\ \A r \in DOMAIN seenTs' : seenTs'[r] = IF r = hwRoc THEN e ELSE seenTs[r]
    BY <1>9 DEF Put
  <2>2. SeenIn(asicData, tsData)'
    BY <1>1, <1>2, <2>1 DEF SeenIn
  <2>3. ASSUME NEW r \in DOMAIN seenTs' \ DOMAIN tsData'
        PROVE  FrozenIn(r, phase = "ended")' /\ CycleAccounted(queued, r, TriggerBxids(seenTs[r]))'
    <3>1. r # hwRoc /\ r \in DOMAIN seenTs \ DOMAIN tsData /\ seenTs'[r] = seenTs[r]
      BY <2>1, <2>3
    <3>2. PICK T : T = TriggerBxids(seenTs[r]) /\ T = TriggerBxids(seenTs[r])'
      BY <3>1
    <3>3. FrozenIn(r, FALSE) /\ CycleAccounted(queued, r, T)
      BY <1>2, <3>1, <3>2 DEF BuiltIn
    <3>4. CycleAccounted(queued, r, T)'
      BY <1>1, <3>3, AccountedStays
    <3>5. FrozenIn(r, phase = "ended")'
      BY <1>1, <3>3 DEF FrozenIn
    <3> QED  BY <3>2, <3>4, <3>5
  <2> QED  BY <2>2, <2>3 DEF BuiltIn
<1> QED  BY <1>6, <1>8, <1>9 DEF SameEntry

LEMMA BuiltStepData ==
  ASSUME MapsInv, BuiltInv, DataPacket
  PROVE  BuiltInv'
<1>1. PICK roc \in Nat, new \in Hits : \E last \in Nat : DataStored(roc, new, last)
  BY DataStoredIs
<1>2. PICK last \in Nat : DataStored(roc, new, last)
  BY <1>1
<1>3. /\ hwRoc - DataLag <= roc /\ phase # "ended" /\ phase' # "ended"
      /\ asicData' = Put(asicData, roc, At(asicData, roc, {}) \cup new)
      /\ minLast' = minLast \/ minLast' = Put(minLast, roc, last)
      /\ seenHits' = seenHits \cup new
      /\ UNCHANGED <<mode, dummies, tsData, queued, hwRoc, seenTs>>
  BY <1>2 DEF DataStored, DataPacket, config
<1> SUFFICES ASSUME mode = "BXID_VALIDATED"
             PROVE  (SeenIn(asicData, tsData) /\ BuiltIn(queued, tsData, phase = "ended"))'
  BY <1>3 DEF BuiltInv
<1>4. /\ SeenIn(asicData, tsData) /\ BuiltIn(queued, tsData, FALSE)
      /\ hwRoc \in Nat /\ DataLag \in Nat
  BY <1>3, BuilderAssumption DEF BuiltInv, MapsInv, BuilderTypeOK
<1>5. ~FrozenIn(roc, FALSE)
  BY <1>1, <1>3, <1>4 DEF FrozenIn
<1>6. SeenIn(asicData, tsData)'
  <2>1. ASSUME NEW r \in DOMAIN asicData'
        PROVE  asicData'[r] \subseteq seenHits'
    <3>1. /\ r \in DOMAIN asicData \/ r = roc
          /\ asicData'[r] = IF r = roc THEN At(asicData, roc, {}) \cup new ELSE asicData[r]
      BY <1>3, <2>1 DEF Put
    <3>2. At(asicData, roc, {}) \subseteq seenHits
      BY <1>4 DEF At, SeenIn
    <3>3. r \in DOMAIN asicData => asicData[r] \subseteq seenHits
      BY <1>4 DEF SeenIn
    <3> QED  BY <1>3, <3>1, <3>2, <3>3
  <2> QED  BY <1>3, <1>4, <2>1 DEF SeenIn
<1>7. ASSUME NEW r \in DOMAIN seenTs \ DOMAIN tsData
      PROVE  FrozenIn(r, phase = "ended")' /\ CycleAccounted(queued, r, TriggerBxids(seenTs[r]))'
  <2>1. PICK T : T = TriggerBxids(seenTs[r]) /\ T = TriggerBxids(seenTs[r])'
    BY <1>3
  <2>2. FrozenIn(r, FALSE) /\ CycleAccounted(queued, r, T)
    BY <1>4, <1>7, <2>1 DEF BuiltIn
  <2>3. r # roc
    BY <1>5, <2>2
  <2>4. r \in DOMAIN minLast => r \in DOMAIN minLast' /\ minLast'[r] = minLast[r]
    BY <1>3, <2>3 DEF Put
  <2>5. CycleAccounted(queued, r, T)'
    BY <1>3, <2>2, <2>4, AccountedStays
  <2>6. FrozenIn(r, phase = "ended")'
    BY <1>3, <2>2 DEF FrozenIn
  <2> QED  BY <2>1, <2>5, <2>6
<1> QED  BY <1>3, <1>6, <1>7 DEF BuiltIn

LEMMA BuiltUnchanged ==
  ASSUME MapsInv, BuiltInv, hwRoc' \in Nat, hwRoc <= hwRoc', phase = "ended" => phase' = "ended",
         UNCHANGED <<mode, dummies, asicData, tsData, minLast, queued, seenTs, seenHits>>
  PROVE  BuiltInv'
<1> SUFFICES ASSUME mode = "BXID_VALIDATED"
             PROVE  (SeenIn(asicData, tsData) /\ BuiltIn(queued, tsData, phase = "ended"))'
  BY DEF BuiltInv
<1>1. /\ SeenIn(asicData, tsData) /\ BuiltIn(queued, tsData, phase = "ended")
      /\ hwRoc \in Nat /\ seenTs \in Maps(Times)
  BY DEF BuiltInv, MapsInv, BuilderTypeOK
<1>2. DOMAIN seenTs \in SUBSET Nat
  BY <1>1, MapIs
<1>3. ASSUME NEW r \in DOMAIN seenTs \ DOMAIN tsData
      PROVE  FrozenIn(r, phase = "ended")' /\ CycleAccounted(queued, r, TriggerBxids(seenTs[r]))'
  <2>1. PICK T : T = TriggerBxids(seenTs[r]) /\ T = TriggerBxids(seenTs[r])'
    OBVIOUS
  <2>2. FrozenIn(r, phase = "ended") /\ CycleAccounted(queued, r, T)
    BY <1>1, <1>3, <2>1 DEF BuiltIn
  <2>3. CycleAccounted(queued, r, T)'
    BY <2>2, AccountedStays
  <2>4. r \in Int
    BY <1>2, <1>3
  <2>5. FrozenIn(r, phase = "ended")'
    BY <1>1, <2>2, <2>4, FrozenStays
  <2> QED  BY <2>1, <2>3, <2>5
<1>4. SeenIn(asicData, tsData)'
  BY <1>1 DEF SeenIn
<1> QED  BY <1>3, <1>4 DEF BuiltIn

LEMMA BuiltStepBuild ==
  ASSUME MinHitChoices = {0}, MapsInv, BuiltInv, Running, NEW dumpAll \in BOOLEAN,
         buildEvents(dumpAll), UNCHANGED <<config, minLast, hwRoc, seenTs, seenHits>>,
         phase' = IF dumpAll THEN "ended" ELSE phase
  PROVE  BuiltInv'
<1>1. UNCHANGED <<mode, dummies, minLast, hwRoc, seenTs, seenHits>>
  BY DEF config
<1> SUFFICES ASSUME mode = "BXID_VALIDATED"
             PROVE  (SeenIn(asicData, tsData) /\ BuiltIn(queued, tsData, phase = "ended"))'
  BY <1>1 DEF BuiltInv
<1>2. /\ minHits = 0 /\ minLast \in Maps(Nat) /\ hwRoc \in Nat /\ mode \in AllModes
      /\ DOMAIN asicData \subseteq 0 .. hwRoc /\ HitsOfCycles(asicData)
  BY DEF MapsInv, BuilderTypeOK, CyclesBegun
<1>3. SeenIn(asicData, tsData) /\ BuiltIn(queued, tsData, FALSE)
  BY DEF BuiltInv, Running
<1> DEFINE V == {s \in BuildState : Shrinks(Current, s) /\ BuiltIn(s.out, s.ts, dumpAll)}
<1>4. Current \in V
  <2>1. BuiltIn(queued, tsData, dumpAll)
    BY <1>3 DEF BuiltIn, FrozenIn
  <2> QED  BY <2>1, CurrentIs, ShrinksRefl
<1>5. \A s \in BuildState : Shrinks(Current, s) =>
        /\ SeenIn(s.asic, s.ts) /\ HitsOfCycles(s.asic) /\ DOMAIN s.asic \subseteq 0 .. hwRoc
  <2> SUFFICES ASSUME NEW s \in BuildState, Shrinks(Current, s)
               PROVE  SeenIn(s.asic, s.ts) /\ HitsOfCycles(s.asic) /\ DOMAIN s.asic \subseteq 0 .. hwRoc
    OBVIOUS
  <2>1. /\ DOMAIN s.asic \subseteq DOMAIN asicData
        /\ \A r \in DOMAIN s.asic : s.asic[r] \subseteq asicData[r]
        /\ DOMAIN s.ts \subseteq DOMAIN tsData
        /\ \A r \in DOMAIN s.ts : s.ts[r] = tsData[r]
    BY CurrentIs DEF Shrinks
  <2>2. \A r \in DOMAIN s.asic : s.asic[r] \subseteq seenHits
    BY <1>3, <2>1 DEF SeenIn
  <2>3. \A r \in DOMAIN s.ts : r \in DOMAIN seenTs /\ s.ts[r] = seenTs[r]
    BY <1>3, <2>1 DEF SeenIn
  <2>4. HitsOfCycles(s.asic)
    BY <1>2, <2>1 DEF HitsOfCycles
  <2> QED  BY <1>2, <2>1, <2>2, <2>3, <2>4 DEF SeenIn
<1>6. ASSUME NEW s \in BuildState, Shrinks(Current, s), BuiltIn(s.out, s.ts, dumpAll),
             MayBuild(s, dumpAll)
      PROVE  BuildCycle(s) \in V
  <2>1. PICK t : t = BuildCycle(s) /\ t = BuildValidatedCycle(s)
    BY DEF BuildCycle
  <2>2. BuildsCycle(s, t)
    BY <1>2, <1>6, <2>1, CurrentIs, CycleBuilds DEF MayBuild
  <2>3. t \in BuildState /\ Shrinks(s, t) /\ Extends(NewEvent(s), s.out, t.out)
    BY <2>2 DEF BuildsCycle
  <2>4. Shrinks(Current, t)
    BY <1>6, <2>3, ShrinksFurther
  <2>5. Range(s.out) \subseteq Range(t.out)
    <3>1. s.out \in Seq(BuiltEvent)
      BY StateIs
    <3> QED  BY <2>3, <3>1, NewEventIs, ExtendsRange
  <2>6. SeenIn(s.asic, s.ts) /\ HitsOfCycles(s.asic) /\ DOMAIN s.asic \subseteq 0 .. hwRoc
    BY <1>5, <1>6
  <2>7. BuiltKept(s, t, dumpAll)
    BY <1>2, <1>6, <2>1, <2>5, <2>6, BuiltValidated
  <2>8. BuiltIn(t.out, t.ts, dumpAll)
    BY <1>6, <2>6, <2>7 DEF BuiltKept
  <2> QED  BY <2>1, <2>3, <2>4, <2>8
<1>7. V \in SUBSET BuildState /\ \A s \in V : MayBuild(s, dumpAll) => BuildCycle(s) \in V
  BY <1>6
<1> HIDE DEF V
<1>8. PICK t \in V : Becomes(t)
  BY <1>4, <1>7, CurrentIs, BuildEventsKeep
<1>9. /\ t \in BuildState /\ Shrinks(Current, t)
      /\ asicData' = t.asic /\ tsData' = t.ts /\ BuiltIn(queued', tsData', dumpAll)
  BY <1>8 DEF V, Becomes
<1>10. SeenIn(asicData, tsData)'
  BY <1>1, <1>5, <1>9 DEF SeenIn
<1>11. (phase' = "ended") = dumpAll
  BY DEF Running
<1>12. \A r, T : CycleAccounted(queued', r, T) => CycleAccounted(queued, r, T)'
  BY <1>1 DEF CycleAccounted, Accounted, TriggerIn, Covers, MayLeaveOut, MayBeIncomplete
<1>13. ASSUME NEW r \in DOMAIN seenTs \ DOMAIN tsData'
       PROVE  FrozenIn(r, phase = "ended")' /\ CycleAccounted(queued, r, TriggerBxids(seenTs[r]))'
  <2>1. PICK T : T = TriggerBxids(seenTs[r]) /\ T = TriggerBxids(seenTs[r])'
    BY <1>1
  <2>2. FrozenIn(r, dumpAll) /\ CycleAccounted(queued', r, T)
    BY <1>9, <1>13, <2>1 DEF BuiltIn
  <2>3. FrozenIn(r, phase = "ended")'
    BY <1>1, <1>11, <2>2 DEF FrozenIn
  <2> QED  BY <1>12, <2>1, <2>2, <2>3
<1>14. BuiltIn(queued, tsData, phase = "ended")'
  BY <1>1, <1>13 DEF BuiltIn
<1> QED  BY <1>10, <1>14

LEMMA BuiltNext ==
  ASSUME MinHitChoices = {0}
  PROVE  MapsInv /\ BuiltInv /\ [BuilderNext]_builderVars => BuiltInv'
<1> SUFFICES ASSUME MapsInv, BuiltInv, [BuilderNext]_builderVars PROVE BuiltInv'
  OBVIOUS
<1>0. hwRoc \in Nat
  BY DEF MapsInv, BuilderTypeOK
<1>1. CASE StartPacket
  BY <1>1, StartFiled, BuiltStepTimes DEF StartPacket
<1>2. CASE StopPacket
  BY <1>2, StopFiled, BuiltStepTimes DEF StopPacket
<1>3. CASE TriggerPacket
  BY <1>3, TriggerFiled, BuiltStepTimes DEF TriggerPacket
<1>4. CASE NextCycle
  <2>1. /\ UNCHANGED <<mode, dummies, asicData, tsData, minLast, queued, seenTs, seenHits>>
        /\ hwRoc' = hwRoc + 1 /\ phase # "ended"
    BY <1>4 DEF NextCycle, Running, config, maps
  <2>2. hwRoc' \in Nat /\ hwRoc <= hwRoc'
    BY <1>0, <2>1
  <2> QED  BY <2>1, <2>2, BuiltUnchanged
<1>5. CASE DataPacket
  BY <1>5, BuiltStepData
<1>6. CASE EndOfRead
  <2>1. PICK d \in BOOLEAN : d = FALSE
    OBVIOUS
  <2>2. /\ buildEvents(d) /\ Running
        /\ UNCHANGED <<config, minLast, hwRoc, phase, seenTs, seenHits>>
    BY <1>6, <2>1 DEF EndOfRead, lda
  <2>3. phase' = IF d THEN "ended" ELSE phase
    BY <2>1, <2>2
  <2> QED  BY <2>2, <2>3, BuiltStepBuild
<1>7. CASE RunEnds
  <2>1. PICK d \in BOOLEAN : d = TRUE
    OBVIOUS
  <2>2. /\ buildEvents(d) /\ Running /\ phase' = "ended"
        /\ UNCHANGED <<config, minLast, hwRoc, seenTs, seenHits>>
    BY <1>7, <2>1 DEF RunEnds
  <2>3. phase' = IF d THEN "ended" ELSE phase
    BY <2>1, <2>2
  <2> QED  BY <2>2, <2>3, BuiltStepBuild
<1>8. CASE UNCHANGED builderVars
  <2>1. UNCHANGED <<mode, dummies, asicData, tsData, minLast, queued, seenTs, seenHits, phase, hwRoc>>
    BY <1>8 DEF builderVars, config, maps, lda
  <2>2. hwRoc' \in Nat /\ hwRoc <= hwRoc'
    BY <1>0, <2>1
  <2> QED  BY <2>1, <2>2, BuiltUnchanged
<1> QED  BY <1>1, <1>2, <1>3, <1>4, <1>5, <1>6, <1>7, <1>8 DEF BuilderNext

LEMMA BuiltInit == BuilderInit => BuiltInv
<1> SUFFICES ASSUME BuilderInit PROVE BuiltInv
  OBVIOUS
<1>1. DOMAIN asicData = {} /\ DOMAIN tsData = {} /\ DOMAIN seenTs = {}
  BY DEF BuilderInit, EmptyMap
<1> QED  BY <1>1 DEF BuiltInv, SeenIn, BuiltIn

(* The BXID in which a trigger came is the one it is filed under, but before
   BXID 0. *)
LEMMA TrueBxidIs ==
  ASSUME NEW start \in Int, NEW x \in Int
  PROVE  /\ TriggerBxid(start, x) \in Int /\ TrueBxid(start, x) \in Int
         /\ TriggerBxid(start, x) > 0 => TrueBxid(start, x) = TriggerBxid(start, x)
<1>1. PICK off \in Nat, w \in Nat \ {0} : off = Bxid0Offset /\ w = BxidWidth
  BY BuilderAssumption
<1>2. PICK a \in Int : a = x - start - off
  OBVIOUS
<1>3. PICK b \in Int : b = Quotient(a, w)
  BY QuotientIs
<1>4. TriggerBxid(start, x) = b /\ TrueBxid(start, x) = a \div w
  BY <1>1, <1>2, <1>3 DEF TriggerBxid, TrueBxid
<1>5. a \div w \in Int
  <2>1. PICK q \in Int, r \in 0 .. w - 1 : q = a \div w /\ a = w * q + r
    BY DivMod
  <2> QED  BY <2>1
<1>6. a >= 0 => b = a \div w
  BY <1>3 DEF Quotient
<1>7. b > 0 => a >= 0
  BY <1>3, QuotientIs
<1> QED  BY <1>4, <1>5, <1>6, <1>7

(* What a trigger of a processed cycle with a start may have become. *)
AccountedFor(r, t) ==
  LET bxid == TrueBxid(seenTs[r].start, t.ts)
  IN  \/ \E e \in Events : e.roc = r /\ t.id \in Range(e.trigs) /\ Covers(e, t.ts)
      \/ bxid > MaxTrigBxid
      \/ ~dummies /\ MayBeIncomplete(r, bxid) /\ <<r, bxid>> \in seenHits

LEMMA AccountedTrigger ==
  ASSUME MapsInv, NEW r \in DOMAIN seenTs, seenTs[r].start # 0,
         CycleAccounted(queued, r, TriggerBxids(seenTs[r])),
         NEW k \in 1 .. Len(seenTs[r].trigs)
  PROVE  AccountedFor(r, seenTs[r].trigs[k])
<1>1. PICK times \in Times : times = seenTs[r]
  <2>1. seenTs \in Maps(Times)
    BY DEF MapsInv, BuilderTypeOK
  <2>2. seenTs[r] \in Times
    BY <2>1, MapIs
  <2> QED  BY <2>2
<1>2. PICK start \in Int : start = times.start
  BY DEF Times
<1>2a. PICK q : q = TriggerBxids(times)
  OBVIOUS
<1>3. times.trigs \in Seq(Trig)
  BY DEF Times, Arrived
<1>4. PICK t \in Trig : t = times.trigs[k]
  BY <1>1, <1>3, ElementOfSeq
<1>5. t.ts \in Int
  BY DEF Trig
<1>6. PICK b \in Int, c \in Int : /\ b = TriggerBxid(start, t.ts) /\ c = TrueBxid(start, t.ts)
                                  /\ b > 0 => c = b
  BY <1>5, TrueBxidIs
<1>7. MaxTrigBxid \in Nat
  BY BuilderAssumption
<1>8. CASE ~(b <= MaxTrigBxid)
  <2>1. c > MaxTrigBxid
    BY <1>6, <1>7, <1>8
  <2> QED  BY <1>1, <1>2, <1>4, <1>6, <2>1 DEF AccountedFor
<1>9. CASE b <= MaxTrigBxid
  <2>1. AllTaken(start, q, times.trigs, Len(times.trigs))
    BY <1>1, <1>2, <1>2a, TriggerBxidsIs
  <2>2. k \in 1 .. Len(times.trigs)
    BY <1>1
  <2>3. PICK i \in 1 .. Len(q) : q[i] = WithBxid(start, t)
    BY <1>4, <1>6, <1>9, <2>1, <2>2 DEF AllTaken
  <2>4. PICK x : x = q[i] /\ x.id = t.id /\ x.ts = t.ts /\ x.bxid = b
    BY <1>6, <2>3 DEF WithBxid
  <2>5. Accounted(queued, r, x)
    BY <1>1, <1>2a, <2>3, <2>4 DEF CycleAccounted
  <2>6. CASE \E e \in Range(queued) : TriggerIn(e, r, x)
    BY <1>1, <1>4, <2>4, <2>6 DEF TriggerIn, AccountedFor, Events
  <2>7. CASE MayLeaveOut(r, b)
    <3>1. b > 0
      <4>1. r \in DOMAIN minLast /\ b > minLast[r]
        BY <2>7 DEF MayLeaveOut, MayBeIncomplete
      <4>2. minLast[r] \in Nat
        <5>1. minLast \in Maps(Nat)
          BY DEF MapsInv, BuilderTypeOK
        <5> QED  BY <4>1, <5>1, MapIs
      <4> QED  BY <4>1, <4>2
    <3> QED  BY <1>1, <1>2, <1>4, <1>6, <2>7, <3>1 DEF MayLeaveOut, AccountedFor
  <2> QED  BY <2>4, <2>5, <2>6, <2>7 DEF Accounted
<1> QED  BY <1>8, <1>9

(* Validated building accounts for every trigger of a processed cycle that has a
   start, wherever in the cycle or before its BXID 0 it came: an event of the
   cycle has it, with an interval that fits its time as Covers says, also when it
   was joined to an earlier trigger; or its BXID is too large; or dummies are off
   and its BXID has hits that may be incomplete.  As for EventsHoldTheirHits,
   MinimumEventHits is 0. *)
THEOREM NoTriggerForgotten ==
  ASSUME MinHitChoices = {0}
  PROVE  BuilderSpec => []EveryTriggerBuilt
<1>1. MapsInv /\ BuiltInv => EveryTriggerBuilt
  <2> SUFFICES ASSUME MapsInv, BuiltInv, mode = "BXID_VALIDATED",
                      NEW r \in DOMAIN seenTs \ DOMAIN tsData, seenTs[r].start # 0,
                      NEW k \in 1 .. Len(seenTs[r].trigs)
               PROVE  AccountedFor(r, seenTs[r].trigs[k])
    BY DEF EveryTriggerBuilt, AccountedFor
  <2>1. CycleAccounted(queued, r, TriggerBxids(seenTs[r]))
    BY DEF BuiltInv, BuiltIn
  <2> QED  BY <2>1, AccountedTrigger
<1> QED  BY <1>1, MapsAlways, BuiltInit, BuiltNext, PTL DEF BuilderSpec
=============================================================================
