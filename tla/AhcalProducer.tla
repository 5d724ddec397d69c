---------------------------- MODULE AhcalProducer ----------------------------
(***************************************************************************)
(* The threads of AHCALProducer: RunLoop, which reads the stream of the    *)
(* LDA, has ScReader decode it and sends the events, and the thread of the *)
(* command receiver with DoStartRun, DoStopRun and DoTerminate.            *)
(*                                                                         *)
(* The stream comes over TCP from Labview, which is told to stop and then  *)
(* closes the connection, or from a file.  Labview may also vanish or      *)
(* reset the connection, and the data collector may go away, so that       *)
(* SendEvent throws.  What the reader makes of the bytes is the subject of *)
(* LdaStream and EventBuilder; here a read yields some events, each with   *)
(* or without the hits that MinimumEventHits demands.                      *)
(*                                                                         *)
(* RunLoop is started after DoStartRun, and not again before it returned:  *)
(* both are done by the EUDAQ library, which is external, as are Labview   *)
(* and the run control (inRun).  chunks, nRead, built and failed are       *)
(* history that no guard of the producer reads.                            *)
(***************************************************************************)
EXTENDS Integers, Sequences, Subsequences

CONSTANTS
  Inputs,       \* subset of {"tcp", "file"}: RedirectInputFromFile or not
  MaxYield,     \* most events of one read
  MaxChunks, MaxRuns      \* bounds: reads of a run, runs

ASSUME ProducerAssumption ==
  /\ Inputs \subseteq {"tcp", "file"}
  /\ MaxYield \in Nat /\ MaxChunks \in Nat /\ MaxRuns \in Nat

VARIABLES
  input,
  inRun, runs, stopPc,            \* run control and the command thread
  peer, pending, toldToStop,      \* Labview or the file: bytes not read yet
  fd, running, stopped, terminated,
  pc,                             \* where RunLoop is
  rawOpen, rawFile,
  deqEvent, BORE_sent, out,
  ReprocessingFinished,           \* the status tag
  chunks, nRead, built, failed    \* history

command == <<inRun, runs, stopPc, terminated>>
source  == <<peer, pending, toldToStop, chunks>>
flags   == <<running, stopped>>
raw     == <<rawOpen, rawFile>>
events  == <<deqEvent, BORE_sent, out, built, failed>>
vars    == <<input, command, source, fd, flags, pc, raw, events,
             ReprocessingFinished, nRead>>
-----------------------------------------------------------------------------
(* n events completed by ScReader. *)
Completed(n) ==
  {[i \in 1 .. n |-> [id |-> Len(built) + i, hits |-> h[i], bore |-> FALSE, eore |-> FALSE]] :
     h \in [1 .. n -> BOOLEAN]}

(* Fault: no event is held back. *)
DueAll(queue, minimumsize) == queue

(* The events that leave the queue: all but the last minimumsize ones. *)
Due(queue, minimumsize) ==
  SubSeq(queue, 1, Len(queue) - minimumsize)

(* The first event of a run is marked BORE, the last of the queue EORE. *)
Marked(queue, minimumsize) ==
  LET due == Due(queue, minimumsize)
  IN  [i \in DOMAIN due |->
         [due[i] EXCEPT !.bore = ~BORE_sent /\ i = 1,
                        !.eore = minimumsize = 0 /\ i = Len(due)]]

(* Events with too few hits are dropped, with the marks they carry. *)
SentOf(s) == Selected(s, {i \in DOMAIN s : s[i].hits})

(* sendallevents: all goes well, or SendEvent throws at the k-th event. *)
sendallevents(queue, minimumsize) ==
  LET marked == Marked(queue, minimumsize)
  IN  /\ out' = out \o SentOf(marked)
      /\ deqEvent' = SubSeq(queue, Len(marked) + 1, Len(queue))
      /\ BORE_sent' = (BORE_sent \/ marked # <<>>)
      /\ UNCHANGED failed

SendThrows(queue, minimumsize) ==
  LET marked == Marked(queue, minimumsize)
  IN  \E k \in DOMAIN marked :
        /\ marked[k].hits
        /\ out' = out \o SentOf(SubSeq(marked, 1, k - 1))
        /\ deqEvent' = SubSeq(queue, k, Len(queue))
        /\ BORE_sent' = TRUE
        /\ failed' = TRUE

(* Fault: the last events are sent whether the run was stopped or not. *)
MaySendAlways == TRUE

(* Sending to a stopped data collector would crash the producer. *)
MaySend == ~stopped
-----------------------------------------------------------------------------
(* Fault: a stop ends the reading of the connection. *)
LeavesLoopOnStop == ~running

(* A stop ends the reading of a file only. *)
LeavesLoop == ~running /\ input = "file"

LoopTop ==
  /\ pc = "top"
  /\ pc' = IF terminated \/ LeavesLoop THEN "flush"
           ELSE IF fd = "none" /\ input = "tcp" THEN "top" ELSE "read"
  /\ UNCHANGED <<input, command, source, fd, flags, raw, events, ReprocessingFinished,
                 nRead>>

ReadData ==
  /\ pc = "read" /\ fd = "ok" /\ pending > 0
  /\ pending' = pending - 1
  /\ nRead' = nRead + 1
  /\ rawFile' = IF rawOpen THEN rawFile + 1 ELSE rawFile
  /\ \E n \in 0 .. MaxYield : \E new \in Completed(n) :
       /\ deqEvent' = deqEvent \o new
       /\ built' = built \o [i \in 1 .. n |-> new[i].hits]
  /\ pc' = IF MaySend THEN "send" ELSE "top"
  /\ UNCHANGED <<input, command, peer, toldToStop, chunks, fd, flags, rawOpen,
                 BORE_sent, out, failed, ReprocessingFinished>>

Send ==
  /\ pc = "send"
  /\ \/ sendallevents(deqEvent, 1) /\ UNCHANGED stopped
     \/ SendThrows(deqEvent, 1) /\ stopped' = TRUE
  /\ pc' = "top"
  /\ UNCHANGED <<input, command, source, fd, running, raw, built, ReprocessingFinished,
                 nRead>>

(* read returns 0 at the end of the stream, -1 on an error. *)
ReadEnds ==
  /\ pc = "read" /\ (fd = "bad" \/ (pending = 0 /\ peer # "open"))
  /\ pc' = "flush"
  /\ UNCHANGED <<input, command, source, fd, flags, raw, events, ReprocessingFinished,
                 nRead>>

(* Fault: stopped stays as it is. *)
FlushUnnoticed ==
  /\ pc = "flush"
  /\ \E n \in 0 .. MaxYield : \E new \in Completed(n) :
       /\ built' = built \o [i \in 1 .. n |-> new[i].hits]
       /\ \/ MaySend /\ sendallevents(deqEvent \o new, 0)
          \/ MaySend /\ SendThrows(deqEvent \o new, 0)
          \/ ~MaySend /\ deqEvent' = deqEvent \o new /\ UNCHANGED <<BORE_sent, out, failed>>
  /\ pc' = "close"
  /\ UNCHANGED <<input, command, source, fd, flags, raw, ReprocessingFinished,
                 nRead>>

(* buildEvents(deqEvent, true), the last events, and _stopped = 1. *)
Flush ==
  /\ pc = "flush"
  /\ \E n \in 0 .. MaxYield : \E new \in Completed(n) :
       /\ built' = built \o [i \in 1 .. n |-> new[i].hits]
       /\ \/ MaySend /\ sendallevents(deqEvent \o new, 0)
          \/ MaySend /\ SendThrows(deqEvent \o new, 0)
          \/ ~MaySend /\ deqEvent' = deqEvent \o new /\ UNCHANGED <<BORE_sent, out, failed>>
  /\ stopped' = TRUE
  /\ pc' = "close"
  /\ UNCHANGED <<input, command, source, fd, running, raw, ReprocessingFinished,
                 nRead>>

Close ==
  /\ pc = "close"
  /\ deqEvent' = <<>>
  /\ fd' = "none"
  /\ pc' = IF input = "file" THEN "signal" ELSE "idle"
  /\ UNCHANGED <<input, command, source, flags, raw, BORE_sent, out, built, failed,
                 ReprocessingFinished, nRead>>

Signal ==
  /\ pc = "signal"
  /\ ReprocessingFinished' = TRUE
  /\ pc' = "idle"
  /\ UNCHANGED <<input, command, source, fd, flags, raw, events, nRead>>

RunLoop ==
  \/ LoopTop
  \/ ReadData
  \/ Send
  \/ ReadEnds
  \/ Flush
  \/ Close
  \/ Signal
-----------------------------------------------------------------------------
(* OpenConnection; its result is not looked at.  Without a socket _fd is -1; a
   socket that could not be connected stays and fails when it is read. *)
OpenConnection ==
  \/ /\ input = "tcp"
     /\ fd' = "ok" /\ peer' = "open" /\ pending' = 0
  \/ /\ input = "file"
     /\ fd' = "ok" /\ peer' = "eof" /\ pending' \in 0 .. MaxChunks
  \/ fd' = "bad" /\ peer' = "none" /\ pending' = 0
  \/ input = "tcp" /\ fd' = "none" /\ peer' = "none" /\ pending' = 0

(* DoStartRun with ScReader::OnStart; then RunLoop begins. *)
DoStartRun ==
  /\ ~inRun /\ ~terminated /\ stopPc = "no" /\ pc = "idle" /\ runs < MaxRuns
  /\ inRun' = TRUE /\ runs' = runs + 1
  /\ BORE_sent' = FALSE
  /\ ReprocessingFinished' = (ReprocessingFinished /\ input # "file")
  /\ rawOpen' = TRUE /\ rawFile' = 0
  /\ OpenConnection
  /\ toldToStop' = FALSE /\ chunks' = pending'
  /\ running' = TRUE /\ stopped' = FALSE
  /\ pc' = "top"
  /\ deqEvent' = <<>> /\ out' = <<>> /\ built' = <<>> /\ failed' = FALSE /\ nRead' = 0
  /\ UNCHANGED <<input, stopPc, terminated>>

(* ScReader::OnStop sends STOP. *)
StopBegins ==
  /\ inRun /\ stopPc = "no"
  /\ stopPc' = "told"
  /\ toldToStop' = (input = "tcp" /\ fd = "ok")
  /\ UNCHANGED <<input, inRun, runs, terminated, peer, pending, chunks, fd, flags, pc,
                 raw, events, ReprocessingFinished, nRead>>

StopRunning ==
  /\ stopPc = "told"
  /\ running' = FALSE
  /\ stopPc' = "wait"
  /\ UNCHANGED <<input, inRun, runs, terminated, source, fd, stopped, pc, raw, events,
                 ReprocessingFinished, nRead>>

(* Fault: it does not wait for RunLoop. *)
StopReturnsEarly ==
  /\ stopPc = "wait"
  /\ stopPc' = "no" /\ inRun' = FALSE
  /\ rawOpen' = FALSE
  /\ ReprocessingFinished' = (ReprocessingFinished /\ input # "file")
  /\ UNCHANGED <<input, runs, terminated, source, fd, flags, pc, rawFile, events, nRead>>

(* The wait for _stopped is over. *)
StopReturns ==
  /\ stopPc = "wait" /\ stopped
  /\ stopPc' = "no" /\ inRun' = FALSE
  /\ rawOpen' = FALSE
  /\ ReprocessingFinished' = (ReprocessingFinished /\ input # "file")
  /\ UNCHANGED <<input, runs, terminated, source, fd, flags, pc, rawFile, events, nRead>>

DoTerminate ==
  /\ ~terminated /\ stopPc = "no"
  /\ terminated' = TRUE
  /\ UNCHANGED <<input, inRun, runs, stopPc, source, fd, flags, pc, raw, events,
                 ReprocessingFinished, nRead>>
-----------------------------------------------------------------------------
PeerSends ==
  /\ peer = "open" /\ chunks < MaxChunks
  /\ chunks' = chunks + 1 /\ pending' = pending + 1
  /\ UNCHANGED <<input, command, peer, toldToStop, fd, flags, pc, raw, events,
                 ReprocessingFinished, nRead>>

PeerGoes(how, left) ==
  /\ peer = "open"
  /\ peer' = how /\ pending' = left
  /\ UNCHANGED <<input, command, toldToStop, chunks, fd, flags, pc, raw, events,
                 ReprocessingFinished, nRead>>

PeerCloses == PeerGoes("closed", pending)

PeerResets == PeerGoes("reset", 0)

(* Labview closes the connection after STOP. *)
PeerObeys == toldToStop /\ PeerCloses
-----------------------------------------------------------------------------
Init ==
  /\ input \in Inputs
  /\ inRun = FALSE /\ runs = 0 /\ stopPc = "no" /\ terminated = FALSE
  /\ peer = "none" /\ pending = 0 /\ toldToStop = FALSE /\ chunks = 0
  /\ fd = "none" /\ running = FALSE /\ stopped = TRUE /\ pc = "idle"
  /\ rawOpen = FALSE /\ rawFile = 0
  /\ deqEvent = <<>> /\ BORE_sent = FALSE /\ out = <<>>
  /\ ReprocessingFinished = FALSE
  /\ nRead = 0 /\ built = <<>> /\ failed = FALSE

Next ==
  \/ RunLoop
  \/ DoStartRun
  \/ StopBegins
  \/ StopRunning
  \/ StopReturns
  \/ DoTerminate
  \/ PeerSends
  \/ PeerCloses
  \/ PeerResets

Spec == Init /\ [][Next]_vars

(* Both threads go on, and Labview obeys. *)
FairSpec == Spec /\ WF_vars(RunLoop) /\ WF_vars(StopRunning) /\ WF_vars(StopReturns)
                 /\ WF_vars(PeerObeys)
-----------------------------------------------------------------------------
EventType == [id : Nat, hits : BOOLEAN, bore : BOOLEAN, eore : BOOLEAN]

(* While a run goes on, at most one event is held back between two reads. *)
TypeOK ==
  /\ input \in Inputs /\ stopPc \in {"no", "told", "wait"}
  /\ peer \in {"none", "open", "closed", "reset", "eof"} /\ fd \in {"none", "ok", "bad"}
  /\ pc \in {"idle", "top", "read", "send", "flush", "close", "signal"}
  /\ {runs, pending, chunks, rawFile, nRead} \subseteq Nat
  /\ {inRun, terminated, toldToStop, running, stopped, rawOpen, BORE_sent,
      ReprocessingFinished, failed} \subseteq BOOLEAN
  /\ deqEvent \in Seq(EventType) /\ out \in Seq(EventType) /\ built \in Seq(BOOLEAN)
  /\ pc \in {"top", "read"} /\ ~stopped => Len(deqEvent) <= 1

(* The loop of the run is over. *)
Over == pc \in {"close", "signal", "idle"}

(* As long as the collector is there, a run sends every event with enough hits
   exactly once and in order, also those that are completed by the final dump.
   BORE is on the first, EORE on the last event that was built, and on no other. *)
RunFramed ==
  ~failed =>
    /\ \A i, j \in DOMAIN out : i < j => out[i].id < out[j].id
    /\ \E m \in 0 .. Len(built) :
         /\ {out[i].id : i \in DOMAIN out} = {n \in 1 .. m : built[n]}
         /\ Over => m = Len(built)
    /\ \A i \in DOMAIN out : /\ out[i].bore <=> out[i].id = 1
                             /\ out[i].eore <=> Over /\ out[i].id = Len(built)

(* AHCALProducer.cc:394: no event is sent once the run was stopped, although
   RunLoop may still be reading. *)
NotToStoppedCollector == [][out' # out => inRun']_vars

(* Unless the collector failed, all bytes that were read are in the raw file:
   it is not closed before RunLoop is done. *)
RawFileComplete == ~failed => rawFile = nRead

(* All that Labview sent until it closed the connection is read, also what
   arrives after the stop, unless the producer is terminated. *)
StopDrains ==
  Over /\ input = "tcp" /\ peer # "reset" /\ ~terminated => nRead = chunks

(* RunLoop polls for a socket that DoStartRun did not get. *)
NoSocket == pc = "top" /\ fd = "none" /\ input = "tcp"

(* DoStopRun returns, unless RunLoop waits for a connection that nobody makes. *)
StopEnds == stopPc = "told" ~> (stopPc = "no" \/ NoSocket)
=============================================================================
