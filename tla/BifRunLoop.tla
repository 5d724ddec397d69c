----------------------------- MODULE BifRunLoop -----------------------------
(***************************************************************************)
(* The threads of caliceahcalbifProducer: RunLoop, which fetches words     *)
(* from the FIFO of the BIF, has them decoded and sends the events, and    *)
(* DoStopRun on the thread of the command receiver, which raises           *)
(* _TLUJustStopped and waits until RunLoop lowers it.                      *)
(*                                                                         *)
(* A shutter packet is one word, a trigger packet two, and a fetch may end *)
(* between them: the first word is then kept for the next fetch.  What     *)
(* packets contain is the subject of BifDecoder; here decoding completes   *)
(* some number of events.  Every word is also written to a raw file.  The  *)
(* BIF and its FIFO are external; the BIF may die inside a packet.  Events *)
(* are sent but one, which is held back so that the last one of the run    *)
(* can be marked EORE.  sent, fetched, decoded, built, due, cleanRaw and   *)
(* cut are history that no guard of the producer reads.                    *)
(***************************************************************************)
EXTENDS Integers, Sequences, SequencesExt, Subsequences

CONSTANTS
  MaxYield,      \* most events that one round of decoding completes
  MaxPackets, MaxRuns, MaxErrors      \* bounds: packets, runs, failed reads

ASSUME BoundAssumption ==
  MaxYield \in Nat /\ MaxPackets \in Nat /\ MaxRuns \in Nat /\ MaxErrors \in Nat

VARIABLES
  fifo, errors, runs,             \* the BIF
  TLUStarted, TLUJustStopped,     \* shared by the threads
  pc,                             \* where RunLoop is
  justStopped, fetchResult,       \* its local variables
  stopPc,                         \* where DoStopRun is
  quiet,       \* WaitAfterStopSeconds have passed since _last_readout_time
  queue,       \* m_dataFromTLU
  word1WrittenPreviously, rawFile,
  deqEvent, BORESent,
  out,         \* the events given to SendEvent in this run
  sent, fetched, decoded, built, due, cleanRaw, cut    \* history

shared  == <<TLUStarted, TLUJustStopped, stopPc>>
local   == <<justStopped, fetchResult>>
raw     == <<word1WrittenPreviously, rawFile>>
events  == <<deqEvent, BORESent, out, built>>
bif     == <<fifo, sent, cut>>
seen    == <<queue, raw, decoded>>
run     == <<runs, due, cleanRaw>>
vars    == <<bif, errors, run, shared, pc, local, quiet, seen, fetched, events>>
-----------------------------------------------------------------------------
(* A word: the packet it belongs to and its place in it. *)
Word(n, part) == [packet |-> n, part |-> part]

Incomplete(words) == words # <<>> /\ Last(words).part = "first"

(* The i-th word of the queue is the only word of a packet, or the second one
   of a packet whose first word precedes it. *)
Completes(i) ==
  \/ queue[i].part = "only"
  \/ i > 1 /\ queue[i].part = "second" /\ queue[i - 1].part = "first"

PacketsOf(words) == [k \in DOMAIN words |-> words[k].packet]

(* Fault: the word is given up when the packet is not complete. *)
PutBackNothing == <<>>

(* What is left in the queue: the first word of an incomplete packet. *)
PutBack == IF Incomplete(queue) THEN <<Last(queue)>> ELSE <<>>

(* Fault: a word that was put back is written again. *)
WrittenAgain == queue

(* The words written to the raw file. *)
Written == IF word1WrittenPreviously THEN Tail(queue) ELSE queue

ProcessQueuedBifData ==
  /\ pc = "process"
  /\ LET ends == Selected(queue, {i \in DOMAIN queue : Completes(i)})
     IN  /\ decoded' = decoded \o PacketsOf(ends)
         /\ \E n \in 0 .. (IF ends = <<>> THEN 0 ELSE MaxYield) :
              /\ deqEvent' = deqEvent \o
                   [i \in 1 .. n |-> [id |-> built + i, bore |-> FALSE, eore |-> FALSE]]
              /\ built' = built + n
  /\ rawFile' = rawFile \o Written
  /\ word1WrittenPreviously' = Incomplete(queue)
  /\ queue' = PutBack
  /\ pc' = "send"
  /\ UNCHANGED <<bif, errors, run, shared, local, quiet, fetched, BORESent, out>>

(* Fault: no event is held back. *)
sendallEagerly(minimumsize) ==
  /\ out' = out \o [i \in DOMAIN deqEvent |->
       [deqEvent[i] EXCEPT !.bore = ~BORESent /\ i = 1,
                           !.eore = minimumsize = 0 /\ i = Len(deqEvent)]]
  /\ deqEvent' = <<>>
  /\ BORESent' = (BORESent \/ deqEvent # <<>>)

(* All events but the last minimumsize ones are sent: the first of the run
   is marked BORE, the last of the queue EORE. *)
sendallevents(minimumsize) ==
  LET n == IF Len(deqEvent) > minimumsize THEN Len(deqEvent) - minimumsize ELSE 0
  IN  /\ out' = out \o [i \in 1 .. n |->
           [deqEvent[i] EXCEPT !.bore = ~BORESent /\ i = 1,
                               !.eore = minimumsize = 0 /\ i = n]]
      /\ deqEvent' = SubSeq(deqEvent, n + 1, Len(deqEvent))
      /\ BORESent' = (BORESent \/ n > 0)
-----------------------------------------------------------------------------
(* Fault: the flag is not copied at the top but looked at in the end. *)
StopSeenLate == TLUJustStopped

(* Whether this round of the loop may be the last. *)
StopSeen == justStopped

LoopTop ==
  /\ pc = "top"
  /\ justStopped' = TLUJustStopped
  /\ pc' = IF TLUStarted \/ TLUJustStopped THEN "fetch" ELSE "after"
  /\ UNCHANGED <<bif, errors, run, shared, fetchResult, quiet, seen, fetched, events>>

(* FetchBifDataWasSuccessfull: the words that were there when the fill level
   was read. *)
FetchWords ==
  /\ pc = "fetch"
  /\ \E n \in 1 .. Len(fifo) :
       /\ queue' = queue \o SubSeq(fifo, 1, n)
       /\ fetched' = fetched \o SubSeq(fifo, 1, n)
       /\ fifo' = SubSeq(fifo, n + 1, Len(fifo))
  /\ fetchResult' = TRUE
  /\ quiet' = FALSE
  /\ pc' = "process"
  /\ UNCHANGED <<sent, cut, errors, run, shared, justStopped, raw, decoded, events>>

(* The inner loop is left when there is nothing to process. *)
NothingFetched(result) ==
  /\ pc = "fetch"
  /\ fetchResult' = result
  /\ pc' = IF queue = <<>> THEN "after" ELSE "process"
  /\ UNCHANGED <<bif, run, shared, justStopped, quiet, seen, fetched, events>>

(* Finding the FIFO empty is a success. *)
FetchNothing == fifo = <<>> /\ NothingFetched(TRUE) /\ UNCHANGED errors

(* Reading the FIFO throws; or reading the fill level fails, which ReadRRegister
   reports as zero, a success.  MaxErrors stands for a connection that recovers:
   one that is lost for good keeps the loop at a word that was put back. *)
FetchFails ==
  /\ fifo # <<>> /\ errors < MaxErrors
  /\ errors' = errors + 1
  /\ \E result \in BOOLEAN : NothingFetched(result)

Send ==
  /\ pc = "send"
  /\ sendallevents(1)
  /\ pc' = IF TLUJustStopped /\ ~fetchResult THEN "after" ELSE "fetch"
  /\ UNCHANGED <<bif, errors, run, shared, local, quiet, seen, fetched, built>>

LoopAgain ==
  /\ pc = "after" /\ ~(StopSeen /\ quiet)
  /\ pc' = "top"
  /\ UNCHANGED <<bif, errors, run, shared, local, quiet, seen, fetched, events>>

(* Fault: the flag stays raised. *)
LoopEndsSilently ==
  /\ pc = "after" /\ StopSeen /\ quiet
  /\ sendallevents(0)
  /\ pc' = "idle"
  /\ UNCHANGED <<bif, errors, run, shared, local, quiet, seen, fetched, built>>

LoopEnds ==
  /\ pc = "after" /\ StopSeen /\ quiet
  /\ sendallevents(0)
  /\ TLUJustStopped' = FALSE
  /\ pc' = "idle"
  /\ UNCHANGED <<bif, errors, run, TLUStarted, stopPc, local, quiet, seen, fetched,
                 built>>

TimePasses ==
  /\ pc # "idle" /\ ~quiet
  /\ quiet' = TRUE
  /\ UNCHANGED <<bif, errors, run, shared, pc, local, seen, fetched, events>>

RunLoop ==
  \/ LoopTop
  \/ FetchWords
  \/ FetchNothing
  \/ FetchFails
  \/ ProcessQueuedBifData
  \/ Send
  \/ LoopAgain
  \/ LoopEnds
-----------------------------------------------------------------------------
(* DoStartRun empties the software and the hardware FIFO; then RunLoop is
   started.  _word1WrittenPreviously stays as the last run left it. *)
DoStartRun ==
  /\ pc = "idle" /\ stopPc = "no" /\ runs < MaxRuns
  /\ runs' = runs + 1
  /\ deqEvent' = <<>> /\ BORESent' = FALSE
  /\ rawFile' = <<>>
  /\ fifo' = <<>> /\ queue' = <<>>
  /\ TLUStarted' = TRUE
  /\ pc' = "top" /\ justStopped' = FALSE /\ quiet' = FALSE
  /\ out' = <<>> /\ sent' = 0 /\ fetched' = <<>> /\ decoded' = <<>>
  /\ built' = 0 /\ due' = 0 /\ cleanRaw' = ~word1WrittenPreviously /\ cut' = FALSE
  /\ UNCHANGED <<errors, TLUJustStopped, stopPc, fetchResult,
                 word1WrittenPreviously>>

StopBegins ==
  /\ stopPc = "no" /\ TLUStarted
  /\ TLUStarted' = FALSE
  /\ stopPc' = "flag"
  /\ UNCHANGED <<bif, errors, run, TLUJustStopped, pc, local, quiet, seen, fetched,
                 events>>

StopFlag ==
  /\ stopPc = "flag"
  /\ TLUJustStopped' = TRUE
  /\ stopPc' = "wait"
  /\ due' = Len(fetched) + Len(fifo)
  /\ UNCHANGED <<bif, errors, runs, cleanRaw, TLUStarted, pc, local, quiet, seen,
                 fetched, events>>

StopReturns ==
  /\ stopPc = "wait" /\ ~TLUJustStopped
  /\ stopPc' = "no"
  /\ UNCHANGED <<bif, errors, run, TLUStarted, TLUJustStopped, pc, local, quiet,
                 seen, fetched, events>>

(* The BIF puts a packet into the FIFO; its last one may lack its second
   word. *)
Packets == {<<Word(sent + 1, "only")>>,
            <<Word(sent + 1, "first"), Word(sent + 1, "second")>>,
            <<Word(sent + 1, "first")>>}

BifSends ==
  /\ pc # "idle" /\ ~cut /\ sent < MaxPackets
  /\ \E p \in Packets :
       /\ fifo' = fifo \o p
       /\ cut' = Incomplete(p)
  /\ sent' = sent + 1
  /\ UNCHANGED <<errors, run, shared, pc, local, quiet, seen, fetched, events>>
-----------------------------------------------------------------------------
Init ==
  /\ fifo = <<>> /\ errors = 0 /\ runs = 0
  /\ TLUStarted = FALSE /\ TLUJustStopped = FALSE /\ pc = "idle" /\ stopPc = "no"
  /\ justStopped = FALSE /\ fetchResult = FALSE /\ quiet = FALSE /\ queue = <<>>
  /\ word1WrittenPreviously = FALSE /\ rawFile = <<>>
  /\ deqEvent = <<>> /\ BORESent = FALSE /\ out = <<>>
  /\ sent = 0 /\ fetched = <<>> /\ decoded = <<>> /\ built = 0 /\ due = 0
  /\ cleanRaw = TRUE /\ cut = FALSE

Next ==
  \/ RunLoop
  \/ TimePasses
  \/ DoStartRun
  \/ StopBegins
  \/ StopFlag
  \/ StopReturns
  \/ BifSends

Spec == Init /\ [][Next]_vars

(* The threads of RunLoop and of DoStopRun go on, and time passes. *)
FairSpec == Spec /\ WF_vars(RunLoop) /\ WF_vars(TimePasses)
                 /\ WF_vars(StopFlag) /\ WF_vars(StopReturns)
-----------------------------------------------------------------------------
(* Wherever fetches end, every packet is decoded exactly once, in order, as
   soon as its last word is there. *)
PacketsReassembled ==
  LET ids == PacketsOf(Selected(fetched, {i \in DOMAIN fetched : fetched[i].part # "first"}))
  IN  IF pc = "process" THEN IsPrefix(decoded, ids) ELSE decoded = ids

(* The raw file of a run has every fetched word exactly once, in order, also
   a word that is processed again with the next fetch. *)
RawFileFaithful ==
  cleanRaw => IF pc = "process" THEN IsPrefix(rawFile, fetched) ELSE rawFile = fetched

(* A run sends all its events in the order they were built, the first of them
   and no other with BORE; EORE is on the last of a finished run only. *)
RunFramed ==
  /\ \A i \in DOMAIN (out \o deqEvent) : (out \o deqEvent)[i].id = i
  /\ Len(out) + Len(deqEvent) = built
  /\ \A i \in DOMAIN out : out[i].bore <=> i = 1
  /\ \A i \in DOMAIN out : out[i].eore <=> (pc = "idle" /\ i = Len(out))
  /\ pc = "idle" => deqEvent = <<>>

(* What was in the FIFO when the run was stopped is fetched before RunLoop
   ends, if reading does not fail. *)
StopDrains == pc = "idle" /\ errors = 0 => Len(fetched) >= due

(* DoStopRun returns, unless the BIF died inside a packet. *)
RunStops == stopPc = "wait" ~> (stopPc = "no" \/ cut)

(* caliceahcalbif_Producer.cc:175, "ensure stopping when last packet is
   incomplete": DoStopRun returns in any case. *)
RunStopsAnyway == stopPc = "wait" ~> stopPc = "no"
=============================================================================
