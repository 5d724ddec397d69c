--------------------------- MODULE SyncCollectors ---------------------------
(***************************************************************************)
(* The four collectors that match events by one number under one lock:     *)
(* "trigid" (TrigidSyncDataCollector), "alpide" (AlpideDataCollector, the  *)
(* same with a minimum of sub-events), "calice" (CaliceDataCollector, two  *)
(* fixed queues) and "hodoscope" (AhcalHodoscopeDataCollector, matched by  *)
(* cycle and BXID, which enter here as one number in their order).         *)
(*                                                                         *)
(* A connection is an object of the EUDAQ transport: a producer that comes *)
(* back has a new one.  DoReceive appends the event; the rest of it, one   *)
(* iteration of its loop per step, runs while the lock is held (pc).       *)
(* link is where a connection is in its life: events may still come after  *)
(* it has left.  sent, calm and wasReset are history; no guard reads them. *)
(***************************************************************************)
EXTENDS Integers, Sequences, FiniteSets

CONSTANTS
  Kinds,        \* the collectors to look at
  Conns,        \* connections
  Ahcal,        \* the connection of the AHCAL producer
  Partner,      \* calice: the connection of the BIF producer
  MinSub,       \* alpide: m_minimun_sub_event
  MaxKey,       \* bound: numbers are 1 .. MaxKey, and of the collectors
  MaxTrigger,   \* other than hodoscope 1 .. MaxTrigger
  NoTag,        \* stands for the number of an event without ROC or BXID
  Bxid0,        \* hodoscope: the numbers of events with BXID 0, or with the
                \* -1 of a trigger before it
  MaxBad        \* bound: such events in a queue

Keys == 1 .. MaxKey

ASSUME SyncAssumption ==
  /\ Kinds \subseteq {"trigid", "alpide", "calice", "hodoscope"}
  /\ IsFiniteSet(Conns) /\ Ahcal \in Conns /\ Partner \in Conns \ {Ahcal}
  /\ Bxid0 \subseteq Keys
  /\ MinSub \in Nat /\ MaxKey \in Nat /\ MaxTrigger \in Nat /\ NoTag \notin Int /\ MaxBad \in Nat

VARIABLES
  kind,
  queue,        \* m_conn_evque, m_que_*, m_*_conn_evts: a map
  gone,         \* m_conn_inactive, m_conn_disconnected
  pc,           \* "idle", or "build" inside DoReceive
  out,          \* the written events
  link,         \* of each connection: "new", "up" or "left"
  sent, calm, wasReset    \* history

vars == <<kind, queue, gone, pc, out, link, sent, calm, wasReset>>
-----------------------------------------------------------------------------
ByTrigger == kind \in {"trigid", "alpide"}

Pair == {Ahcal, Partner}

Map == DOMAIN queue

EmptyMap == [c \in {} |-> <<>>]

At(c) == IF c \in Map THEN queue[c] ELSE <<>>

Set(c, q) == [x \in Map \cup {c} |-> IF x = c THEN q ELSE queue[x]]

Popped(S) == [c \in Map |-> IF c \in S THEN Tail(queue[c]) ELSE queue[c]]

HeadOf(c) == Head(queue[c])

AllFilled == \A c \in Map : queue[c] # <<>>

Written(k, S) == Append(out, [key |-> k, subs |-> S])

(* The hodoscope collector forgets who has left when it knows no AHCAL
   connection: the condition asks for the AHCAL map twice. *)
DoConnect(c) ==
  /\ pc = "idle" /\ link[c] = "new"
  /\ link' = [link EXCEPT ![c] = "up"]
  /\ queue' = IF kind = "calice" THEN queue ELSE Set(c, <<>>)
  /\ gone' = CASE ByTrigger -> gone \ {c}
               [] kind = "hodoscope" /\ Ahcal \notin Map -> {}
               [] OTHER -> gone
  /\ calm' = (calm /\ \A d \in Conns : sent[d] = {})
  /\ UNCHANGED <<kind, pc, out, sent, wasReset>>

(* Fault: the AHCAL connection is not counted. *)
AllLeftHodoscopes(left) == Cardinality(left) = Cardinality(Map \ {Ahcal})

(* The number of those that have left is compared, not who they are. *)
AllLeft(left) == Cardinality(left) = Cardinality(Map)

(* When as many have left as are known, everything queued is cleared. *)
DoDisconnect(c) ==
  /\ pc = "idle" /\ kind # "calice" /\ link[c] = "up"
  /\ link' = [link EXCEPT ![c] = "left"]
  /\ LET left == gone \cup {c}
     IN  /\ gone' = IF AllLeft(left) THEN {} ELSE left
         /\ queue' = IF AllLeft(left) THEN EmptyMap ELSE queue
  /\ calm' = (calm /\ \E d \in Conns \ {c} : link[d] = "up")
  /\ UNCHANGED <<kind, pc, out, sent, wasReset>>

(* DoReset of the trigger number collectors, DoStartRun of calice. *)
Reset ==
  /\ pc = "idle" /\ kind # "hodoscope"
  /\ queue' = IF kind = "calice" THEN [c \in Pair |-> <<>>] ELSE EmptyMap
  /\ gone' = {}
  /\ calm' = FALSE /\ wasReset' = TRUE
  /\ UNCHANGED <<kind, pc, out, link, sent>>

(* Whether DoReceive goes on after it has queued the event in q. *)
Proceeds(q) ==
  CASE ByTrigger          -> \A c \in DOMAIN q : q[c] # <<>>
    [] kind = "calice"    -> TRUE
    [] kind = "hodoscope" -> Ahcal \in DOMAIN q /\ Cardinality(DOMAIN q) >= 3

(* A trigger number collector makes a queue for a connection it does not
   know; the others refuse the event. *)
DoReceive(c, k) ==
  /\ pc = "idle" /\ link[c] # "new"
  /\ ByTrigger \/ c \in Map
  /\ queue' = Set(c, Append(At(c), k))
  /\ pc' = IF Proceeds(queue') THEN "build" ELSE "idle"
  /\ sent' = IF k = NoTag THEN sent ELSE [sent EXCEPT ![c] = @ \cup {k}]
  /\ calm' = (calm /\ link[c] = "up" /\ c \in Map)
  /\ UNCHANGED <<kind, gone, out, link, wasReset>>

ReceiveNumbered ==
  \E c \in Conns, k \in Keys :
    /\ kind = "hodoscope" \/ k <= MaxTrigger
    /\ \A j \in sent[c] : j < k
    /\ DoReceive(c, k)

ReceiveUntagged ==
  /\ kind = "hodoscope"
  /\ \E c \in Conns :
       /\ Cardinality({i \in DOMAIN At(c) : At(c)[i] = NoTag}) < MaxBad
       /\ DoReceive(c, NoTag)
-----------------------------------------------------------------------------
(* Fault: any head will do. *)
OldestHeadAny(k) == \E c \in Map : HeadOf(c) = k

OldestHead(k) ==
  /\ \E c \in Map : HeadOf(c) = k
  /\ \A c \in Map : HeadOf(c) >= k

SubEvents(k) == {c \in Map : HeadOf(c) = k}

(* Connections that have left go when their queue is empty. *)
Over(rest) == {c \in gone \cap Map : rest[c] = <<>>}

(* The trigger number collectors merge once per received event. *)
MergeByTrigger ==
  /\ pc = "build" /\ ByTrigger
  /\ \E k \in Keys :
       /\ OldestHead(k)
       /\ LET rest == Popped(SubEvents(k))
          IN  /\ queue' = [c \in Map \ Over(rest) |-> rest[c]]
              /\ gone' = gone \ Over(rest)
              /\ out' = IF kind = "alpide" /\ Cardinality(SubEvents(k)) < MinSub
                        THEN out ELSE Written(k, SubEvents(k))
  /\ pc' = "idle"
  /\ UNCHANGED <<kind, link, sent, calm, wasReset>>

(* Fault: what follows a dropped head waits for the next event. *)
MatchPairOnce ==
  /\ pc = "build" /\ kind = "calice"
  /\ queue' = Popped({c \in Pair : AllFilled /\ \A d \in Pair : HeadOf(c) <= HeadOf(d)})
  /\ pc' = "idle"
  /\ UNCHANGED <<kind, gone, out, link, sent, calm, wasReset>>

(* The loop of calice drops the smaller of two heads. *)
MatchPair ==
  /\ pc = "build" /\ kind = "calice"
  /\ IF AllFilled
     THEN LET a == HeadOf(Ahcal)
              b == HeadOf(Partner)
              k == IF a < b THEN a ELSE b
          IN  /\ queue' = Popped({c \in Pair : HeadOf(c) = k})
              /\ out' = IF a = b THEN Written(k, Pair) ELSE out
              /\ UNCHANGED pc
     ELSE pc' = "idle" /\ UNCHANGED <<queue, out>>
  /\ UNCHANGED <<kind, gone, link, sent, calm, wasReset>>
-----------------------------------------------------------------------------
Hodoscopes == Map \ {Ahcal}

(* "untagged event.  impossible to synchronize.  dropping.", which is what
   happens to an AHCAL head with BXID 0, too. *)
Unsynchronized == {NoTag} \cup Bxid0

DropUntagged ==
  /\ pc = "build" /\ kind = "hodoscope"
  /\ queue[Ahcal] # <<>> /\ HeadOf(Ahcal) \in Unsynchronized
  /\ queue' = Popped({Ahcal})
  /\ UNCHANGED <<kind, gone, pc, out, link, sent, calm, wasReset>>

(* The AHCAL event that the hodoscopes are compared with. *)
Comparing ==
  /\ pc = "build" /\ kind = "hodoscope"
  /\ queue[Ahcal] # <<>> /\ HeadOf(Ahcal) \notin Unsynchronized

(* Fault: a hodoscope event of the same number is taken for an old one. *)
TooOldOrSame(c) == HeadOf(c) = NoTag \/ HeadOf(c) <= HeadOf(Ahcal)

(* A hodoscope head before the AHCAL event; an untagged one has ROC -1. *)
TooOld(c) ==
  HeadOf(c) = NoTag \/ (HeadOf(c) # NoTag /\ HeadOf(c) < HeadOf(Ahcal))

(* BuildEvent returns at the first empty queue.  The map is ordered by
   address, so that any of the old heads may have been popped before. *)
BuildEventReturns ==
  /\ pc = "build" /\ kind = "hodoscope"
  /\ \/ queue[Ahcal] = <<>> /\ UNCHANGED queue
     \/ /\ Comparing
        /\ \E c \in Hodoscopes : queue[c] = <<>>
        /\ \E S \in SUBSET {c \in Hodoscopes : queue[c] # <<>> /\ TooOld(c)} :
             queue' = Popped(S)
  /\ pc' = "idle"
  /\ UNCHANGED <<kind, gone, out, link, sent, calm, wasReset>>

PopOld ==
  /\ Comparing /\ AllFilled
  /\ LET old == {c \in Hodoscopes : TooOld(c)}
     IN  old # {} /\ queue' = Popped(old)
  /\ UNCHANGED <<kind, gone, pc, out, link, sent, calm, wasReset>>

(* With no old head left, the AHCAL event is written with the hodoscopes that
   have its number, or dropped when none has. *)
MatchHodoscopes ==
  /\ Comparing /\ AllFilled
  /\ \A c \in Hodoscopes : ~TooOld(c)
  /\ LET subs == SubEvents(HeadOf(Ahcal))
     IN  /\ queue' = Popped(subs)
         /\ out' = IF subs = {Ahcal} THEN out ELSE Written(HeadOf(Ahcal), subs)
  /\ UNCHANGED <<kind, gone, pc, link, sent, calm, wasReset>>
-----------------------------------------------------------------------------
Init ==
  /\ kind \in Kinds
  /\ queue = IF kind = "calice" THEN [c \in Pair |-> <<>>] ELSE EmptyMap
  /\ gone = {} /\ pc = "idle" /\ out = <<>>
  /\ link = [c \in Conns |-> "new"] /\ sent = [c \in Conns |-> {}]
  /\ calm = TRUE /\ wasReset = FALSE

Next ==
  \/ \E c \in Conns : DoConnect(c) \/ DoDisconnect(c)
  \/ Reset
  \/ ReceiveNumbered
  \/ ReceiveUntagged
  \/ MergeByTrigger
  \/ MatchPair
  \/ DropUntagged
  \/ BuildEventReturns
  \/ PopOld
  \/ MatchHodoscopes

Spec == Init /\ [][Next]_vars
-----------------------------------------------------------------------------
Events == {e \in Conns \X Keys : e[1] \in Map /\ \E i \in DOMAIN At(e[1]) : At(e[1])[i] = e[2]}

(* The sets of producers whose events of number k belong into the data.  The
   hodoscope collector wants no coincidence at BXID 0. *)
Wanted(k) ==
  {S \in SUBSET Conns :
     CASE kind = "trigid"    -> S # {}
       [] kind = "alpide"    -> S # {} /\ Cardinality(S) >= MinSub
       [] kind = "calice"    -> S = Pair
       [] kind = "hodoscope" -> /\ Ahcal \in S /\ Cardinality(S) >= 2
                                /\ k \notin Bxid0}

NobodyUp == \A c \in Conns : link[c] # "up"

M == INSTANCE Merge WITH
  Sources <- Conns,
  Keys    <- Keys,
  Before  <- <,
  avail   <- Events,
  out     <- out,
  wanted  <- {w \in [key : Keys, subs : SUBSET Conns] : w.subs \in Wanted(w.key)},
  over    <- wasReset \/ NobodyUp

(* Each of the four collectors implements Merge: whatever the interleaving of
   events, connections, departures and resets, it writes the oldest number
   that is queued, with every queued event of that number, and throws away
   only what is not a coincidence it wants.  Counting those who have left
   clears everything only when nobody is connected, unless there was a reset. *)
ImplementsMerge == M!Spec

(* While no connection comes late, somebody is connected and nothing is reset,
   no coincidence is missed: when no event of a number is queued any more, it
   was written with every producer that sent it.  The hodoscope collector does
   miss those at BXID 0. *)
CoincidenceWritten ==
  calm /\ pc = "idle" => \A k \in Keys :
    LET S == {c \in Conns : k \in sent[c]}
    IN  S \in Wanted(k) /\ (\A c \in Conns : <<c, k>> \notin Events)
        => \E i \in DOMAIN out : out[i] = [key |-> k, subs |-> S]

Gapless == \A c \in Conns, j, k \in Keys : k \in sent[c] /\ j < k => j \in sent[c]

(* Nothing that could be merged waits when DoReceive has returned: with all
   connections there, some queue is empty.  The trigger number collectors,
   which merge once per event, keep up only while no number is skipped and
   nobody has left. *)
NothingWaits ==
  pc = "idle" /\ Proceeds(queue) /\ Map # {}
    /\ (ByTrigger => calm /\ Gapless /\ \A c \in Conns : link[c] # "left")
  => \E c \in Map : queue[c] = <<>>
=============================================================================
