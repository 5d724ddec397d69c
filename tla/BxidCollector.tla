---------------------------- MODULE BxidCollector ----------------------------
(***************************************************************************)
(* CaliceAhcalBifBxidDataCollector: events of several producers that carry *)
(* the same readout cycle and BXID are merged into one.  DoReceive queues  *)
(* an event and, unless some connected producer has nothing queued, runs   *)
(* BuildEvent_bxid, whose loop is modelled iteration by iteration: the     *)
(* head of the iteration picks the sub-events (MergeHeads), its end judges *)
(* whether the event is written (Judge).  DoConnect and DoDisconnect come  *)
(* from another thread and change the m_active flags at any point.         *)
(*                                                                         *)
(* A key is the pair <<ROC, BXID>> of an event; NoTag stands for an event  *)
(* that lacks one of the tags.  The producers and the EUDAQ transport are  *)
(* external: a producer's keys increase, and events may still arrive after *)
(* the disconnection was reported.  sent, ever, late and last are          *)
(* history; no guard of the collector reads them.                          *)
(***************************************************************************)
EXTENDS Integers, Sequences, FiniteSets

CONSTANTS
  Order,        \* the producers that are merged, in the order of the code
  Bif,          \* the one whose BXID may be far below zero
  MinBifBxid,   \* -100
  Mandatory,    \* producers with m_evt_mandatory_* set
  Keys,         \* the keys of events
  NoTag,        \* stands for the key of an event without ROC or BXID
  MaxTable, MaxBad      \* bounds: table events, untagged events in a queue

Prods == {Order[i] : i \in DOMAIN Order}

ASSUME CollectorAssumption ==
  /\ Order \in Seq(Prods)
  /\ Mandatory \subseteq Prods
  /\ Keys \subseteq Int \X Int /\ NoTag \notin Keys
  /\ MinBifBxid \in Int /\ MaxTable \in Nat /\ MaxBad \in Nat

VARIABLES
  queue,       \* m_que_ahcal, m_que_bif, m_que_hodoscope1, m_que_hodoscope2
  table,       \* size of m_que_desytable
  active,      \* producers whose m_active_* flag is set
  pc,          \* "idle", or where the loop of BuildEvent_bxid is
  merged,      \* ev_sync: its key and the producers present in it
  out,         \* the written events that merge something
  thrown,      \* m_thrown_incomplete
  sent, ever, late, last        \* history

vars == <<queue, table, active, pc, merged, out, thrown, sent, ever, late, last>>
-----------------------------------------------------------------------------
Before(a, b) == a[1] < b[1] \/ (a[1] = b[1] /\ a[2] < b[2])

NoEvent == [key |-> NoTag, subs |-> {}, table |-> FALSE]

(* Fault: only the mandatory producers are waited for. *)
BlockedMandatory(p, q, act) == q[p] = <<>> /\ p \in act \cap Mandatory

(* An active producer with an empty queue: "more will come". *)
Blocked(p, q, act) == q[p] = <<>> /\ p \in act

(* A head the loop throws away: without tags, or a BIF event too long before
   the first BXID. *)
BadKey(p, k) == k = NoTag \/ (k # NoTag /\ p = Bif /\ k[2] < MinBifBxid)

Bad(p) == queue[p] # <<>> /\ BadKey(p, Head(queue[p]))

(* Fault: the loop continues without pop_front. *)
PopForgotten(p) == queue

Pop(p) == [queue EXCEPT ![p] = Tail(@)]

(* Fault: the sub-events that were taken stay queued. *)
PoppedNone(subs) == queue

Popped(subs) == [p \in Prods |-> IF p \in subs THEN Tail(queue[p]) ELSE queue[p]]

(* After an event was queued: quit if there are not enough events to merge. *)
StartBuilding(q) == \A p \in Prods : ~Blocked(p, q, active)
-----------------------------------------------------------------------------
DoStartRun ==
  /\ pc = "idle" /\ active = {}
  /\ queue' = [p \in Prods |-> <<>>] /\ table' = 0
  /\ thrown' = 0
  /\ out' = <<>>
  /\ sent' = [p \in Prods |-> {}] /\ ever' = {} /\ late' = FALSE
  /\ last' = NoTag
  /\ UNCHANGED <<active, pc, merged>>

DoConnect(p) ==
  /\ p \notin ever
  /\ active' = active \cup {p}
  /\ ever' = ever \cup {p}
  /\ late' = (late \/ last # NoTag)
  /\ UNCHANGED <<queue, table, pc, merged, out, thrown, sent, last>>

DoDisconnect(p) ==
  /\ p \in active
  /\ active' = active \ {p}
  /\ UNCHANGED <<queue, table, pc, merged, out, thrown, sent, ever, late, last>>

(* DoReceive, on the thread that also runs BuildEvent_bxid. *)
DoReceive(p, k) ==
  /\ pc = "idle" /\ p \in ever
  /\ queue' = [queue EXCEPT ![p] = Append(@, k)]
  /\ pc' = IF StartBuilding(queue') THEN "top" ELSE "idle"
  /\ sent' = IF k = NoTag THEN sent ELSE [sent EXCEPT ![p] = @ \cup {k}]
  /\ late' = (late \/ p \notin active)
  /\ UNCHANGED <<table, active, merged, out, thrown, ever, last>>

ReceiveTagged ==
  \E p \in Prods, k \in Keys :
    /\ \A j \in sent[p] : Before(j, k)
    /\ DoReceive(p, k)

ReceiveUntagged ==
  \E p \in Prods :
    /\ Cardinality({i \in DOMAIN queue[p] : queue[p][i] = NoTag}) < MaxBad
    /\ DoReceive(p, NoTag)

ReceiveTable ==
  /\ pc = "idle" /\ table < MaxTable
  /\ table' = table + 1
  /\ pc' = IF StartBuilding(queue) THEN "top" ELSE "idle"
  /\ UNCHANGED <<queue, active, merged, out, thrown, sent, ever, late, last>>
-----------------------------------------------------------------------------
(* The queues are looked at in order; the first that is empty or has a bad
   head decides. *)
WaitForMore ==
  /\ pc = "top"
  /\ \E i \in DOMAIN Order : /\ Blocked(Order[i], queue, active)
                             /\ \A j \in 1 .. i - 1 : ~Bad(Order[j])
  /\ pc' = "idle"
  /\ UNCHANGED <<queue, table, active, merged, out, thrown, sent, ever, late, last>>

ThrowBad ==
  /\ pc = "top"
  /\ \E i \in DOMAIN Order :
       /\ Bad(Order[i])
       /\ \A j \in 1 .. i - 1 : ~Bad(Order[j]) /\ ~Blocked(Order[j], queue, active)
       /\ queue' = Pop(Order[i])
  /\ UNCHANGED <<table, active, pc, merged, out, thrown, sent, ever, late, last>>

NothingToDecide ==
  \A p \in Prods : ~Blocked(p, queue, active) /\ ~Bad(p)

(* Of the heads, those with the smallest cycle and therein the smallest BXID
   are taken, and one event of the table, whatever it belongs to. *)
MergeHeads ==
  /\ pc = "top" /\ NothingToDecide
  /\ \E k \in Keys :
       LET subs == {p \in Prods : queue[p] # <<>> /\ Head(queue[p]) = k}
       IN  /\ subs # {}
           /\ \A p \in Prods : queue[p] # <<>> => ~Before(Head(queue[p]), k)
           /\ merged' = [key |-> k, subs |-> subs, table |-> table > 0]
           /\ queue' = Popped(subs)
           /\ last' = k
  /\ table' = IF table > 0 THEN table - 1 ELSE 0
  /\ pc' = "judge"
  /\ UNCHANGED <<active, out, thrown, sent, ever, late>>

(* With every queue empty and nobody active, the loop goes on all the same. *)
MergeNothing ==
  /\ pc = "top" /\ NothingToDecide
  /\ \A p \in Prods : queue[p] = <<>>
  /\ merged' = [NoEvent EXCEPT !.table = table > 0]
  /\ table' = IF table > 0 THEN table - 1 ELSE 0
  /\ pc' = "judge"
  /\ UNCHANGED <<queue, active, out, thrown, sent, ever, late, last>>

(* The mandatory producers that are active must be present, else the event is
   thrown away. *)
Complete == Mandatory \cap active \subseteq merged.subs

Judge ==
  /\ pc = "judge"
  /\ pc' = "top"
  /\ IF Complete
     THEN /\ out' = IF merged.subs # {} THEN Append(out, merged) ELSE out
          /\ UNCHANGED thrown
     ELSE /\ thrown' = thrown + 1
          /\ UNCHANGED out
  /\ merged' = NoEvent
  /\ UNCHANGED <<queue, table, active, sent, ever, late, last>>
-----------------------------------------------------------------------------
Init ==
  /\ queue = [p \in Prods |-> <<>>] /\ table = 0 /\ active = {}
  /\ pc = "idle" /\ merged = NoEvent /\ out = <<>> /\ thrown = 0
  /\ sent = [p \in Prods |-> {}] /\ ever = {} /\ late = FALSE /\ last = NoTag

Build == WaitForMore \/ ThrowBad \/ MergeHeads \/ MergeNothing \/ Judge

Next ==
  \/ DoStartRun
  \/ \E p \in Prods : DoConnect(p) \/ DoDisconnect(p)
  \/ ReceiveTagged
  \/ ReceiveUntagged
  \/ ReceiveTable
  \/ WaitForMore
  \/ ThrowBad
  \/ MergeHeads
  \/ MergeNothing
  \/ Judge

Spec == Init /\ [][Next]_vars

(* The thread inside BuildEvent_bxid goes on. *)
FairSpec == Spec /\ WF_vars(Build)
-----------------------------------------------------------------------------
(* While nobody connects late and no event arrives after its producer left,
   events are written in the order of their cycle and BXID, however the
   deliveries interleave with each other and with disconnections. *)
MergedSorted ==
  ~late => \A i, j \in 1 .. Len(out) :
              i < j => Before(out[i].key, out[j].key)

Mergeable ==
  {e \in Prods \X Keys :
     \/ /\ ~BadKey(e[1], e[2])
        /\ \E i \in 1 .. Len(queue[e[1]]) : queue[e[1]][i] = e[2]
     \/ pc = "judge" /\ merged.key = e[2] /\ e[1] \in merged.subs}

M == INSTANCE Merge WITH
  Sources <- Prods,
  Keys    <- Keys,
  Before  <- Before,
  avail   <- Mergeable,
  out     <- [i \in DOMAIN out |-> [key |-> out[i].key, subs |-> out[i].subs]],
  wanted  <- [key : Keys,
              subs : {S \in SUBSET Prods : S # {} /\ Mandatory \cap active \subseteq S}],
  over    <- active = {}

(* The collector implements Merge, also when producers come late, leave while
   events are merged, and when events arrive after their producer left: it
   writes the oldest key with every event that has it, an event is written at
   most once, only what lacks an active mandatory producer is thrown away, and the
   queues are cleared only while nobody is connected. *)
ImplementsMerge == M!Spec

(* While some producer is connected, BuildEvent_bxid returns: the thread that
   receives all events is not lost in it.  (When nobody is, it does not return:
   it goes on and writes events without sub-events.) *)
BuildReturns ==
  (pc # "idle" /\ active # {}) ~> (pc = "idle" \/ active = {})
=============================================================================
