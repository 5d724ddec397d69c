------------------------ MODULE TimeCollectors_proofs -------------------------
(***************************************************************************)
(* For any producers, keys and mandatory producers: the collector that     *)
(* merges by readout cycle and BXID implements Merge, and what it writes   *)
(* is sorted while nobody comes late.  For any spans of the events: the    *)
(* collectors that merge by time write together what overlaps, see every   *)
(* overlap, and join the telescope event of a trigger (second part).       *)
(*                                                                         *)
(* As for the other collectors the keys in a queue increase.  Here an      *)
(* event is out of the queues before it is judged, and the active          *)
(* producers may change in between, so the invariant also says what is     *)
(* known while the loop is between MergeHeads and Judge: everything still  *)
(* queued comes after the merged key.                                      *)
(***************************************************************************)
EXTENDS BxidCollector, TsMerge, SharedLemmas

Tags == Keys \cup {NoTag}

Has(q, k) == \E i \in 1 .. Len(q) : q[i] = k

(* The keys in a queue increase; events without a key may lie between. *)
Rising(q) ==
  \A i, j \in 1 .. Len(q) : i < j /\ q[i] # NoTag /\ q[j] # NoTag => Before(q[i], q[j])

(* a is not after b. *)
UpTo(a, b) == a = b \/ Before(a, b)
-----------------------------------------------------------------------------
LEMMA KeysPairs ==
  ASSUME NEW k \in Keys
  PROVE  k \in Int \X Int /\ k[1] \in Int /\ k[2] \in Int /\ k = <<k[1], k[2]>> /\ k # NoTag
BY CollectorAssumption

(* Keys are ordered by cycle and then by BXID, and totally. *)
LEMMA BeforeTrans ==
  ASSUME NEW a \in Keys, NEW b \in Keys, NEW c \in Keys, Before(a, b), Before(b, c)
  PROVE  Before(a, c)
BY KeysPairs DEF Before

LEMMA BeforeIrreflexive ==
  ASSUME NEW a \in Keys
  PROVE  ~Before(a, a)
BY KeysPairs DEF Before

LEMMA BeforeTotal ==
  ASSUME NEW a \in Keys, NEW b \in Keys, ~Before(a, b)
  PROVE  UpTo(b, a)
<1>1. /\ a[1] \in Int /\ a[2] \in Int /\ a = <<a[1], a[2]>>
      /\ b[1] \in Int /\ b[2] \in Int /\ b = <<b[1], b[2]>>
  BY KeysPairs
<1> QED  BY <1>1 DEF Before, UpTo

LEMMA UpToTrans ==
  ASSUME NEW a \in Keys, NEW b \in Keys, NEW c \in Keys, UpTo(a, b)
  PROVE  /\ UpTo(b, c) => UpTo(a, c)
         /\ Before(b, c) => Before(a, c)
         /\ UpTo(c, a) => UpTo(c, b)
         /\ Before(c, a) => Before(c, b)
BY BeforeTrans DEF UpTo
-----------------------------------------------------------------------------
(* Lemmas about one queue. *)

LEMMA HeadTail ==
  ASSUME NEW q \in Seq(Tags), q # <<>>
  PROVE  /\ Len(q) \in Nat /\ Len(q) >= 1
         /\ Head(q) = q[1] /\ Head(q) \in Tags
         /\ Tail(q) \in Seq(Tags) /\ Len(Tail(q)) = Len(q) - 1
         /\ \A i \in 1 .. Len(q) - 1 : Tail(q)[i] = q[i + 1]
BY HeadTailProperties, EmptySeq, LenProperties

LEMMA HeadHas ==
  ASSUME NEW q \in Seq(Tags), q # <<>>
  PROVE  Has(q, Head(q))
BY HeadTail DEF Has

(* Nothing in a queue that starts with a key comes before its head. *)
LEMMA HeadLeast ==
  ASSUME NEW q \in Seq(Tags), q # <<>>, Rising(q), Head(q) # NoTag,
         NEW k \in Keys, Has(q, k)
  PROVE  UpTo(Head(q), k)
<1>1. PICK i \in 1 .. Len(q) : q[i] = k
  BY DEF Has
<1>2. k # NoTag
  BY KeysPairs
<1>3. CASE i = 1
  BY <1>1, <1>3, HeadTail DEF UpTo
<1>4. CASE i # 1
  <2>1. Len(q) \in Nat /\ 1 \in 1 .. Len(q) /\ 1 < i
    BY <1>4, HeadTail
  <2>2. Before(q[1], q[i])
    BY <1>1, <1>2, <2>1, HeadTail DEF Rising
  <2> QED  BY <1>1, <2>2, HeadTail DEF UpTo
<1> QED  BY <1>3, <1>4

(* Popping takes exactly the head. *)
LEMMA TailHas ==
  ASSUME NEW q \in Seq(Tags), q # <<>>, Rising(q), NEW k \in Keys
  PROVE  Has(Tail(q), k) <=> Has(q, k) /\ Head(q) # k
<1>1. ASSUME Has(Tail(q), k)  PROVE Has(q, k) /\ Head(q) # k
  <2>1. PICK i \in 1 .. Len(Tail(q)) : Tail(q)[i] = k
    BY <1>1 DEF Has
  <2>2. i \in 1 .. Len(q) - 1 /\ i + 1 \in 1 .. Len(q) /\ 1 \in 1 .. Len(q) /\ 1 < i + 1
    BY <2>1, HeadTail
  <2>3. q[i + 1] = k
    BY <2>1, <2>2, HeadTail
  <2>4. Head(q) # k
    <3>1. SUFFICES ASSUME q[1] = k PROVE FALSE
      BY HeadTail
    <3>2. Before(q[1], q[i + 1])
      BY <3>1, <2>2, <2>3, KeysPairs DEF Rising
    <3> QED  BY <3>1, <3>2, <2>3, BeforeIrreflexive
  <2> QED  BY <2>2, <2>3, <2>4 DEF Has
<1>2. ASSUME Has(q, k), Head(q) # k  PROVE Has(Tail(q), k)
  <2>1. PICK i \in 1 .. Len(q) : q[i] = k
    BY <1>2 DEF Has
  <2>2. i # 1 /\ Len(q) \in Nat
    BY <1>2, <2>1, HeadTail
  <2>3. i - 1 \in 1 .. Len(q) - 1 /\ i = (i - 1) + 1
    BY <2>1, <2>2
  <2>4. Tail(q)[i - 1] = k
    BY <2>1, <2>3, HeadTail
  <2> QED  BY <2>3, <2>4, HeadTail DEF Has
<1> QED  BY <1>1, <1>2

LEMMA TailRising ==
  ASSUME NEW q \in Seq(Tags), q # <<>>, Rising(q)
  PROVE  Rising(Tail(q))
<1> SUFFICES ASSUME NEW i \in 1 .. Len(q) - 1, NEW j \in 1 .. Len(q) - 1, i < j,
                    Tail(q)[i] # NoTag, Tail(q)[j] # NoTag
             PROVE  Before(Tail(q)[i], Tail(q)[j])
  BY HeadTail DEF Rising
<1>1. i + 1 \in 1 .. Len(q) /\ j + 1 \in 1 .. Len(q) /\ i + 1 < j + 1
  BY HeadTail
<1>2. Tail(q)[i] = q[i + 1] /\ Tail(q)[j] = q[j + 1]
  BY HeadTail
<1> QED  BY <1>1, <1>2 DEF Rising

LEMMA AppendHas ==
  ASSUME NEW q \in Seq(Tags), NEW x \in Tags
  PROVE  /\ Append(q, x) \in Seq(Tags)
         /\ \A k \in Keys : Has(Append(q, x), k) <=> Has(q, k) \/ x = k
<1>1. /\ Append(q, x) \in Seq(Tags) /\ Len(Append(q, x)) = Len(q) + 1 /\ Len(q) \in Nat
      /\ \A i \in 1 .. Len(q) : Append(q, x)[i] = q[i]
      /\ Append(q, x)[Len(q) + 1] = x
  BY AppendProperties, LenProperties
<1>2. 1 .. Len(q) + 1 = 1 .. Len(q) \cup {Len(q) + 1}
  BY <1>1
<1> QED  BY <1>1, <1>2 DEF Has

LEMMA AppendRising ==
  ASSUME NEW q \in Seq(Tags), NEW x \in Tags, Rising(q),
         x # NoTag => \A k \in Keys : Has(q, k) => Before(k, x)
  PROVE  Rising(Append(q, x))
<1>1. /\ Len(Append(q, x)) = Len(q) + 1 /\ Len(q) \in Nat
      /\ \A i \in 1 .. Len(q) : Append(q, x)[i] = q[i] /\ q[i] \in Tags
      /\ Append(q, x)[Len(q) + 1] = x
  BY AppendProperties, LenProperties, ElementOfSeq
<1> SUFFICES ASSUME NEW i \in 1 .. Len(q) + 1, NEW j \in 1 .. Len(q) + 1, i < j,
                    Append(q, x)[i] # NoTag, Append(q, x)[j] # NoTag
             PROVE  Before(Append(q, x)[i], Append(q, x)[j])
  BY <1>1 DEF Rising
<1>2. i \in 1 .. Len(q)
  BY <1>1
<1>3. CASE j = Len(q) + 1
  BY <1>1, <1>2, <1>3 DEF Has, Tags
<1>4. CASE j \in 1 .. Len(q)
  BY <1>1, <1>2, <1>4 DEF Rising
<1> QED  BY <1>1, <1>3, <1>4

LEMMA EmptyHas == \A k : ~Has(<<>>, k)
BY EmptySeq DEF Has
-----------------------------------------------------------------------------
(* The inductive invariant. *)

MergedEvent == [key : Keys, subs : SUBSET Prods, table : BOOLEAN]

Typed ==
  /\ queue \in [Prods -> Seq(Tags)] /\ table \in Nat
  /\ active \subseteq Prods /\ pc \in {"idle", "top", "judge"}
  /\ merged \in [key : Tags, subs : SUBSET Prods, table : BOOLEAN]
  /\ out \in Seq(MergedEvent) /\ thrown \in Nat
  /\ sent \in [Prods -> SUBSET Keys] /\ ever \subseteq Prods
  /\ late \in BOOLEAN /\ last \in Tags

(* A queue holds events that were sent, in the order of their keys. *)
QueuesRise ==
  \A p \in Prods : Rising(queue[p]) /\ \A k \in Keys : Has(queue[p], k) => k \in sent[p]

(* Everything that is queued comes after key k. *)
AllAfter(k) == \A p \in Prods, j \in Keys : Has(queue[p], j) => Before(k, j)

(* An event waits for its judgement: it is the last that was merged, none of it
   is bad, and everything queued comes after it. *)
Judging ==
  pc = "judge" /\ merged.subs # {} =>
    /\ merged.key \in Keys /\ merged.key = last /\ AllAfter(merged.key)
    /\ \A p \in merged.subs : ~BadKey(p, merged.key)

Inv == Typed /\ QueuesRise /\ Judging

LEMMA NoEventTyped ==
  NoEvent \in [key : Tags, subs : SUBSET Prods, table : BOOLEAN] /\ NoEvent.subs = {}
BY DEF NoEvent, Tags

LEMMA InvInit == Init => Inv
<1> SUFFICES ASSUME Init PROVE Inv
  OBVIOUS
<1>1. \A p \in Prods : queue[p] = <<>>
  BY DEF Init
<1>2. Typed
  BY EmptySeq, NoEventTyped DEF Init, Typed, Tags
<1>3. QueuesRise
  BY <1>1, EmptyHas, EmptySeq DEF QueuesRise, Rising
<1>4. Judging
  BY DEF Init, Judging
<1> QED  BY <1>2, <1>3, <1>4 DEF Inv

(* One event is popped from each queue of S. *)
Pops(S) ==
  /\ S \subseteq Prods /\ \A p \in S : queue[p] # <<>>
  /\ queue' = [p \in Prods |-> IF p \in S THEN Tail(queue[p]) ELSE queue[p]]
  /\ UNCHANGED sent

LEMMA PopsQueues ==
  ASSUME Inv, NEW S, Pops(S)
  PROVE  /\ queue' \in [Prods -> Seq(Tags)] /\ QueuesRise'
         /\ \A p \in Prods, k \in Keys :
              Has(queue'[p], k) <=> Has(queue[p], k) /\ ~(p \in S /\ Head(queue[p]) = k)
<1>1. ASSUME NEW p \in Prods
      PROVE  /\ queue'[p] \in Seq(Tags) /\ Rising(queue'[p])
             /\ \A k \in Keys : Has(queue'[p], k) <=> Has(queue[p], k) /\ ~(p \in S /\ Head(queue[p]) = k)
  <2>1. queue[p] \in Seq(Tags) /\ Rising(queue[p])
    BY DEF Inv, Typed, QueuesRise
  <2>2. CASE p \in S
    <3>1. queue'[p] = Tail(queue[p]) /\ queue[p] # <<>>
      BY <2>2 DEF Pops
    <3> QED  BY <2>1, <2>2, <3>1, HeadTail, TailRising, TailHas
  <2>3. CASE p \notin S
    BY <2>1, <2>3 DEF Pops
  <2> QED  BY <2>2, <2>3
<1>2. queue' \in [Prods -> Seq(Tags)]
  <2>1. queue' = [p \in Prods |-> queue'[p]]
    BY DEF Pops
  <2> QED  BY <1>1, <2>1
<1>3. QueuesRise'
  BY <1>1 DEF QueuesRise, Inv, Pops
<1> QED  BY <1>1, <1>2, <1>3

LEMMA ThrowPops ==
  ASSUME Inv, ThrowBad
  PROVE  \E p \in Prods : Bad(p) /\ Pops({p})
<1>1. PICK i \in DOMAIN Order : Bad(Order[i]) /\ queue' = Pop(Order[i])
  BY DEF ThrowBad
<1> DEFINE p == Order[i]
<1>2. p \in Prods
  BY <1>1 DEF Prods
<1>3. queue' = [q \in Prods |-> IF q \in {p} THEN Tail(queue[q]) ELSE queue[q]]
  BY <1>1, <1>2 DEF Pop, Inv, Typed
<1>4. Pops({p})
  BY <1>1, <1>2, <1>3 DEF Pops, Bad, ThrowBad
<1> QED  BY <1>1, <1>2, <1>4

(* The heads that are merged: k is the least key of all that is queued. *)
LEMMA MergeTakes ==
  ASSUME Inv, MergeHeads
  PROVE  \E k \in Keys :
           LET subs == {p \in Prods : queue[p] # <<>> /\ Head(queue[p]) = k}
           IN  /\ subs # {} /\ Pops(subs)
               /\ merged' = [key |-> k, subs |-> subs, table |-> table > 0] /\ last' = k
               /\ \A p \in subs : ~BadKey(p, k)
               /\ \A p \in Prods : queue[p] # <<>> => Head(queue[p]) \in Keys /\ UpTo(k, Head(queue[p]))
               /\ \A p \in Prods, j \in Keys : Has(queue[p], j) => UpTo(k, j)
               /\ \A p \in Prods : p \in subs <=> Has(queue[p], k)
               /\ \A p \in Prods, j \in Keys : Has(queue'[p], j) <=> Has(queue[p], j) /\ j # k
               /\ AllAfter(k)'
<1>1. PICK k \in Keys :
        LET subs == {p \in Prods : queue[p] # <<>> /\ Head(queue[p]) = k}
        IN  /\ subs # {}
            /\ \A p \in Prods : queue[p] # <<>> => ~Before(Head(queue[p]), k)
            /\ merged' = [key |-> k, subs |-> subs, table |-> table > 0]
            /\ queue' = Popped(subs)
            /\ last' = k
  BY DEF MergeHeads
<1> DEFINE subs == {p \in Prods : queue[p] # <<>> /\ Head(queue[p]) = k}
<1>2. Pops(subs)
  BY <1>1 DEF Pops, Popped, MergeHeads
<1>3. ASSUME NEW p \in Prods, queue[p] # <<>>
      PROVE  /\ Head(queue[p]) \in Keys /\ ~BadKey(p, Head(queue[p])) /\ UpTo(k, Head(queue[p]))
             /\ \A j \in Keys : Has(queue[p], j) => UpTo(Head(queue[p]), j)
  <2>1. queue[p] \in Seq(Tags) /\ Rising(queue[p])
    BY DEF Inv, Typed, QueuesRise
  <2>2. ~BadKey(p, Head(queue[p]))
    BY <1>3 DEF MergeHeads, NothingToDecide, Bad
  <2>3. Head(queue[p]) # NoTag /\ Head(queue[p]) \in Keys
    BY <1>3, <2>1, <2>2, HeadTail DEF BadKey, Tags
  <2>4. UpTo(k, Head(queue[p]))
    BY <1>1, <1>3, <2>3, BeforeTotal
  <2> QED  BY <1>3, <2>1, <2>2, <2>3, <2>4, HeadLeast
<1>4. ASSUME NEW p \in Prods, NEW j \in Keys, Has(queue[p], j)
      PROVE  queue[p] # <<>> /\ UpTo(k, j) /\ (j = k => Head(queue[p]) = k)
  <2>1. queue[p] # <<>>
    BY <1>4, EmptyHas
  <2>2. Head(queue[p]) \in Keys /\ UpTo(k, Head(queue[p])) /\ UpTo(Head(queue[p]), j)
    BY <1>3, <1>4, <2>1
  <2>3. UpTo(k, j)
    BY <2>2, UpToTrans
  <2>4. ASSUME j = k  PROVE Head(queue[p]) = k
    BY <2>2, <2>4, UpToTrans, BeforeIrreflexive DEF UpTo
  <2> QED  BY <2>1, <2>3, <2>4
<1>5. ASSUME NEW p \in Prods  PROVE p \in subs <=> Has(queue[p], k)
  BY <1>4, HeadHas DEF Inv, Typed
<1>6. ASSUME NEW p \in Prods, NEW j \in Keys
      PROVE  Has(queue'[p], j) <=> Has(queue[p], j) /\ j # k
  <2>1. Has(queue'[p], j) <=> Has(queue[p], j) /\ ~(p \in subs /\ Head(queue[p]) = j)
    <3> HIDE DEF subs
    <3> QED  BY <1>2, PopsQueues
  <2>2. p \in subs => Head(queue[p]) = k
    OBVIOUS
  <2> HIDE DEF subs
  <2> QED  BY <1>5, <2>1, <2>2
<1>7. AllAfter(k)'
  BY <1>4, <1>6 DEF AllAfter, UpTo
<1>8. \A p \in subs : ~BadKey(p, k)
  BY <1>3
<1> QED  BY <1>1, <1>2, <1>3, <1>4, <1>5, <1>6, <1>7, <1>8

LEMMA ReceiveKeeps ==
  ASSUME Inv, NEW p \in Prods, NEW k \in Tags, DoReceive(p, k),
         k # NoTag => \A j \in sent[p] : Before(j, k)
  PROVE  /\ Inv'
         /\ \A r \in Prods, j \in Keys : Has(queue'[r], j) <=> Has(queue[r], j) \/ (r = p /\ j = k)
<1>1. queue[p] \in Seq(Tags) /\ Rising(queue[p]) /\ \A j \in Keys : Has(queue[p], j) => j \in sent[p]
  BY DEF Inv, Typed, QueuesRise
<1>2. /\ Append(queue[p], k) \in Seq(Tags)
      /\ \A j \in Keys : Has(Append(queue[p], k), j) <=> Has(queue[p], j) \/ k = j
  BY <1>1, AppendHas
<1>3. Rising(Append(queue[p], k))
  BY <1>1, AppendRising
<1>4. /\ sent' \in [Prods -> SUBSET Keys] /\ (\A r \in Prods : sent[r] \subseteq sent'[r])
      /\ k # NoTag => k \in sent'[p]
  BY DEF DoReceive, Inv, Typed, Tags
<1>5. queue'[p] = Append(queue[p], k) /\ \A r \in Prods \ {p} : queue'[r] = queue[r]
  BY DEF DoReceive, Inv, Typed
<1>6. queue' \in [Prods -> Seq(Tags)]
  BY <1>2 DEF DoReceive, Inv, Typed
<1>7. QueuesRise'
  <2> SUFFICES ASSUME NEW r \in Prods
               PROVE  Rising(queue'[r]) /\ \A j \in Keys : Has(queue'[r], j) => j \in sent'[r]
    BY DEF QueuesRise
  <2>1. CASE r = p
    BY <1>1, <1>2, <1>3, <1>4, <1>5, <2>1, KeysPairs
  <2>2. CASE r # p
    BY <1>4, <1>5, <2>2 DEF Inv, QueuesRise
  <2> QED  BY <2>1, <2>2
<1>8. Typed'
  BY <1>4, <1>6 DEF DoReceive, Inv, Typed
<1>9. Judging'
  BY DEF DoReceive, Judging
<1>10. \A r \in Prods, j \in Keys : Has(queue'[r], j) <=> Has(queue[r], j) \/ (r = p /\ j = k)
  BY <1>2, <1>5
<1> QED  BY <1>7, <1>8, <1>9, <1>10 DEF Inv

LEMMA InvNext ==
  ASSUME Inv, [Next]_vars
  PROVE  Inv'
<1>1. CASE DoStartRun
  <2>1. \A p \in Prods : queue'[p] = <<>>
    BY <1>1 DEF DoStartRun
  <2>2. QueuesRise'
    BY <2>1, EmptyHas, EmptySeq DEF QueuesRise, Rising
  <2>3. Typed'
    BY <1>1, EmptySeq DEF DoStartRun, Inv, Typed, Tags
  <2>4. Judging'
    BY <1>1 DEF DoStartRun, Judging
  <2> QED  BY <2>2, <2>3, <2>4 DEF Inv
<1>2. ASSUME NEW p \in Prods, DoConnect(p) \/ DoDisconnect(p)  PROVE Inv'
  <2>1. UNCHANGED <<queue, table, pc, merged, out, thrown, sent, last>>
    BY <1>2 DEF DoConnect, DoDisconnect
  <2>2. Typed'
    BY <1>2, <2>1 DEF DoConnect, DoDisconnect, Inv, Typed
  <2>3. QueuesRise' /\ Judging'
    BY <2>1 DEF Inv, QueuesRise, Judging, AllAfter
  <2> QED  BY <2>2, <2>3 DEF Inv
<1>3. CASE ReceiveTagged
  BY <1>3, ReceiveKeeps DEF ReceiveTagged, Tags
<1>4. CASE ReceiveUntagged
  BY <1>4, ReceiveKeeps DEF ReceiveUntagged, Tags
<1>5. CASE ReceiveTable
  BY <1>5 DEF ReceiveTable, Inv, Typed, QueuesRise, Judging
<1>6. CASE WaitForMore
  BY <1>6 DEF WaitForMore, Inv, Typed, QueuesRise, Judging
<1>7. CASE ThrowBad
  <2>1. queue' \in [Prods -> Seq(Tags)] /\ QueuesRise'
    BY <1>7, ThrowPops, PopsQueues
  <2> QED  BY <1>7, <2>1 DEF ThrowBad, Inv, Typed, Judging
<1>8. CASE MergeHeads
  <2>1. PICK k \in Keys :
          LET subs == {p \in Prods : queue[p] # <<>> /\ Head(queue[p]) = k}
          IN  /\ Pops(subs)
              /\ merged' = [key |-> k, subs |-> subs, table |-> table > 0] /\ last' = k
              /\ \A p \in subs : ~BadKey(p, k)
              /\ AllAfter(k)'
    BY <1>8, MergeTakes
  <2>2. queue' \in [Prods -> Seq(Tags)] /\ QueuesRise'
    BY <2>1, PopsQueues
  <2>3. table' \in Nat
    BY <1>8 DEF MergeHeads, Inv, Typed
  <2>4. merged' \in [key : Tags, subs : SUBSET Prods, table : BOOLEAN] /\ last' \in Tags
    BY <2>1 DEF Tags
  <2>5. Typed'
    BY <1>8, <2>2, <2>3, <2>4 DEF MergeHeads, Inv, Typed
  <2>6. Judging'
    BY <2>1 DEF Judging
  <2> QED  BY <2>2, <2>5, <2>6 DEF Inv
<1>9. CASE MergeNothing
  <2>1. merged'.subs = {} /\ merged' \in [key : Tags, subs : SUBSET Prods, table : BOOLEAN]
    <3>1. merged' = [key |-> NoTag, subs |-> {}, table |-> table > 0]
      BY <1>9 DEF MergeNothing, NoEvent
    <3> QED  BY <3>1 DEF Tags
  <2>2. table' \in Nat
    BY <1>9 DEF MergeNothing, Inv, Typed
  <2>3. Typed'
    BY <1>9, <2>1, <2>2 DEF MergeNothing, Inv, Typed
  <2> QED  BY <1>9, <2>1, <2>3 DEF MergeNothing, Inv, QueuesRise, Judging
<1>10. CASE Judge
  <2>1. out' \in Seq(MergedEvent) /\ thrown' \in Nat
    <3>1. ASSUME merged.subs # {}  PROVE merged \in MergedEvent
      BY <1>10, <3>1 DEF Judge, Inv, Typed, Judging, MergedEvent
    <3>2. \A e \in MergedEvent : Append(out, e) \in Seq(MergedEvent)
      BY AppendProperties DEF Inv, Typed
    <3>3. out \in Seq(MergedEvent) /\ thrown \in Nat /\ thrown + 1 \in Nat
      BY DEF Inv, Typed
    <3>4. \/ out' = out \/ (merged.subs # {} /\ out' = Append(out, merged))
      BY <1>10 DEF Judge
    <3>5. thrown' \in {thrown, thrown + 1}
      BY <1>10 DEF Judge
    <3> QED  BY <3>1, <3>2, <3>3, <3>4, <3>5
  <2>2. Typed'
    BY <1>10, <2>1, NoEventTyped DEF Judge, Inv, Typed
  <2> QED  BY <1>10, <2>2 DEF Judge, Inv, QueuesRise, Judging
<1>11. CASE UNCHANGED vars
  BY <1>11 DEF vars, Inv, Typed, QueuesRise, Judging, AllAfter
<1> QED  BY <1>1, <1>2, <1>3, <1>4, <1>5, <1>6, <1>7, <1>8, <1>9, <1>10, <1>11 DEF Next

(* In every state of the collector the keys in a queue increase, and an event
   that BuildEvent_bxid has merged and not judged yet comes before all of them. *)
THEOREM CollectorInvariant == Spec => []Inv
BY InvInit, InvNext, PTL DEF Spec
-----------------------------------------------------------------------------
(* The collector implements Merge. *)

Available(p, k) ==
  \/ ~BadKey(p, k) /\ Has(queue[p], k)
  \/ pc = "judge" /\ merged.key = k /\ p \in merged.subs

(* The written events as Merge sees them: without the table. *)
Shown == [i \in DOMAIN out |-> [key |-> out[i].key, subs |-> out[i].subs]]

Wanted == {S \in SUBSET Prods : S # {} /\ Mandatory \cap active \subseteq S}

LEMMA MergeableIs ==
  /\ Mergeable \subseteq Prods \X Keys
  /\ \A p \in Prods, k \in Keys : <<p, k>> \in Mergeable <=> Available(p, k)
BY DEF Mergeable, Available, Has

LEMMA MergeableIsNext ==
  (/\ Mergeable \subseteq Prods \X Keys
   /\ \A p \in Prods, k \in Keys : <<p, k>> \in Mergeable <=> Available(p, k))'
BY MergeableIs, PTL

LEMMA SameStep ==
  ASSUME UNCHANGED out, \A p \in Prods, k \in Keys : Available(p, k)' <=> Available(p, k)
  PROVE  UNCHANGED M!vars
<1>1. Mergeable' = Mergeable
  BY MergeableIs, MergeableIsNext
<1> QED  BY <1>1 DEF M!vars

LEMMA ShownAppend ==
  ASSUME Typed, NEW e \in MergedEvent, out' = Append(out, e)
  PROVE  Shown' = Append(Shown, [key |-> e.key, subs |-> e.subs])
<1> DEFINE R == [key : Keys, subs : SUBSET Prods]
           r == [key |-> e.key, subs |-> e.subs]
<1>1. /\ out \in Seq(MergedEvent) /\ Len(out) \in Nat /\ DOMAIN out = 1 .. Len(out)
      /\ \A i \in 1 .. Len(out) : out[i] \in MergedEvent
  BY LenProperties, ElementOfSeq DEF Typed
<1>2. /\ Len(out') = Len(out) + 1 /\ DOMAIN out' = 1 .. Len(out) + 1
      /\ \A i \in 1 .. Len(out) : out'[i] = out[i]
      /\ out'[Len(out) + 1] = e
  BY <1>1, AppendProperties, LenProperties
<1>3. Shown = [i \in 1 .. Len(out) |-> [key |-> out[i].key, subs |-> out[i].subs]]
  BY <1>1 DEF Shown
<1>4. Shown' = [i \in 1 .. Len(out) + 1 |-> [key |-> out'[i].key, subs |-> out'[i].subs]]
  BY <1>2 DEF Shown
<1>5. Shown \in Seq(R) /\ Len(Shown) = Len(out) /\ r \in R
  BY <1>1, <1>3, IsASeq DEF MergedEvent
<1>6. /\ Append(Shown, r) \in Seq(R) /\ Len(Append(Shown, r)) = Len(out) + 1
      /\ \A i \in 1 .. Len(out) : Append(Shown, r)[i] = Shown[i]
      /\ Append(Shown, r)[Len(out) + 1] = r
  BY <1>5, AppendProperties
<1>7. Append(Shown, r) = [i \in 1 .. Len(out) + 1 |-> Append(Shown, r)[i]]
  BY <1>6, LenProperties
<1>8. ASSUME NEW i \in 1 .. Len(out) + 1
      PROVE  Append(Shown, r)[i] = [key |-> out'[i].key, subs |-> out'[i].subs]
  <2>1. CASE i \in 1 .. Len(out)
    <3>1. Shown[i] = [key |-> out[i].key, subs |-> out[i].subs]
      BY <1>3, <2>1
    <3> QED  BY <1>2, <1>6, <2>1, <3>1
  <2>2. CASE i = Len(out) + 1
    BY <1>2, <1>6, <2>2
  <2>3. i \in 1 .. Len(out) \/ i = Len(out) + 1
    BY <1>1
  <2> QED  BY <2>1, <2>2, <2>3
<1> QED  BY <1>4, <1>7, <1>8

(* While an event is judged, it holds exactly what is there of its key. *)
LEMMA JudgedTogether ==
  ASSUME Inv, pc = "judge", merged.subs # {}
  PROVE  /\ merged.key \in Keys /\ merged.subs \subseteq Prods
         /\ M!Together(merged.key) = merged.subs
         /\ \A p \in Prods, j \in Keys : Available(p, j) => UpTo(merged.key, j)
<1>1. merged.key \in Keys /\ merged.subs \subseteq Prods /\ AllAfter(merged.key)
  BY DEF Inv, Typed, Judging
<1>2. \A p \in Prods : Available(p, merged.key) <=> p \in merged.subs
  BY <1>1, BeforeIrreflexive DEF Available, AllAfter
<1>3. M!Together(merged.key) = merged.subs
  BY <1>1, <1>2, MergeableIs DEF M!Together
<1>4. \A p \in Prods, j \in Keys : Available(p, j) => UpTo(merged.key, j)
  BY <1>1 DEF Available, AllAfter, UpTo
<1> QED  BY <1>1, <1>3, <1>4

LEMMA JudgeRefines ==
  ASSUME Inv, Judge
  PROVE  [M!Next]_(M!vars)
<1>1. pc = "judge" /\ pc' = "top" /\ UNCHANGED <<queue, active>>
  BY DEF Judge
<1>2. \A p \in Prods, k \in Keys : Available(p, k)' <=> ~BadKey(p, k) /\ Has(queue[p], k)
  BY <1>1 DEF Available
<1>3. CASE merged.subs = {}
  <2>1. UNCHANGED out
    BY <1>3 DEF Judge
  <2>2. \A p \in Prods, k \in Keys : Available(p, k)' <=> Available(p, k)
    BY <1>2, <1>3 DEF Available
  <2> QED  BY <2>1, <2>2, SameStep
<1>4. CASE merged.subs # {}
  <2>0. PICK k \in Keys : k = merged.key
    BY <1>1, <1>4 DEF Inv, Judging
  <2>1. /\ merged.subs \subseteq Prods /\ M!Together(k) = merged.subs
        /\ \A p \in Prods, j \in Keys : Available(p, j) => UpTo(k, j)
    BY <1>1, <1>4, <2>0, JudgedTogether
  <2>2. AllAfter(k)
    BY <1>1, <1>4, <2>0 DEF Inv, Judging
  <2>3. \A p \in Prods, j \in Keys : Available(p, j)' <=> Available(p, j) /\ j # k
    BY <1>1, <1>2, <2>0, <2>2, BeforeIrreflexive DEF Available, AllAfter
  <2>4. Mergeable' = {e \in Mergeable : e[2] # k}
    BY <2>3, MergeableIs, MergeableIsNext
  <2>5. CASE Complete
    <3>1. out' = Append(out, merged) /\ merged \in MergedEvent
      BY <1>4, <2>0, <2>5 DEF Judge, Inv, Typed, MergedEvent
    <3>2. Shown' = Append(Shown, [key |-> k, subs |-> merged.subs])
      BY <2>0, <3>1, ShownAppend DEF Inv
    <3>3. M!Together(k) \in Wanted
      BY <1>4, <2>1, <2>5 DEF Complete, Wanted
    <3>4. M!Oldest(k)
      <4>1. ASSUME NEW e \in Mergeable  PROVE ~Before(e[2], k)
        <5>1. PICK p \in Prods, j \in Keys : e = <<p, j>>
          BY MergeableIs
        <5>2. UpTo(k, j)
          BY <2>1, <5>1, MergeableIs
        <5>3. ~Before(j, k)
          <6>1. SUFFICES ASSUME Before(j, k) PROVE FALSE
            OBVIOUS
          <6>2. Before(k, k)
            BY <2>1, <5>2, <6>1, UpToTrans
          <6> QED  BY <2>1, <6>2, BeforeIrreflexive
        <5> QED  BY <5>1, <5>3
      <4> QED  BY <1>4, <2>1, <4>1 DEF M!Oldest
    <3>5. M!Coincidence(k) \in [key : Keys, subs : Wanted]
      BY <3>3 DEF M!Coincidence
    <3>6. M!Write(k)
      BY <2>1, <2>4, <3>2, <3>4, <3>5 DEF M!Write, M!Coincidence, Shown, Wanted
    <3> QED  BY <3>6 DEF M!Next
  <2>6. CASE ~Complete
    <3>1. UNCHANGED out
      BY <2>6 DEF Judge
    <3>2. M!Together(k) \notin Wanted
      BY <2>1, <2>6 DEF Complete, Wanted
    <3>4. M!Coincidence(k) \notin [key : Keys, subs : Wanted]
      <4>1. M!Coincidence(k).subs = M!Together(k)
        BY DEF M!Coincidence
      <4> QED  BY <3>2, <4>1
    <3>3. M!Drop
      BY <2>4, <3>1, <3>4 DEF M!Drop, Wanted
    <3> QED  BY <3>3 DEF M!Next
  <2> QED  BY <2>5, <2>6
<1> QED  BY <1>3, <1>4

LEMMA StepRefines ==
  ASSUME Inv, Inv', [Next]_vars
  PROVE  [M!Next]_(M!vars)
<1>1. CASE DoStartRun
  <2>1. pc' = "idle" /\ \A p \in Prods : queue'[p] = <<>>
    BY <1>1 DEF DoStartRun
  <2>2. Mergeable' = {}
    BY <2>1, EmptyHas, MergeableIsNext DEF Available
  <2>3. Shown' = <<>>
    BY <1>1 DEF DoStartRun, Shown
  <2>4. M!Clear
    BY <1>1, <2>2, <2>3 DEF M!Clear, Shown, DoStartRun
  <2> QED  BY <2>4 DEF M!Next
<1>2. ASSUME NEW p \in Prods, DoConnect(p) \/ DoDisconnect(p)  PROVE UNCHANGED M!vars
  BY <1>2, SameStep DEF DoConnect, DoDisconnect, Available
<1>3. CASE ReceiveTagged
  <2>1. PICK p \in Prods, k \in Keys : (\A j \in sent[p] : Before(j, k)) /\ DoReceive(p, k)
    BY <1>3 DEF ReceiveTagged
  <2>2. \A r \in Prods, j \in Keys : Has(queue'[r], j) <=> Has(queue[r], j) \/ (r = p /\ j = k)
    BY <2>1, ReceiveKeeps DEF Tags
  <2>3. pc # "judge" /\ pc' # "judge" /\ UNCHANGED out
    BY <2>1 DEF DoReceive
  <2>4. CASE BadKey(p, k)
    BY <2>2, <2>3, <2>4, SameStep DEF Available
  <2>5. CASE ~BadKey(p, k)
    <3>1. \A r \in Prods, j \in Keys : Available(r, j)' <=> Available(r, j) \/ (r = p /\ j = k)
      BY <2>2, <2>3, <2>5 DEF Available
    <3>2. Mergeable' = Mergeable \cup {<<p, k>>}
      BY <3>1, MergeableIs, MergeableIsNext
    <3>3. M!Deliver(p, k)
      BY <2>3, <3>2 DEF M!Deliver
    <3> QED  BY <3>3 DEF M!Next
  <2> QED  BY <2>4, <2>5
<1>4. CASE ReceiveUntagged
  <2>1. PICK p \in Prods : DoReceive(p, NoTag)
    BY <1>4 DEF ReceiveUntagged
  <2>2. \A r \in Prods, j \in Keys : Has(queue'[r], j) <=> Has(queue[r], j)
    BY <2>1, ReceiveKeeps, KeysPairs DEF Tags
  <2>3. pc # "judge" /\ pc' # "judge" /\ UNCHANGED out
    BY <2>1 DEF DoReceive
  <2> QED  BY <2>2, <2>3, SameStep DEF Available
<1>5. CASE ReceiveTable
  BY <1>5, SameStep DEF ReceiveTable, Available
<1>6. CASE WaitForMore
  BY <1>6, SameStep DEF WaitForMore, Available
<1>7. CASE ThrowBad
  <2>1. PICK p \in Prods : Bad(p) /\ Pops({p})
    BY <1>7, ThrowPops
  <2>2. \A r \in Prods, k \in Keys :
           Has(queue'[r], k) <=> Has(queue[r], k) /\ ~(r \in {p} /\ Head(queue[r]) = k)
    BY <2>1, PopsQueues
  <2>3. \A k \in Keys : Head(queue[p]) = k => BadKey(p, k)
    BY <2>1 DEF Bad
  <2>4. \A r \in Prods, k \in Keys : Available(r, k)' <=> Available(r, k)
    BY <1>7, <2>2, <2>3 DEF Available, ThrowBad
  <2> QED  BY <1>7, <2>4, SameStep DEF ThrowBad
<1>8. CASE MergeHeads
  <2>1. PICK k \in Keys :
          LET subs == {p \in Prods : queue[p] # <<>> /\ Head(queue[p]) = k}
          IN  /\ merged' = [key |-> k, subs |-> subs, table |-> table > 0]
              /\ \A p \in subs : ~BadKey(p, k)
              /\ \A p \in Prods : p \in subs <=> Has(queue[p], k)
              /\ \A p \in Prods, j \in Keys : Has(queue'[p], j) <=> Has(queue[p], j) /\ j # k
    BY <1>8, MergeTakes
  <2>2. merged'.key = k /\ \A p \in Prods : p \in merged'.subs <=> Has(queue[p], k)
    BY <2>1
  <2>3. \A p \in Prods : Has(queue[p], k) => ~BadKey(p, k)
    BY <2>1
  <2>4. pc = "top" /\ pc' = "judge" /\ UNCHANGED out
    BY <1>8 DEF MergeHeads
  <2>5. \A p \in Prods, j \in Keys : Available(p, j)' <=> Available(p, j)
    BY <2>1, <2>2, <2>3, <2>4 DEF Available
  <2> QED  BY <2>4, <2>5, SameStep
<1>9. CASE MergeNothing
  <2>1. merged'.subs = {}
    BY <1>9 DEF MergeNothing, NoEvent
  <2>2. pc = "top" /\ UNCHANGED <<queue, out>>
    BY <1>9 DEF MergeNothing
  <2> QED  BY <2>1, <2>2, SameStep DEF Available
<1>10. CASE Judge
  BY <1>10, JudgeRefines
<1>11. CASE UNCHANGED vars
  BY <1>11, SameStep DEF vars, Available
<1> QED  BY <1>1, <1>2, <1>3, <1>4, <1>5, <1>6, <1>7, <1>8, <1>9, <1>10, <1>11 DEF Next

(* The collector implements Merge for any producers, keys and mandatory
   producers, whoever comes late or leaves while events are merged: what it
   writes is everything there is of the oldest key, and what it throws away
   lacks a mandatory producer that is active then. *)
THEOREM BxidImplementsMerge == Spec => ImplementsMerge
<1>1. Init => M!Init
  <2> SUFFICES ASSUME Init PROVE M!Init
    OBVIOUS
  <2>1. pc = "idle" /\ \A p \in Prods : queue[p] = <<>>
    BY DEF Init
  <2>2. Mergeable = {}
    BY <2>1, EmptyHas, MergeableIs DEF Available
  <2> QED  BY <2>2 DEF Init, M!Init
<1>2. Inv /\ Inv' /\ [Next]_vars => [M!Next]_(M!vars)
  BY StepRefines
<1> QED  BY <1>1, <1>2, CollectorInvariant, PTL DEF Spec, ImplementsMerge, M!Spec
-----------------------------------------------------------------------------
(* The written events are sorted. *)

OutUpToLast ==
  /\ \A i \in 1 .. Len(out) : last \in Keys /\ UpTo(out[i].key, last)
  /\ pc = "judge" /\ merged.subs # {} => \A i \in 1 .. Len(out) : Before(out[i].key, last)

OutSorted == \A i, j \in 1 .. Len(out) : i < j => Before(out[i].key, out[j].key)

(* While nobody is late, everything queued comes after the last merged key, and
   so will what the active producers still send: each has sent something that
   is not before it. *)
Onwards ==
  last \in Keys => AllAfter(last) /\ \A p \in active : \E j \in sent[p] : UpTo(last, j)

SortedInv == ~late => OutUpToLast /\ OutSorted /\ Onwards

LEMMA SortedInit == Init => SortedInv
BY EmptySeq, CollectorAssumption DEF Init, SortedInv, OutUpToLast, OutSorted, Onwards

LEMMA SortedNext ==
  ASSUME Inv, Inv', SortedInv, [Next]_vars
  PROVE  SortedInv'
<1> SUFFICES ASSUME ~late' PROVE OutUpToLast' /\ OutSorted' /\ Onwards'
  BY DEF SortedInv
<1>1. CASE DoStartRun
  BY <1>1, EmptySeq, CollectorAssumption DEF DoStartRun, OutUpToLast, OutSorted, Onwards
<1>2. ASSUME NEW p \in Prods, DoConnect(p)
      PROVE  OutUpToLast' /\ OutSorted' /\ Onwards'
  <2>1. ~late /\ last = NoTag /\ UNCHANGED <<queue, pc, merged, out, sent, last>>
    BY <1>2 DEF DoConnect
  <2> QED  BY <2>1, CollectorAssumption DEF SortedInv, OutUpToLast, OutSorted, Onwards
<1>3. ASSUME NEW p \in Prods, DoDisconnect(p)
      PROVE  OutUpToLast' /\ OutSorted' /\ Onwards'
  BY <1>3 DEF DoDisconnect, SortedInv, OutUpToLast, OutSorted, Onwards, AllAfter
<1>4. CASE ReceiveTagged
  <2>1. PICK p \in Prods, k \in Keys : (\A j \in sent[p] : Before(j, k)) /\ DoReceive(p, k)
    BY <1>4 DEF ReceiveTagged
  <2>2. \A r \in Prods, j \in Keys : Has(queue'[r], j) <=> Has(queue[r], j) \/ (r = p /\ j = k)
    BY <2>1, ReceiveKeeps DEF Tags
  <2>3. ~late /\ p \in active /\ pc = "idle" /\ pc' # "judge" /\ UNCHANGED <<active, out, last>>
    BY <2>1 DEF DoReceive
  <2>4. \A r \in Prods : sent[r] \subseteq sent'[r] /\ sent[r] \subseteq Keys
    BY <2>1 DEF DoReceive, Inv, Typed
  <2>5. OutUpToLast' /\ OutSorted'
    BY <2>3 DEF SortedInv, OutUpToLast, OutSorted
  <2>6. ASSUME last \in Keys  PROVE AllAfter(last)' /\ \A r \in active : \E j \in sent'[r] : UpTo(last, j)
    <3>1. AllAfter(last) /\ \A r \in active : \E j \in sent[r] : UpTo(last, j)
      BY <2>3, <2>6 DEF SortedInv, Onwards
    <3>2. PICK j \in sent[p] : UpTo(last, j)
      BY <2>3, <3>1
    <3>3. Before(last, k)
      BY <2>1, <2>4, <2>6, <3>2, UpToTrans
    <3>4. AllAfter(last)'
      BY <2>2, <2>3, <3>1, <3>3 DEF AllAfter
    <3> QED  BY <2>3, <2>4, <3>1, <3>4 DEF Inv, Typed
  <2> QED  BY <2>3, <2>5, <2>6 DEF Onwards
<1>5. CASE ReceiveUntagged
  <2>1. PICK p \in Prods : DoReceive(p, NoTag)
    BY <1>5 DEF ReceiveUntagged
  <2>2. \A r \in Prods, j \in Keys : Has(queue'[r], j) <=> Has(queue[r], j)
    BY <2>1, ReceiveKeeps, KeysPairs DEF Tags
  <2>3. ~late /\ pc' # "judge" /\ UNCHANGED <<active, out, last, sent>>
    BY <2>1 DEF DoReceive
  <2> QED  BY <2>2, <2>3 DEF SortedInv, OutUpToLast, OutSorted, Onwards, AllAfter
<1>6. CASE ReceiveTable \/ WaitForMore \/ UNCHANGED vars
  <2>1. ~late /\ UNCHANGED <<queue, active, merged, out, sent, last>> /\ (pc' = "judge" => pc = "judge")
    BY <1>6 DEF ReceiveTable, WaitForMore, vars
  <2> QED  BY <2>1 DEF SortedInv, OutUpToLast, OutSorted, Onwards, AllAfter
<1>7. CASE ThrowBad
  <2>1. PICK p \in Prods : Bad(p) /\ Pops({p})
    BY <1>7, ThrowPops
  <2>2. \A r \in Prods, k \in Keys : Has(queue'[r], k) => Has(queue[r], k)
    BY <2>1, PopsQueues
  <2>3. ~late /\ pc' = "top" /\ UNCHANGED <<active, out, last, sent>>
    BY <1>7 DEF ThrowBad
  <2> QED  BY <2>2, <2>3 DEF SortedInv, OutUpToLast, OutSorted, Onwards, AllAfter
<1>8. CASE MergeHeads
  <2>1. PICK k \in Keys :
          LET subs == {p \in Prods : queue[p] # <<>> /\ Head(queue[p]) = k}
          IN  /\ subs # {} /\ last' = k
              /\ \A p \in Prods : queue[p] # <<>> => Head(queue[p]) \in Keys /\ UpTo(k, Head(queue[p]))
              /\ \A p \in Prods : p \in subs <=> Has(queue[p], k)
              /\ AllAfter(k)'
    BY <1>8, MergeTakes
  <2>2. ~late /\ UNCHANGED <<active, out, sent>>
    BY <1>8 DEF MergeHeads
  <2>3. ASSUME NEW p \in active  PROVE \E j \in sent[p] : UpTo(k, j)
    <3>1. p \in Prods /\ queue[p] # <<>> /\ queue[p] \in Seq(Tags)
      BY <1>8 DEF MergeHeads, NothingToDecide, Blocked, Inv, Typed
    <3>2. Head(queue[p]) \in Keys /\ UpTo(k, Head(queue[p]))
      BY <2>1, <3>1
    <3>3. Head(queue[p]) \in sent[p]
      BY <3>1, <3>2, HeadHas DEF Inv, QueuesRise
    <3> QED  BY <3>2, <3>3
  <2>4. last \in Keys => Before(last, k)
    BY <2>1, <2>2 DEF SortedInv, Onwards, AllAfter
  <2>5. ASSUME NEW i \in 1 .. Len(out)  PROVE Before(out[i].key, k)
    <3>1. last \in Keys /\ UpTo(out[i].key, last) /\ out[i].key \in Keys
      <4>1. out[i] \in MergedEvent
        BY ElementOfSeq DEF Inv, Typed
      <4> QED  BY <2>2, <4>1 DEF SortedInv, OutUpToLast, MergedEvent
    <3> QED  BY <2>1, <2>4, <3>1, UpToTrans
  <2> QED  BY <2>1, <2>2, <2>3, <2>5 DEF SortedInv, OutUpToLast, OutSorted, Onwards, UpTo
<1>9. CASE MergeNothing
  <2>1. merged'.subs = {} /\ ~late /\ UNCHANGED <<queue, active, out, sent, last>>
    BY <1>9 DEF MergeNothing, NoEvent
  <2> QED  BY <2>1 DEF SortedInv, OutUpToLast, OutSorted, Onwards, AllAfter
<1>10. CASE Judge
  <2>1. ~late /\ pc' = "top" /\ UNCHANGED <<queue, active, sent, last>> /\ pc = "judge"
    BY <1>10 DEF Judge
  <2>2. Onwards'
    BY <2>1 DEF SortedInv, Onwards, AllAfter
  <2>3. CASE UNCHANGED out
    BY <2>1, <2>2, <2>3 DEF SortedInv, OutUpToLast, OutSorted
  <2>4. CASE merged.subs # {} /\ out' = Append(out, merged)
    <3>1. merged.key = last /\ last \in Keys /\ merged \in MergedEvent
      BY <2>1, <2>4 DEF Inv, Typed, Judging, MergedEvent
    <3>2. /\ Len(out') = Len(out) + 1 /\ Len(out) \in Nat
          /\ \A i \in 1 .. Len(out) : out'[i] = out[i]
          /\ out'[Len(out) + 1] = merged
      BY <2>4, <3>1, AppendProperties, LenProperties DEF Inv, Typed
    <3>3. \A i \in 1 .. Len(out) : Before(out[i].key, last)
      BY <2>1, <2>4 DEF SortedInv, OutUpToLast
    <3>4. OutUpToLast'
      BY <2>1, <3>1, <3>2, <3>3 DEF OutUpToLast, UpTo
    <3>5. OutSorted'
      <4> SUFFICES ASSUME NEW i \in 1 .. Len(out) + 1, NEW j \in 1 .. Len(out) + 1, i < j
                   PROVE  Before(out'[i].key, out'[j].key)
        BY <3>2 DEF OutSorted
      <4>1. i \in 1 .. Len(out)
        BY <3>2
      <4>2. CASE j = Len(out) + 1
        BY <3>1, <3>2, <3>3, <4>1, <4>2
      <4>3. CASE j \in 1 .. Len(out)
        BY <2>1, <3>2, <4>1, <4>3 DEF SortedInv, OutSorted
      <4>4. j \in 1 .. Len(out) \/ j = Len(out) + 1
        BY <3>2
      <4> QED  BY <4>2, <4>3, <4>4
    <3> QED  BY <2>2, <3>4, <3>5
  <2> QED  BY <1>10, <2>3, <2>4 DEF Judge
<1> QED  BY <1>1, <1>2, <1>3, <1>4, <1>5, <1>6, <1>7, <1>8, <1>9, <1>10 DEF Next

(* While nobody connects late and no event arrives after its producer left,
   the events are written in the order of their cycle and BXID. *)
THEOREM OutputSorted == Spec => []MergedSorted
<1>1. Inv /\ Inv' /\ SortedInv /\ [Next]_vars => SortedInv'
  BY SortedNext
<1>2. SortedInv => MergedSorted
  BY DEF SortedInv, OutSorted, MergedSorted
<1> QED  BY <1>1, <1>2, CollectorInvariant, SortedInit, PTL DEF Spec
-----------------------------------------------------------------------------
(***************************************************************************)
(* The collectors that merge by time.                                      *)
(***************************************************************************)
TsMerged == [bif : SpanEvents \cup {None}, cal : SpanEvents \cup {None},
             tel : TelEvents \cup {None}]

(* What holds in every run, proper or not. *)
Settings ==
  /\ Parameters /\ TimesFit
  /\ kind \in {"Ts", "Tel"} /\ start \in Starts /\ shift \in Int
  /\ run \in Nat
  /\ made \in [cal : Seq(SpanEvents), bif : Seq(SpanEvents), tel : Seq(TelEvents)]

TsTyped ==
  /\ Parameters /\ TimesFit
  /\ kind \in {"Ts", "Tel"} /\ start \in Starts /\ shift \in Int
  /\ accept \in BOOLEAN /\ offsetDone \in BOOLEAN /\ flooded \in BOOLEAN
  /\ at \in {"idle", "loop"} /\ run \in Nat
  /\ qCal \in Seq(SpanEvents) /\ qBif \in Seq(SpanEvents) /\ qTel \in Seq(TelEvents)
  /\ kind = "Tel" => lastTel \in TelEvents \cup {None}
  /\ endCal \in Nat /\ endBif \in Nat
  /\ made \in [cal : Seq(SpanEvents), bif : Seq(SpanEvents), tel : Seq(TelEvents)]
  /\ written \in Seq(TsMerged)
  /\ taken \subseteq {"cal", "bif"} \X SpanEvents

(* The loop runs with the offset of this run only; "Ts" asks BIF for no BORE
   event, but the first one in its queue is the first of the run. *)
TrueOffset == start[1] * Scale - start[2] - Lead

OffsetRight ==
  /\ offsetDone => offset = TrueOffset
  /\ at = "loop" => offsetDone /\ accept
  /\ kind = "Ts" /\ ~offsetDone => qBif = made.bif

(* The span of the last event made. *)
LastSpan(evs) == IF evs = <<>> THEN <<-1, 0>>
                 ELSE <<evs[Len(evs)].beg, evs[Len(evs)].end>>

(* The time t of AHCAL in BIF counts. *)
InBifTime(t) == (t - start[1]) * Scale + start[2] + Lead

(* The events of a queue are of run n, follow one another and end with
   the last one made, whose span is l. *)
InOrder(q, l, n) ==
  /\ \A i \in 1 .. Len(q) : /\ q[i].beg < q[i].end /\ q[i].run = n
                            /\ q[i].beg <= l[1] /\ q[i].end <= l[2]
  /\ \A i, j \in 1 .. Len(q) : i < j => q[i].beg < q[j].beg /\ q[i].end < q[j].end

CalTime(e) == start[1] <= e.beg /\ e.beg < e.end /\ InBifTime(e.end) < TimeMod

QueuesInOrder ==
  /\ InOrder(qCal, LastSpan(made.cal), run) /\ InOrder(qBif, LastSpan(made.bif), run)
  /\ \A i \in 1 .. Len(qCal) : CalTime(qCal[i])

(* The last event taken of a producer ends before those still queued, and
   begins before the end of whatever of the other producer is still queued
   or still to be made. *)
LastBifKnown ==
  endBif > 0 =>
    /\ lastBif \in SpanEvents /\ lastBif.run = run /\ endBif = lastBif.end
    /\ endBif <= LastSpan(made.bif)[2]
    /\ \A i \in 1 .. Len(qBif) : endBif < qBif[i].end
    /\ lastBif.beg < InBifTime(LastSpan(made.cal)[2])
    /\ \A i \in 1 .. Len(qCal) : lastBif.beg < InBifTime(qCal[i].end)

LastCalKnown ==
  endCal > 0 =>
    /\ lastCal \in SpanEvents /\ lastCal.run = run /\ endCal = InBifTime(lastCal.end)
    /\ endCal <= InBifTime(LastSpan(made.cal)[2])
    /\ \A i \in 1 .. Len(qCal) : endCal < InBifTime(qCal[i].end)
    /\ InBifTime(lastCal.beg) < LastSpan(made.bif)[2]
    /\ \A i \in 1 .. Len(qBif) : InBifTime(lastCal.beg) < qBif[i].end

TimesInv == ProperRun /\ TsTyped /\ OffsetRight /\ QueuesInOrder /\ LastBifKnown /\ LastCalKnown

(* A run that is not proper promises nothing; the next one starts anew. *)
ProperTimes == Settings /\ (ProperRun => TimesInv)
-----------------------------------------------------------------------------
(* r is what is left of q without its first events. *)
Remains(r, q) ==
  \E d \in Nat : /\ d <= Len(q) /\ Len(r) = Len(q) - d
                 /\ \A i \in 1 .. Len(r) : r[i] = q[i + d]

LEMMA RemainsOf ==
  ASSUME NEW T, NEW q \in Seq(T), NEW r, r = q \/ r = <<>> \/ (q # <<>> /\ r = Tail(q))
  PROVE  Remains(r, q) /\ r \in Seq(T)
<1>1. Len(q) \in Nat
  BY LenProperties
<1>2. CASE r = q
  <2>1. 0 <= Len(q) /\ Len(r) = Len(q) - 0 /\ \A i \in 1 .. Len(r) : r[i] = q[i + 0]
    BY <1>1, <1>2
  <2> QED  BY <1>2, <2>1 DEF Remains
<1>3. CASE r = <<>>
  <2>1. Len(q) <= Len(q) /\ Len(r) = Len(q) - Len(q) /\ \A i \in 1 .. Len(r) : r[i] = q[i + Len(q)]
    BY <1>1, <1>3
  <2> QED  BY <1>1, <1>3, <2>1 DEF Remains
<1>4. CASE q # <<>> /\ r = Tail(q)
  <2>1. /\ 1 <= Len(q) /\ r \in Seq(T) /\ Len(r) = Len(q) - 1
        /\ \A i \in 1 .. Len(r) : r[i] = q[i + 1]
    BY <1>1, <1>4, HeadTailProperties, EmptySeq
  <2> QED  BY <2>1 DEF Remains
<1> QED  BY <1>2, <1>3, <1>4

LEMMA RemainInOrder ==
  ASSUME NEW q \in Seq(SpanEvents), NEW r \in Seq(SpanEvents), NEW l, NEW n,
         Remains(r, q), InOrder(q, l, n)
  PROVE  InOrder(r, l, n)
<1>1. PICK d \in Nat : /\ d <= Len(q) /\ Len(r) = Len(q) - d
                       /\ \A i \in 1 .. Len(r) : r[i] = q[i + d]
  BY DEF Remains
<1>2. Len(q) \in Nat /\ Len(r) \in Nat
  BY LenProperties
<1>3. \A i \in 1 .. Len(r) : i + d \in 1 .. Len(q)
  BY <1>1, <1>2
<1>4. ASSUME NEW i \in 1 .. Len(r), NEW j \in 1 .. Len(r), i < j
      PROVE  r[i].beg < r[j].beg /\ r[i].end < r[j].end
  <2>1. i + d < j + d
    BY <1>1, <1>2, <1>4
  <2> QED  BY <1>1, <1>3, <2>1 DEF InOrder
<1> QED  BY <1>1, <1>3, <1>4 DEF InOrder

LEMMA AppendInOrder ==
  ASSUME NEW q \in Seq(SpanEvents), NEW e \in SpanEvents, NEW l \in Int \X Int, NEW n,
         InOrder(q, l, n), e.beg < e.end, e.run = n, l[1] < e.beg, l[2] < e.end
  PROVE  /\ Append(q, e) \in Seq(SpanEvents)
         /\ InOrder(Append(q, e), <<e.beg, e.end>>, n)
<1> DEFINE r == Append(q, e)
<1>1. /\ r \in Seq(SpanEvents) /\ Len(q) \in Nat /\ Len(r) = Len(q) + 1
      /\ r[Len(q) + 1] = e /\ \A i \in 1 .. Len(q) : r[i] = q[i]
  BY AppendProperties, LenProperties
<1>2. \A i \in 1 .. Len(q) : q[i] \in SpanEvents /\ q[i].beg \in Nat /\ q[i].end \in Nat
  <2>1. \A i \in 1 .. Len(q) : q[i] \in SpanEvents
    BY ElementOfSeq
  <2> QED  BY <2>1 DEF SpanEvents
<1>3. e.beg \in Nat /\ e.end \in Nat /\ l[1] \in Int /\ l[2] \in Int
  BY DEF SpanEvents
<1> HIDE DEF r
<1>4. ASSUME NEW i \in 1 .. Len(r)
      PROVE  r[i].beg < r[i].end /\ r[i].run = n /\ r[i].beg <= e.beg /\ r[i].end <= e.end
  <2>1. CASE i = Len(q) + 1
    BY <1>1, <1>3, <2>1
  <2>2. CASE i \in 1 .. Len(q)
    <3>1. /\ q[i].beg < q[i].end /\ q[i].run = n /\ q[i].beg <= l[1] /\ q[i].end <= l[2]
          /\ r[i] = q[i] /\ q[i].beg \in Nat /\ q[i].end \in Nat
      BY <1>1, <1>2, <2>2 DEF InOrder
    <3> QED  BY <1>3, <3>1
  <2> QED  BY <1>1, <2>1, <2>2
<1>5. ASSUME NEW i \in 1 .. Len(r), NEW j \in 1 .. Len(r), i < j
      PROVE  r[i].beg < r[j].beg /\ r[i].end < r[j].end
  <2>1. i \in 1 .. Len(q) /\ r[i] = q[i] /\ q[i].beg \in Nat /\ q[i].end \in Nat
    BY <1>1, <1>2, <1>5
  <2>2. CASE j = Len(q) + 1
    <3>1. q[i].beg <= l[1] /\ q[i].end <= l[2]
      BY <2>1 DEF InOrder
    <3> QED  BY <1>1, <1>3, <2>1, <2>2, <3>1
  <2>3. CASE j \in 1 .. Len(q)
    BY <1>1, <1>5, <2>1, <2>3 DEF InOrder
  <2> QED  BY <1>1, <2>2, <2>3
<1> QED  BY <1>1, <1>4, <1>5 DEF InOrder, r

(* Times of AHCAL in BIF counts keep their order. *)
LEMMA BifTimeOrder ==
  ASSUME Parameters, start \in Starts
  PROVE  /\ start[1] \in Nat /\ start[2] \in Nat /\ Scale \in Nat /\ Lead \in Nat
         /\ \A t \in Int : InBifTime(t) \in Int
         /\ \A t \in Nat : start[1] <= t => InBifTime(t) \in Nat
         /\ \A a, b \in Int : a < b => InBifTime(a) < InBifTime(b)
         /\ \A a, b \in Int : a <= b => InBifTime(a) <= InBifTime(b)
<1>1. start[1] \in Nat /\ start[2] \in Nat /\ Scale \in Nat \ {0} /\ Lead \in Nat
  BY DEF Parameters
<1>2. ASSUME NEW a \in Int, NEW b \in Int, a <= b
      PROVE  (a - start[1]) * Scale <= (b - start[1]) * Scale
  BY <1>1, <1>2
<1>3. ASSUME NEW a \in Int, NEW b \in Int, a < b
      PROVE  (a - start[1]) * Scale < (b - start[1]) * Scale
  BY <1>1, <1>3
<1>4. \A a \in Int : (a - start[1]) * Scale \in Int
  BY <1>1
<1>5. ASSUME NEW t \in Nat, start[1] <= t
      PROVE  InBifTime(t) \in Nat
  BY <1>1, <1>5 DEF InBifTime
<1>6. ASSUME NEW a \in Int, NEW b \in Int, a <= b
      PROVE  InBifTime(a) <= InBifTime(b)
  <2>1. PICK x \in Int : x = (a - start[1]) * Scale
    BY <1>4
  <2>2. PICK y \in Int : y = (b - start[1]) * Scale
    BY <1>4
  <2>3. x <= y
    BY <1>2, <1>6, <2>1, <2>2
  <2>4. InBifTime(a) = x + start[2] + Lead /\ InBifTime(b) = y + start[2] + Lead
    BY <2>1, <2>2 DEF InBifTime
  <2> QED  BY <1>1, <2>3, <2>4
<1>7. ASSUME NEW a \in Int, NEW b \in Int, a < b
      PROVE  InBifTime(a) < InBifTime(b)
  <2>1. PICK x \in Int : x = (a - start[1]) * Scale
    BY <1>4
  <2>2. PICK y \in Int : y = (b - start[1]) * Scale
    BY <1>4
  <2>3. x < y
    BY <1>3, <1>7, <2>1, <2>2
  <2>4. InBifTime(a) = x + start[2] + Lead /\ InBifTime(b) = y + start[2] + Lead
    BY <2>1, <2>2 DEF InBifTime
  <2> QED  BY <1>1, <2>3, <2>4
<1>8. \A t \in Int : InBifTime(t) \in Int
  BY <1>1, <1>4 DEF InBifTime
<1> QED  BY <1>1, <1>5, <1>6, <1>7, <1>8

(* With the offset of the run the conversion of the collector is exact. *)
LEMMA BifTimeExact ==
  ASSUME Parameters, start \in Starts, offset = TrueOffset,
         NEW t \in Nat, start[1] <= t, InBifTime(t) < TimeMod
  PROVE  ToBifTime(t) = InBifTime(t)
<1>1. /\ start[1] \in Nat /\ start[2] \in Nat /\ Scale \in Nat /\ Lead \in Nat
      /\ InBifTime(t) \in Nat /\ TimeMod \in Nat \ {0}
  BY BifTimeOrder DEF Parameters
<1>2. t * Scale - offset = InBifTime(t)
  BY <1>1 DEF TrueOffset, InBifTime
<1>3. InBifTime(t) % TimeMod = InBifTime(t)
  BY <1>1, ModSmall
<1> QED  BY <1>2, <1>3 DEF ToBifTime
-----------------------------------------------------------------------------
(* The two events that an iteration compares: at least one of them is taken. *)
LEMMA Fronts ==
  ASSUME TimesInv, at = "loop", Loops
  PROVE  /\ FrontBif = qBif[1] /\ FrontCal = qCal[1]
         /\ FrontBif \in SpanEvents /\ FrontCal \in SpanEvents
         /\ 1 \in 1 .. Len(qBif) /\ 1 \in 1 .. Len(qCal)
         /\ FrontBif.run = run /\ FrontCal.run = run
         /\ CalBeg = InBifTime(FrontCal.beg) /\ CalEnd = InBifTime(FrontCal.end)
         /\ CalBeg \in Nat /\ CalEnd \in Nat /\ CalBeg < CalEnd
         /\ FrontBif.beg \in Nat /\ FrontBif.end \in Nat /\ FrontBif.beg < FrontBif.end
<1>1. /\ Len(qBif) \in Nat /\ Len(qCal) \in Nat /\ 1 \in 1 .. Len(qBif) /\ 1 \in 1 .. Len(qCal)
      /\ FrontBif = qBif[1] /\ FrontCal = qCal[1]
      /\ FrontBif \in SpanEvents /\ FrontCal \in SpanEvents
  <2>1. qBif \in Seq(SpanEvents) /\ qCal \in Seq(SpanEvents) /\ qBif # <<>> /\ qCal # <<>>
    BY DEF TimesInv, TsTyped, Loops
  <2>2. Len(qBif) \in Nat /\ Len(qCal) \in Nat /\ 1 \in 1 .. Len(qBif) /\ 1 \in 1 .. Len(qCal)
    BY <2>1, LenProperties, EmptySeq
  <2> QED  BY <2>1, <2>2, ElementOfSeq DEF FrontBif, FrontCal
<1>2. /\ FrontBif.beg \in Nat /\ FrontBif.end \in Nat
      /\ FrontCal.beg \in Nat /\ FrontCal.end \in Nat
  BY <1>1 DEF SpanEvents
<1>3. /\ FrontBif.beg < FrontBif.end /\ FrontBif.run = run /\ FrontCal.run = run
      /\ start[1] <= FrontCal.beg /\ FrontCal.beg < FrontCal.end
      /\ InBifTime(FrontCal.end) < TimeMod
  BY <1>1 DEF TimesInv, QueuesInOrder, InOrder, CalTime
<1>4. Parameters /\ start \in Starts /\ offset = TrueOffset /\ TimeMod \in Nat
  BY DEF TimesInv, TsTyped, OffsetRight, Parameters
<1>5. /\ InBifTime(FrontCal.beg) \in Nat /\ InBifTime(FrontCal.end) \in Nat
      /\ InBifTime(FrontCal.beg) < InBifTime(FrontCal.end)
      /\ start[1] <= FrontCal.end /\ InBifTime(FrontCal.beg) < TimeMod
  <2>1. start[1] \in Nat /\ start[1] <= FrontCal.end
    BY <1>2, <1>3, <1>4, BifTimeOrder
  <2>2. InBifTime(FrontCal.beg) \in Nat /\ InBifTime(FrontCal.end) \in Nat
    BY <1>2, <1>3, <1>4, <2>1, BifTimeOrder
  <2>3. InBifTime(FrontCal.beg) < InBifTime(FrontCal.end)
    BY <1>2, <1>3, <1>4, BifTimeOrder
  <2> QED  BY <1>3, <1>4, <2>1, <2>2, <2>3
<1>6. CalBeg = InBifTime(FrontCal.beg) /\ CalEnd = InBifTime(FrontCal.end)
  BY <1>2, <1>3, <1>4, <1>5, BifTimeExact DEF CalBeg, CalEnd
<1> QED  BY <1>1, <1>2, <1>3, <1>5, <1>6

(* Which of them are taken, and since when a last event reaches into the
   interval. *)
LEMMA Taken ==
  ASSUME TimesInv, at = "loop", Loops
  PROVE  /\ TakesBif <=> FrontBif.beg < CalEnd
         /\ TakesCal <=> CalBeg < FrontBif.end
         /\ TakesBif \/ TakesCal
         /\ TsBeg \in Nat /\ TsBeg <= CalBeg /\ TsBeg <= FrontBif.beg
         /\ ~TakesBif => TsBeg = CalBeg
         /\ ~TakesCal => TsBeg = FrontBif.beg
<1>1. /\ CalBeg \in Nat /\ CalEnd \in Nat /\ CalBeg < CalEnd
      /\ FrontBif.beg \in Nat /\ FrontBif.end \in Nat /\ FrontBif.beg < FrontBif.end
  BY Fronts
<1>2. TsEnd = IF FrontBif.end < CalEnd THEN FrontBif.end ELSE CalEnd
  BY DEF TsEnd, Least
<1>3. TsBeg = IF FrontBif.beg < CalBeg THEN FrontBif.beg ELSE CalBeg
  BY DEF TsBeg, Least
<1>4. TakesBif <=> FrontBif.beg < CalEnd
  BY <1>1, <1>2 DEF TakesBif
<1>5. TakesCal <=> CalBeg < FrontBif.end
  BY <1>1, <1>2 DEF TakesCal
<1> QED  BY <1>1, <1>3, <1>4, <1>5

(* What is written together overlaps; a sub-event is missing only if the last
   one ended before the interval. *)
LEMMA Chosen ==
  ASSUME TimesInv, at = "loop", Loops
  PROVE  /\ SubBif \in SpanEvents \cup {None} /\ SubCal \in SpanEvents \cup {None}
         /\ SubCal # None /\ SubBif # None
            => Overlap(SubCal, SubBif) /\ SubCal.run = SubBif.run
         /\ TakesBif => SubBif = FrontBif
         /\ TakesCal => SubCal = FrontCal
         /\ SubBif = None => ~TakesBif /\ endBif <= TsBeg
         /\ SubCal = None => ~TakesCal /\ endCal <= TsBeg
         /\ ~TakesCal /\ SubCal # None => SubCal = lastCal /\ endCal > 0
<1>1. /\ CalBeg \in Nat /\ CalEnd \in Nat /\ CalBeg < CalEnd
      /\ FrontBif.beg \in Nat /\ FrontBif.end \in Nat /\ FrontBif.beg < FrontBif.end
      /\ FrontBif \in SpanEvents /\ FrontCal \in SpanEvents
      /\ FrontBif.run = run /\ FrontCal.run = run
      /\ FrontBif = qBif[1] /\ FrontCal = qCal[1]
      /\ 1 \in 1 .. Len(qBif) /\ 1 \in 1 .. Len(qCal)
      /\ CalBeg = InBifTime(FrontCal.beg) /\ CalEnd = InBifTime(FrontCal.end)
  BY Fronts
<1>2. /\ TakesBif <=> FrontBif.beg < CalEnd
      /\ TakesCal <=> CalBeg < FrontBif.end
      /\ TakesBif \/ TakesCal
      /\ TsBeg \in Nat /\ TsBeg <= CalBeg /\ TsBeg <= FrontBif.beg
      /\ ~TakesBif => TsBeg = CalBeg
      /\ ~TakesCal => TsBeg = FrontBif.beg
  BY Taken
<1>3. endBif \in Nat /\ endCal \in Nat /\ None \notin SpanEvents
  BY DEF TimesInv, TsTyped, Parameters
<1>4. ASSUME endBif > TsBeg
      PROVE  /\ lastBif \in SpanEvents /\ lastBif.run = run /\ endBif = lastBif.end
             /\ lastBif.beg < CalEnd /\ lastBif.beg \in Nat
  <2>1. endBif > 0
    BY <1>2, <1>3, <1>4
  <2> QED  BY <1>1, <2>1 DEF TimesInv, LastBifKnown, SpanEvents
<1>5. ASSUME endCal > TsBeg
      PROVE  /\ lastCal \in SpanEvents /\ lastCal.run = run /\ endCal = InBifTime(lastCal.end)
             /\ InBifTime(lastCal.beg) < FrontBif.end /\ endCal > 0
  <2>1. endCal > 0
    BY <1>2, <1>3, <1>5
  <2> QED  BY <1>1, <2>1 DEF TimesInv, LastCalKnown
<1>6. \A c, b : Overlap(c, b) <=> InBifTime(c.beg) < b.end /\ b.beg < InBifTime(c.end)
  BY DEF Overlap, TrueBeg, TrueEnd, InBifTime
<1>7. CASE TakesBif /\ TakesCal
  <2>1. SubBif = FrontBif /\ SubCal = FrontCal
    BY <1>7 DEF SubBif, SubCal
  <2> QED  BY <1>1, <1>2, <1>3, <1>6, <1>7, <2>1
<1>8. CASE TakesBif /\ ~TakesCal
  <2>1. SubBif = FrontBif /\ SubCal = IF endCal > TsBeg THEN lastCal ELSE None
    BY <1>8 DEF SubBif, SubCal
  <2>2. CASE endCal > TsBeg
    <3>1. Overlap(lastCal, FrontBif)
      BY <1>1, <1>2, <1>5, <1>6, <1>8, <2>2
    <3> QED  BY <1>1, <1>3, <1>5, <1>8, <2>1, <2>2, <3>1
  <2>3. CASE ~(endCal > TsBeg)
    BY <1>1, <1>2, <1>3, <1>8, <2>1, <2>3
  <2> QED  BY <2>2, <2>3
<1>9. CASE ~TakesBif /\ TakesCal
  <2>1. SubCal = FrontCal /\ SubBif = IF endBif > TsBeg THEN lastBif ELSE None
    BY <1>9 DEF SubBif, SubCal
  <2>2. CASE endBif > TsBeg
    <3>1. Overlap(FrontCal, lastBif)
      BY <1>1, <1>2, <1>4, <1>6, <1>9, <2>2
    <3> QED  BY <1>1, <1>3, <1>4, <1>9, <2>1, <2>2, <3>1
  <2>3. CASE ~(endBif > TsBeg)
    BY <1>1, <1>2, <1>3, <1>9, <2>1, <2>3
  <2> QED  BY <2>2, <2>3
<1> QED  BY <1>2, <1>7, <1>8, <1>9
-----------------------------------------------------------------------------
LEMMA LastSpanTyped ==
  ASSUME NEW evs \in Seq(SpanEvents)
  PROVE  /\ LastSpan(evs) \in Int \X Int
         /\ LastSpan(evs)[1] \in Int /\ LastSpan(evs)[2] \in Int
         /\ evs # <<>> => LastSpan(evs) = <<evs[Len(evs)].beg, evs[Len(evs)].end>>
<1>1. CASE evs = <<>>
  BY <1>1 DEF LastSpan
<1>2. CASE evs # <<>>
  <2>1. Len(evs) \in 1 .. Len(evs)
    BY <1>2, LenProperties, EmptySeq
  <2>2. evs[Len(evs)] \in SpanEvents
    BY <2>1, ElementOfSeq
  <2> QED  BY <1>2, <2>2 DEF LastSpan, SpanEvents
<1> QED  BY <1>1, <1>2

(* Elements of what remains of a queue are elements of the queue. *)
LEMMA RemainElements ==
  ASSUME NEW q \in Seq(SpanEvents), NEW r \in Seq(SpanEvents), Remains(r, q),
         NEW i \in 1 .. Len(r)
  PROVE  \E k \in 1 .. Len(q) : r[i] = q[k]
<1>1. PICK d \in Nat : /\ d <= Len(q) /\ Len(r) = Len(q) - d
                       /\ \A m \in 1 .. Len(r) : r[m] = q[m + d]
  BY DEF Remains
<1>2. Len(q) \in Nat /\ Len(r) \in Nat
  BY LenProperties
<1>3. i + d \in 1 .. Len(q)
  BY <1>1, <1>2
<1> QED  BY <1>1, <1>3

TakeQuietly ==
  TakeFronts /\ UNCHANGED <<config, accept, offset, offsetDone, at, run, made, flooded>>

LEMMA TakenTyped ==
  ASSUME TimesInv, at = "loop", Loops, TakeQuietly
  PROVE  /\ qCal' \in Seq(SpanEvents) /\ qBif' \in Seq(SpanEvents)
         /\ Remains(qCal', qCal) /\ Remains(qBif', qBif)
         /\ endCal' \in Nat /\ endBif' \in Nat
         /\ taken' \subseteq {"cal", "bif"} \X SpanEvents
<1>1. /\ FrontBif \in SpanEvents /\ FrontCal \in SpanEvents
      /\ CalEnd \in Nat /\ FrontBif.end \in Nat
  BY Fronts
<1>2. /\ qCal \in Seq(SpanEvents) /\ qBif \in Seq(SpanEvents) /\ qCal # <<>> /\ qBif # <<>>
      /\ endCal \in Nat /\ endBif \in Nat
      /\ taken \subseteq {"cal", "bif"} \X SpanEvents
  BY DEF TimesInv, TsTyped, Loops
<1>3. Remains(qCal', qCal) /\ qCal' \in Seq(SpanEvents)
  <2>1. qCal' = qCal \/ (qCal # <<>> /\ qCal' = Tail(qCal))
    BY <1>2 DEF TakeQuietly, TakeFronts
  <2> QED  BY <1>2, <2>1, RemainsOf
<1>4. Remains(qBif', qBif) /\ qBif' \in Seq(SpanEvents)
  <2>1. qBif' = qBif \/ (qBif # <<>> /\ qBif' = Tail(qBif))
    BY <1>2 DEF TakeQuietly, TakeFronts
  <2> QED  BY <1>2, <2>1, RemainsOf
<1>5. endCal' \in Nat /\ endBif' \in Nat
  BY <1>1, <1>2 DEF TakeQuietly, TakeFronts
<1>6. taken' \subseteq {"cal", "bif"} \X SpanEvents
  BY <1>1, <1>2 DEF TakeQuietly, TakeFronts
<1> QED  BY <1>3, <1>4, <1>5, <1>6

LEMMA TakenInOrder ==
  ASSUME TimesInv, at = "loop", Loops, TakeQuietly
  PROVE  OffsetRight' /\ QueuesInOrder'
<1>1. OffsetRight'
  BY DEF TimesInv, OffsetRight, TrueOffset, TakeQuietly, config
<1>2. /\ qCal' \in Seq(SpanEvents) /\ qBif' \in Seq(SpanEvents)
      /\ Remains(qCal', qCal) /\ Remains(qBif', qBif)
      /\ qCal \in Seq(SpanEvents) /\ qBif \in Seq(SpanEvents)
  BY TakenTyped DEF TimesInv, TsTyped
<1>3. run' = run /\ made' = made /\ start' = start
  BY DEF TakeQuietly, config
<1>4. InOrder(qCal', LastSpan(made.cal), run) /\ InOrder(qBif', LastSpan(made.bif), run)
  BY <1>2, RemainInOrder DEF TimesInv, QueuesInOrder
<1>5. ASSUME NEW i \in 1 .. Len(qCal')
      PROVE  CalTime(qCal'[i])
  <2>1. PICK k \in 1 .. Len(qCal) : qCal'[i] = qCal[k]
    BY <1>2, RemainElements
  <2> QED  BY <2>1 DEF TimesInv, QueuesInOrder
<1>6. QueuesInOrder'
  BY <1>3, <1>4, <1>5 DEF QueuesInOrder, InOrder, CalTime, InBifTime, LastSpan
<1> QED  BY <1>1, <1>6

LEMMA TakenLastBif ==
  ASSUME TimesInv, at = "loop", Loops, TakeQuietly
  PROVE  LastBifKnown'
<1>1. /\ CalEnd \in Nat /\ FrontBif \in SpanEvents /\ FrontBif.run = run
      /\ FrontBif.beg \in Nat /\ FrontBif.end \in Nat
      /\ CalEnd = InBifTime(FrontCal.end) /\ FrontCal = qCal[1] /\ FrontBif = qBif[1]
      /\ 1 \in 1 .. Len(qBif) /\ 1 \in 1 .. Len(qCal)
  BY Fronts
<1>2. /\ qCal' \in Seq(SpanEvents) /\ qBif' \in Seq(SpanEvents)
      /\ Remains(qCal', qCal) /\ Remains(qBif', qBif)
      /\ qCal \in Seq(SpanEvents) /\ qBif \in Seq(SpanEvents)
  BY TakenTyped DEF TimesInv, TsTyped
<1>3. /\ run' = run /\ made' = made /\ start' = start
      /\ \A t : InBifTime(t)' = InBifTime(t)
  BY DEF TakeQuietly, config, InBifTime
<1>4. \A i \in 1 .. Len(qCal) : qCal[i] \in SpanEvents /\ qCal[i].end \in Nat
  <2>1. \A i \in 1 .. Len(qCal) : qCal[i] \in SpanEvents
    BY <1>2, ElementOfSeq
  <2> QED  BY <2>1 DEF SpanEvents
<1>5. CASE TakesBif
  <2>1. /\ lastBif' = FrontBif /\ endBif' = FrontBif.end /\ qBif' = Tail(qBif)
        /\ FrontBif.beg < CalEnd
    BY <1>5, Taken DEF TakeQuietly, TakeFronts
  <2>2. FrontBif.end <= LastSpan(made.bif)[2]
    BY <1>1 DEF TimesInv, QueuesInOrder, InOrder
  <2>3. ASSUME NEW i \in 1 .. Len(qBif')
        PROVE  FrontBif.end < qBif'[i].end
    <3>1. qBif # <<>> /\ Len(qBif) \in Nat
      BY <1>1, <1>2, LenProperties
    <3>2. Len(qBif') = Len(qBif) - 1 /\ qBif'[i] = qBif[i + 1]
      BY <1>2, <2>1, <3>1, HeadTailProperties
    <3>3. i + 1 \in 1 .. Len(qBif) /\ 1 < i + 1
      BY <3>1, <3>2
    <3> QED  BY <1>1, <3>2, <3>3 DEF TimesInv, QueuesInOrder, InOrder
  <2>4. /\ \A a \in Int : InBifTime(a) \in Int
        /\ \A a, b \in Int : a <= b => InBifTime(a) <= InBifTime(b)
    BY BifTimeOrder DEF TimesInv, TsTyped
  <2>5. /\ LastSpan(made.cal)[2] \in Int /\ qCal[1].end <= LastSpan(made.cal)[2]
        /\ \A k \in 1 .. Len(qCal) : qCal[1].end <= qCal[k].end
    <3>1. LastSpan(made.cal)[2] \in Int
      BY LastSpanTyped DEF TimesInv, TsTyped
    <3>2. qCal[1].end <= LastSpan(made.cal)[2]
      BY <1>1 DEF TimesInv, QueuesInOrder, InOrder
    <3>3. ASSUME NEW k \in 1 .. Len(qCal)
          PROVE  qCal[1].end <= qCal[k].end
      <4>1. CASE k = 1
        BY <1>1, <1>4, <4>1
      <4>2. CASE k # 1
        <5>1. 1 < k
          BY <4>2
        <5>2. qCal[1].end < qCal[k].end
          BY <1>1, <5>1 DEF TimesInv, QueuesInOrder, InOrder
        <5> QED  BY <1>1, <1>4, <5>2
      <4> QED  BY <4>1, <4>2
    <3> QED  BY <3>1, <3>2, <3>3
  <2>6. FrontBif.beg < InBifTime(LastSpan(made.cal)[2])
    <3>1. CalEnd <= InBifTime(LastSpan(made.cal)[2]) /\ InBifTime(LastSpan(made.cal)[2]) \in Int
      <4>1. PICK a \in Int : a = qCal[1].end
        BY <1>1, <1>4
      <4>2. PICK b \in Int : b = LastSpan(made.cal)[2]
        BY <2>5
      <4>3. a <= b /\ CalEnd = InBifTime(a)
        BY <1>1, <2>5, <4>1, <4>2
      <4>4. InBifTime(a) <= InBifTime(b) /\ InBifTime(b) \in Int
        BY <2>4, <4>3
      <4> QED  BY <4>2, <4>3, <4>4
    <3> QED  BY <1>1, <2>1, <3>1
  <2>7. ASSUME NEW i \in 1 .. Len(qCal')
        PROVE  FrontBif.beg < InBifTime(qCal'[i].end)
    <3>1. PICK k \in 1 .. Len(qCal) : qCal'[i] = qCal[k]
      BY <1>2, RemainElements
    <3>2. CalEnd <= InBifTime(qCal[k].end) /\ InBifTime(qCal[k].end) \in Int
      <4>1. PICK a \in Int : a = qCal[1].end
        BY <1>1, <1>4
      <4>2. PICK b \in Int : b = qCal[k].end
        BY <1>4
      <4>3. a <= b /\ CalEnd = InBifTime(a)
        BY <1>1, <2>5, <4>1, <4>2
      <4>4. InBifTime(a) <= InBifTime(b) /\ InBifTime(b) \in Int
        BY <2>4, <4>3
      <4> QED  BY <4>2, <4>3, <4>4
    <3> QED  BY <1>1, <2>1, <3>1, <3>2
  <2> QED  BY <1>1, <1>3, <2>1, <2>2, <2>3, <2>6, <2>7 DEF LastBifKnown, LastSpan
<1>6. CASE ~TakesBif
  <2>1. lastBif' = lastBif /\ endBif' = endBif /\ qBif' = qBif
    BY <1>6 DEF TakeQuietly, TakeFronts
  <2>2. ASSUME endBif > 0, NEW i \in 1 .. Len(qCal')
        PROVE  lastBif.beg < InBifTime(qCal'[i].end)
    <3>1. PICK k \in 1 .. Len(qCal) : qCal'[i] = qCal[k]
      BY <1>2, RemainElements
    <3> QED  BY <2>2, <3>1 DEF TimesInv, LastBifKnown
  <2> QED  BY <1>3, <2>1, <2>2 DEF TimesInv, LastBifKnown, LastSpan
<1> QED  BY <1>5, <1>6

LEMMA TakenLastCal ==
  ASSUME TimesInv, at = "loop", Loops, TakeQuietly
  PROVE  LastCalKnown'
<1>1. /\ CalBeg \in Nat /\ FrontCal \in SpanEvents /\ FrontCal.run = run
      /\ FrontBif.beg \in Nat /\ FrontBif.end \in Nat
      /\ CalBeg = InBifTime(FrontCal.beg) /\ CalEnd = InBifTime(FrontCal.end)
      /\ CalEnd \in Nat /\ FrontCal = qCal[1] /\ FrontBif = qBif[1]
      /\ 1 \in 1 .. Len(qBif) /\ 1 \in 1 .. Len(qCal)
  BY Fronts
<1>2. /\ qCal' \in Seq(SpanEvents) /\ qBif' \in Seq(SpanEvents)
      /\ Remains(qCal', qCal) /\ Remains(qBif', qBif)
      /\ qCal \in Seq(SpanEvents) /\ qBif \in Seq(SpanEvents)
  BY TakenTyped DEF TimesInv, TsTyped
<1>3. /\ run' = run /\ made' = made /\ start' = start
      /\ \A t : InBifTime(t)' = InBifTime(t)
  BY DEF TakeQuietly, config, InBifTime
<1>4. /\ \A i \in 1 .. Len(qCal) : qCal[i].end \in Nat
      /\ \A i \in 1 .. Len(qBif) : qBif[i].end \in Nat
  <2>1. /\ \A i \in 1 .. Len(qCal) : qCal[i] \in SpanEvents
        /\ \A i \in 1 .. Len(qBif) : qBif[i] \in SpanEvents
    BY <1>2, ElementOfSeq
  <2> QED  BY <2>1 DEF SpanEvents
<1>5. CASE TakesCal
  <2>1. /\ lastCal' = FrontCal /\ endCal' = CalEnd /\ qCal' = Tail(qCal)
        /\ CalBeg < FrontBif.end
    BY <1>5, Taken DEF TakeQuietly, TakeFronts
  <2>2. /\ \A a \in Int : InBifTime(a) \in Int
        /\ \A a, b \in Int : a < b => InBifTime(a) < InBifTime(b)
        /\ \A a, b \in Int : a <= b => InBifTime(a) <= InBifTime(b)
    BY BifTimeOrder DEF TimesInv, TsTyped
  <2>3. PICK a \in Int : a = qCal[1].end /\ CalEnd = InBifTime(a)
    BY <1>1, <1>4
  <2>4. CalEnd <= InBifTime(LastSpan(made.cal)[2])
    <3>1. LastSpan(made.cal)[2] \in Int
      BY LastSpanTyped DEF TimesInv, TsTyped
    <3>2. a <= LastSpan(made.cal)[2]
      BY <1>1, <2>3 DEF TimesInv, QueuesInOrder, InOrder
    <3> QED  BY <2>2, <2>3, <3>1, <3>2
  <2>5. ASSUME NEW i \in 1 .. Len(qCal')
        PROVE  CalEnd < InBifTime(qCal'[i].end)
    <3>1. qCal # <<>> /\ Len(qCal) \in Nat
      BY <1>1, <1>2, LenProperties
    <3>2. Len(qCal') = Len(qCal) - 1 /\ qCal'[i] = qCal[i + 1]
      BY <1>2, <2>1, <3>1, HeadTailProperties
    <3>3. i + 1 \in 1 .. Len(qCal) /\ 1 < i + 1
      BY <3>1, <3>2
    <3>4. PICK b \in Int : b = qCal[i + 1].end
      BY <1>4, <3>3
    <3>5. a < b
      BY <1>1, <2>3, <3>3, <3>4 DEF TimesInv, QueuesInOrder, InOrder
    <3> QED  BY <2>2, <2>3, <3>2, <3>4, <3>5
  <2>6. /\ qBif[1].end <= LastSpan(made.bif)[2] /\ LastSpan(made.bif)[2] \in Int
        /\ \A k \in 1 .. Len(qBif) : qBif[1].end <= qBif[k].end
    <3>1. LastSpan(made.bif)[2] \in Int
      BY LastSpanTyped DEF TimesInv, TsTyped
    <3>2. qBif[1].end <= LastSpan(made.bif)[2]
      BY <1>1 DEF TimesInv, QueuesInOrder, InOrder
    <3>3. ASSUME NEW k \in 1 .. Len(qBif)
          PROVE  qBif[1].end <= qBif[k].end
      <4>1. CASE k = 1
        BY <1>1, <1>4, <4>1
      <4>2. CASE k # 1
        <5>1. 1 < k
          BY <4>2
        <5>2. qBif[1].end < qBif[k].end
          BY <1>1, <5>1 DEF TimesInv, QueuesInOrder, InOrder
        <5> QED  BY <1>1, <1>4, <5>2
      <4> QED  BY <4>1, <4>2
    <3> QED  BY <3>1, <3>2, <3>3
  <2>7. CalBeg < LastSpan(made.bif)[2]
    BY <1>1, <2>1, <2>6
  <2>8. ASSUME NEW i \in 1 .. Len(qBif')
        PROVE  CalBeg < qBif'[i].end
    <3>1. PICK k \in 1 .. Len(qBif) : qBif'[i] = qBif[k]
      BY <1>2, RemainElements
    <3> QED  BY <1>1, <1>4, <2>1, <2>6, <3>1
  <2> QED  BY <1>1, <1>3, <2>1, <2>4, <2>5, <2>7, <2>8, SMTT(60) DEF LastCalKnown, LastSpan
<1>6. CASE ~TakesCal
  <2>1. lastCal' = lastCal /\ endCal' = endCal /\ qCal' = qCal
    BY <1>6 DEF TakeQuietly, TakeFronts
  <2>2. ASSUME endCal > 0, NEW i \in 1 .. Len(qBif')
        PROVE  InBifTime(lastCal.beg) < qBif'[i].end
    <3>1. PICK k \in 1 .. Len(qBif) : qBif'[i] = qBif[k]
      BY <1>2, RemainElements
    <3> QED  BY <2>2, <3>1 DEF TimesInv, LastCalKnown
  <2> QED  BY <1>3, <2>1, <2>2 DEF TimesInv, LastCalKnown, LastSpan
<1> QED  BY <1>5, <1>6
-----------------------------------------------------------------------------
(* What is taken from the telescope, and the event of the trigger is of it. *)
LEMMA FromTelTyped ==
  ASSUME NEW trig, qTel \in Seq(TelEvents), lastTel \in TelEvents \cup {None},
         None \notin TelEvents
  PROVE  /\ FromTel(trig).early \in Seq(TelEvents) /\ FromTel(trig).rest \in Seq(TelEvents)
         /\ FromTel(trig).tel \in TelEvents \cup {None}
         /\ FromTel(trig).last \in TelEvents \cup {None}
         /\ FromTel(trig).tel # None => FromTel(trig).tel.trig = trig
<1> DEFINE passed == {i \in DOMAIN qTel : \A j \in 1 .. i : qTel[j].trig < trig}
           early == Selected(qTel, passed)
           rest  == Selected(qTel, DOMAIN qTel \ passed)
           lastOne == IF early = <<>> THEN lastTel ELSE early[Len(early)]
           joins == rest # <<>> /\ Head(rest).trig = trig
           tel   == IF joins THEN Head(rest)
                    ELSE IF lastOne # None /\ lastOne.trig = trig THEN lastOne ELSE None
<1>1. FromTel(trig) = [early |-> early, tel |-> tel,
                       rest |-> IF joins THEN Tail(rest) ELSE rest,
                       last |-> IF joins THEN Head(rest) ELSE lastOne]
  BY DEF FromTel
<1>2. early \in Seq(TelEvents) /\ rest \in Seq(TelEvents)
  BY SelectedPlaces
<1> HIDE DEF passed, early, rest
<1>3. lastOne \in TelEvents \cup {None}
  <2>1. ASSUME early # <<>> PROVE early[Len(early)] \in TelEvents
    BY <1>2, <2>1, LenProperties, EmptySeq, ElementOfSeq
  <2> QED  BY <2>1
<1>4. rest # <<>> => Head(rest) \in TelEvents /\ Tail(rest) \in Seq(TelEvents)
  BY <1>2, HeadTailProperties
<1> HIDE DEF lastOne
<1>5. tel \in TelEvents \cup {None} /\ (tel # None => tel.trig = trig)
  BY <1>3, <1>4
<1>6. (IF joins THEN Head(rest) ELSE lastOne) \in TelEvents \cup {None}
  BY <1>3, <1>4
<1>7. (IF joins THEN Tail(rest) ELSE rest) \in Seq(TelEvents)
  BY <1>2, <1>4
<1> HIDE DEF joins, tel
<1> QED  BY <1>1, <1>2, <1>5, <1>6, <1>7

(* The event ev is written; before it, at most telescope events alone. *)
Writes(ev) ==
  /\ written' \in Seq(TsMerged)
  /\ \A i \in 1 .. Len(written) : i \in 1 .. Len(written') /\ written'[i] = written[i]
  /\ \E i \in 1 .. Len(written') : written'[i] = ev
  /\ \A i \in 1 .. Len(written') :
       i \in 1 .. Len(written) \/ written'[i] = ev \/ (written'[i].cal = None /\ written'[i].bif = None)

LEMMA WritesAppended ==
  ASSUME NEW w \in Seq(TsMerged), NEW ev \in TsMerged, written \in Seq(TsMerged),
         \A i \in 1 .. Len(w) : w[i].cal = None /\ w[i].bif = None,
         written' = (written \o w) \o <<ev>>
  PROVE  Writes(ev)
<1>1. /\ written \o w \in Seq(TsMerged) /\ Len(written) \in Nat /\ Len(w) \in Nat
      /\ Len(written \o w) = Len(written) + Len(w)
      /\ \A i \in 1 .. Len(written) : (written \o w)[i] = written[i]
      /\ \A i \in 1 .. Len(w) : (written \o w)[Len(written) + i] = w[i]
  <2>1. \A o \in Seq(TsMerged) :
          /\ o \o w \in Seq(TsMerged) /\ Len(o) \in Nat /\ Len(w) \in Nat
          /\ Len(o \o w) = Len(o) + Len(w)
          /\ \A i \in 1 .. Len(o) : (o \o w)[i] = o[i]
          /\ \A i \in 1 .. Len(w) : (o \o w)[Len(o) + i] = w[i]
    BY Concatenated
  <2> QED  BY <2>1
<1> DEFINE u == written \o w
<1> HIDE DEF u
<1>2. /\ u \in Seq(TsMerged) /\ Len(u) = Len(written) + Len(w)
      /\ \A i \in 1 .. Len(written) : u[i] = written[i]
      /\ \A i \in 1 .. Len(w) : u[Len(written) + i] = w[i]
      /\ written' = u \o <<ev>>
  BY <1>1 DEF u
<1>3. /\ <<ev>> \in Seq(TsMerged) /\ Len(<<ev>>) = 1 /\ <<ev>>[1] = ev
  OBVIOUS
<1>4. /\ written' \in Seq(TsMerged) /\ Len(written') = Len(u) + 1
      /\ \A i \in 1 .. Len(u) : written'[i] = u[i]
      /\ \A i \in 1 .. Len(<<ev>>) : written'[Len(u) + i] = <<ev>>[i]
  BY <1>2, <1>3, Concatenated
<1>5. written'[Len(u) + 1] = ev
  <2>1. 1 \in 1 .. Len(<<ev>>)
    BY <1>3
  <2> QED  BY <1>3, <1>4, <2>1
<1>6. \A i \in 1 .. Len(written) : i \in 1 .. Len(written') /\ i \in 1 .. Len(u) /\ written'[i] = written[i]
  BY <1>1, <1>2, <1>4
<1>7. Len(u) + 1 \in 1 .. Len(written')
  BY <1>1, <1>2, <1>4
<1>8. ASSUME NEW i \in 1 .. Len(written'), i \notin 1 .. Len(written), i # Len(u) + 1
      PROVE  written'[i].cal = None /\ written'[i].bif = None
  <2>1. i - Len(written) \in 1 .. Len(w) /\ i = Len(written) + (i - Len(written)) /\ i \in 1 .. Len(u)
    BY <1>1, <1>2, <1>4, <1>8
  <2>2. PICK k \in 1 .. Len(w) : i = Len(written) + k
    BY <2>1
  <2> QED  BY <1>2, <1>4, <2>1, <2>2
<1> QED  BY <1>4, <1>5, <1>6, <1>7, <1>8 DEF Writes

LEMMA MergeTsWrites ==
  ASSUME TimesInv, MergeTs
  PROVE  TakeQuietly /\ Writes(Event(SubBif, SubCal, None)) /\ qTel' = qTel /\ lastTel' = lastTel
<1>1. at = "loop" /\ Loops
  BY DEF MergeTs
<1>2. written \in Seq(TsMerged) /\ Event(SubBif, SubCal, None) \in TsMerged
  BY <1>1, Chosen DEF TimesInv, TsTyped, TsMerged, Event
<1>3. written' = (written \o <<>>) \o <<Event(SubBif, SubCal, None)>>
  BY <1>2 DEF MergeTs
<1>4. Writes(Event(SubBif, SubCal, None))
  <2> DEFINE w == <<>>
  <2>1. w \in Seq(TsMerged) /\ \A i \in 1 .. Len(w) : w[i].cal = None /\ w[i].bif = None
    OBVIOUS
  <2>2. written' = (written \o w) \o <<Event(SubBif, SubCal, None)>>
    BY <1>3
  <2> HIDE DEF w
  <2> QED  BY <1>2, <2>1, <2>2, WritesAppended
<1> QED  BY <1>4 DEF MergeTs, TakeQuietly

(* An event with a telescope sub-event is one of AHCAL: one of the fronts is
   taken, and a BIF event alone carries no trigger number. *)
LEMMA MergeTelWrites ==
  ASSUME TimesInv, MergeTel
  PROVE  /\ TakeQuietly /\ SubCal # None
         /\ Writes(Event(SubBif, SubCal, FromTel(SubCal.trig).tel))
         /\ qTel' = FromTel(SubCal.trig).rest /\ lastTel' = FromTel(SubCal.trig).last
<1>1. at = "loop" /\ Loops
  BY DEF MergeTel
<1>2. SubCal # None
  BY <1>1, Taken, Chosen DEF MergeTel
<1> DEFINE t == FromTel(SubCal.trig)
           ev == Event(SubBif, SubCal, t.tel)
           w == [i \in DOMAIN t.early |-> Event(None, None, t.early[i])]
<1>3. t.early \in Seq(TelEvents) /\ t.tel \in TelEvents \cup {None}
  BY FromTelTyped DEF MergeTel, TimesInv, TsTyped, Parameters
<1>4. written' = (written \o w) \o <<ev>> /\ qTel' = t.rest /\ lastTel' = t.last
  BY <1>2 DEF MergeTel
<1> HIDE DEF t
<1>5. written \in Seq(TsMerged) /\ ev \in TsMerged
  BY <1>1, <1>3, Chosen DEF TimesInv, TsTyped, TsMerged, Event
<1>6. /\ Len(t.early) \in Nat /\ DOMAIN t.early = 1 .. Len(t.early)
      /\ \A i \in 1 .. Len(t.early) : t.early[i] \in TelEvents
  BY <1>3, LenProperties, ElementOfSeq
<1>7. w \in Seq(TsMerged) /\ \A i \in 1 .. Len(w) : w[i].cal = None /\ w[i].bif = None
  <2>1. w = [i \in 1 .. Len(t.early) |-> Event(None, None, t.early[i])]
    BY <1>6
  <2>2. w \in [1 .. Len(t.early) -> TsMerged]
    BY <1>6, <2>1 DEF TsMerged, Event
  <2>3. w \in Seq(TsMerged) /\ Len(w) = Len(t.early)
    BY <1>6, <2>2
  <2> QED  BY <1>6, <2>1, <2>3 DEF Event
<1> HIDE DEF w, ev
<1>8. Writes(ev)
  BY <1>4, <1>5, <1>7, WritesAppended
<1> QED  BY <1>2, <1>4, <1>8 DEF MergeTel, TakeQuietly, t, ev
-----------------------------------------------------------------------------
LEMMA LastTrigTyped ==
  ASSUME NEW evs \in Seq(SpanEvents)
  PROVE  LastTrig(evs) \in Int
<1>1. CASE evs = <<>>
  BY <1>1 DEF LastTrig
<1>2. CASE evs # <<>>
  <2>1. Len(evs) \in 1 .. Len(evs)
    BY <1>2, LenProperties, EmptySeq
  <2>2. evs[Len(evs)] \in SpanEvents
    BY <2>1, ElementOfSeq
  <2> QED  BY <1>2, <2>2 DEF LastTrig, SpanEvents
<1> QED  BY <1>1, <1>2

(* Timed or not, a new event has a span of naturals; a timed one has the span
   of a timed event of its producer. *)
LEMMA EventSpan ==
  ASSUME Settings, NEW p \in {"cal", "bif"}, NEW e \in EventsOf(p)
  PROVE  /\ e \in SpanEvents /\ e.run = run /\ LastTrig(made[p]) < e.trig
         /\ Timed(e) => <<e.beg, e.end>> \in Spans(p)
<1> DEFINE few == Cardinality({i \in DOMAIN made[p] : ~Timed(made[p][i])}) < MaxUntimed
           spans == IF few THEN Spans(p) \cup Untimed(p) ELSE Spans(p)
           flags == IF made[p] = <<>> THEN BoreChoices ELSE {FALSE}
<1>1. PICK s \in spans, t \in Triggers(made[p]), b \in flags :
           e = [beg |-> s[1], end |-> s[2], trig |-> t, bore |-> b, run |-> run]
  <2>1. p # "tel"
    OBVIOUS
  <2>2. EventsOf(p) =
          {[beg |-> s[1], end |-> s[2], trig |-> t, bore |-> b, run |-> run] :
             s \in spans, t \in Triggers(made[p]), b \in flags}
    BY <2>1 DEF EventsOf
  <2> HIDE DEF spans, flags
  <2> QED  BY <2>2
<1>2. b \in BOOLEAN /\ t \in Nat /\ run \in Nat /\ LastTrig(made[p]) < t
  <2>1. BoreChoices \subseteq BOOLEAN /\ MaxTrig \in Nat /\ run \in Nat
    BY DEF Settings, Parameters
  <2>2. b \in BOOLEAN
    BY <2>1
  <2>3. t \in 1 .. MaxTrig /\ (t = LastTrig(made[p]) + 1 \/ t > LastTrig(made[p]))
    BY DEF Triggers
  <2>4. LastTrig(made[p]) \in Int
    BY LastTrigTyped DEF Settings
  <2> QED  BY <2>1, <2>2, <2>3, <2>4
<1>3. /\ start[1] \in Nat /\ start[2] \in Nat
      /\ CalSpans \cup BifSpans \subseteq {x \in Nat \X Nat : x[1] < x[2]}
      /\ made.bif \in Seq(SpanEvents)
  BY DEF Settings, Parameters
<1> HIDE DEF few, flags
<1>4. ASSUME NEW r \in {"cal", "bif"}, NEW x \in Spans(r)
      PROVE  x = <<x[1], x[2]>> /\ x[1] \in Nat /\ x[2] \in Nat
  <2>1. CASE r = "cal"
    <3>1. PICK c \in CalSpans : x = <<start[1] + c[1], start[1] + c[2]>>
      BY <1>4, <2>1 DEF Spans
    <3> QED  BY <1>3, <3>1
  <2>2. CASE r # "cal"
    <3>1. PICK c \in BifSpans : x = <<start[2] + c[1], start[2] + c[2]>>
      BY <1>4, <2>2 DEF Spans
    <3> QED  BY <1>3, <3>1
  <2> QED  BY <2>1, <2>2
<1>5. ASSUME s \in Untimed(p)
      PROVE  s[1] \in Nat /\ s[2] \in Nat /\ s[2] <= s[1]
  <2>1. CASE p = "cal"
    BY <1>5, <2>1 DEF Untimed
  <2>2. CASE p # "cal"
    <3>1. /\ s[2] <= s[1]
          /\ s[1] \in {x[1] : x \in Spans("bif")}
          /\ s[2] \in {0} \cup {made.bif[i].end : i \in DOMAIN made.bif}
      BY <1>5, <2>2 DEF Untimed
    <3>2. s[1] \in Nat
      BY <1>4, <3>1
    <3>3. \A i \in DOMAIN made.bif : made.bif[i] \in SpanEvents
      BY <1>3, LenProperties, ElementOfSeq
    <3>4. s[2] \in Nat
      BY <3>1, <3>3 DEF SpanEvents
    <3> QED  BY <3>1, <3>2, <3>4
  <2> QED  BY <2>1, <2>2
<1>6. s \in Spans(p) \/ s \in Untimed(p)
  BY <1>1
<1>7. s[1] \in Nat /\ s[2] \in Nat
  BY <1>4, <1>5, <1>6
<1>8. ASSUME Timed(e)  PROVE <<e.beg, e.end>> \in Spans(p)
  <2>1. s[1] < s[2] /\ e.beg = s[1] /\ e.end = s[2]
    BY <1>1, <1>8 DEF Timed
  <2>2. s \in Spans(p)
    BY <1>5, <1>6, <2>1
  <2> QED  BY <1>4, <2>1, <2>2
<1> HIDE DEF spans
<1>9. e \in SpanEvents
  <2>1. t \in Int
    BY <1>2
  <2> QED  BY <1>1, <1>2, <1>7, <2>1 DEF SpanEvents
<1> QED  BY <1>1, <1>2, <1>8, <1>9

(* A new event of a producer follows all it has made, and the shift changes
   its trigger only. *)
LEMMA SpanEventMade ==
  ASSUME TimesInv, NEW p \in {"cal", "bif"}, NEW e \in EventsOf(p), Timed(e)
  PROVE  /\ e \in SpanEvents /\ e.beg < e.end /\ e.run = run
         /\ LastSpan(made[p])[1] < e.beg /\ LastSpan(made[p])[2] < e.end
         /\ LastTrig(made[p]) < e.trig
         /\ p = "cal" => CalTime(e)
         /\ Shifted(p, e) \in SpanEvents
         /\ Shifted(p, e).beg = e.beg /\ Shifted(p, e).end = e.end /\ Shifted(p, e).run = e.run
<1>1. Settings
  BY DEF TimesInv, TsTyped, Settings
<1>2. /\ e \in SpanEvents /\ e.run = run /\ LastTrig(made[p]) < e.trig
      /\ <<e.beg, e.end>> \in Spans(p) /\ e.beg < e.end
  BY <1>1, EventSpan DEF Timed
<1>3. /\ start[1] \in Nat /\ start[2] \in Nat /\ Scale \in Nat /\ Lead \in Nat /\ shift \in Int
      /\ CalSpans \cup BifSpans \subseteq {x \in Nat \X Nat : x[1] < x[2]}
      /\ made[p] \in Seq(SpanEvents)
  BY DEF TimesInv, TsTyped, Parameters
<1>4. \A i \in DOMAIN made[p] : Timed(made[p][i]) => e.beg > made[p][i].beg /\ e.end > made[p][i].end
  BY <1>2 DEF Spans
<1>5. LastSpan(made[p])[1] < e.beg /\ LastSpan(made[p])[2] < e.end
  <2>1. CASE made[p] = <<>>
    BY <1>2, <2>1 DEF LastSpan, SpanEvents
  <2>2. CASE made[p] # <<>>
    <3>1. Len(made[p]) \in DOMAIN made[p]
      BY <1>3, <2>2, LenProperties, EmptySeq
    <3>2. Timed(made[p][Len(made[p])])
      BY <3>1 DEF TimesInv, ProperRun
    <3>3. made[p][Len(made[p])] \in SpanEvents
      BY <1>3, <3>1, LenProperties, ElementOfSeq
    <3> QED  BY <1>2, <1>4, <2>2, <3>1, <3>2, <3>3 DEF LastSpan, SpanEvents
  <2> QED  BY <2>1, <2>2
<1>6. ASSUME p = "cal"  PROVE CalTime(e)
  <2>1. PICK c \in CalSpans : <<e.beg, e.end>> = <<start[1] + c[1], start[1] + c[2]>>
    BY <1>2, <1>6 DEF Spans
  <2>2. /\ e.beg = start[1] + c[1] /\ e.end = start[1] + c[2] /\ c[1] \in Nat /\ c[2] \in Nat
        /\ c[2] * Scale + start[2] + Lead < TimeMod
    BY <1>3, <2>1 DEF TimesInv, TsTyped, TimesFit
  <2>3. e.end - start[1] = c[2]
    BY <1>3, <2>2
  <2> QED  BY <1>2, <1>3, <2>2, <2>3 DEF CalTime, InBifTime
<1>7. Shifted(p, e) = e \/ Shifted(p, e) = [e EXCEPT !.trig = @ + shift]
  <2>1. p = "cal" \/ p # "cal"
    OBVIOUS
  <2> QED  BY DEF Shifted
<1>8. /\ Shifted(p, e) \in SpanEvents
      /\ Shifted(p, e).beg = e.beg /\ Shifted(p, e).end = e.end /\ Shifted(p, e).run = e.run
  <2>1. e.trig \in Int
    BY <1>2 DEF SpanEvents
  <2>2. e.trig + shift \in Int
    BY <1>3, <2>1
  <2> QED  BY <1>2, <1>7, <2>2 DEF SpanEvents
<1> QED  BY <1>2, <1>5, <1>6, <1>8

LEMMA TelEventMade ==
  ASSUME Settings, NEW e \in EventsOf("tel")
  PROVE  /\ e \in TelEvents /\ e.trig = LastTrig(made.tel) + 1
         /\ Shifted("tel", e) \in TelEvents
<1>1. PICK t \in {x \in 1 .. MaxTrig : x = LastTrig(made.tel) + 1} :
        e = [trig |-> t, bore |-> made.tel = <<>>, run |-> run]
  BY DEF EventsOf
<1>2. MaxTrig \in Nat /\ run \in Nat /\ shift \in Int
  BY DEF Settings, Parameters
<1>3. t \in Int /\ (made.tel = <<>>) \in BOOLEAN
  BY <1>2
<1>4. e \in TelEvents /\ e.trig = LastTrig(made.tel) + 1
  BY <1>1, <1>2, <1>3 DEF TelEvents
<1>5. Shifted("tel", e) = e \/ Shifted("tel", e) = [e EXCEPT !.trig = @ - shift]
  BY DEF Shifted
<1> QED  BY <1>2, <1>4, <1>5 DEF TelEvents

LEMMA Appended ==
  ASSUME NEW T, NEW q \in Seq(T), NEW x \in T
  PROVE  /\ Append(q, x) \in Seq(T) /\ Append(q, x) # <<>>
         /\ Len(q) \in Nat /\ Len(Append(q, x)) = Len(q) + 1
         /\ Append(q, x)[Len(Append(q, x))] = x
         /\ \A i \in 1 .. Len(q) : Append(q, x)[i] = q[i]
         /\ \A i \in 1 .. Len(Append(q, x)) :
              Append(q, x)[i] = x \/ \E k \in 1 .. Len(q) : k = i /\ Append(q, x)[i] = q[k]
<1> DEFINE r == Append(q, x)
<1>1. /\ r \in Seq(T) /\ Len(q) \in Nat /\ Len(r) = Len(q) + 1 /\ r[Len(q) + 1] = x
      /\ \A i \in 1 .. Len(q) : r[i] = q[i]
  BY AppendProperties, LenProperties
<1> HIDE DEF r
<1>2. r # <<>>
  BY <1>1
<1>3. \A i \in 1 .. Len(r) : i = Len(q) + 1 \/ i \in 1 .. Len(q)
  BY <1>1
<1> QED  BY <1>1, <1>2, <1>3 DEF r

(* The settings are kept by every step. *)
LEMMA SettingsStep ==
  ASSUME Settings, [TsNext]_tsVars
  PROVE  Settings'
<1>1. CASE StartRun
  <2>1. /\ kind' = kind /\ shift' = shift /\ start' \in Starts /\ run' = run + 1 /\ made' = NoEvents
    BY <1>1 DEF StartRun
  <2>2. NoEvents \in [cal : Seq(SpanEvents), bif : Seq(SpanEvents), tel : Seq(TelEvents)]
    BY DEF NoEvents
  <2>3. run' \in Nat /\ made' \in [cal : Seq(SpanEvents), bif : Seq(SpanEvents), tel : Seq(TelEvents)]
    BY <2>1, <2>2 DEF Settings
  <2> QED  BY <2>1, <2>3 DEF Settings, Parameters, TimesFit
<1>2. CASE Receive
  <2>1. UNCHANGED <<kind, shift, start, run>>
    <3>1. PICK p, e : \/ UNCHANGED <<config, run>>
                      \/ ReceiveEvent(p, e)
      BY <1>2 DEF Receive
    <3> QED  BY <3>1 DEF ReceiveEvent, config
  <2>2. PICK p, e : p \in {"cal", "bif", "tel"} /\ e \in EventsOf(p) /\ made' = [made EXCEPT ![p] = Append(@, e)]
    BY <1>2 DEF Receive
  <2>3. made' \in [cal : Seq(SpanEvents), bif : Seq(SpanEvents), tel : Seq(TelEvents)]
    <3>1. CASE p = "tel"
      <4>1. e \in TelEvents /\ made.tel \in Seq(TelEvents)
        BY <2>2, <3>1, TelEventMade DEF Settings
      <4>2. Append(made.tel, e) \in Seq(TelEvents)
        BY <4>1, AppendProperties
      <4> QED  BY <2>2, <3>1, <4>2 DEF Settings
    <3>2. CASE p # "tel"
      <4>1. p \in {"cal", "bif"} /\ e \in EventsOf(p)
        BY <2>2, <3>2
      <4>2. e \in SpanEvents
        BY <4>1, EventSpan
      <4>3. PICK q \in Seq(SpanEvents) : q = made[p]
        BY <4>1 DEF Settings
      <4>4. Append(q, e) \in Seq(SpanEvents)
        BY <4>2, AppendProperties
      <4> QED  BY <2>2, <4>1, <4>3, <4>4 DEF Settings
    <3> QED  BY <3>1, <3>2
  <2> QED  BY <2>1, <2>3 DEF Settings, Parameters, TimesFit
<1>3. CASE StopRun \/ LoopEnds \/ MergeTs \/ MergeUntriggered \/ MergeTel \/ UNCHANGED tsVars
  <2>1. UNCHANGED <<kind, shift, start, run, made>>
    BY <1>3 DEF StopRun, LoopEnds, MergeTs, MergeUntriggered, MergeTel, tsVars, config
  <2> QED  BY <2>1 DEF Settings, Parameters, TimesFit
<1> QED  BY <1>1, <1>2, <1>3 DEF TsNext

(* A run that is proper was proper before; an event of it has times. *)
LEMMA ReceivedTimed ==
  ASSUME Settings, Receive, ProperRun'
  PROVE  /\ ProperRun /\ accept
         /\ \E p \in {"cal", "bif", "tel"} : \E e \in EventsOf(p) :
              /\ made' = [made EXCEPT ![p] = Append(@, e)] /\ ReceiveEvent(p, e)
              /\ p # "tel" => Timed(e)
<1>1. PICK p, e :
        /\ p \in {"cal", "bif", "tel"} /\ e \in EventsOf(p)
        /\ accept /\ made' = [made EXCEPT ![p] = Append(@, e)]
        /\ ~Refused(p, e) => ReceiveEvent(p, e)
  BY DEF Receive
<1>2. made \in [cal : Seq(SpanEvents), bif : Seq(SpanEvents), tel : Seq(TelEvents)]
  BY DEF Settings
<1>3. CASE p = "tel"
  <2>1. made'.cal = made.cal /\ made'.bif = made.bif
    BY <1>1, <1>2, <1>3
  <2>2. ProperRun
    BY <2>1 DEF ProperRun, Timed
  <2> QED  BY <1>1, <1>3, <2>2 DEF Refused
<1>4. CASE p # "tel"
  <2>1. e \in SpanEvents /\ p \in {"cal", "bif"}
    <3>1. p \in {"cal", "bif"} /\ e \in EventsOf(p)
      BY <1>1, <1>4
    <3> QED  BY <3>1, EventSpan
  <2>2. PICK q \in Seq(SpanEvents) : q = made[p]
    BY <1>2, <2>1
  <2>3. /\ made'[p] = Append(q, e)
        /\ \A r \in {"cal", "bif"} \ {p} : made'[r] = made[r]
    BY <1>1, <1>2, <2>1, <2>2
  <2>4. /\ Len(q) \in Nat /\ DOMAIN q = 1 .. Len(q)
        /\ DOMAIN Append(q, e) = 1 .. Len(q) + 1 /\ Append(q, e)[Len(q) + 1] = e
        /\ Append(q, e) # <<>> /\ \A i \in 1 .. Len(q) : Append(q, e)[i] = q[i]
    BY <2>1, AppendProperties, LenProperties
  <2>5. Timed(e)
    <3>1. Len(q) + 1 \in DOMAIN made'[p]
      BY <2>3, <2>4
    <3>2. Timed(made'[p][Len(q) + 1])
      BY <2>1, <3>1 DEF ProperRun, Timed
    <3> QED  BY <2>3, <2>4, <3>2
  <2>6. ASSUME NEW r \in {"cal", "bif"}, NEW i \in DOMAIN made[r]
        PROVE  Timed(made[r][i])
    <3>1. i \in DOMAIN made'[r] /\ made'[r][i] = made[r][i]
      BY <2>2, <2>3, <2>4
    <3>2. Timed(made'[r][i])
      BY <3>1 DEF ProperRun, Timed
    <3> QED  BY <3>1, <3>2
  <2>7. ASSUME made.bif # <<>>  PROVE made.bif[1].bore
    <3>1. CASE p = "bif"
      <4>1. 1 \in 1 .. Len(q)
        BY <2>2, <2>4, <2>7, <3>1, EmptySeq
      <4>2. made'.bif[1] = made.bif[1] /\ made'.bif # <<>>
        BY <2>2, <2>3, <2>4, <3>1, <4>1
      <4> QED  BY <4>2 DEF ProperRun
    <3>2. CASE p # "bif"
      BY <2>3, <2>7, <3>2 DEF ProperRun
    <3> QED  BY <3>1, <3>2
  <2>8. ProperRun
    BY <2>6, <2>7 DEF ProperRun
  <2> QED  BY <1>1, <2>5, <2>8 DEF Refused
<1> QED  BY <1>3, <1>4

LEMMA ProperBefore ==
  ASSUME Settings, [TsNext]_tsVars, ~StartRun, ProperRun'
  PROVE  ProperRun
<1>1. CASE Receive
  BY <1>1, ReceivedTimed
<1>2. CASE ~Receive
  <2>1. made' = made
    BY <1>2 DEF TsNext, StopRun, LoopEnds, MergeTs, MergeUntriggered, MergeTel, tsVars
  <2> QED  BY <2>1 DEF ProperRun, Timed
<1> QED  BY <1>1, <1>2

(* What any reception leaves as it is. *)
LEMMA ReceiveFrame ==
  ASSUME NEW p \in {"cal", "bif", "tel"}, NEW e, TimesInv, ReceiveEvent(p, e),
         made' = [made EXCEPT ![p] = Append(@, e)], ProperRun',
         p = "bif" => e \in SpanEvents
  PROVE  /\ UNCHANGED <<kind, start, shift, accept, lastCal, lastBif, lastTel, endCal, endBif,
                        written, taken, run>>
         /\ flooded' \in BOOLEAN /\ offsetDone' \in BOOLEAN /\ at' \in {"idle", "loop"}
         /\ accept => OffsetRight'
         /\ \A t : InBifTime(t)' = InBifTime(t)
         /\ at = "idle"
<1>1. /\ UNCHANGED <<kind, start, shift, accept, lastCal, lastBif, lastTel, endCal, endBif,
                     written, taken, run>>
      /\ flooded' \in BOOLEAN /\ offsetDone' \in BOOLEAN /\ at' \in {"idle", "loop"}
      /\ at = "idle"
  BY DEF ReceiveEvent, config, results, TimesInv, TsTyped
<1>2. accept => OffsetRight'
  <2>1. TrueOffset' = TrueOffset
    BY <1>1 DEF TrueOffset
  <2>2. ASSUME kind = "Ts", ~offsetDone  PROVE qBif' = made'.bif
    <3>1. qBif = made.bif /\ qBif' = IF p = "bif" THEN Append(qBif, e) ELSE qBif
      BY <2>2 DEF TimesInv, OffsetRight, ReceiveEvent, Queued
    <3>2. made'.bif = IF p = "bif" THEN Append(made.bif, e) ELSE made.bif
      BY DEF TimesInv, TsTyped
    <3> QED  BY <3>1, <3>2
  <2>3. ASSUME offsetDone', ~offsetDone  PROVE offset' = TrueOffset
    <3>1. /\ offset' = Offset(qBif') /\ qBif' # <<>>
          /\ kind = "Tel" => Head(qBif').bore
      BY <2>3 DEF ReceiveEvent, BoreMissing
    <3>2. CASE kind = "Tel"
      BY <3>1, <3>2 DEF Offset, TrueOffset
    <3>3. CASE kind # "Tel"
      <4>1. qBif' = made'.bif
        BY <2>2, <2>3, <3>3 DEF TimesInv, TsTyped
      <4>2. made'.bif[1].bore
        BY <3>1, <4>1 DEF ProperRun
      <4>3. made'.bif \in Seq(SpanEvents)
        <5>1. made.bif \in Seq(SpanEvents) /\ made'.bif = IF p = "bif" THEN Append(made.bif, e) ELSE made.bif
          BY DEF TimesInv, TsTyped
        <5> QED  BY <5>1, AppendProperties
      <4>4. Head(made'.bif) = made'.bif[1]
        BY <3>1, <4>1, <4>3, HeadTailProperties, EmptySeq, LenProperties
      <4> QED  BY <3>1, <4>1, <4>2, <4>4 DEF Offset, TrueOffset
    <3> QED  BY <3>2, <3>3 DEF TimesInv, TsTyped
  <2>4. offsetDone => offset' = TrueOffset /\ offsetDone'
    BY DEF TimesInv, OffsetRight, ReceiveEvent
  <2>5. at' = "loop" => offsetDone'
    BY DEF ReceiveEvent
  <2>6. offsetDone \in BOOLEAN /\ offsetDone' \in BOOLEAN
    BY <1>1 DEF TimesInv, TsTyped
  <2> QED  BY <1>1, <2>1, <2>2, <2>3, <2>4, <2>5, <2>6 DEF OffsetRight
<1> QED  BY <1>1, <1>2 DEF InBifTime

LEMMA ReceiveCal ==
  ASSUME TimesInv, accept, NEW e \in EventsOf("cal"), Timed(e), ProperRun',
         made' = [made EXCEPT !["cal"] = Append(@, e)], ReceiveEvent("cal", e)
  PROVE  TimesInv'
<1> DEFINE x == Shifted("cal", e)
           l == LastSpan(made.cal)
<1>1. /\ e \in SpanEvents /\ e.beg < e.end /\ e.run = run /\ l[1] < e.beg /\ l[2] < e.end
      /\ CalTime(e) /\ x \in SpanEvents /\ x.beg = e.beg /\ x.end = e.end /\ x.run = e.run
  BY SpanEventMade
<1>2. e.beg \in Nat /\ e.end \in Nat /\ l \in Int \X Int /\ l[2] \in Int
  BY <1>1, LastSpanTyped DEF TimesInv, TsTyped, SpanEvents
<1>3. /\ UNCHANGED <<kind, start, shift, accept, lastCal, lastBif, lastTel, endCal, endBif,
                     written, taken, run>>
      /\ flooded' \in BOOLEAN /\ offsetDone' \in BOOLEAN /\ at' \in {"idle", "loop"}
      /\ OffsetRight' /\ \A t : InBifTime(t)' = InBifTime(t)
  BY <1>1, ReceiveFrame
<1>4. qBif' = qBif /\ qTel' = qTel /\ (qCal' = Append(qCal, x) \/ qCal' = <<>>)
  BY DEF ReceiveEvent, Queued
<1>5. /\ made.cal \in Seq(SpanEvents) /\ made.bif \in Seq(SpanEvents) /\ made.tel \in Seq(TelEvents)
      /\ qCal \in Seq(SpanEvents) /\ qBif \in Seq(SpanEvents)
  BY DEF TimesInv, TsTyped
<1>6. /\ made'.cal = Append(made.cal, e) /\ made'.bif = made.bif /\ made'.tel = made.tel
      /\ made' \in [cal : Seq(SpanEvents), bif : Seq(SpanEvents), tel : Seq(TelEvents)]
  <2>1. Append(made.cal, e) \in Seq(SpanEvents)
    BY <1>1, <1>5, AppendProperties
  <2> QED  BY <1>5, <2>1 DEF TimesInv, TsTyped
<1>7. LastSpan(made'.cal) = <<e.beg, e.end>> /\ LastSpan(made'.bif) = LastSpan(made.bif)
  <2> DEFINE q == made.cal
  <2>1. q \in Seq(SpanEvents) /\ e \in SpanEvents
    BY <1>1, <1>5
  <2> HIDE DEF q
  <2>2. Append(q, e) # <<>> /\ Append(q, e)[Len(Append(q, e))] = e
    BY <2>1, Appended
  <2> QED  BY <1>6, <2>2 DEF LastSpan, q
<1>8. qCal' \in Seq(SpanEvents) /\ InOrder(qCal', <<e.beg, e.end>>, run)
  <2>1. CASE qCal' = <<>>
    BY <2>1 DEF InOrder
  <2>2. CASE qCal' = Append(qCal, x)
    <3>1. InOrder(qCal, l, run)
      BY DEF TimesInv, QueuesInOrder
    <3>2. Append(qCal, x) \in Seq(SpanEvents) /\ InOrder(Append(qCal, x), <<x.beg, x.end>>, run)
      BY <1>1, <1>2, <1>5, <3>1, AppendInOrder
    <3> QED  BY <1>1, <2>2, <3>2
  <2> QED  BY <1>4, <2>1, <2>2
<1>9. \A i \in 1 .. Len(qCal') : qCal'[i] = x \/ \E k \in 1 .. Len(qCal) : qCal'[i] = qCal[k]
  <2>1. \A q \in Seq(SpanEvents), y \in SpanEvents : \A i \in 1 .. Len(Append(q, y)) :
          Append(q, y)[i] = y \/ \E k \in 1 .. Len(q) : Append(q, y)[i] = q[k]
    BY Appended
  <2>2. CASE qCal' = <<>>
    BY <2>2
  <2>3. CASE qCal' = Append(qCal, x)
    BY <1>1, <1>5, <2>1, <2>3
  <2> QED  BY <1>4, <2>2, <2>3
<1> HIDE DEF x, l
<1>10. PICK m \in Int : m = l[2] /\ InBifTime(m) < InBifTime(e.end) /\ InBifTime(m) \in Int
                        /\ InBifTime(e.end) \in Int
  <2>1. PICK a \in Int : a = l[2]
    BY <1>2
  <2>2. PICK b \in Int : b = e.end
    BY <1>2
  <2>3. a < b
    BY <1>1, <2>1, <2>2 DEF l
  <2>4. InBifTime(a) < InBifTime(b) /\ InBifTime(a) \in Int /\ InBifTime(b) \in Int
    BY <2>3, BifTimeOrder DEF TimesInv, TsTyped
  <2> QED  BY <2>1, <2>2, <2>4
<1>11. QueuesInOrder'
  <2>1. \A i \in 1 .. Len(qCal') : CalTime(qCal'[i])
    BY <1>1, <1>9 DEF CalTime, TimesInv, QueuesInOrder
  <2> QED  BY <1>3, <1>4, <1>7, <1>8, <2>1 DEF QueuesInOrder, CalTime, InOrder, TimesInv
<1>12. LastBifKnown'
  <2> SUFFICES ASSUME endBif > 0
               PROVE  /\ lastBif.beg < InBifTime(e.end)
                      /\ \A i \in 1 .. Len(qCal') : lastBif.beg < InBifTime(qCal'[i].end)
    BY <1>3, <1>4, <1>7 DEF LastBifKnown, TimesInv
  <2>1. /\ lastBif.beg < InBifTime(m) /\ lastBif.beg \in Nat
        /\ \A i \in 1 .. Len(qCal) : lastBif.beg < InBifTime(qCal[i].end)
    BY <1>10 DEF TimesInv, LastBifKnown, SpanEvents, l
  <2>2. lastBif.beg < InBifTime(e.end)
    BY <1>10, <2>1
  <2> QED  BY <1>1, <1>9, <2>1, <2>2
<1>13. LastCalKnown'
  <2> SUFFICES ASSUME endCal > 0
               PROVE  /\ endCal <= InBifTime(e.end)
                      /\ \A i \in 1 .. Len(qCal') : endCal < InBifTime(qCal'[i].end)
    BY <1>3, <1>4, <1>7 DEF LastCalKnown, TimesInv
  <2>1. /\ endCal <= InBifTime(m) /\ endCal \in Nat
        /\ \A i \in 1 .. Len(qCal) : endCal < InBifTime(qCal[i].end)
    BY <1>10 DEF TimesInv, LastCalKnown, TsTyped, l
  <2>2. endCal < InBifTime(e.end)
    BY <1>10, <2>1
  <2> QED  BY <1>1, <1>9, <1>10, <2>1, <2>2
<1>14. TsTyped'
  BY <1>3, <1>4, <1>6, <1>8 DEF TimesInv, TsTyped, Parameters, TimesFit
<1> QED  BY <1>3, <1>11, <1>12, <1>13, <1>14 DEF TimesInv

LEMMA ReceiveBif ==
  ASSUME TimesInv, accept, NEW e \in EventsOf("bif"), Timed(e), ProperRun',
         made' = [made EXCEPT !["bif"] = Append(@, e)], ReceiveEvent("bif", e)
  PROVE  TimesInv'
<1> DEFINE l == LastSpan(made.bif)
<1>1. /\ e \in SpanEvents /\ e.beg < e.end /\ e.run = run /\ l[1] < e.beg /\ l[2] < e.end
  BY SpanEventMade
<1>2. e.beg \in Nat /\ e.end \in Nat /\ l \in Int \X Int /\ l[2] \in Int
  BY <1>1, LastSpanTyped DEF TimesInv, TsTyped, SpanEvents
<1>3. /\ UNCHANGED <<kind, start, shift, accept, lastCal, lastBif, lastTel, endCal, endBif,
                     written, taken, run>>
      /\ flooded' \in BOOLEAN /\ offsetDone' \in BOOLEAN /\ at' \in {"idle", "loop"}
      /\ OffsetRight' /\ \A t : InBifTime(t)' = InBifTime(t)
  BY <1>1, ReceiveFrame
<1>4. qCal' = qCal /\ qTel' = qTel /\ (qBif' = Append(qBif, e) \/ qBif' = <<>>)
  BY DEF ReceiveEvent, Queued
<1>5. /\ made.cal \in Seq(SpanEvents) /\ made.bif \in Seq(SpanEvents) /\ made.tel \in Seq(TelEvents)
      /\ qCal \in Seq(SpanEvents) /\ qBif \in Seq(SpanEvents)
  BY DEF TimesInv, TsTyped
<1>6. /\ made'.bif = Append(made.bif, e) /\ made'.cal = made.cal /\ made'.tel = made.tel
      /\ made' \in [cal : Seq(SpanEvents), bif : Seq(SpanEvents), tel : Seq(TelEvents)]
  <2>1. Append(made.bif, e) \in Seq(SpanEvents)
    BY <1>1, <1>5, AppendProperties
  <2> QED  BY <1>5, <2>1 DEF TimesInv, TsTyped
<1>7. LastSpan(made'.bif) = <<e.beg, e.end>> /\ LastSpan(made'.cal) = LastSpan(made.cal)
  <2> DEFINE q == made.bif
  <2>1. q \in Seq(SpanEvents) /\ e \in SpanEvents
    BY <1>1, <1>5
  <2> HIDE DEF q
  <2>2. Append(q, e) # <<>> /\ Append(q, e)[Len(Append(q, e))] = e
    BY <2>1, Appended
  <2> QED  BY <1>6, <2>2 DEF LastSpan, q
<1>8. qBif' \in Seq(SpanEvents) /\ InOrder(qBif', <<e.beg, e.end>>, run)
  <2>1. CASE qBif' = <<>>
    BY <2>1 DEF InOrder
  <2>2. CASE qBif' = Append(qBif, e)
    <3>1. InOrder(qBif, l, run)
      BY DEF TimesInv, QueuesInOrder
    <3>2. Append(qBif, e) \in Seq(SpanEvents) /\ InOrder(Append(qBif, e), <<e.beg, e.end>>, run)
      BY <1>1, <1>2, <1>5, <3>1, AppendInOrder
    <3> QED  BY <2>2, <3>2
  <2> QED  BY <1>4, <2>1, <2>2
<1>9. \A i \in 1 .. Len(qBif') : qBif'[i] = e \/ \E k \in 1 .. Len(qBif) : qBif'[i] = qBif[k]
  <2>1. \A q \in Seq(SpanEvents), y \in SpanEvents : \A i \in 1 .. Len(Append(q, y)) :
          Append(q, y)[i] = y \/ \E k \in 1 .. Len(q) : Append(q, y)[i] = q[k]
    BY Appended
  <2>2. CASE qBif' = <<>>
    BY <2>2
  <2>3. CASE qBif' = Append(qBif, e)
    BY <1>1, <1>5, <2>1, <2>3
  <2> QED  BY <1>4, <2>2, <2>3
<1> HIDE DEF l
<1>11. QueuesInOrder'
  BY <1>3, <1>4, <1>7, <1>8 DEF QueuesInOrder, CalTime, InOrder, TimesInv
<1>12. LastBifKnown'
  <2> SUFFICES ASSUME endBif > 0
               PROVE  /\ endBif <= e.end
                      /\ \A i \in 1 .. Len(qBif') : endBif < qBif'[i].end
    BY <1>3, <1>4, <1>7 DEF LastBifKnown, TimesInv
  <2>1. /\ endBif <= l[2] /\ endBif \in Nat
        /\ \A i \in 1 .. Len(qBif) : endBif < qBif[i].end
    BY DEF TimesInv, LastBifKnown, TsTyped, l
  <2>2. endBif < e.end
    BY <1>1, <1>2, <2>1
  <2>3. endBif <= e.end
    BY <1>2, <2>1, <2>2
  <2> QED  BY <1>9, <2>1, <2>2, <2>3
<1>13. LastCalKnown'
  <2> SUFFICES ASSUME endCal > 0
               PROVE  /\ InBifTime(lastCal.beg) < e.end
                      /\ \A i \in 1 .. Len(qBif') : InBifTime(lastCal.beg) < qBif'[i].end
    BY <1>3, <1>4, <1>7 DEF LastCalKnown, TimesInv
  <2>1. /\ InBifTime(lastCal.beg) < l[2]
        /\ \A i \in 1 .. Len(qBif) : InBifTime(lastCal.beg) < qBif[i].end
    BY DEF TimesInv, LastCalKnown, l
  <2>2. InBifTime(lastCal.beg) \in Int
    <3>1. lastCal.beg \in Int
      BY DEF TimesInv, LastCalKnown, SpanEvents
    <3> QED  BY <3>1, BifTimeOrder DEF TimesInv, TsTyped
  <2>3. InBifTime(lastCal.beg) < e.end
    BY <1>1, <1>2, <2>1, <2>2
  <2> QED  BY <1>9, <2>1, <2>3
<1>14. TsTyped'
  BY <1>3, <1>4, <1>6, <1>8 DEF TimesInv, TsTyped, Parameters, TimesFit
<1> QED  BY <1>3, <1>11, <1>12, <1>13, <1>14 DEF TimesInv

LEMMA ReceiveTel ==
  ASSUME TimesInv, accept, NEW e \in EventsOf("tel"), ProperRun',
         made' = [made EXCEPT !["tel"] = Append(@, e)], ReceiveEvent("tel", e)
  PROVE  TimesInv'
<1>1. e \in TelEvents /\ Shifted("tel", e) \in TelEvents
  BY TelEventMade DEF TimesInv, TsTyped, Settings
<1>2. /\ UNCHANGED <<kind, start, shift, accept, lastCal, lastBif, lastTel, endCal, endBif,
                     written, taken, run>>
      /\ flooded' \in BOOLEAN /\ offsetDone' \in BOOLEAN /\ at' \in {"idle", "loop"}
      /\ OffsetRight' /\ \A t : InBifTime(t)' = InBifTime(t)
  BY <1>1, ReceiveFrame
<1>3. /\ qCal' = qCal /\ qBif' = qBif
      /\ qTel' = Append(qTel, Shifted("tel", e)) \/ qTel' = <<>>
  BY DEF ReceiveEvent, Queued
<1>4. qTel' \in Seq(TelEvents) /\ Append(made.tel, e) \in Seq(TelEvents)
  <2>1. qTel \in Seq(TelEvents) /\ made.tel \in Seq(TelEvents)
    BY DEF TimesInv, TsTyped
  <2>2. Append(qTel, Shifted("tel", e)) \in Seq(TelEvents) /\ <<>> \in Seq(TelEvents)
    BY <1>1, <2>1, AppendProperties
  <2>3. Append(made.tel, e) \in Seq(TelEvents)
    BY <1>1, <2>1, AppendProperties
  <2> QED  BY <1>3, <2>2, <2>3
<1>5. /\ made'.bif = made.bif /\ made'.cal = made.cal
      /\ made' \in [cal : Seq(SpanEvents), bif : Seq(SpanEvents), tel : Seq(TelEvents)]
  BY <1>4 DEF TimesInv, TsTyped
<1>6. LastSpan(made'.bif) = LastSpan(made.bif) /\ LastSpan(made'.cal) = LastSpan(made.cal)
  BY <1>5
<1>7. QueuesInOrder'
  BY <1>2, <1>3, <1>6 DEF QueuesInOrder, CalTime, InOrder, TimesInv
<1>8. LastBifKnown' /\ LastCalKnown'
  BY <1>2, <1>3, <1>6 DEF TimesInv, LastBifKnown, LastCalKnown
<1>9. TsTyped'
  BY <1>2, <1>3, <1>4, <1>5 DEF TimesInv, TsTyped, Parameters, TimesFit
<1> QED  BY <1>2, <1>7, <1>8, <1>9 DEF TimesInv
-----------------------------------------------------------------------------
LEMMA StartTimes ==
  ASSUME Settings, StartRun
  PROVE  TimesInv' /\ qCal' = <<>> /\ qBif' = <<>> /\ endCal' = 0 /\ endBif' = 0
<1>1. /\ qCal' = <<>> /\ qBif' = <<>> /\ qTel' = <<>> /\ endCal' = 0 /\ endBif' = 0
      /\ offsetDone' = FALSE /\ at' = "idle" /\ (kind = "Tel" => lastTel' = None)
      /\ kind' = kind /\ shift' = shift /\ start' \in Starts /\ run' = run + 1
      /\ accept' = TRUE /\ flooded' = FALSE /\ made' = NoEvents /\ written' = <<>> /\ taken' = {}
  BY DEF StartRun, Cleared, Settings
<1>2. /\ NoEvents \in [cal : Seq(SpanEvents), bif : Seq(SpanEvents), tel : Seq(TelEvents)]
      /\ NoEvents.cal = <<>> /\ NoEvents.bif = <<>>
  BY DEF NoEvents
<1>3. <<>> \in Seq(SpanEvents) /\ <<>> \in Seq(TelEvents) /\ <<>> \in Seq(TsMerged)
  OBVIOUS
<1>4. ProperRun'
  <2>1. made'.cal = <<>> /\ made'.bif = <<>> /\ DOMAIN <<>> = {}
    BY <1>1, <1>2
  <2> QED  BY <2>1 DEF ProperRun
<1>5. TsTyped'
  <2>1. Parameters' /\ TimesFit' /\ kind' \in {"Ts", "Tel"} /\ shift' \in Int /\ run' \in Nat
    BY <1>1 DEF Settings, Parameters, TimesFit
  <2> QED  BY <1>1, <1>2, <1>3, <2>1 DEF TsTyped
<1>6. OffsetRight' /\ QueuesInOrder' /\ LastBifKnown' /\ LastCalKnown'
  BY <1>1, <1>2 DEF OffsetRight, QueuesInOrder, InOrder, LastBifKnown, LastCalKnown
<1> QED  BY <1>1, <1>4, <1>5, <1>6 DEF TimesInv

LEMMA StopTimes ==
  ASSUME TimesInv, StopRun
  PROVE  TimesInv'
<1>1. /\ qCal' = <<>> /\ qBif' = <<>> /\ qTel' = <<>> /\ endCal' = 0 /\ endBif' = 0
      /\ offsetDone' = FALSE /\ at' = "idle" /\ kind = "Tel" /\ lastTel' = None
      /\ UNCHANGED <<kind, shift, start, run, made, taken, written, flooded>> /\ accept' = FALSE
  BY DEF StopRun, Cleared, config
<1>2. <<>> \in Seq(SpanEvents) /\ <<>> \in Seq(TelEvents)
  OBVIOUS
<1>3. TsTyped' /\ ProperRun'
  BY <1>1, <1>2 DEF TimesInv, TsTyped, Parameters, TimesFit, ProperRun, Timed
<1>4. OffsetRight' /\ QueuesInOrder' /\ LastBifKnown' /\ LastCalKnown'
  BY <1>1 DEF OffsetRight, QueuesInOrder, InOrder, LastBifKnown, LastCalKnown
<1> QED  BY <1>3, <1>4 DEF TimesInv

LEMMA TakesTimes ==
  ASSUME TimesInv, at = "loop", Loops, TakeQuietly,
         qTel' \in Seq(TelEvents), kind = "Tel" => lastTel' \in TelEvents \cup {None},
         written' \in Seq(TsMerged)
  PROVE  TimesInv'
<1>1. TsTyped'
  BY TakenTyped DEF TakeQuietly, TimesInv, TsTyped, config, Parameters, TimesFit
<1>2. ProperRun'
  BY DEF TakeQuietly, TimesInv, ProperRun, Timed
<1> QED  BY <1>1, <1>2, TakenInOrder, TakenLastBif, TakenLastCal DEF TimesInv

LEMMA TimesInit ==
  ASSUME Parameters, TimesFit, TsInit
  PROVE  ProperTimes /\ TimesInv /\ SubeventsOverlap
<1>1. TsTyped
  <2>1. kind \in {"Ts", "Tel"} /\ shift \in Int
    BY DEF TsInit, Parameters
  <2>2. NoEvents \in [cal : Seq(SpanEvents), bif : Seq(SpanEvents), tel : Seq(TelEvents)]
    BY DEF NoEvents
  <2>3. <<>> \in Seq(SpanEvents) /\ <<>> \in Seq(TelEvents) /\ <<>> \in Seq(TsMerged)
    OBVIOUS
  <2> QED  BY <2>1, <2>2, <2>3 DEF TsInit, TsTyped
<1>2. OffsetRight /\ QueuesInOrder /\ LastBifKnown /\ LastCalKnown
  BY DEF TsInit, NoEvents, OffsetRight, QueuesInOrder, InOrder, LastBifKnown, LastCalKnown
<1>3. ProperRun
  <2>1. made.cal = <<>> /\ made.bif = <<>> /\ DOMAIN <<>> = {}
    BY DEF TsInit, NoEvents
  <2> QED  BY <2>1 DEF ProperRun
<1> QED  BY <1>1, <1>2, <1>3 DEF TimesInv, ProperTimes, Settings, TsTyped, TsInit, SubeventsOverlap

LEMMA TimesStep ==
  ASSUME ProperTimes, [TsNext]_tsVars, ProperRun'
  PROVE  TimesInv' /\ (~StartRun => TimesInv)
<1> SUFFICES ASSUME ~StartRun, TimesInv
             PROVE  TimesInv'
  BY StartTimes, ProperBefore DEF ProperTimes
<1>1. CASE StopRun
  BY <1>1, StopTimes
<1>2. CASE Receive
  <2>1. PICK p, e :
          /\ p \in {"cal", "bif", "tel"} /\ e \in EventsOf(p)
          /\ accept /\ made' = [made EXCEPT ![p] = Append(@, e)] /\ ReceiveEvent(p, e)
          /\ p # "tel" => Timed(e)
    BY <1>2, ReceivedTimed DEF ProperTimes
  <2> QED  BY <2>1, ReceiveCal, ReceiveBif, ReceiveTel
<1>3. CASE LoopEnds
  <2>1. at' = "idle" /\ UNCHANGED <<config, accept, qCal, qBif, qTel, results, offset, offsetDone,
                                    run, made, flooded>>
    BY <1>3 DEF LoopEnds
  <2> QED  BY <2>1 DEF TimesInv, TsTyped, OffsetRight, TrueOffset, QueuesInOrder, InOrder, CalTime,
                        LastBifKnown, LastCalKnown, InBifTime, config, results, Parameters, TimesFit,
                        LastSpan, ProperRun, Timed
<1>4. CASE MergeTs
  <2>1. TakeQuietly /\ written' \in Seq(TsMerged) /\ qTel' = qTel /\ lastTel' = lastTel
    BY <1>4, MergeTsWrites DEF Writes
  <2> QED  BY <1>4, <2>1, TakesTimes DEF MergeTs, TimesInv, TsTyped
<1>5. CASE MergeUntriggered
  BY <1>5, TakesTimes DEF MergeUntriggered, TakeQuietly, TimesInv, TsTyped
<1>6. CASE MergeTel
  <2>1. /\ TakeQuietly /\ written' \in Seq(TsMerged)
        /\ qTel' = FromTel(SubCal.trig).rest /\ lastTel' = FromTel(SubCal.trig).last
    BY <1>6, MergeTelWrites DEF Writes
  <2>2. qTel' \in Seq(TelEvents) /\ lastTel' \in TelEvents \cup {None}
    BY <1>6, <2>1, FromTelTyped DEF MergeTel, TimesInv, TsTyped, Parameters
  <2> QED  BY <1>6, <2>1, <2>2, TakesTimes DEF MergeTel
<1>7. CASE UNCHANGED tsVars
  BY <1>7 DEF tsVars, TimesInv, TsTyped, OffsetRight, TrueOffset, QueuesInOrder, InOrder, CalTime,
              LastBifKnown, LastCalKnown, InBifTime, config, results, Parameters, TimesFit, LastSpan,
              ProperRun, Timed
<1> QED  BY <1>1, <1>2, <1>3, <1>4, <1>5, <1>6, <1>7 DEF TsNext

LEMMA ProperStep ==
  ASSUME ProperTimes, [TsNext]_tsVars
  PROVE  ProperTimes'
BY SettingsStep, TimesStep DEF ProperTimes

(* One event written keeps what holds of every written event. *)
LEMMA OverlapWritten ==
  ASSUME TimesInv, SubeventsOverlap, at = "loop", Loops, TakeQuietly,
         NEW tel, Writes(Event(SubBif, SubCal, tel))
  PROVE  SubeventsOverlap'
<1>1. \A c, b : Overlap(c, b)' <=> Overlap(c, b)
  BY DEF TakeQuietly, config, Overlap, TrueBeg, TrueEnd
<1> SUFFICES ASSUME NEW i \in 1 .. Len(written'), written'[i].cal # None, written'[i].bif # None
             PROVE  /\ Overlap(written'[i].cal, written'[i].bif) /\ written'[i].cal.run = written'[i].bif.run
  <2>1. DOMAIN written' = 1 .. Len(written')
    BY LenProperties DEF Writes
  <2> QED  BY <1>1, <2>1 DEF SubeventsOverlap, Overlap, TrueBeg, TrueEnd
<1>2. CASE i \in 1 .. Len(written)
  <2>1. DOMAIN written = 1 .. Len(written)
    BY LenProperties DEF TimesInv, TsTyped
  <2>2. written'[i] = written[i]
    BY <1>2 DEF Writes
  <2> QED  BY <1>2, <2>1, <2>2 DEF SubeventsOverlap, TimesInv
<1>3. CASE written'[i] = Event(SubBif, SubCal, tel)
  BY <1>3, Chosen DEF Event
<1> QED  BY <1>2, <1>3 DEF Writes

LEMMA OverlapStep ==
  ASSUME ProperTimes, SubeventsOverlap, [TsNext]_tsVars
  PROVE  SubeventsOverlap'
<1> SUFFICES ASSUME ProperRun'
             PROVE  SubeventsOverlap'
  BY DEF SubeventsOverlap
<1>1. CASE StartRun
  BY <1>1 DEF StartRun, SubeventsOverlap
<1> SUFFICES ASSUME TimesInv, ProperRun, ~StartRun
             PROVE  SubeventsOverlap'
  BY <1>1, TimesStep DEF TimesInv
<1>2. CASE MergeTs
  BY <1>2, MergeTsWrites, OverlapWritten DEF MergeTs
<1>3. CASE MergeTel
  BY <1>3, MergeTelWrites, OverlapWritten DEF MergeTel
<1>4. CASE StopRun \/ LoopEnds \/ MergeUntriggered \/ UNCHANGED tsVars
  <2>1. written' = written /\ start' = start
    BY <1>4 DEF StopRun, LoopEnds, MergeUntriggered, tsVars, config, results
  <2> QED  BY <2>1 DEF SubeventsOverlap, Overlap, TrueBeg, TrueEnd
<1>5. CASE Receive
  <2>1. PICK p, e : ReceiveEvent(p, e)
    BY <1>5, ReceivedTimed DEF ProperTimes
  <2>2. written' = written /\ start' = start
    BY <2>1 DEF ReceiveEvent, config, results
  <2> QED  BY <2>2 DEF SubeventsOverlap, Overlap, TrueBeg, TrueEnd
<1> QED  BY <1>2, <1>3, <1>4, <1>5 DEF TsNext

(* In a run whose events have times, what is written together overlaps. *)
THEOREM MergedTogetherOverlap ==
  TsSpec => []SubeventsOverlap
<1>1. TsInit => ProperTimes /\ SubeventsOverlap
  BY TimesInit, TsAssumption
<1>2. ProperTimes /\ SubeventsOverlap /\ [TsNext]_tsVars => (ProperTimes /\ SubeventsOverlap)'
  BY ProperStep, OverlapStep
<1> QED  BY <1>1, <1>2, PTL DEF TsSpec
-----------------------------------------------------------------------------
(* An event taken found a partner, or nothing of the other producer, taken,
   queued or still to be made, overlaps it. *)
EndsTaken ==
  accept => \A x \in taken : /\ x[1] = "bif" => x[2].end <= endBif
                             /\ x[1] = "cal" => InBifTime(x[2].end) <= endCal

CalPartner(c) == \E i \in 1 .. Len(written) : written[i].cal = c /\ written[i].bif # None
BifPartner(b) == \E i \in 1 .. Len(written) : written[i].bif = b /\ written[i].cal # None

CalAlone(c) ==
  /\ \A y \in taken : y[1] = "bif" => ~Overlap(c, y[2])
  /\ \A i \in 1 .. Len(qBif) : InBifTime(c.end) <= qBif[i].beg
  /\ InBifTime(c.end) <= LastSpan(made.bif)[1]

BifAlone(b) ==
  /\ \A x \in taken : x[1] = "cal" => ~Overlap(x[2], b)
  /\ \A i \in 1 .. Len(qCal) : b.end <= InBifTime(qCal[i].beg)
  /\ b.end <= InBifTime(LastSpan(made.cal)[1])

CalSeen == \A x \in taken : x[1] = "cal" => CalPartner(x[2]) \/ CalAlone(x[2])
BifSeen == \A y \in taken : y[1] = "bif" => BifPartner(y[2]) \/ BifAlone(y[2])

SeenInv == EndsTaken /\ CalSeen /\ BifSeen

LEMMA SeenMeans ==
  ASSUME TimesInv, SeenInv
  PROVE  OverlapSeen
<1>1. DOMAIN written = 1 .. Len(written)
  BY LenProperties DEF TimesInv, TsTyped
<1>2. ASSUME NEW x \in taken, NEW y \in taken, x[1] = "cal", y[1] = "bif", Overlap(x[2], y[2])
      PROVE  CalPartner(x[2]) /\ BifPartner(y[2])
  BY <1>2 DEF SeenInv, CalSeen, BifSeen, CalAlone, BifAlone
<1> QED  BY <1>1, <1>2 DEF OverlapSeen, CalPartner, BifPartner

LEMMA OverlapInBifTime ==
  \A c, b : Overlap(c, b) <=> InBifTime(c.beg) < b.end /\ b.beg < InBifTime(c.end)
BY DEF Overlap, TrueBeg, TrueEnd, InBifTime

(* What an iteration writes. *)
WritesPair ==
  /\ \A i \in 1 .. Len(written) : i \in 1 .. Len(written') /\ written'[i] = written[i]
  /\ SubCal # None /\ SubBif # None
     => \E i \in 1 .. Len(written') : written'[i].cal = SubCal /\ written'[i].bif = SubBif

LEMMA TakenEnds ==
  ASSUME TimesInv, SeenInv, at = "loop", Loops, TakeQuietly
  PROVE  EndsTaken'
<1>1. /\ CalEnd \in Nat /\ CalEnd = InBifTime(FrontCal.end) /\ FrontBif.end \in Nat
      /\ FrontBif = qBif[1] /\ FrontCal = qCal[1]
      /\ 1 \in 1 .. Len(qBif) /\ 1 \in 1 .. Len(qCal)
  BY Fronts
<1>2. /\ endBif \in Nat /\ endCal \in Nat /\ accept /\ start[1] \in Nat
      /\ taken \subseteq {"cal", "bif"} \X SpanEvents
  BY BifTimeOrder DEF TimesInv, TsTyped, OffsetRight
<1>3. endBif <= FrontBif.end
  <2>1. CASE endBif > 0
    <3>1. endBif < FrontBif.end
      BY <1>1, <2>1 DEF TimesInv, LastBifKnown
    <3> QED  BY <1>1, <1>2, <3>1
  <2>2. CASE endBif = 0
    BY <1>1, <2>2
  <2> QED  BY <1>2, <2>1, <2>2
<1>4. endCal <= CalEnd
  <2>1. CASE endCal > 0
    <3>1. endCal < CalEnd
      BY <1>1, <2>1 DEF TimesInv, LastCalKnown
    <3> QED  BY <1>1, <1>2, <3>1
  <2>2. CASE endCal = 0
    BY <1>1, <2>2
  <2> QED  BY <1>2, <2>1, <2>2
<1>5. \A t : InBifTime(t)' = InBifTime(t)
  BY DEF TakeQuietly, config, InBifTime
<1>6. /\ endBif' = IF TakesBif THEN FrontBif.end ELSE endBif
      /\ endCal' = IF TakesCal THEN CalEnd ELSE endCal
      /\ taken' = taken \cup (IF TakesBif THEN {<<"bif", FrontBif>>} ELSE {})
                        \cup (IF TakesCal THEN {<<"cal", FrontCal>>} ELSE {})
  BY DEF TakeQuietly, TakeFronts
<1>7. ASSUME NEW x \in taken', x[1] = "bif"
      PROVE  x[2].end <= endBif'
  <2>1. CASE x \in taken
    <3>1. x[2].end <= endBif /\ x[2].end \in Nat
      BY <1>2, <1>7, <2>1 DEF SeenInv, EndsTaken, SpanEvents
    <3> QED  BY <1>1, <1>2, <1>3, <1>6, <3>1
  <2>2. CASE x \notin taken
    <3>1. TakesBif /\ x = <<"bif", FrontBif>>
      BY <1>6, <1>7, <2>2
    <3> QED  BY <1>1, <1>6, <3>1
  <2> QED  BY <2>1, <2>2
<1>8. ASSUME NEW x \in taken', x[1] = "cal"
      PROVE  InBifTime(x[2].end) <= endCal'
  <2>1. CASE x \in taken
    <3>1. InBifTime(x[2].end) <= endCal
      BY <1>2, <1>8, <2>1 DEF SeenInv, EndsTaken
    <3>2. InBifTime(x[2].end) \in Int
      <4>1. x[2].end \in Int
        BY <1>2, <2>1 DEF SpanEvents
      <4> QED  BY <4>1, BifTimeOrder DEF TimesInv, TsTyped
    <3> QED  BY <1>1, <1>2, <1>4, <1>6, <3>1, <3>2
  <2>2. CASE x \notin taken
    <3>1. TakesCal /\ x = <<"cal", FrontCal>>
      BY <1>6, <1>8, <2>2
    <3> QED  BY <1>1, <1>6, <3>1
  <2> QED  BY <2>1, <2>2
<1> QED  BY <1>5, <1>7, <1>8 DEF EndsTaken

LEMMA TakenCalSeen ==
  ASSUME TimesInv, SeenInv, at = "loop", Loops, TakeQuietly, WritesPair
  PROVE  CalSeen'
<1>1. /\ CalBeg \in Nat /\ CalEnd \in Nat /\ FrontCal \in SpanEvents
      /\ CalEnd = InBifTime(FrontCal.end) /\ CalBeg = InBifTime(FrontCal.beg)
      /\ FrontBif.end \in Nat /\ FrontBif.beg \in Nat
      /\ FrontBif = qBif[1] /\ 1 \in 1 .. Len(qBif)
  BY Fronts
<1>2. /\ endBif \in Nat /\ accept
      /\ taken \subseteq {"cal", "bif"} \X SpanEvents
      /\ qBif \in Seq(SpanEvents) /\ qBif' \in Seq(SpanEvents) /\ Remains(qBif', qBif)
  BY TakenTyped DEF TimesInv, TsTyped, OffsetRight
<1>3. /\ \A t : InBifTime(t)' = InBifTime(t)
      /\ \A c, b : Overlap(c, b)' <=> Overlap(c, b)
      /\ made' = made
  BY DEF TakeQuietly, config, InBifTime, Overlap, TrueBeg, TrueEnd
<1>4. taken' = taken \cup (IF TakesBif THEN {<<"bif", FrontBif>>} ELSE {})
                     \cup (IF TakesCal THEN {<<"cal", FrontCal>>} ELSE {})
  BY DEF TakeQuietly, TakeFronts
<1>5. ASSUME NEW x \in taken, x[1] = "cal"
      PROVE  CalPartner(x[2])' \/ CalAlone(x[2])'
  <2>1. CASE CalPartner(x[2])
    BY <2>1 DEF CalPartner, WritesPair
  <2>2. CASE CalAlone(x[2])
    <3>1. ASSUME NEW y \in taken', y[1] = "bif"
          PROVE  ~Overlap(x[2], y[2])
      <4>1. CASE y \in taken
        BY <2>2, <3>1, <4>1 DEF CalAlone
      <4>2. CASE y \notin taken
        <5>1. y = <<"bif", FrontBif>>
          BY <1>4, <3>1, <4>2
        <5>2. InBifTime(x[2].end) <= FrontBif.beg
          BY <1>1, <2>2 DEF CalAlone
        <5>3. InBifTime(x[2].end) \in Int
          <6>1. x[2].end \in Int
            BY <1>2 DEF SpanEvents
          <6> QED  BY <6>1, BifTimeOrder DEF TimesInv, TsTyped
        <5> QED  BY <1>1, <5>1, <5>2, <5>3, OverlapInBifTime
      <4> QED  BY <4>1, <4>2
    <3>2. ASSUME NEW i \in 1 .. Len(qBif')
          PROVE  InBifTime(x[2].end) <= qBif'[i].beg
      <4>1. PICK k \in 1 .. Len(qBif) : qBif'[i] = qBif[k]
        BY <1>2, RemainElements
      <4> QED  BY <2>2, <4>1 DEF CalAlone
    <3>3. InBifTime(x[2].end) <= LastSpan(made.bif)[1]
      BY <2>2 DEF CalAlone
    <3> QED  BY <1>3, <3>1, <3>2, <3>3 DEF CalAlone, LastSpan
  <2> QED  BY <1>5, <2>1, <2>2 DEF SeenInv, CalSeen
<1>6. ASSUME TakesCal, NEW c, c = FrontCal
      PROVE  CalPartner(c)' \/ CalAlone(c)'
  <2>1. SubCal = c /\ c # None
    BY <1>1, <1>6, Chosen DEF TimesInv, TsTyped, Parameters
  <2>2. CASE SubBif # None
    BY <2>1, <2>2 DEF WritesPair, CalPartner
  <2>3. CASE SubBif = None
    <3>1. ~TakesBif /\ endBif <= CalBeg /\ CalEnd <= FrontBif.beg
      BY <1>1, <1>2, <2>3, Chosen, Taken
    <3>2. ASSUME NEW y \in taken', y[1] = "bif"
          PROVE  ~Overlap(c, y[2])
      <4>1. y \in taken
        BY <1>4, <3>1, <3>2
      <4>2. y[2].end <= endBif /\ y[2].end \in Nat
        BY <1>2, <3>2, <4>1 DEF SeenInv, EndsTaken, SpanEvents
      <4>3. ~(CalBeg < y[2].end)
        BY <1>1, <1>2, <3>1, <4>2
      <4> QED  BY <1>1, <1>6, <4>3, OverlapInBifTime
    <3>3. ASSUME NEW k \in 1 .. Len(qBif)
          PROVE  CalEnd <= qBif[k].beg
      <4>1. CASE k = 1
        BY <1>1, <3>1, <4>1
      <4>2. CASE k # 1
        <5>1. qBif[1].beg < qBif[k].beg
          BY <1>1, <4>2 DEF TimesInv, QueuesInOrder, InOrder
        <5>2. qBif[k].beg \in Nat
          <6>1. qBif[k] \in SpanEvents
            BY <1>2, ElementOfSeq
          <6> QED  BY <6>1 DEF SpanEvents
        <5> QED  BY <1>1, <3>1, <5>1, <5>2
      <4> QED  BY <4>1, <4>2
    <3>4. ASSUME NEW i \in 1 .. Len(qBif')
          PROVE  CalEnd <= qBif'[i].beg
      <4>1. PICK k \in 1 .. Len(qBif) : qBif'[i] = qBif[k]
        BY <1>2, RemainElements
      <4> QED  BY <3>3, <4>1
    <3>5. CalEnd <= LastSpan(made.bif)[1]
      <4>1. qBif[1].beg <= LastSpan(made.bif)[1]
        BY <1>1 DEF TimesInv, QueuesInOrder, InOrder
      <4>2. LastSpan(made.bif)[1] \in Int
        BY LastSpanTyped DEF TimesInv, TsTyped
      <4> QED  BY <1>1, <3>1, <4>1, <4>2
    <3>6. InBifTime(c.end) = CalEnd
      BY <1>1, <1>6
    <3> QED  BY <1>3, <3>2, <3>4, <3>5, <3>6 DEF CalAlone, LastSpan
  <2> QED  BY <2>2, <2>3
<1>7. ASSUME NEW x \in taken', x[1] = "cal"
      PROVE  CalPartner(x[2])' \/ CalAlone(x[2])'
  <2>1. x \in taken \/ (TakesCal /\ x[2] = FrontCal)
    BY <1>4, <1>7
  <2> QED  BY <1>5, <1>6, <1>7, <2>1
<1> QED  BY <1>7 DEF CalSeen

LEMMA TakenBifSeen ==
  ASSUME TimesInv, SeenInv, at = "loop", Loops, TakeQuietly, WritesPair
  PROVE  BifSeen'
<1>1. /\ CalBeg \in Nat /\ CalEnd \in Nat /\ FrontBif \in SpanEvents
      /\ CalEnd = InBifTime(FrontCal.end) /\ CalBeg = InBifTime(FrontCal.beg)
      /\ FrontBif.end \in Nat /\ FrontBif.beg \in Nat
      /\ FrontBif = qBif[1] /\ 1 \in 1 .. Len(qBif)
      /\ FrontCal = qCal[1] /\ 1 \in 1 .. Len(qCal)
  BY Fronts
<1>2. /\ endCal \in Nat /\ accept
      /\ taken \subseteq {"cal", "bif"} \X SpanEvents
      /\ qCal \in Seq(SpanEvents) /\ qCal' \in Seq(SpanEvents) /\ Remains(qCal', qCal)
  BY TakenTyped DEF TimesInv, TsTyped, OffsetRight
<1>3. /\ \A t : InBifTime(t)' = InBifTime(t)
      /\ \A c, b : Overlap(c, b)' <=> Overlap(c, b)
      /\ made' = made
  BY DEF TakeQuietly, config, InBifTime, Overlap, TrueBeg, TrueEnd
<1>4. taken' = taken \cup (IF TakesBif THEN {<<"bif", FrontBif>>} ELSE {})
                     \cup (IF TakesCal THEN {<<"cal", FrontCal>>} ELSE {})
  BY DEF TakeQuietly, TakeFronts
<1>5. ASSUME NEW y \in taken, y[1] = "bif"
      PROVE  BifPartner(y[2])' \/ BifAlone(y[2])'
  <2>1. CASE BifPartner(y[2])
    BY <2>1 DEF BifPartner, WritesPair
  <2>2. CASE BifAlone(y[2])
    <3>1. ASSUME NEW x \in taken', x[1] = "cal"
          PROVE  ~Overlap(x[2], y[2])
      <4>1. CASE x \in taken
        BY <2>2, <3>1, <4>1 DEF BifAlone
      <4>2. CASE x \notin taken
        <5>1. x = <<"cal", FrontCal>>
          BY <1>4, <3>1, <4>2
        <5>2. y[2].end <= CalBeg
          BY <1>1, <2>2 DEF BifAlone
        <5>3. y[2].end \in Int
          BY <1>2 DEF SpanEvents
        <5>4. ~(CalBeg < y[2].end)
          BY <1>1, <5>2, <5>3
        <5> QED  BY <1>1, <5>1, <5>4, OverlapInBifTime
      <4> QED  BY <4>1, <4>2
    <3>2. ASSUME NEW i \in 1 .. Len(qCal')
          PROVE  y[2].end <= InBifTime(qCal'[i].beg)
      <4>1. PICK k \in 1 .. Len(qCal) : qCal'[i] = qCal[k]
        BY <1>2, RemainElements
      <4> QED  BY <2>2, <4>1 DEF BifAlone
    <3>3. y[2].end <= InBifTime(LastSpan(made.cal)[1])
      BY <2>2 DEF BifAlone
    <3> QED  BY <1>3, <3>1, <3>2, <3>3 DEF BifAlone, LastSpan
  <2> QED  BY <1>5, <2>1, <2>2 DEF SeenInv, BifSeen
<1>6. ASSUME TakesBif, NEW b, b = FrontBif
      PROVE  BifPartner(b)' \/ BifAlone(b)'
  <2>1. SubBif = b /\ b # None
    BY <1>1, <1>6, Chosen DEF TimesInv, TsTyped, Parameters
  <2>2. CASE SubCal # None
    BY <2>1, <2>2 DEF WritesPair, BifPartner
  <2>3. CASE SubCal = None
    <3>1. ~TakesCal /\ endCal <= FrontBif.beg /\ FrontBif.end <= CalBeg
      BY <1>1, <1>2, <2>3, Chosen, Taken
    <3>2. ASSUME NEW x \in taken', x[1] = "cal"
          PROVE  ~Overlap(x[2], b)
      <4>1. x \in taken
        BY <1>4, <3>1, <3>2
      <4>2. InBifTime(x[2].end) <= endCal
        BY <1>2, <3>2, <4>1 DEF SeenInv, EndsTaken
      <4>3. InBifTime(x[2].end) \in Int
        <5>1. x[2].end \in Int
          BY <1>2, <4>1 DEF SpanEvents
        <5> QED  BY <5>1, BifTimeOrder DEF TimesInv, TsTyped
      <4>4. ~(FrontBif.beg < InBifTime(x[2].end))
        BY <1>1, <1>2, <3>1, <4>2, <4>3
      <4> QED  BY <1>6, <4>4, OverlapInBifTime
    <3>3. ASSUME NEW k \in 1 .. Len(qCal)
          PROVE  FrontBif.end <= InBifTime(qCal[k].beg)
      <4>1. CASE k = 1
        BY <1>1, <3>1, <4>1
      <4>2. CASE k # 1
        <5>1. qCal[1].beg < qCal[k].beg
          BY <1>1, <4>2 DEF TimesInv, QueuesInOrder, InOrder
        <5>2. qCal[k] \in SpanEvents /\ qCal[1] \in SpanEvents
          BY <1>1, <1>2, ElementOfSeq
        <5>3. PICK s \in Int : s = qCal[1].beg
          BY <5>2 DEF SpanEvents
        <5>4. PICK t \in Int : t = qCal[k].beg
          BY <5>2 DEF SpanEvents
        <5>5. InBifTime(s) < InBifTime(t) /\ InBifTime(s) \in Int /\ InBifTime(t) \in Int
          BY <5>1, <5>3, <5>4, BifTimeOrder DEF TimesInv, TsTyped
        <5> QED  BY <1>1, <3>1, <5>3, <5>4, <5>5
      <4> QED  BY <4>1, <4>2
    <3>4. ASSUME NEW i \in 1 .. Len(qCal')
          PROVE  FrontBif.end <= InBifTime(qCal'[i].beg)
      <4>1. PICK k \in 1 .. Len(qCal) : qCal'[i] = qCal[k]
        BY <1>2, RemainElements
      <4> QED  BY <3>3, <4>1
    <3>5. FrontBif.end <= InBifTime(LastSpan(made.cal)[1])
      <4>1. qCal[1].beg <= LastSpan(made.cal)[1]
        BY <1>1 DEF TimesInv, QueuesInOrder, InOrder
      <4>2. PICK t \in Int : t = LastSpan(made.cal)[1]
        BY LastSpanTyped DEF TimesInv, TsTyped
      <4>3. PICK s \in Int : s = qCal[1].beg
        <5>1. qCal[1] \in SpanEvents
          BY <1>1, <1>2, ElementOfSeq
        <5> QED  BY <5>1 DEF SpanEvents
      <4>4. InBifTime(s) <= InBifTime(t) /\ InBifTime(s) \in Int /\ InBifTime(t) \in Int
        BY <4>1, <4>2, <4>3, BifTimeOrder DEF TimesInv, TsTyped
      <4> QED  BY <1>1, <3>1, <4>2, <4>3, <4>4
    <3> QED  BY <1>3, <1>6, <3>2, <3>4, <3>5 DEF BifAlone, LastSpan
  <2> QED  BY <2>2, <2>3
<1>7. ASSUME NEW y \in taken', y[1] = "bif"
      PROVE  BifPartner(y[2])' \/ BifAlone(y[2])'
  <2>1. y \in taken \/ (TakesBif /\ y[2] = FrontBif)
    BY <1>4, <1>7
  <2> QED  BY <1>5, <1>6, <1>7, <2>1
<1> QED  BY <1>7 DEF BifSeen

(* A reception adds nothing that overlaps an event which stayed alone. *)
LEMMA ReceiveSeen ==
  ASSUME TimesInv, SeenInv, Receive, ProperRun'
  PROVE  SeenInv'
<1>1. Settings
  BY DEF TimesInv, TsTyped, Settings
<1>2. PICK p, e :
        /\ p \in {"cal", "bif", "tel"} /\ e \in EventsOf(p)
        /\ made' = [made EXCEPT ![p] = Append(@, e)] /\ ReceiveEvent(p, e)
        /\ p # "tel" => Timed(e)
  BY <1>1, ReceivedTimed
<1>3. /\ UNCHANGED <<start, accept, endCal, endBif, written, taken>>
      /\ \A t : InBifTime(t)' = InBifTime(t)
      /\ \A c, b : Overlap(c, b)' <=> Overlap(c, b)
  <2>1. UNCHANGED <<start, accept, endCal, endBif, written, taken>>
    BY <1>2 DEF ReceiveEvent, config, results
  <2> QED  BY <2>1 DEF InBifTime, Overlap, TrueBeg, TrueEnd
<1>4. /\ made.cal \in Seq(SpanEvents) /\ made.bif \in Seq(SpanEvents)
      /\ qCal \in Seq(SpanEvents) /\ qBif \in Seq(SpanEvents)
      /\ taken \subseteq {"cal", "bif"} \X SpanEvents
      /\ made \in [cal : Seq(SpanEvents), bif : Seq(SpanEvents), tel : Seq(TelEvents)]
  BY DEF TimesInv, TsTyped
<1>5. EndsTaken'
  BY <1>3 DEF SeenInv, EndsTaken
<1>6. CalSeen'
  <2> SUFFICES ASSUME NEW x \in taken, x[1] = "cal", CalAlone(x[2])
               PROVE  CalAlone(x[2])'
    BY <1>3 DEF SeenInv, CalSeen, CalPartner
  <2>1. \A y \in taken' : y[1] = "bif" => ~Overlap(x[2], y[2])'
    BY <1>3 DEF CalAlone
  <2>2. PICK s \in Int : s = InBifTime(x[2].end)
    <3>1. x[2].end \in Int
      BY <1>4 DEF SpanEvents
    <3> QED  BY <3>1, BifTimeOrder DEF TimesInv, TsTyped
  <2>3. CASE p = "bif"
    <3>1. e \in SpanEvents /\ LastSpan(made.bif)[1] < e.beg
      BY <1>2, <2>3, SpanEventMade
    <3>2. LastSpan(made.bif)[1] \in Int /\ e.beg \in Int
      BY <1>4, <3>1, LastSpanTyped DEF SpanEvents
    <3>3. s < e.beg
      BY <2>2, <3>1, <3>2 DEF CalAlone
    <3>4. made'.bif = Append(made.bif, e) /\ (qBif' = Append(qBif, e) \/ qBif' = <<>>)
      BY <1>2, <1>4, <2>3 DEF ReceiveEvent, Queued
    <3>5. /\ \A q \in Seq(SpanEvents) : \A i \in 1 .. Len(Append(q, e)) :
               Append(q, e)[i] = e \/ \E k \in 1 .. Len(q) : Append(q, e)[i] = q[k]
          /\ \A q \in Seq(SpanEvents) : Append(q, e) # <<>> /\ Append(q, e)[Len(Append(q, e))] = e
      BY <3>1, Appended
    <3>6. ASSUME NEW i \in 1 .. Len(qBif')
          PROVE  s <= qBif'[i].beg
      <4>1. CASE qBif' = <<>>
        BY <4>1
      <4>2. CASE qBif' = Append(qBif, e)
        <5>1. qBif'[i] = e \/ \E k \in 1 .. Len(qBif) : qBif'[i] = qBif[k]
          BY <1>4, <3>5, <4>2
        <5>2. CASE qBif'[i] = e
          BY <3>2, <3>3, <5>2
        <5>3. CASE \E k \in 1 .. Len(qBif) : qBif'[i] = qBif[k]
          BY <2>2, <5>3 DEF CalAlone
        <5> QED  BY <5>1, <5>2, <5>3
      <4> QED  BY <3>4, <4>1, <4>2
    <3>7. LastSpan(made'.bif) = <<e.beg, e.end>>
      BY <1>4, <3>4, <3>5 DEF LastSpan
    <3>8. s <= LastSpan(made'.bif)[1]
      BY <3>2, <3>3, <3>7
    <3> QED  BY <1>3, <2>1, <2>2, <3>6, <3>8 DEF CalAlone
  <2>4. CASE p # "bif"
    <3>1. qBif' = qBif /\ made'.bif = made.bif
      BY <1>2, <1>4, <2>4 DEF ReceiveEvent
    <3> QED  BY <1>3, <2>1, <3>1 DEF CalAlone
  <2> QED  BY <2>3, <2>4
<1>7. BifSeen'
  <2> SUFFICES ASSUME NEW y \in taken, y[1] = "bif", BifAlone(y[2])
               PROVE  BifAlone(y[2])'
    BY <1>3 DEF SeenInv, BifSeen, BifPartner
  <2>1. \A x \in taken' : x[1] = "cal" => ~Overlap(x[2], y[2])'
    BY <1>3 DEF BifAlone
  <2>2. PICK s \in Int : s = y[2].end
    BY <1>4 DEF SpanEvents
  <2>3. CASE p = "cal"
    <3> DEFINE x == Shifted("cal", e)
    <3>1. /\ e \in SpanEvents /\ LastSpan(made.cal)[1] < e.beg
          /\ x \in SpanEvents /\ x.beg = e.beg
      BY <1>2, <2>3, SpanEventMade
    <3>2. PICK a \in Int : a = LastSpan(made.cal)[1]
      BY <1>4, LastSpanTyped
    <3>3. PICK b \in Int : b = e.beg
      BY <3>1 DEF SpanEvents
    <3>4. s <= InBifTime(b) /\ InBifTime(b) \in Int
      <4>1. a < b
        BY <3>1, <3>2, <3>3
      <4>2. InBifTime(a) < InBifTime(b) /\ InBifTime(a) \in Int /\ InBifTime(b) \in Int
        BY <4>1, BifTimeOrder DEF TimesInv, TsTyped
      <4>3. s <= InBifTime(a)
        BY <2>2, <3>2 DEF BifAlone
      <4> QED  BY <4>2, <4>3
    <3>5. made'.cal = Append(made.cal, e) /\ (qCal' = Append(qCal, x) \/ qCal' = <<>>)
      BY <1>2, <1>4, <2>3 DEF ReceiveEvent, Queued
    <3> HIDE DEF x
    <3>6. /\ \A q \in Seq(SpanEvents), z \in SpanEvents : \A i \in 1 .. Len(Append(q, z)) :
               Append(q, z)[i] = z \/ \E k \in 1 .. Len(q) : Append(q, z)[i] = q[k]
          /\ \A q \in Seq(SpanEvents) : Append(q, e) # <<>> /\ Append(q, e)[Len(Append(q, e))] = e
      BY <3>1, Appended
    <3>7. ASSUME NEW i \in 1 .. Len(qCal')
          PROVE  s <= InBifTime(qCal'[i].beg)
      <4>1. CASE qCal' = <<>>
        BY <4>1
      <4>2. CASE qCal' = Append(qCal, x)
        <5>1. qCal'[i] = x \/ \E k \in 1 .. Len(qCal) : qCal'[i] = qCal[k]
          BY <1>4, <3>1, <3>6, <4>2
        <5>2. CASE qCal'[i] = x
          BY <3>1, <3>3, <3>4, <5>2
        <5>3. CASE \E k \in 1 .. Len(qCal) : qCal'[i] = qCal[k]
          BY <2>2, <5>3 DEF BifAlone
        <5> QED  BY <5>1, <5>2, <5>3
      <4> QED  BY <3>5, <4>1, <4>2
    <3>8. LastSpan(made'.cal) = <<e.beg, e.end>>
      BY <1>4, <3>5, <3>6 DEF LastSpan
    <3>9. s <= InBifTime(LastSpan(made'.cal)[1])
      BY <3>3, <3>4, <3>8
    <3> QED  BY <1>3, <2>1, <2>2, <3>7, <3>9 DEF BifAlone
  <2>4. CASE p # "cal"
    <3>1. qCal' = qCal /\ made'.cal = made.cal
      BY <1>2, <1>4, <2>4 DEF ReceiveEvent
    <3> QED  BY <1>3, <2>1, <3>1 DEF BifAlone
  <2> QED  BY <2>3, <2>4
<1> QED  BY <1>5, <1>6, <1>7 DEF SeenInv

LEMMA SeenStep ==
  ASSUME ProperTimes, ProperRun => SeenInv, [TsNext]_tsVars, ProperRun'
  PROVE  SeenInv'
<1>1. CASE StartRun
  BY <1>1 DEF StartRun, SeenInv, EndsTaken, CalSeen, BifSeen
<1> SUFFICES ASSUME TimesInv, SeenInv, ~StartRun
             PROVE  SeenInv'
  BY <1>1, TimesStep DEF TimesInv
<1>2. CASE StopRun
  <2>1. /\ ~accept' /\ written' = written /\ taken' = taken /\ qCal' = <<>> /\ qBif' = <<>>
        /\ made' = made /\ start' = start
    BY <1>2 DEF StopRun, Cleared, config
  <2> QED  BY <2>1 DEF SeenInv, EndsTaken, CalSeen, BifSeen, CalPartner, BifPartner, CalAlone,
                        BifAlone, Overlap, TrueBeg, TrueEnd, InBifTime, LastSpan
<1>3. CASE Receive
  BY <1>3, ReceiveSeen
<1>4. CASE MergeTs
  <2>1. at = "loop" /\ Loops /\ TakeQuietly /\ WritesPair
    BY <1>4, MergeTsWrites DEF MergeTs, Writes, Event, WritesPair
  <2> QED  BY <2>1, TakenEnds, TakenCalSeen, TakenBifSeen DEF SeenInv
<1>5. CASE MergeUntriggered
  <2>1. at = "loop" /\ Loops /\ TakeQuietly /\ WritesPair
    <3>1. at = "loop" /\ Loops /\ SubCal = None /\ written' = written
      BY <1>5 DEF MergeUntriggered
    <3>2. TakeQuietly
      BY <1>5 DEF MergeUntriggered, TakeQuietly
    <3>3. \A i \in 1 .. Len(written) : i \in 1 .. Len(written') /\ written'[i] = written[i]
      BY <3>1
    <3>4. WritesPair
      BY <3>1, <3>3 DEF WritesPair
    <3> QED  BY <3>1, <3>2, <3>4
  <2> QED  BY <2>1, TakenEnds, TakenCalSeen, TakenBifSeen DEF SeenInv
<1>6. CASE MergeTel
  <2>1. at = "loop" /\ Loops /\ TakeQuietly /\ WritesPair
    <3>1. at = "loop" /\ Loops
      BY <1>6 DEF MergeTel
    <3>2. TakeQuietly /\ \E tel : Writes(Event(SubBif, SubCal, tel))
      BY <1>6, MergeTelWrites
    <3>3. WritesPair
      BY <3>2 DEF Writes, Event, WritesPair
    <3> QED  BY <3>1, <3>2, <3>3
  <2> QED  BY <2>1, TakenEnds, TakenCalSeen, TakenBifSeen DEF SeenInv
<1>7. CASE LoopEnds \/ UNCHANGED tsVars
  <2>1. UNCHANGED <<start, accept, qCal, qBif, endCal, endBif, written, taken, made>>
    BY <1>7 DEF LoopEnds, tsVars, config, results
  <2> QED  BY <2>1 DEF SeenInv, EndsTaken, CalSeen, BifSeen, CalPartner, BifPartner, CalAlone,
                        BifAlone, Overlap, TrueBeg, TrueEnd, InBifTime, LastSpan
<1> QED  BY <1>1, <1>2, <1>3, <1>4, <1>5, <1>6, <1>7 DEF TsNext

THEOREM NoOverlapMissed ==
  TsSpec => []OverlapSeen
<1> DEFINE I == ProperTimes /\ (ProperRun => SeenInv)
<1>1. TsInit => I
  <2>1. TsInit => SeenInv
    BY DEF TsInit, SeenInv, EndsTaken, CalSeen, BifSeen
  <2> QED  BY <2>1, TimesInit, TsAssumption
<1>2. I /\ [TsNext]_tsVars => I'
  BY ProperStep, SeenStep
<1>3. I => OverlapSeen
  BY SeenMeans DEF ProperTimes, OverlapSeen
<1> HIDE DEF I
<1> QED  BY <1>1, <1>2, <1>3, PTL DEF TsSpec
-----------------------------------------------------------------------------
(* The trigger of the j-th telescope event in its queue, and of an AHCAL event
   whose number is t. *)
TelTrig(j) == j + (IF shift < 0 THEN -shift ELSE 0)
CalTrig(t) == t + (IF shift > 0 THEN shift ELSE 0)

CalTrigs ==
  /\ \A i, j \in 1 .. Len(qCal) : i < j => qCal[i].trig < qCal[j].trig
  /\ \A i \in 1 .. Len(qCal) : qCal[i].trig <= CalTrig(LastTrig(made.cal))
  /\ endCal > 0 => /\ lastCal.trig <= CalTrig(LastTrig(made.cal))
                   /\ \A i \in 1 .. Len(qCal) : lastCal.trig < qCal[i].trig

TelTrigs == \A j \in 1 .. Len(made.tel) : made.tel[j].trig = j

(* All but the first d telescope events are queued; the d-th is the last one
   taken, for a trigger that is not after the last AHCAL event. *)
TelQueued(d) ==
  /\ d <= Len(made.tel) /\ Len(qTel) = Len(made.tel) - d
  /\ \A i \in 1 .. Len(qTel) : qTel[i].trig = TelTrig(d + i)
  /\ d > 0 => /\ lastTel # None /\ lastTel.trig = TelTrig(d)
              /\ endCal > 0 /\ TelTrig(d) <= lastCal.trig

TelOrder == accept /\ ~flooded => \E d \in Nat : TelQueued(d)

(* A written AHCAL event without telescope has a trigger that the telescope
   has passed without it. *)
Joined(v) ==
  v.cal # None =>
    IF v.tel # None THEN v.tel.trig = v.cal.trig
    ELSE flooded \/ /\ v.cal.trig <= TelTrig(Len(made.tel))
                    /\ \A j \in 1 .. Len(made.tel) : TelTrig(j) # v.cal.trig

AllJoined == \A i \in 1 .. Len(written) : Joined(written[i])

TelInv == kind = "Tel" => CalTrigs /\ TelTrigs /\ TelOrder /\ AllJoined

LEMMA JoinedMeans ==
  ASSUME TimesInv, TelInv
  PROVE  TelescopeJoined
<1> SUFFICES ASSUME kind = "Tel", NEW i \in DOMAIN written, written[i].cal # None, written[i].tel = None, ~flooded,
                    NEW j \in DOMAIN made.tel
             PROVE  Shifted("tel", made.tel[j]).trig # written[i].cal.trig
  <2>1. DOMAIN written = 1 .. Len(written)
    BY LenProperties DEF TimesInv, TsTyped
  <2> QED  BY <2>1 DEF TelescopeJoined, TelInv, AllJoined, Joined
<1>1. /\ DOMAIN written = 1 .. Len(written) /\ DOMAIN made.tel = 1 .. Len(made.tel)
      /\ made.tel[j] \in TelEvents /\ shift \in Int
  BY LenProperties, ElementOfSeq DEF TimesInv, TsTyped
<1>2. made.tel[j].trig = j /\ j \in Int
  BY <1>1 DEF TelInv, TelTrigs
<1>3. Shifted("tel", made.tel[j]).trig = TelTrig(j)
  <2>1. CASE shift < 0
    <3>1. Shifted("tel", made.tel[j]) = [made.tel[j] EXCEPT !.trig = @ - shift]
      BY <1>1, <2>1 DEF Shifted
    <3> QED  BY <1>1, <1>2, <2>1, <3>1 DEF TelEvents, TelTrig
  <2>2. CASE ~(shift < 0)
    <3>1. Shifted("tel", made.tel[j]) = made.tel[j]
      BY <1>1, <2>2 DEF Shifted
    <3> QED  BY <1>1, <1>2, <2>2, <3>1 DEF TelTrig
  <2> QED  BY <2>1, <2>2
<1> QED  BY <1>1, <1>3 DEF TelInv, AllJoined, Joined

(* What the trigger T finds in the queue of the telescope, whose events L have
   the numbers after d; N have been made. *)
LEMMA FromTelTaken ==
  ASSUME NEW d \in Nat, NEW z \in Nat, NEW T \in Int, NEW N \in Nat, NEW L \in Nat,
         qTel \in Seq(TelEvents), Len(qTel) = L, L = N - d, L >= 1,
         \A i \in 1 .. L : qTel[i].trig = d + i + z,
         None \notin TelEvents,
         d > 0 => lastTel # None /\ lastTel.trig = d + z /\ d + z <= T,
         T <= N + z
  PROVE  LET t == FromTel(T)
         IN  /\ t.tel # None \/ \A j \in 1 .. N : j + z # T
             /\ \E k \in Nat :
                  /\ k <= N /\ Len(t.rest) = N - k
                  /\ \A i \in 1 .. Len(t.rest) : t.rest[i].trig = k + i + z
                  /\ k > 0 => t.last # None /\ t.last.trig = k + z /\ k + z <= T
<1> DEFINE passed == {i \in DOMAIN qTel : \A j \in 1 .. i : qTel[j].trig < T}
           others == DOMAIN qTel \ passed
           early == Selected(qTel, passed)
           rest  == Selected(qTel, others)
           lastOne == IF early = <<>> THEN lastTel ELSE early[Len(early)]
           joins == rest # <<>> /\ Head(rest).trig = T
           tel   == IF joins THEN Head(rest)
                    ELSE IF lastOne # None /\ lastOne.trig = T THEN lastOne ELSE None
           t == FromTel(T)
<1>1. t = [early |-> early, tel |-> tel,
           rest |-> IF joins THEN Tail(rest) ELSE rest,
           last |-> IF joins THEN Head(rest) ELSE lastOne]
  BY DEF FromTel
<1>2. DOMAIN qTel = 1 .. L /\ \A i \in 1 .. L : qTel[i] \in TelEvents
  BY LenProperties, ElementOfSeq
<1>3. PICK K \in Nat : /\ T > z + d => K = T - z - d - 1
                       /\ ~(T > z + d) => K = 0
  <2>1. CASE T > z + d
    <3>1. T - z - d - 1 \in Nat
      BY <2>1
    <3> QED  BY <2>1, <3>1
  <2>2. CASE ~(T > z + d)
    BY <2>2
  <2> QED  BY <2>1, <2>2
<1>4. K < L
  BY <1>3
<1>5. ASSUME NEW i \in 1 .. L
      PROVE  i \in passed <=> 0 < i /\ i <= K
  <2>1. i \in passed <=> \A j \in 1 .. i : d + j + z < T
    <3>1. \A j \in 1 .. i : j \in 1 .. L
      OBVIOUS
    <3>2. i \in passed <=> \A j \in 1 .. i : qTel[j].trig < T
      BY <1>2
    <3> HIDE DEF passed
    <3> QED  BY <3>1, <3>2
  <2>2. (\A j \in 1 .. i : d + j + z < T) <=> d + i + z < T
    OBVIOUS
  <2>3. d + i + z < T <=> i <= K
    BY <1>3
  <2>4. 0 < i
    OBVIOUS
  <2> HIDE DEF passed
  <2> QED  BY <2>1, <2>2, <2>3, <2>4
<1>6. \A i \in 1 .. L : i \in others <=> K < i /\ i <= L
  <2>1. \A i \in 1 .. L : i \in others <=> i \notin passed
    BY <1>2
  <2> HIDE DEF passed, others
  <2> QED  BY <1>5, <2>1
<1> HIDE DEF passed, others
<1>7. early = SubSeq(qTel, 0 + 1, K)
  <2>0. PICK a \in Nat : a = 0
    OBVIOUS
  <2>1. K <= Len(qTel) /\ a <= K
    BY <1>4, <2>0
  <2>2. \A i \in 1 .. Len(qTel) : i \in passed <=> a < i /\ i <= K
    BY <1>5, <2>0
  <2>3. Selected(qTel, passed) = SubSeq(qTel, a + 1, K)
    BY ONLY qTel \in Seq(TelEvents), K \in Nat, a \in Nat, <2>1, <2>2, SelectedRange
  <2> QED  BY <2>0, <2>3
<1>8. rest = SubSeq(qTel, K + 1, L)
  <2>1. L <= Len(qTel) /\ K <= L
    BY <1>4
  <2>2. \A i \in 1 .. Len(qTel) : i \in others <=> K < i /\ i <= L
    BY <1>6
  <2>3. Selected(qTel, others) = SubSeq(qTel, K + 1, L)
    BY ONLY qTel \in Seq(TelEvents), K \in Nat, L \in Nat, <2>1, <2>2, SelectedRange
  <2> QED  BY <2>3
<1> HIDE DEF early, rest
<1>9. Len(early) = K
  BY <1>4, <1>7
<1>10. /\ rest \in Seq(TelEvents) /\ Len(rest) = L - K
       /\ \A i \in 1 .. L - K : rest[i] = qTel[K + i]
  BY <1>4, <1>8
<1>11. \A i \in 1 .. L - K : rest[i].trig = d + K + i + z
  <2> TAKE i \in 1 .. L - K
  <2>1. K + i \in 1 .. L
    BY <1>4
  <2>2. qTel[K + i].trig = d + (K + i) + z
    BY <2>1
  <2>3. rest[i].trig = d + (K + i) + z
    BY <1>10, <2>2
  <2> QED  BY <2>3
<1>12. rest # <<>> /\ Head(rest).trig = d + K + 1 + z /\ Head(rest) # None
  <2>1. 1 \in 1 .. L - K /\ K + 1 \in 1 .. L
    BY <1>4
  <2>2. rest # <<>> /\ Head(rest) = rest[1]
    BY <1>10, <2>1
  <2>3. rest[1] = qTel[K + 1] /\ rest[1].trig = d + K + 1 + z
    BY <1>10, <1>11, <2>1
  <2> QED  BY <1>2, <2>1, <2>2, <2>3
<1>13. CASE T > z + d
  <2>1. d + K + 1 + z = T
    BY <1>3, <1>13
  <2>2. joins
    BY <1>12, <2>1
  <2>3. t.tel = Head(rest) /\ t.rest = Tail(rest) /\ t.last = Head(rest)
    BY <1>1, <2>2
  <2> HIDE DEF t, joins, tel, lastOne
  <2>4. Len(t.rest) = L - K - 1 /\ \A i \in 1 .. L - K - 1 : t.rest[i] = rest[i + 1]
    BY <1>4, <1>10, <1>12, <2>3, HeadTailProperties
  <2>5. \A i \in 1 .. L - K - 1 : t.rest[i].trig = (d + K + 1) + i + z
    <3> TAKE i \in 1 .. L - K - 1
    <3>1. i + 1 \in 1 .. L - K
      BY <1>4
    <3>2. rest[i + 1].trig = d + K + (i + 1) + z
      BY <1>11, <3>1
    <3>3. t.rest[i].trig = d + K + (i + 1) + z
      BY <2>4, <3>2
    <3> QED  BY <3>3
  <2>6. PICK k \in Nat : k = d + K + 1
    OBVIOUS
  <2>7. k <= N /\ Len(t.rest) = N - k /\ k + z = T /\ L - K - 1 = Len(t.rest)
    BY <1>4, <2>1, <2>4, <2>6
  <2>8. t.last # None /\ t.last.trig = k + z /\ t.tel # None
    BY <1>12, <2>3, <2>6
  <2>9. \A i \in 1 .. Len(t.rest) : t.rest[i].trig = k + i + z
    BY <2>5, <2>6, <2>7
  <2>10. \E x \in Nat : /\ x <= N /\ Len(t.rest) = N - x
                        /\ \A i \in 1 .. Len(t.rest) : t.rest[i].trig = x + i + z
                        /\ x > 0 => t.last # None /\ t.last.trig = x + z /\ x + z <= T
    BY <2>7, <2>8, <2>9
  <2> QED  BY <2>8, <2>10 DEF t
<1>14. CASE ~(T > z + d)
  <2>1. K = 0
    BY <1>3, <1>14
  <2>2. early = <<>>
    BY <1>7, <2>1
  <2>3. Head(rest).trig # T
    BY <1>12, <1>14, <2>1
  <2>4. /\ t.rest = rest /\ t.last = lastTel
        /\ t.tel = IF lastTel # None /\ lastTel.trig = T THEN lastTel ELSE None
    BY <1>1, <2>2, <2>3
  <2> HIDE DEF t, joins, tel, lastOne
  <2>5. Len(t.rest) = N - d /\ d <= N
    BY <1>10, <2>1, <2>4
  <2>6. \A i \in 1 .. Len(t.rest) : t.rest[i].trig = d + i + z
    <3> TAKE i \in 1 .. Len(t.rest)
    <3>1. i \in 1 .. L - K
      BY <2>1, <2>5
    <3>2. t.rest[i].trig = d + K + i + z
      BY <1>11, <2>4, <3>1
    <3> QED  BY <2>1, <3>2
  <2>7. t.tel # None \/ \A j \in 1 .. N : j + z # T
    <3>1. CASE d > 0
      <4>1. d + z <= T
        BY <3>1
      <4>2. T = d + z
        BY ONLY T \in Int, d \in Nat, z \in Nat, <1>14, <4>1
      <4> QED  BY <2>4, <3>1, <4>2
    <3>2. CASE d = 0
      BY <1>14, <3>2
    <3> QED  BY <3>1, <3>2
  <2>8. \E k \in Nat : /\ k <= N /\ Len(t.rest) = N - k
                       /\ \A i \in 1 .. Len(t.rest) : t.rest[i].trig = k + i + z
                       /\ k > 0 => t.last # None /\ t.last.trig = k + z /\ k + z <= T
    BY <2>4, <2>5, <2>6
  <2> QED  BY <2>7, <2>8 DEF t
<1> QED  BY <1>13, <1>14

(* The shift moves the trigger of a new event by the same number for all. *)
LEMMA ShiftedTrig ==
  ASSUME TimesInv, kind = "Tel"
  PROVE  /\ \A t \in Int : TelTrig(t) \in Int /\ CalTrig(t) \in Int
         /\ \A a, b \in Int : a < b => TelTrig(a) < TelTrig(b) /\ CalTrig(a) < CalTrig(b)
         /\ \A e \in SpanEvents : Shifted("cal", e).trig = CalTrig(e.trig)
         /\ \A e \in TelEvents : Shifted("tel", e).trig = TelTrig(e.trig)
<1>1. shift \in Int
  BY DEF TimesInv, TsTyped
<1>2. \A t \in Int : TelTrig(t) \in Int /\ CalTrig(t) \in Int
  BY <1>1 DEF TelTrig, CalTrig
<1>3. \A a, b \in Int : a < b => TelTrig(a) < TelTrig(b) /\ CalTrig(a) < CalTrig(b)
  BY <1>1 DEF TelTrig, CalTrig
<1>4. ASSUME NEW e \in SpanEvents
      PROVE  Shifted("cal", e).trig = CalTrig(e.trig)
  <2>1. CASE shift > 0
    <3>1. Shifted("cal", e) = [e EXCEPT !.trig = @ + shift]
      BY <1>1, <2>1 DEF Shifted
    <3> QED  BY <1>1, <2>1, <3>1 DEF SpanEvents, CalTrig
  <2>2. CASE ~(shift > 0)
    <3>1. Shifted("cal", e) = e
      BY <1>1, <2>2 DEF Shifted
    <3> QED  BY <1>1, <2>2, <3>1 DEF SpanEvents, CalTrig
  <2> QED  BY <2>1, <2>2
<1>5. ASSUME NEW e \in TelEvents
      PROVE  Shifted("tel", e).trig = TelTrig(e.trig)
  <2>1. CASE shift < 0
    <3>1. Shifted("tel", e) = [e EXCEPT !.trig = @ - shift]
      BY <1>1, <2>1 DEF Shifted
    <3> QED  BY <1>1, <2>1, <3>1 DEF TelEvents, TelTrig
  <2>2. CASE ~(shift < 0)
    <3>1. Shifted("tel", e) = e
      BY <1>1, <2>2 DEF Shifted
    <3> QED  BY <1>1, <2>2, <3>1 DEF TelEvents, TelTrig
  <2> QED  BY <2>1, <2>2
<1> QED  BY <1>2, <1>3, <1>4, <1>5

(* A sequence of rising triggers, whose last bounds them, after another is
   taken, and after a later one is appended. *)
LEMMA RisingTail ==
  ASSUME NEW q \in Seq(SpanEvents), q # <<>>,
         \A i, j \in 1 .. Len(q) : i < j => q[i].trig < q[j].trig
  PROVE  /\ \A i, j \in 1 .. Len(Tail(q)) : i < j => Tail(q)[i].trig < Tail(q)[j].trig
         /\ \A i \in 1 .. Len(Tail(q)) : Head(q).trig < Tail(q)[i].trig
         /\ \A i \in 1 .. Len(Tail(q)) : i + 1 \in 1 .. Len(q) /\ Tail(q)[i] = q[i + 1]
<1>1. Len(q) \in Nat /\ Len(q) >= 1 /\ Len(Tail(q)) = Len(q) - 1 /\ Head(q) = q[1]
  BY LenProperties, EmptySeq, HeadTailProperties
<1>2. \A i \in 1 .. Len(Tail(q)) : i + 1 \in 1 .. Len(q) /\ Tail(q)[i] = q[i + 1] /\ 1 < i + 1
  <2>1. \A i \in 1 .. Len(q) - 1 : Tail(q)[i] = q[i + 1]
    BY HeadTailProperties
  <2> QED  BY <1>1, <2>1
<1>3. ASSUME NEW i \in 1 .. Len(Tail(q)), NEW j \in 1 .. Len(Tail(q)), i < j
      PROVE  Tail(q)[i].trig < Tail(q)[j].trig
  <2>1. i + 1 < j + 1
    BY <1>3
  <2> QED  BY <1>2, <2>1
<1>4. ASSUME NEW i \in 1 .. Len(Tail(q))
      PROVE  Head(q).trig < Tail(q)[i].trig
  <2>1. 1 \in 1 .. Len(q)
    BY <1>1
  <2> QED  BY <1>1, <1>2, <2>1
<1> QED  BY <1>2, <1>3, <1>4

LEMMA RisingAppend ==
  ASSUME NEW q \in Seq(SpanEvents), NEW x \in SpanEvents,
         \A i, j \in 1 .. Len(q) : i < j => q[i].trig < q[j].trig,
         \A i \in 1 .. Len(q) : q[i].trig < x.trig
  PROVE  \A i, j \in 1 .. Len(Append(q, x)) :
           i < j => Append(q, x)[i].trig < Append(q, x)[j].trig
<1>1. /\ Len(q) \in Nat /\ Len(Append(q, x)) = Len(q) + 1
      /\ Append(q, x)[Len(q) + 1] = x
      /\ \A i \in 1 .. Len(q) : Append(q, x)[i] = q[i]
  BY Appended
<1> TAKE i, j \in 1 .. Len(Append(q, x))
<1> HAVE i < j
<1>2. i \in 1 .. Len(q) /\ (j \in 1 .. Len(q) \/ j = Len(q) + 1)
  BY <1>1
<1> QED  BY <1>1, <1>2

LEMMA TakenCalTrigs ==
  ASSUME TimesInv, kind = "Tel", CalTrigs, at = "loop", Loops, TakeQuietly
  PROVE  CalTrigs'
<1>1. /\ qCal \in Seq(SpanEvents) /\ qCal # <<>> /\ Head(qCal) = qCal[1]
      /\ 1 \in 1 .. Len(qCal)
  BY Fronts DEF Loops, FrontCal, TimesInv, TsTyped
<1>2. /\ shift' = shift /\ made' = made
      /\ \A t : CalTrig(t)' = CalTrig(t)
  BY DEF TakeQuietly, config, CalTrig
<1>3. PICK n : n = CalTrig(LastTrig(made.cal))
  OBVIOUS
<1>4. CalTrig(LastTrig(made.cal))' = n
  BY <1>2, <1>3 DEF LastTrig, CalTrig
<1>5. CASE TakesCal
  <2>1. lastCal' = Head(qCal) /\ qCal' = Tail(qCal)
    BY <1>5 DEF TakeQuietly, TakeFronts, FrontCal
  <2>2. /\ \A i, j \in 1 .. Len(qCal') : i < j => qCal'[i].trig < qCal'[j].trig
        /\ \A i \in 1 .. Len(qCal') : lastCal'.trig < qCal'[i].trig
        /\ \A i \in 1 .. Len(qCal') : \E k \in 1 .. Len(qCal) : qCal'[i] = qCal[k]
    BY <1>1, <2>1, RisingTail DEF CalTrigs
  <2>3. /\ lastCal'.trig <= n
        /\ \A i \in 1 .. Len(qCal') : qCal'[i].trig <= n
    BY <1>1, <1>3, <2>1, <2>2 DEF CalTrigs
  <2> QED  BY <1>4, <2>2, <2>3 DEF CalTrigs
<1>6. CASE ~TakesCal
  <2>1. lastCal' = lastCal /\ endCal' = endCal /\ qCal' = qCal
    BY <1>6 DEF TakeQuietly, TakeFronts
  <2> QED  BY <1>3, <1>4, <2>1 DEF CalTrigs
<1> QED  BY <1>5, <1>6

(* The trigger that is written is that of the AHCAL event in front or of the
   last one, and not after it in the queue of the telescope. *)
LEMMA TriggerReached ==
  ASSUME TimesInv, kind = "Tel", CalTrigs, at = "loop", Loops, TakeQuietly, SubCal # None
  PROVE  /\ SubCal \in SpanEvents /\ SubCal.trig \in Int /\ SubCal.trig <= FrontCal.trig
         /\ endCal > 0 => lastCal.trig <= SubCal.trig
         /\ lastCal' = SubCal /\ endCal' > 0
<1>1. /\ FrontCal = qCal[1] /\ FrontCal \in SpanEvents /\ 1 \in 1 .. Len(qCal)
      /\ CalEnd \in Nat /\ CalBeg \in Nat /\ CalBeg < CalEnd
  BY Fronts
<1>2. /\ SubCal \in SpanEvents
      /\ TakesCal => SubCal = FrontCal
      /\ ~TakesCal => SubCal = lastCal /\ endCal > 0
  BY Chosen
<1>3. endCal > 0 => lastCal.trig < FrontCal.trig
  BY <1>1 DEF CalTrigs
<1>4. endCal > 0 => lastCal \in SpanEvents
  BY DEF TimesInv, LastCalKnown
<1>5. /\ TakesCal => lastCal' = FrontCal /\ endCal' = CalEnd
      /\ ~TakesCal => lastCal' = lastCal /\ endCal' = endCal
  BY DEF TakeQuietly, TakeFronts
<1>6. SubCal.trig \in Int /\ FrontCal.trig \in Int /\ (endCal > 0 => lastCal.trig \in Int)
  BY <1>1, <1>2, <1>4 DEF SpanEvents
<1>7. CASE TakesCal
  BY <1>1, <1>2, <1>3, <1>5, <1>6, <1>7
<1>8. CASE ~TakesCal
  BY <1>2, <1>3, <1>5, <1>6, <1>8
<1> QED  BY <1>7, <1>8

(* It meets the telescope event of its number, or none has it. *)
LEMMA MergeTelOrder ==
  ASSUME TimesInv, TelInv, MergeTel, ~flooded
  PROVE  /\ SubCal.trig <= TelTrig(Len(made.tel))
         /\ FromTel(SubCal.trig).tel # None \/ \A j \in 1 .. Len(made.tel) : TelTrig(j) # SubCal.trig
         /\ TelOrder'
<1>1. at = "loop" /\ kind = "Tel" /\ Loops /\ accept
  BY DEF MergeTel, TimesInv, OffsetRight
<1>2. /\ TakeQuietly /\ SubCal # None
      /\ qTel' = FromTel(SubCal.trig).rest /\ lastTel' = FromTel(SubCal.trig).last
  BY MergeTelWrites
<1>3. CalTrigs /\ TelOrder
  BY <1>1 DEF TelInv
<1>4. PICK d \in Nat : TelQueued(d)
  BY <1>1, <1>3 DEF TelOrder
<1>5. PICK T \in Int : T = SubCal.trig
  BY <1>1, <1>2, <1>3, TriggerReached
<1>6. /\ T <= FrontCal.trig /\ FrontCal.trig \in Int
      /\ endCal > 0 => lastCal.trig <= T /\ lastCal.trig \in Int
      /\ lastCal'.trig = T /\ endCal' > 0
  <2>1. /\ T <= FrontCal.trig
        /\ endCal > 0 => lastCal.trig <= T
        /\ lastCal'.trig = T /\ endCal' > 0
    BY <1>1, <1>2, <1>3, <1>5, TriggerReached
  <2>2. FrontCal \in SpanEvents
    BY <1>1, Fronts
  <2>3. endCal > 0 => lastCal \in SpanEvents
    BY DEF TimesInv, LastCalKnown
  <2> QED  BY <2>1, <2>2, <2>3 DEF SpanEvents
<1>7. /\ qTel \in Seq(TelEvents) /\ made.tel \in Seq(TelEvents) /\ None \notin TelEvents
      /\ shift \in Int
  BY DEF TimesInv, TsTyped, Parameters
<1>8. PICK N \in Nat : N = Len(made.tel)
  BY <1>7, LenProperties
<1>9. PICK L \in Nat : L = Len(qTel)
  BY <1>7, LenProperties
<1>10. PICK z \in Nat : \A j \in Int : TelTrig(j) = j + z
  BY <1>7 DEF TelTrig
<1>11. L = N - d /\ d <= N
  BY <1>4, <1>8, <1>9 DEF TelQueued
<1>12. L >= 1
  BY <1>1, <1>7, <1>9, EmptySeq DEF Loops
<1>13. \A i \in 1 .. L : qTel[i].trig = d + i + z
  <2> TAKE i \in 1 .. L
  <2>1. qTel[i].trig = TelTrig(d + i)
    BY <1>4, <1>9 DEF TelQueued
  <2>2. d + i \in Int
    OBVIOUS
  <2>3. TelTrig(d + i) = d + i + z
    BY <1>10, <2>2
  <2> QED  BY <2>1, <2>3
<1>14. T <= N + z
  <2>1. qTel[L].trig >= FrontCal.trig
    BY <1>1, <1>9 DEF Loops
  <2>2. L \in 1 .. L
    BY <1>12
  <2>3. qTel[L].trig = d + L + z
    BY <1>13, <2>2
  <2> QED  BY <1>6, <1>11, <2>1, <2>3
<1>15. d > 0 => lastTel # None /\ lastTel.trig = d + z /\ d + z <= T
  <2> HAVE d > 0
  <2>1. lastTel # None /\ lastTel.trig = TelTrig(d) /\ endCal > 0 /\ TelTrig(d) <= lastCal.trig
    BY <1>4 DEF TelQueued
  <2>2. TelTrig(d) = d + z
    BY <1>10
  <2> QED  BY <1>6, <2>1, <2>2
<1>16. /\ FromTel(T).tel # None \/ \A j \in 1 .. N : j + z # T
       /\ \E k \in Nat :
            /\ k <= N /\ Len(FromTel(T).rest) = N - k
            /\ \A i \in 1 .. Len(FromTel(T).rest) : FromTel(T).rest[i].trig = k + i + z
            /\ k > 0 => FromTel(T).last # None /\ FromTel(T).last.trig = k + z /\ k + z <= T
  BY <1>7, <1>9, <1>11, <1>12, <1>13, <1>14, <1>15, FromTelTaken
<1>17. PICK k \in Nat :
         /\ k <= N /\ Len(qTel') = N - k
         /\ \A i \in 1 .. Len(qTel') : qTel'[i].trig = k + i + z
         /\ k > 0 => lastTel' # None /\ lastTel'.trig = k + z /\ k + z <= T
  BY <1>2, <1>5, <1>16
<1>18. TelQueued(k)'
  <2>1. Len(made.tel)' = N /\ \A j \in Int : TelTrig(j)' = j + z
    BY <1>2, <1>8, <1>10 DEF TakeQuietly, config, TelTrig
  <2>2. \A i \in 1 .. Len(qTel') : qTel'[i].trig = TelTrig(k + i)'
    <3> TAKE i \in 1 .. Len(qTel')
    <3>1. k + i \in Int
      BY <1>17
    <3>2. TelTrig(k + i)' = k + i + z
      BY <2>1, <3>1
    <3> QED  BY <1>17, <3>2
  <2>3. TelTrig(k)' = k + z
    BY <2>1
  <2> QED  BY <1>6, <1>17, <2>1, <2>2, <2>3 DEF TelQueued
<1>19. TelOrder'
  BY <1>18 DEF TelOrder
<1>20. SubCal.trig <= TelTrig(Len(made.tel))
  BY <1>5, <1>8, <1>10, <1>14
<1>21. FromTel(SubCal.trig).tel # None \/ \A j \in 1 .. Len(made.tel) : TelTrig(j) # SubCal.trig
  <2>1. \A j \in 1 .. N : TelTrig(j) = j + z
    BY <1>10
  <2> QED  BY <1>5, <1>8, <1>16, <2>1
<1> QED  BY <1>19, <1>20, <1>21

LEMMA MergeTelJoins ==
  ASSUME TimesInv, TelInv, MergeTel
  PROVE  TelInv'
<1>1. at = "loop" /\ kind = "Tel" /\ Loops
  BY DEF MergeTel
<1>2. CalTrigs /\ TelTrigs /\ AllJoined
  BY <1>1 DEF TelInv
<1>3. /\ TakeQuietly /\ SubCal # None
      /\ Writes(Event(SubBif, SubCal, FromTel(SubCal.trig).tel))
  BY MergeTelWrites
<1>4. shift' = shift /\ made' = made /\ flooded' = flooded /\ kind' = kind
  BY <1>3 DEF TakeQuietly, config
<1>5. CalTrigs'
  BY <1>1, <1>2, <1>3, TakenCalTrigs
<1>6. TelTrigs'
  BY <1>2, <1>4 DEF TelTrigs
<1>7. TelOrder'
  BY <1>4, MergeTelOrder DEF TelOrder
<1>8. \A v : Joined(v)' <=> Joined(v)
  BY <1>4 DEF Joined, TelTrig
<1>9. PICK ev : ev = Event(SubBif, SubCal, FromTel(SubCal.trig).tel)
  OBVIOUS
<1>10. Joined(ev)
  <2>1. ev.cal = SubCal /\ ev.tel = FromTel(SubCal.trig).tel
    BY <1>9 DEF Event
  <2>2. ev.tel # None => ev.tel.trig = ev.cal.trig
    BY <2>1, FromTelTyped DEF MergeTel, TimesInv, TsTyped, Parameters
  <2>3. flooded \/ /\ SubCal.trig <= TelTrig(Len(made.tel))
                   /\ ev.tel # None \/ \A j \in 1 .. Len(made.tel) : TelTrig(j) # SubCal.trig
    BY <2>1, MergeTelOrder
  <2> QED  BY <2>1, <2>2, <2>3 DEF Joined
<1>11. ASSUME NEW i \in 1 .. Len(written')
       PROVE  Joined(written[i])'
  <2>1. PICK w : w = written'[i]
    OBVIOUS
  <2>2. i \in 1 .. Len(written) \/ w = ev \/ w.cal = None
    BY <1>3, <1>9, <2>1 DEF Writes
  <2>3. CASE i \in 1 .. Len(written)
    <3>1. w = written[i]
      BY <1>3, <2>1, <2>3 DEF Writes
    <3>2. Joined(w)
      BY <1>2, <2>3, <3>1 DEF AllJoined
    <3>3. Joined(w)'
      BY <1>8, <3>2
    <3> QED  BY <2>1, <3>3 DEF Joined
  <2>4. CASE w = ev
    <3>1. Joined(w)'
      BY <1>8, <1>10, <2>4
    <3> QED  BY <2>1, <3>1 DEF Joined
  <2>5. CASE w.cal = None
    BY <2>1, <2>5 DEF Joined
  <2> QED  BY <2>2, <2>3, <2>4, <2>5
<1>12. AllJoined'
  BY <1>11 DEF AllJoined
<1> QED  BY <1>5, <1>6, <1>7, <1>12 DEF TelInv

LEMMA MergeUntriggeredJoins ==
  ASSUME TimesInv, TelInv, MergeUntriggered
  PROVE  TelInv'
<1>1. /\ at = "loop" /\ kind = "Tel" /\ Loops /\ SubCal = None
      /\ UNCHANGED <<shift, kind, accept, qTel, lastTel, written, made, flooded>>
  BY DEF MergeUntriggered, config
<1>2. TakeQuietly
  BY DEF MergeUntriggered, TakeQuietly
<1>3. CalTrigs /\ TelTrigs /\ TelOrder /\ AllJoined
  BY <1>1 DEF TelInv
<1>4. CalTrigs'
  BY <1>1, <1>2, <1>3, TakenCalTrigs
<1>5. ~TakesCal
  BY <1>1, Chosen
<1>6. lastCal' = lastCal /\ endCal' = endCal
  BY <1>2, <1>5 DEF TakeQuietly, TakeFronts
<1>7. TelTrigs' /\ TelOrder' /\ AllJoined'
  BY <1>1, <1>3, <1>6 DEF TelTrigs, TelOrder, TelQueued, TelTrig, AllJoined, Joined
<1> QED  BY <1>4, <1>7 DEF TelInv

(* A reception of AHCAL or BIF keeps the rest, and a queue that is cleared is
   known. *)
LEMMA ReceiveTelFrame ==
  ASSUME TimesInv, TelInv, kind = "Tel", made'.tel = made.tel, qTel' = qTel,
         UNCHANGED <<shift, accept, lastCal, lastTel, endCal, written>>, flooded => flooded'
  PROVE  TelTrigs' /\ TelOrder' /\ AllJoined'
<1>1. TelTrigs /\ TelOrder /\ AllJoined
  BY DEF TelInv
<1>2. TelTrigs'
  BY <1>1 DEF TelTrigs
<1>3. TelOrder'
  BY <1>1 DEF TelOrder, TelQueued, TelTrig
<1>4. AllJoined'
  BY <1>1 DEF AllJoined, Joined, TelTrig
<1> QED  BY <1>2, <1>3, <1>4

LEMMA ReceiveCalJoins ==
  ASSUME TimesInv, TelInv, kind = "Tel", NEW e \in EventsOf("cal"), Timed(e),
         made' = [made EXCEPT !["cal"] = Append(@, e)], ReceiveEvent("cal", e)
  PROVE  TelInv'
<1> DEFINE x == Shifted("cal", e)
<1>1. /\ UNCHANGED <<kind, shift, accept, lastCal, lastTel, endCal, written>>
      /\ qTel' = qTel /\ (flooded => flooded')
      /\ qCal' = Append(qCal, x) \/ qCal' = <<>>
  BY DEF ReceiveEvent, Queued, config, results
<1>2. e \in SpanEvents /\ LastTrig(made.cal) < e.trig /\ x \in SpanEvents
  BY SpanEventMade
<1>3. /\ made.cal \in Seq(SpanEvents) /\ qCal \in Seq(SpanEvents)
      /\ made'.tel = made.tel /\ made'.cal = Append(made.cal, e)
  BY DEF TimesInv, TsTyped
<1>4. TelTrigs' /\ TelOrder' /\ AllJoined'
  <2> HIDE DEF x
  <2>1. /\ made'.tel = made.tel /\ qTel' = qTel /\ (flooded => flooded')
        /\ UNCHANGED <<shift, accept, lastCal, lastTel, endCal, written>>
    BY <1>1, <1>3
  <2> QED  BY <2>1, ReceiveTelFrame
<1>5. PICK t \in Int : t = e.trig
  BY <1>2 DEF SpanEvents
<1>6. PICK l \in Int : l = LastTrig(made.cal)
  <2>1. CASE made.cal = <<>>
    BY <2>1 DEF LastTrig
  <2>2. CASE made.cal # <<>>
    <3>1. Len(made.cal) \in 1 .. Len(made.cal)
      BY <1>3, <2>2, LenProperties, EmptySeq
    <3>2. made.cal[Len(made.cal)] \in SpanEvents
      BY <1>3, <3>1, ElementOfSeq
    <3> QED  BY <2>2, <3>2 DEF LastTrig, SpanEvents
  <2> QED  BY <2>1, <2>2
<1>7. PICK n \in Int : n = CalTrig(l)
  BY ShiftedTrig
<1>8. PICK m \in Int : m = CalTrig(t) /\ m = x.trig
  BY <1>2, <1>5, ShiftedTrig
<1>9. n < m
  BY <1>2, <1>5, <1>6, <1>7, <1>8, ShiftedTrig
<1> HIDE DEF x
<1>10. CalTrig(LastTrig(made.cal))' = m
  <2>1. LastTrig(made'.cal) = t
    BY <1>2, <1>3, <1>5, Appended DEF LastTrig
  <2> QED  BY <1>1, <1>8, <2>1 DEF LastTrig, CalTrig
<1>11. /\ \A i, j \in 1 .. Len(qCal) : i < j => qCal[i].trig < qCal[j].trig
       /\ \A i \in 1 .. Len(qCal) : qCal[i].trig <= n /\ qCal[i].trig \in Int
       /\ endCal > 0 => /\ lastCal.trig <= n /\ lastCal.trig \in Int
                        /\ \A i \in 1 .. Len(qCal) : lastCal.trig < qCal[i].trig
  <2>1. endCal > 0 => lastCal \in SpanEvents
    BY DEF TimesInv, LastCalKnown
  <2>2. \A i \in 1 .. Len(qCal) : qCal[i] \in SpanEvents
    BY <1>3, ElementOfSeq
  <2>3. CalTrigs
    BY DEF TelInv
  <2> QED  BY <1>6, <1>7, <2>1, <2>2, <2>3 DEF CalTrigs, SpanEvents
<1>12. endCal' > 0 => lastCal'.trig <= m
  BY <1>1, <1>9, <1>11
<1>13. CASE qCal' = Append(qCal, x)
  <2>1. \A i \in 1 .. Len(qCal) : qCal[i].trig < x.trig
    BY <1>8, <1>9, <1>11
  <2>2. \A i, j \in 1 .. Len(qCal') : i < j => qCal'[i].trig < qCal'[j].trig
    BY <1>2, <1>3, <1>11, <1>13, <2>1, RisingAppend
  <2>3. ASSUME NEW i \in 1 .. Len(qCal')
        PROVE  qCal'[i].trig <= m /\ (endCal' > 0 => lastCal'.trig < qCal'[i].trig)
    <3>1. qCal'[i] = x \/ \E k \in 1 .. Len(qCal) : qCal'[i] = qCal[k]
      BY <1>2, <1>3, <1>13, Appended
    <3>2. CASE qCal'[i] = x
      BY <1>1, <1>8, <1>9, <1>11, <3>2
    <3>3. CASE \E k \in 1 .. Len(qCal) : qCal'[i] = qCal[k]
      BY <1>1, <1>9, <1>11, <3>3
    <3> QED  BY <3>1, <3>2, <3>3
  <2>4. CalTrigs'
    BY <1>10, <1>12, <2>2, <2>3 DEF CalTrigs
  <2> QED  BY <1>4, <2>4 DEF TelInv
<1>14. CASE qCal' = <<>>
  <2>1. CalTrigs'
    BY <1>10, <1>12, <1>14 DEF CalTrigs
  <2> QED  BY <1>4, <2>1 DEF TelInv
<1> QED  BY <1>1, <1>13, <1>14

LEMMA ReceiveBifJoins ==
  ASSUME TimesInv, TelInv, kind = "Tel", NEW e,
         made' = [made EXCEPT !["bif"] = Append(@, e)], ReceiveEvent("bif", e)
  PROVE  TelInv'
<1>1. /\ UNCHANGED <<kind, shift, accept, lastCal, lastTel, endCal, written, qTel, qCal>>
      /\ flooded => flooded'
  BY DEF ReceiveEvent, config, results
<1>2. made'.tel = made.tel /\ made'.cal = made.cal
  BY DEF TimesInv, TsTyped
<1>3. TelTrigs' /\ TelOrder' /\ AllJoined'
  BY <1>1, <1>2, ReceiveTelFrame
<1>4. CalTrigs'
  BY <1>1, <1>2 DEF TelInv, CalTrigs, CalTrig, LastTrig
<1> QED  BY <1>3, <1>4 DEF TelInv

LEMMA ReceiveTelJoins ==
  ASSUME TimesInv, TelInv, kind = "Tel", accept, NEW e \in EventsOf("tel"),
         made' = [made EXCEPT !["tel"] = Append(@, e)], ReceiveEvent("tel", e)
  PROVE  TelInv'
<1> DEFINE x == Shifted("tel", e)
<1>1. /\ UNCHANGED <<kind, shift, accept, lastCal, lastTel, endCal, written, qCal, qBif>>
      /\ qTel' = Queued(qTel, Limit, x)
      /\ flooded' = (flooded \/ Len(qCal) + Len(qBif) + Len(qTel')
                                < Len(qCal) + Len(qBif) + Len(qTel))
  BY DEF ReceiveEvent, config, results
<1>2. e \in TelEvents /\ e.trig = LastTrig(made.tel) + 1 /\ x \in TelEvents
  BY TelEventMade DEF TimesInv, TsTyped, Settings
<1>3. /\ made.tel \in Seq(TelEvents) /\ qTel \in Seq(TelEvents)
      /\ qCal \in Seq(SpanEvents) /\ qBif \in Seq(SpanEvents)
      /\ made'.cal = made.cal /\ made'.tel = Append(made.tel, e)
  BY DEF TimesInv, TsTyped
<1>4. PICK N \in Nat : N = Len(made.tel)
  BY <1>3, LenProperties
<1>5. e.trig = N + 1
  <2>1. CASE made.tel = <<>>
    BY <1>2, <1>4, <2>1 DEF LastTrig
  <2>2. CASE made.tel # <<>>
    <3>1. N \in 1 .. N
      BY <1>3, <1>4, <2>2, EmptySeq
    <3>2. LastTrig(made.tel) = N
      BY <1>4, <2>2, <3>1 DEF TelInv, TelTrigs, LastTrig
    <3> QED  BY <1>2, <3>2
  <2> QED  BY <2>1, <2>2
<1>6. /\ Len(made'.tel) = N + 1 /\ made'.tel[N + 1] = e
      /\ \A i \in 1 .. N : made'.tel[i] = made.tel[i]
  <2>1. /\ Len(Append(made.tel, e)) = Len(made.tel) + 1
        /\ Append(made.tel, e)[Len(Append(made.tel, e))] = e
        /\ \A i \in 1 .. Len(made.tel) : Append(made.tel, e)[i] = made.tel[i]
    BY <1>2, <1>3, Appended
  <2> QED  BY <1>3, <1>4, <2>1
<1>7. TelTrigs'
  <2>1. ASSUME NEW j \in 1 .. N + 1
        PROVE  made'.tel[j].trig = j
    <3>1. CASE j = N + 1
      BY <1>5, <1>6, <3>1
    <3>2. CASE j # N + 1
      <4>1. j \in 1 .. N
        BY <3>2
      <4> QED  BY <1>4, <1>6, <4>1 DEF TelInv, TelTrigs
    <3> QED  BY <3>1, <3>2
  <2> QED  BY <1>6, <2>1 DEF TelTrigs
<1>8. /\ \A t : TelTrig(t)' = TelTrig(t)
      /\ x.trig = TelTrig(N + 1)
      /\ TelTrig(N) \in Int /\ TelTrig(N + 1) \in Int /\ TelTrig(N) < TelTrig(N + 1)
  <2>1. \A t : TelTrig(t)' = TelTrig(t)
    BY <1>1 DEF TelTrig
  <2>2. x.trig = TelTrig(N + 1)
    BY <1>2, <1>5, ShiftedTrig
  <2>3. N < N + 1
    OBVIOUS
  <2>4. TelTrig(N) \in Int /\ TelTrig(N + 1) \in Int
    BY ShiftedTrig
  <2>5. TelTrig(N) < TelTrig(N + 1)
    BY <2>3, ShiftedTrig
  <2> QED  BY <2>1, <2>2, <2>4, <2>5
<1> HIDE DEF x
<1>9. CalTrigs'
  BY <1>1, <1>3 DEF TelInv, CalTrigs, CalTrig, LastTrig
<1>10. AllJoined'
  <2> SUFFICES ASSUME NEW i \in 1 .. Len(written)
               PROVE  Joined(written[i])'
    BY <1>1 DEF AllJoined
  <2>1. Joined(written[i])
    BY DEF TelInv, AllJoined
  <2>2. PICK v : v = written[i]
    OBVIOUS
  <2>3. written'[i] = v
    BY <1>1, <2>2
  <2>4. CASE v.cal = None \/ v.tel # None \/ flooded
    BY <1>1, <2>1, <2>2, <2>3, <2>4 DEF Joined
  <2>5. CASE v.cal # None /\ v.tel = None /\ ~flooded
    <3>1. v.cal.trig <= TelTrig(N) /\ \A j \in 1 .. N : TelTrig(j) # v.cal.trig
      BY <1>4, <2>1, <2>2, <2>5 DEF Joined
    <3>2. v.cal.trig \in Int
      <4>1. v \in TsMerged
        BY <2>2, ElementOfSeq DEF TimesInv, TsTyped
      <4> QED  BY <2>5, <4>1 DEF TsMerged, SpanEvents
    <3>3. v.cal.trig <= TelTrig(N + 1) /\ TelTrig(N + 1) # v.cal.trig
      BY <1>8, <3>1, <3>2
    <3>4. \A j \in 1 .. N + 1 : TelTrig(j) # v.cal.trig
      <4>1. \A j \in 1 .. N + 1 : j \in 1 .. N \/ j = N + 1
        OBVIOUS
      <4> QED  BY <3>1, <3>3, <4>1
    <3> QED  BY <1>6, <1>8, <2>3, <2>5, <3>3, <3>4 DEF Joined
  <2> QED  BY <2>4, <2>5
<1>11. TelOrder'
  <2> SUFFICES ASSUME ~flooded'
               PROVE  \E d \in Nat : TelQueued(d)'
    BY DEF TelOrder
  <2>1. PICK L \in Nat : L = Len(qTel)
    BY <1>3, LenProperties
  <2>2. qTel' = Append(qTel, x)
    <3>1. CASE L < Limit
      BY <1>1, <2>1, <3>1 DEF Queued
    <3>2. CASE ~(L < Limit)
      <4>1. Limit \in Nat \ {0} /\ L > 0
        BY <3>2 DEF TimesInv, TsTyped, Parameters
      <4>2. qTel' = <<>>
        BY <1>1, <2>1, <3>2 DEF Queued
      <4>3. Len(qTel') = 0 /\ Len(qCal) \in Nat /\ Len(qBif) \in Nat
        BY <1>3, <4>2, LenProperties
      <4>4. /\ Len(qTel) = L
            /\ Len(qCal) + Len(qBif) + Len(qTel') < Len(qCal) + Len(qBif) + Len(qTel)
        BY <2>1, <4>1, <4>3
      <4>5. flooded'
        BY <1>1, <4>4
      <4> QED  BY <4>5
    <3> QED  BY <3>1, <3>2
  <2>3. PICK d \in Nat : TelQueued(d)
    BY <1>1 DEF TelInv, TelOrder
  <2>4. L = N - d /\ d <= N
    BY <1>4, <2>1, <2>3 DEF TelQueued
  <2>5. /\ Len(qTel') = L + 1 /\ qTel'[L + 1] = x
        /\ \A i \in 1 .. L : qTel'[i] = qTel[i]
    <3>1. /\ Len(Append(qTel, x)) = Len(qTel) + 1
          /\ Append(qTel, x)[Len(Append(qTel, x))] = x
          /\ \A i \in 1 .. Len(qTel) : Append(qTel, x)[i] = qTel[i]
      BY <1>2, <1>3, Appended
    <3> QED  BY <2>1, <2>2, <3>1
  <2>6. ASSUME NEW i \in 1 .. L + 1
        PROVE  qTel'[i].trig = TelTrig(d + i)
    <3>1. CASE i = L + 1
      <4>1. d + i = N + 1
        BY <2>4, <3>1
      <4> QED  BY <1>8, <2>5, <3>1, <4>1
    <3>2. CASE i # L + 1
      <4>1. i \in 1 .. L
        BY <3>2
      <4> QED  BY <2>1, <2>3, <2>5, <4>1 DEF TelQueued
    <3> QED  BY <3>1, <3>2
  <2>7. d > 0 => /\ lastTel # None /\ lastTel.trig = TelTrig(d)
                 /\ endCal > 0 /\ TelTrig(d) <= lastCal.trig
    BY <2>3 DEF TelQueued
  <2>8. d <= N + 1 /\ L + 1 = (N + 1) - d
    BY <2>4
  <2>9. TelQueued(d)'
    BY <1>1, <1>6, <1>8, <2>5, <2>6, <2>7, <2>8 DEF TelQueued
  <2> QED  BY <2>9
<1> QED  BY <1>7, <1>9, <1>10, <1>11 DEF TelInv
-----------------------------------------------------------------------------
LEMMA StartStopJoins ==
  ASSUME StartRun \/ (TelInv /\ StopRun)
  PROVE  TelInv'
<1> SUFFICES ASSUME kind = "Tel"
             PROVE  (CalTrigs /\ TelTrigs /\ TelOrder /\ AllJoined)'
  BY DEF TelInv, StartRun, StopRun, config
<1>1. qCal' = <<>> /\ qTel' = <<>> /\ endCal' = 0 /\ shift' = shift
  BY DEF StartRun, StopRun, Cleared, config
<1>2. CalTrigs'
  BY <1>1 DEF CalTrigs
<1>3. CASE StartRun
  <2>1. made'.tel = <<>> /\ written' = <<>>
    BY <1>3 DEF StartRun, NoEvents
  <2>2. TelQueued(0)'
    BY <1>1, <2>1 DEF TelQueued
  <2> QED  BY <1>2, <2>1, <2>2 DEF TelTrigs, TelOrder, AllJoined
<1>4. CASE TelInv /\ StopRun
  <2>1. made' = made /\ written' = written /\ flooded' = flooded /\ accept' = FALSE
    BY <1>4 DEF StopRun
  <2> QED  BY <1>1, <1>2, <1>4, <2>1 DEF TelInv, TelTrigs, TelOrder, AllJoined, Joined, TelTrig
<1> QED  BY <1>3, <1>4

LEMMA TelStep ==
  ASSUME ProperTimes, ProperRun => TelInv, [TsNext]_tsVars, ProperRun'
  PROVE  TelInv'
<1>1. CASE StartRun
  BY <1>1, StartStopJoins
<1> SUFFICES ASSUME TimesInv, TelInv, ~StartRun
             PROVE  TelInv'
  BY <1>1, TimesStep DEF TimesInv
<1>7. CASE StopRun
  BY <1>7, StartStopJoins
<1>2. CASE Receive
  <2>1. PICK p, e :
          /\ p \in {"cal", "bif", "tel"} /\ e \in EventsOf(p)
          /\ accept /\ made' = [made EXCEPT ![p] = Append(@, e)] /\ ReceiveEvent(p, e)
          /\ p # "tel" => Timed(e)
    BY <1>2, ReceivedTimed DEF ProperTimes
  <2>2. CASE kind = "Tel"
    BY <2>1, <2>2, ReceiveCalJoins, ReceiveBifJoins, ReceiveTelJoins
  <2>3. CASE kind # "Tel"
    BY <2>1, <2>3 DEF ReceiveEvent, config, TelInv
  <2> QED  BY <2>2, <2>3
<1>3. CASE MergeTs
  BY <1>3 DEF MergeTs, config, TelInv
<1>4. CASE MergeUntriggered
  BY <1>4, MergeUntriggeredJoins
<1>5. CASE MergeTel
  BY <1>5, MergeTelJoins
<1>6. CASE LoopEnds \/ UNCHANGED tsVars
  <2>1. UNCHANGED <<kind, shift, accept, qCal, qTel, lastCal, lastTel, endCal, written, made, flooded>>
    BY <1>6 DEF LoopEnds, tsVars, config, results
  <2> QED  BY <2>1 DEF TelInv, CalTrigs, CalTrig, LastTrig, TelTrigs, TelOrder, TelQueued,
                       TelTrig, AllJoined, Joined
<1> QED  BY <1>2, <1>3, <1>4, <1>5, <1>6, <1>7 DEF TsNext

(* In a run whose events have times an event with an AHCAL sub-event holds the
   telescope event of its trigger, unless the telescope sent none or a queue
   overflowed. *)
THEOREM TelescopeEventJoined ==
  TsSpec => []TelescopeJoined
<1> DEFINE I == ProperTimes /\ (ProperRun => TelInv)
<1>1. TsInit => I
  <2> SUFFICES ASSUME TsInit
               PROVE  I
    OBVIOUS
  <2>1. ProperTimes
    BY TimesInit, TsAssumption
  <2>2. /\ qCal = <<>> /\ qTel = <<>> /\ endCal = 0 /\ made.tel = <<>> /\ written = <<>>
    BY DEF TsInit, NoEvents
  <2>3. TelQueued(0)
    BY <2>2 DEF TelQueued
  <2>4. TelInv
    BY <2>2, <2>3 DEF TelInv, CalTrigs, TelTrigs, TelOrder, AllJoined
  <2> QED  BY <2>1, <2>4
<1>2. I /\ [TsNext]_tsVars => I'
  BY ProperStep, TelStep
<1>3. I => TelescopeJoined
  BY JoinedMeans DEF ProperTimes, TelescopeJoined
<1> HIDE DEF I
<1> QED  BY <1>1, <1>2, <1>3, PTL DEF TsSpec
=============================================================================
