------------------------ MODULE SyncCollectors_proofs ------------------------
(***************************************************************************)
(* For every set of connections, every number of keys and each of the four *)
(* collectors: SyncCollectors implements Merge, misses no coincidence while*)
(* the connections are calm, and leaves nothing waiting.                   *)
(*                                                                         *)
(* The argument rests on one fact about the queues: the numbers in a queue *)
(* increase from the head on (a producer numbers its events upwards, and   *)
(* the queues are only appended to and popped).  The head of a queue is    *)
(* then its oldest event, the oldest head the oldest event of all, and a   *)
(* head that is popped leaves no second event of its number behind.        *)
(***************************************************************************)
EXTENDS SyncCollectors, SequenceTheorems, FiniteSetTheorems, TLAPS

Tags == Keys \cup {NoTag}

Has(q, k) == \E i \in 1 .. Len(q) : q[i] = k

(* The numbers in a queue increase; events without a number may lie between. *)
Rising(q) ==
  \A i, j \in 1 .. Len(q) : i < j /\ q[i] # NoTag /\ q[j] # NoTag => q[i] < q[j]

Queued(c, k) == c \in Map /\ Has(queue[c], k)
-----------------------------------------------------------------------------
(* Lemmas about one queue. *)

LEMMA KeysInt == Keys \subseteq Int /\ NoTag \notin Keys
BY SyncAssumption DEF Keys

LEMMA HeadTail ==
  ASSUME NEW q \in Seq(Tags), q # <<>>
  PROVE  /\ Len(q) \in Nat /\ Len(q) >= 1
         /\ Head(q) = q[1] /\ Head(q) \in Tags
         /\ Tail(q) \in Seq(Tags) /\ Len(Tail(q)) = Len(q) - 1
         /\ \A i \in 1 .. Len(q) - 1 : Tail(q)[i] = q[i + 1]
BY HeadTailProperties, EmptySeq, LenProperties

LEMMA HeadHas ==
  ASSUME NEW q \in Seq(Tags), q # <<>>
  PROVE  Has(q, Head(q))
BY HeadTail DEF Has

(* The head of a queue that starts with a number is its oldest event. *)
LEMMA HeadLeast ==
  ASSUME NEW q \in Seq(Tags), q # <<>>, Rising(q), Head(q) # NoTag,
         NEW k \in Keys, Has(q, k)
  PROVE  Head(q) <= k
<1>1. PICK i \in 1 .. Len(q) : q[i] = k
  BY DEF Has
<1>2. Head(q) \in Int /\ k \in Int /\ k # NoTag
  BY HeadTail, KeysInt DEF Tags
<1>3. CASE i = 1
  BY <1>1, <1>2, <1>3, HeadTail
<1>4. CASE i # 1
  <2>1. Len(q) \in Nat /\ 1 \in 1 .. Len(q) /\ 1 < i
    BY <1>4, HeadTail
  <2>2. q[1] < q[i]
    BY <1>1, <1>2, <2>1, HeadTail DEF Rising
  <2> QED  BY <1>1, <1>2, <2>2, HeadTail
<1> QED  BY <1>3, <1>4

(* Popping takes exactly the head: a number is in the rest if it was there and
   is not the head's. *)
LEMMA TailHas ==
  ASSUME NEW q \in Seq(Tags), q # <<>>, Rising(q), NEW k \in Keys
  PROVE  Has(Tail(q), k) <=> Has(q, k) /\ Head(q) # k
<1>1. ASSUME Has(Tail(q), k)  PROVE Has(q, k) /\ Head(q) # k
  <2>1. PICK i \in 1 .. Len(Tail(q)) : Tail(q)[i] = k
    BY <1>1 DEF Has
  <2>2. i \in 1 .. Len(q) - 1 /\ i + 1 \in 1 .. Len(q) /\ 1 \in 1 .. Len(q) /\ 1 < i + 1
    BY <2>1, HeadTail
  <2>3. q[i + 1] = k
    BY <2>1, <2>2, HeadTail
  <2>4. Head(q) # k
    <3>1. SUFFICES ASSUME q[1] = k PROVE FALSE
      BY HeadTail
    <3>2. q[1] < q[i + 1]
      BY <3>1, <2>2, <2>3, KeysInt DEF Rising
    <3> QED  BY <3>1, <3>2, <2>3, KeysInt
  <2> QED  BY <2>2, <2>3, <2>4 DEF Has
<1>2. ASSUME Has(q, k), Head(q) # k  PROVE Has(Tail(q), k)
  <2>1. PICK i \in 1 .. Len(q) : q[i] = k
    BY <1>2 DEF Has
  <2>2. i # 1 /\ Len(q) \in Nat
    BY <1>2, <2>1, HeadTail
  <2>3. i - 1 \in 1 .. Len(q) - 1 /\ i = (i - 1) + 1
    BY <2>1, <2>2
  <2>4. Tail(q)[i - 1] = k
    BY <2>1, <2>3, HeadTail
  <2> QED  BY <2>3, <2>4, HeadTail DEF Has
<1> QED  BY <1>1, <1>2

LEMMA TailRising ==
  ASSUME NEW q \in Seq(Tags), q # <<>>, Rising(q)
  PROVE  Rising(Tail(q))
<1> SUFFICES ASSUME NEW i \in 1 .. Len(q) - 1, NEW j \in 1 .. Len(q) - 1, i < j,
                    Tail(q)[i] # NoTag, Tail(q)[j] # NoTag
             PROVE  Tail(q)[i] < Tail(q)[j]
  BY HeadTail DEF Rising
<1>1. i + 1 \in 1 .. Len(q) /\ j + 1 \in 1 .. Len(q) /\ i + 1 < j + 1
  BY HeadTail
<1>2. Tail(q)[i] = q[i + 1] /\ Tail(q)[j] = q[j + 1]
  BY HeadTail
<1> QED  BY <1>1, <1>2 DEF Rising

LEMMA AppendHas ==
  ASSUME NEW q \in Seq(Tags), NEW x \in Tags
  PROVE  /\ Append(q, x) \in Seq(Tags) /\ Append(q, x) # <<>>
         /\ \A k \in Keys : Has(Append(q, x), k) <=> Has(q, k) \/ x = k
<1>1. /\ Append(q, x) \in Seq(Tags) /\ Len(Append(q, x)) = Len(q) + 1 /\ Len(q) \in Nat
      /\ \A i \in 1 .. Len(q) : Append(q, x)[i] = q[i]
      /\ Append(q, x)[Len(q) + 1] = x
  BY AppendProperties, LenProperties
<1>2. 1 .. Len(q) + 1 = 1 .. Len(q) \cup {Len(q) + 1}
  BY <1>1
<1> QED  BY <1>1, <1>2, EmptySeq DEF Has

LEMMA AppendRising ==
  ASSUME NEW q \in Seq(Tags), NEW x \in Tags, Rising(q),
         x # NoTag => \A k \in Keys : Has(q, k) => k < x
  PROVE  Rising(Append(q, x))
<1>1. /\ Len(Append(q, x)) = Len(q) + 1 /\ Len(q) \in Nat
      /\ \A i \in 1 .. Len(q) : Append(q, x)[i] = q[i] /\ q[i] \in Tags
      /\ Append(q, x)[Len(q) + 1] = x
  BY AppendProperties, LenProperties, ElementOfSeq
<1> SUFFICES ASSUME NEW i \in 1 .. Len(q) + 1, NEW j \in 1 .. Len(q) + 1, i < j,
                    Append(q, x)[i] # NoTag, Append(q, x)[j] # NoTag
             PROVE  Append(q, x)[i] < Append(q, x)[j]
  BY <1>1 DEF Rising
<1>2. i \in 1 .. Len(q)
  BY <1>1
<1>3. CASE j = Len(q) + 1
  BY <1>1, <1>2, <1>3 DEF Has, Tags
<1>4. CASE j \in 1 .. Len(q)
  BY <1>1, <1>2, <1>4 DEF Rising
<1> QED  BY <1>1, <1>3, <1>4

LEMMA TailHasOnly ==
  ASSUME NEW q \in Seq(Tags), q # <<>>, NEW x, Has(Tail(q), x)
  PROVE  Has(q, x)
<1>1. PICK i \in 1 .. Len(q) - 1 : Tail(q)[i] = x
  BY HeadTail DEF Has
<1>2. i + 1 \in 1 .. Len(q)
  BY HeadTail
<1> QED  BY <1>1, <1>2, HeadTail DEF Has
-----------------------------------------------------------------------------
(* The inductive invariant. *)

Typed ==
  /\ kind \in {"trigid", "alpide", "calice", "hodoscope"}
  /\ Map \subseteq Conns /\ queue \in [Map -> Seq(Tags)]
  /\ gone \subseteq Conns
  /\ pc \in {"idle", "build"}
  /\ out \in Seq([key : Keys, subs : SUBSET Conns])
  /\ link \in [Conns -> {"new", "up", "left"}]
  /\ sent \in [Conns -> SUBSET Keys]
  /\ calm \in BOOLEAN

(* A queue holds events that were sent, in the order of their numbers. *)
QueuesRise ==
  \A c \in Map : Rising(queue[c]) /\ \A k \in Keys : Has(queue[c], k) => k \in sent[c]

(* Only the hodoscope collector queues events without a number. *)
Numbered == kind # "hodoscope" => \A c \in Map : ~Has(queue[c], NoTag)

(* Who is known, and what the code of BuildEvent relies on while inside. *)
Building ==
  /\ kind # "calice" => \A c \in Map : link[c] # "new"
  /\ kind = "calice" => Map = Pair
  /\ pc = "build" /\ ByTrigger => AllFilled /\ Map # {}
  /\ pc = "build" /\ kind = "hodoscope" => Ahcal \in Map

Inv == Typed /\ QueuesRise /\ Numbered /\ Building

(* One event is popped from each queue of S; the map loses only queues that are
   empty then. *)
Pops(S) ==
  /\ S \subseteq Map /\ \A c \in S : queue[c] # <<>>
  /\ \E D \in SUBSET Map :
       /\ queue' = [c \in D |-> Popped(S)[c]]
       /\ \A c \in Map \ D : Popped(S)[c] = <<>>
  /\ UNCHANGED <<kind, sent>>

LEMMA EventsQueued ==
  Typed => \A c \in Conns, k \in Keys : <<c, k>> \in Events <=> Queued(c, k)
<1> SUFFICES ASSUME Typed, NEW c \in Conns, NEW k \in Keys
             PROVE  <<c, k>> \in Events <=> Queued(c, k)
  OBVIOUS
<1>1. CASE c \in Map
  <2>1. At(c) = queue[c] /\ queue[c] \in Seq(Tags)
    BY <1>1 DEF At, Typed
  <2>2. DOMAIN At(c) = 1 .. Len(queue[c])
    BY <2>1, LenProperties
  <2> QED  BY <1>1, <2>1, <2>2 DEF Events, Queued, Has
<1>2. CASE c \notin Map
  BY <1>2 DEF Events, Queued
<1> QED  BY <1>1, <1>2

LEMMA EventsQueuedNext ==
  Typed' => (\A c \in Conns, k \in Keys : <<c, k>> \in Events <=> Queued(c, k))'
BY EventsQueued, PTL

LEMMA PopOne ==
  ASSUME Typed, QueuesRise, NEW S \in SUBSET Map, \A c \in S : queue[c] # <<>>,
         NEW c \in Map
  PROVE  /\ Popped(S)[c] \in Seq(Tags) /\ Rising(Popped(S)[c])
         /\ \A k \in Keys : Has(Popped(S)[c], k) <=> Has(queue[c], k) /\ ~(c \in S /\ HeadOf(c) = k)
         /\ Has(Popped(S)[c], NoTag) => Has(queue[c], NoTag)
<1>1. queue[c] \in Seq(Tags) /\ Rising(queue[c])
  BY DEF Typed, QueuesRise
<1>2. CASE c \in S
  <2>1. Popped(S)[c] = Tail(queue[c]) /\ queue[c] # <<>>
    BY <1>2 DEF Popped
  <2> QED  BY <1>1, <1>2, <2>1, HeadTail, TailRising, TailHas, TailHasOnly DEF HeadOf
<1>3. CASE c \notin S
  BY <1>1, <1>3 DEF Popped
<1> QED  BY <1>2, <1>3

LEMMA EmptyHas == \A k : ~Has(<<>>, k)
BY EmptySeq DEF Has

(* What popping does to the queues and to the events that are in them. *)
LEMMA PopsQueues ==
  ASSUME Inv, NEW S, Pops(S)
  PROVE  /\ Map' \subseteq Map /\ queue' \in [Map' -> Seq(Tags)]
         /\ QueuesRise' /\ Numbered'
         /\ \A c \in Conns, k \in Keys :
              Queued(c, k)' <=> Queued(c, k) /\ ~(c \in S /\ HeadOf(c) = k)
<1>1. PICK D \in SUBSET Map : /\ queue' = [c \in D |-> Popped(S)[c]]
                              /\ \A c \in Map \ D : Popped(S)[c] = <<>>
  BY DEF Pops
<1>2. Map' = D /\ kind' = kind /\ sent' = sent
  BY <1>1 DEF Map, Pops
<1>3. \A c \in D : queue'[c] = Popped(S)[c]
  BY <1>1
<1>4. S \in SUBSET Map /\ \A c \in S : queue[c] # <<>>
  BY DEF Pops
<1>5. \A c \in Map :
         /\ Popped(S)[c] \in Seq(Tags) /\ Rising(Popped(S)[c])
         /\ \A k \in Keys : Has(Popped(S)[c], k) <=> Has(queue[c], k) /\ ~(c \in S /\ HeadOf(c) = k)
         /\ Has(Popped(S)[c], NoTag) => Has(queue[c], NoTag)
  BY <1>4, PopOne DEF Inv
<1>6. Map' \subseteq Map /\ queue' \in [Map' -> Seq(Tags)]
  BY <1>1, <1>2, <1>5
<1>7. QueuesRise'
  BY <1>2, <1>3, <1>5 DEF Inv, QueuesRise
<1>8. Numbered'
  BY <1>2, <1>3, <1>5 DEF Inv, Numbered
<1>9. ASSUME NEW c \in Conns, NEW k \in Keys
      PROVE  Queued(c, k)' <=> Queued(c, k) /\ ~(c \in S /\ HeadOf(c) = k)
  <2>1. CASE c \in D
    BY <1>2, <1>3, <1>5, <2>1 DEF Queued
  <2>2. CASE c \in Map \ D
    BY <1>1, <1>2, <1>5, <2>2, EmptyHas DEF Queued
  <2>3. CASE c \notin Map
    BY <1>2, <2>3 DEF Queued
  <2> QED  BY <2>1, <2>2, <2>3
<1> QED  BY <1>6, <1>7, <1>8, <1>9

(* The steps that pop, as such. *)
LEMMA MergePops ==
  ASSUME Inv, MergeByTrigger
  PROVE  \E k \in Keys :
           /\ OldestHead(k) /\ SubEvents(k) # {} /\ Pops(SubEvents(k))
           /\ gone' \subseteq gone
           /\ out' = IF kind = "alpide" /\ Cardinality(SubEvents(k)) < MinSub
                     THEN out ELSE Written(k, SubEvents(k))
<1>1. PICK k \in Keys :
        /\ OldestHead(k)
        /\ queue' = [c \in Map \ Over(Popped(SubEvents(k))) |-> Popped(SubEvents(k))[c]]
        /\ gone' = gone \ Over(Popped(SubEvents(k)))
        /\ out' = IF kind = "alpide" /\ Cardinality(SubEvents(k)) < MinSub
                  THEN out ELSE Written(k, SubEvents(k))
  BY DEF MergeByTrigger
<1>2. SubEvents(k) \subseteq Map /\ SubEvents(k) # {} /\ \A c \in SubEvents(k) : queue[c] # <<>>
  BY <1>1 DEF OldestHead, SubEvents, Inv, Building, MergeByTrigger, AllFilled
<1>3. /\ Map \ Over(Popped(SubEvents(k))) \in SUBSET Map
      /\ \A c \in Map \ (Map \ Over(Popped(SubEvents(k)))) : Popped(SubEvents(k))[c] = <<>>
  BY DEF Over
<1>4. UNCHANGED <<kind, sent>>
  BY DEF MergeByTrigger
<1>5. Pops(SubEvents(k))
  BY <1>1, <1>2, <1>3, <1>4 DEF Pops
<1> QED  BY <1>1, <1>2, <1>5

LEMMA PlainPops ==
  ASSUME Inv, NEW S, S \subseteq Map, \A c \in S : queue[c] # <<>>,
         queue' = Popped(S), UNCHANGED <<kind, sent>>
  PROVE  Pops(S) /\ Map' = Map
<1>1. Popped(S) = [c \in Map |-> Popped(S)[c]] /\ DOMAIN Popped(S) = Map
  BY DEF Popped
<1>2. \E D \in SUBSET Map : /\ queue' = [c \in D |-> Popped(S)[c]]
                            /\ \A c \in Map \ D : Popped(S)[c] = <<>>
  BY <1>1
<1> QED  BY <1>1, <1>2 DEF Pops, Map

(* In a queue without untagged events every head is a number. *)
LEMMA HeadIsNumber ==
  ASSUME Inv, kind # "hodoscope", NEW c \in Map, queue[c] # <<>>
  PROVE  HeadOf(c) \in Keys
<1>1. queue[c] \in Seq(Tags) /\ ~Has(queue[c], NoTag)
  BY DEF Inv, Typed, Numbered
<1> QED  BY <1>1, HeadTail, HeadHas DEF HeadOf, Tags

LEMMA OutTyped ==
  ASSUME Typed, NEW k \in Keys, NEW S \in SUBSET Conns
  PROVE  Written(k, S) \in Seq([key : Keys, subs : SUBSET Conns])
BY AppendProperties DEF Typed, Written

LEMMA MatchPairPops ==
  ASSUME Inv, MatchPair, AllFilled
  PROVE  LET a == HeadOf(Ahcal)
             b == HeadOf(Partner)
             k == IF a < b THEN a ELSE b
         IN  /\ a \in Keys /\ b \in Keys /\ Map = Pair /\ Map' = Map
             /\ Pops({c \in Pair : HeadOf(c) = k})
<1>1. Map = Pair /\ kind = "calice" /\ Ahcal \in Pair /\ Partner \in Pair
  BY DEF Inv, Building, MatchPair, Pair
<1>2. HeadOf(Ahcal) \in Keys /\ HeadOf(Partner) \in Keys
  BY <1>1, HeadIsNumber DEF AllFilled
<1> DEFINE k == IF HeadOf(Ahcal) < HeadOf(Partner) THEN HeadOf(Ahcal) ELSE HeadOf(Partner)
           S == {c \in Pair : HeadOf(c) = k}
<1>3. queue' = Popped(S) /\ UNCHANGED <<kind, sent>>
  BY DEF MatchPair
<1>4. S \subseteq Map /\ \A c \in S : queue[c] # <<>>
  BY <1>1 DEF AllFilled
<1>5. Pops(S) /\ Map' = Map
  <2> HIDE DEF S
  <2> QED  BY <1>3, <1>4, PlainPops
<1> QED  BY <1>1, <1>2, <1>5

LEMMA InvInit == Init => Inv
<1> SUFFICES ASSUME Init PROVE Inv
  OBVIOUS
<1>1. Map \subseteq Conns /\ queue \in [Map -> Seq(Tags)] /\ \A c \in Map : queue[c] = <<>>
  BY SyncAssumption, EmptySeq DEF Init, Map, EmptyMap, Pair
<1>2. Typed
  BY <1>1, SyncAssumption, EmptySeq DEF Init, Typed
<1>3. QueuesRise /\ Numbered
  BY <1>1, EmptyHas, EmptySeq DEF QueuesRise, Numbered, Rising
<1>4. Building
  BY DEF Init, Building, Map, EmptyMap
<1> QED  BY <1>2, <1>3, <1>4 DEF Inv

(* Setting one queue leaves the others. *)
LEMMA SetKeeps ==
  ASSUME Inv, NEW c \in Conns, NEW q \in Seq(Tags), queue' = Set(c, q),
         sent' \in [Conns -> SUBSET Keys], \A d \in Conns : sent[d] \subseteq sent'[d],
         Rising(q), \A k \in Keys : Has(q, k) => k \in sent'[c],
         kind' = kind, kind # "hodoscope" => ~Has(q, NoTag)
  PROVE  /\ Map' = Map \cup {c} /\ queue' \in [Map' -> Seq(Tags)]
         /\ QueuesRise' /\ Numbered'
<1>1. Map' = Map \cup {c} /\ queue'[c] = q /\ \A x \in Map \ {c} : queue'[x] = queue[x]
  BY DEF Map, Set
<1>2. queue' \in [Map' -> Seq(Tags)]
  <2>1. queue' = [x \in Map \cup {c} |-> IF x = c THEN q ELSE queue[x]]
    BY DEF Set
  <2>2. \A x \in Map : queue[x] \in Seq(Tags)
    BY DEF Inv, Typed
  <2> QED  BY <1>1, <2>1, <2>2
<1>3. QueuesRise'
  BY <1>1 DEF Inv, Typed, QueuesRise
<1>4. Numbered'
  BY <1>1 DEF Inv, Numbered
<1> QED  BY <1>1, <1>2, <1>3, <1>4

LEMMA ReceiveKeeps ==
  ASSUME Inv, NEW c \in Conns, NEW k \in Tags, DoReceive(c, k),
         k # NoTag => \A j \in sent[c] : j < k,
         k = NoTag => kind = "hodoscope"
  PROVE  /\ Inv' /\ Map' = Map \cup {c}
         /\ queue' = Set(c, Append(At(c), k)) /\ Append(At(c), k) # <<>>
         /\ \A d \in Conns, j \in Keys : Queued(d, j)' <=> Queued(d, j) \/ (d = c /\ j = k)
<1>1. At(c) \in Seq(Tags) /\ Rising(At(c)) /\ \A j \in Keys : Has(At(c), j) => j \in sent[c]
  BY EmptySeq, EmptyHas DEF At, Inv, Typed, QueuesRise, Rising
<1>2. \A j \in Keys : Has(At(c), j) <=> Queued(c, j)
  BY EmptyHas DEF At, Queued
<1>3. /\ Append(At(c), k) \in Seq(Tags) /\ Append(At(c), k) # <<>>
      /\ \A j \in Keys : Has(Append(At(c), k), j) <=> Has(At(c), j) \/ k = j
  BY <1>1, AppendHas
<1>4. Rising(Append(At(c), k))
  BY <1>1, AppendRising
<1>5. /\ sent' \in [Conns -> SUBSET Keys] /\ (\A d \in Conns : sent[d] \subseteq sent'[d])
      /\ k # NoTag => k \in sent'[c]
  BY DEF DoReceive, Inv, Typed, Tags
<1>6. \A j \in Keys : Has(Append(At(c), k), j) => j \in sent'[c]
  BY <1>1, <1>3, <1>5, KeysInt
<1>7. kind # "hodoscope" => ~Has(Append(At(c), k), NoTag)
  <2> SUFFICES ASSUME kind # "hodoscope", Has(Append(At(c), k), NoTag) PROVE FALSE
    OBVIOUS
  <2>1. ~Has(At(c), NoTag) /\ k # NoTag
    BY EmptyHas DEF At, Inv, Numbered
  <2>2. /\ Len(Append(At(c), k)) = Len(At(c)) + 1 /\ Len(At(c)) \in Nat
        /\ \A i \in 1 .. Len(At(c)) : Append(At(c), k)[i] = At(c)[i]
        /\ Append(At(c), k)[Len(At(c)) + 1] = k
    BY <1>1, AppendProperties, LenProperties
  <2> QED  BY <2>1, <2>2 DEF Has
<1>8. queue' = Set(c, Append(At(c), k)) /\ kind' = kind
  BY DEF DoReceive
<1>9. Map' = Map \cup {c} /\ queue' \in [Map' -> Seq(Tags)] /\ QueuesRise' /\ Numbered'
  BY <1>3, <1>4, <1>5, <1>6, <1>7, <1>8, SetKeeps
<1>10. Typed'
  BY <1>5, <1>9 DEF Inv, Typed, DoReceive
<1>11. Building'
  <2>1. kind = "calice" => Map' = Map
    BY <1>9 DEF DoReceive, ByTrigger
  <2> QED  BY <1>9, <2>1 DEF Inv, Building, DoReceive, Proceeds, ByTrigger, AllFilled, Map
<1>12. ASSUME NEW d \in Conns, NEW j \in Keys
       PROVE  Queued(d, j)' <=> Queued(d, j) \/ (d = c /\ j = k)
  <2>1. queue'[c] = Append(At(c), k) /\ \A x \in Map \ {c} : queue'[x] = queue[x]
    BY <1>8 DEF Set, Map
  <2>2. CASE d = c
    BY <1>2, <1>3, <1>9, <2>1, <2>2 DEF Queued
  <2>3. CASE d # c
    BY <1>9, <2>1, <2>3 DEF Queued
  <2> QED  BY <2>2, <2>3
<1> QED  BY <1>3, <1>8, <1>9, <1>10, <1>11, <1>12 DEF Inv

LEMMA EmptyMapKeeps ==
  ASSUME Inv, queue' = EmptyMap, UNCHANGED <<kind, sent>>
  PROVE  Map' = {} /\ queue' \in [Map' -> Seq(Tags)] /\ QueuesRise' /\ Numbered'
BY DEF EmptyMap, Map, QueuesRise, Numbered

LEMMA InvNext ==
  ASSUME Inv, [Next]_vars
  PROVE  Inv'
<1>1. ASSUME NEW c \in Conns, DoConnect(c)  PROVE Inv'
  <2>1. CASE kind = "calice"
    BY <1>1, <2>1 DEF DoConnect, ByTrigger, Inv, Typed, QueuesRise, Numbered, Building, Map, Pair, AllFilled
  <2>2. CASE kind # "calice"
    <3>1. queue' = Set(c, <<>>) /\ UNCHANGED <<kind, sent>>
      BY <1>1, <2>2 DEF DoConnect
    <3>2. <<>> \in Seq(Tags) /\ Rising(<<>>)
      BY EmptySeq DEF Rising
    <3>3. Map' = Map \cup {c} /\ queue' \in [Map' -> Seq(Tags)] /\ QueuesRise' /\ Numbered'
      BY <3>1, <3>2, EmptyHas, SetKeeps DEF Inv, Typed
    <3>4. Typed'
      BY <1>1, <3>3 DEF DoConnect, Inv, Typed
    <3>5. Building'
      BY <1>1, <2>2, <3>3 DEF DoConnect, Inv, Typed, Building, ByTrigger
    <3> QED  BY <3>3, <3>4, <3>5 DEF Inv
  <2> QED  BY <2>1, <2>2
<1>2. ASSUME NEW c \in Conns, DoDisconnect(c)  PROVE Inv'
  <2>1. pc' = "idle" /\ kind' = kind /\ kind # "calice" /\ sent' = sent
    BY <1>2 DEF DoDisconnect
  <2>2. CASE AllLeft(gone \cup {c})
    <3>1. Map' = {} /\ queue' \in [Map' -> Seq(Tags)] /\ QueuesRise' /\ Numbered'
      BY <1>2, <2>1, <2>2, EmptyMapKeeps DEF DoDisconnect
    <3> QED  BY <1>2, <2>1, <2>2, <3>1 DEF DoDisconnect, Inv, Typed, Building, ByTrigger
  <2>3. CASE ~AllLeft(gone \cup {c})
    BY <1>2, <2>1, <2>3 DEF DoDisconnect, Inv, Typed, QueuesRise, Numbered, Building, ByTrigger, Map, AllFilled
  <2> QED  BY <2>2, <2>3
<1>3. CASE Reset
  <2>1. pc' = "idle" /\ UNCHANGED <<kind, sent>>
    BY <1>3 DEF Reset
  <2>2. CASE kind = "calice"
    <3>1. Map' = Pair /\ \A c \in Pair : queue'[c] = <<>>
      BY <1>3, <2>2 DEF Reset, Map
    <3>2. queue' \in [Map' -> Seq(Tags)] /\ Pair \subseteq Conns
      BY <1>3, <2>2, <3>1, EmptySeq, SyncAssumption DEF Reset, Pair
    <3>3. QueuesRise' /\ Numbered'
      BY <2>1, <3>1, EmptyHas, EmptySeq DEF QueuesRise, Numbered, Rising
    <3> QED  BY <1>3, <2>1, <2>2, <3>1, <3>2, <3>3 DEF Reset, Inv, Typed, Building, ByTrigger, Pair
  <2>3. CASE kind # "calice"
    <3>1. Map' = {} /\ queue' \in [Map' -> Seq(Tags)] /\ QueuesRise' /\ Numbered'
      BY <1>3, <2>1, <2>3, EmptyMapKeeps DEF Reset
    <3> QED  BY <1>3, <2>1, <2>3, <3>1 DEF Reset, Inv, Typed, Building, ByTrigger
  <2> QED  BY <2>2, <2>3
<1>4. CASE ReceiveNumbered
  BY <1>4, ReceiveKeeps, KeysInt DEF ReceiveNumbered, Tags
<1>5. CASE ReceiveUntagged
  BY <1>5, ReceiveKeeps DEF ReceiveUntagged, Tags
<1>6. CASE MergeByTrigger
  <2>1. PICK k \in Keys : /\ Pops(SubEvents(k)) /\ gone' \subseteq gone
                          /\ out' \in {out, Written(k, SubEvents(k))}
    BY <1>6, MergePops
  <2>2. Map' \subseteq Map /\ queue' \in [Map' -> Seq(Tags)] /\ QueuesRise' /\ Numbered'
    BY <2>1, PopsQueues
  <2>3. out' \in Seq([key : Keys, subs : SUBSET Conns])
    <3>1. SubEvents(k) \in SUBSET Conns
      BY DEF SubEvents, Inv, Typed
    <3> QED  BY <2>1, <3>1, OutTyped DEF Inv, Typed
  <2>4. Typed'
    BY <1>6, <2>1, <2>2, <2>3 DEF MergeByTrigger, Inv, Typed
  <2>5. Building'
    BY <1>6, <2>2 DEF MergeByTrigger, Inv, Building, ByTrigger
  <2> QED  BY <2>2, <2>4, <2>5 DEF Inv
<1>7. CASE MatchPair
  <2>1. CASE AllFilled
    <3>1. /\ Map = Pair /\ Map' = Map /\ queue' \in [Map' -> Seq(Tags)] /\ QueuesRise' /\ Numbered'
          /\ HeadOf(Ahcal) \in Keys /\ HeadOf(Partner) \in Keys
      BY <1>7, <2>1, MatchPairPops, PopsQueues
    <3>2. out' \in Seq([key : Keys, subs : SUBSET Conns])
      <4>1. Pair \in SUBSET Conns /\ out \in Seq([key : Keys, subs : SUBSET Conns])
        BY <3>1 DEF Inv, Typed
      <4>2. out' = out \/ \E k \in Keys : out' = Written(k, Pair)
        BY <1>7, <2>1, <3>1 DEF MatchPair
      <4> QED  BY <4>1, <4>2, OutTyped DEF Inv
    <3> QED  BY <1>7, <2>1, <3>1, <3>2 DEF MatchPair, Inv, Typed, Building, ByTrigger, Pair
  <2>2. CASE ~AllFilled
    BY <1>7, <2>2 DEF MatchPair, Inv, Typed, QueuesRise, Numbered, Building, ByTrigger, Map, AllFilled, Pair
  <2> QED  BY <2>1, <2>2
<1>8. CASE DropUntagged
  <2>1. Pops({Ahcal}) /\ Map' = Map
    <3>1. {Ahcal} \subseteq Map /\ (\A c \in {Ahcal} : queue[c] # <<>>) /\ queue' = Popped({Ahcal})
      BY <1>8 DEF DropUntagged, Inv, Building
    <3>2. UNCHANGED <<kind, sent>>
      BY <1>8 DEF DropUntagged
    <3> QED  BY <3>1, <3>2, PlainPops
  <2>2. queue' \in [Map' -> Seq(Tags)] /\ QueuesRise' /\ Numbered'
    BY <2>1, PopsQueues
  <2> QED  BY <1>8, <2>1, <2>2 DEF DropUntagged, Inv, Typed, Building, ByTrigger, Pair
<1>9. CASE BuildEventReturns
  <2>1. pc' = "idle" /\ UNCHANGED <<kind, gone, out, link, sent, calm>> /\ kind = "hodoscope"
    BY <1>9 DEF BuildEventReturns
  <2>2. CASE UNCHANGED queue
    BY <2>1, <2>2 DEF Inv, Typed, QueuesRise, Numbered, Building, ByTrigger, Map, AllFilled
  <2>3. CASE \E S \in SUBSET {c \in Hodoscopes : queue[c] # <<>> /\ TooOld(c)} : queue' = Popped(S)
    <3>1. PICK S \in SUBSET {c \in Hodoscopes : queue[c] # <<>> /\ TooOld(c)} : queue' = Popped(S)
      BY <2>3
    <3>2. Pops(S) /\ Map' = Map
      BY <2>1, <3>1, PlainPops DEF Hodoscopes
    <3>3. queue' \in [Map' -> Seq(Tags)] /\ QueuesRise' /\ Numbered'
      BY <3>2, PopsQueues
    <3> QED  BY <2>1, <3>2, <3>3 DEF Inv, Typed, Building, ByTrigger
  <2> QED  BY <1>9, <2>2, <2>3 DEF BuildEventReturns
<1>10. CASE PopOld
  <2>1. PICK S : S \subseteq Hodoscopes /\ queue' = Popped(S)
    BY <1>10 DEF PopOld
  <2>2. Pops(S) /\ Map' = Map
    BY <1>10, <2>1, PlainPops DEF PopOld, Hodoscopes, AllFilled
  <2>3. queue' \in [Map' -> Seq(Tags)] /\ QueuesRise' /\ Numbered'
    BY <2>2, PopsQueues
  <2> QED  BY <1>10, <2>2, <2>3 DEF PopOld, Comparing, Inv, Typed, Building, ByTrigger
<1>11. CASE MatchHodoscopes
  <2> DEFINE S == SubEvents(HeadOf(Ahcal))
  <2>1. queue' = Popped(S) /\ S \subseteq Map
    BY <1>11 DEF MatchHodoscopes, SubEvents
  <2>2. Pops(S) /\ Map' = Map
    <3> HIDE DEF S
    <3> QED  BY <1>11, <2>1, PlainPops DEF MatchHodoscopes, AllFilled
  <2>3. queue' \in [Map' -> Seq(Tags)] /\ QueuesRise' /\ Numbered'
    BY <2>2, PopsQueues
  <2>4. HeadOf(Ahcal) \in Keys
    <3>1. queue[Ahcal] \in Seq(Tags) /\ queue[Ahcal] # <<>>
      BY <1>11 DEF MatchHodoscopes, Comparing, Inv, Typed, Building
    <3> QED  BY <1>11, <3>1, HeadTail DEF MatchHodoscopes, Comparing, Unsynchronized, HeadOf, Tags
  <2>5. out' \in Seq([key : Keys, subs : SUBSET Conns])
    <3>1. S \in SUBSET Conns /\ out' \in {out, Written(HeadOf(Ahcal), S)}
      BY <1>11, <2>1 DEF MatchHodoscopes, Inv, Typed
    <3> QED  BY <2>4, <3>1, OutTyped DEF Inv, Typed
  <2> QED  BY <1>11, <2>2, <2>3, <2>5 DEF MatchHodoscopes, Comparing, Inv, Typed, Building, ByTrigger
<1>12. CASE UNCHANGED vars
  BY <1>12 DEF vars, Inv, Typed, QueuesRise, Numbered, Building, ByTrigger, Map, AllFilled
<1> QED  BY <1>1, <1>2, <1>3, <1>4, <1>5, <1>6, <1>7, <1>8, <1>9, <1>10, <1>11, <1>12 DEF Next

(* In every state of the collectors the numbers in a queue increase, only the
   hodoscope collector queues events without a number, and BuildEvent is entered
   only when the queues it reads the heads of are filled. *)
THEOREM SyncInvariant == Spec => []Inv
BY InvInit, InvNext, PTL DEF Spec
-----------------------------------------------------------------------------
(* Who has left and who is connected.  Without a reset the collector knows every
   connected producer, so that counting those who have left does not clear what
   others have sent. *)
GoneLeft == \A c \in gone : link[c] = "left"

Known ==
  /\ GoneLeft
  /\ calm => ~wasReset
  /\ kind # "calice" /\ ~wasReset =>
       gone \subseteq Map /\ \A c \in Conns : link[c] = "up" => c \in Map

LEMMA GoneLeftNext ==
  ASSUME Inv, GoneLeft, [Next]_vars
  PROVE  GoneLeft'
<1>1. ASSUME NEW c \in Conns, DoConnect(c)  PROVE GoneLeft'
  <2>1. gone' \subseteq gone /\ link' = [link EXCEPT ![c] = "up"] /\ link[c] = "new"
    BY <1>1 DEF DoConnect
  <2> QED  BY <2>1 DEF GoneLeft, Inv, Typed
<1>2. ASSUME NEW c \in Conns, DoDisconnect(c)  PROVE GoneLeft'
  BY <1>2 DEF DoDisconnect, GoneLeft, Inv, Typed
<1>3. CASE MergeByTrigger
  <2>1. gone' \subseteq gone /\ link' = link
    BY <1>3, MergePops DEF MergeByTrigger
  <2> QED  BY <2>1 DEF GoneLeft
<1>4. CASE Reset
  BY <1>4 DEF Reset, GoneLeft
<1>5. CASE ReceiveNumbered \/ ReceiveUntagged
  BY <1>5 DEF ReceiveNumbered, ReceiveUntagged, DoReceive, GoneLeft
<1>6. CASE MatchPair \/ DropUntagged \/ BuildEventReturns \/ PopOld \/ MatchHodoscopes \/ UNCHANGED vars
  <2>1. UNCHANGED <<gone, link>>
    BY <1>6 DEF MatchPair, DropUntagged, BuildEventReturns, PopOld, MatchHodoscopes, vars
  <2> QED  BY <2>1 DEF GoneLeft
<1> QED  BY <1>1, <1>2, <1>3, <1>4, <1>5, <1>6 DEF Next

LEMMA AllLeftIs ==
  ASSUME Inv, Known, ~wasReset, NEW c \in Conns, DoDisconnect(c), AllLeft(gone \cup {c})
  PROVE  \A d \in Conns : link'[d] # "up"
<1>1. kind # "calice" /\ link[c] = "up" /\ link' = [link EXCEPT ![c] = "left"]
  BY DEF DoDisconnect
<1>2. PICK left : left = gone \cup {c}
  OBVIOUS
<1>3. left \subseteq Map
  BY <1>1, <1>2 DEF Known
<1>4. IsFiniteSet(Map) /\ Cardinality(left) = Cardinality(Map)
  BY <1>2, SyncAssumption, FS_Subset DEF AllLeft, Inv, Typed
<1>5. left = Map
  BY <1>3, <1>4, FS_Subset
<1> SUFFICES ASSUME NEW d \in Conns, link'[d] = "up" PROVE FALSE
  OBVIOUS
<1>6. d # c /\ link[d] = "up"
  BY <1>1 DEF Inv, Typed
<1>7. d \in gone
  BY <1>1, <1>2, <1>5, <1>6 DEF Known
<1> QED  BY <1>6, <1>7 DEF Known, GoneLeft

LEMMA KnownInit == Init => Known
BY DEF Init, Known, GoneLeft

LEMMA KnownNext ==
  ASSUME Inv, Inv', Known, [Next]_vars
  PROVE  Known'
<1>0. GoneLeft'
  BY GoneLeftNext DEF Known
<1>1. ASSUME NEW c \in Conns, DoConnect(c)  PROVE Known'
  <2>1. /\ UNCHANGED <<kind, wasReset>> /\ (calm' => calm) /\ gone' \subseteq gone
        /\ link' = [link EXCEPT ![c] = "up"]
        /\ kind # "calice" => queue' = Set(c, <<>>)
    BY <1>1 DEF DoConnect
  <2>2. kind # "calice" => Map' = Map \cup {c}
    BY <2>1 DEF Set, Map
  <2> QED  BY <1>0, <2>1, <2>2 DEF Known, Inv, Typed
<1>2. ASSUME NEW c \in Conns, DoDisconnect(c)  PROVE Known'
  <2>1. /\ UNCHANGED <<kind, wasReset>> /\ (calm' => calm) /\ link[c] = "up" /\ kind # "calice"
        /\ link' = [link EXCEPT ![c] = "left"]
    BY <1>2 DEF DoDisconnect
  <2>2. CASE AllLeft(gone \cup {c})
    <3>1. gone' = {}
      BY <1>2, <2>2 DEF DoDisconnect
    <3> QED  BY <1>0, <1>2, <2>1, <2>2, <3>1, AllLeftIs DEF Known
  <2>3. CASE ~AllLeft(gone \cup {c})
    <3>1. gone' = gone \cup {c} /\ Map' = Map
      BY <1>2, <2>3 DEF DoDisconnect, Map
    <3> QED  BY <1>0, <2>1, <3>1 DEF Known, Inv, Typed
  <2> QED  BY <2>2, <2>3
<1>3. CASE Reset
  BY <1>0, <1>3 DEF Reset, Known
<1>4. CASE ReceiveNumbered \/ ReceiveUntagged
  <2>1. PICK c \in Conns, k \in Tags : DoReceive(c, k)
    BY <1>4 DEF ReceiveNumbered, ReceiveUntagged, Tags
  <2>2. /\ UNCHANGED <<kind, gone, link, wasReset>> /\ (calm' => calm)
        /\ Map' = Map \cup {c}
    BY <2>1 DEF DoReceive, Set, Map
  <2> QED  BY <1>0, <2>2 DEF Known
<1>5. CASE MergeByTrigger
  <2>1. PICK k \in Keys : /\ gone' = gone \ Over(Popped(SubEvents(k)))
                          /\ queue' = [c \in Map \ Over(Popped(SubEvents(k))) |->
                                         Popped(SubEvents(k))[c]]
    BY <1>5 DEF MergeByTrigger
  <2>2. UNCHANGED <<kind, link, calm, wasReset>>
    BY <1>5 DEF MergeByTrigger
  <2>3. Over(Popped(SubEvents(k))) \subseteq gone /\ Map' = Map \ Over(Popped(SubEvents(k)))
    BY <2>1 DEF Over, Map
  <2> QED  BY <1>0, <2>1, <2>2, <2>3 DEF Known, GoneLeft
<1>6. CASE MatchPair
  BY <1>0, <1>6 DEF MatchPair, Known
<1>7. CASE DropUntagged \/ BuildEventReturns \/ PopOld \/ MatchHodoscopes
  <2>1. UNCHANGED <<kind, gone, link, calm, wasReset>>
    BY <1>7 DEF DropUntagged, BuildEventReturns, PopOld, MatchHodoscopes
  <2>2. Map' = Map
    BY <1>7 DEF DropUntagged, BuildEventReturns, PopOld, MatchHodoscopes, Popped, Map
  <2> QED  BY <1>0, <2>1, <2>2 DEF Known
<1>8. CASE UNCHANGED vars
  BY <1>0, <1>8 DEF vars, Known, Map
<1> QED  BY <1>1, <1>2, <1>3, <1>4, <1>5, <1>6, <1>7, <1>8 DEF Next
-----------------------------------------------------------------------------
(* The steps of Merge, in terms of what is queued. *)

Holders(k) == {c \in Conns : Queued(c, k)}

LEMMA TogetherHolders ==
  ASSUME Typed, NEW k \in Keys
  PROVE  M!Together(k) = Holders(k)
BY EventsQueued DEF M!Together, Holders

LEMMA WantedIs ==
  ASSUME Typed, NEW k \in Keys
  PROVE  LET wanted == {w \in [key : Keys, subs : SUBSET Conns] : w.subs \in Wanted(w.key)}
         IN  /\ M!Coincidence(k) = [key |-> k, subs |-> Holders(k)]
             /\ M!Coincidence(k) \in wanted <=> Holders(k) \in Wanted(k)
<1>1. PICK w : w = M!Coincidence(k) /\ w = [key |-> k, subs |-> Holders(k)]
  BY TogetherHolders DEF M!Coincidence
<1>2. w \in [key : Keys, subs : SUBSET Conns] /\ w.key = k /\ w.subs = Holders(k)
  BY <1>1 DEF Holders
<1> QED  BY <1>1, <1>2

LEMMA DropStep ==
  ASSUME Typed, Typed', UNCHANGED out,
         \A c \in Conns, k \in Keys : Queued(c, k)' => Queued(c, k),
         \A c \in Conns, k \in Keys : Queued(c, k) /\ ~Queued(c, k)' => Holders(k) \notin Wanted(k)
  PROVE  M!Drop
<1> DEFINE wanted == {w \in [key : Keys, subs : SUBSET Conns] : w.subs \in Wanted(w.key)}
<1>1. \A c \in Conns, k \in Keys : <<c, k>> \in Events <=> Queued(c, k)
  BY EventsQueued
<1>2. \A c \in Conns, k \in Keys : <<c, k>> \in Events' <=> Queued(c, k)'
  BY EventsQueuedNext
<1>3. Events \subseteq Conns \X Keys /\ Events' \subseteq Conns \X Keys
  BY DEF Events
<1>4. Events' \subseteq Events
  BY <1>1, <1>2, <1>3
<1>5. ASSUME NEW e \in Events \ Events'
      PROVE  M!Coincidence(e[2]) \notin wanted
  <2>1. PICK c \in Conns, k \in Keys : e = <<c, k>>
    BY <1>3
  <2> QED  BY <1>1, <1>2, <2>1, WantedIs
<1> QED  BY <1>4, <1>5 DEF M!Drop

LEMMA WriteStep ==
  ASSUME Typed, Typed', NEW k \in Keys, Holders(k) # {}, Holders(k) \in Wanted(k),
         out' = Written(k, Holders(k)),
         \A c \in Conns, j \in Keys : Queued(c, j) => k <= j,
         \A c \in Conns, j \in Keys : Queued(c, j)' <=> Queued(c, j) /\ j # k
  PROVE  M!Write(k)
<1>1. \A c \in Conns, j \in Keys : <<c, j>> \in Events <=> Queued(c, j)
  BY EventsQueued
<1>2. \A c \in Conns, j \in Keys : <<c, j>> \in Events' <=> Queued(c, j)'
  BY EventsQueuedNext
<1>3. Events \subseteq Conns \X Keys /\ Events' \subseteq Conns \X Keys
  BY DEF Events
<1>4. M!Together(k) = Holders(k)
  BY TogetherHolders
<1>5. M!Oldest(k)
  <2>1. ASSUME NEW e \in Events  PROVE ~(e[2] < k)
    <3>1. PICK c \in Conns, j \in Keys : e = <<c, j>>
      BY <1>3
    <3>2. k <= j /\ k \in Int /\ j \in Int
      BY <1>1, <3>1, KeysInt
    <3> QED  BY <3>1, <3>2
  <2> QED  BY <1>4, <2>1 DEF M!Oldest
<1>6. Events' = {e \in Events : e[2] # k}
  BY <1>1, <1>2, <1>3
<1> QED  BY <1>5, <1>6, WantedIs DEF M!Write, Written

(* The head of a queue is queued, and nothing in the queue is older. *)
LEMMA HeadOldest ==
  ASSUME Inv, NEW c \in Map, queue[c] # <<>>, HeadOf(c) # NoTag
  PROVE  /\ HeadOf(c) \in Keys /\ Queued(c, HeadOf(c))
         /\ \A k \in Keys : Queued(c, k) => HeadOf(c) <= k
<1>1. queue[c] \in Seq(Tags) /\ Rising(queue[c])
  BY DEF Inv, Typed, QueuesRise
<1> QED  BY <1>1, HeadTail, HeadHas, HeadLeast DEF HeadOf, Queued, Tags

LEMMA DeliverStep ==
  ASSUME Typed, Typed', NEW c \in Conns, NEW k \in Keys, UNCHANGED out,
         \A d \in Conns, j \in Keys : Queued(d, j)' <=> Queued(d, j) \/ (d = c /\ j = k)
  PROVE  M!Deliver(c, k)
<1>1. \A d \in Conns, j \in Keys : <<d, j>> \in Events <=> Queued(d, j)
  BY EventsQueued
<1>2. \A d \in Conns, j \in Keys : <<d, j>> \in Events' <=> Queued(d, j)'
  BY EventsQueuedNext
<1>3. Events \subseteq Conns \X Keys /\ Events' \subseteq Conns \X Keys
  BY DEF Events
<1>4. Events' = Events \cup {<<c, k>>}
  BY <1>1, <1>2, <1>3
<1> QED  BY <1>4 DEF M!Deliver

LEMMA SameStep ==
  ASSUME Typed, Typed', UNCHANGED out,
         \A d \in Conns, j \in Keys : Queued(d, j)' <=> Queued(d, j)
  PROVE  UNCHANGED M!vars
<1>1. \A d \in Conns, j \in Keys : <<d, j>> \in Events <=> Queued(d, j)
  BY EventsQueued
<1>2. \A d \in Conns, j \in Keys : <<d, j>> \in Events' <=> Queued(d, j)'
  BY EventsQueuedNext
<1>3. Events \subseteq Conns \X Keys /\ Events' \subseteq Conns \X Keys
  BY DEF Events
<1>4. Events' = Events
  BY <1>1, <1>2, <1>3
<1> QED  BY <1>4 DEF M!vars

LEMMA ClearStep ==
  ASSUME UNCHANGED out, \A c \in Map' : queue'[c] = <<>>, (wasReset \/ NobodyUp)'
  PROVE  M!Clear
<1>1. Events' = {}
  BY EmptySeq DEF Events, At
<1> QED  BY <1>1 DEF M!Clear
-----------------------------------------------------------------------------
(* What each of the loops takes out of the queues. *)

(* The oldest number k is taken out of all queues; every queue had reached it. *)
TakesOldest(k) ==
  /\ Holders(k) # {}
  /\ \A c \in Conns, j \in Keys : Queued(c, j) => k <= j
  /\ \A c \in Map : \E j \in Keys : k <= j /\ Queued(c, j)
  /\ \A c \in Conns, j \in Keys : Queued(c, j)' <=> Queued(c, j) /\ j # k

(* What is taken out is older than everything in the queue of d, which the
   collector cannot do without. *)
TakesUnmatched(d) ==
  /\ d \in Map /\ \A k \in Keys : \A S \in Wanted(k) : d \in S
  /\ \A c \in Conns, j \in Keys : Queued(c, j)' => Queued(c, j)
  /\ \A c \in Conns, j \in Keys : Queued(c, j) /\ ~Queued(c, j)' =>
        ~Queued(d, j) /\ \E i \in Keys : j < i /\ Queued(d, i)

LEMMA MergeTakes ==
  ASSUME Inv, MergeByTrigger
  PROVE  \E k \in Keys : /\ TakesOldest(k) /\ Holders(k) = SubEvents(k)
                         /\ out' = IF kind = "alpide" /\ Cardinality(Holders(k)) < MinSub
                                   THEN out ELSE Written(k, Holders(k))
<1>1. PICK k \in Keys :
        /\ OldestHead(k) /\ Pops(SubEvents(k)) /\ SubEvents(k) # {}
        /\ out' = IF kind = "alpide" /\ Cardinality(SubEvents(k)) < MinSub
                  THEN out ELSE Written(k, SubEvents(k))
  BY MergePops
<1>2. \A c \in Map : /\ HeadOf(c) \in Keys /\ Queued(c, HeadOf(c)) /\ k <= HeadOf(c)
                     /\ \A j \in Keys : Queued(c, j) => HeadOf(c) <= j
  <2> SUFFICES ASSUME NEW c \in Map
               PROVE  /\ HeadOf(c) \in Keys /\ Queued(c, HeadOf(c)) /\ k <= HeadOf(c)
                      /\ \A j \in Keys : Queued(c, j) => HeadOf(c) <= j
    OBVIOUS
  <2>1. queue[c] # <<>> /\ kind # "hodoscope"
    BY DEF MergeByTrigger, ByTrigger, Inv, Building, AllFilled
  <2>2. HeadOf(c) \in Keys /\ HeadOf(c) # NoTag
    BY <2>1, HeadIsNumber, KeysInt
  <2> QED  BY <1>1, <2>1, <2>2, HeadOldest, KeysInt DEF OldestHead
<1>3. ASSUME NEW c \in Conns, NEW j \in Keys, Queued(c, j)
      PROVE  c \in Map /\ k <= j /\ (j = k => HeadOf(c) = k)
  <2>1. c \in Map
    BY <1>3 DEF Queued
  <2>2. k <= HeadOf(c) /\ HeadOf(c) <= j /\ HeadOf(c) \in Keys
    BY <1>2, <1>3, <2>1
  <2>3. k \in Int /\ HeadOf(c) \in Int /\ j \in Int
    BY <2>2, KeysInt
  <2> QED  BY <2>1, <2>2, <2>3
<1>4. Holders(k) = SubEvents(k)
  <2>1. ASSUME NEW c \in SubEvents(k)  PROVE c \in Holders(k)
    BY <1>2, <2>1 DEF SubEvents, Holders, Inv, Typed
  <2>2. ASSUME NEW c \in Holders(k)  PROVE c \in SubEvents(k)
    BY <1>3, <2>2 DEF SubEvents, Holders
  <2> QED  BY <2>1, <2>2
<1>5. ASSUME NEW c \in Conns, NEW j \in Keys
      PROVE  Queued(c, j)' <=> Queued(c, j) /\ j # k
  BY <1>1, <1>4, PopsQueues DEF SubEvents, Holders
<1> QED  BY <1>1, <1>2, <1>3, <1>4, <1>5 DEF TakesOldest

LEMMA PairTakes ==
  ASSUME Inv, MatchPair, AllFilled
  PROVE  \/ \E k \in Keys : TakesOldest(k) /\ Holders(k) = Pair /\ out' = Written(k, Pair)
         \/ UNCHANGED out /\ \E d \in Pair : TakesUnmatched(d)
<1> DEFINE a == HeadOf(Ahcal)
           b == HeadOf(Partner)
           k == IF a < b THEN a ELSE b
           S == {c \in Pair : HeadOf(c) = k}
<1>1. a \in Keys /\ b \in Keys /\ k \in Keys /\ Map = Pair /\ Pops(S)
  BY MatchPairPops
<1>2. Ahcal # Partner /\ Pair \subseteq Conns
  BY <1>1, SyncAssumption DEF Inv, Typed
<1>3. /\ Queued(Ahcal, a) /\ \A j \in Keys : Queued(Ahcal, j) => a <= j
      /\ Queued(Partner, b) /\ \A j \in Keys : Queued(Partner, j) => b <= j
  BY <1>1, HeadOldest, KeysInt DEF AllFilled, Pair
<1>4. \A c \in Conns, j \in Keys : Queued(c, j)' <=> Queued(c, j) /\ ~(c \in S /\ HeadOf(c) = j)
  <2> HIDE DEF S
  <2> QED  BY <1>1, PopsQueues
<1>5. \A c \in Conns, j \in Keys : Queued(c, j) => c = Ahcal \/ c = Partner
  BY <1>1 DEF Queued, Pair
<1>6. a \in Int /\ b \in Int /\ k \in Int
  BY <1>1, KeysInt
<1>7. CASE a = b
  <2>1. S = Pair /\ k = a
    BY <1>6, <1>7 DEF Pair
  <2>2. Holders(k) = Pair
    <3>1. Queued(Ahcal, k) /\ Queued(Partner, k)
      BY <1>3, <1>7, <2>1
    <3>2. \A c \in Conns : Queued(c, k) => c \in Pair
      BY <1>1, <1>5 DEF Pair
    <3>3. \A c \in Pair : c \in Conns /\ Queued(c, k)
      BY <1>2, <3>1 DEF Pair
    <3> HIDE DEF k
    <3> QED  BY <3>2, <3>3 DEF Holders
  <2>3. TakesOldest(k)
    <3>1. \A c \in Conns, j \in Keys : Queued(c, j) => k <= j
      BY <1>3, <1>5, <1>7, <2>1
    <3>2. \A c \in Map : \E j \in Keys : k <= j /\ Queued(c, j)
      BY <1>1, <1>3, <1>6, <1>7, <2>1 DEF Pair
    <3>3. \A c \in Conns, j \in Keys : Queued(c, j)' <=> Queued(c, j) /\ j # k
      BY <1>4, <1>5, <1>7, <2>1 DEF Pair
    <3> QED  BY <2>2, <3>1, <3>2, <3>3 DEF TakesOldest, Pair
  <2>4. out' = Written(k, Pair)
    BY <1>7, <2>1 DEF MatchPair
  <2> QED  BY <1>1, <2>2, <2>3, <2>4
<1>8. CASE a # b
  <2>1. UNCHANGED out
    BY <1>8 DEF MatchPair
  <2>2. \A j \in Keys : \A T \in Wanted(j) : Ahcal \in T /\ Partner \in T
    BY DEF Wanted, MatchPair, Pair
  <2>3. CASE a < b
    <3>1. S = {Ahcal} /\ k = a
      BY <1>2, <1>6, <2>3 DEF Pair
    <3>2. ~Queued(Partner, a) /\ \E i \in Keys : a < i /\ Queued(Partner, i)
      BY <1>1, <1>3, <1>6, <2>3
    <3>3. TakesUnmatched(Partner)
      BY <1>1, <1>4, <2>2, <3>1, <3>2 DEF TakesUnmatched, Pair
    <3> QED  BY <2>1, <3>3 DEF Pair
  <2>4. CASE b < a
    <3>1. S = {Partner} /\ k = b
      BY <1>2, <1>6, <2>4 DEF Pair
    <3>2. ~Queued(Ahcal, b) /\ \E i \in Keys : b < i /\ Queued(Ahcal, i)
      BY <1>1, <1>3, <1>6, <2>4
    <3>3. TakesUnmatched(Ahcal)
      BY <1>1, <1>4, <2>2, <3>1, <3>2 DEF TakesUnmatched, Pair
    <3> QED  BY <2>1, <3>3 DEF Pair
  <2> QED  BY <1>6, <1>8, <2>3, <2>4
<1> QED  BY <1>7, <1>8

(* The AHCAL event that is compared, and that hodoscopes are popped behind it. *)
LEMMA ComparingAhcal ==
  ASSUME Inv, Comparing
  PROVE  /\ Ahcal \in Map /\ HeadOf(Ahcal) \in Keys /\ Queued(Ahcal, HeadOf(Ahcal))
         /\ HeadOf(Ahcal) \notin Bxid0
         /\ \A j \in Keys : Queued(Ahcal, j) => HeadOf(Ahcal) <= j
         /\ \A j \in Keys : \A S \in Wanted(j) : Ahcal \in S
BY HeadOldest DEF Comparing, Unsynchronized, Inv, Building, Wanted

LEMMA OldTaken ==
  ASSUME Inv, Comparing, NEW S, S \subseteq {c \in Hodoscopes : queue[c] # <<>> /\ TooOld(c)},
         Pops(S)
  PROVE  TakesUnmatched(Ahcal)
<1>1. \A c \in Conns, j \in Keys : Queued(c, j)' <=> Queued(c, j) /\ ~(c \in S /\ HeadOf(c) = j)
  BY PopsQueues
<1>2. ASSUME NEW c \in Conns, NEW j \in Keys, Queued(c, j), ~Queued(c, j)'
      PROVE  ~Queued(Ahcal, j) /\ \E i \in Keys : j < i /\ Queued(Ahcal, i)
  <2>1. j = HeadOf(c) /\ TooOld(c)
    BY <1>1, <1>2
  <2>2. j < HeadOf(Ahcal)
    BY <2>1, KeysInt DEF TooOld
  <2>3. j \in Int /\ HeadOf(Ahcal) \in Int /\ HeadOf(Ahcal) \in Keys
    BY ComparingAhcal, KeysInt
  <2>4. ~(HeadOf(Ahcal) <= j)
    BY <2>2, <2>3
  <2> QED  BY <2>2, <2>3, <2>4, ComparingAhcal
<1> QED  BY <1>1, <1>2, ComparingAhcal DEF TakesUnmatched

LEMMA HodoscopesTaken ==
  ASSUME Inv, MatchHodoscopes
  PROVE  \E k \in Keys \ Bxid0 :
           /\ TakesOldest(k) /\ Ahcal \in Holders(k)
           /\ out' = IF Holders(k) = {Ahcal} THEN out ELSE Written(k, Holders(k))
<1> DEFINE k == HeadOf(Ahcal)
           S == SubEvents(k)
<1>1. /\ Ahcal \in Map /\ k \in Keys \ Bxid0 /\ Queued(Ahcal, k)
      /\ \A j \in Keys : Queued(Ahcal, j) => k <= j
  BY ComparingAhcal DEF MatchHodoscopes
<1>2. ASSUME NEW c \in Map
      PROVE  /\ HeadOf(c) \in Keys /\ Queued(c, HeadOf(c)) /\ k <= HeadOf(c)
             /\ \A j \in Keys : Queued(c, j) => HeadOf(c) <= j
  <2>1. queue[c] # <<>>
    BY DEF MatchHodoscopes, AllFilled
  <2>2. CASE c = Ahcal
    <3>1. k \in Int
      BY <1>1, KeysInt
    <3>2. k <= k
      BY <3>1
    <3> QED  BY <1>1, <2>2, <3>2
  <2>3. CASE c # Ahcal
    <3>1. ~TooOld(c)
      BY <2>3 DEF MatchHodoscopes, Hodoscopes
    <3>2. HeadOf(c) # NoTag /\ ~(HeadOf(c) < k)
      BY <3>1 DEF TooOld
    <3>3. /\ HeadOf(c) \in Keys /\ Queued(c, HeadOf(c))
          /\ \A j \in Keys : Queued(c, j) => HeadOf(c) <= j
      BY <2>1, <3>2, HeadOldest
    <3>4. k \in Int /\ HeadOf(c) \in Int
      BY <1>1, <3>3, KeysInt
    <3> QED  BY <3>2, <3>3, <3>4
  <2> QED  BY <2>2, <2>3
<1>3. ASSUME NEW c \in Conns, NEW j \in Keys, Queued(c, j)
      PROVE  c \in Map /\ k <= j /\ (j = k => HeadOf(c) = k)
  <2>1. c \in Map
    BY <1>3 DEF Queued
  <2>2. k <= HeadOf(c) /\ HeadOf(c) <= j /\ HeadOf(c) \in Keys
    BY <1>2, <1>3, <2>1
  <2>3. k \in Int /\ HeadOf(c) \in Int /\ j \in Int
    BY <1>1, <2>2, KeysInt
  <2> QED  BY <2>1, <2>2, <2>3
<1>4. Holders(k) = S
  <2>1. ASSUME NEW c \in S  PROVE c \in Holders(k)
    BY <1>2, <2>1 DEF SubEvents, Holders, Inv, Typed
  <2>2. ASSUME NEW c \in Holders(k)  PROVE c \in S
    BY <1>1, <1>3, <2>2 DEF SubEvents, Holders
  <2> QED  BY <2>1, <2>2
<1>5. Pops(S)
  <2>1. queue' = Popped(S) /\ S \subseteq Map /\ UNCHANGED <<kind, sent>>
    BY DEF MatchHodoscopes, Comparing, SubEvents
  <2>2. \A c \in S : queue[c] # <<>>
    BY <2>1 DEF MatchHodoscopes, AllFilled
  <2> HIDE DEF S
  <2> QED  BY <2>1, <2>2, PlainPops
<1>6. \A c \in Conns, j \in Keys : Queued(c, j)' <=> Queued(c, j) /\ j # k
  <2>1. \A c \in Conns, j \in Keys : Queued(c, j)' <=> Queued(c, j) /\ ~(c \in S /\ HeadOf(c) = j)
    <3> HIDE DEF S
    <3> QED  BY <1>5, PopsQueues
  <2>2. \A c \in Conns : c \in S <=> Queued(c, k)
    BY <1>4 DEF Holders
  <2>3. \A c \in S : HeadOf(c) = k
    BY DEF SubEvents
  <2> HIDE DEF S
  <2> QED  BY <2>1, <2>2, <2>3
<1>7. Ahcal \in Holders(k)
  BY <1>1, SyncAssumption DEF Holders
<1>8. TakesOldest(k)
  <2>1. \A c \in Conns, j \in Keys : Queued(c, j) => k <= j
    BY <1>3
  <2> QED  BY <1>2, <1>6, <1>7, <2>1 DEF TakesOldest
<1>9. out' = IF Holders(k) = {Ahcal} THEN out ELSE Written(k, Holders(k))
  BY <1>4 DEF MatchHodoscopes
<1> QED  BY <1>1, <1>7, <1>8, <1>9
-----------------------------------------------------------------------------
LEMMA WantedOf ==
  ASSUME NEW S, S \in SUBSET Conns, NEW k
  PROVE  /\ kind = "trigid" /\ S # {} => S \in Wanted(k)
         /\ kind = "alpide" /\ S # {} => (S \in Wanted(k) <=> ~(Cardinality(S) < MinSub))
         /\ kind = "calice" /\ S = Pair => S \in Wanted(k)
         /\ kind = "hodoscope" /\ Ahcal \in S /\ k \notin Bxid0 =>
              (S \in Wanted(k) <=> S # {Ahcal})
<1>1. IsFiniteSet(S) /\ Cardinality(S) \in Nat
  BY SyncAssumption, FS_Subset, FS_CardinalityType
<1>2. ASSUME Ahcal \in S  PROVE Cardinality(S) >= 2 <=> S # {Ahcal}
  <2>1. IsFiniteSet(S \ {Ahcal}) /\ Cardinality(S \ {Ahcal}) = Cardinality(S) - 1
    BY <1>1, <1>2, FS_RemoveElement
  <2>2. Cardinality(S \ {Ahcal}) \in Nat /\ (Cardinality(S \ {Ahcal}) = 0 <=> S \ {Ahcal} = {})
    BY <2>1, FS_CardinalityType, FS_EmptySet
  <2>3. S \ {Ahcal} = {} <=> S = {Ahcal}
    BY <1>2
  <2>4. Cardinality(S) >= 2 <=> Cardinality(S \ {Ahcal}) # 0
    BY <1>1, <2>1, <2>2
  <2> QED  BY <2>2, <2>3, <2>4
<1>3. Cardinality(S) >= MinSub <=> ~(Cardinality(S) < MinSub)
  BY <1>1, SyncAssumption
<1> QED  BY <1>2, <1>3 DEF Wanted

LEMMA DropUnmatched ==
  ASSUME Typed, Typed', UNCHANGED out, NEW d, TakesUnmatched(d)
  PROVE  M!Drop
<1>1. \A c \in Conns, k \in Keys : Queued(c, k)' => Queued(c, k)
  BY DEF TakesUnmatched
<1>2. \A c \in Conns, k \in Keys : Queued(c, k) /\ ~Queued(c, k)' => Holders(k) \notin Wanted(k)
  BY DEF TakesUnmatched, Holders
<1> QED  BY <1>1, <1>2, DropStep

LEMMA WriteOrDrop ==
  ASSUME Typed, Typed', NEW k \in Keys, TakesOldest(k),
         \/ Holders(k) \in Wanted(k) /\ out' = Written(k, Holders(k))
         \/ Holders(k) \notin Wanted(k) /\ UNCHANGED out
  PROVE  M!Next
<1>1. CASE Holders(k) \in Wanted(k) /\ out' = Written(k, Holders(k))
  <2>1. M!Write(k)
    BY <1>1, WriteStep DEF TakesOldest
  <2> QED  BY <2>1 DEF M!Next
<1>2. CASE Holders(k) \notin Wanted(k) /\ UNCHANGED out
  <2>1. M!Drop
    BY <1>2, DropStep DEF TakesOldest
  <2> QED  BY <2>1 DEF M!Next
<1> QED  BY <1>1, <1>2

LEMMA HoldersConns == ASSUME NEW k PROVE Holders(k) \in SUBSET Conns
BY DEF Holders

(* Every step of a collector is a step of Merge, or changes nothing of what
   Merge speaks about. *)
LEMMA StepRefines ==
  ASSUME Inv, Inv', Known, [Next]_vars
  PROVE  [M!Next]_(M!vars)
<1> USE DEF Inv
<1>1. ASSUME NEW c \in Conns, DoConnect(c)  PROVE UNCHANGED M!vars
  <2>1. CASE kind = "calice"
    BY <1>1, <2>1 DEF DoConnect, M!vars, Events, Map, At
  <2>2. CASE kind # "calice"
    <3>1. c \notin Map
      BY <1>1, <2>2 DEF DoConnect, Building
    <3>2. Map' = Map \cup {c} /\ queue'[c] = <<>> /\ \A d \in Map : queue'[d] = queue[d]
      BY <1>1, <2>2, <3>1 DEF DoConnect, Set, Map
    <3>3. \A d \in Conns, j \in Keys : Queued(d, j)' <=> Queued(d, j)
      BY <3>1, <3>2, EmptyHas DEF Queued
    <3> QED  BY <1>1, <3>3, SameStep DEF DoConnect
  <2> QED  BY <2>1, <2>2
<1>2. ASSUME NEW c \in Conns, DoDisconnect(c)  PROVE [M!Next]_(M!vars)
  <2>1. CASE AllLeft(gone \cup {c})
    <3>0. (wasReset \/ NobodyUp)'
      <4>1. wasReset' = wasReset
        BY <1>2 DEF DoDisconnect
      <4> QED  BY <1>2, <2>1, <4>1, AllLeftIs DEF NobodyUp
    <3>1. M!Clear
      BY <1>2, <2>1, <3>0, ClearStep DEF DoDisconnect, EmptyMap, Map
    <3> QED  BY <3>1 DEF M!Next
  <2>2. CASE ~AllLeft(gone \cup {c})
    BY <1>2, <2>2 DEF DoDisconnect, M!vars, Events, Map, At
  <2> QED  BY <2>1, <2>2
<1>3. CASE Reset
  <2>1. \A c \in Map' : queue'[c] = <<>>
    BY <1>3 DEF Reset, EmptyMap, Map
  <2>2. M!Clear
    BY <1>3, <2>1, ClearStep DEF Reset
  <2> QED  BY <2>2 DEF M!Next
<1>4. CASE ReceiveNumbered
  <2>1. PICK c \in Conns, k \in Keys : (\A j \in sent[c] : j < k) /\ DoReceive(c, k)
    BY <1>4 DEF ReceiveNumbered
  <2>2. \A d \in Conns, j \in Keys : Queued(d, j)' <=> Queued(d, j) \/ (d = c /\ j = k)
    BY <2>1, ReceiveKeeps, KeysInt DEF Tags
  <2>3. M!Deliver(c, k)
    BY <2>1, <2>2, DeliverStep DEF DoReceive
  <2> QED  BY <2>3 DEF M!Next
<1>5. CASE ReceiveUntagged
  <2>1. PICK c \in Conns : kind = "hodoscope" /\ DoReceive(c, NoTag)
    BY <1>5 DEF ReceiveUntagged
  <2>2. \A d \in Conns, j \in Keys : Queued(d, j)' <=> Queued(d, j)
    BY <2>1, ReceiveKeeps, KeysInt DEF Tags
  <2> QED  BY <2>1, <2>2, SameStep DEF DoReceive
<1>6. CASE MergeByTrigger
  <2>1. PICK k \in Keys : /\ TakesOldest(k)
                          /\ out' = IF kind = "alpide" /\ Cardinality(Holders(k)) < MinSub
                                    THEN out ELSE Written(k, Holders(k))
    BY <1>6, MergeTakes
  <2>2. Holders(k) # {} /\ kind \in {"trigid", "alpide"}
    BY <1>6, <2>1 DEF MergeByTrigger, ByTrigger, TakesOldest
  <2>3. \/ Holders(k) \in Wanted(k) /\ out' = Written(k, Holders(k))
        \/ Holders(k) \notin Wanted(k) /\ UNCHANGED out
    BY <2>1, <2>2, HoldersConns, WantedOf
  <2> QED  BY <2>1, <2>3, WriteOrDrop
<1>7. CASE MatchPair
  <2>1. CASE AllFilled
    <3>1. CASE \E k \in Keys : TakesOldest(k) /\ Holders(k) = Pair /\ out' = Written(k, Pair)
      <4>1. PICK k \in Keys : TakesOldest(k) /\ Holders(k) = Pair /\ out' = Written(k, Pair)
        BY <3>1
      <4>2. Holders(k) \in Wanted(k)
        BY <1>7, <4>1, HoldersConns, WantedOf DEF MatchPair
      <4> QED  BY <4>1, <4>2, WriteOrDrop
    <3>2. CASE UNCHANGED out /\ \E d \in Pair : TakesUnmatched(d)
      BY <3>2, DropUnmatched DEF M!Next
    <3> QED  BY <1>7, <2>1, <3>1, <3>2, PairTakes
  <2>2. CASE ~AllFilled
    BY <1>7, <2>2 DEF MatchPair, M!vars, Events, Map, At
  <2> QED  BY <2>1, <2>2
<1>8. CASE DropUntagged
  <2>1. Ahcal \in Map /\ HeadOf(Ahcal) \in Unsynchronized /\ kind = "hodoscope"
    BY <1>8 DEF DropUntagged, Building
  <2>2. Pops({Ahcal})
    <3>1. {Ahcal} \subseteq Map /\ (\A c \in {Ahcal} : queue[c] # <<>>) /\ queue' = Popped({Ahcal})
      BY <1>8, <2>1 DEF DropUntagged
    <3>2. UNCHANGED <<kind, sent>>
      BY <1>8 DEF DropUntagged
    <3> QED  BY <3>1, <3>2, PlainPops
  <2>3. \A d \in Conns, j \in Keys :
          Queued(d, j)' <=> Queued(d, j) /\ ~(d \in {Ahcal} /\ HeadOf(d) = j)
    BY <2>2, PopsQueues
  <2>4. \A j \in Keys \cap Bxid0 : Holders(j) \notin Wanted(j)
    BY <2>1 DEF Wanted
  <2>5. M!Drop
    <3>1. \A d \in Conns, j \in Keys : Queued(d, j)' => Queued(d, j)
      BY <2>3
    <3>2. ASSUME NEW d \in Conns, NEW j \in Keys, Queued(d, j), ~Queued(d, j)'
          PROVE  Holders(j) \notin Wanted(j)
      <4>1. j \in Unsynchronized
        BY <2>1, <2>3, <3>2
      <4> QED  BY <2>4, <4>1, KeysInt DEF Unsynchronized
    <3> QED  BY <1>8, <3>1, <3>2, DropStep DEF DropUntagged
  <2> QED  BY <2>5 DEF M!Next
<1>9. CASE BuildEventReturns
  <2>1. CASE UNCHANGED queue
    BY <1>9, <2>1 DEF BuildEventReturns, M!vars, Events, Map, At
  <2>2. CASE Comparing /\ \E S \in SUBSET {c \in Hodoscopes : queue[c] # <<>> /\ TooOld(c)} : queue' = Popped(S)
    <3>1. PICK S \in SUBSET {c \in Hodoscopes : queue[c] # <<>> /\ TooOld(c)} : queue' = Popped(S)
      BY <2>2
    <3>2. Pops(S)
      BY <1>9, <3>1, PlainPops DEF Hodoscopes, BuildEventReturns
    <3>3. TakesUnmatched(Ahcal)
      BY <2>2, <3>2, OldTaken
    <3> QED  BY <1>9, <3>3, DropUnmatched DEF BuildEventReturns, M!Next
  <2> QED  BY <1>9, <2>1, <2>2 DEF BuildEventReturns
<1>10. CASE PopOld
  <2>1. PICK S : S \subseteq {c \in Hodoscopes : queue[c] # <<>> /\ TooOld(c)} /\ queue' = Popped(S)
    BY <1>10 DEF PopOld, AllFilled, Hodoscopes
  <2>2. Pops(S)
    BY <1>10, <2>1, PlainPops DEF Hodoscopes, PopOld
  <2>3. TakesUnmatched(Ahcal)
    BY <1>10, <2>1, <2>2, OldTaken DEF PopOld
  <2> QED  BY <1>10, <2>3, DropUnmatched DEF PopOld, M!Next
<1>11. CASE MatchHodoscopes
  <2>1. PICK k \in Keys \ Bxid0 :
          /\ TakesOldest(k) /\ Ahcal \in Holders(k)
          /\ out' = IF Holders(k) = {Ahcal} THEN out ELSE Written(k, Holders(k))
    BY <1>11, HodoscopesTaken
  <2>2. \/ Holders(k) \in Wanted(k) /\ out' = Written(k, Holders(k))
        \/ Holders(k) \notin Wanted(k) /\ UNCHANGED out
    BY <1>11, <2>1, HoldersConns, WantedOf DEF MatchHodoscopes, Comparing
  <2> QED  BY <2>1, <2>2, WriteOrDrop
<1>12. CASE UNCHANGED vars
  BY <1>12 DEF vars, M!vars, Events, Map, At
<1> QED  BY <1>1, <1>2, <1>3, <1>4, <1>5, <1>6, <1>7, <1>8, <1>9, <1>10, <1>11, <1>12 DEF Next

(* Each of the four collectors, with any set of connections and any numbers,
   implements Merge: it writes the oldest number that is queued, with every
   event of that number; what it pops without writing was not a coincidence it
   wants, which for the hodoscope collector none at BXID 0 is; and counting who
   has left clears the queues only when nobody is connected or after a reset. *)
THEOREM CollectorsImplementMerge == Spec => ImplementsMerge
<1>1. Init => M!Init
  BY EmptySeq DEF Init, M!Init, Events, EmptyMap, Map, At
<1>2. Inv /\ Inv' /\ Known /\ [Next]_vars => [M!Next]_(M!vars)
  BY StepRefines
<1>3. Inv /\ Inv' /\ Known /\ [Next]_vars => Known'
  BY KnownNext
<1> QED  BY <1>1, <1>2, <1>3, KnownInit, SyncInvariant, PTL DEF Spec, ImplementsMerge, M!Spec
-----------------------------------------------------------------------------
(* No coincidence is missed. *)

Senders(k) == {c \in Conns : k \in sent[c]}

(* While the connections are calm, c sends no event of number k any more. *)
PassedBy(c, k) == c \notin Map \/ \E j \in sent[c] : k <= j

(* Number k is settled: nothing is wanted of it, a producer the collector cannot
   do without has passed it without an event, or all have passed it and what
   there was is written. *)
Settled(k) ==
  \/ Wanted(k) = {}
  \/ \E d \in Conns : /\ \A S \in Wanted(k) : d \in S
                      /\ k \notin sent[d] /\ \E j \in sent[d] : k <= j
  \/ /\ \A d \in Conns : PassedBy(d, k)
     /\ Senders(k) \in Wanted(k) =>
          \E i \in DOMAIN out : out[i] = [key |-> k, subs |-> Senders(k)]

(* An event that was sent and is not queued any more is settled. *)
SentSettled ==
  calm => \A c \in Conns, k \in Keys : k \in sent[c] /\ ~Queued(c, k) => Settled(k)

LEMMA OutGrows ==
  ASSUME Typed, NEW k \in Keys, NEW S \in SUBSET Conns
  PROVE  /\ \A i \in DOMAIN out : i \in DOMAIN Written(k, S) /\ Written(k, S)[i] = out[i]
         /\ \E i \in DOMAIN Written(k, S) : Written(k, S)[i] = [key |-> k, subs |-> S]
<1>1. out \in Seq([key : Keys, subs : SUBSET Conns])
  BY DEF Typed
<1>2. [key |-> k, subs |-> S] \in [key : Keys, subs : SUBSET Conns]
  OBVIOUS
<1>3. /\ Len(Written(k, S)) = Len(out) + 1 /\ Len(out) \in Nat
      /\ DOMAIN out = 1 .. Len(out) /\ DOMAIN Written(k, S) = 1 .. Len(out) + 1
      /\ \A i \in 1 .. Len(out) : Written(k, S)[i] = out[i]
      /\ Written(k, S)[Len(out) + 1] = [key |-> k, subs |-> S]
  BY <1>1, <1>2, AppendProperties, LenProperties DEF Written
<1> QED  BY <1>3

(* What was settled stays settled while nobody new connects. *)
LEMMA SettledKept ==
  ASSUME Inv, NEW k \in Keys, Settled(k), Map' \subseteq Map, UNCHANGED <<kind, sent>>,
         \A i \in DOMAIN out : i \in DOMAIN out' /\ out'[i] = out[i]
  PROVE  Settled(k)'
<1>1. Wanted(k)' = Wanted(k) /\ Senders(k)' = Senders(k)
  BY DEF Wanted, Senders
<1>2. \A d \in Conns : PassedBy(d, k) => PassedBy(d, k)'
  BY DEF PassedBy
<1> QED  BY <1>1, <1>2 DEF Settled

(* Every event of a number that is queued nowhere settled is still queued. *)
LEMMA SendersQueued ==
  ASSUME Inv, SentSettled, calm, NEW k \in Keys, ~Settled(k)
  PROVE  Senders(k) = Holders(k)
BY DEF SentSettled, Senders, Holders, Inv, QueuesRise, Queued

LEMMA SentSettledInit == Init => SentSettled
BY DEF Init, SentSettled

LEMMA OldestSettled ==
  ASSUME Inv, SentSettled, calm' => calm, UNCHANGED <<kind, sent>>, Map' \subseteq Map,
         NEW k \in Keys, TakesOldest(k),
         \/ out' = Written(k, Holders(k))
         \/ Holders(k) \notin Wanted(k) /\ UNCHANGED out
  PROVE  SentSettled'
<1> SUFFICES ASSUME calm', NEW c \in Conns, NEW j \in Keys, j \in sent[c], ~Queued(c, j)'
             PROVE  Settled(j)'
  BY DEF SentSettled
<1>1. \A i \in DOMAIN out : i \in DOMAIN out' /\ out'[i] = out[i]
  BY OutGrows, HoldersConns DEF Inv
<1>2. CASE Settled(j)
  BY <1>1, <1>2, SettledKept
<1>3. CASE ~Settled(j)
  <2>1. Queued(c, j) /\ j = k
    BY <1>3 DEF SentSettled, TakesOldest
  <2>2. Senders(k) = Holders(k)
    BY <1>3, <2>1, SendersQueued
  <2>3. ASSUME NEW d \in Conns  PROVE PassedBy(d, k)'
    BY <2>3 DEF PassedBy, TakesOldest, Queued, Inv, QueuesRise
  <2>4. Wanted(k)' = Wanted(k) /\ Senders(k)' = Senders(k)
    BY DEF Wanted, Senders
  <2>5. Senders(k)' \in Wanted(k)' => \E i \in DOMAIN out' : out'[i] = [key |-> k, subs |-> Senders(k)']
    BY <2>2, <2>4, OutGrows, HoldersConns DEF Inv
  <2> QED  BY <2>1, <2>3, <2>5 DEF Settled
<1> QED  BY <1>2, <1>3

LEMMA UnmatchedSettled ==
  ASSUME Inv, SentSettled, calm' => calm, UNCHANGED <<kind, sent, out>>, Map' \subseteq Map,
         NEW d \in Conns, TakesUnmatched(d)
  PROVE  SentSettled'
<1> SUFFICES ASSUME calm', NEW c \in Conns, NEW j \in Keys, j \in sent[c], ~Queued(c, j)'
             PROVE  Settled(j)'
  BY DEF SentSettled
<1>1. CASE Settled(j)
  BY <1>1, SettledKept
<1>2. CASE ~Settled(j)
  <2>1. Queued(c, j)
    BY <1>2 DEF SentSettled
  <2>2. ~Queued(d, j) /\ \E i \in Keys : j < i /\ Queued(d, i)
    BY <2>1 DEF TakesUnmatched
  <2>3. j \notin sent[d]
    BY <1>2, <2>2 DEF SentSettled
  <2>4. \E i \in sent[d] : j <= i
    <3>1. PICK i \in Keys : j < i /\ Queued(d, i)
      BY <2>2
    <3>2. i \in sent[d] /\ i \in Int /\ j \in Int
      BY <3>1, KeysInt DEF Queued, Inv, QueuesRise
    <3> QED  BY <3>1, <3>2
  <2>5. Wanted(j)' = Wanted(j)
    BY DEF Wanted
  <2> QED  BY <2>3, <2>4, <2>5 DEF Settled, TakesUnmatched
<1> QED  BY <1>1, <1>2

(* Steps that change none of what is queued, sent and written. *)
LEMMA SameSettled ==
  ASSUME Inv, SentSettled, calm' => calm, UNCHANGED <<kind, sent, out>>, Map' \subseteq Map,
         \A c \in Conns, j \in Keys : Queued(c, j) => Queued(c, j)'
  PROVE  SentSettled'
BY SettledKept DEF SentSettled

LEMMA ReceiveSettled ==
  ASSUME Inv, Inv', SentSettled, ReceiveNumbered
  PROVE  SentSettled'
<1>1. PICK c \in Conns, k \in Keys : (\A j \in sent[c] : j < k) /\ DoReceive(c, k)
  BY DEF ReceiveNumbered
<1>2. /\ Map' = Map \cup {c}
      /\ \A d \in Conns, j \in Keys : Queued(d, j)' <=> Queued(d, j) \/ (d = c /\ j = k)
  BY <1>1, ReceiveKeeps, KeysInt DEF Tags
<1>3. sent' = [sent EXCEPT ![c] = @ \cup {k}] /\ kind' = kind /\ out' = out
  BY <1>1, KeysInt DEF DoReceive
<1> SUFFICES ASSUME calm', NEW d \in Conns, NEW j \in Keys, j \in sent'[d], ~Queued(d, j)'
             PROVE  Settled(j)'
  BY DEF SentSettled
<1>4. calm /\ Map' = Map /\ c \in Map
  BY <1>1, <1>2 DEF DoReceive
<1>5. Settled(j)
  BY <1>2, <1>3, <1>4 DEF SentSettled, Inv, Typed
<1>6. Wanted(j)' = Wanted(j)
  BY <1>3 DEF Wanted
<1>7. \A x \in Conns : sent[x] \subseteq sent'[x] /\ (x # c => sent'[x] = sent[x])
  BY <1>3 DEF Inv, Typed
<1>8. sent'[c] = sent[c] \cup {k} /\ sent[c] \subseteq Keys
  BY <1>3 DEF Inv, Typed
<1>9. ASSUME \E i \in sent[c] : j <= i  PROVE j # k
  <2>1. PICK i \in sent[c] : j <= i
    BY <1>9
  <2>2. i \in Int /\ j \in Int /\ k \in Int /\ i < k
    BY <1>1, <1>8, KeysInt
  <2> QED  BY <2>1, <2>2
<1>10. CASE \E x \in Conns : /\ \A S \in Wanted(j) : x \in S
                             /\ j \notin sent[x] /\ \E i \in sent[x] : j <= i
  <2>1. PICK x \in Conns : /\ \A S \in Wanted(j) : x \in S
                           /\ j \notin sent[x] /\ \E i \in sent[x] : j <= i
    BY <1>10
  <2>2. j \notin sent'[x] /\ \E i \in sent'[x] : j <= i
    BY <1>7, <1>8, <1>9, <2>1
  <2> QED  BY <1>6, <2>1, <2>2 DEF Settled
<1>11. CASE /\ \A x \in Conns : PassedBy(x, j)
            /\ Senders(j) \in Wanted(j) =>
                 \E i \in DOMAIN out : out[i] = [key |-> j, subs |-> Senders(j)]
  <2>1. j # k
    BY <1>4, <1>9, <1>11 DEF PassedBy
  <2>2. Senders(j)' = Senders(j)
    BY <1>7, <1>8, <2>1 DEF Senders
  <2>3. \A x \in Conns : PassedBy(x, j)'
    BY <1>4, <1>7, <1>11 DEF PassedBy
  <2> QED  BY <1>3, <1>6, <1>11, <2>2, <2>3 DEF Settled
<1>12. CASE Wanted(j) = {}
  BY <1>6, <1>12 DEF Settled
<1> QED  BY <1>5, <1>10, <1>11, <1>12 DEF Settled

LEMMA SentSettledNext ==
  ASSUME Inv, Inv', Known, SentSettled, [Next]_vars
  PROVE  SentSettled'
<1>1. ASSUME NEW c \in Conns, DoConnect(c)  PROVE SentSettled'
  BY <1>1 DEF DoConnect, SentSettled
<1>2. ASSUME NEW c \in Conns, DoDisconnect(c)  PROVE SentSettled'
  <2>1. CASE AllLeft(gone \cup {c})
    <3>1. calm' => calm /\ \E d \in Conns \ {c} : link[d] = "up"
      BY <1>2 DEF DoDisconnect
    <3>2. \A d \in Conns \ {c} : link'[d] = link[d]
      BY <1>2 DEF DoDisconnect, Inv, Typed
    <3>3. ~calm'
      BY <1>2, <2>1, <3>1, <3>2, AllLeftIs DEF Known
    <3> QED  BY <3>3 DEF SentSettled
  <2>2. CASE ~AllLeft(gone \cup {c})
    <3>1. UNCHANGED <<kind, queue, sent, out>> /\ (calm' => calm)
      BY <1>2, <2>2 DEF DoDisconnect
    <3> QED  BY <3>1, SameSettled DEF Queued, Map
  <2> QED  BY <2>1, <2>2
<1>3. CASE Reset
  BY <1>3 DEF Reset, SentSettled
<1>4. CASE ReceiveNumbered
  BY <1>4, ReceiveSettled
<1>5. CASE ReceiveUntagged
  <2>1. PICK c \in Conns : kind = "hodoscope" /\ DoReceive(c, NoTag)
    BY <1>5 DEF ReceiveUntagged
  <2>2. /\ Map' = Map \cup {c} /\ c \in Map
        /\ \A d \in Conns, j \in Keys : Queued(d, j)' <=> Queued(d, j)
    BY <2>1, ReceiveKeeps, KeysInt DEF Tags, DoReceive, ByTrigger
  <2>3. UNCHANGED <<kind, sent, out>> /\ (calm' => calm)
    BY <2>1 DEF DoReceive
  <2> QED  BY <2>2, <2>3, SameSettled
<1>6. CASE MergeByTrigger
  <2>1. PICK k \in Keys : /\ TakesOldest(k)
                          /\ out' = IF kind = "alpide" /\ Cardinality(Holders(k)) < MinSub
                                    THEN out ELSE Written(k, Holders(k))
    BY <1>6, MergeTakes
  <2>2. Holders(k) # {} /\ kind \in {"trigid", "alpide"} /\ UNCHANGED <<kind, sent, calm>>
    BY <1>6, <2>1 DEF MergeByTrigger, ByTrigger, TakesOldest
  <2>3. \/ out' = Written(k, Holders(k))
        \/ Holders(k) \notin Wanted(k) /\ UNCHANGED out
    BY <2>1, <2>2, HoldersConns, WantedOf
  <2>4. Map' \subseteq Map
    BY <1>6, MergePops, PopsQueues
  <2> QED  BY <2>1, <2>2, <2>3, <2>4, OldestSettled
<1>7. CASE MatchPair
  <2>1. UNCHANGED <<kind, sent, calm>>
    BY <1>7 DEF MatchPair
  <2>2. CASE AllFilled
    <3>1. Map' = Map /\ Pair \subseteq Conns
      BY <1>7, <2>2, MatchPairPops DEF Inv, Typed
    <3>2. CASE \E k \in Keys : TakesOldest(k) /\ Holders(k) = Pair /\ out' = Written(k, Pair)
      BY <2>1, <3>1, <3>2, OldestSettled
    <3>3. CASE UNCHANGED out /\ \E d \in Pair : TakesUnmatched(d)
      BY <2>1, <3>1, <3>3, UnmatchedSettled
    <3> QED  BY <1>7, <2>2, <3>2, <3>3, PairTakes
  <2>3. CASE ~AllFilled
    <3>1. UNCHANGED <<queue, out>>
      BY <1>7, <2>3 DEF MatchPair
    <3> QED  BY <2>1, <3>1, SameSettled DEF Queued, Map
  <2> QED  BY <2>2, <2>3
<1>8. CASE DropUntagged
  <2>1. UNCHANGED <<kind, sent, out, calm>>
    BY <1>8 DEF DropUntagged
  <2>2. {Ahcal} \subseteq Map /\ (\A c \in {Ahcal} : queue[c] # <<>>) /\ queue' = Popped({Ahcal})
    BY <1>8 DEF DropUntagged, Inv, Building
  <2>3. Pops({Ahcal}) /\ Map' = Map
    BY <2>1, <2>2, PlainPops
  <2>4. \A d \in Conns, j \in Keys :
          Queued(d, j)' <=> Queued(d, j) /\ ~(d \in {Ahcal} /\ HeadOf(d) = j)
    BY <2>3, PopsQueues
  <2>5. HeadOf(Ahcal) \in Unsynchronized /\ kind' = "hodoscope"
    BY <1>8 DEF DropUntagged
  <2> SUFFICES ASSUME calm', NEW c \in Conns, NEW j \in Keys, j \in sent[c], ~Queued(c, j)'
               PROVE  Settled(j)'
    BY <2>1 DEF SentSettled
  <2>6. CASE Queued(c, j)
    <3>1. j \in Bxid0
      BY <2>4, <2>5, <2>6, KeysInt DEF Unsynchronized
    <3>2. Wanted(j)' = {}
      BY <2>5, <3>1 DEF Wanted
    <3> QED  BY <3>2 DEF Settled
  <2>7. CASE ~Queued(c, j)
    <3>1. Settled(j)
      BY <2>1, <2>7 DEF SentSettled
    <3> QED  BY <2>1, <2>3, <3>1, SettledKept
  <2> QED  BY <2>6, <2>7
<1>9. CASE BuildEventReturns
  <2>1. UNCHANGED <<kind, sent, out, calm>>
    BY <1>9 DEF BuildEventReturns
  <2>2. CASE UNCHANGED queue
    BY <2>1, <2>2, SameSettled DEF Queued, Map
  <2>3. CASE Comparing /\ \E S \in SUBSET {c \in Hodoscopes : queue[c] # <<>> /\ TooOld(c)} : queue' = Popped(S)
    <3>1. PICK S \in SUBSET {c \in Hodoscopes : queue[c] # <<>> /\ TooOld(c)} : queue' = Popped(S)
      BY <2>3
    <3>2. Pops(S) /\ Map' = Map
      BY <2>1, <3>1, PlainPops DEF Hodoscopes
    <3>3. TakesUnmatched(Ahcal)
      BY <2>3, <3>2, OldTaken
    <3> QED  BY <2>1, <3>2, <3>3, UnmatchedSettled, SyncAssumption
  <2> QED  BY <1>9, <2>2, <2>3 DEF BuildEventReturns
<1>10. CASE PopOld
  <2>1. UNCHANGED <<kind, sent, out, calm>>
    BY <1>10 DEF PopOld
  <2>2. PICK S : S \subseteq {c \in Hodoscopes : queue[c] # <<>> /\ TooOld(c)} /\ queue' = Popped(S)
    BY <1>10 DEF PopOld, AllFilled, Hodoscopes
  <2>3. Pops(S) /\ Map' = Map
    BY <2>1, <2>2, PlainPops DEF Hodoscopes
  <2>4. TakesUnmatched(Ahcal)
    BY <1>10, <2>2, <2>3, OldTaken DEF PopOld
  <2> QED  BY <2>1, <2>3, <2>4, UnmatchedSettled, SyncAssumption
<1>11. CASE MatchHodoscopes
  <2>1. PICK k \in Keys \ Bxid0 :
          /\ TakesOldest(k) /\ Ahcal \in Holders(k)
          /\ out' = IF Holders(k) = {Ahcal} THEN out ELSE Written(k, Holders(k))
    BY <1>11, HodoscopesTaken
  <2>2. \/ out' = Written(k, Holders(k))
        \/ Holders(k) \notin Wanted(k) /\ UNCHANGED out
    BY <1>11, <2>1, HoldersConns, WantedOf DEF MatchHodoscopes, Comparing
  <2>3. UNCHANGED <<kind, sent, calm>> /\ Map' = Map
    BY <1>11 DEF MatchHodoscopes, Popped, Map
  <2> QED  BY <2>1, <2>2, <2>3, OldestSettled
<1>12. CASE UNCHANGED vars
  <2>1. UNCHANGED <<kind, queue, sent, out, calm>>
    BY <1>12 DEF vars
  <2> QED  BY <2>1, SameSettled DEF Queued, Map
<1> QED  BY <1>1, <1>2, <1>3, <1>4, <1>5, <1>6, <1>7, <1>8, <1>9, <1>10, <1>11, <1>12 DEF Next

LEMMA SettledWritten == Inv /\ SentSettled => CoincidenceWritten
<1> SUFFICES ASSUME Inv, SentSettled, calm, NEW k \in Keys, Senders(k) \in Wanted(k),
                    \A c \in Conns : <<c, k>> \notin Events
             PROVE  \E i \in DOMAIN out : out[i] = [key |-> k, subs |-> Senders(k)]
  BY DEF CoincidenceWritten, Senders
<1>1. Senders(k) # {}
  BY DEF Wanted, Inv, Typed, Pair
<1>2. PICK c \in Conns : k \in sent[c]
  BY <1>1 DEF Senders
<1>3. ~Queued(c, k)
  BY EventsQueued DEF Inv
<1>4. Settled(k)
  BY <1>2, <1>3 DEF SentSettled
<1> QED  BY <1>4 DEF Settled, Senders

(* While the connections are calm, no collector misses a coincidence, however
   the events of the producers interleave: once a number is queued nowhere, it
   was written with everyone who sent it, if that is a coincidence it wants.
   The hodoscope collector wants, and so may lose, none at BXID 0. *)
THEOREM NoCoincidenceMissed == Spec => []CoincidenceWritten
<1>1. Inv /\ Inv' /\ Known /\ SentSettled /\ [Next]_vars => SentSettled'
  BY SentSettledNext
<1>2. Inv /\ Inv' /\ Known /\ [Next]_vars => Known'
  BY KnownNext
<1> QED  BY <1>1, <1>2, KnownInit, SyncInvariant, SentSettledInit, SettledWritten, PTL DEF Spec
-----------------------------------------------------------------------------
(* Nothing waits that could be merged. *)

(* The conditions under which the trigger number collectors keep up. *)
Steady == ByTrigger /\ calm /\ Gapless /\ \A c \in Conns : link[c] # "left"

(* After m merges, every queue holds the numbers that follow m. *)
InStep(m) ==
  \A c \in Map : /\ \A i \in 1 .. Len(queue[c]) : queue[c][i] = m + i
                 /\ sent[c] = 1 .. m + Len(queue[c])

TriggersKeepUp ==
  Steady => /\ \E m \in Nat : InStep(m)
            /\ pc = "idle" /\ Map # {} => \E c \in Map : queue[c] = <<>>
            /\ pc = "build" => \E c \in Map : Len(queue[c]) = 1

OthersKeepUp ==
  ~ByTrigger /\ pc = "idle" /\ Proceeds(queue) => \E c \in Map : queue[c] = <<>>

KeepUp == GoneLeft /\ TriggersKeepUp /\ OthersKeepUp

LEMMA KeepUpWaits == KeepUp => NothingWaits
<1> SUFFICES ASSUME KeepUp, pc = "idle", Proceeds(queue), Map # {},
                    ByTrigger => calm /\ Gapless /\ \A c \in Conns : link[c] # "left"
             PROVE  \E c \in Map : queue[c] = <<>>
  BY DEF NothingWaits
<1> QED  BY DEF KeepUp, TriggersKeepUp, OthersKeepUp, Steady

LEMMA KeepUpInit == Init => KeepUp
<1> SUFFICES ASSUME Init PROVE KeepUp
  OBVIOUS
<1>1. ByTrigger => Map = {}
  BY DEF Init, ByTrigger, Map, EmptyMap
<1>2. TriggersKeepUp
  <2>1. ASSUME ByTrigger  PROVE InStep(0)
    BY <1>1, <2>1 DEF InStep
  <2> QED  BY <1>1, <2>1 DEF TriggersKeepUp, Steady, Init
<1>3. OthersKeepUp
  <2>1. CASE kind = "calice"
    BY <2>1 DEF Init, OthersKeepUp, Map, Pair
  <2>2. CASE kind # "calice"
    BY <2>2, SyncAssumption DEF Init, OthersKeepUp, Proceeds, ByTrigger, EmptyMap
  <2> QED  BY <2>1, <2>2
<1> QED  BY <1>2, <1>3 DEF KeepUp, GoneLeft, Init

LEMMA OthersNext ==
  ASSUME Inv, OthersKeepUp, [Next]_vars
  PROVE  OthersKeepUp'
<1>1. ASSUME NEW c \in Conns, DoConnect(c)  PROVE OthersKeepUp'
  <2>1. CASE kind = "calice"
    BY <1>1, <2>1 DEF DoConnect, OthersKeepUp, ByTrigger, Proceeds, Map
  <2>2. CASE kind # "calice"
    BY <1>1, <2>2 DEF DoConnect, OthersKeepUp, Set, Map
  <2> QED  BY <2>1, <2>2
<1>2. ASSUME NEW c \in Conns, DoDisconnect(c)  PROVE OthersKeepUp'
  <2>1. CASE AllLeft(gone \cup {c})
    BY <1>2, <2>1 DEF DoDisconnect, OthersKeepUp, Proceeds, ByTrigger, EmptyMap, Inv, Typed
  <2>2. CASE ~AllLeft(gone \cup {c})
    BY <1>2, <2>2 DEF DoDisconnect, OthersKeepUp, Proceeds, ByTrigger, Map
  <2> QED  BY <2>1, <2>2
<1>3. CASE Reset
  <2>1. CASE kind = "calice"
    BY <1>3, <2>1 DEF Reset, OthersKeepUp, Map, Pair
  <2>2. CASE kind # "calice"
    BY <1>3, <2>2 DEF Reset, OthersKeepUp, ByTrigger, Inv, Typed
  <2> QED  BY <2>1, <2>2
<1>4. CASE ReceiveNumbered \/ ReceiveUntagged
  <2>1. PICK c \in Conns, k \in Tags : DoReceive(c, k)
    BY <1>4 DEF ReceiveNumbered, ReceiveUntagged, Tags
  <2>2. kind' = kind /\ pc' = IF Proceeds(queue') THEN "build" ELSE "idle"
    BY <2>1 DEF DoReceive
  <2> QED  BY <2>2 DEF OthersKeepUp, Proceeds, ByTrigger
<1>5. CASE MergeByTrigger
  BY <1>5 DEF MergeByTrigger, OthersKeepUp, ByTrigger
<1>6. CASE MatchPair
  <2>1. CASE AllFilled
    BY <1>6, <2>1 DEF MatchPair, OthersKeepUp
  <2>2. CASE ~AllFilled
    BY <1>6, <2>2 DEF MatchPair, OthersKeepUp, AllFilled, Map
  <2> QED  BY <2>1, <2>2
<1>7. CASE DropUntagged \/ PopOld \/ MatchHodoscopes
  BY <1>7 DEF DropUntagged, PopOld, MatchHodoscopes, Comparing, OthersKeepUp
<1>8. CASE BuildEventReturns
  <2>1. Ahcal \in Map
    BY <1>8 DEF BuildEventReturns, Inv, Building
  <2>2. CASE queue[Ahcal] = <<>> /\ UNCHANGED queue
    BY <2>1, <2>2 DEF OthersKeepUp, Map
  <2>3. CASE /\ \E c \in Hodoscopes : queue[c] = <<>>
             /\ \E S \in SUBSET {c \in Hodoscopes : queue[c] # <<>> /\ TooOld(c)} : queue' = Popped(S)
    <3>1. PICK c \in Hodoscopes, S \in SUBSET {d \in Hodoscopes : queue[d] # <<>> /\ TooOld(d)} :
            queue[c] = <<>> /\ queue' = Popped(S)
      BY <2>3
    <3>2. c \in Map /\ c \notin S
      BY <3>1 DEF Hodoscopes
    <3>3. Map' = Map /\ queue'[c] = <<>>
      BY <3>1, <3>2 DEF Popped, Map
    <3> QED  BY <3>2, <3>3 DEF OthersKeepUp
  <2> QED  BY <1>8, <2>2, <2>3 DEF BuildEventReturns
<1>9. CASE UNCHANGED vars
  BY <1>9 DEF vars, OthersKeepUp, Proceeds, ByTrigger, Map
<1> QED  BY <1>1, <1>2, <1>3, <1>4, <1>5, <1>6, <1>7, <1>8, <1>9 DEF Next

(* A producer that has skipped no number so far had not before. *)
LEMMA GaplessBefore ==
  ASSUME Inv, NEW c \in Conns, NEW k \in Keys, \A j \in sent[c] : j < k,
         sent' = [sent EXCEPT ![c] = @ \cup {k}], Gapless'
  PROVE  Gapless
<1> SUFFICES ASSUME NEW d \in Conns, NEW i \in Keys, NEW j \in Keys, j \in sent[d], i < j
             PROVE  i \in sent[d]
  BY DEF Gapless
<1>1. j \in sent'[d]
  BY DEF Inv, Typed
<1>2. i \in sent'[d]
  BY <1>1 DEF Gapless
<1>3. CASE d = c
  <2>1. j < k /\ i \in Int /\ j \in Int /\ k \in Int
    BY <1>3, KeysInt
  <2>2. i # k
    BY <2>1
  <2> QED  BY <1>2, <1>3, <2>2 DEF Inv, Typed
<1>4. CASE d # c
  BY <1>2, <1>4 DEF Inv, Typed
<1> QED  BY <1>3, <1>4

(* The number a steady producer sends next is the one after its last. *)
LEMMA NextNumber ==
  ASSUME Inv, NEW c \in Conns, NEW k \in Keys, \A j \in sent[c] : j < k, NEW n \in Nat,
         sent[c] = 1 .. n, sent' = [sent EXCEPT ![c] = @ \cup {k}], Gapless'
  PROVE  k = n + 1 /\ sent'[c] = 1 .. n + 1
<1>1. k \in Int /\ k >= 1 /\ k <= MaxKey /\ MaxKey \in Int
  BY SyncAssumption DEF Keys
<1>2. k > n
  BY <1>1
<1>3. sent'[c] = 1 .. n \cup {k}
  BY DEF Inv, Typed
<1>4. ~(k > n + 1)
  <2>1. SUFFICES ASSUME k > n + 1 PROVE FALSE
    OBVIOUS
  <2>2. n + 1 \in Keys /\ n + 1 < k
    BY <1>1, <2>1 DEF Keys
  <2>3. n + 1 \in sent'[c]
    BY <1>3, <2>2 DEF Gapless
  <2> QED  BY <1>1, <1>3, <2>1, <2>3
<1>5. k = n + 1
  BY <1>1, <1>2, <1>4
<1>6. 1 .. n + 1 = 1 .. n \cup {n + 1}
  OBVIOUS
<1> QED  BY <1>3, <1>5, <1>6

LEMMA TriggersReceive ==
  ASSUME Inv, Inv', TriggersKeepUp, ReceiveNumbered, Steady'
  PROVE  TriggersKeepUp'
<1>1. PICK c \in Conns, k \in Keys : (\A j \in sent[c] : j < k) /\ DoReceive(c, k)
  BY DEF ReceiveNumbered
<1>2. /\ UNCHANGED <<kind, link>> /\ sent' = [sent EXCEPT ![c] = @ \cup {k}] /\ pc = "idle"
      /\ calm /\ c \in Map /\ queue' = Set(c, Append(At(c), k))
      /\ pc' = IF Proceeds(queue') THEN "build" ELSE "idle"
  BY <1>1, KeysInt DEF DoReceive, Steady
<1>3. Steady
  BY <1>1, <1>2, GaplessBefore DEF Steady, ByTrigger
<1>4. PICK m \in Nat : InStep(m)
  BY <1>3 DEF TriggersKeepUp
<1> DEFINE q == queue[c]
           n == m + Len(q)
<1>5. q \in Seq(Tags) /\ Len(q) \in Nat /\ n \in Nat /\ At(c) = q
  BY <1>2, LenProperties DEF Inv, Typed, At
<1>6. sent[c] = 1 .. n /\ \A i \in 1 .. Len(q) : q[i] = m + i
  BY <1>2, <1>4 DEF InStep
<1>7. k = n + 1 /\ sent'[c] = 1 .. n + 1
  <2>1. Gapless' /\ sent' = [sent EXCEPT ![c] = @ \cup {k}] /\ \A j \in sent[c] : j < k
    BY <1>1, <1>2 DEF Steady
  <2> HIDE DEF n
  <2> QED  BY <1>1, <1>5, <1>6, <2>1, NextNumber
<1>8. Map' = Map /\ queue'[c] = Append(q, k) /\ \A d \in Map \ {c} : queue'[d] = queue[d]
  BY <1>2, <1>5 DEF Set, Map
<1>9. /\ Len(Append(q, k)) = Len(q) + 1 /\ Append(q, k)[Len(q) + 1] = k
      /\ \A i \in 1 .. Len(q) : Append(q, k)[i] = q[i]
  <2> HIDE DEF q
  <2>1. k \in Tags
    BY DEF Tags
  <2> QED  BY <1>5, <2>1, AppendProperties
<1>10. InStep(m)'
  <2> SUFFICES ASSUME NEW d \in Map
               PROVE  /\ \A i \in 1 .. Len(queue'[d]) : queue'[d][i] = m + i
                      /\ sent'[d] = 1 .. m + Len(queue'[d])
    BY <1>8 DEF InStep
  <2>1. CASE d = c
    <3>1. Len(queue'[c]) = Len(q) + 1
      BY <1>8, <1>9
    <3>2. sent'[c] = 1 .. m + (Len(q) + 1)
      BY <1>5, <1>7
    <3>3. ASSUME NEW i \in 1 .. Len(q) + 1  PROVE Append(q, k)[i] = m + i
      BY <1>5, <1>6, <1>7, <1>9
    <3> QED  BY <1>8, <2>1, <3>1, <3>2, <3>3
  <2>2. CASE d # c
    <3>1. queue'[d] = queue[d] /\ sent'[d] = sent[d]
      BY <1>2, <1>8, <2>2 DEF Inv, Typed
    <3> QED  BY <1>4, <3>1 DEF InStep
  <2> QED  BY <2>1, <2>2
<1>11. PICK e \in Map : queue[e] = <<>>
  BY <1>2, <1>3 DEF TriggersKeepUp
<1>12. CASE e = c
  <2>1. Len(queue'[c]) = 1
    BY <1>8, <1>9, <1>11, <1>12, EmptySeq
  <2>2. pc' = "idle" => \E d \in Map' : queue'[d] = <<>>
    BY <1>2, <1>3, <1>8 DEF Proceeds, Steady, ByTrigger, Map
  <2> QED  BY <1>2, <1>8, <1>10, <2>1, <2>2 DEF TriggersKeepUp
<1>13. CASE e # c
  <2>1. queue'[e] = <<>> /\ e \in Map'
    BY <1>8, <1>11, <1>13
  <2>2. pc' = "idle"
    BY <1>2, <1>3, <2>1 DEF Proceeds, Steady, ByTrigger, Map
  <2> QED  BY <1>10, <2>1, <2>2 DEF TriggersKeepUp
<1> QED  BY <1>12, <1>13

LEMMA TriggersMerge ==
  ASSUME Inv, Inv', GoneLeft, TriggersKeepUp, MergeByTrigger, Steady'
  PROVE  TriggersKeepUp'
<1>1. UNCHANGED <<kind, link, sent, calm>> /\ pc = "build" /\ pc' = "idle"
  BY DEF MergeByTrigger
<1>2. Steady
  BY <1>1 DEF Steady, ByTrigger, Gapless
<1>3. PICK m \in Nat : InStep(m)
  BY <1>2 DEF TriggersKeepUp
<1>4. PICK e \in Map : Len(queue[e]) = 1
  BY <1>1, <1>2 DEF TriggersKeepUp
<1>5. PICK k \in Keys :
        /\ OldestHead(k)
        /\ queue' = [c \in Map \ Over(Popped(SubEvents(k))) |-> Popped(SubEvents(k))[c]]
  BY DEF MergeByTrigger
<1>6. ASSUME NEW c \in Map
      PROVE  /\ queue[c] \in Seq(Tags) /\ queue[c] # <<>> /\ Len(queue[c]) \in Nat
             /\ HeadOf(c) = m + 1 /\ Tail(queue[c]) \in Seq(Tags)
             /\ Len(Tail(queue[c])) = Len(queue[c]) - 1
             /\ \A i \in 1 .. Len(queue[c]) - 1 : Tail(queue[c])[i] = (m + 1) + i
  <2>1. queue[c] \in Seq(Tags) /\ queue[c] # <<>>
    BY DEF MergeByTrigger, Inv, Typed, Building, AllFilled
  <2>2. /\ Len(queue[c]) \in Nat /\ Len(queue[c]) >= 1 /\ HeadOf(c) = queue[c][1]
        /\ Tail(queue[c]) \in Seq(Tags) /\ Len(Tail(queue[c])) = Len(queue[c]) - 1
        /\ \A i \in 1 .. Len(queue[c]) - 1 : Tail(queue[c])[i] = queue[c][i + 1]
    BY <2>1, HeadTail DEF HeadOf
  <2>3. \A i \in 1 .. Len(queue[c]) : queue[c][i] = m + i
    BY <1>3 DEF InStep
  <2>4. HeadOf(c) = m + 1
    BY <2>2, <2>3
  <2>5. ASSUME NEW i \in 1 .. Len(queue[c]) - 1  PROVE Tail(queue[c])[i] = (m + 1) + i
    <3>1. i + 1 \in 1 .. Len(queue[c])
      BY <2>2
    <3>2. Tail(queue[c])[i] = m + (i + 1)
      BY <2>2, <2>3, <3>1
    <3> QED  BY <3>2
  <2> QED  BY <2>1, <2>2, <2>4, <2>5
<1>7. SubEvents(k) = Map
  BY <1>5, <1>6 DEF OldestHead, SubEvents
<1>8. Over(Popped(SubEvents(k))) = {}
  BY <1>2 DEF Over, GoneLeft, Steady, Inv, Typed
<1>9. Map' = Map /\ \A c \in Map : queue'[c] = Tail(queue[c])
  BY <1>5, <1>7, <1>8 DEF Popped, Map
<1>10. InStep(m + 1)'
  <2> SUFFICES ASSUME NEW c \in Map
               PROVE  /\ \A i \in 1 .. Len(queue'[c]) : queue'[c][i] = (m + 1) + i
                      /\ sent[c] = 1 .. (m + 1) + Len(queue'[c])
    BY <1>1, <1>9 DEF InStep
  <2>1. sent[c] = 1 .. m + Len(queue[c])
    BY <1>3 DEF InStep
  <2>2. m + Len(queue[c]) = (m + 1) + (Len(queue[c]) - 1)
    <3>1. Len(queue[c]) \in Nat
      BY <1>6
    <3>2. \A a, b \in Nat : a + b = (a + 1) + (b - 1)
      OBVIOUS
    <3> QED  BY <1>3, <3>1, <3>2
  <2> QED  BY <1>6, <1>9, <2>1, <2>2
<1>11. queue'[e] = <<>>
  <2>1. Tail(queue[e]) \in Seq(Tags) /\ Len(Tail(queue[e])) = 0
    BY <1>4, <1>6
  <2> QED  BY <1>9, <2>1, EmptySeq
<1> QED  BY <1>1, <1>9, <1>10, <1>11 DEF TriggersKeepUp

LEMMA TriggersNext ==
  ASSUME Inv, Inv', GoneLeft, TriggersKeepUp, [Next]_vars
  PROVE  TriggersKeepUp'
<1> SUFFICES ASSUME Steady' PROVE TriggersKeepUp'
  BY DEF TriggersKeepUp
<1>1. ASSUME NEW c \in Conns, DoConnect(c)  PROVE TriggersKeepUp'
  <2>1. /\ UNCHANGED <<kind, pc, sent>> /\ pc = "idle" /\ link[c] = "new"
        /\ link' = [link EXCEPT ![c] = "up"] /\ calm /\ (\A d \in Conns : sent[d] = {})
    BY <1>1 DEF DoConnect, Steady
  <2>2. ByTrigger /\ kind # "calice"
    BY <2>1 DEF Steady, ByTrigger
  <2>3. Steady
    BY <2>1, <2>2 DEF Steady, Gapless, Inv, Typed
  <2>4. PICK m \in Nat : InStep(m)
    BY <2>3 DEF TriggersKeepUp
  <2>5. Map' = Map \cup {c} /\ queue'[c] = <<>> /\ \A d \in Map \ {c} : queue'[d] = queue[d]
    BY <1>1, <2>2 DEF DoConnect, Set, Map
  <2>6. ASSUME NEW d \in Map'  PROVE Len(queue'[d]) = 0
    <3>1. CASE d = c
      BY <2>5, <3>1, EmptySeq
    <3>2. CASE d # c
      <4>1. d \in Map /\ queue[d] \in Seq(Tags) /\ sent[d] = {} /\ queue'[d] = queue[d]
        BY <2>1, <2>5, <3>2 DEF Inv, Typed
      <4>2. 1 .. m + Len(queue[d]) = {} /\ Len(queue[d]) \in Nat
        BY <2>4, <4>1, LenProperties DEF InStep
      <4>3. m + Len(queue[d]) = 0
        BY <4>2
      <4> QED  BY <4>1, <4>2, <4>3
    <3> QED  BY <3>1, <3>2
  <2>7. InStep(0)'
    <3> SUFFICES ASSUME NEW d \in Map'
                 PROVE  /\ \A i \in 1 .. Len(queue'[d]) : queue'[d][i] = 0 + i
                        /\ sent'[d] = 1 .. 0 + Len(queue'[d])
      BY DEF InStep
    <3>1. Len(queue'[d]) = 0 /\ sent'[d] = {}
      BY <2>1, <2>6 DEF Inv, Typed
    <3> QED  BY <3>1
  <2> QED  BY <2>1, <2>5, <2>7 DEF TriggersKeepUp
<1>2. ASSUME NEW c \in Conns, DoDisconnect(c)  PROVE TriggersKeepUp'
  BY <1>2 DEF DoDisconnect, Steady, Inv, Typed
<1>3. CASE Reset
  BY <1>3 DEF Reset, Steady
<1>4. CASE ReceiveNumbered
  BY <1>4, TriggersReceive
<1>5. CASE ReceiveUntagged
  BY <1>5 DEF ReceiveUntagged, DoReceive, Steady, ByTrigger
<1>6. CASE MergeByTrigger
  BY <1>6, TriggersMerge
<1>7. CASE MatchPair \/ DropUntagged \/ BuildEventReturns \/ PopOld \/ MatchHodoscopes
  BY <1>7 DEF MatchPair, DropUntagged, BuildEventReturns, PopOld, MatchHodoscopes, Comparing, Steady, ByTrigger
<1>8. CASE UNCHANGED vars
  BY <1>8, ZenonT(60) DEF vars, TriggersKeepUp, Steady, ByTrigger, Gapless, InStep, Map
<1> QED  BY <1>1, <1>2, <1>3, <1>4, <1>5, <1>6, <1>7, <1>8 DEF Next

(* When DoReceive returns, nothing is left that could be merged.  The trigger
   number collectors, which merge once per event, keep up because every queue
   holds the numbers that follow the last merge and the one that was empty
   has received exactly one. *)
THEOREM NoneWaits == Spec => []NothingWaits
<1>1. Inv /\ Inv' /\ KeepUp /\ [Next]_vars => KeepUp'
  BY GoneLeftNext, OthersNext, TriggersNext DEF KeepUp
<1> QED  BY <1>1, SyncInvariant, KeepUpInit, KeepUpWaits, PTL DEF Spec
=============================================================================
