-------------------------- MODULE BifRunLoop_proofs --------------------------
(***************************************************************************)
(* What RunLoop of the BIF producer and DoStopRun owe to each other and to *)
(* the data, for any number of packets, runs and errors and any yield of   *)
(* the decoder: a run that is stopped is read to its end, its events are   *)
(* sent in order and framed by BORE and EORE, the raw file has every word  *)
(* once, and every packet is decoded once, wherever the fetches end.       *)
(***************************************************************************)
EXTENDS BifRunLoop, SharedLemmas, TLAPS

Words == [packet : Nat, part : {"only", "first", "second"}]

(* The first n elements of a sequence, and the others. *)
LEMMA TakeDrop ==
  ASSUME NEW S, NEW s \in Seq(S), NEW n \in 0 .. Len(s)
  PROVE  /\ SubSeq(s, 1, n) \in Seq(S) /\ Len(SubSeq(s, 1, n)) = n
         /\ \A i \in 1 .. n : SubSeq(s, 1, n)[i] = s[i]
         /\ SubSeq(s, n + 1, Len(s)) \in Seq(S)
         /\ Len(SubSeq(s, n + 1, Len(s))) = Len(s) - n
         /\ \A i \in 1 .. Len(s) - n : SubSeq(s, n + 1, Len(s))[i] = s[n + i]
<1>1. Len(s) \in Nat /\ \A i \in 1 .. Len(s) : s[i] \in S
  BY LenProperties, ElementOfSeq
<1>2. n \in Int /\ n + 1 \in Int /\ Len(s) \in Int /\ 1 \in Int
  BY <1>1
<1>3. (\A i \in 1 .. n : s[i] \in S) /\ (\A i \in n + 1 .. Len(s) : s[i] \in S)
  BY <1>1
<1>4. /\ SubSeq(s, 1, n) \in Seq(S)
      /\ Len(SubSeq(s, 1, n)) = IF 1 <= n THEN n - 1 + 1 ELSE 0
      /\ \A i \in 1 .. n - 1 + 1 : SubSeq(s, 1, n)[i] = s[1 + i - 1]
  BY <1>2, <1>3, SubSeqProperties
<1>5. /\ SubSeq(s, n + 1, Len(s)) \in Seq(S)
      /\ Len(SubSeq(s, n + 1, Len(s))) = IF n + 1 <= Len(s) THEN Len(s) - (n + 1) + 1 ELSE 0
      /\ \A i \in 1 .. Len(s) - (n + 1) + 1 : SubSeq(s, n + 1, Len(s))[i] = s[(n + 1) + i - 1]
  BY <1>2, <1>3, SubSeqProperties
<1> QED  BY <1>1, <1>2, <1>4, <1>5

LEMMA PacketWords ==
  ASSUME sent + 1 \in Nat, NEW p \in Packets
  PROVE  p \in Seq(Words) /\ Len(p) \in Nat
<1> DEFINE n == sent + 1
<1>1. Word(n, "only") \in Words /\ Word(n, "first") \in Words /\ Word(n, "second") \in Words
  BY DEF Word, Words
<1>2. p \in {<<Word(n, "only")>>, <<Word(n, "first"), Word(n, "second")>>, <<Word(n, "first")>>}
  BY DEF Packets
<1> HIDE DEF n
<1>3. ASSUME NEW x \in Words, NEW y \in Words
      PROVE  /\ <<x>> \in Seq(Words) /\ Len(<<x>>) \in Nat
             /\ <<x, y>> \in Seq(Words) /\ Len(<<x, y>>) \in Nat
  OBVIOUS
<1>4. CASE p = <<Word(n, "only")>>
  BY <1>1, <1>3, <1>4
<1>5. CASE p = <<Word(n, "first"), Word(n, "second")>>
  BY <1>1, <1>3, <1>5
<1>6. CASE p = <<Word(n, "first")>>
  BY <1>1, <1>3, <1>6
<1> QED  BY <1>2, <1>4, <1>5, <1>6
-----------------------------------------------------------------------------
(* The handshake of the two threads.  The flag is raised while DoStopRun waits
   and RunLoop is there; RunLoop ends only on a flag that it saw raised. *)
Handshake ==
  /\ stopPc \in {"no", "flag", "wait"}
  /\ TLUStarted => stopPc = "no" /\ pc # "idle"
  /\ TLUJustStopped => stopPc = "wait" /\ pc # "idle"
  /\ stopPc = "flag" => pc # "idle"
  /\ justStopped /\ pc # "idle" => TLUJustStopped

LEMMA HandshakeStep == Handshake /\ [Next]_vars => Handshake'
<1> SUFFICES ASSUME Handshake, [Next]_vars
             PROVE  Handshake'
  OBVIOUS
<1> USE DEF Handshake
<1>1. CASE LoopTop
  <2>1. pc # "idle" /\ pc' # "idle" /\ UNCHANGED <<stopPc, TLUStarted, TLUJustStopped>>
        /\ justStopped' = TLUJustStopped
    BY <1>1 DEF LoopTop, shared
  <2> QED  BY <2>1
<1>2. CASE FetchWords
  BY <1>2 DEF FetchWords, shared
<1>3. CASE FetchNothing \/ FetchFails
  BY <1>3 DEF FetchNothing, FetchFails, NothingFetched, shared
<1>4. CASE ProcessQueuedBifData
  BY <1>4 DEF ProcessQueuedBifData, shared, local
<1>5. CASE Send
  BY <1>5 DEF Send, shared, local
<1>6. CASE LoopAgain
  BY <1>6 DEF LoopAgain, shared, local
<1>7. CASE LoopEnds
  BY <1>7 DEF LoopEnds, StopSeen, local
<1>8. CASE TimePasses
  BY <1>8 DEF TimePasses, shared, local
<1>9. CASE DoStartRun
  BY <1>9 DEF DoStartRun
<1>10. CASE StopBegins
  BY <1>10 DEF StopBegins, local
<1>11. CASE StopFlag
  BY <1>11 DEF StopFlag, local
<1>12. CASE StopReturns
  BY <1>12 DEF StopReturns, local
<1>13. CASE BifSends
  BY <1>13 DEF BifSends, shared, local
<1>14. CASE UNCHANGED vars
  BY <1>14 DEF vars, shared, local
<1> QED
  BY <1>1, <1>2, <1>3, <1>4, <1>5, <1>6, <1>7, <1>8, <1>9, <1>10, <1>11, <1>12,
     <1>13, <1>14 DEF Next, RunLoop
-----------------------------------------------------------------------------
(* No word is lost between the FIFO and the producer; as long as no reading
   failed, RunLoop leaves the inner loop after a stop only on an empty FIFO. *)
DrainInv ==
  /\ fifo \in Seq(Words) /\ fetched \in Seq(Words)
  /\ sent \in Nat /\ due \in Nat /\ errors \in Nat
  /\ due <= Len(fetched) + Len(fifo)
  /\ errors = 0 =>
       /\ pc \in {"process", "send"} => fetchResult = TRUE
       /\ pc = "after" /\ justStopped => Len(fetched) >= due
       /\ pc = "idle" => Len(fetched) >= due

LEMMA DrainStep == Handshake /\ DrainInv /\ [Next]_vars => DrainInv'
<1> SUFFICES ASSUME Handshake, DrainInv, [Next]_vars
             PROVE  DrainInv'
  OBVIOUS
<1> USE DEF DrainInv
<1>1. CASE LoopTop
  <2>1. /\ pc = "top" /\ pc' \in {"fetch", "after"} /\ justStopped' = TLUJustStopped
        /\ pc' = "after" => ~TLUJustStopped
        /\ UNCHANGED <<fifo, fetched, sent, due, errors, fetchResult>>
    BY <1>1 DEF LoopTop, bif, run
  <2> QED  BY <2>1
<1>2. CASE FetchWords
  <2>1. PICK n \in 1 .. Len(fifo) : /\ fetched' = fetched \o SubSeq(fifo, 1, n)
                                    /\ fifo' = SubSeq(fifo, n + 1, Len(fifo))
    BY <1>2 DEF FetchWords
  <2>2. pc' = "process" /\ fetchResult' = TRUE /\ UNCHANGED <<sent, due, errors>>
    BY <1>2 DEF FetchWords, run
  <2>3. /\ SubSeq(fifo, 1, n) \in Seq(Words) /\ Len(SubSeq(fifo, 1, n)) = n
        /\ fifo' \in Seq(Words) /\ Len(fifo') = Len(fifo) - n
    BY <2>1, TakeDrop
  <2>4. fetched' \in Seq(Words) /\ Len(fetched') = Len(fetched) + n
    BY <2>1, <2>3
  <2> QED  BY <2>2, <2>3, <2>4
<1>3. CASE FetchNothing
  <2>1. /\ fifo = <<>> /\ fetchResult' = TRUE /\ pc' \in {"after", "process"}
        /\ UNCHANGED <<fifo, fetched, sent, due, errors, justStopped>>
    BY <1>3 DEF FetchNothing, NothingFetched, bif, run
  <2> QED  BY <2>1
<1>4. CASE FetchFails
  <2>1. errors' = errors + 1 /\ UNCHANGED <<fifo, fetched, sent, due>>
    BY <1>4 DEF FetchFails, NothingFetched, bif, run
  <2>2. errors' \in Nat /\ errors' # 0
    BY <2>1
  <2>3. due' <= Len(fetched') + Len(fifo')
    BY <2>1
  <2> QED  BY <2>1, <2>2, <2>3
<1>5. CASE ProcessQueuedBifData
  BY <1>5 DEF ProcessQueuedBifData, bif, run, local
<1>6. CASE Send
  <2>1. /\ pc = "send" /\ pc' \in {"after", "fetch"} /\ (pc' = "after" => ~fetchResult)
        /\ UNCHANGED <<fifo, fetched, sent, due, errors, justStopped, fetchResult>>
    BY <1>6 DEF Send, bif, run, local
  <2>2. errors = 0 => pc' = "fetch"
    BY <2>1
  <2> QED  BY <2>1, <2>2
<1>7. CASE LoopAgain
  BY <1>7 DEF LoopAgain, bif, run, local
<1>8. CASE LoopEnds
  BY <1>8 DEF LoopEnds, StopSeen, bif, run, local
<1>9. CASE TimePasses
  BY <1>9 DEF TimePasses, bif, run, local
<1>10. CASE DoStartRun
  BY <1>10 DEF DoStartRun
<1>11. CASE StopBegins
  BY <1>11 DEF StopBegins, bif, run, local
<1>12. CASE StopFlag
  <2>1. /\ stopPc = "flag" /\ due' = Len(fetched) + Len(fifo)
        /\ UNCHANGED <<fifo, fetched, sent, errors, pc, justStopped, fetchResult>>
    BY <1>12 DEF StopFlag, bif, local
  <2>2. pc # "idle" /\ ~justStopped
    BY <2>1 DEF Handshake
  <2> QED  BY <2>1, <2>2
<1>13. CASE StopReturns
  BY <1>13 DEF StopReturns, bif, run, local
<1>14. CASE BifSends
  <2>1. PICK p \in Packets : fifo' = fifo \o p
    BY <1>14 DEF BifSends
  <2>2. sent' = sent + 1 /\ UNCHANGED <<fetched, due, errors, pc, justStopped, fetchResult>>
    BY <1>14 DEF BifSends, run, local
  <2>3. sent + 1 \in Nat
    OBVIOUS
  <2>4. p \in Seq(Words) /\ Len(p) \in Nat
    BY <2>3, PacketWords
  <2>5. fifo' \in Seq(Words) /\ Len(fifo') = Len(fifo) + Len(p)
    BY <2>1, <2>4
  <2> QED  BY <2>2, <2>3, <2>4, <2>5
<1>15. CASE UNCHANGED vars
  BY <1>15 DEF vars, bif, run, local
<1> QED
  BY <1>1, <1>2, <1>3, <1>4, <1>5, <1>6, <1>7, <1>8, <1>9, <1>10, <1>11, <1>12,
     <1>13, <1>14, <1>15 DEF Next, RunLoop

(* Spec implies that StopDrains always holds: whatever the order in which the
   flag is raised, words arrive and RunLoop polls, the words that were in the
   FIFO at the stop are fetched before RunLoop ends. *)
THEOREM StopFetchesAll == Spec => []StopDrains
<1>1. Init => Handshake /\ DrainInv
  BY DEF Init, Handshake, DrainInv
<1>2. DrainInv => StopDrains
  BY DEF DrainInv, StopDrains
<1> QED  BY <1>1, <1>2, HandshakeStep, DrainStep, PTL DEF Spec
-----------------------------------------------------------------------------
EventType == [id : Nat, bore : BOOLEAN, eore : BOOLEAN]

(* The events of the run, sent or not, are numbered in the order they were
   built; once one was sent, one is held back until the run ends. *)
FrameInv ==
  /\ out \in Seq(EventType) /\ deqEvent \in Seq(EventType)
  /\ built \in Nat /\ BORESent \in BOOLEAN
  /\ BORESent <=> Len(out) > 0
  /\ Len(out) + Len(deqEvent) = built
  /\ \A i \in 1 .. Len(out) : /\ out[i].id = i
                              /\ out[i].bore <=> i = 1
                              /\ out[i].eore <=> (pc = "idle" /\ i = Len(out))
  /\ \A i \in 1 .. Len(deqEvent) : deqEvent[i].id = Len(out) + i
  /\ pc = "idle" => deqEvent = <<>>
  /\ pc # "idle" /\ Len(out) > 0 => Len(deqEvent) > 0

(* What sendallevents does to the two sequences, element by element. *)
LEMMA SendAll ==
  ASSUME FrameInv, NEW m \in Nat, sendallevents(m)
  PROVE  \E n \in 0 .. Len(deqEvent) :
           /\ Len(deqEvent) - n = IF Len(deqEvent) > m THEN m ELSE Len(deqEvent)
           /\ out' \in Seq(EventType) /\ Len(out') = Len(out) + n
           /\ \A i \in 1 .. Len(out) : out'[i] = out[i]
           /\ \A i \in 1 .. n : /\ out'[Len(out) + i].id = Len(out) + i
                                /\ out'[Len(out) + i].bore <=> (~BORESent /\ i = 1)
                                /\ out'[Len(out) + i].eore <=> (m = 0 /\ i = n)
           /\ deqEvent' \in Seq(EventType) /\ Len(deqEvent') = Len(deqEvent) - n
           /\ \A i \in 1 .. Len(deqEvent) - n : deqEvent'[i] = deqEvent[n + i]
           /\ BORESent' \in BOOLEAN /\ (BORESent' <=> BORESent \/ n > 0)
<1> DEFINE n == IF Len(deqEvent) > m THEN Len(deqEvent) - m ELSE 0
           more == [i \in 1 .. n |->
                      [deqEvent[i] EXCEPT !.bore = ~BORESent /\ i = 1,
                                          !.eore = m = 0 /\ i = n]]
<1>1. out' = out \o more /\ deqEvent' = SubSeq(deqEvent, n + 1, Len(deqEvent))
      /\ BORESent' = (BORESent \/ n > 0)
  BY DEF sendallevents
<1>2. Len(deqEvent) \in Nat /\ n \in 0 .. Len(deqEvent)
  BY DEF FrameInv
<1>3. Len(deqEvent) - n = IF Len(deqEvent) > m THEN m ELSE Len(deqEvent)
  BY <1>2
<1>4. ASSUME NEW i \in 1 .. n
      PROVE  /\ more[i] \in EventType /\ more[i].id = Len(out) + i
             /\ more[i].bore = (~BORESent /\ i = 1) /\ more[i].eore = (m = 0 /\ i = n)
  <2>1. i \in 1 .. Len(deqEvent)
    BY <1>2
  <2>2. deqEvent[i] \in EventType /\ deqEvent[i].id = Len(out) + i
    BY <2>1, ElementOfSeq DEF FrameInv
  <2> DEFINE b == ~BORESent /\ i = 1
             e == m = 0 /\ i = n
  <2>3. more[i] = [deqEvent[i] EXCEPT !.bore = b, !.eore = e]
    BY <1>4
  <2>4. b \in BOOLEAN /\ e \in BOOLEAN
    OBVIOUS
  <2>5. more[i] \in EventType /\ more[i].id = Len(out) + i /\ more[i].bore = b /\ more[i].eore = e
    <3> HIDE DEF b, e, more, n
    <3> QED  BY <2>2, <2>3, <2>4 DEF EventType
  <2> QED  BY <2>5
<1> HIDE DEF more
<1>5. more \in Seq(EventType) /\ Len(more) = n
  <2>1. more = [i \in 1 .. n |-> more[i]]
    BY DEF more
  <2>2. more \in [1 .. n -> EventType]
    BY <1>4, <2>1
  <2>3. n \in Nat
    BY <1>2
  <2> HIDE DEF n
  <2> QED  BY <2>2, <2>3
<1> HIDE DEF n
<1>6. out \in Seq(EventType) /\ Len(out) \in Nat /\ deqEvent \in Seq(EventType)
  BY DEF FrameInv
<1>7. out' \in Seq(EventType) /\ Len(out') = Len(out) + n
      /\ (\A i \in 1 .. Len(out) : out'[i] = out[i])
      /\ (\A i \in 1 .. n : out'[Len(out) + i] = more[i])
  <2>1. out \o more \in Seq(EventType) /\ Len(out \o more) = Len(out) + Len(more)
    BY <1>5, <1>6, SMTT(60)
  <2>2. \A i \in 1 .. Len(out) : (out \o more)[i] = out[i]
    BY <1>5, <1>6
  <2>3. \A i \in 1 .. Len(more) : (out \o more)[Len(out) + i] = more[i]
    BY <1>5, <1>6
  <2> QED  BY <1>1, <1>5, <2>1, <2>2, <2>3, Zenon
<1>8. /\ deqEvent' \in Seq(EventType) /\ Len(deqEvent') = Len(deqEvent) - n
      /\ \A i \in 1 .. Len(deqEvent) - n : deqEvent'[i] = deqEvent[n + i]
  BY <1>1, <1>2, <1>6, TakeDrop
<1>9. BORESent' \in BOOLEAN /\ (BORESent' <=> BORESent \/ n > 0)
  BY <1>1
<1>10. \A i \in 1 .. n : /\ out'[Len(out) + i].id = Len(out) + i
                         /\ out'[Len(out) + i].bore <=> (~BORESent /\ i = 1)
                         /\ out'[Len(out) + i].eore <=> (m = 0 /\ i = n)
  <2> TAKE i \in 1 .. n
  <2>1. out'[Len(out) + i] = more[i]
    BY <1>7
  <2> QED  BY <1>4, <2>1
<1> QED  BY <1>2, <1>3, <1>7, <1>8, <1>9, <1>10

(* The events that decoding adds. *)
LEMMA FrameProcess ==
  ASSUME FrameInv, ProcessQueuedBifData
  PROVE  FrameInv'
<1>1. PICK n \in Nat :
        /\ deqEvent' = deqEvent \o
             [i \in 1 .. n |-> [id |-> built + i, bore |-> FALSE, eore |-> FALSE]]
        /\ built' = built + n
  <2> DEFINE ends == Selected(queue, {i \in DOMAIN queue : Completes(i)})
  <2>1. PICK n \in 0 .. (IF ends = <<>> THEN 0 ELSE MaxYield) :
          /\ deqEvent' = deqEvent \o
               [i \in 1 .. n |-> [id |-> built + i, bore |-> FALSE, eore |-> FALSE]]
          /\ built' = built + n
    BY DEF ProcessQueuedBifData
  <2> HIDE DEF ends
  <2>2. n \in Nat
    BY <2>1, BoundAssumption
  <2> QED  BY <2>1, <2>2
<1> DEFINE new == [i \in 1 .. n |-> [id |-> built + i, bore |-> FALSE, eore |-> FALSE]]
<1>2. pc # "idle" /\ pc' # "idle" /\ UNCHANGED <<out, BORESent>>
  BY DEF ProcessQueuedBifData
<1>3. out \in Seq(EventType) /\ deqEvent \in Seq(EventType) /\ built \in Nat
      /\ Len(out) + Len(deqEvent) = built /\ Len(out) \in Nat /\ Len(deqEvent) \in Nat
  BY DEF FrameInv
<1>4. new \in Seq(EventType) /\ Len(new) = n /\ \A i \in 1 .. n : new[i].id = built + i
  <2>1. new \in [1 .. n -> EventType]
    BY <1>1, <1>3 DEF EventType
  <2>2. \A i \in 1 .. n : new[i].id = built + i
    OBVIOUS
  <2> HIDE DEF new
  <2> QED  BY <1>1, <2>1, <2>2
<1>5. deqEvent' = deqEvent \o new
  BY <1>1
<1> HIDE DEF new
<1>6. /\ deqEvent' \in Seq(EventType) /\ Len(deqEvent') = Len(deqEvent) + n
      /\ \A i \in 1 .. Len(deqEvent) : deqEvent'[i] = deqEvent[i]
      /\ \A i \in 1 .. n : deqEvent'[Len(deqEvent) + i] = new[i]
  <2>0. deqEvent \in Seq(EventType) /\ new \in Seq(EventType)
    BY <1>3, <1>4
  <2>1. deqEvent \o new \in Seq(EventType) /\ Len(deqEvent \o new) = Len(deqEvent) + Len(new)
    BY <2>0
  <2>2. \A i \in 1 .. Len(deqEvent) : (deqEvent \o new)[i] = deqEvent[i]
    BY <2>0
  <2>3. \A i \in 1 .. Len(new) : (deqEvent \o new)[Len(deqEvent) + i] = new[i]
    BY <2>0
  <2> QED  BY <1>4, <1>5, <2>1, <2>2, <2>3, Zenon
<1>7. built' \in Nat /\ Len(out') + Len(deqEvent') = built'
  <2>1. Len(out') = Len(out) /\ Len(deqEvent') = Len(deqEvent) + n /\ built' = built + n
    BY <1>1, <1>2, <1>6, Zenon
  <2> DEFINE o == Len(out)
             d == Len(deqEvent)
  <2>2. o \in Nat /\ d \in Nat /\ n \in Nat /\ built \in Nat /\ o + d = built
    BY <1>1, <1>3
  <2> HIDE DEF o, d
  <2>3. built + n \in Nat /\ o + (d + n) = built + n
    BY <2>2
  <2> QED  BY <2>1, <2>3, Zenon DEF o, d
<1>8. \A i \in 1 .. Len(deqEvent') : deqEvent'[i].id = Len(out') + i
  <2> TAKE i \in 1 .. Len(deqEvent')
  <2>1. CASE i \in 1 .. Len(deqEvent)
    BY <1>2, <1>6, <2>1 DEF FrameInv
  <2>2. CASE i \in Len(deqEvent) + 1 .. Len(deqEvent) + n
    <3>1. i - Len(deqEvent) \in 1 .. n
      BY <1>1, <1>3, <2>2
    <3>2. Len(deqEvent) + (i - Len(deqEvent)) = i
      BY <1>3, <2>2
    <3>3. deqEvent'[i] = new[i - Len(deqEvent)]
      BY <1>6, <3>1, <3>2
    <3>4. deqEvent'[i].id = built + (i - Len(deqEvent))
      BY <1>4, <3>1, <3>3
    <3> QED  BY <1>2, <1>3, <2>2, <3>4, SMTT(60)
  <2> QED  BY <1>1, <1>3, <1>6, <2>1, <2>2
<1>9. Len(out') > 0 => Len(deqEvent') > 0
  BY <1>1, <1>2, <1>3, <1>6 DEF FrameInv
<1> QED  BY <1>2, <1>6, <1>7, <1>8, <1>9 DEF FrameInv

(* A sending round of the inner loop (m = 1), and the last one (m = 0). *)
LEMMA FrameSend ==
  ASSUME FrameInv, pc # "idle", UNCHANGED built, NEW m \in {0, 1},
         sendallevents(m), pc' = "idle" <=> m = 0
  PROVE  FrameInv'
<1>0. m \in Nat
  OBVIOUS
<1>1. PICK n \in 0 .. Len(deqEvent) :
           /\ Len(deqEvent) - n = IF Len(deqEvent) > m THEN m ELSE Len(deqEvent)
           /\ out' \in Seq(EventType) /\ Len(out') = Len(out) + n
           /\ \A i \in 1 .. Len(out) : out'[i] = out[i]
           /\ \A i \in 1 .. n : /\ out'[Len(out) + i].id = Len(out) + i
                                /\ out'[Len(out) + i].bore <=> (~BORESent /\ i = 1)
                                /\ out'[Len(out) + i].eore <=> (m = 0 /\ i = n)
           /\ deqEvent' \in Seq(EventType) /\ Len(deqEvent') = Len(deqEvent) - n
           /\ \A i \in 1 .. Len(deqEvent) - n : deqEvent'[i] = deqEvent[n + i]
           /\ BORESent' \in BOOLEAN /\ (BORESent' <=> BORESent \/ n > 0)
  BY <1>0, SendAll
<1>2. Len(out) \in Nat /\ Len(deqEvent) \in Nat /\ m \in Nat /\ built \in Nat
      /\ Len(out) + Len(deqEvent) = built /\ (BORESent <=> Len(out) > 0)
      /\ (Len(out) > 0 => Len(deqEvent) > 0)
  BY DEF FrameInv
<1>3. n \in Nat /\ built' \in Nat /\ Len(out') + Len(deqEvent') = built'
      /\ (m = 0 => n = Len(deqEvent))
      /\ (BORESent' <=> Len(out') > 0)
  <2>1. n \in Nat /\ built' = built /\ Len(out') = Len(out) + n /\ Len(deqEvent') = Len(deqEvent) - n
    BY <1>1, <1>2
  <2>2. built' \in Nat /\ Len(out') + Len(deqEvent') = built'
    BY <1>2, <2>1
  <2>3. m = 0 => n = Len(deqEvent)
    BY <1>1, <1>2, <2>1
  <2>4. (Len(out) > 0 \/ n > 0) <=> Len(out') > 0
    BY <1>2, <2>1
  <2>5. BORESent' <=> (Len(out) > 0 \/ n > 0)
    BY <1>1, <1>2
  <2> QED  BY <2>1, <2>2, <2>3, <2>4, <2>5
<1>4. ASSUME NEW i \in 1 .. Len(out')
      PROVE  /\ out'[i].id = i /\ (out'[i].bore <=> i = 1)
             /\ out'[i].eore <=> (pc' = "idle" /\ i = Len(out'))
  <2>1. CASE i \in 1 .. Len(out)
    <3>1. out'[i] = out[i] /\ out[i].id = i /\ (out[i].bore <=> i = 1) /\ ~out[i].eore
      BY <1>1, <2>1 DEF FrameInv
    <3>2. m = 0 => i # Len(out')
      BY <1>1, <1>2, <1>3, <2>1
    <3> QED  BY <3>1, <3>2
  <2>2. CASE i \in Len(out) + 1 .. Len(out) + n
    <3> DEFINE j == i - Len(out)
    <3>1. j \in 1 .. n /\ i = Len(out) + j
      BY <1>2, <1>3, <2>2
    <3>2. /\ out'[i].id = i /\ (out'[i].bore <=> (~BORESent /\ j = 1))
          /\ (out'[i].eore <=> (m = 0 /\ j = n))
      <4> HIDE DEF j
      <4> QED  BY <1>1, <3>1
    <3>3. (~BORESent /\ j = 1) <=> i = 1
      BY <1>2, <1>3, <3>1
    <3>4. (m = 0 /\ j = n) <=> (pc' = "idle" /\ i = Len(out'))
      BY <1>1, <1>2, <1>3, <3>1
    <3> QED  BY <3>2, <3>3, <3>4
  <2> QED  BY <1>1, <1>2, <1>3, <2>1, <2>2
<1>5. ASSUME NEW i \in 1 .. Len(deqEvent')
      PROVE  deqEvent'[i].id = Len(out') + i
  <2>1. i \in 1 .. Len(deqEvent) - n /\ n + i \in 1 .. Len(deqEvent)
    BY <1>1, <1>2, <1>3
  <2>2. deqEvent'[i].id = Len(out) + (n + i)
    BY <1>1, <2>1, SMTT(60) DEF FrameInv
  <2> QED  BY <1>1, <1>2, <1>3, <2>1, <2>2
<1>6. pc' = "idle" => deqEvent' = <<>>
  <2>1. pc' = "idle" => Len(deqEvent') = 0
    BY <1>1, <1>2, <1>3
  <2> QED  BY <1>1, <2>1, EmptySeq
<1>7. pc' # "idle" /\ Len(out') > 0 => Len(deqEvent') > 0
  BY <1>1, <1>2, <1>3
<1> QED  BY <1>1, <1>3, <1>4, <1>5, <1>6, <1>7 DEF FrameInv

LEMMA FrameEmpty ==
  /\ <<>> \in Seq(EventType) /\ Len(<<>>) = 0 /\ 0 + 0 = 0 /\ 0 \in Nat
  /\ ~(0 > 0) /\ \A i \in 1 .. 0 : FALSE
OBVIOUS

LEMMA FrameStep == Handshake /\ FrameInv /\ [Next]_vars => FrameInv'
<1> SUFFICES ASSUME Handshake, FrameInv, [Next]_vars
             PROVE  FrameInv'
  OBVIOUS
<1>0. ASSUME UNCHANGED events, (pc # "idle" /\ pc' # "idle") \/ pc' = pc
      PROVE  FrameInv'
  BY <1>0 DEF FrameInv, events
<1>1. CASE LoopTop
  BY <1>0, <1>1 DEF LoopTop
<1>2. CASE FetchWords
  BY <1>0, <1>2 DEF FetchWords
<1>3. CASE FetchNothing \/ FetchFails
  BY <1>0, <1>3 DEF FetchNothing, FetchFails, NothingFetched
<1>4. CASE ProcessQueuedBifData
  BY <1>4, FrameProcess
<1>5. CASE Send
  <2>1. pc # "idle" /\ pc' # "idle" /\ UNCHANGED built /\ sendallevents(1)
    BY <1>5 DEF Send
  <2> QED  BY <2>1, FrameSend
<1>6. CASE LoopAgain
  BY <1>0, <1>6 DEF LoopAgain
<1>7. CASE LoopEnds
  <2>1. pc # "idle" /\ pc' = "idle" /\ UNCHANGED built /\ sendallevents(0)
    BY <1>7 DEF LoopEnds
  <2> QED  BY <2>1, FrameSend
<1>8. CASE TimePasses
  BY <1>0, <1>8 DEF TimePasses
<1>9. CASE DoStartRun
  <2>1. out' = <<>> /\ deqEvent' = <<>> /\ built' = 0 /\ BORESent' = FALSE
    BY <1>9 DEF DoStartRun
  <2> QED  BY <2>1, FrameEmpty DEF FrameInv
<1>10. CASE StopBegins
  BY <1>0, <1>10 DEF StopBegins
<1>11. CASE StopFlag
  BY <1>0, <1>11 DEF StopFlag
<1>12. CASE StopReturns
  BY <1>0, <1>12 DEF StopReturns
<1>13. CASE BifSends
  BY <1>0, <1>13 DEF BifSends
<1>14. CASE UNCHANGED vars
  BY <1>0, <1>14, SMTT(60) DEF vars
<1> QED
  BY <1>1, <1>2, <1>3, <1>4, <1>5, <1>6, <1>7, <1>8, <1>9, <1>10, <1>11, <1>12,
     <1>13, <1>14 DEF Next, RunLoop

LEMMA FrameHolds == FrameInv => RunFramed
<1> SUFFICES ASSUME FrameInv PROVE RunFramed
  OBVIOUS
<1>1. out \in Seq(EventType) /\ deqEvent \in Seq(EventType)
      /\ Len(out) \in Nat /\ Len(deqEvent) \in Nat
      /\ DOMAIN out = 1 .. Len(out)
  BY DEF FrameInv
<1>2. ASSUME NEW i \in DOMAIN (out \o deqEvent)
      PROVE  (out \o deqEvent)[i].id = i
  <2>1. i \in 1 .. Len(out) + Len(deqEvent)
    BY <1>1, <1>2
  <2>2. CASE i \in 1 .. Len(out)
    <3>1. (out \o deqEvent)[i] = out[i]
      BY <1>1, <2>2
    <3> QED  BY <2>2, <3>1 DEF FrameInv
  <2>3. CASE i \in Len(out) + 1 .. Len(out) + Len(deqEvent)
    <3>0. i - Len(out) \in 1 .. Len(deqEvent) /\ Len(out) + (i - Len(out)) = i
      BY <1>1, <2>3
    <3>1. i - Len(out) \in 1 .. Len(deqEvent) /\ (out \o deqEvent)[i] = deqEvent[i - Len(out)]
      <4> DEFINE j == i - Len(out)
      <4>1. j \in 1 .. Len(deqEvent) /\ Len(out) + j = i
        BY <3>0
      <4> HIDE DEF j
      <4>2. (out \o deqEvent)[Len(out) + j] = deqEvent[j]
        BY <1>1, <4>1
      <4> QED  BY <4>1, <4>2 DEF j
    <3>2. deqEvent[i - Len(out)].id = Len(out) + (i - Len(out))
      BY <3>1 DEF FrameInv
    <3> QED  BY <3>0, <3>1, <3>2, Zenon
  <2> QED  BY <1>1, <2>1, <2>2, <2>3
<1> QED  BY <1>1, <1>2 DEF FrameInv, RunFramed

(* Spec implies that RunFramed always holds: wherever the rounds of the loop
   fall, the events of a run leave in order, BORE on the first only and EORE on
   the last only, which is why one event is held back. *)
THEOREM EventsFramed == Spec => []RunFramed
<1>1. Init => Handshake /\ FrameInv
  <2> SUFFICES ASSUME Init PROVE Handshake /\ FrameInv
    OBVIOUS
  <2>1. out = <<>> /\ deqEvent = <<>> /\ built = 0 /\ BORESent = FALSE
    BY DEF Init
  <2>2. Handshake
    BY DEF Init, Handshake
  <2> QED  BY <2>1, <2>2, FrameEmpty DEF FrameInv
<1> QED  BY <1>1, HandshakeStep, FrameStep, FrameHolds, PTL DEF Spec
-----------------------------------------------------------------------------
(* In a run that began with _word1WrittenPreviously lowered, what was fetched
   and is not in the raw file yet is what the next round of decoding writes. *)
RawInv ==
  /\ fifo \in Seq(Words) /\ fetched \in Seq(Words) /\ queue \in Seq(Words)
  /\ word1WrittenPreviously \in BOOLEAN
  /\ cleanRaw => /\ rawFile \in Seq(Words)
                 /\ word1WrittenPreviously => queue # <<>>
                 /\ fetched = rawFile \o Written
                 /\ pc # "process" => Written = <<>>

LEMMA TailJoined ==
  ASSUME NEW S, NEW s \in Seq(S), NEW t \in Seq(S), s # <<>>, Tail(s) = <<>>
  PROVE  s \o t # <<>> /\ Tail(s \o t) = t
<1>1. PICK x \in S : s = <<x>>
  <2>1. Len(s) = 1
    <3>1. Len(s) - 1 = 0
      <4>1. Len(Tail(s)) = Len(s) - 1
        BY HeadTailProperties
      <4> QED  BY <4>1
    <3>2. Len(s) \in Nat
      BY LenProperties
    <3> QED  BY <3>1, <3>2
  <2>2. s = <<s[1]>> /\ s[1] \in S
    BY <2>1, ElementOfSeq
  <2> QED  BY <2>2
<1>2. <<x>> \o t # <<>> /\ Tail(<<x>> \o t) = t
  <2>1. <<x>> \in Seq(S) /\ Len(<<x>>) = 1 /\ Len(t) \in Nat
    OBVIOUS
  <2>2. /\ <<x>> \o t \in Seq(S) /\ Len(<<x>> \o t) = 1 + Len(t)
        /\ \A i \in 1 .. Len(t) : (<<x>> \o t)[1 + i] = t[i]
    BY <2>1
  <2>3. <<x>> \o t # <<>>
    BY <2>1, <2>2
  <2>4. /\ Tail(<<x>> \o t) \in Seq(S) /\ Len(Tail(<<x>> \o t)) = Len(t)
        /\ \A i \in 1 .. Len(t) : Tail(<<x>> \o t)[i] = t[i]
    BY <2>1, <2>2, <2>3
  <2> QED  BY <2>3, <2>4, SeqEqual
<1> QED  BY <1>1, <1>2

LEMMA RawFetch ==
  ASSUME RawInv, FetchWords
  PROVE  RawInv'
<1>1. PICK n \in 1 .. Len(fifo) : /\ queue' = queue \o SubSeq(fifo, 1, n)
                                  /\ fetched' = fetched \o SubSeq(fifo, 1, n)
                                  /\ fifo' = SubSeq(fifo, n + 1, Len(fifo))
  BY DEF FetchWords
<1> DEFINE new == SubSeq(fifo, 1, n)
<1>2. /\ pc = "fetch" /\ pc' = "process"
      /\ UNCHANGED <<word1WrittenPreviously, rawFile, cleanRaw>>
  BY DEF FetchWords, run, raw
<1>3. fifo \in Seq(Words) /\ fetched \in Seq(Words) /\ queue \in Seq(Words)
      /\ word1WrittenPreviously \in BOOLEAN
  BY DEF RawInv
<1>4. n \in 0 .. Len(fifo)
  BY <1>1, <1>3
<1>5. new \in Seq(Words) /\ fifo' \in Seq(Words)
  BY <1>1, <1>3, <1>4, TakeDrop
<1>6. queue' = queue \o new /\ fetched' = fetched \o new
  BY <1>1
<1> HIDE DEF new
<1>7. queue' \in Seq(Words) /\ fetched' \in Seq(Words)
  BY <1>3, <1>5, <1>6
<1>8. ASSUME cleanRaw
      PROVE  /\ rawFile' \in Seq(Words)
             /\ word1WrittenPreviously' => queue' # <<>>
             /\ fetched' = rawFile' \o Written'
  <2>1. /\ rawFile \in Seq(Words) /\ (word1WrittenPreviously => queue # <<>>)
        /\ fetched = rawFile \o Written /\ Written = <<>>
    BY <1>2, <1>8 DEF RawInv
  <2>2. fetched = rawFile
    BY <2>1
  <2>3. (word1WrittenPreviously => queue' # <<>>) /\ Written' = new
    <3>1. CASE word1WrittenPreviously
      <4>1. queue # <<>> /\ Tail(queue) = <<>>
        BY <2>1, <3>1 DEF Written
      <4>2. queue' # <<>> /\ Tail(queue') = new
        BY <1>3, <1>5, <1>6, <4>1, TailJoined
      <4> QED  BY <1>2, <3>1, <4>2 DEF Written
    <3>2. CASE ~word1WrittenPreviously
      <4>1. queue = <<>>
        BY <2>1, <3>2 DEF Written
      <4>2. queue' = new
        BY <1>5, <1>6, <4>1
      <4> QED  BY <1>2, <3>2, <4>2 DEF Written
    <3> QED  BY <3>1, <3>2
  <2> QED  BY <1>2, <1>6, <2>1, <2>2, <2>3
<1> QED  BY <1>2, <1>3, <1>5, <1>7, <1>8 DEF RawInv

LEMMA RawProcess ==
  ASSUME RawInv, ProcessQueuedBifData
  PROVE  RawInv'
<1>1. /\ rawFile' = rawFile \o Written
      /\ word1WrittenPreviously' = Incomplete(queue)
      /\ queue' = PutBack
      /\ UNCHANGED <<fifo, fetched, cleanRaw>>
  BY DEF ProcessQueuedBifData, bif, run
<1>2. fifo \in Seq(Words) /\ fetched \in Seq(Words) /\ queue \in Seq(Words)
  BY DEF RawInv
<1>3. /\ word1WrittenPreviously' \in BOOLEAN /\ queue' \in Seq(Words)
      /\ word1WrittenPreviously' => queue' # <<>>
      /\ Written' = <<>>
  <2>1. CASE Incomplete(queue)
    <3>1. Last(queue) \in Words
      <4>1. queue # <<>>
        BY <2>1 DEF Incomplete
      <4>2. Len(queue) \in 1 .. Len(queue)
        BY <1>2, <4>1, EmptySeq, LenProperties
      <4> QED  BY <1>2, <4>2, ElementOfSeq DEF Last
    <3>2. queue' = <<Last(queue)>> /\ word1WrittenPreviously' = TRUE
      BY <1>1, <2>1 DEF PutBack, Incomplete
    <3>3. <<Last(queue)>> \in Seq(Words) /\ <<Last(queue)>> # <<>> /\ Tail(<<Last(queue)>>) = <<>>
      BY <3>1
    <3> QED  BY <3>2, <3>3 DEF Written
  <2>2. CASE ~Incomplete(queue)
    <3>1. queue' = <<>> /\ word1WrittenPreviously' = FALSE
      BY <1>1, <2>2 DEF PutBack, Incomplete
    <3>2. Written' = <<>>
      BY <3>1 DEF Written
    <3>3. <<>> \in Seq(Words)
      OBVIOUS
    <3> QED  BY <3>1, <3>2, <3>3, Zenon
  <2> QED  BY <2>1, <2>2
<1>4. cleanRaw => rawFile' = fetched
  BY <1>1 DEF RawInv
<1>5. cleanRaw' => rawFile' \in Seq(Words) /\ fetched' = rawFile' \o Written'
  <2> SUFFICES ASSUME cleanRaw'
               PROVE  rawFile' \in Seq(Words) /\ fetched' = rawFile' \o Written'
    OBVIOUS
  <2>1. rawFile' = fetched /\ fetched' = fetched /\ Written' = <<>>
    BY <1>1, <1>3, <1>4
  <2>2. fetched \o <<>> = fetched
    BY <1>2
  <2> QED  BY <1>2, <2>1, <2>2
<1> QED  BY <1>1, <1>2, <1>3, <1>5 DEF RawInv

LEMMA RawStep == DrainInv /\ RawInv /\ [Next]_vars => RawInv'
<1> SUFFICES ASSUME DrainInv, RawInv, [Next]_vars
             PROVE  RawInv'
  OBVIOUS
<1>0. ASSUME UNCHANGED <<fifo, fetched, queue, word1WrittenPreviously, rawFile, cleanRaw>>,
             pc = "process" => pc' = "process"
      PROVE  RawInv'
  BY <1>0 DEF RawInv, Written
<1>1. CASE LoopTop
  BY <1>0, <1>1 DEF LoopTop, bif, run, seen, raw
<1>2. CASE FetchWords
  BY <1>2, RawFetch
<1>3. CASE FetchNothing \/ FetchFails
  BY <1>0, <1>3 DEF FetchNothing, FetchFails, NothingFetched, bif, run, seen, raw
<1>4. CASE ProcessQueuedBifData
  BY <1>4, RawProcess
<1>5. CASE Send
  BY <1>0, <1>5 DEF Send, bif, run, seen, raw
<1>6. CASE LoopAgain
  BY <1>0, <1>6 DEF LoopAgain, bif, run, seen, raw
<1>7. CASE LoopEnds
  BY <1>0, <1>7 DEF LoopEnds, bif, run, seen, raw
<1>8. CASE TimePasses
  BY <1>0, <1>8 DEF TimePasses, bif, run, seen, raw
<1>9. CASE DoStartRun
  <2>1. /\ rawFile' = <<>> /\ fifo' = <<>> /\ queue' = <<>> /\ fetched' = <<>>
        /\ cleanRaw' = ~word1WrittenPreviously
        /\ word1WrittenPreviously' = word1WrittenPreviously
    BY <1>9 DEF DoStartRun
  <2>2. word1WrittenPreviously' \in BOOLEAN /\ (cleanRaw' => ~word1WrittenPreviously')
    BY <2>1 DEF RawInv
  <2>3. cleanRaw' => Written' = <<>>
    BY <2>1, <2>2 DEF Written
  <2> QED  BY <2>1, <2>2, <2>3 DEF RawInv
<1>10. CASE StopBegins
  BY <1>0, <1>10 DEF StopBegins, bif, run, seen, raw
<1>11. CASE StopFlag
  BY <1>0, <1>11 DEF StopFlag, bif, seen, raw
<1>12. CASE StopReturns
  BY <1>0, <1>12 DEF StopReturns, bif, run, seen, raw
<1>13. CASE BifSends
  <2>1. PICK p \in Packets : fifo' = fifo \o p
    BY <1>13 DEF BifSends
  <2>2. p \in Seq(Words)
    BY PacketWords DEF DrainInv
  <2>3. fifo' \in Seq(Words)
    BY <2>1, <2>2 DEF RawInv
  <2>4. UNCHANGED <<fetched, queue, word1WrittenPreviously, rawFile, cleanRaw, pc>>
    BY <1>13 DEF BifSends, run, seen, raw
  <2> QED  BY <2>3, <2>4 DEF RawInv, Written
<1>14. CASE UNCHANGED vars
  BY <1>0, <1>14 DEF vars, bif, run, seen, raw
<1> QED
  BY <1>1, <1>2, <1>3, <1>4, <1>5, <1>6, <1>7, <1>8, <1>9, <1>10, <1>11, <1>12,
     <1>13, <1>14 DEF Next, RunLoop

LEMMA RawHolds == RawInv => RawFileFaithful
<1> SUFFICES ASSUME RawInv, cleanRaw
             PROVE  IF pc = "process" THEN IsPrefix(rawFile, fetched) ELSE rawFile = fetched
  BY DEF RawFileFaithful
<1>1. /\ rawFile \in Seq(Words) /\ fetched = rawFile \o Written
      /\ (pc # "process" => Written = <<>>) /\ (word1WrittenPreviously => queue # <<>>)
      /\ queue \in Seq(Words)
  BY DEF RawInv
<1>2. Written \in Seq(Words)
  BY <1>1 DEF Written
<1>3. pc # "process" => rawFile = fetched
  BY <1>1
<1>4. IsPrefix(rawFile, rawFile \o Written)
  <2>1. Len(rawFile) <= Len(rawFile \o Written)
    BY <1>1, <1>2
  <2>2. SubSeq(rawFile, 1, Len(rawFile)) = SubSeq(rawFile \o Written, 1, Len(rawFile))
    BY <1>1, <1>2, ConcatProperties
  <2> QED  BY <2>1, <2>2 DEF IsPrefix
<1> QED  BY <1>1, <1>3, <1>4

(* Spec implies that RawFileFaithful always holds: a word that waits for the
   second one of its packet, over however many fetches, is written once. *)
THEOREM RawFileOnce == Spec => []RawFileFaithful
<1>1. Init => Handshake /\ DrainInv /\ RawInv
  <2> SUFFICES ASSUME Init PROVE Handshake /\ DrainInv /\ RawInv
    OBVIOUS
  <2>1. Handshake /\ DrainInv
    BY DEF Init, Handshake, DrainInv
  <2>2. /\ fifo = <<>> /\ fetched = <<>> /\ queue = <<>> /\ rawFile = <<>>
        /\ word1WrittenPreviously = FALSE
    BY DEF Init
  <2>3. Written = <<>> /\ <<>> \in Seq(Words) /\ <<>> \o <<>> = <<>>
    BY <2>2 DEF Written
  <2> QED  BY <2>1, <2>2, <2>3 DEF RawInv
<1> QED  BY <1>1, HandshakeStep, DrainStep, RawStep, RawHolds, PTL DEF Spec
-----------------------------------------------------------------------------
(* The packets that end in a sequence of words. *)
NotFirst(words) == {i \in DOMAIN words : words[i].part # "first"}

Ids(words) == PacketsOf(Selected(words, NotFirst(words)))

LEMMA PacketsOfWords ==
  ASSUME NEW s \in Seq(Words)
  PROVE  /\ PacketsOf(s) \in Seq(Nat) /\ Len(PacketsOf(s)) = Len(s)
         /\ \A k \in 1 .. Len(s) : PacketsOf(s)[k] = s[k].packet
<1>1. Len(s) \in Nat /\ DOMAIN s = 1 .. Len(s) /\ \A k \in 1 .. Len(s) : s[k] \in Words
  BY LenProperties, ElementOfSeq
<1>2. \A k \in 1 .. Len(s) : s[k].packet \in Nat
  BY <1>1 DEF Words
<1>3. PacketsOf(s) = [k \in 1 .. Len(s) |-> s[k].packet]
  BY <1>1 DEF PacketsOf
<1>4. PacketsOf(s) \in [1 .. Len(s) -> Nat]
  BY <1>2, <1>3
<1>5. PacketsOf(s) \in Seq(Nat)
  BY <1>1, <1>4, SeqDef
<1>6. DOMAIN PacketsOf(s) = 1 .. Len(s)
  BY <1>4
<1> QED  BY <1>1, <1>3, <1>5, <1>6, LenProperties

LEMMA PacketsOfConcat ==
  ASSUME NEW s \in Seq(Words), NEW t \in Seq(Words)
  PROVE  PacketsOf(s \o t) = PacketsOf(s) \o PacketsOf(t)
<1> DEFINE u == s \o t
           p == PacketsOf(s)
           q == PacketsOf(t)
           r == PacketsOf(u)
<1>1. /\ u \in Seq(Words) /\ Len(u) = Len(s) + Len(t) /\ Len(s) \in Nat /\ Len(t) \in Nat
      /\ \A i \in 1 .. Len(s) : u[i] = s[i]
      /\ \A i \in 1 .. Len(t) : u[Len(s) + i] = t[i]
      /\ \A i \in 1 .. Len(u) : \/ i \in 1 .. Len(s)
                                \/ \E k \in 1 .. Len(t) : i = Len(s) + k
  BY Concatenated
<1> HIDE DEF u
<1>2. /\ p \in Seq(Nat) /\ Len(p) = Len(s) /\ \A k \in 1 .. Len(s) : p[k] = s[k].packet
      /\ q \in Seq(Nat) /\ Len(q) = Len(t) /\ \A k \in 1 .. Len(t) : q[k] = t[k].packet
      /\ r \in Seq(Nat) /\ Len(r) = Len(u) /\ \A k \in 1 .. Len(u) : r[k] = u[k].packet
  BY <1>1, PacketsOfWords
<1> HIDE DEF p, q, r
<1>3. /\ p \o q \in Seq(Nat) /\ Len(p \o q) = Len(p) + Len(q)
      /\ \A i \in 1 .. Len(p) : (p \o q)[i] = p[i]
      /\ \A i \in 1 .. Len(q) : (p \o q)[Len(p) + i] = q[i]
  <2>1. p \in Seq(Nat) /\ q \in Seq(Nat)
    BY <1>2
  <2> QED  BY <2>1, Concatenated
<1>4. ASSUME NEW i \in 1 .. Len(r)
      PROVE  r[i] = (p \o q)[i]
  <2>1. CASE i \in 1 .. Len(s)
    BY <1>1, <1>2, <1>3, <2>1, ZenonT(60)
  <2>2. ASSUME NEW k \in 1 .. Len(t), i = Len(s) + k PROVE r[i] = (p \o q)[i]
    BY <1>1, <1>2, <1>3, <2>2, ZenonT(60)
  <2> QED  BY <1>1, <1>2, <2>1, <2>2
<1>5. Len(r) = Len(p \o q)
  BY <1>1, <1>2, <1>3
<1>6. r = p \o q
  BY <1>2, <1>3, <1>4, <1>5, SeqEqual
<1> QED  BY <1>6 DEF u, p, q, r

LEMMA IdsConcat ==
  ASSUME NEW s \in Seq(Words), NEW t \in Seq(Words)
  PROVE  /\ Ids(s \o t) = Ids(s) \o Ids(t)
         /\ Ids(s) \in Seq(Nat)
<1> DEFINE A == NotFirst(s)
           B == NotFirst(t)
           S == NotFirst(s \o t)
<1>1. /\ s \o t \in Seq(Words) /\ Len(s) \in Nat /\ Len(t) \in Nat
      /\ Len(s \o t) = Len(s) + Len(t)
      /\ \A i \in 1 .. Len(s) : (s \o t)[i] = s[i]
      /\ \A i \in 1 .. Len(t) : (s \o t)[Len(s) + i] = t[i]
  BY Concatenated
<1>2. DOMAIN s = 1 .. Len(s) /\ DOMAIN t = 1 .. Len(t) /\ DOMAIN (s \o t) = 1 .. Len(s) + Len(t)
  BY <1>1, LenProperties
<1>3. \A i \in 1 .. Len(s) : i \in A <=> i \in S
  <2> SUFFICES ASSUME NEW i \in 1 .. Len(s) PROVE i \in A <=> i \in S
    OBVIOUS
  <2>1. i \in 1 .. Len(s) + Len(t) /\ (s \o t)[i] = s[i]
    BY <1>1
  <2> QED  BY <1>2, <2>1 DEF NotFirst
<1>4. \A i \in 1 .. Len(t) : i \in B <=> Len(s) + i \in S
  <2> SUFFICES ASSUME NEW i \in 1 .. Len(t) PROVE i \in B <=> Len(s) + i \in S
    OBVIOUS
  <2>1. Len(s) + i \in 1 .. Len(s) + Len(t) /\ (s \o t)[Len(s) + i] = t[i]
    BY <1>1
  <2> QED  BY <1>2, <2>1 DEF NotFirst
<1> HIDE DEF A, B, S
<1>5. Selected(s \o t, S) = Selected(s, A) \o Selected(t, B)
  <2>1. Divided(S, A, B, Len(s), Len(t))
    BY <1>3, <1>4 DEF Divided
  <2> QED  BY <2>1, SelectedConcat
<1>6. Selected(s, A) \in Seq(Words) /\ Selected(t, B) \in Seq(Words)
  BY SelectedPlaces
<1>7. PacketsOf(Selected(s \o t, S)) = PacketsOf(Selected(s, A)) \o PacketsOf(Selected(t, B))
  BY <1>5, <1>6, PacketsOfConcat
<1>8. PacketsOf(Selected(s, A)) \in Seq(Nat)
  BY <1>6, PacketsOfWords
<1> QED  BY <1>7, <1>8 DEF Ids, A, B, S

LEMMA IdsNone ==
  /\ Ids(<<>>) = <<>>
  /\ \A w \in Words : w.part = "first" => Ids(<<w>>) = <<>>
<1>1. ASSUME NEW s \in Seq(Words), NotFirst(s) = {}
      PROVE  Ids(s) = <<>>
  <2>1. PICK h : Lists(h, {}, Len(s)) /\ Len(h) = Len(Selected(s, {}))
    BY SelectedPlaces
  <2>2. Selected(s, {}) \in Seq(Words)
    BY SelectedPlaces
  <2>3. Len(h) \in Nat /\ ~(1 \in 1 .. Len(h))
    BY <2>1, LenProperties DEF Lists
  <2>4. Selected(s, {}) = <<>>
    BY <2>1, <2>2, <2>3, EmptySeq
  <2>5. PacketsOf(<<>>) = <<>>
    BY DEF PacketsOf
  <2> QED  BY <1>1, <2>4, <2>5 DEF Ids
<1>2. <<>> \in Seq(Words) /\ NotFirst(<<>>) = {}
  BY DEF NotFirst
<1>3. ASSUME NEW w \in Words, w.part = "first"
      PROVE  <<w>> \in Seq(Words) /\ NotFirst(<<w>>) = {}
  BY <1>3 DEF NotFirst
<1> QED  BY <1>1, <1>2, <1>3

(* The second word of a packet is preceded by its first. *)
Linked(w) == \A i \in 1 .. Len(w) : w[i].part = "second" => i > 1 /\ w[i - 1].part = "first"

Joined(q, f) ==
  \A k \in 1 .. Len(f) :
    f[k].part = "second" => IF k = 1 THEN Incomplete(q) ELSE f[k - 1].part = "first"

LEMMA LinkedParts ==
  ASSUME NEW q \in Seq(Words), NEW f \in Seq(Words)
  PROVE  Linked(q \o f) <=> Linked(q) /\ Joined(q, f)
<1> DEFINE u == q \o f
<1>1. /\ Len(u) = Len(q) + Len(f) /\ Len(q) \in Nat /\ Len(f) \in Nat
      /\ \A i \in 1 .. Len(q) : u[i] = q[i]
      /\ \A i \in 1 .. Len(f) : u[Len(q) + i] = f[i]
      /\ \A i \in 1 .. Len(u) : \/ i \in 1 .. Len(q)
                                \/ \E k \in 1 .. Len(f) : i = Len(q) + k
  BY Concatenated
<1> HIDE DEF u
<1>2. Incomplete(q) <=> Len(q) > 0 /\ q[Len(q)].part = "first"
  <2>1. q # <<>> <=> Len(q) > 0
    BY <1>1, EmptySeq
  <2> QED  BY <2>1 DEF Incomplete, Last
<1>3. ASSUME Linked(u) PROVE Linked(q)
  <2> SUFFICES ASSUME NEW i \in 1 .. Len(q), q[i].part = "second"
               PROVE  i > 1 /\ q[i - 1].part = "first"
    BY DEF Linked
  <2>1. i \in 1 .. Len(u) /\ u[i].part = "second"
    BY <1>1
  <2>2. i > 1 /\ u[i - 1].part = "first"
    BY <1>3, <2>1 DEF Linked
  <2>3. i - 1 \in 1 .. Len(q)
    BY <1>1, <2>2
  <2> QED  BY <1>1, <2>2, <2>3
<1>4. ASSUME Linked(u) PROVE Joined(q, f)
  <2> SUFFICES ASSUME NEW k \in 1 .. Len(f), f[k].part = "second"
               PROVE  IF k = 1 THEN Incomplete(q) ELSE f[k - 1].part = "first"
    BY DEF Joined
  <2>1. Len(q) + k \in 1 .. Len(u) /\ u[Len(q) + k].part = "second"
    BY <1>1
  <2>2. Len(q) + k > 1 /\ u[Len(q) + k - 1].part = "first"
    BY <1>4, <2>1 DEF Linked
  <2>3. CASE k = 1
    <3>1. Len(q) + k - 1 = Len(q) /\ Len(q) \in 1 .. Len(q) /\ Len(q) > 0
      BY <1>1, <2>2, <2>3
    <3> QED  BY <1>1, <1>2, <2>2, <2>3, <3>1
  <2>4. CASE k # 1
    <3>1. k - 1 \in 1 .. Len(f) /\ Len(q) + k - 1 = Len(q) + (k - 1)
      BY <1>1, <2>4
    <3> QED  BY <1>1, <2>2, <2>4, <3>1
  <2> QED  BY <2>3, <2>4
<1>5. ASSUME Linked(q), Joined(q, f) PROVE Linked(u)
  <2> SUFFICES ASSUME NEW i \in 1 .. Len(u), u[i].part = "second"
               PROVE  i > 1 /\ u[i - 1].part = "first"
    BY DEF Linked
  <2>1. CASE i \in 1 .. Len(q)
    <3>1. i > 1 /\ q[i - 1].part = "first"
      BY <1>1, <1>5, <2>1 DEF Linked
    <3>2. i - 1 \in 1 .. Len(q)
      BY <1>1, <2>1, <3>1
    <3> QED  BY <1>1, <3>1, <3>2
  <2>2. ASSUME NEW k \in 1 .. Len(f), i = Len(q) + k
        PROVE  i > 1 /\ u[i - 1].part = "first"
    <3>1. IF k = 1 THEN Incomplete(q) ELSE f[k - 1].part = "first"
      BY <1>1, <1>5, <2>2 DEF Joined
    <3>2. CASE k = 1
      <4>1. i - 1 = Len(q) /\ i > 1 /\ Len(q) \in 1 .. Len(q)
        BY <1>1, <1>2, <2>2, <3>1, <3>2
      <4> QED  BY <1>1, <1>2, <3>1, <3>2, <4>1
    <3>3. CASE k # 1
      <4>1. i - 1 = Len(q) + (k - 1) /\ i > 1 /\ k - 1 \in 1 .. Len(f)
        BY <1>1, <2>2, <3>3
      <4> QED  BY <1>1, <3>1, <3>3, <4>1
    <3> QED  BY <3>2, <3>3
  <2> QED  BY <1>1, <2>1, <2>2
<1> QED  BY <1>3, <1>4, <1>5 DEF u

(* What was fetched is what was decoded and what waits in the queue, and the
   queue begins with a packet. *)
ReassemblyInv ==
  /\ fifo \in Seq(Words) /\ queue \in Seq(Words) /\ fetched \in Seq(Words)
  /\ Linked(queue \o fifo)
  /\ \E d \in Seq(Words) : fetched = d \o queue /\ decoded = Ids(d)
  /\ pc # "process" => queue = <<>> \/ \E w \in Words : w.part = "first" /\ queue = <<w>>

LEMMA ReassemblyFetch ==
  ASSUME ReassemblyInv, FetchWords
  PROVE  ReassemblyInv'
<1>1. PICK n \in 1 .. Len(fifo) : /\ queue' = queue \o SubSeq(fifo, 1, n)
                                  /\ fetched' = fetched \o SubSeq(fifo, 1, n)
                                  /\ fifo' = SubSeq(fifo, n + 1, Len(fifo))
  BY DEF FetchWords
<1> DEFINE new == SubSeq(fifo, 1, n)
<1>2. pc' = "process" /\ decoded' = decoded
  BY DEF FetchWords
<1>3. fifo \in Seq(Words) /\ fetched \in Seq(Words) /\ queue \in Seq(Words) /\ Len(fifo) \in Nat
  BY LenProperties DEF ReassemblyInv
<1>4. n \in 0 .. Len(fifo)
  BY <1>1, <1>3
<1>5. new \in Seq(Words) /\ fifo' \in Seq(Words)
  BY <1>1, <1>3, <1>4, TakeDrop
<1>6. fifo = new \o fifo'
  <2>1. /\ Len(new) = n /\ \A i \in 1 .. n : new[i] = fifo[i]
        /\ Len(fifo') = Len(fifo) - n /\ \A i \in 1 .. Len(fifo) - n : fifo'[i] = fifo[n + i]
    BY <1>1, <1>3, <1>4, TakeDrop
  <2> HIDE DEF new
  <2>2. /\ new \o fifo' \in Seq(Words) /\ Len(new \o fifo') = Len(new) + Len(fifo')
        /\ \A i \in 1 .. Len(new) : (new \o fifo')[i] = new[i]
        /\ \A i \in 1 .. Len(fifo') : (new \o fifo')[Len(new) + i] = fifo'[i]
        /\ \A i \in 1 .. Len(new \o fifo') : \/ i \in 1 .. Len(new)
                                             \/ \E k \in 1 .. Len(fifo') : i = Len(new) + k
    BY <1>5, Concatenated
  <2>3. Len(new \o fifo') = Len(fifo)
    BY <1>3, <1>4, <2>1, <2>2
  <2>4. ASSUME NEW i \in 1 .. Len(fifo)
        PROVE  fifo[i] = (new \o fifo')[i]
    <3>1. CASE i \in 1 .. Len(new)
      BY <2>1, <2>2, <3>1
    <3>2. ASSUME NEW k \in 1 .. Len(fifo'), i = Len(new) + k
          PROVE  fifo[i] = (new \o fifo')[i]
      BY <2>1, <2>2, <3>2
    <3> QED  BY <2>2, <2>3, <3>1, <3>2
  <2> QED  BY <1>3, <2>2, <2>3, <2>4, SeqEqual
<1>7. queue' = queue \o new /\ fetched' = fetched \o new
  BY <1>1
<1> HIDE DEF new
<1>8. queue' \in Seq(Words) /\ fetched' \in Seq(Words)
  BY <1>3, <1>5, <1>7, Concatenated
<1>9. queue' \o fifo' = queue \o fifo
  <2>0. queue \in Seq(Words) /\ new \in Seq(Words) /\ fifo' \in Seq(Words)
    BY <1>3, <1>5
  <2>1. (queue \o new) \o fifo' = queue \o (new \o fifo')
    BY <2>0
  <2> QED  BY <1>6, <1>7, <2>1
<1>10. PICK d \in Seq(Words) : fetched = d \o queue /\ decoded = Ids(d)
  BY DEF ReassemblyInv
<1>11. fetched' = d \o queue'
  <2>0. queue \in Seq(Words) /\ new \in Seq(Words)
    BY <1>3, <1>5
  <2>1. (d \o queue) \o new = d \o (queue \o new)
    BY <2>0
  <2> QED  BY <1>7, <1>10, <2>1
<1>12. Linked(queue' \o fifo')
  BY <1>9 DEF ReassemblyInv
<1> QED  BY <1>2, <1>5, <1>8, <1>10, <1>11, <1>12 DEF ReassemblyInv, Linked

(* A queue ends with the word that is put back, or with a packet. *)
LEMMA QueueSplit ==
  ASSUME NEW q \in Seq(Words), Incomplete(q)
  PROVE  \E f \in Seq(Words), w \in Words : q = f \o <<w>> /\ w = Last(q) /\ w.part = "first"
<1>1. Len(q) \in Nat /\ Len(q) > 0
  BY EmptySeq, LenProperties DEF Incomplete
<1>2. PICK n \in 0 .. Len(q) : n = Len(q) - 1
  BY <1>1
<1>3. PICK f \in Seq(Words), w \in Words : f = SubSeq(q, 1, n) /\ w = Last(q)
  <2>1. Len(q) \in 1 .. Len(q)
    BY <1>1
  <2>2. Last(q) \in Words
    BY <2>1, ElementOfSeq DEF Last
  <2>3. SubSeq(q, 1, n) \in Seq(Words)
    BY TakeDrop
  <2> QED  BY <2>2, <2>3
<1>4. Len(f) = n /\ \A i \in 1 .. n : f[i] = q[i]
  BY <1>3, TakeDrop
<1>5. <<w>> \in Seq(Words) /\ Len(<<w>>) = 1 /\ <<w>>[1] = w
  OBVIOUS
<1>6. /\ f \o <<w>> \in Seq(Words) /\ Len(f \o <<w>>) = Len(f) + Len(<<w>>)
      /\ \A i \in 1 .. Len(f) : (f \o <<w>>)[i] = f[i]
      /\ \A i \in 1 .. Len(<<w>>) : (f \o <<w>>)[Len(f) + i] = <<w>>[i]
  BY <1>5, Concatenated
<1>7. Len(f \o <<w>>) = Len(q)
  BY <1>1, <1>2, <1>4, <1>5, <1>6
<1>8. ASSUME NEW i \in 1 .. Len(q)
      PROVE  q[i] = (f \o <<w>>)[i]
  <2>1. CASE i \in 1 .. n
    BY <1>4, <1>6, <2>1
  <2>2. CASE i = Len(q)
    <3>1. (f \o <<w>>)[Len(f) + 1] = w
      BY <1>5, <1>6
    <3>2. Len(f) + 1 = i
      BY <1>1, <1>2, <1>4, <2>2
    <3> QED  BY <1>3, <2>2, <3>1, <3>2 DEF Last
  <2>3. i \in 1 .. n \/ i = Len(q)
    BY <1>1, <1>2
  <2> QED  BY <2>1, <2>2, <2>3
<1>9. q = f \o <<w>>
  BY <1>6, <1>7, <1>8, SeqEqual
<1> QED  BY <1>3, <1>9 DEF Incomplete

LEMMA ReassemblyProcess ==
  ASSUME ReassemblyInv, ProcessQueuedBifData
  PROVE  ReassemblyInv'
<1>1. /\ decoded' = decoded \o PacketsOf(Selected(queue, {i \in DOMAIN queue : Completes(i)}))
      /\ queue' = PutBack
      /\ UNCHANGED <<fifo, fetched>>
  BY DEF ProcessQueuedBifData, bif
<1>2. fifo \in Seq(Words) /\ fetched \in Seq(Words) /\ queue \in Seq(Words)
  BY DEF ReassemblyInv
<1>3. Linked(queue) /\ Joined(queue, fifo)
  BY <1>2, LinkedParts DEF ReassemblyInv
<1>4. {i \in DOMAIN queue : Completes(i)} = NotFirst(queue)
  <2>1. DOMAIN queue = 1 .. Len(queue) /\ Len(queue) \in Nat
    BY <1>2, LenProperties
  <2>2. \A i \in 1 .. Len(queue) : queue[i] \in Words
    BY <1>2, ElementOfSeq
  <2>3. ASSUME NEW i \in 1 .. Len(queue)
        PROVE  Completes(i) <=> queue[i].part # "first"
    <3>1. queue[i].part \in {"only", "first", "second"}
      BY <2>2 DEF Words
    <3>2. queue[i].part = "second" => i > 1 /\ queue[i - 1].part = "first"
      BY <1>3 DEF Linked
    <3> QED  BY <3>1, <3>2 DEF Completes
  <2> QED  BY <2>1, <2>3 DEF NotFirst
<1>5. PICK d \in Seq(Words) : fetched = d \o queue /\ decoded = Ids(d)
  BY DEF ReassemblyInv
<1>6. decoded' = Ids(fetched)
  <2>1. decoded' = Ids(d) \o Ids(queue)
    BY <1>1, <1>4, <1>5 DEF Ids
  <2>2. Ids(d \o queue) = Ids(d) \o Ids(queue)
    BY <1>2, IdsConcat
  <2> QED  BY <1>5, <2>1, <2>2
<1>7. CASE Incomplete(queue)
  <2>1. PICK f \in Seq(Words), w \in Words : queue = f \o <<w>> /\ w = Last(queue) /\ w.part = "first"
    BY <1>2, <1>7, QueueSplit
  <2>2. queue' = <<w>> /\ <<w>> \in Seq(Words)
    BY <1>1, <1>7, <2>1 DEF PutBack
  <2>3. d \o f \in Seq(Words)
    BY Concatenated
  <2>4. fetched = (d \o f) \o <<w>>
    <3>1. d \o (f \o <<w>>) = (d \o f) \o <<w>>
      BY <2>2
    <3> QED  BY <1>5, <2>1, <3>1
  <2>5. decoded' = Ids(d \o f)
    <3>1. Ids((d \o f) \o <<w>>) = Ids(d \o f) \o Ids(<<w>>) /\ Ids(d \o f) \in Seq(Nat)
      BY <2>2, <2>3, IdsConcat
    <3>2. Ids(<<w>>) = <<>>
      BY <2>1, IdsNone
    <3>3. Ids(d \o f) \o <<>> = Ids(d \o f)
      BY <3>1, ConcatEmptySeq
    <3> QED  BY <1>6, <2>4, <3>1, <3>2, <3>3
  <2>6. Linked(<<w>> \o fifo)
    <3>1. Linked(<<w>>)
      BY <2>1 DEF Linked
    <3>2. Incomplete(<<w>>)
      BY <2>1 DEF Incomplete, Last
    <3>3. Joined(<<w>>, fifo)
      BY <1>3, <1>7, <3>2 DEF Joined
    <3> QED  BY <1>2, <2>2, <3>1, <3>3, LinkedParts
  <2>7. \E e \in Seq(Words) : fetched' = e \o queue' /\ decoded' = Ids(e)
    BY <1>1, <2>2, <2>3, <2>4, <2>5
  <2>8. Linked(queue' \o fifo') /\ queue' = <<w>> /\ queue' \in Seq(Words)
    BY <1>1, <2>2, <2>6
  <2> QED  BY <1>1, <1>2, <2>1, <2>7, <2>8 DEF ReassemblyInv, Linked
<1>8. CASE ~Incomplete(queue)
  <2>1. queue' = <<>> /\ <<>> \in Seq(Words)
    BY <1>1, <1>8 DEF PutBack
  <2>2. fetched = fetched \o <<>>
    BY <1>2, ConcatEmptySeq
  <2>3. Linked(<<>> \o fifo)
    <3>1. Linked(<<>>) /\ ~Incomplete(<<>>)
      BY DEF Linked, Incomplete
    <3>2. Joined(<<>>, fifo)
      BY <1>3, <1>8, <3>1 DEF Joined
    <3> QED  BY <1>2, <2>1, <3>1, <3>2, LinkedParts
  <2>4. \E e \in Seq(Words) : fetched' = e \o queue' /\ decoded' = Ids(e)
    BY <1>1, <1>2, <1>6, <2>1, <2>2
  <2>5. Linked(queue' \o fifo')
    BY <1>1, <2>1, <2>3
  <2> QED  BY <1>1, <1>2, <2>1, <2>4, <2>5 DEF ReassemblyInv, Linked
<1> QED  BY <1>7, <1>8

LEMMA ReassemblySends ==
  ASSUME ReassemblyInv, sent \in Nat, BifSends
  PROVE  ReassemblyInv'
<1>1. PICK p \in Packets : fifo' = fifo \o p
  BY DEF BifSends
<1>2. UNCHANGED <<queue, fetched, decoded, pc>>
  BY DEF BifSends, seen
<1>3. fifo \in Seq(Words) /\ queue \in Seq(Words)
  BY DEF ReassemblyInv
<1>4. p \in Seq(Words)
  <2>1. sent + 1 \in Nat
    OBVIOUS
  <2> QED  BY <2>1, PacketWords
<1>5. Joined(queue \o fifo, p)
  <2> DEFINE n == sent + 1
  <2>1. p \in {<<Word(n, "only")>>, <<Word(n, "first"), Word(n, "second")>>, <<Word(n, "first")>>}
    BY DEF Packets
  <2> HIDE DEF n
  <2>2. CASE p = <<Word(n, "only")>>
    BY <2>2 DEF Joined, Word
  <2>3. CASE p = <<Word(n, "first"), Word(n, "second")>>
    <3>1. p[1].part = "first" /\ Len(p) = 2
      BY <2>3 DEF Word
    <3> QED  BY <3>1 DEF Joined
  <2>4. CASE p = <<Word(n, "first")>>
    BY <2>4 DEF Joined, Word
  <2> QED  BY <2>1, <2>2, <2>3, <2>4
<1>6. queue \o fifo \in Seq(Words) /\ fifo' \in Seq(Words)
  BY <1>1, <1>3, <1>4, Concatenated
<1>7. Linked((queue \o fifo) \o p)
  BY <1>4, <1>5, <1>6, LinkedParts DEF ReassemblyInv
<1>8. (queue \o fifo) \o p = queue \o (fifo \o p)
  BY <1>3, <1>4
<1>9. Linked(queue' \o fifo')
  BY <1>1, <1>2, <1>7, <1>8
<1> QED  BY <1>2, <1>6, <1>9 DEF ReassemblyInv, Linked

LEMMA ReassemblyEmpty ==
  /\ <<>> \in Seq(Words) /\ Linked(<<>> \o <<>>)
  /\ \E d \in Seq(Words) : <<>> = d \o <<>> /\ <<>> = Ids(d)
<1>1. <<>> \in Seq(Words) /\ <<>> \o <<>> = <<>>
  OBVIOUS
<1>2. Linked(<<>>)
  BY DEF Linked
<1> QED  BY <1>1, <1>2, IdsNone

LEMMA ReassemblyStep == DrainInv /\ ReassemblyInv /\ [Next]_vars => ReassemblyInv'
<1> SUFFICES ASSUME DrainInv, ReassemblyInv, [Next]_vars
             PROVE  ReassemblyInv'
  OBVIOUS
<1>0. ASSUME UNCHANGED <<fifo, fetched, queue, decoded>>, pc = "process" => pc' = "process"
      PROVE  ReassemblyInv'
  BY <1>0 DEF ReassemblyInv, Linked
<1>1. CASE LoopTop
  BY <1>0, <1>1 DEF LoopTop, bif, seen
<1>2. CASE FetchWords
  BY <1>2, ReassemblyFetch
<1>3. CASE FetchNothing \/ FetchFails
  BY <1>0, <1>3 DEF FetchNothing, FetchFails, NothingFetched, bif, seen
<1>4. CASE ProcessQueuedBifData
  BY <1>4, ReassemblyProcess
<1>5. CASE Send
  BY <1>0, <1>5 DEF Send, bif, seen
<1>6. CASE LoopAgain
  BY <1>0, <1>6 DEF LoopAgain, bif, seen
<1>7. CASE LoopEnds
  BY <1>0, <1>7 DEF LoopEnds, bif, seen
<1>8. CASE TimePasses
  BY <1>0, <1>8 DEF TimePasses, bif, seen
<1>9. CASE DoStartRun
  <2>1. fifo' = <<>> /\ queue' = <<>> /\ fetched' = <<>> /\ decoded' = <<>>
    BY <1>9 DEF DoStartRun
  <2> QED  BY <2>1, ReassemblyEmpty DEF ReassemblyInv
<1>10. CASE StopBegins
  BY <1>0, <1>10 DEF StopBegins, bif, seen
<1>11. CASE StopFlag
  BY <1>0, <1>11 DEF StopFlag, bif, seen
<1>12. CASE StopReturns
  BY <1>0, <1>12 DEF StopReturns, bif, seen
<1>13. CASE BifSends
  BY <1>13, ReassemblySends DEF DrainInv
<1>14. CASE UNCHANGED vars
  BY <1>0, <1>14 DEF vars, bif, seen
<1> QED
  BY <1>1, <1>2, <1>3, <1>4, <1>5, <1>6, <1>7, <1>8, <1>9, <1>10, <1>11, <1>12,
     <1>13, <1>14 DEF Next, RunLoop

LEMMA ReassemblyHolds == ReassemblyInv => PacketsReassembled
<1> SUFFICES ASSUME ReassemblyInv
             PROVE  IF pc = "process" THEN IsPrefix(decoded, Ids(fetched))
                                      ELSE decoded = Ids(fetched)
  BY DEF PacketsReassembled, Ids, NotFirst
<1>1. PICK d \in Seq(Words) : fetched = d \o queue /\ decoded = Ids(d)
  BY DEF ReassemblyInv
<1>2. queue \in Seq(Words)
  BY DEF ReassemblyInv
<1>3. Ids(fetched) = decoded \o Ids(queue) /\ decoded \in Seq(Nat)
  BY <1>1, <1>2, IdsConcat
<1>4. Ids(queue) \in Seq(Nat)
  BY <1>2, IdsConcat
<1>5. pc # "process" => decoded = Ids(fetched)
  <2>1. pc # "process" => Ids(queue) = <<>>
    BY IdsNone DEF ReassemblyInv
  <2>2. decoded \o <<>> = decoded
    BY <1>3, ConcatEmptySeq
  <2> QED  BY <1>3, <2>1, <2>2
<1>6. IsPrefix(decoded, decoded \o Ids(queue))
  <2> DEFINE r == Ids(queue)
  <2>0. r \in Seq(Nat) /\ decoded \in Seq(Nat)
    BY <1>3, <1>4
  <2> HIDE DEF r
  <2>1. Len(decoded) <= Len(decoded \o r)
    BY <2>0
  <2>2. SubSeq(decoded, 1, Len(decoded)) = SubSeq(decoded \o r, 1, Len(decoded))
    BY <2>0, ConcatProperties
  <2>3. IsPrefix(decoded, decoded \o r)
    BY <2>1, <2>2 DEF IsPrefix
  <2> QED  BY <2>3 DEF r
<1> QED  BY <1>3, <1>5, <1>6

(* Spec implies that PacketsReassembled always holds: wherever the fetches of a
   run end, and however many of them fail, the packets are decoded in order,
   each of them once, as soon as the last word is there. *)
THEOREM PacketsOnce == Spec => []PacketsReassembled
<1>1. Init => Handshake /\ DrainInv
  BY DEF Init, Handshake, DrainInv
<1>2. Init => ReassemblyInv
  <2> SUFFICES ASSUME Init PROVE ReassemblyInv
    OBVIOUS
  <2>1. fifo = <<>> /\ queue = <<>> /\ fetched = <<>> /\ decoded = <<>>
    BY DEF Init
  <2> QED  BY <2>1, ReassemblyEmpty DEF ReassemblyInv
<1> QED  BY <1>1, <1>2, HandshakeStep, DrainStep, ReassemblyStep, ReassemblyHolds, PTL DEF Spec
=============================================================================
