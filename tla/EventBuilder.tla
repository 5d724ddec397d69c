---------------------------- MODULE EventBuilder ----------------------------
(***************************************************************************)
(* How ScReader builds events from the two maps LdaStream fills: ASIC data *)
(* and timestamps of each readout cycle (ROC).  buildEvents runs at the    *)
(* end of every Read, over as many packets as that Read found, and once    *)
(* more, without keeping anything back, when the run ends.  All four event *)
(* building modes are modelled, each loop iteration as an operator on a    *)
(* record of the state the loop changes.                                   *)
(*                                                                         *)
(* The packets come from the LDA (external): per cycle a start, triggers,  *)
(* a stop and, after the acquisition, ASIC packets, which may be DataLag   *)
(* cycles late.  A hit is the pair <<cycle, BXID>> it truly belongs to.    *)
(* seenTs, seenHits and full record what arrived; no guard reads them.     *)
(***************************************************************************)
EXTENDS Integers, Sequences, FiniteSets, SequencesExt, Subsequences

CONSTANTS
  Modes,            \* EventBuildingModes the run may be configured with
  DummyChoices,     \* values of InsertDummyPackets
  MinHitChoices,    \* values of MinimumEventHits
  KeepBuffered,     \* _KeepBuffered
  TrigidOffset,     \* _LdaTrigidOffset
  GenerateFrom,     \* _GenerateTriggerIDFrom
  Bxid0Offset,      \* _AHCALBXID0Offset, 2123 ticks
  BxidWidth,        \* _AHCALBXIDWidth, 160 ticks
  MinBxid,          \* _minimumBxid
  MaxTrigBxid,      \* 65535
  MaxLength,        \* 1000 * C_MILLISECOND_TICS
  PartPackets,      \* sets of BXIDs that an ASIC may report, and those
  FullPackets,      \* that it reports with all memory cells filled
  DataLag,          \* LDA: how many cycles late an ASIC packet may be
  Period,           \* LDA: time from one start to the next
  StopAfter,        \* LDA: length of an acquisition
  TrigTimes,        \* LDA: times of triggers relative to the start
  MaxRoc, MaxTrig, MaxPackets, MaxLost   \* bounds of the model

Packets == PartPackets \cup FullPackets

NoBxid == 1000000      \* AhcalBxid when no ASIC data are left
None   == -1

ASSUME BuilderAssumption ==
  /\ Modes \subseteq {"ROC", "TRIGGERID", "BXID_ALL", "BXID_VALIDATED"}
  /\ DummyChoices \subseteq BOOLEAN /\ MinHitChoices \subseteq Nat
  /\ KeepBuffered \in Nat /\ DataLag \in Nat /\ DataLag < KeepBuffered
  /\ TrigidOffset \in Int /\ GenerateFrom \in Int /\ MinBxid \in Int
  /\ BxidWidth \in Nat \ {0} /\ Bxid0Offset \in Nat
  /\ MaxTrigBxid \in Nat /\ MaxTrigBxid < NoBxid /\ MaxLength \in Nat
  /\ Packets \subseteq (SUBSET Nat) \ {{}}
  /\ \A bxids \in Packets : IsFiniteSet(bxids)
  /\ Period \in Nat /\ StopAfter \in Nat /\ TrigTimes \subseteq Int
  /\ \A t \in TrigTimes : StopAfter - Period < t /\ t < Period
  /\ MaxRoc \in Nat /\ MaxTrig \in Nat /\ MaxPackets \in Nat /\ MaxLost \in Nat

VARIABLES
  mode, dummies, minHits,    \* the configuration of the run
  asicData, tsData,          \* _LDAAsicData, _LDATimestampData
  minLast,                   \* minLastBxid_Detector
  lastBuilt,                 \* _lastBuiltEventNr
  queued,                    \* every event put into the EventQueue
  undefined,                 \* a past-the-end iterator was dereferenced
  hwRoc, phase, nextTrig, lastTime, packets, lost,    \* the LDA
  seenTs, seenHits                       \* history

config == <<mode, dummies, minHits>>
maps   == <<asicData, tsData, minLast>>
lda    == <<hwRoc, phase, nextTrig, lastTime, packets, lost,
            seenTs, seenHits>>
builderVars == <<config, maps, lastBuilt, queued, undefined, lda>>
-----------------------------------------------------------------------------
EmptyMap == [x \in {} |-> 0]
NoTimes  == [start |-> 0, stop |-> 0, trigs |-> <<>>]

At(f, k, default) == IF k \in DOMAIN f THEN f[k] ELSE default
Put(f, k, v)      == [x \in DOMAIN f \cup {k} |-> IF x = k THEN v ELSE f[x]]
KeepOnly(f, S)    == [x \in DOMAIN f \cap S |-> f[x]]
First(f)          == Min(DOMAIN f)

(* The keys of a map, in their order. *)
Ascending(S) == IF S = {} THEN <<>>
                ELSE Selected([i \in 1 .. Max(S) + 1 |-> i - 1], {x + 1 : x \in S})

(* An event of the queue: what it is, its cycle and BXID tags, its number
   (of the trigger or the event; when events are built by ROC, the cycle), the
   triggers it stands for, its hits and its timestamp interval (0, 0 when none
   was set). *)
EventOf(kind, roc, bxid, n, trigs, hits, from, to) ==
  [kind |-> kind, roc |-> roc, bxid |-> bxid, n |-> n, trigs |-> trigs,
   hits |-> hits, from |-> from, to |-> to]

(* Fault: the counter is incremented once too often. *)
DummiesOffByOne(roc, a, b) ==
  [i \in 1 .. (IF b >= a THEN b - a + 1 ELSE 0) |->
     EventOf("dummy", roc, None, a + i, <<>>, {}, 0, 0)]

(* insertDummyEvent and insertMissedTrigger for the numbers a to b. *)
Dummies(roc, a, b) ==
  [i \in 1 .. (IF b >= a THEN b - a + 1 ELSE 0) |->
     EventOf("dummy", roc, None, a + i - 1, <<>>, {}, 0, 0)]

(* What keeps the numbers without a gap from the last one to number n. *)
Missed(roc, last, n) == IF dummies THEN Dummies(roc, last + 1, n - 1) ELSE <<>>

BxidBegin(start, bxid) == start + Bxid0Offset + bxid * BxidWidth - 1
BxidEnd(start, bxid)   == start + Bxid0Offset + (bxid + 1) * BxidWidth + 1

(* Fault: the tolerance of the error message is used for the decision. *)
IsBXIDCompleteTolerant(roc, bxid) ==
  roc \in DOMAIN minLast => bxid <= minLast[roc] + 4

(* IsBXIDComplete: a BXID after the first full memory of the cycle is not. *)
IsBXIDComplete(roc, bxid) ==
  roc \in DOMAIN minLast => bxid <= minLast[roc]
-----------------------------------------------------------------------------
(* One iteration of buildROCEvents. *)
BuildROCCycle(s) ==
  LET roc   == First(s.asic)
      times == At(s.ts, roc, NoTimes)
      timed == times.start # 0 /\ times.stop # 0
      event == EventOf("data", roc, None, roc, <<>>, s.asic[roc],
                       IF timed THEN times.start ELSE 0,
                       IF timed THEN times.stop ELSE 0)
  IN  [s EXCEPT
         !.out  = @ \o Missed(None, s.last, roc) \o <<event>>,
         !.last = IF ~dummies THEN @ ELSE IF @ + 1 < roc THEN roc ELSE @ + 1,
         !.asic = KeepOnly(@, DOMAIN @ \ {roc}),
         !.ts   = KeepOnly(@, DOMAIN @ \ {roc})]

(* One iteration of buildBXIDEvents: an event for every complete BXID. *)
BuildBXIDCycle(s) ==
  LET roc   == First(s.asic)
      start == At(s.ts, roc, NoTimes).start
      bxids == {b \in {h[2] : h \in s.asic[roc]} : IsBXIDComplete(roc, b)}
      event(b) == EventOf("data", roc, b, None, <<>>,
                          {h \in s.asic[roc] : h[2] = b},
                          IF start # 0 THEN BxidBegin(start, b) ELSE 0,
                          IF start # 0 THEN BxidEnd(start, b) ELSE 0)
      order == Ascending(bxids)
  IN  [s EXCEPT
         !.out  = @ \o [i \in DOMAIN order |-> event(order[i])],
         !.last = @ + Cardinality(bxids),
         !.asic = KeepOnly(@, DOMAIN @ \ {roc}),
         !.ts   = KeepOnly(@, DOMAIN @ \ {roc})]

(* A trigger inside an acquisition of sane length. *)
InAcquisition(times, t) ==
  /\ times.start <= t.ts /\ t.ts <= times.stop
  /\ times.stop - times.start <= MaxLength

(* insertDummyEvents and the event of trigger t, to which all data of the
   cycle go. *)
EmitTrigger(roc, hits, b, t) ==
  LET number == t.id + TrigidOffset
  IN  [last |-> IF ~dummies THEN b.last
                ELSE IF b.last + 1 < number THEN number ELSE b.last + 1,
       out  |-> b.out \o Missed(None, b.last, number)
                      \o <<EventOf("data", roc, None, number, <<t.id>>, hits,
                                   t.ts - BxidWidth, t.ts + BxidWidth)>>]

(* One iteration of buildTRIGIDEvents: every trigger inside the acquisition. *)
BuildTRIGIDCycle(s) ==
  LET roc    == First(s.asic)
      times  == At(s.ts, roc, NoTimes)
      inside == Selected(times.trigs,
                         {i \in DOMAIN times.trigs : InAcquisition(times, times.trigs[i])})
      upTo[k \in 0 .. Len(inside)] ==
        IF k = 0 THEN [last |-> s.last, out |-> s.out]
        ELSE EmitTrigger(roc, s.asic[roc], upTo[k - 1], inside[k])
      end == upTo[Len(inside)]
  IN  [s EXCEPT !.out = end.out, !.last = end.last,
                !.asic = KeepOnly(@, DOMAIN @ \ {roc}),
                !.ts   = KeepOnly(@, DOMAIN @ \ {roc})]
-----------------------------------------------------------------------------
(* Integer division of C++: towards zero. *)
Quotient(a, b) == IF a >= 0 THEN a \div b ELSE -((-a) \div b)

(* Fault: without its casts the difference is unsigned, so that a time before
   BXID 0 becomes a huge BXID. *)
TriggerBxidUnsigned(start, ts) ==
  IF ts - start - Bxid0Offset < 0 THEN MaxTrigBxid + 1
  ELSE Quotient(ts - start - Bxid0Offset, BxidWidth)

TriggerBxid(start, ts) == Quotient(ts - start - Bxid0Offset, BxidWidth)

(* multimap::insert: behind the entries whose BXID is not larger. *)
Inserted(m, t) ==
  LET k == Cardinality({i \in DOMAIN m : m[i].bxid <= t.bxid})
  IN  SubSeq(m, 1, k) \o <<t>> \o SubSeq(m, k + 1, Len(m))

WithBxid(start, t) == [id |-> t.id, ts |-> t.ts, bxid |-> TriggerBxid(start, t.ts)]

(* triggerBxids: the multimap of the cycle's triggers, ordered by BXID and,
   within a BXID, by arrival.  Without a start there is none. *)
TriggerBxids(times) ==
  LET upTo[n \in 0 .. Len(times.trigs)] ==
        IF n = 0 THEN <<>>
        ELSE IF TriggerBxid(times.start, times.trigs[n].ts) <= MaxTrigBxid
        THEN Inserted(upTo[n - 1], WithBxid(times.start, times.trigs[n]))
        ELSE upTo[n - 1]
  IN  IF times.start = 0 THEN <<>> ELSE upTo[Len(times.trigs)]

(* Fault: nothing is kicked out. *)
RemainingAll(bxids, trigBxid) == bxids

(* "Kick out AHCAL bxids preceding the BXID of the trigger." *)
Remaining(bxids, trigBxid) == {x \in bxids : x >= trigBxid}

(* Fault: the triggers taken along are looked at again. *)
JoinedUpToSelf(k, same) == k

(* The first BXID that is left, if any, is the one a trigger is matched to. *)
Looked(left) == IF left = {} THEN NoBxid ELSE Min(left)

(* The other triggers of the same BXID. *)
SameBxid(trigs, k) == {j \in k + 1 .. Len(trigs) : trigs[j].bxid = trigs[k].bxid}

(* The last trigger an event stands for, and all of them: without dummies the
   triggers of the same BXID are joined. *)
JoinedUpTo(k, same) == IF dummies THEN k ELSE k + Cardinality(same)

JoinedIds(trigs, k, same) ==
  IF dummies THEN <<trigs[k].id>>
  ELSE [j \in 1 .. 1 + Cardinality(same) |-> trigs[k + j - 1].id]

(* insertEmptyEvent, which adds no offset to the trigger's number. *)
EmptyEvent(roc, t, from, to) ==
  EventOf("empty", roc, t.bxid, t.id, <<t.id>>, {}, from, to)

(* The trigger loop of buildValidatedBXIDEvents for trigger k.  b.left are the
   BXIDs from the ASIC iterator on; b.joined is the last trigger that an
   earlier event has taken along. *)
ValidateTrigger(roc, times, hits, trigs, b, k) ==
  LET t      == trigs[k]
      number == t.id + TrigidOffset
      missed == Missed(roc, b.last, number)
      last   == b.last + Len(missed)
      left   == Remaining(b.left, t.bxid)
      bxid   == Looked(left)
      same   == SameBxid(trigs, k)
      from   == BxidBegin(times.start, t.bxid)
      to     == BxidEnd(times.start, t.bxid)
  IN  IF k <= b.joined THEN b
      ELSE IF bxid > t.bxid /\ minHits = 0
      THEN [b EXCEPT !.left = left, !.last = last + 1,
                     !.out = @ \o missed \o <<EmptyEvent(roc, t, from, to)>>]
      ELSE IF ~IsBXIDComplete(roc, bxid) /\ ~dummies
      THEN [b EXCEPT !.left = left \ {bxid}, !.undefined = @ \/ left = {}]
      ELSE [b EXCEPT
              !.left = IF ~dummies /\ same = {} THEN left \ {bxid} ELSE left,
              !.last = last,
              !.joined = JoinedUpTo(k, same),
              !.undefined = @ \/ left = {},
              !.out = @ \o missed \o
                 <<EventOf("data", roc, t.bxid, number, JoinedIds(trigs, k, same),
                           {h \in hits : h[2] = bxid}, from, to)>>]

(* One iteration of buildValidatedBXIDEvents: the oldest cycle of the
   timestamps is processed; older ASIC data have no timestamps and go.  The
   data of the processed cycle are moved out, its ASIC entry stays. *)
BuildValidatedCycle(s) ==
  LET asicRoc == First(s.asic)
      roc     == First(s.ts)
      hits    == IF asicRoc = roc THEN s.asic[roc] ELSE {}
      trigs   == TriggerBxids(s.ts[roc])
      upTo[k \in 0 .. Len(trigs)] ==
        IF k = 0 THEN [left |-> {h[2] : h \in hits}, last |-> s.last, joined |-> 0,
                       undefined |-> s.undefined, out |-> s.out]
        ELSE ValidateTrigger(roc, s.ts[roc], hits, trigs, upTo[k - 1], k)
      end == upTo[Len(trigs)]
  IN  IF DOMAIN s.ts = {} \/ asicRoc < roc
      THEN [s EXCEPT !.asic = KeepOnly(@, DOMAIN @ \ {asicRoc})]
      ELSE [s EXCEPT !.out = end.out, !.last = end.last,
                     !.undefined = end.undefined,
                     !.asic = IF asicRoc = roc THEN [@ EXCEPT ![roc] = {}] ELSE @,
                     !.ts = KeepOnly(@, {r \in DOMAIN @ : r > roc})]
-----------------------------------------------------------------------------
BuildCycle(s) ==
  CASE mode = "ROC"            -> BuildROCCycle(s)
    [] mode = "TRIGGERID"      -> BuildTRIGIDCycle(s)
    [] mode = "BXID_ALL"       -> BuildBXIDCycle(s)
    [] mode = "BXID_VALIDATED" -> BuildValidatedCycle(s)

(* Fault: one cycle too few is kept. *)
KeptOneLess(dumpAll) == IF dumpAll THEN 0 ELSE KeepBuffered - 1

(* keptEventCount: how many cycles stay in the ASIC map. *)
Kept(dumpAll) == IF dumpAll THEN 0 ELSE KeepBuffered

Round(s, dumpAll) ==
  IF Cardinality(DOMAIN s.asic) > Kept(dumpAll) THEN BuildCycle(s) ELSE s

(* buildEvents.  Every iteration takes a cycle out of a map, so the loop ends
   within as many rounds as the maps have entries. *)
buildEvents(dumpAll) ==
  LET rounds == Cardinality(DOMAIN asicData) + Cardinality(DOMAIN tsData)
      after[n \in 0 .. rounds] ==
        IF n = 0 THEN [asic |-> asicData, ts |-> tsData, last |-> lastBuilt,
                       out |-> queued, undefined |-> undefined]
        ELSE Round(after[n - 1], dumpAll)
      end == after[rounds]
  IN  /\ asicData' = end.asic
      /\ tsData' = end.ts
      /\ lastBuilt' = end.last
      /\ queued' = end.out
      /\ undefined' = end.undefined
-----------------------------------------------------------------------------
StartOf(roc) == Period * (roc + 1)

Running == phase # "ended" /\ ~undefined

(* The entry of the cycle with a field changed; the packet may also be lost. *)
File(entry(_)) ==
  \/ /\ tsData' = Put(tsData, hwRoc, entry(At(tsData, hwRoc, NoTimes)))
     /\ seenTs' = Put(seenTs, hwRoc, entry(At(seenTs, hwRoc, NoTimes)))
     /\ UNCHANGED lost
  \/ /\ lost < MaxLost
     /\ lost' = lost + 1
     /\ UNCHANGED <<tsData, seenTs>>

StartPacket ==
  /\ Running /\ phase = "before"
  /\ phase' = "acquiring"
  /\ File(LAMBDA e : [e EXCEPT !.start = StartOf(hwRoc)])
  /\ lastTime' = IF lastTime > StartOf(hwRoc) THEN lastTime ELSE StartOf(hwRoc)
  /\ UNCHANGED <<config, asicData, minLast, lastBuilt, queued, undefined, hwRoc,
                 nextTrig, packets, seenHits>>

StopPacket ==
  /\ Running /\ phase = "acquiring"
  /\ phase' = "after"
  /\ File(LAMBDA e : [e EXCEPT !.stop = StartOf(hwRoc) + StopAfter])
  /\ lastTime' = IF lastTime > StartOf(hwRoc) + StopAfter THEN lastTime
                 ELSE StartOf(hwRoc) + StopAfter
  /\ UNCHANGED <<config, asicData, minLast, lastBuilt, queued, undefined, hwRoc,
                 nextTrig, packets, seenHits>>

(* A trigger happens later than all packets before it, in the part of the
   cycle its time says; it is numbered even when its packet is lost. *)
TriggerPacket ==
  /\ Running /\ nextTrig < MaxTrig
  /\ nextTrig' = nextTrig + 1
  /\ \E dt \in TrigTimes :
       LET ts == StartOf(hwRoc) + dt
       IN  /\ ts > lastTime
           /\ phase = (CASE dt < 0 -> "before"
                         [] 0 <= dt /\ dt < StopAfter -> "acquiring"
                         [] OTHER -> "after")
           /\ lastTime' = ts
           /\ File(LAMBDA e : [e EXCEPT !.trigs =
                                 Append(@, [id |-> nextTrig, ts |-> ts])])
  /\ UNCHANGED <<config, asicData, minLast, lastBuilt, queued, undefined, hwRoc,
                 phase, packets, seenHits>>

NextCycle ==
  /\ Running /\ phase = "after" /\ hwRoc < MaxRoc
  /\ hwRoc' = hwRoc + 1 /\ phase' = "before"
  /\ UNCHANGED <<config, maps, lastBuilt, queued, undefined, nextTrig, lastTime,
                 packets, lost, seenTs, seenHits>>

(* The rest of readAHCALData, after the cycle is known: a packet has a hit per
   filled memory cell; when all cells are filled, its largest BXID bounds the
   complete BXIDs of the cycle (a stored 0 counts as no bound).  BXIDs below
   MinBxid are left out. *)
AsicPacket(roc, bxids, memoryFull) ==
  LET last == Max(bxids)
      hits == {<<roc, b>> : b \in {x \in bxids : x >= MinBxid}}
      old  == At(minLast, roc, 0)
  IN  /\ asicData' = Put(asicData, roc, At(asicData, roc, {}) \cup hits)
      /\ minLast' = IF ~memoryFull THEN minLast
                    ELSE Put(minLast, roc,
                             IF old # 0 /\ old <= last THEN old ELSE last)
      /\ seenHits' = seenHits \cup hits

DataPacket ==
  /\ Running /\ packets < MaxPackets
  /\ packets' = packets + 1
  /\ \E roc \in {r \in (hwRoc - DataLag) .. hwRoc : r >= 0},
        bxids \in Packets, memoryFull \in BOOLEAN :
       /\ bxids \in IF memoryFull THEN FullPackets ELSE PartPackets
       /\ roc = hwRoc => phase = "after"
       /\ AsicPacket(roc, bxids, memoryFull)
  /\ UNCHANGED <<config, tsData, lastBuilt, queued, undefined, hwRoc, phase,
                 nextTrig, lastTime, lost, seenTs>>

(* The end of a Read. *)
EndOfRead ==
  /\ Running
  /\ buildEvents(FALSE)
  /\ UNCHANGED <<config, minLast, lda>>

(* The connection is closed: the RunLoop leaves its loop. *)
RunEnds ==
  /\ Running /\ phase = "after"
  /\ phase' = "ended"
  /\ buildEvents(TRUE)
  /\ UNCHANGED <<config, minLast, hwRoc, nextTrig, lastTime, packets,
                 lost, seenTs, seenHits>>
-----------------------------------------------------------------------------
BuilderInit ==
  /\ mode \in Modes /\ dummies \in DummyChoices /\ minHits \in MinHitChoices
  /\ asicData = EmptyMap /\ tsData = EmptyMap /\ minLast = EmptyMap
  /\ lastBuilt = IF mode \in {"BXID_VALIDATED", "TRIGGERID"}
                 THEN GenerateFrom - 1 ELSE -1
  /\ queued = <<>> /\ undefined = FALSE
  /\ hwRoc = 0 /\ phase = "before" /\ nextTrig = 0 /\ lastTime = 0
  /\ packets = 0 /\ lost = 0
  /\ seenTs = EmptyMap /\ seenHits = {}

BuilderNext ==
  \/ StartPacket
  \/ StopPacket
  \/ TriggerPacket
  \/ NextCycle
  \/ DataPacket
  \/ EndOfRead
  \/ RunEnds

BuilderSpec == BuilderInit /\ [][BuilderNext]_builderVars
-----------------------------------------------------------------------------
Events == Range(queued)

(* Some ASIC had no memory left for hits of this BXID. *)
MayBeIncomplete(roc, bxid) ==
  roc \in DOMAIN minLast /\ bxid > minLast[roc]

(* ScReader.cc:737, "we assume the AhcalBxid == triggerBxid below": the hits
   of an event are hits of its own cycle and, when it has one, of its own
   BXID, and no iterator is used past its end. *)
HitsBelong ==
  /\ ~undefined
  /\ \A e \in Events : \A h \in e.hits :
       h[1] = e.roc /\ (e.bxid # None => h[2] = e.bxid)

(* Unless dummies are asked for, no BXID reaches an event that some full ASIC
   may have missed, also when the full memory is reported by a late packet. *)
OnlyComplete ==
  ~dummies => \A e \in Events : e.bxid # None /\ e.hits # {}
                                 => ~MayBeIncomplete(e.roc, e.bxid)

(* Event d may be in the queue before event e. *)
MayPrecede(d, e) ==
  /\ "dummy" \notin {d.kind, e.kind} =>
       d.roc < e.roc \/ (d.roc = e.roc /\ d.bxid <= e.bxid)
  /\ \A a \in Range(d.trigs), b \in Range(e.trigs) : a < b

(* Cycles leave in order and, within a cycle, BXIDs; the triggers of the whole
   output, joined ones included, are strictly increasing, so that none is in
   two events. *)
OutputOrdered ==
  \A j \in 1 .. Len(queued) :
    /\ \A i \in 1 .. j - 1 : MayPrecede(queued[i], queued[j])
    /\ \A k, l \in 1 .. Len(queued[j].trigs) :
         k < l => queued[j].trigs[k] < queued[j].trigs[l]

(* What the interval of a validated event says of its triggers.  From BXID 0 on
   the interval, a BXID wide and one tick more on either side, covers them.  A
   trigger before BXID 0 is rounded up to the next BXID, so that the interval
   begins up to one BXID later than the trigger or, on the border, just before
   it: BXID 0 has triggers of both sorts. *)
Covers(e, ts) ==
  /\ ts > e.from - (IF e.bxid > 0 THEN 0 ELSE BxidWidth - 1)
  /\ ts < (IF e.bxid >= 0 THEN e.to ELSE e.from + 2)

(* The BXID in which a trigger really came. *)
TrueBxid(start, ts) == (ts - start - Bxid0Offset) \div BxidWidth

(* Validated building accounts for every trigger of a processed cycle with a
   start, before BXID 0 too: an event of the cycle has it and an interval that
   fits it, or its BXID is too large, or has hits but may be incomplete and
   dummies are off. *)
EveryTriggerBuilt ==
  mode = "BXID_VALIDATED" =>
    \A r \in {c \in DOMAIN seenTs \ DOMAIN tsData : seenTs[c].start # 0} :
      \A k \in 1 .. Len(seenTs[r].trigs) :
        LET t    == seenTs[r].trigs[k]
            bxid == TrueBxid(seenTs[r].start, t.ts)
        IN  \/ \E e \in Events :
                 e.roc = r /\ t.id \in Range(e.trigs) /\ Covers(e, t.ts)
            \/ bxid > MaxTrigBxid
            \/ ~dummies /\ MayBeIncomplete(r, bxid) /\ <<r, bxid>> \in seenHits

(* By ROC, or by all BXIDs, every hit of a built cycle is in exactly one event,
   however late its packet; an incomplete BXID is in none. *)
HitsOnce ==
  mode \in {"ROC", "BXID_ALL"} =>
    \A h \in seenHits : h[1] \notin DOMAIN asicData =>
      Cardinality({i \in 1 .. Len(queued) : h \in queued[i].hits}) =
        IF mode = "BXID_ALL" /\ MayBeIncomplete(h[1], h[2]) THEN 0 ELSE 1

(* AHCALProducer.hh:106, "Put dummy packets to maintain an uninterrupted
   sequence of TriggerIDs": the numbers go up by one. *)
Uninterrupted ==
  dummies => \A i \in 1 .. Len(queued) - 1 : queued[i + 1].n = queued[i].n + 1

(* Building by ROC or by trigger keeps that promise, through lost triggers
   and cycles without data, and begins with the configured number. *)
UninterruptedByRocOrTrigger ==
  mode \in {"ROC", "TRIGGERID"} =>
    /\ Uninterrupted
    /\ dummies /\ queued # <<>> =>
         queued[1].n = IF mode = "ROC" THEN 0 ELSE GenerateFrom
=============================================================================
