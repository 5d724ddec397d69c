------------------------------ MODULE ScParser ------------------------------
(***************************************************************************)
(* ScReader::Read: the byte stream from LabView is cut into slow control,  *)
(* LED and HV blocks and LDA packets.  TCP delivers the stream in pieces   *)
(* of any size, and Read is called after each of them.                     *)
(*                                                                         *)
(* The buffer is always a piece of the stream, from pos to arrived; bytes  *)
(* that are recorded are represented by their places in the stream.  What  *)
(* an LDA packet holds and what the events are built of is in LdaStream    *)
(* and EventBuilder; here only whether the build makes an event matters.   *)
(* attached, read and split are history.                                   *)
(***************************************************************************)
EXTENDS Integers, Sequences, FiniteSets, SequencesExt

CONSTANTS
  Inputs            \* the streams, each with the blocks [kind, first, last] in it

MagicSc   == <<\hAC, \hDC>>
MagicLed  == <<\hDA, \hC1>>
MagicData == <<\hCD, \hCD>>
MagicHv   == <<\hBA, \hD1>>
Footer    == <<\hAB, \hAB>>
AsicType  == <<\h41, \h43, \h48, \h41>>
TempType  == <<\h41, \h43, \h7A, \h00>>
TsType    == <<\h45, \h4D, \h49, \h54>>
ConfType  == <<\h02, \h83, \h00, \h80>>

SizeLdaHeader == 10
MinSize       == 8
MinPacket     == 14
SizeHv        == 12

length(h) == h[4] * 256 + h[3]
status(h) == h[10]
Type(h)   == <<h[11], h[12], h[13], h[14]>>

(* What the header h of a packet says the packet is. *)
PacketKind(h) ==
  CASE status(h) = \hA0 /\ Type(h) = TempType -> "temp"
    [] status(h) = \h08 /\ Type(h) = TsType -> "ts"
    [] length(h) = 8 /\ status(h) = \h10 /\ Type(h) = ConfType -> "conf"
    [] (status(h) \div 64) % 2 = 0 -> "other"    \* bit 6
    [] Type(h) = AsicType -> "asic"
    [] OTHER -> "invalid"

Kinds == {"junk", "sc", "led", "hv", "broken hv",
          "temp", "ts", "conf", "other", "asic", "invalid"}

(* The form of a block; junk is anything between blocks. *)
Form(kind, bytes) ==
  IF kind = "junk" THEN Len(bytes) > 0
  ELSE /\ Len(bytes) >= 2
       /\ LET magic == <<bytes[1], bytes[2]>> IN
          \/ kind = "sc" /\ magic = MagicSc
          \/ kind = "led" /\ magic = MagicLed
             /\ Len(bytes) >= 3 /\ Len(bytes) = 3 + 4 * bytes[3]
          \/ kind = "hv" /\ magic = MagicHv
             /\ Len(bytes) = SizeHv /\ <<bytes[11], bytes[12]>> = Footer
          \/ kind = "broken hv" /\ magic = MagicHv
          \/ magic = MagicData
             /\ Len(bytes) >= MinPacket /\ Len(bytes) = SizeLdaHeader + length(bytes)
             /\ kind = PacketKind(bytes)

(* Every byte of a stream is in one block, of the form that its kind has. *)
ASSUME InputsAssumption ==
  \A input \in Inputs :
    LET stream == input.bytes IN
    /\ stream \in Seq(0 .. 255)
    /\ input.blocks \subseteq [kind : Kinds, first : 1 .. Len(stream), last : 1 .. Len(stream)]
    /\ \A b \in input.blocks :
         b.first <= b.last /\ Form(b.kind, SubSeq(stream, b.first, b.last))
    /\ \A i \in 1 .. Len(stream) : \E b \in input.blocks : i \in b.first .. b.last
    /\ \A b, c \in input.blocks : b = c \/ b.last < c.first \/ c.last < b.first

VARIABLES
  input,            \* the stream of this run
  pos, arrived,     \* the buffer holds the bytes pos + 1 .. arrived
  state,            \* _unfinishedPacketState: "DONE" or "SLOWCONTROL"
  pc,               \* "wait" for data, "scan" inside Read
  slowcontrol,      \* bytes for the next event
  attached,         \* the slow control blocks of the events of this run
  read,             \* what was read: kind and place of its first byte
  split             \* the blocks of which a call of Read found only a part

parserVars == <<input, pos, arrived, state, pc, slowcontrol, attached, read, split>>
-----------------------------------------------------------------------------
Stream == input.bytes

bufsize == arrived - pos

buf(i) == Stream[pos + 1 + i]

PairAt(i) == <<buf(i), buf(i + 1)>>

Places(i, j) == [k \in 1 .. j - i |-> pos + i + k]

(* buildEvents, when it makes events: the first takes what was recorded. *)
Build ==
  \/ UNCHANGED <<slowcontrol, attached>>
  \/ slowcontrol # <<>> /\ slowcontrol' = <<>> /\ attached' = attached \cup {slowcontrol}

(* The two ways to leave Read: after an incomplete block no event is built. *)
NeedMoreData ==
  /\ pc' = "wait" /\ Build
  /\ UNCHANGED <<input, pos, arrived, state, read, split>>

IncompleteInfo == pc' = "wait" /\ UNCHANGED <<input, arrived, attached, read, split>>

Took(kind, n) ==
  /\ pos' = pos + n
  /\ read' = Append(read, [kind |-> kind, at |-> pos + 1])
  /\ UNCHANGED <<input, arrived, state, pc, slowcontrol, attached, split>>

Erase(n) ==
  /\ pos' = pos + n
  /\ UNCHANGED <<input, arrived, state, pc, slowcontrol, attached, read, split>>

Scanning == pc = "scan" /\ bufsize >= MinSize
-----------------------------------------------------------------------------
ReadLed ==
  /\ Scanning /\ state = "DONE" /\ PairAt(0) = MagicLed
  /\ LET layerN == buf(2)
         (* The layers end early at a byte that looks like the data magic. *)
         layers == CHOOSE k \in 0 .. layerN :
                     /\ k = layerN \/ buf(4 * k + 2) = MagicData[1]
                     /\ \A j \in 0 .. k - 1 : buf(4 * j + 2) # MagicData[1]
     IN  IF bufsize < 3 + layerN * 4
         THEN IncompleteInfo /\ UNCHANGED <<pos, state, slowcontrol>>
         ELSE Took("led", 4 * layers + 1)

(* The slow control goes up to the next magic of another kind. *)
AnotherMagic(i) ==
  i + 1 < bufsize /\ PairAt(i) \in {MagicData, MagicLed, MagicHv}

(* Fault: what was recorded of an incomplete block is erased, too. *)
SlowIncompleteErasing(stop) ==
  IncompleteInfo /\ state' = "SLOWCONTROL" /\ pos' = pos + stop

(* A block that is still incomplete is not erased: the next Read records it
   again from its first byte on, the magic included. *)
SlowIncomplete(stop) ==
  IncompleteInfo /\ state' = "SLOWCONTROL" /\ UNCHANGED pos

(* Fault: the state of the parser is not set back. *)
SlowEndsUnfinished(stop) ==
  /\ pos' = pos + stop /\ state' = "SLOWCONTROL"
  /\ UNCHANGED <<input, arrived, pc, attached, read, split>>

SlowEnds(stop) ==
  /\ pos' = pos + stop /\ state' = "DONE"
  /\ UNCHANGED <<input, arrived, pc, attached, read, split>>

ReadSlowcontrol ==
  /\ Scanning /\ (state = "SLOWCONTROL" \/ PairAt(0) = MagicSc)
  /\ LET first == IF state = "SLOWCONTROL" THEN 0 ELSE 2
         stops == {i \in first .. bufsize - 1 : AnotherMagic(i)}
         stop  == IF stops = {} THEN bufsize - 1 ELSE Min(stops)
     IN  /\ slowcontrol' = slowcontrol \o Places(first, stop)
         /\ IF stops = {} THEN SlowIncomplete(stop) ELSE SlowEnds(stop)

AtHv == Scanning /\ state = "DONE" /\ PairAt(0) = MagicHv

(* Fault: the byte that was waited for is erased, too. *)
ReadHvOneMore == AtHv /\ bufsize > SizeHv /\ PairAt(10) = Footer /\ Took("hv", SizeHv + 1)

ReadHv == AtHv /\ bufsize > SizeHv /\ PairAt(10) = Footer /\ Took("hv", SizeHv)

(* One byte more than the block is waited for; without footer one is erased. *)
HvIncomplete ==
  /\ AtHv
  /\ \/ bufsize <= SizeHv /\ UNCHANGED pos
     \/ bufsize > SizeHv /\ PairAt(10) # Footer /\ pos' = pos + 1
  /\ IncompleteInfo
  /\ UNCHANGED <<state, slowcontrol>>

ThrowAway ==
  /\ Scanning /\ state = "DONE"
  /\ PairAt(0) \notin {MagicLed, MagicSc, MagicHv, MagicData}
  /\ Erase(1)
-----------------------------------------------------------------------------
AtData == Scanning /\ state = "DONE" /\ PairAt(0) = MagicData

Header == [i \in 1 .. MinPacket |-> buf(i - 1)]

PacketComplete == bufsize >= MinPacket /\ bufsize >= SizeLdaHeader + length(Header)

(* readTemperature, readLDATimestamp and readAHCALData erase the packet on each
   of their paths. *)
ReadPacket ==
  /\ AtData /\ PacketComplete
  /\ PacketKind(Header) \in {"temp", "ts", "asic"}
  /\ Took(PacketKind(Header), SizeLdaHeader + length(Header))

DropPacket ==
  /\ AtData /\ PacketComplete
  /\ PacketKind(Header) \in {"conf", "other"}
  /\ Erase(SizeLdaHeader + length(Header))

HeaderInvalid == AtData /\ PacketComplete /\ PacketKind(Header) = "invalid" /\ Erase(1)

DataShort ==
  /\ pc = "scan"
  /\ bufsize < MinSize \/ (AtData /\ ~PacketComplete)
  /\ NeedMoreData
-----------------------------------------------------------------------------
(* With n bytes a Read does not see where the block of the last byte but one ends. *)
SplitAt(n) == {b \in input.blocks : n - 1 \in b.first .. b.last}

(* AHCALProducer::RunLoop: read from the socket, then Read. *)
Receive ==
  /\ pc = "wait"
  /\ arrived' \in arrived + 1 .. Len(Stream)
  /\ split' = split \cup SplitAt(arrived')
  /\ pc' = "scan"
  /\ UNCHANGED <<input, pos, state, slowcontrol, attached, read>>

(* The connection ends at any place of the stream: RunLoop clears the buffer,
   and OnStart of the next run what is unfinished. *)
NextRun ==
  /\ pc = "wait" /\ arrived > 0
  /\ input' \in Inputs
  /\ pos' = 0 /\ arrived' = 0 /\ state' = "DONE"
  /\ slowcontrol' = <<>> /\ attached' = {} /\ read' = <<>> /\ split' = {}
  /\ UNCHANGED pc

ParserInit ==
  /\ input \in Inputs
  /\ pos = 0 /\ arrived = 0 /\ state = "DONE" /\ pc = "wait"
  /\ slowcontrol = <<>> /\ attached = {} /\ read = <<>> /\ split = {}

Read ==
  \/ ReadLed
  \/ ReadSlowcontrol
  \/ ReadHv
  \/ HvIncomplete
  \/ ThrowAway
  \/ ReadPacket
  \/ DropPacket
  \/ HeaderInvalid
  \/ DataShort

ParserNext == Receive \/ NextRun \/ Read

(* The thread of RunLoop that is inside Read goes on. *)
ParserSpec == ParserInit /\ [][ParserNext]_parserVars /\ WF_parserVars(Read)
-----------------------------------------------------------------------------
StreamPair(i) == <<Stream[i], Stream[i + 1]>>

(* No place looks like the begin of a block that is not there, which the code
   cannot tell from a begin (a TODO there says so), and no broken HV block looks
   like a whole one. *)
Clean ==
  /\ \A i \in 1 .. Len(Stream) - 1 :
       StreamPair(i) \in {MagicData, MagicLed, MagicHv}
       => \E b \in input.blocks : b.kind # "junk" /\ b.first = i
  /\ \A b \in input.blocks :
       b.kind = "broken hv" /\ b.first + 11 <= Len(Stream)
       => StreamPair(b.first + 10) # Footer

ToRead == {b \in input.blocks : b.kind \in {"led", "hv", "temp", "ts", "asic"}}

HasRead(b) == \E i \in DOMAIN read : read[i].at = b.first

(* An HV block waits for one byte more, every block for MinSize bytes. *)
Arrived(b) ==
  /\ b.first + MinSize - 1 <= arrived
  /\ b.last + (IF b.kind = "hv" THEN 1 ELSE 0) <= arrived

(* Every LDA packet, LED and HV block is read exactly once, in order and at its
   first byte, whatever the pieces TCP delivers, and whatever stands between
   them (slow control, junk, packets of no interest, a packet with an invalid
   header); between two calls of Read none that has arrived is left (but up to
   the next call, after an HV block without footer). *)
EveryBlockRead ==
  Clean =>
    /\ \A i \in DOMAIN read : \E b \in ToRead : read[i] = [kind |-> b.kind, at |-> b.first]
    /\ \A i, j \in DOMAIN read : i < j => read[i].at < read[j].at
    /\ \A b, c \in ToRead : b.first < c.first /\ HasRead(c) => HasRead(b)
    /\ pc = "wait" /\ (\A b \in input.blocks : b.kind # "broken hv")
       => \A b \in ToRead : Arrived(b) => HasRead(b)

(* The body of b is in chunk, in one piece. *)
HoldsBody(chunk, b) ==
  LET n == b.last - b.first - 1
  IN  \E i \in 0 .. Len(chunk) - n : \A k \in 1 .. n : chunk[i + k] = b.first + 1 + k

Apart(chunk, other) == \A k \in DOMAIN chunk, m \in DOMAIN other : chunk[k] # other[m]

(* What may be recorded after the byte at p: the next byte; behind another magic
   the slow control that follows; or the same slow control once more, from its
   magic on, because a Read had only a part of it. *)
Follows(p, q) ==
  \/ q = p + 1
  \/ /\ p + 1 < q
     /\ StreamPair(p + 1) \in {MagicData, MagicLed, MagicHv} /\ StreamPair(q - 2) = MagicSc
  \/ /\ q <= p /\ \E b \in split : p \in b.first .. b.last
     /\ StreamPair(q) = MagicSc
     /\ \A i \in q .. p : StreamPair(i) \notin {MagicData, MagicLed, MagicHv}

(* The slow control is recorded whole and for one event: a block that was erased
   is there in one piece.  Besides there are only repeated begins of slow control
   of which some Read found a part (what a Read finds together with the magic
   behind it is recorded once), and no byte is in two events, whenever events are
   built. *)
SlowControlWhole ==
  /\ Clean => \A b \in input.blocks : b.kind = "sc" /\ b.last <= pos
       => \E chunk \in attached \cup {slowcontrol} : HoldsBody(chunk, b)
  /\ \A chunk \in attached \cup {slowcontrol} :
       \A k \in 1 .. Len(chunk) - 1 : Follows(chunk[k], chunk[k + 1])
  /\ \A chunk, other \in attached : chunk = other \/ Apart(chunk, other)
  /\ \A chunk \in attached : Apart(chunk, slowcontrol)

(* Read returns, whatever the bytes are: no block is looked at for ever. *)
ReadReturns == pc = "scan" ~> pc = "wait"
=============================================================================
