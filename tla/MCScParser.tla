----------------------------- MODULE MCScParser -----------------------------
(* Streams of up to three blocks out of all kinds; the packets are shorter   *)
(* than real ones but have the real header, type and footer.                 *)
EXTENDS ScParser

Block(kind, bytes) == [kind |-> kind, bytes |-> bytes]

Packet(kind, len, st, type) ==
  Block(kind, MagicData \o <<len, 0, 7, 0, 11, 1, 0, st>> \o type
              \o [i \in 1 .. len - 6 |-> 0] \o Footer)

Sc(body) == Block("sc", MagicSc \o body)

MCBlocks ==
  { Sc(<<1, \hCD>>),
    Sc(<<\hCD, 1, \hDC, 2, 3>>),
    Block("junk", <<1, \hAC, \hDC>>),
    Block("led", MagicLed \o <<1, 3, 2, \hAC, 1>>),
    Block("led", MagicLed \o <<0>>),
    Block("hv", MagicHv \o <<0, 1, 2, 3, 4, 5, 6, 7>> \o Footer),
    Block("broken hv", MagicHv \o <<0>>),
    Packet("temp", 16, \hA0, TempType),
    Packet("asic", 7, \h40, AsicType),
    Packet("ts", 6, \h08, TsType),
    Packet("conf", 8, \h10, ConfType),
    Packet("other", 12, \h20, <<1, 2, 3, 4>>),
    Packet("invalid", 6, \h40, TsType) }

(* The stream of blocks that follow each other. *)
Stringed(blocks) ==
  LET upTo(i) == Len(FlattenSeq([k \in 1 .. i |-> blocks[k].bytes]))
  IN  [ bytes  |-> FlattenSeq([k \in DOMAIN blocks |-> blocks[k].bytes]),
        blocks |-> { [kind |-> blocks[i].kind, first |-> upTo(i - 1) + 1, last |-> upTo(i)]
                     : i \in DOMAIN blocks } ]

(* All pairs, and a data packet behind any pair that begins with a block that
   may be incomplete or invalid. *)
MCInputs ==
  { Stringed(blocks) : blocks \in [1 .. 2 -> MCBlocks] \cup
    {<<a, b, c>> : a \in {x \in MCBlocks : x.kind \in {"sc", "led", "broken hv", "invalid"}},
                   b \in MCBlocks,
                   c \in {x \in MCBlocks : x.kind = "asic"}} }
=============================================================================
