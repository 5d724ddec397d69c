--------------------------- MODULE MCBxidCollector ---------------------------
(* BxidCollector with two producers, two cycles and BXIDs on both sides of *)
(* the BIF limit.                                                            *)
EXTENDS BxidCollector

MCKeys == {<<0, -2>>, <<0, 1>>, <<1, 0>>}
MCOrder == <<"ahcal", "bif">>
MinusOne == -1
=============================================================================
