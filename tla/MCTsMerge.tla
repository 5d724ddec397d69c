------------------------------ MODULE MCTsMerge ------------------------------
(* TsMerge with clocks of ratio 2, AHCAL zero before and after BIF zero, and *)
(* spans that touch, overlap and enclose each other.                         *)
EXTENDS TsMerge

MCStarts == {<<0, 3>>, <<5, 1>>}
MCCalSpans == {<<0, 1>>, <<0, 3>>, <<2, 4>>}
MCBifSpans == {<<0, 2>>, <<1, 5>>, <<6, 9>>}
MCShifts == {0, -1, 1}
=============================================================================
