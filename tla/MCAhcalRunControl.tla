-------------------------- MODULE MCAhcalRunControl --------------------------
(* Two configurations: one that moves both axes, with an approach of the     *)
(* horizontal one and limits on time and inactivity; one that moves the      *)
(* vertical axis only, with a limit on events; there an invalid preset sends *)
(* the horizontal axis further than the readings of a stable position reach. *)
EXTENDS AhcalRunControl

Pair(x, y) == [a \in Axes |-> IF a = "h" THEN x ELSE y]

MCConfigs ==
  { [pos |-> Pair(1, 2), approachMm |-> Pair(2, 0), seconds |-> 1, events |-> 0, inactivity |-> 0],
    [pos |-> Pair(Invalid, 0), approachMm |-> Pair(-2, 0), seconds |-> 0, events |-> 1, inactivity |-> 1] }
=============================================================================
