---------------------------- MODULE Subsequences ----------------------------
(***************************************************************************)
(* SelectSeq with a set of places instead of a test: an operator that the  *)
(* prover can reason about.                                                *)
(***************************************************************************)
EXTENDS Integers, Sequences

(* The elements of s at the places in S, in their order. *)
Selected(s, S) ==
  LET upTo[n \in 0 .. Len(s)] ==
        IF n = 0 THEN <<>>
        ELSE IF n \in S THEN Append(upTo[n - 1], s[n])
        ELSE upTo[n - 1]
  IN  upTo[Len(s)]
=============================================================================
