----------------------------- MODULE MCLdaStream -----------------------------
(* LdaStream for TLC.  The counter fields are narrowed to 2 and 3 bits so    *)
(* that both wrap within the bounds; GapsCovered relates the scaled limits   *)
(* to them exactly as 50, 127 and 1000 relate to 2^8 and 2^16.               *)
EXTENDS LdaStream

ASSUME GapsCovered
=============================================================================
