----------------------------- MODULE MCBifDecoder -----------------------------
(* The event building modes with the sources of triggers, for TLC. *)
EXTENDS BifDecoder

MCSetups == {<<"ROC", "external">>, <<"TRIGGERS", "external">>,
             <<"TRIGGERS", "internal">>, <<"BXID", "external">>}
=============================================================================
