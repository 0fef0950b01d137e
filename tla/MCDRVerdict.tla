----------------------------- MODULE MCDRVerdict ----------------------------
(* TLC instances of the DR flow, its responder and the drill's verdict.    *)
EXTENDS DRVerdict
=============================================================================
