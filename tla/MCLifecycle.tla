----------------------------- MODULE MCLifecycle -----------------------------
(***************************************************************************)
(* Instances of Lifecycle: stack s1 has an HA and a DR guest, s2 an HA     *)
(* guest only; the commons are one guest with the exporters and one with   *)
(* the SVC queue managers.                                                 *)
(***************************************************************************)
EXTENDS Lifecycle, TLC

CONSTANTS s1, s2

TwoStacks == {s1, s2}
TwoHa == s1 :> {"a1"} @@ s2 :> {"a2"}
TwoDr == s1 :> {"b1"} @@ s2 :> {}

OneStack == {s1}
OneHa == s1 :> {"a1"}
OneDr == s1 :> {"b1"}
=============================================================================
