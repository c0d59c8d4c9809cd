----------------------------- MODULE MCDispatch -----------------------------
(* Dispatch over three entries and a 12-value clock that wraps. *)
EXTENDS Dispatch
=============================================================================
