---------------------------- MODULE MCAsyncSignal ----------------------------
(* Model-checking instances of AsyncSignal. *)
EXTENDS AsyncSignal

CONSTANTS v1, v2
=============================================================================
