-------------------------- MODULE MCSubscriptions --------------------------
(***************************************************************************)
(* Small instances of Subscriptions for TLC.                               *)
(***************************************************************************)
EXTENDS Subscriptions

\* Negative, in the table, beyond it, and the extremes of lua_Integer.
Ids == (-6)..5
=============================================================================
