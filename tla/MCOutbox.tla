------------------------------ MODULE MCOutbox ------------------------------
(* An instance of Outbox for TLC: a handler that drains and appends beside  *)
(* the background worker, one row more than a batch holds.                  *)
EXTENDS Outbox

ThreeEntries == 1..3
=============================================================================
