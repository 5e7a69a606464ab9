----------------------------- MODULE MCKeyspace -----------------------------
(* One key, fought over by two connections and the reaper; there are        *)
(* references for the entry, for what the connections hold, and one more.   *)
EXTENDS Keyspace

MCTTL == {-1, 1}
=============================================================================
