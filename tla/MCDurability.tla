---------------------------- MODULE MCDurability ----------------------------
(* Two connections, two shards, two goroutines that save, two crashes: enough *)
(* for a write before a torn tail, one after it, and the restart that reads   *)
(* both.                                                                      *)
EXTENDS Durability

CONSTANTS c1, c2, s1, s2, k1, k2

(* Torn files need two stops, overlapping saves two saves. *)
MCBudgets == {[writes |-> 2, saves |-> 0, stops |-> 2],
              [writes |-> 1, saves |-> 2, stops |-> 1],
              [writes |-> 2, saves |-> 1, stops |-> 1]}
MCShardOrder == <<k1, k2>>
Symmetric == Permutations({c1, c2}) \cup Permutations({s1, s2})
=============================================================================
