--------------------------- MODULE MCReplication ----------------------------
(* A master, a replica and two clients that write two keys, with a channel    *)
(* that holds one command.                                                    *)
EXTENDS Replication

CONSTANTS a, b, w1, w2, k1, k2

(* Concurrent writes during one synchronisation; a connection that breaks; a  *)
(* promotion; a second REPLICAOF while the first loop runs; a client that     *)
(* writes on the replica.                                                     *)
Budget(writes, attach, breaks, promotes, at) ==
    [writes |-> writes, attach |-> attach, breaks |-> breaks,
     promotes |-> promotes, at |-> at]
MCBudgets == {Budget(2, 1, 0, 0, {a}), Budget(1, 1, 1, 0, {a}),
              Budget(1, 1, 0, 1, {a}), Budget(1, 2, 0, 0, {a}),
              Budget(2, 1, 0, 0, {a, b})}
MCAttach == {<<b, a>>}
MCShardOrder == <<k1, k2>>
=============================================================================
