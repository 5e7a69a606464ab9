------------------------------ MODULE MCEngine ------------------------------
(* Two connections that write two keys and watch the second. *)
EXTENDS Engine, TLC

CONSTANTS k1, k2, c, d, o1, o2

mset == [name |-> "MSET", keys |-> <<k1, k2>>]
flush == [name |-> "FLUSHDB", keys |-> <<k1, k2>>]
watch == [name |-> "WATCH", keys |-> <<k2>>]
unwatch == [name |-> "UNWATCH", keys |-> << >>]
MCOp == {mset, flush, watch, unwatch}

With(fsync, maxmemory, server, diskfails, cmds) ==
  [fsync |-> fsync, maxmemory |-> maxmemory, server |-> server,
   diskfails |-> diskfails, cmds |-> cmds]
MCConfigs == {With("no", TRUE, "tcp", FALSE, {mset, flush, watch}),
              With("always", FALSE, "reactor", FALSE, MCOp),
              With("always", FALSE, "tcp", TRUE, {mset, watch, unwatch}),
              With("everysec", FALSE, "tcp", TRUE, {mset, watch})}

Connections == Permutations(Client) \cup Permutations(Obj)
=============================================================================
