---------------------------- MODULE Replication -----------------------------
(***************************************************************************)
(* Master-replica replication (internal/replication/replication.go) with   *)
(* the dump it starts from (Keyspace.DumpAllCommands) and the order in     *)
(* which the engine executes and broadcasts a write.                       *)
(*                                                                         *)
(* Every REPLICAOF starts a goroutine, the replica loop, that dials the    *)
(* master, asks for a full resynchronisation and applies the stream, over  *)
(* and over until it is told to stop.  The master side of a connection is  *)
(* a session (ReplicaClient) with a bounded channel.  A connection holds   *)
(* what has been written and not been read yet; it may break at any time.  *)
(* Every key is a shard of its own; the replication offset counts commands.*)
(***************************************************************************)
EXTENDS Values, SequencesExt, FiniteSetsExt

CONSTANTS Node,
          Writer,      \* connections that write
          Attach,      \* pairs <<n, m>>: REPLICAOF m sent to n
          ShardOrder,  \* the keys, in the order of their shards
          ChanCap,     \* capacity of CmdChan
          Budgets,     \* bounds: how many writes, REPLICAOFs, broken
                       \* connections and promotions, in records, and the
                       \* nodes clients write at
          MaxLoops, MaxConns  \* no budget leads to more than these

ASSUME ReplicationAssumption == /\ IsInjective(ShardOrder)
                                /\ Attach \subseteq Node \X Node
                                /\ ChanCap \in Nat \ {0}

Key == ToSet(ShardOrder)
NS == Len(ShardOrder)
Idle == [pc |-> "idle"]

VARIABLES role, readOnly, replid, offset, syncState,  \* per node
          data,        \* Keyspace of every node
          writer,      \* Writer -> the write it executes
          loop,        \* replica loops started so far
          stopReplica, \* the loop a node's stop channel belongs to, 0 if none
          masterConn,  \* the connection a node holds to its master, 0 if none
          conn,        \* connections made so far
          hist         \* what the properties talk about
vars == <<role, readOnly, replid, offset, syncState, data, writer, loop,
          stopReplica, masterConn, conn, hist>>
identity == <<role, readOnly, replid, offset, syncState>>
links == <<loop, stopReplica, masterConn>>

Init ==
    /\ role = [n \in Node |-> "master"] /\ readOnly = [n \in Node |-> FALSE]
    /\ replid = [n \in Node |-> <<n, 0>>] /\ offset = [n \in Node |-> 0]
    /\ syncState = [n \in Node |-> "disconnected"]
    /\ data = [n \in Node |-> [k \in Key |-> Missing]]
    /\ writer = [w \in Writer |-> Idle]
    /\ loop = << >> /\ conn = << >>
    /\ stopReplica = [n \in Node |-> 0] /\ masterConn = [n \in Node |-> 0]
    /\ \E b \in Budgets :
          hist = [writes |-> 0, left |-> b,
                  cast |-> [n \in Node |-> [k \in Key |-> 0]]]

(* ------------------------------- writes -------------------------------- *)

(* The list the read-only guard looks a command up in.  SETEX stands for the *)
(* commands that write and are missing there (SETNX, SETEX, PSETEX, PEXPIRE).*)
isWriteCommand(op) == op \in {"SET", "RPUSH", "DEL"}

(* A write on a node that follows a master reaches no master: the loops of    *)
(* the node stream on, over a key that differs.                               *)
WrittenHere(n, k) ==
    [c \in DOMAIN conn |->
       IF \E l \in DOMAIN loop : loop[l].n = n /\ loop[l].c = c
       THEN [conn[c] EXCEPT !.taint = @ \cup {k}] ELSE conn[c]]

(* The engine executes a write of a client, alone or out of the queue of a    *)
(* transaction.  A replica refuses it if the list names it; EXEC looks at no  *)
(* list.                                                                      *)
Dispatch(w, n, op, k, exec) ==
    /\ writer[w] = Idle /\ hist.left.writes > 0
    /\ readOnly[n] => exec \/ ~isWriteCommand(op)
    /\ LET args == Command(IF op = "SETEX" THEN "SET" ELSE op, k,
                           hist.writes + 1)
       IN  /\ IsWrite(data[n][k], args)
           /\ data' = [data EXCEPT ![n] = Execute(@, args)]
           /\ writer' = [writer EXCEPT ![w] =
                 [pc |-> "cast", n |-> n, args |-> args, id |-> hist.writes + 1]]
    /\ conn' = WrittenHere(n, k)
    /\ hist' = [hist EXCEPT !.writes = @ + 1, !.left.writes = @ - 1]
    /\ UNCHANGED <<identity, links>>

(* Mutant: a session counts only once its dump has been sent. *)
SessionsOnline(n) == {c \in 1 .. Len(conn) : conn[c].m = n
                                             /\ conn[c].sess = "online"}

(* The master sides of the connections of n that are in its replica table. *)
Sessions(n) == {c \in 1 .. Len(conn) : conn[c].m = n
                                       /\ conn[c].sess \in {"dump", "online"}}

(* A push that the dump of this session already contains is sent again; a    *)
(* command that overtook an older one of its key is out of order.            *)
Spoils(c, x) ==
    \/ Len(conn[c].queue) = ChanCap
    \/ hist.cast[x.n][x.args[2]] > x.id
    \/ \E i \in 1 .. Len(conn[c].dumped) :
          /\ ShardOrder[i] = x.args[2] /\ x.args[1] = "RPUSH"
          /\ x.id \in ToSet(conn[c].dumped[i].made)

(* Broadcast, after the write was executed: a channel that is full drops it. *)
Broadcast(w) ==
    /\ writer[w].pc = "cast"
    /\ LET x == writer[w]
           to == IF role[x.n] = "master" THEN Sessions(x.n) ELSE {}
       IN  /\ offset' = IF to = {} THEN offset
                        ELSE [offset EXCEPT ![x.n] = @ + 1]
           /\ conn' = [c \in DOMAIN conn |->
                 IF c \notin to THEN conn[c]
                 ELSE [conn[c] EXCEPT
                         !.queue = IF Len(@) < ChanCap THEN Append(@, x.args)
                                   ELSE @,
                         !.taint = IF Spoils(c, x) THEN @ \cup {x.args[2]}
                                   ELSE @]]
           /\ hist' = [hist EXCEPT !.cast[x.n][x.args[2]] = Max({@, x.id})]
    /\ writer' = [writer EXCEPT ![w] = Idle]
    /\ UNCHANGED <<role, readOnly, replid, syncState, data, links>>

(* ------------------------- the master's session ------------------------ *)

(* HandlePSync: the session is registered, under the lock, before anything  *)
(* is dumped; the header carries the offset of that moment.                 *)
HandlePSync(c) ==
    /\ conn[c].sess = "none" /\ conn[c].open
    /\ conn' = [conn EXCEPT
                  ![c].sess = "dump",
                  ![c].wire = <<[t |-> "FULLRESYNC", id |-> replid[conn[c].m],
                                 offset |-> offset[conn[c].m]]>>]
    /\ UNCHANGED <<identity, data, writer, links, hist>>

(* A push waits in the channel and is in the dump as well. *)
Doubled(c, k, v) ==
    \E q \in ToSet(conn[c].queue) :
       q[1] = "RPUSH" /\ q[2] = k /\ q[3] \in ToSet(v.made)

(* DumpAllCommands: one shard at a time, each under its own lock. *)
DumpShard(c) ==
    /\ conn[c].sess = "dump" /\ Len(conn[c].dumped) < NS
    /\ LET k == ShardOrder[Len(conn[c].dumped) + 1]
           v == data[conn[c].m][k]
       IN  conn' = [conn EXCEPT
                      ![c].dumped = Append(@, v),
                      ![c].taint = IF Doubled(c, k, v) THEN @ \cup {k} ELSE @]
    /\ UNCHANGED <<identity, data, writer, links, hist>>

DumpCommand(k, v) ==
    CASE v.type = "none" -> << >>
      [] v.type = "string" -> <<[t |-> "cmd", args |-> <<"SET", k>> \o v.made]>>
      [] v.type = "list" -> <<[t |-> "cmd", args |-> <<"RPUSH", k>> \o v.made]>>

Removed(c) == [conn EXCEPT ![c].sess = "gone", ![c].queue = << >>,
                           ![c].dumped = << >>, ![c].open = FALSE]

(* The dump is written, and the session goes online; a write error removes it. *)
SendDump(c) ==
    /\ conn[c].sess = "dump" /\ Len(conn[c].dumped) = NS
    /\ conn' = IF ~conn[c].open THEN Removed(c)
               ELSE [conn EXCEPT ![c].sess = "online",
                       ![c].wire = @ \o FlattenSeq([i \in 1 .. NS |->
                           DumpCommand(ShardOrder[i], conn[c].dumped[i])])]
    /\ UNCHANGED <<identity, data, writer, links, hist>>

(* The streaming loop. *)
StreamOne(c) ==
    /\ conn[c].sess = "online" /\ conn[c].queue # << >>
    /\ conn' = IF ~conn[c].open THEN Removed(c)
               ELSE [conn EXCEPT ![c].queue = Tail(@),
                       ![c].wire = Append(@, [t |-> "cmd",
                                              args |-> Head(conn[c].queue)])]
    /\ UNCHANGED <<identity, data, writer, links, hist>>

(* Mutant: an idle session writes nothing. *)
HeartbeatNever(c) == conn[c].sess = "idle" /\ UNCHANGED vars

(* The PING of an idle session is what finds out that the replica has gone;  *)
(* the replica only notes the time of one that arrives.                      *)
Heartbeat(c) ==
    /\ conn[c].sess = "online" /\ conn[c].queue = << >> /\ ~conn[c].open
    /\ conn' = Removed(c)
    /\ UNCHANGED <<identity, data, writer, links, hist>>

(* ---------------------------- the replica loop ------------------------- *)

(* ConnectToMaster: the loop that runs is told to stop, its connection is     *)
(* left open.                                                                 *)
ConnectToMaster(n, m) ==
    /\ hist.left.attach > 0
    /\ hist' = [hist EXCEPT !.left.attach = @ - 1]
    /\ LET l == Append(loop, [n |-> n, m |-> m, pc |-> "top", stop |-> FALSE,
                              c |-> 0, late |-> 0])
       IN  loop' = IF stopReplica[n] = 0 THEN l
                   ELSE [l EXCEPT ![stopReplica[n]].stop = TRUE]
    /\ stopReplica' = [stopReplica EXCEPT ![n] = Len(loop) + 1]
    /\ role' = [role EXCEPT ![n] = "slave"]
    /\ readOnly' = [readOnly EXCEPT ![n] = TRUE]
    /\ syncState' = [syncState EXCEPT ![n] = "connecting"]
    /\ UNCHANGED <<replid, offset, data, writer, masterConn, conn>>

(* PromoteToMaster: REPLICAOF NO ONE. *)
PromoteToMaster(n) ==
    /\ role[n] # "master" /\ hist.left.promotes > 0
    /\ loop' = IF stopReplica[n] = 0 THEN loop
               ELSE [loop EXCEPT ![stopReplica[n]].stop = TRUE]
    /\ stopReplica' = [stopReplica EXCEPT ![n] = 0]
    /\ conn' = IF masterConn[n] = 0 THEN conn
               ELSE [conn EXCEPT ![masterConn[n]].open = FALSE]
    /\ masterConn' = [masterConn EXCEPT ![n] = 0]
    /\ role' = [role EXCEPT ![n] = "master"]
    /\ readOnly' = [readOnly EXCEPT ![n] = FALSE]
    /\ syncState' = [syncState EXCEPT ![n] = "disconnected"]
    /\ replid' = [replid EXCEPT ![n] = <<n, hist.left.promotes>>]
    /\ hist' = [hist EXCEPT !.left.promotes = @ - 1]
    /\ UNCHANGED <<offset, data, writer>>

At(l, pc) == loop[l].pc = pc
Go(l, pc) == loop' = [loop EXCEPT ![l].pc = pc]

(* The top of replicaLoop, before it dials. *)
LoopTop(l) ==
    /\ At(l, "top")
    /\ Go(l, IF loop[l].stop THEN "gone" ELSE "dial")
    /\ UNCHANGED <<identity, data, writer, stopReplica, masterConn, conn, hist>>

(* The dial succeeds; PromoteToMaster may have run meanwhile. *)
Dialed(l) ==
    /\ At(l, "dial")
    /\ conn' = Append(conn, [m |-> loop[l].m, open |-> TRUE, sess |-> "none",
                             dumped |-> << >>, queue |-> << >>, wire |-> << >>,
                             taint |-> {}])
    /\ loop' = [loop EXCEPT ![l].pc = "shake", ![l].c = Len(conn) + 1]
    /\ masterConn' = [masterConn EXCEPT ![loop[l].n] = Len(conn) + 1]
    /\ syncState' = [syncState EXCEPT ![loop[l].n] = "handshake"]
    /\ UNCHANGED <<role, readOnly, replid, offset, data, writer, stopReplica,
                   hist>>

Pending(l) == loop[l].c # 0 /\ conn[loop[l].c].wire # << >>
Received(l) == Head(conn[loop[l].c].wire)
Consume(l) == [conn EXCEPT ![loop[l].c].wire = Tail(@)]

(* The answer to PSYNC, the last of the handshake.  What the replica holds    *)
(* is not discarded.                                                          *)
FullResync(l) ==
    /\ At(l, "shake") /\ Pending(l)
    /\ LET n == loop[l].n
       IN  /\ replid' = [replid EXCEPT ![n] = Received(l).id]
           /\ offset' = [offset EXCEPT ![n] = Received(l).offset]
           /\ syncState' = [syncState EXCEPT ![n] = "online"]
           /\ conn' = [Consume(l) EXCEPT ![loop[l].c].taint =
                          @ \cup {k \in Key : data[n][k] # Missing}]
    /\ Go(l, "check")
    /\ UNCHANGED <<role, readOnly, data, writer, stopReplica, masterConn, hist>>

(* conn.Close at the end of a round, whatever ended it. *)
Disconnect(l) ==
    /\ loop' = [loop EXCEPT ![l].pc = "top", ![l].c = 0]
    /\ conn' = [conn EXCEPT ![loop[l].c].open = FALSE, ![loop[l].c].wire = << >>]
    /\ syncState' = [syncState EXCEPT ![loop[l].n] = "disconnected"]
    /\ UNCHANGED <<role, readOnly, replid, offset, data, writer, stopReplica,
                   masterConn, hist>>

(* Mutant: the stop channel is only looked at before dialing. *)
CheckStopNever(l) ==
    /\ At(l, "check")
    /\ Go(l, "read")
    /\ UNCHANGED <<identity, data, writer, stopReplica, masterConn, conn, hist>>

(* Before every read the stop channel is looked at. *)
CheckStop(l) ==
    /\ At(l, "check")
    /\ IF loop[l].stop THEN Disconnect(l)
       ELSE /\ Go(l, "read")
            /\ UNCHANGED <<identity, data, writer, stopReplica, masterConn,
                           conn, hist>>

(* ReadCommand returns a command, perhaps after the loop was told to stop,    *)
(* and it is executed as "replica_stream": no guard, and not broadcast.       *)
ApplyOne(l) ==
    /\ At(l, "read") /\ Pending(l)
    /\ data' = [data EXCEPT ![loop[l].n] = Execute(@, Received(l).args)]
    /\ conn' = Consume(l)
    /\ loop' = [loop EXCEPT ![l].pc = "check",
                            ![l].late = IF loop[l].stop THEN @ + 1 ELSE @]
    /\ UNCHANGED <<identity, writer, stopReplica, masterConn, hist>>

(* Mutant: a link that fails is not dialed again. *)
ReadErrorGivesUp(l) ==
    /\ loop[l].pc \in {"shake", "read"} /\ ~conn[loop[l].c].open
    /\ loop' = [loop EXCEPT ![l].pc = "gone", ![l].c = 0]
    /\ UNCHANGED <<identity, data, writer, stopReplica, masterConn, conn, hist>>

(* A read fails once the connection is gone, unread commands or not. *)
ReadError(l) ==
    /\ loop[l].pc \in {"shake", "read"} /\ ~conn[loop[l].c].open
    /\ Disconnect(l)

(* The network loses a connection. *)
Break(c) ==
    /\ conn[c].open /\ hist.left.breaks > 0
    /\ conn' = [conn EXCEPT ![c].open = FALSE]
    /\ hist' = [hist EXCEPT !.left.breaks = @ - 1]
    /\ UNCHANGED <<identity, data, writer, links>>

LoopStep(l) == \/ LoopTop(l) \/ Dialed(l) \/ FullResync(l) \/ CheckStop(l)
               \/ ApplyOne(l) \/ ReadError(l)
SessionStep(c) == \/ HandlePSync(c) \/ DumpShard(c) \/ SendDump(c)
                  \/ StreamOne(c) \/ Heartbeat(c)

Next ==
    \/ \E w \in Writer, n \in hist.left.at, k \in Key, exec \in BOOLEAN,
          op \in {"SET", "RPUSH", "DEL", "SETEX"} : Dispatch(w, n, op, k, exec)
    \/ \E w \in Writer : Broadcast(w)
    \/ \E a \in Attach : ConnectToMaster(a[1], a[2])
    \/ \E n \in Node : PromoteToMaster(n)
    \/ \E l \in 1 .. Len(loop) : LoopStep(l)
    \/ \E c \in 1 .. Len(conn) : SessionStep(c) \/ Break(c)

(* Goroutines keep running, on both sides of a connection. *)
Spec == /\ Init /\ [][Next]_vars
        /\ \A l \in 1 .. MaxLoops : WF_vars(l \in DOMAIN loop /\ LoopStep(l))
        /\ \A c \in 1 .. MaxConns : WF_vars(c \in DOMAIN conn /\ SessionStep(c))
        /\ \A w \in Writer : WF_vars(Broadcast(w))

(* ------------------------------ properties ----------------------------- *)

(* The loop l streams everything its master has broadcast, and nothing is    *)
(* on its way.                                                               *)
InSync(l) ==
    LET c == conn[loop[l].c]
    IN  /\ loop[l].pc \in {"check", "read"} /\ c.sess = "online"
        /\ c.queue = << >> /\ c.wire = << >>
        /\ \A w \in Writer : writer[w].pc = "cast" => writer[w].n # c.m
        /\ role[c.m] = "master"
Alone(l) == \A o \in (1 .. Len(loop)) \ {l} : loop[o].n = loop[l].n =>
                o < l /\ loop[o].pc = "gone" /\ loop[o].late = 0

(* Registration before the dump, the channel and the stream: a replica that    *)
(* has caught up holds the value of its master for every key, unless the      *)
(* channel overflowed, a push was dumped and streamed, two writes were         *)
(* broadcast out of order, the replica held the key before it synced, or a     *)
(* client has written it on the replica.                                       *)
ReplicaConverges ==
    \A l \in 1 .. Len(loop) :
       role[loop[l].n] = "slave" /\ loop[l].c # 0 /\ Alone(l) /\ InSync(l) =>
          \A k \in Key \ conn[loop[l].c].taint :
             data[loop[l].n][k] = data[loop[l].m][k]

(* The stop channel is looked at before every read: after REPLICAOF, to      *)
(* another master or to NO ONE, a loop applies at most the one command its   *)
(* read was waiting for.                                                     *)
AtMostOneLate == \A l \in 1 .. Len(loop) : loop[l].late <= 1

CutOff(c) == c \in DOMAIN conn /\ ~conn[c].open /\ c \in Sessions(conn[c].m)

(* The heartbeat: a session whose connection is gone leaves the replica table, *)
(* also if nothing is ever written again.                                      *)
SessionEnds == \A c \in 1 .. MaxConns : []<>~CutOff(c)

(* The retry loop: a node told to follow a master streams from it sooner or    *)
(* later and for good, once connections stop breaking, if nobody tells it      *)
(* otherwise.                                                                  *)
Follows ==
    \A l \in 1 .. MaxLoops :
       <>[](l \in DOMAIN loop /\ ~loop[l].stop =>
              loop[l].pc \in {"check", "read"} /\ conn[loop[l].c].sess = "online")
=============================================================================
