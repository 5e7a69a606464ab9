------------------------------- MODULE Engine -------------------------------
(***************************************************************************)
(* ExecuteCommandWithSession and executeTransaction                        *)
(* (internal/engine/engine.go): how a command of a connection is queued or *)
(* run, and how a write goes, in steps other connections interleave with,  *)
(* from the keyspace to the sessions that watch its keys, to the           *)
(* append-only file (internal/persistence/aof.go) and to the replicas.     *)
(* The last part is the crash of the server and the replay of the file.    *)
(*                                                                         *)
(* A write is known by the number it gets when it is applied first; a key  *)
(* holds the number of the write that set it last, 0 if none did.          *)
(***************************************************************************)
EXTENDS Integers, Sequences, FiniteSets

CONSTANTS Client,       \* connections
          Obj, NoSession,  \* session objects; no object (nil)
          Key,            \* keys
          Op,             \* the commands clients send, besides MULTI and EXEC
          Configs,        \* how the server may be started
          MaxWrites,      \* bound: writes
          MaxQueue,       \* bound: commands queued in a transaction
          MaxShared       \* bound: identifiers given out while in use

(* A command and the keys it changes or watches. *)
Writes == {"SET", "MSET", "DEL", "XGROUP", "FLUSHDB", "FLUSHALL"}
Command == [name : Writes \cup {"WATCH", "UNWATCH"}, keys : Seq(Key)]

ASSUME ClientAssumption == IsFiniteSet(Client)
ASSUME ObjAssumption == IsFiniteSet(Obj) /\ NoSession \notin Obj
ASSUME OpAssumption ==        \* WATCH without a key is refused
  Op \subseteq {op \in Command : op.name = "WATCH" => op.keys # << >>}

(* The fsync policy, whether there is a memory limit, which of the two      *)
(* servers accepts connections, whether the disk may fail, and the commands *)
(* that clients send.                                                       *)
Config == [fsync : {"always", "everysec", "no"}, maxmemory : BOOLEAN,
           server : {"tcp", "reactor"}, diskfails : BOOLEAN,
           cmds : SUBSET Op]
ASSUME ConfigAssumption == Configs \subseteq Config

VARIABLES
  config,         \* how the server was started
  conn,           \* the identifier of each connection and the session it uses
  clientSessions, \* the session of each identifier
  sess,           \* the session objects
  watchedCount,   \* the sessions that watch keys
  job,            \* what each connection is doing
  store,          \* keyspace
  writes,         \* number of writes so far
  aof, synced,    \* the append-only file, and how much of it is on disk
  aofErr,         \* has the buffered writer of the file met an error?
  sent,           \* the stream to the replicas
  finished,       \* history: writes that went all their way
  lost,           \* history: writes the file refused, or did not sync
  hit,            \* history: for the write of a connection, the sessions that
                  \* watched a key it announces when it changed the key
  stale,          \* history: has a write that is finished hit this session?
  shared          \* history: how often an identifier in use was given out

sessions == <<conn, clientSessions, sess, watchedCount, shared>>
seen == <<hit, stale>>
file == <<aof, synced, aofErr, lost>>
logs == <<file, sent, finished>>
vars == <<config, sessions, job, store, writes, logs, seen>>

Elems(s) == {s[i] : i \in 1 .. Len(s)}
Numbers(log) == {log[i].n : i \in 1 .. Len(log)}

(* The keys a write makes known: the arguments of DEL, every other one of   *)
(* MSET, and the first argument of a command that changes one key.  That of *)
(* XGROUP is its subcommand, and FLUSHDB and FLUSHALL have none.            *)
extractCommandKeys(op) ==
  IF op.name \in {"XGROUP", "FLUSHDB", "FLUSHALL"} THEN << >> ELSE op.keys

ID == 1 .. Cardinality(Client)
Closed == [id |-> 0, s |-> NoSession]
NewSession == [multi |-> FALSE, queue |-> << >>, watched |-> {},
               aborted |-> FALSE]
Idle == [stage |-> "idle", n |-> 0, keys |-> << >>, told |-> << >>,
         todo |-> << >>, tx |-> FALSE, rest |-> << >>]

Init == /\ config \in Configs
        /\ conn = [c \in Client |-> Closed]
        /\ clientSessions = [i \in ID |-> NoSession]
        /\ sess = [o \in Obj |-> NewSession]
        /\ watchedCount = 0 /\ shared = 0
        /\ job = [c \in Client |-> Idle]
        /\ store = [k \in Key |-> 0]
        /\ writes = 0
        /\ aof = << >> /\ synced = 0 /\ aofErr = FALSE /\ sent = << >>
        /\ finished = {} /\ lost = {}
        /\ hit = [c \in Client |-> {}]
        /\ stale = [o \in Obj |-> FALSE]
-----------------------------------------------------------------------------
(* Sessions.  A connection keeps the session it got when it was accepted;   *)
(* MULTI, WATCH and UNWATCH look the session of its identifier up again.    *)

Open == {c \in Client : conn[c] # Closed}
Live == {clientSessions[i] : i \in ID} \ {NoSession}
InUse == Live \cup {conn[c].s : c \in Client}

(* The session of identifier i, a new one if there is none, is o. *)
GetClientSession(i, o) ==
  /\ o \in Obj
  /\ \/ clientSessions[i] = o
     \/ clientSessions[i] = NoSession /\ o \notin InUse
  /\ clientSessions' = [clientSessions EXCEPT ![i] = o]

Taken(i) == \E c \in Open : conn[c].id = i

(* A connection is accepted.  The TCP server never gives an identifier      *)
(* twice, and the reactor numbers a connection by those that are open.      *)
Connect(c) ==
  /\ conn[c] = Closed
  /\ \E i \in ID, o \in Obj :
       /\ IF config.server = "reactor" THEN i = Cardinality(Open) + 1
          ELSE ~Taken(i)
       /\ GetClientSession(i, o)
       /\ conn' = [conn EXCEPT ![c] = [id |-> i, s |-> o]]
       /\ Taken(i) => shared < MaxShared
       /\ shared' = IF Taken(i) THEN shared + 1 ELSE shared
  /\ UNCHANGED <<sess, watchedCount, job, store, writes, logs, seen>>

(* Session o, which becomes s, watches nothing any more: EXEC, DISCARD and  *)
(* UNWATCH do this under the mutex of the sessions.                         *)
EndWatch(o, s) ==
  /\ sess' = [sess EXCEPT ![o] = [s EXCEPT !.watched = {}, !.aborted = FALSE]]
  /\ watchedCount' = IF sess[o].watched # {} THEN watchedCount - 1
                     ELSE watchedCount
  /\ hit' = [d \in Client |-> hit[d] \ {o}]
  /\ stale' = [stale EXCEPT ![o] = FALSE]

(* Mutant: a new WATCH starts from a clean session. *)
WatchAfresh(o, keys) ==
  /\ watchedCount' = IF sess[o].watched = {} THEN watchedCount + 1
                     ELSE watchedCount
  /\ sess' = [sess EXCEPT ![o].watched = @ \cup Elems(keys),
                          ![o].aborted = FALSE]
  /\ UNCHANGED seen

Watch(o, keys) ==
  /\ watchedCount' = IF sess[o].watched = {} THEN watchedCount + 1
                     ELSE watchedCount
  /\ sess' = [sess EXCEPT ![o].watched = @ \cup Elems(keys)]
  /\ UNCHANGED seen

Ready(c) == c \in Open /\ job[c].stage = "idle"
InMulti(c) == sess[conn[c].s].multi
Data == UNCHANGED <<store, writes, logs>>

Multi(c) == /\ Ready(c) /\ ~InMulti(c)
            /\ \E o \in Obj :
                 /\ GetClientSession(conn[c].id, o)
                 /\ sess' = [sess EXCEPT ![o].multi = TRUE, ![o].queue = << >>]
            /\ UNCHANGED <<conn, shared, watchedCount, job, seen>> /\ Data

(* Inside MULTI every other command waits for EXEC, WATCH included. *)
Queue(c, op) ==
  LET o == conn[c].s
  IN  /\ Ready(c) /\ InMulti(c)
      /\ Len(sess[o].queue) < MaxQueue
      /\ sess' = [sess EXCEPT ![o].queue = Append(@, op)]
      /\ UNCHANGED <<conn, clientSessions, shared, watchedCount, job, seen>>
      /\ Data

Discard(c) ==
  LET o == conn[c].s
  IN  /\ Ready(c) /\ InMulti(c)
      /\ EndWatch(o, [sess[o] EXCEPT !.multi = FALSE, !.queue = << >>])
      /\ UNCHANGED <<conn, clientSessions, shared, job>> /\ Data

(* WATCH and UNWATCH as dispatch runs them, directly or out of EXEC. *)
DispatchWatch(c, op) ==
  /\ \E o \in Obj :
       /\ GetClientSession(conn[c].id, o)
       /\ \/ op.name = "WATCH" /\ ~sess[o].multi /\ Watch(o, op.keys)
          \/ /\ op.name = "WATCH" /\ sess[o].multi
             /\ UNCHANGED <<sess, watchedCount, seen>>
          \/ op.name = "UNWATCH" /\ EndWatch(o, sess[o])
  /\ UNCHANGED <<conn, shared>>

WatchCommand(c, op) == /\ Ready(c) /\ ~InMulti(c)
                       /\ DispatchWatch(c, op)
                       /\ UNCHANGED job /\ Data

(* The connection ends.  A session that nothing refers to is forgotten. *)
Hangup(c) ==
  /\ Ready(c)
  /\ conn' = [conn EXCEPT ![c] = Closed]
  /\ clientSessions' = [clientSessions EXCEPT ![conn[c].id] = NoSession]
  /\ sess' = [o \in Obj |-> IF o \in InUse' THEN sess[o] ELSE NewSession]
  /\ hit' = [d \in Client |-> hit[d] \cap InUse']
  /\ stale' = [o \in Obj |-> o \in InUse' /\ stale[o]]
  /\ UNCHANGED <<shared, job>> /\ Data

(* Mutant: the session of a closed connection is not counted off. *)
CloseUncounted(c) == Hangup(c) /\ UNCHANGED watchedCount

(* ClearClientSession takes the session of the identifier out of the map.   *)
(* Another connection with this identifier goes on using the object.        *)
Close(c) ==
  LET o == clientSessions[conn[c].id]
  IN  /\ Hangup(c)
      /\ watchedCount' = IF o # NoSession /\ sess[o].watched # {}
                         THEN watchedCount - 1 ELSE watchedCount

(* executeTransaction up to the test whether a watched key was touched. *)
Exec(c) ==
  LET o == conn[c].s
  IN  /\ Ready(c) /\ InMulti(c)
      /\ EndWatch(o, [sess[o] EXCEPT !.multi = FALSE, !.queue = << >>])
      /\ job' = IF sess[o].aborted THEN job
                ELSE [job EXCEPT ![c].stage = "next", ![c].tx = TRUE,
                                 ![c].rest = sess[o].queue]
      /\ UNCHANGED <<conn, clientSessions, shared>> /\ Data
-----------------------------------------------------------------------------
(* Writes.  A command outside a transaction is applied, makes its keys      *)
(* known to the sessions that watch them, meets the memory limit, and is    *)
(* logged and sent to the replicas; inside one it is applied, logged, sent, *)
(* and then made known.                                                     *)

Stage(c, s) == job' = [job EXCEPT ![c].stage = s]
Begin(c, op, j) == job' = [job EXCEPT ![c] =
                     [j EXCEPT !.stage = "apply", !.n = writes + 1,
                               !.keys = op.keys, !.todo = op.keys,
                               !.told = extractCommandKeys(op)]]

WriteCommand(c, op) == /\ Ready(c) /\ ~InMulti(c) /\ op.name \in Writes
                       /\ writes < MaxWrites
                       /\ writes' = writes + 1
                       /\ Begin(c, op, Idle)
                       /\ UNCHANGED <<sessions, store, logs, seen>>

(* dispatch, a key at a time as in MSET, DEL or FLUSHDB: each takes the     *)
(* lock of a shard of its own.                                              *)
Apply(c) ==
  LET k == Head(job[c].todo)
  IN  /\ job[c].stage = "apply" /\ job[c].todo # << >>
      /\ store' = [store EXCEPT ![k] = job[c].n]
      /\ hit' = [hit EXCEPT ![c] = @ \cup
                   {o \in Live : k \in sess[o].watched \cap Elems(job[c].told)}]
      /\ job' = [job EXCEPT ![c].todo = Tail(@)]
      /\ UNCHANGED <<sessions, writes, logs, stale>>

Applied(c) == /\ job[c].stage = "apply" /\ job[c].todo = << >>
              /\ Stage(c, IF job[c].tx THEN "log" ELSE "count")
              /\ UNCHANGED <<sessions, store, writes, logs, seen>>

(* The command is done. *)
Answered(c) == /\ stale' = [o \in Obj |-> stale[o] \/ o \in hit[c]]
               /\ hit' = [hit EXCEPT ![c] = {}]

Finish(c) == /\ finished' = finished \cup {job[c].n}
             /\ Answered(c)
             /\ job' = [job EXCEPT ![c] =
                  IF job[c].tx THEN [Idle EXCEPT !.stage = "next", !.tx = TRUE,
                                                 !.rest = job[c].rest]
                  ELSE Idle]

(* watchedCount is read without the mutex of the sessions. *)
Count(c) ==
  /\ job[c].stage = "count"
  /\ \/ /\ watchedCount > 0
        /\ job' = [job EXCEPT ![c].stage = "touch", ![c].todo = job[c].told]
        /\ UNCHANGED <<finished, seen>>
     \/ /\ watchedCount <= 0 /\ ~job[c].tx
        /\ Stage(c, "memory")
        /\ UNCHANGED <<finished, seen>>
     \/ /\ watchedCount <= 0 /\ job[c].tx
        /\ Finish(c)
  /\ UNCHANGED <<sessions, store, writes, file, sent>>

(* touchWatchedKey of the next key. *)
Touch(c) ==
  LET k == Head(job[c].todo)
  IN  /\ job[c].stage = "touch" /\ job[c].todo # << >>
      /\ sess' = IF watchedCount <= 0 THEN sess
                 ELSE [o \in Obj |->
                         IF o \in Live /\ k \in sess[o].watched
                         THEN [sess[o] EXCEPT !.aborted = TRUE] ELSE sess[o]]
      /\ job' = [job EXCEPT ![c].todo = Tail(@)]
      /\ UNCHANGED <<conn, clientSessions, shared, watchedCount>>
      /\ UNCHANGED <<store, writes, logs, seen>>

Touched(c) ==
  /\ job[c].stage = "touch" /\ job[c].todo = << >>
  /\ \/ ~job[c].tx /\ Stage(c, "memory") /\ UNCHANGED <<finished, seen>>
     \/ job[c].tx /\ Finish(c)
  /\ UNCHANGED <<sessions, store, writes, file, sent>>

(* The limit is looked at once in 2048 writes.  Keys are evicted, and if    *)
(* that does not help the command is refused, though it has been applied.   *)
Memory(c) ==
  /\ job[c].stage = "memory"
  /\ \/ Stage(c, "log") /\ UNCHANGED <<store, seen>>
     \/ /\ config.maxmemory
        /\ \E gone \in SUBSET Key :
             store' = [k \in Key |-> IF k \in gone THEN 0 ELSE store[k]]
        /\ \/ Stage(c, "log") /\ UNCHANGED seen
           \/ job' = [job EXCEPT ![c] = Idle] /\ Answered(c)
  /\ UNCHANGED <<sessions, writes, logs>>

(* The file refuses the writes ns, and what was still in the buffer before  *)
(* them: bufio.Writer returns its first error for ever.                     *)
Refused(ns) ==
  /\ config.diskfails
  /\ aofErr' = TRUE
  /\ \E m \in synced .. Len(aof) :
       /\ (aofErr \/ config.fsync = "always") => m = Len(aof)
       /\ aof' = SubSeq(aof, 1, m)
  /\ lost' = lost \cup ns \cup (Numbers(aof) \ Numbers(aof'))

Logged(c) == [n |-> job[c].n, keys |-> job[c].keys]

(* Mutant: the file is synced before the buffer is flushed to it. *)
LogSyncFirst(c) ==
  /\ job[c].stage = "log"
  /\ aof' = Append(aof, Logged(c))
  /\ synced' = IF config.fsync = "always" THEN Len(aof) ELSE synced
  /\ Stage(c, "cast")
  /\ UNCHANGED <<aofErr, lost, sessions, store, writes, sent, finished, seen>>

(* AOF.WriteCommand, under the mutex of the file: the command is buffered,  *)
(* flushed and synced, or is not on disk when one of the three fails.  The  *)
(* engine drops the error.                                                  *)
Log(c) ==
  /\ job[c].stage = "log"
  /\ \/ /\ ~aofErr
        /\ aof' = Append(aof, Logged(c))
        /\ \/ /\ synced' = IF config.fsync = "always" THEN Len(aof') ELSE synced
              /\ UNCHANGED lost
           \/ /\ config.fsync = "always" /\ config.diskfails
              /\ UNCHANGED synced
              /\ lost' = lost \cup {job[c].n}
        /\ UNCHANGED aofErr
     \/ Refused({job[c].n}) /\ UNCHANGED synced
  /\ Stage(c, "cast")
  /\ UNCHANGED <<sessions, store, writes, sent, finished, seen>>

Broadcast(c) ==
  /\ job[c].stage = "cast"
  /\ sent' = Append(sent, Logged(c))
  /\ \/ job[c].tx /\ Stage(c, "count") /\ UNCHANGED <<finished, seen>>
     \/ ~job[c].tx /\ Finish(c)
  /\ UNCHANGED <<sessions, store, writes, file>>

(* The next queued command of a transaction, or its end. *)
ExecNext(c) ==
  LET op == Head(job[c].rest)
      left == [job[c] EXCEPT !.rest = Tail(@)]
  IN  /\ job[c].stage = "next" /\ job[c].rest # << >>
      /\ \/ /\ op.name \in Writes /\ writes < MaxWrites
            /\ writes' = writes + 1
            /\ Begin(c, op, left)
            /\ UNCHANGED <<sessions, seen>>
         \/ /\ DispatchWatch(c, op)
            /\ job' = [job EXCEPT ![c] = left]
            /\ UNCHANGED writes
      /\ UNCHANGED <<store, logs>>

ExecEnd(c) == /\ job[c].stage = "next" /\ job[c].rest = << >>
              /\ job' = [job EXCEPT ![c] = Idle]
              /\ UNCHANGED <<sessions, seen>> /\ Data
-----------------------------------------------------------------------------
(* fsyncLoop, once a second; it drops the errors of Flush and of Sync. *)
FsyncLoop == /\ config.fsync = "everysec"
             /\ \/ ~aofErr /\ UNCHANGED <<aof, aofErr, lost>>
                \/ Refused({})
             /\ \/ synced' = Len(aof')
                \/ config.diskfails /\ UNCHANGED synced
             /\ UNCHANGED <<sessions, job, store, writes, sent, finished, seen>>

(* The keyspace the file describes: Replay runs every command again. *)
Replay(log) ==
  [k \in Key |->
     LET I == {i \in 1 .. Len(log) : k \in Elems(log[i].keys)}
     IN  IF I = {} THEN 0
         ELSE log[CHOOSE i \in I : \A j \in I : j <= i].n]

(* The server crashes and starts again.  What was not synced may be lost,   *)
(* from some command on.  (The file is cut between two commands: a command  *)
(* cut in the middle would also stop the replay at the start after next.)   *)
Crash ==
  /\ \E m \in synced .. Len(aof) : /\ aof' = SubSeq(aof, 1, m)
                                   /\ synced' = m
  /\ store' = Replay(aof')
  /\ conn' = [c \in Client |-> Closed]
  /\ clientSessions' = [i \in ID |-> NoSession]
  /\ sess' = [o \in Obj |-> NewSession]
  /\ watchedCount' = 0 /\ shared' = 0
  /\ job' = [c \in Client |-> Idle]
  /\ aofErr' = FALSE /\ sent' = << >>
  /\ finished' = {} /\ lost' = {}
  /\ hit' = [c \in Client |-> {}]
  /\ stale' = [o \in Obj |-> FALSE]
  /\ UNCHANGED writes

Session(c) == \/ Connect(c) \/ Multi(c) \/ Discard(c) \/ Exec(c) \/ Close(c)
              \/ \E op \in config.cmds : Queue(c, op) \/ WatchCommand(c, op)
                                 \/ WriteCommand(c, op)

Step(c) == \/ Apply(c) \/ Applied(c) \/ Count(c) \/ Touch(c) \/ Touched(c)
           \/ Memory(c) \/ Log(c) \/ Broadcast(c) \/ ExecNext(c) \/ ExecEnd(c)

Next == /\ (\E c \in Client : Session(c) \/ Step(c)) \/ FsyncLoop \/ Crash
        /\ UNCHANGED config

Spec == Init /\ [][Next]_vars
-----------------------------------------------------------------------------
Stages == {"idle", "apply", "count", "touch", "memory", "log", "cast", "next"}
SessionType == [multi : BOOLEAN, queue : Seq(Op), watched : SUBSET Key,
                aborted : BOOLEAN]
JobType == [stage : Stages, n : Nat, keys : Seq(Key), told : Seq(Key),
            todo : Seq(Key), tx : BOOLEAN, rest : Seq(Op)]
Entry == [n : Nat, keys : Seq(Key)]

(* Type invariant of the engine. *)
TypeInv == /\ config \in Config
           /\ conn \in [Client -> [id : ID, s : Obj] \cup {Closed}]
           /\ clientSessions \in [ID -> Obj \cup {NoSession}]
           /\ sess \in [Obj -> SessionType]
           /\ watchedCount \in Int /\ shared \in Nat
           /\ job \in [Client -> JobType]
           /\ store \in [Key -> Nat] /\ writes \in Nat
           /\ aof \in Seq(Entry) /\ synced \in 0 .. Len(aof)
           /\ aofErr \in BOOLEAN
           /\ sent \in Seq(Entry) /\ finished \subseteq Nat /\ lost \subseteq Nat
           /\ hit \in [Client -> SUBSET Obj]
           /\ stale \in [Obj -> BOOLEAN]

(* watchedCount, read without a lock to skip the search for watchers, is    *)
(* the number of sessions in the map that watch a key, however transactions,*)
(* UNWATCH and closed connections interleave, as long as no connection was  *)
(* given an identifier that another one had.                                *)
WatchedCountExact ==
  shared = 0 => watchedCount = Cardinality({o \in Live : sess[o].watched # {}})

(* A session whose watched key was changed by a write that announces it and *)
(* has since been answered will not commit: its transaction is marked as    *)
(* aborted until the watch ends, as long as no connection was given an      *)
(* identifier that another one had.                                         *)
NoStaleCommit == shared = 0 => \A o \in Live : stale[o] => sess[o].aborted

(* What a client was told was sent to the replicas, and what they were sent *)
(* is in the append-only file, on disk under the policy "always", unless    *)
(* the file refused it with an error that the engine drops.                 *)
Journalled ==
  LET kept == IF config.fsync = "always" THEN SubSeq(aof, 1, synced) ELSE aof
  IN  /\ finished \subseteq Numbers(sent)
      /\ Numbers(sent) \subseteq Numbers(kept) \cup lost

(* docs/commands.md:97, "EXEC: Executes all queued commands atomically      *)
(* without interleaving from other clients": no key is changed by another   *)
(* connection when a transaction has begun to write and has more to run.    *)
ExecIsolated ==
  [][\A c, d \in Client :
        (/\ c # d /\ job[c].tx /\ job[c].n # 0 /\ job[c].rest # << >>
         /\ job[d].stage = "apply" /\ job'[d] # job[d])
        => store' = store]_vars
=============================================================================
