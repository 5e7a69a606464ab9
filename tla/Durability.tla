----------------------------- MODULE Durability -----------------------------
(***************************************************************************)
(* The two files of a server and what a restart makes of them: the append- *)
(* only file (internal/persistence/aof.go) and the snapshot                *)
(* (internal/persistence/rdb.go), written by the engine                    *)
(* (internal/engine/engine.go) and read back by NewEngine.                 *)
(*                                                                         *)
(* The append-only file is a sequence of protocol elements (an array       *)
(* header or a bulk string), so that a crash can cut it inside a command;  *)
(* a snapshot is a sequence of chunks, one per shard, and a checksum.      *)
(* Every key is a shard of its own.                                        *)
(***************************************************************************)
EXTENDS Values, SequencesExt, FiniteSetsExt

CONSTANTS Client,      \* connections that write
          Saver,       \* goroutines that run SAVE or BGSAVE
          ShardOrder,  \* the keys, in the order of their shards
          Garbage,     \* a nested array turned into an argument
          Policies,    \* fsync policies considered
          Budgets      \* bounds: how many writes, saves and stops, in
                       \* records with these three fields

ASSUME ShardsDiffer == IsInjective(ShardOrder)

Key == ToSet(ShardOrder)
NS == Len(ShardOrder)
Hole == [type |-> "hole", made |-> << >>]  \* a chunk nobody has written
Idle == [pc |-> "idle"]

VARIABLES policy,    \* fsync policy of the append-only file
          up,        \* the server runs
          db,        \* Keyspace: the value of every key
          work,      \* Client -> the command it executes
          file,      \* append-only file, what is still buffered included
          synced,    \* how much of it is certainly on disk
          aofErr,    \* bufio.Writer's sticky error
          inode,     \* contents of the snapshot files created so far
          tmp, rdb,  \* inode named dump.rdb.tmp and dump.rdb, 0 if none
          save,      \* Saver -> progress of its save
          bgInProgress,
          saveStatus,
          hist       \* what the properties talk about
vars == <<policy, up, db, work, file, synced, aofErr, inode, tmp, rdb, save,
          bgInProgress, saveStatus, hist>>
log == <<policy, file, synced, aofErr>>
snap == <<inode, tmp, rdb, save, bgInProgress, saveStatus>>

Empty == [k \in Key |-> Missing]

(* ------------------------ the file and its parser ---------------------- *)

Header(n) == [t |-> "array", n |-> n, v |-> Garbage]
Bulk(x) == [t |-> "bulk", n |-> 0, v |-> x]
(* A crash can cut an element.  What is left of it makes the parser fail, or,  *)
(* when exactly two bytes of a bulk string are missing, takes the header of    *)
(* the next command for them.                                                  *)
Torn == [t |-> "torn", n |-> 0, v |-> Garbage]
Short == [t |-> "short", n |-> 0, v |-> Garbage]

SerializeCommand(args) ==
    <<Header(Len(args))>> \o [i \in 1 .. Len(args) |-> Bulk(args[i])]

(* readArray: the value x completes an element of the innermost open array,   *)
(* and with it every array it is the last element of.                         *)
Element(st, x) ==
    LET L == Len(st.need)
        d == Max({0} \cup {j \in 1 .. L : st.need[j] # 1})
        args == IF L = 0 THEN <<x>>
                ELSE Append(st.args, IF L = 1 THEN x ELSE Garbage)
    IN  IF d = 0 THEN [st EXCEPT !.need = << >>, !.args = << >>,
                                 !.cmds = Append(@, args)]
        ELSE [st EXCEPT !.need = [SubSeq(@, 1, d) EXCEPT ![d] = @ - 1],
                        !.args = IF d = 1 THEN args ELSE @]

ReadValue(st, e) ==
    CASE ~st.ok -> st
      [] e.t = "torn" -> [st EXCEPT !.ok = FALSE]
      [] e.t = "short" -> [st EXCEPT !.absorb = TRUE]
      [] e.t = "array" /\ st.absorb ->
             [Element(st, Garbage) EXCEPT !.absorb = FALSE]
      [] e.t = "array" /\ ~st.absorb -> [st EXCEPT !.need = Append(@, e.n)]
      [] e.t = "bulk" -> Element(st, e.v)

(* ReadCommand until the first error or the end of the file. *)
Commands(f) ==
    FoldLeft(ReadValue, [need |-> << >>, args |-> << >>, cmds |-> << >>,
                         ok |-> TRUE, absorb |-> FALSE], f).cmds

(* Replay: the commands of the file on top of what is already there. *)
Replay(f, d) == FoldLeft(Execute, d, Commands(f))

(* ------------------------------ the snapshot --------------------------- *)

(* The loader restores an entry as soon as it has read it; the checksum is    *)
(* compared only afterwards, and NewEngine drops the error.                   *)
LoadRDB(n) ==
    IF n = 0 \/ Len(inode[n]) < 2 THEN Empty
    ELSE [k \in Key |->
            LET i == CHOOSE j \in 1 .. NS : ShardOrder[j] = k
            IN  IF i > Len(inode[n]) \/ inode[n][i] = Hole THEN Missing
                ELSE inode[n][i]]

(* A chunk is written at the writer's own position; what lies between the   *)
(* end of the file and that position becomes a hole.                        *)
PutChunk(f, i, x) ==
    [j \in 1 .. Max({Len(f), i}) |->
       IF j = i THEN x ELSE IF j <= Len(f) THEN f[j] ELSE Hole]

(* ------------------------------ behaviour ------------------------------ *)

Init ==
    /\ policy \in Policies
    /\ up = TRUE
    /\ db = Empty
    /\ work = [c \in Client |-> Idle]
    /\ file = << >> /\ synced = 0 /\ aofErr = FALSE
    /\ inode = << >> /\ tmp = 0 /\ rdb = 0
    /\ save = [s \in Saver |-> Idle]
    /\ bgInProgress = FALSE /\ saveStatus = "ok"
    /\ \E b \in Budgets : hist =
              [writes |-> 0, left |-> b,
               applied |-> << >>,     \* commands, as the keyspace saw them
               logged |-> << >>,      \* commands of the file and where they end
               answered |-> {},       \* writes answered to their clients
               failed |-> FALSE,      \* a command was answered and not logged
               torn |-> FALSE, tornMid |-> FALSE,
               overlap |-> FALSE,     \* a SAVE overlapped another save
               \* what the server held when it stopped, whether nothing was
               \* under way, whether it was closed, whether it has restarted
               memory |-> Empty, quiet |-> TRUE, closed |-> FALSE,
               ordered |-> TRUE, fresh |-> FALSE]

(* dispatch of a write: the keyspace changes, nothing is logged yet. *)
Dispatch(c, op, k) ==
    /\ up /\ work[c] = Idle /\ hist.left.writes > 0
    /\ LET w == hist.writes + 1
           args == Command(op, k, w)
       IN  /\ IsWrite(db[k], args)
           /\ db' = Execute(db, args)
           /\ work' = [work EXCEPT ![c] = [pc |-> "applied", args |-> args,
                                           id |-> w]]
           /\ hist' = [hist EXCEPT !.writes = w, !.left.writes = @ - 1,
                                   !.fresh = FALSE, !.applied = Append(@, w)]
    /\ UNCHANGED <<up, log, snap>>

(* Mutant: the command is flushed but not synced before the answer. *)
LogCommandUnsynced(c) ==
    /\ work[c].pc = "applied"
    /\ file' = IF aofErr THEN file ELSE file \o SerializeCommand(work[c].args)
    /\ hist' = [hist EXCEPT
                  !.answered = @ \cup {work[c].id}, !.failed = @ \/ aofErr,
                  !.logged = IF aofErr THEN @
                             ELSE Append(@, [id |-> work[c].id,
                                             args |-> work[c].args,
                                             end |-> Len(file')])]
    /\ work' = [work EXCEPT ![c] = Idle]
    /\ UNCHANGED <<policy, up, db, synced, aofErr, snap>>

(* WriteCommand, and the answer that follows it.  An error of the writer is  *)
(* dropped by the engine.                                                    *)
LogCommand(c) ==
    /\ work[c].pc = "applied"
    /\ LET f == file \o SerializeCommand(work[c].args)
       IN  IF aofErr THEN UNCHANGED <<file, synced>>
           ELSE /\ file' = f
                /\ synced' = IF policy = "always" THEN Len(f) ELSE synced
    /\ hist' = [hist EXCEPT
                  !.answered = @ \cup {work[c].id},
                  !.failed = @ \/ aofErr,
                  !.tornMid = @ \/ (hist.torn /\ ~aofErr),
                  !.logged = IF aofErr THEN @
                             ELSE Append(@, [id |-> work[c].id,
                                             args |-> work[c].args,
                                             end |-> Len(file')])]
    /\ work' = [work EXCEPT ![c] = Idle]
    /\ UNCHANGED <<policy, up, db, aofErr, snap>>

(* The file system refuses a write: every later write of the bufio.Writer    *)
(* fails as well, until the process is restarted.                            *)
WriterError ==
    /\ up /\ ~aofErr
    /\ aofErr' = TRUE
    /\ UNCHANGED <<policy, up, db, work, file, synced, snap, hist>>

(* fsyncLoop, every second. *)
FsyncTick ==
    /\ up /\ policy = "everysec" /\ ~aofErr
    /\ synced' = Len(file)
    /\ UNCHANGED <<policy, up, db, work, file, aofErr, snap, hist>>

(* ------------------------------ SAVE and BGSAVE ------------------------ *)

Saving(s) == save[s].pc # "idle"
Began(kind) == [pc |-> "dump", kind |-> kind, entries |-> << >>, at |-> 0,
                ino |-> 0]

(* SAVE runs in the connection's goroutine and looks at no flag. *)
StartSave(s) ==
    /\ up /\ save[s] = Idle /\ hist.left.saves > 0
    /\ save' = [save EXCEPT ![s] = Began("SAVE")]
    /\ hist' = [hist EXCEPT !.left.saves = @ - 1]
    /\ UNCHANGED <<up, db, work, log, inode, tmp, rdb, bgInProgress, saveStatus>>

(* Mutant: the flag is set without looking at it. *)
StartBgSaveAnyway(s) ==
    /\ up /\ save[s] = Idle /\ hist.left.saves > 0
    /\ bgInProgress' = TRUE
    /\ save' = [save EXCEPT ![s] = Began("BGSAVE")]
    /\ hist' = [hist EXCEPT !.left.saves = @ - 1]
    /\ UNCHANGED <<up, db, work, log, inode, tmp, rdb, saveStatus>>

(* BGSAVE: refused while one is in progress. *)
StartBgSave(s) ==
    /\ up /\ save[s] = Idle /\ hist.left.saves > 0
    /\ ~bgInProgress
    /\ bgInProgress' = TRUE
    /\ save' = [save EXCEPT ![s] = Began("BGSAVE")]
    /\ hist' = [hist EXCEPT !.left.saves = @ - 1]
    /\ UNCHANGED <<up, db, work, log, inode, tmp, rdb, saveStatus>>

(* dumpAllRDBEntries: one shard at a time, each under its own lock. *)
DumpShard(s) ==
    /\ save[s].pc = "dump" /\ Len(save[s].entries) < NS
    /\ save' = [save EXCEPT ![s].entries =
                   Append(@, db[ShardOrder[Len(@) + 1]])]
    /\ UNCHANGED <<up, db, work, log, inode, tmp, rdb, bgInProgress, saveStatus,
                   hist>>

(* SaveRDB opens dump.rdb.tmp, truncating the file another save may be       *)
(* writing at that moment.                                                   *)
OpenTmp(s) ==
    /\ save[s].pc = "dump" /\ Len(save[s].entries) = NS
    /\ IF tmp # 0 THEN inode' = [inode EXCEPT ![tmp] = << >>] /\ UNCHANGED tmp
       ELSE inode' = Append(inode, << >>) /\ tmp' = Len(inode) + 1
    /\ save' = [save EXCEPT ![s].pc = "write", ![s].ino = tmp']
    /\ hist' = [hist EXCEPT !.overlap = @ \/
                  \E o \in Saver \ {s} :
                     /\ save[o].pc = "write"
                     /\ "SAVE" \in {save[s].kind, save[o].kind}]
    /\ UNCHANGED <<up, db, work, log, rdb, bgInProgress, saveStatus>>

(* The entries, then the checksum of what this save has written. *)
WriteChunk(s) ==
    /\ save[s].pc = "write" /\ save[s].at <= NS
    /\ LET i == save[s].at + 1
           x == IF i <= NS THEN save[s].entries[i] ELSE save[s].entries
       IN  inode' = [inode EXCEPT ![save[s].ino] = PutChunk(@, i, x)]
    /\ save' = [save EXCEPT ![s].at = @ + 1]
    /\ UNCHANGED <<up, db, work, log, tmp, rdb, bgInProgress, saveStatus, hist>>

EndSave(s, status) ==
    /\ save' = [save EXCEPT ![s] = Idle]
    /\ saveStatus' = status
    /\ bgInProgress' = (bgInProgress /\ save[s].kind # "BGSAVE")

(* Sync, close and rename: dump.rdb.tmp, whatever file that is by now,       *)
(* becomes dump.rdb; without one the rename fails.                           *)
Publish(s) ==
    /\ save[s].pc = "write" /\ save[s].at = NS + 1
    /\ IF tmp # 0 THEN rdb' = tmp /\ tmp' = 0 /\ EndSave(s, "ok")
       ELSE UNCHANGED <<rdb, tmp>> /\ EndSave(s, "err")
    /\ UNCHANGED <<up, db, work, log, inode, hist>>

(* A write, flush or sync fails: the temporary file is removed. *)
FailSave(s) ==
    /\ save[s].pc = "write"
    /\ tmp' = 0
    /\ EndSave(s, "err")
    /\ UNCHANGED <<up, db, work, log, inode, rdb, hist>>

(* --------------------------- stop and start ---------------------------- *)

Ids(logged) == [i \in 1 .. Len(logged) |-> logged[i].id]

Down(logged, closed) ==
    /\ up' = FALSE
    /\ db' = Empty
    /\ work' = [c \in Client |-> Idle]
    /\ aofErr' = FALSE
    /\ save' = [s \in Saver |-> Idle]
    /\ bgInProgress' = FALSE
    /\ hist' = [hist EXCEPT
                  !.left.stops = @ - 1, !.fresh = FALSE,
                  !.memory = db, !.closed = closed,
                  !.quiet = \A c \in Client : work[c] = Idle,
                  !.ordered = (hist.applied = Ids(hist.logged)),
                  !.applied = Ids(logged), !.logged = logged,
                  !.tornMid = @ \/ (hist.torn /\ Len(file') > Len(file)),
                  !.torn = @ \/ Len(file') #
                     (IF logged = << >> THEN 0 ELSE Last(logged).end)]
    /\ UNCHANGED <<policy, inode, tmp, rdb, saveStatus>>

(* A crash keeps what was synced and any part of the rest, the command being *)
(* written included; the cut may fall inside an element.                     *)
Crash ==
    /\ up /\ hist.left.stops > 0
    /\ \E last \in {<< >>} \cup
            {<<work[c]>> : c \in {x \in Client : work[x].pc = "applied"
                                                 /\ ~aofErr}} :
         LET f == IF last = << >> THEN file
                  ELSE file \o SerializeCommand(last[1].args)
             all == IF last = << >> THEN hist.logged
                    ELSE Append(hist.logged, [id |-> last[1].id,
                           args |-> last[1].args, end |-> Len(f)])
         IN  \E n \in synced .. Len(f) :
             \E part \in {<< >>} \cup
                   (IF n = Len(f) THEN {}
                    ELSE IF f[n + 1].t = "bulk" THEN {<<Torn>>, <<Short>>}
                    ELSE {<<Torn>>}) :
               /\ file' = SubSeq(f, 1, n) \o part
               /\ synced' = Len(file')
               /\ Down(SelectSeq(all, LAMBDA e : e.end <= n), FALSE)

(* Mutant: the buffer is not flushed. *)
CloseUnflushed ==
    /\ up /\ hist.left.stops > 0 /\ ~aofErr
    /\ file' = SubSeq(file, 1, synced)
    /\ UNCHANGED synced
    /\ Down(SelectSeq(hist.logged, LAMBDA e : e.end <= synced), TRUE)

(* Engine.Close on SIGTERM: the file is flushed and synced.  Connections are *)
(* cut wherever they are.  After a writer error it loses what Crash loses.   *)
Close ==
    /\ up /\ hist.left.stops > 0 /\ ~aofErr
    /\ synced' = Len(file)
    /\ UNCHANGED file
    /\ Down(hist.logged, TRUE)

(* Mutant: the append-only file first, then the snapshot. *)
NewEngineSnapshotLast ==
    /\ ~up
    /\ up' = TRUE
    /\ db' = LET d == Replay(file, Empty)
             IN  [k \in Key |-> IF LoadRDB(rdb)[k] = Missing THEN d[k]
                                ELSE LoadRDB(rdb)[k]]
    /\ hist' = [hist EXCEPT !.fresh = TRUE]
    /\ UNCHANGED <<work, log, snap>>

(* NewEngine: the snapshot, then the whole append-only file on top of it. *)
NewEngine ==
    /\ ~up
    /\ up' = TRUE
    /\ db' = Replay(file, LoadRDB(rdb))
    /\ hist' = [hist EXCEPT !.fresh = TRUE]
    /\ UNCHANGED <<work, log, snap>>

SaveStep(s) == DumpShard(s) \/ OpenTmp(s) \/ WriteChunk(s) \/ Publish(s)

Next ==
    \/ \E c \in Client, k \in Key, op \in {"SET", "RPUSH", "DEL"} :
          Dispatch(c, op, k)
    \/ \E c \in Client : LogCommand(c)
    \/ \E s \in Saver : \/ StartSave(s) \/ StartBgSave(s) \/ FailSave(s)
                        \/ SaveStep(s)
    \/ WriterError \/ FsyncTick
    \/ Crash \/ Close \/ NewEngine

Spec == Init /\ [][Next]_vars

(* ------------------------------ properties ----------------------------- *)

(* SaveRDB's "Atomic replace": whatever crash, failed save or refused BGSAVE *)
(* came before, dump.rdb is the complete image of one dump with its own      *)
(* checksum, as long as no SAVE overlapped another save.                     *)
SnapshotWhole ==
    rdb # 0 /\ ~hist.overlap =>
        /\ Len(inode[rdb]) = NS + 1
        /\ SubSeq(inode[rdb], 1, NS) = inode[rdb][NS + 1]

(* The value the logged commands give a key, each executed once in order. *)
Logged(k) == FoldLeft(Execute, Empty, [i \in 1 .. Len(hist.logged) |->
                                         hist.logged[i].args])[k]
Overwritten(k) == \E i \in 1 .. Len(hist.logged) :
                     hist.logged[i].args[2] = k /\ hist.logged[i].args[1] # "RPUSH"

(* Replay on top of the snapshot, whole, torn or stale: every command that    *)
(* reached the file is in effect after a restart, in file order.  A key that  *)
(* a logged SET or DEL names is what the file alone makes of it, and nothing  *)
(* the command removed comes back from the snapshot.  A key that was only     *)
(* pushed to ends with the pushes of the file, unless the snapshot holds a    *)
(* string there, on which Replay is refused every push.  The exception is a   *)
(* file that was appended to after a torn command.                            *)
RecoversLog ==
    hist.fresh /\ ~hist.tornMid =>
        \A k \in Key :
           \/ Overwritten(k) /\ db[k] = Logged(k)
           \/ ~Overwritten(k) /\ IsSuffix(Logged(k).made, db[k].made)
           \/ ~Overwritten(k) /\ db[k].type = "string"

(* fsync always ("Maximum durability", docs/production-hardening.md): an     *)
(* answered write is still in the file after any number of crashes, unless   *)
(* the writer failed.                                                        *)
AnsweredLogged ==
    policy = "always" /\ ~hist.failed =>
        hist.answered \subseteq ToSet(Ids(hist.logged))

(* A server that stopped with no command under way, having lost nothing and   *)
(* logged in the order in which it executed, comes back with the value every  *)
(* key had, if the snapshot cannot apply a push a second time.                *)
RestartFaithful ==
    /\ hist.fresh /\ hist.quiet /\ hist.ordered
    /\ ~hist.failed /\ ~hist.tornMid
    /\ policy = "always" \/ hist.closed
    => \A k \in Key : rdb = 0 \/ Overwritten(k) => db[k] = hist.memory[k]
=============================================================================
