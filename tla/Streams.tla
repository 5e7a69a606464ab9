------------------------------- MODULE Streams ------------------------------
(***************************************************************************)
(* Streams and consumer groups: the stream object                          *)
(* (internal/datastruct/stream.go) and the X commands of the engine.       *)
(*                                                                         *)
(* A handler looks its key up, may store a new stream under it, and then   *)
(* calls methods of the object it holds; each of these takes a lock of its *)
(* own, so they are steps of their own and the key may be deleted or       *)
(* stored anew between them.  Objects therefore have an identity, their    *)
(* place in heap.  There is one key.  An ID is <<milliseconds, sequence>>  *)
(* and the sequence wraps at SeqLimit, as the uint64 does; the fields of   *)
(* an entry are a serial number.  IDs are written canonically ("5-0", not  *)
(* "5").  Commands that only read an object are operators on it.           *)
(***************************************************************************)
EXTENDS Integers, SequencesExt, FiniteSetsExt

CONSTANTS Client, Group, Consumer,
          MaxMillis, SeqLimit,
          IdArgs,     \* ID arguments of XADD: Auto, Partial and Explicit ones
          MaxLens,    \* MAXLEN arguments of XADD, -1 for none
          Scenarios   \* bounds: the entries there are, how often a command runs

ASSUME StreamsAssumption == MaxMillis \in Nat /\ SeqLimit \in Nat \ {0}

ID == (0 .. MaxMillis) \X (0 .. SeqLimit - 1)
Zero == <<0, 0>>
Lowest == <<-1, 0>>              \* the bound "-"
Highest == <<MaxMillis + 1, 0>>  \* the bound "+"
Dollar == <<-1, -1>>             \* the argument "$"
NoGroups == [g \in {} |-> 0]

VARIABLES key,     \* the object stored under the key, 0 if there is none
          heap,    \* the stream objects made so far
          client,  \* Client -> the command it executes
          left,    \* how many commands of every kind may still be sent
          disk,    \* the snapshot and the append-only file, if it is on
          adds     \* history: entries added
files == <<disk, adds>>
vars == <<key, heap, client, left, files>>

Idle == [pc |-> "idle"]

(* --------------------------- the stream object -------------------------- *)

(* CompareStreamIDs(a, b) < 0. *)
Before(a, b) == a[1] < b[1] \/ (a[1] = b[1] /\ a[2] < b[2])

(* Beyond the fields of the struct, top is the greatest ID ever added and    *)
(* wrapped says that a sequence number overflowed; both are history.         *)
NewStream == [entries |-> << >>, lastID |-> Zero, groups |-> NoGroups,
              waiters |-> {}, top |-> Lowest, wrapped |-> FALSE]

Auto(now) == [form |-> "auto", m |-> now]     \* "*" when the clock shows now
Partial(m) == [form |-> "partial", m |-> m]   \* "m-*"
Explicit(id) == [form |-> "explicit", id |-> id]

NextSeq(id) == <<id[1], (id[2] + 1) % SeqLimit>>

(* Mutant: an explicit ID is compared by its milliseconds only. *)
AssignedMillis(o, a) ==
    CASE a.form = "auto" ->
           {IF a.m > o.lastID[1] THEN <<a.m, 0>> ELSE NextSeq(o.lastID)}
      [] a.form = "partial" ->
           {id \in {IF a.m = o.lastID[1] THEN NextSeq(o.lastID) ELSE <<a.m, 0>>} :
              a.m >= o.lastID[1]}
      [] a.form = "explicit" ->
           {id \in {a.id} : o.entries # << >> => id[1] >= o.lastID[1]}

(* The ID that Add gives an entry, as a set that is empty when it refuses.   *)
(* An explicit ID is compared with lastID only while there are entries.      *)
Assigned(o, a) ==
    CASE a.form = "auto" ->
           {IF a.m > o.lastID[1] THEN <<a.m, 0>> ELSE NextSeq(o.lastID)}
      [] a.form = "partial" ->
           {id \in {IF a.m = o.lastID[1] THEN NextSeq(o.lastID) ELSE <<a.m, 0>>} :
              a.m >= o.lastID[1]}
      [] a.form = "explicit" ->
           {id \in {a.id} : o.entries # << >> => Before(o.lastID, id)}

(* Add, once the ID is settled. *)
Add(o, id, n) ==
    LET back == ~Before(o.top, id)
    IN  [o EXCEPT !.lastID = id,
                  !.entries = Append(@, [id |-> id, n |-> n]),
                  !.waiters = {},
                  !.top = IF back THEN @ ELSE id,
                  !.wrapped = @ \/ (/\ o.entries # << >>
                                     /\ o.lastID[2] = SeqLimit - 1
                                     /\ id = NextSeq(o.lastID)),
                  !.groups = [g \in DOMAIN @ |->
                     IF back THEN [@[g] EXCEPT !.moved = "back"] ELSE @[g]]]

LastID(o) == IF o.entries = << >> THEN Zero ELSE o.lastID

Delete(o, ids) ==
    [o EXCEPT !.entries = SelectSeq(@, LAMBDA e : e.id \notin ids)]

Trim(o, maxlen) ==
    IF maxlen < 0 \/ Len(o.entries) <= maxlen THEN o
    ELSE [o EXCEPT !.entries = SubSeq(@, Len(@) - maxlen + 1, Len(@))]

(* The loop of the range methods: entries are skipped, the first one to stop *)
(* at ends it, and so does the n-th result if n > 0.                         *)
Scan(es, Skip(_), Stop(_), n) ==
    FoldLeft(LAMBDA acc, e :
               IF acc.done \/ Skip(e) THEN acc
               ELSE IF Stop(e) THEN [acc EXCEPT !.done = TRUE]
               ELSE [out |-> Append(acc.out, e),
                     done |-> n > 0 /\ Len(acc.out) + 1 >= n],
             [out |-> << >>, done |-> FALSE], es).out

(* Mutant: the scan from the end stops at the first entry past the end. *)
RevRangeStops(o, end, start, n) ==
    Scan(Reverse(o.entries), LAMBDA e : Before(e.id, start),
         LAMBDA e : Before(end, e.id), n)

RangeOf(o, start, end, n) ==
    Scan(o.entries, LAMBDA e : Before(e.id, start),
         LAMBDA e : Before(end, e.id), n)

RevRange(o, end, start, n) ==
    Scan(Reverse(o.entries), LAMBDA e : Before(end, e.id),
         LAMBDA e : Before(e.id, start), n)

Read(o, last, n) ==
    Scan(o.entries, LAMBDA e : ~Before(last, e.id), LAMBDA e : FALSE, n)

(* ---------------------------- consumer groups --------------------------- *)

(* consumers: the PEL of every consumer, ID -> delivery count; pel: the PEL  *)
(* of the group, ID -> the consumer named in its entry.  A count is kept     *)
(* with the consumer, who shares the entry with the group.  start, seen and  *)
(* moved are history: where the group began, the serial numbers delivered by *)
(* ">", and whether SETID or a reused ID moved it relative to the entries.   *)
CreateGroup(o, g, start) ==
    IF g \in DOMAIN o.groups THEN o
    ELSE LET from == IF start = Dollar THEN LastID(o) ELSE start
         IN  [o EXCEPT !.groups = (g :> [last |-> from, consumers |-> NoGroups,
                                         pel |-> NoGroups, start |-> from,
                                         seen |-> << >>, moved |-> "no"]) @@ @]

DestroyGroup(o, g) == [o EXCEPT !.groups = Restrict(@, DOMAIN @ \ {g})]

SetGroupID(o, g, id) ==
    IF g \notin DOMAIN o.groups THEN o
    ELSE LET to == IF id = Dollar THEN LastID(o) ELSE id
             was == o.groups[g]
         IN  [o EXCEPT !.groups[g] =
                [was EXCEPT !.last = to,
                            !.moved = IF Before(to, was.last) THEN "back"
                                      ELSE IF to # was.last /\ @ = "no"
                                           THEN "forward" ELSE @]]

DeleteConsumer(o, g, c) ==
    IF g \notin DOMAIN o.groups \/ c \notin DOMAIN o.groups[g].consumers THEN o
    ELSE LET grp == o.groups[g]
         IN  [o EXCEPT !.groups[g] =
                [grp EXCEPT
                   !.pel = Restrict(@, DOMAIN @ \ DOMAIN grp.consumers[c]),
                   !.consumers = Restrict(@, DOMAIN @ \ {c})]]

(* Mutant: the position of the group moves only with entries to acknowledge. *)
DeliverAcked(grp, o, c, n, noAck) ==
    LET got == Scan(o.entries, LAMBDA e : ~Before(grp.last, e.id),
                    LAMBDA e : FALSE, n)
        ids == {e.id : e \in ToSet(got)}
        pend == IF noAck THEN {} ELSE ids
    IN  [grp EXCEPT !.last = IF pend = {} THEN @ ELSE got[Len(got)].id,
                    !.pel = [i \in pend |-> c] @@ @,
                    !.consumers[c] = [i \in pend |-> 1] @@ @,
                    !.seen = @ \o [i \in 1 .. Len(got) |-> got[i].n]]

(* ReadGroup with ">": every entry past the group's position, which moves    *)
(* with it; unless NOACK, it becomes pending for the consumer.               *)
Deliver(grp, o, c, n, noAck) ==
    FoldLeft(LAMBDA h, e :
               IF ~Before(h.last, e.id) \/ (n > 0 /\ Len(h.seen) >= Len(grp.seen) + n)
               THEN h
               ELSE [h EXCEPT !.last = e.id, !.seen = Append(@, e.n),
                              !.pel = IF noAck THEN @ ELSE (e.id :> c) @@ @,
                              !.consumers[c] = IF noAck THEN @
                                               ELSE (e.id :> 1) @@ @],
             grp, o.entries)

(* ReadGroup with an ID: the consumer's own pending entries from it on that  *)
(* are still in the stream, in order.                                        *)
History(grp, o, c, from, n) ==
    LET there == {e.id : e \in ToSet(o.entries)}
        ids == SetToSortSeq({i \in DOMAIN grp.consumers[c] \cap there :
                               ~Before(i, from)}, Before)
    IN  IF n > 0 /\ Len(ids) > n THEN SubSeq(ids, 1, n) ELSE ids

Redeliver(grp, o, c, from, n, noAck) ==
    LET again == IF noAck THEN {} ELSE ToSet(History(grp, o, c, from, n))
    IN  [grp EXCEPT !.consumers[c] =
           [i \in DOMAIN @ |-> IF i \in again THEN @[i] + 1 ELSE @[i]]]

(* The consumer is registered when it first reads. *)
Registered(grp, c) ==
    IF c \in DOMAIN grp.consumers THEN grp
    ELSE [grp EXCEPT !.consumers = (c :> NoGroups) @@ @]

ReadGroup(grp, o, cmd) ==
    IF cmd.new
    THEN Deliver(Registered(grp, cmd.c), o, cmd.c, cmd.count, cmd.noAck)
    ELSE Redeliver(Registered(grp, cmd.c), o, cmd.c, Zero, cmd.count, cmd.noAck)

GroupResult(grp, o, cmd) ==
    IF cmd.new
    THEN Len(ReadGroup(grp, o, cmd).seen) > Len(grp.seen)
    ELSE History(Registered(grp, cmd.c), o, cmd.c, Zero, cmd.count) # << >>

(* Mutant: the entry stays in the list of its consumer. *)
AckGroupOnly(o, g, ids) ==
    IF g \notin DOMAIN o.groups THEN o
    ELSE [o EXCEPT !.groups[g].pel = Restrict(@, DOMAIN @ \ ids)]

Ack(o, g, ids) ==
    IF g \notin DOMAIN o.groups THEN o
    ELSE LET grp == o.groups[g]
             mine(c) == {i \in ids \cap DOMAIN grp.pel : grp.pel[i] = c}
         IN  [o EXCEPT !.groups[g] =
                [grp EXCEPT
                   !.pel = Restrict(@, DOMAIN @ \ ids),
                   !.consumers = [c \in DOMAIN @ |->
                                    Restrict(@[c], DOMAIN @[c] \ mine(c))]]]

(* GetPendingSummary: how many, the first, the last, how many of each consumer *)
PendingSummary(grp) ==
    LET ids == DOMAIN grp.pel
        least(i, j) == IF Before(j, i) THEN j ELSE i
        most(i, j) == IF Before(i, j) THEN j ELSE i
        any == CHOOSE i \in ids : TRUE
    IN  [total |-> Cardinality(ids),
         min |-> FoldSet(least, any, ids), max |-> FoldSet(most, any, ids),
         counts |-> FoldSet(LAMBDA i, f : [f EXCEPT ![grp.pel[i]] = @ + 1],
                            [c \in Consumer |-> 0], ids)]

(* GetPendingDetailed, for the given consumers. *)
PendingDetailed(grp, start, end, n, who) ==
    LET ids == SetToSortSeq({i \in DOMAIN grp.pel : /\ grp.pel[i] \in who
                                                    /\ ~Before(i, start)
                                                    /\ ~Before(end, i)}, Before)
    IN  IF n > 0 /\ Len(ids) > n THEN SubSeq(ids, 1, n) ELSE ids

(* ------------------------------- commands ------------------------------- *)

(* The commands a client may send, by kind. *)
Commands(kind) ==
    CASE kind = "XADD" -> [op : {kind}, id : IdArgs, maxlen : MaxLens]
      [] kind = "XDEL" -> [op : {kind}, ids : {{i} : i \in ID} \cup {ID}]
      [] kind = "XTRIM" -> [op : {kind}, maxlen : {0, 1}]
      [] kind = "CREATE" -> [op : {kind}, g : Group, id : {Zero, Dollar},
                             mkstream : BOOLEAN]
      [] kind = "SETID" -> [op : {kind}, g : Group, id : {Zero, Dollar}]
      [] kind = "DESTROY" -> [op : {kind}, g : Group]
      [] kind = "DELCONSUMER" -> [op : {kind}, g : Group, c : Consumer]
      [] kind = "XACK" -> [op : {kind}, g : Group,
                           ids : {{i} : i \in ID} \cup {ID}]
      [] kind = "XREAD" -> [op : {kind}, id : {Zero, Dollar}, count : {0},
                            block : {"no", "for", "ever"}]
      [] kind = "XREADGROUP" -> [op : {kind}, g : Group, c : Consumer,
                                 new : BOOLEAN, count : {0, 1},
                                 noAck : BOOLEAN, block : {"no"}]
      [] kind = "XREADGROUP BLOCK" ->
           [op : {kind}, g : Group, c : Consumer, new : BOOLEAN, count : {0},
            noAck : {FALSE}, block : {"ever"}]

Kinds == {"XADD", "XDEL", "XTRIM", "CREATE", "SETID", "DESTROY", "DELCONSUMER",
          "XACK", "XREAD", "XREADGROUP", "XREADGROUP BLOCK"}
GroupReads == {"XREADGROUP", "XREADGROUP BLOCK"}
Reads == {"XREAD"} \cup GroupReads

(* Client c goes on at pc, holding object s. *)
Goes(c, pc, s) == client' = [client EXCEPT ![c].pc = pc, ![c].s = s]

Answered(c) == client' = [client EXCEPT ![c] = Idle]

(* A write of client c is done, entry n added if it is an XADD, and still to *)
(* be logged if the append-only file is on.                                  *)
Wrote(c, cmd, n) ==
    client' = [client EXCEPT ![c] =
                 IF disk.on THEN [pc |-> "log", cmd |-> cmd, n |-> n] ELSE Idle]

(* A stream there was before: the first n IDs after 0-0, added one by one,   *)
(* and a group that starts at 0-0.                                           *)
Prior(n) ==
    LET ids == SetToSortSeq(ID \ {Zero}, Before)
    IN  FoldLeft(LAMBDA o, i : Add(o, ids[i], i),
                 [NewStream EXCEPT !.groups =
                    CreateGroup(NewStream, CHOOSE g \in Group : TRUE, Zero).groups],
                 [i \in 1 .. n |-> i])

Init ==
    \E sc \in Scenarios :
       /\ left = [k \in Kinds \cup {"DEL", "SAVE", "RESTART"} |->
                    IF k \in DOMAIN sc.left THEN sc.left[k] ELSE 0]
       /\ heap = IF sc.prior < 0 THEN << >> ELSE <<Prior(sc.prior)>>
       /\ key = Len(heap)
       /\ client = [c \in Client |-> Idle]
       /\ disk = [on |-> "RESTART" \in DOMAIN sc.left, rdb |-> << >>, aof |-> << >>]
       /\ adds = IF sc.prior < 0 THEN 0 ELSE sc.prior

(* A handler looks its key up.  Without it, XADD and XGROUP CREATE MKSTREAM  *)
(* make a stream and the others answer at once.                              *)
Call(c, cmd) ==
    /\ client[c] = Idle /\ left[cmd.op] > 0
    /\ left' = [left EXCEPT ![cmd.op] = @ - 1]
    /\ client' = [client EXCEPT ![c] =
         IF key # 0 THEN [pc |-> "do", cmd |-> cmd, s |-> key]
         ELSE IF cmd.op = "XADD" \/ (cmd.op = "CREATE" /\ cmd.mkstream)
         THEN [pc |-> "make", cmd |-> cmd, s |-> key]
         ELSE Idle]
    /\ UNCHANGED <<key, heap, files>>

(* Keyspace.Set of a new stream: whatever is stored now is replaced.  That   *)
(* loses the entries of another client that made the stream since the lookup.*)
Make(c) ==
    /\ client[c].pc = "make"
    /\ heap' = Append(heap, NewStream)
    /\ key' = Len(heap')
    /\ Goes(c, "do", key')
    /\ UNCHANGED <<left, files>>

(* XADD: Add, then a Trim of its own lock. *)
XAdd(c) ==
    /\ client[c].pc = "do" /\ client[c].cmd.op = "XADD"
    /\ LET s == client[c].s
           a == client[c].cmd
           ids == Assigned(heap[s], a.id)
       IN  IF ids = {} THEN Answered(c) /\ UNCHANGED <<heap, adds>>
           ELSE /\ \E id \in ids : heap' = [heap EXCEPT ![s] = Add(@, id, adds + 1)]
                /\ adds' = adds + 1
                /\ IF a.maxlen >= 0
                   THEN client' = [client EXCEPT ![c] =
                          [pc |-> "trim", cmd |-> a, s |-> s, n |-> adds + 1]]
                   ELSE Wrote(c, a, adds + 1)
    /\ UNCHANGED <<key, left, disk>>

XAddTrim(c) ==
    /\ client[c].pc = "trim"
    /\ heap' = [heap EXCEPT ![client[c].s] = Trim(@, client[c].cmd.maxlen)]
    /\ Wrote(c, client[c].cmd, client[c].n)
    /\ UNCHANGED <<key, left, files>>

(* What the other writes make of the stream. *)
Applied(o, m) ==
    CASE m.op = "XDEL" -> Delete(o, m.ids)
      [] m.op = "XTRIM" -> Trim(o, m.maxlen)
      [] m.op = "CREATE" -> CreateGroup(o, m.g, m.id)
      [] m.op = "DESTROY" -> DestroyGroup(o, m.g)
      [] m.op = "SETID" -> SetGroupID(o, m.g, m.id)
      [] m.op = "DELCONSUMER" -> DeleteConsumer(o, m.g, m.c)
      [] m.op = "XACK" -> Ack(o, m.g, m.ids)

(* They answer an error, or that nothing was there, and do not count as a    *)
(* write if there is no such group, or, for CREATE, if there is one.         *)
IsWrite(o, m) ==
    CASE m.op = "CREATE" -> m.g \notin DOMAIN o.groups
      [] m.op \in {"DESTROY", "SETID"} -> m.g \in DOMAIN o.groups
      [] OTHER -> TRUE

(* XDEL, XTRIM, XGROUP and XACK. *)
XWrite(c) ==
    /\ client[c].pc = "do" /\ client[c].cmd.op \notin Reads \cup {"XADD"}
    /\ LET m == client[c].cmd
           o == heap[client[c].s]
       IN  /\ heap' = [heap EXCEPT ![client[c].s] = Applied(o, m)]
           /\ IF IsWrite(o, m) THEN Wrote(c, m, 0) ELSE Answered(c)
    /\ UNCHANGED <<key, left, files>>

Del(c) ==
    /\ client[c] = Idle /\ left["DEL"] > 0
    /\ left' = [left EXCEPT !["DEL"] = @ - 1]
    /\ key' = 0
    /\ Wrote(c, [op |-> "DEL"], 0)
    /\ UNCHANGED <<heap, files>>

(* AOF.WriteCommand, with the arguments as they were sent. *)
Log(c) ==
    /\ client[c].pc = "log"
    /\ disk' = [disk EXCEPT !.aof = Append(@, client[c].cmd @@ [n |-> client[c].n])]
    /\ Answered(c)
    /\ UNCHANGED <<key, heap, left, adds>>

(* --------------------------- restarts ----------------------------------- *)

(* The keyspace as a sequence of at most one stream.  A snapshot holds the   *)
(* entries and nothing of the groups; they are added one by one.             *)
Save == /\ left["SAVE"] > 0
        /\ left' = [left EXCEPT !["SAVE"] = @ - 1]
        /\ disk' = [disk EXCEPT !.rdb =
                      IF key = 0 THEN << >> ELSE <<heap[key].entries>>]
        /\ UNCHANGED <<key, heap, client, adds>>

Restored(entries) ==
    FoldLeft(LAMBDA o, e : IF Assigned(o, Explicit(e.id)) = {} THEN o
                           ELSE Add(o, e.id, e.n), NewStream, entries)

(* XADD m of the file, executed again when the clock shows now. *)
ReAdd(o, m, now) ==
    LET ids == Assigned(o, IF m.id.form = "auto" THEN Auto(now) ELSE m.id)
    IN  IF ids = {} THEN o
        ELSE Trim(Add(o, CHOOSE id \in ids : TRUE, m.n), m.maxlen)

(* Command m of the file, executed again. *)
Replayed(ks, m, now) ==
    LET made == IF ks = << >> THEN NewStream ELSE ks[1]
    IN  CASE m.op = "DEL"    -> << >>
          [] m.op = "XADD"   -> <<ReAdd(made, m, now)>>
          [] m.op = "CREATE" -> IF ks = << >> /\ ~m.mkstream THEN << >>
                                ELSE <<Applied(made, m)>>
          [] OTHER           -> IF ks = << >> THEN << >> ELSE <<Applied(ks[1], m)>>

(* Mutant: a command that is refused ends the replay. *)
NewEngineStops(now) ==
    FoldLeft(LAMBDA acc, m :
               LET next == Replayed(acc.ks, m, now)
               IN  IF acc.end \/ next = acc.ks THEN [acc EXCEPT !.end = TRUE]
                   ELSE [ks |-> next, end |-> FALSE],
             [ks |-> [i \in DOMAIN disk.rdb |-> Restored(disk.rdb[i])], end |-> FALSE],
             disk.aof).ks

(* NewEngine: the snapshot is loaded, then the whole file executed on top of *)
(* it, whatever the commands answer.                                         *)
NewEngine(now) ==
    FoldLeft(LAMBDA ks, m : Replayed(ks, m, now),
             [i \in DOMAIN disk.rdb |-> Restored(disk.rdb[i])], disk.aof)

Restart ==
    /\ left["RESTART"] > 0
    /\ left' = [left EXCEPT !["RESTART"] = @ - 1]
    /\ client' = [c \in Client |-> Idle]
    /\ heap' = NewEngine(MaxMillis)
    /\ key' = Len(heap')
    /\ UNCHANGED files

(* ------------------------- reads that may block ------------------------- *)

(* A round of readOnce that found nothing ends the command unless it may     *)
(* block and its deadline has not passed.                                    *)
Missed(c) ==
    IF client[c].cmd.block = "no" \/ client[c].late THEN Answered(c)
    ELSE Goes(c, "watch", 0)

(* XREAD and XREADGROUP begin.  "$" stands for the last ID of the stream,    *)
(* looked up once; since is history, what had been added at that time.       *)
CallRead(c, cmd) ==
    /\ client[c] = Idle /\ left[cmd.op] > 0
    /\ left' = [left EXCEPT ![cmd.op] = @ - 1]
    /\ client' = [client EXCEPT ![c] =
         [pc |-> IF cmd.op = "XREAD" /\ cmd.id = Dollar /\ key # 0
                 THEN "last" ELSE "get",
          cmd |-> cmd, s |-> key, from |-> Zero, since |-> adds,
          late |-> FALSE]]
    /\ UNCHANGED <<key, heap, files>>

(* Mutant: "$" stands for the first ID. *)
ReadLastFirst(c) ==
    /\ client[c].pc = "last"
    /\ client' = [client EXCEPT ![c].pc = "get", ![c].from =
         LET es == heap[client[c].s].entries
         IN  IF es = << >> THEN Zero ELSE es[1].id]
    /\ UNCHANGED <<key, heap, left, files>>

ReadLast(c) ==
    /\ client[c].pc = "last"
    /\ client' = [client EXCEPT ![c].pc = "get",
                                ![c].from = LastID(heap[client[c].s])]
    /\ UNCHANGED <<key, heap, left, files>>

(* readOnce: the lookup, then the method of the object found. *)
ReadGet(c) ==
    /\ client[c].pc = "get"
    /\ IF key = 0 THEN Missed(c) ELSE Goes(c, "do", key)
    /\ UNCHANGED <<key, heap, left, files>>

XRead(c) ==
    /\ client[c].pc = "do" /\ client[c].cmd.op = "XREAD"
    /\ IF Read(heap[client[c].s], client[c].from, client[c].cmd.count) = << >>
       THEN Missed(c) ELSE Answered(c)
    /\ UNCHANGED <<key, heap, left, files>>

XReadGroup(c) ==
    /\ client[c].pc = "do" /\ client[c].cmd.op \in GroupReads
    /\ LET s == client[c].s
           m == client[c].cmd
           o == heap[s]
       IN  IF m.g \notin DOMAIN o.groups THEN Answered(c) /\ UNCHANGED heap
           ELSE /\ heap' = [heap EXCEPT ![s].groups[m.g] = ReadGroup(@, o, m)]
                /\ IF GroupResult(o.groups[m.g], o, m)
                   THEN Answered(c) ELSE Missed(c)
    /\ UNCHANGED <<key, left, files>>

(* The loop of a blocked read: look the key up again, register a waiter,     *)
(* sleep unless it has been closed, cancel it.                               *)
Watch(c) ==
    /\ client[c].pc = "watch"
    /\ Goes(c, IF key = 0 THEN "sleep" ELSE "register", key)
    /\ UNCHANGED <<key, heap, left, files>>

RegisterWaiter(c) ==
    /\ client[c].pc = "register"
    /\ heap' = [heap EXCEPT ![client[c].s].waiters = @ \cup {c}]
    /\ Goes(c, "sleep", client[c].s)
    /\ UNCHANGED <<key, left, files>>

(* Mutant: the client sleeps until its waiter is closed. *)
CancelWhenClosed(c) ==
    /\ client[c].pc = "sleep"
    /\ client[c].s # 0 => c \notin heap[client[c].s].waiters
    /\ Goes(c, "get", 0)
    /\ UNCHANGED <<key, heap, left, files>>

Cancel(c) ==
    /\ client[c].pc = "sleep"
    /\ heap' = IF client[c].s = 0 THEN heap
               ELSE [heap EXCEPT ![client[c].s].waiters = @ \ {c}]
    /\ Goes(c, "get", 0)
    /\ UNCHANGED <<key, left, files>>

(* The deadline of BLOCK passes while the client sleeps. *)
Expire(c) ==
    /\ client[c].pc = "sleep" /\ client[c].cmd.block = "for" /\ ~client[c].late
    /\ client' = [client EXCEPT ![c].late = TRUE]
    /\ UNCHANGED <<key, heap, left, files>>

Step(c) == \/ Make(c) \/ XAdd(c) \/ XAddTrim(c) \/ XWrite(c) \/ Log(c)
           \/ ReadLast(c) \/ ReadGet(c) \/ XRead(c) \/ XReadGroup(c)
           \/ Watch(c) \/ RegisterWaiter(c) \/ Cancel(c)

Next ==
    \/ \E c \in Client :
          \/ \E k \in Kinds \ Reads : left[k] > 0 /\ \E m \in Commands(k) : Call(c, m)
          \/ \E k \in Reads : left[k] > 0 /\ \E m \in Commands(k) : CallRead(c, m)
          \/ Step(c) \/ Del(c) \/ Expire(c)
    \/ Save \/ Restart

(* A handler that has begun goes on, and time passes: a deadline that has    *)
(* not been noticed for ever would have to be in the future for ever.        *)
Spec == /\ Init /\ [][Next]_vars
        /\ \A c \in Client : WF_vars(Step(c)) /\ SF_vars(Expire(c))

(* ------------------------------ properties ------------------------------ *)

Objects == ToSet(heap)
GroupsOf(o) == {o.groups[g] : g \in DOMAIN o.groups}

(* docs/streams.md:27 "append-only collection ... identified by a            *)
(* monotonically increasing ID": whatever ID forms clients mix and however   *)
(* the clock moves, the entries of a stream are in strictly increasing order *)
(* and none is past lastID, unless a sequence number overflowed.             *)
IdsIncrease ==
    \A o \in Objects : ~o.wrapped =>
       /\ \A i, j \in DOMAIN o.entries :
            i < j => Before(o.entries[i].id, o.entries[j].id)
       /\ \A e \in ToSet(o.entries) : ~Before(o.lastID, e.id)

(* XRANGE and XREVRANGE leave their loops at the first entry out of range;   *)
(* they still return what a search of the whole stream would, in opposite    *)
(* orders, and a restored snapshot has every entry.                          *)
RangesAgree ==
    \A o \in Objects : ~o.wrapped =>
       /\ Restored(o.entries).entries = o.entries
       /\ \A a \in ID \cup {Lowest}, b \in ID \cup {Highest} :
            LET all == SelectSeq(o.entries,
                          LAMBDA e : ~Before(e.id, a) /\ ~Before(b, e.id))
            IN  /\ RangeOf(o, a, b, 0) = all
                /\ RevRange(o, b, a, 0) = Reverse(all)
                /\ all # << >> => /\ RangeOf(o, a, b, 1) = <<Head(all)>>
                                  /\ RevRange(o, b, a, 1) = <<Last(all)>>

(* docs/streams.md:34 "Each worker reading with > receives unique,           *)
(* previously unconsumed entries": an entry is delivered to a group at most  *)
(* once and in order, and an entry in the stream has been delivered exactly  *)
(* if it is between the group's start and its position: none is skipped.     *)
(* Exempt are groups moved by SETID or by an ID that was used again.         *)
DeliveredOnce ==
    \A o \in Objects : \A grp \in GroupsOf(o) :
       (~o.wrapped /\ grp.moved = "no") =>
          /\ \A i, j \in DOMAIN grp.seen : i < j => grp.seen[i] < grp.seen[j]
          /\ \A e \in ToSet(o.entries) :
               e.n \in ToSet(grp.seen)
                 <=> Before(grp.start, e.id) /\ ~Before(grp.last, e.id)

(* The pending lists of the consumers partition that of their group, so that *)
(* XACK by any client clears an entry everywhere and DELCONSUMER drops only  *)
(* what its consumer had.  (A group moved back delivers an entry again       *)
(* without taking it from its former consumer; there an entry is at least in *)
(* the list of the consumer it names, who is registered.)  And the two forms *)
(* of XPENDING agree: total, first, last and the counts of the consumers are *)
(* those of the detailed list, and COUNT cuts its end off.                   *)
PelAgrees ==
    \A o \in Objects : \A grp \in GroupsOf(o) :
       LET sum == PendingSummary(grp)
           all == PendingDetailed(grp, Lowest, Highest, 0, Consumer)
       IN  /\ \A i \in DOMAIN grp.pel : /\ grp.pel[i] \in DOMAIN grp.consumers
                                       /\ i \in DOMAIN grp.consumers[grp.pel[i]]
           /\ grp.moved # "back" =>
                \A c \in DOMAIN grp.consumers :
                   DOMAIN grp.consumers[c] = {i \in DOMAIN grp.pel : grp.pel[i] = c}
           /\ all # << >> =>
                /\ sum.total = Len(all)
                /\ sum.min = Head(all) /\ sum.max = Last(all)
                /\ \A c \in Consumer : sum.counts[c] =
                     Len(PendingDetailed(grp, Lowest, Highest, 0, {c}))
                /\ PendingDetailed(grp, Lowest, Highest, 1, Consumer) = <<sum.min>>

Numbers(entries) == [i \in DOMAIN entries |-> entries[i].n]

(* The file only adds entries, all with "*" for their IDs; or it is all with *)
(* explicit IDs, or all with given milliseconds, which increase, and the     *)
(* snapshot holds what a beginning of the file has added.                    *)
OnlyAdds(aof, rdb) ==
    /\ \A i \in DOMAIN aof : aof[i].op = "XADD" /\ aof[i].maxlen < 0
    /\ \/ \A i \in DOMAIN aof : aof[i].id.form = "auto"
       \/ /\ \/ \A i \in DOMAIN aof : /\ aof[i].id.form = "explicit"
                                      /\ i > 1 => Before(aof[i - 1].id.id, aof[i].id.id)
             \/ \A i \in DOMAIN aof : /\ aof[i].id.form = "partial"
                                      /\ i > 1 => aof[i - 1].id.m <= aof[i].id.m
          /\ rdb # << >> => IsPrefix(Numbers(rdb[1]), Numbers(aof))

(* docs/production-hardening.md:77: the append-only file is the "journal for *)
(* complete persistence".  A restart would lose no entry of a stream in the  *)
(* file.  The file is executed on top of a snapshot that was taken at any    *)
(* time, so what is in both is added again: refused if its ID is explicit,   *)
(* and under another ID if it is not.  That makes no later entry be refused, *)
(* and with explicit IDs the stream is the one of the file.  Exempt are      *)
(* files that remove entries or mix the forms of IDs, and snapshots with an  *)
(* entry that was not logged before the crash or without one that was lost   *)
(* when two clients made the stream: there entries of the file can be lost.  *)
RestartKeeps ==
    LET ks == NewEngine(MaxMillis)
    IN  (/\ disk.aof # << >> /\ OnlyAdds(disk.aof, disk.rdb)
         /\ \A o \in Objects \cup ToSet(ks) : ~o.wrapped)
        => /\ ToSet(Numbers(disk.aof)) \subseteq ToSet(Numbers(ks[1].entries))
           /\ disk.aof[1].id.form = "explicit" =>
                Numbers(ks[1].entries) = Numbers(disk.aof)

(* XREAD with "$" answers only entries added after it was sent, however the  *)
(* stream was emptied, deleted or made again in the meantime.                *)
DollarOnlyNew ==
    \A c \in Client :
       LET m == client[c]
       IN  (/\ m.pc = "do" /\ m.cmd.op = "XREAD"
            /\ m.cmd.id = Dollar /\ ~heap[m.s].wrapped)
             => \A e \in ToSet(Read(heap[m.s], m.from, m.cmd.count)) : e.n > m.since

Waiting(c) == client[c] # Idle /\ client[c].cmd.op \in Reads

HasAnswer(c) ==
    Waiting(c) /\ key # 0 /\
      LET m == client[c].cmd
          o == heap[key]
      IN  IF m.op = "XREAD" THEN Read(o, client[c].from, m.count) # << >>
          ELSE m.g \in DOMAIN o.groups => GroupResult(o.groups[m.g], o, m)

(* A blocked XREAD or XREADGROUP does not sleep for ever next to entries it  *)
(* could answer, although its waiter may be registered with a stream that is *)
(* no longer the one under the key; a read without BLOCK, or with a          *)
(* deadline, ends; and reads that ended, by an answer or by their deadline,  *)
(* leave no waiter behind in any stream.                                     *)
ReadsEnd ==
    /\ \A c \in Client :
         /\ []<>~HasAnswer(c)
         /\ []<>~(Waiting(c) /\ client[c].cmd.block # "ever")
    /\ [](\A s \in 1 .. Len(heap) : \A c \in heap[s].waiters :
            client[c] # Idle /\ client[c].pc = "sleep" /\ client[c].s = s)
=============================================================================
