----------------------------- MODULE Rebalance -----------------------------
(***************************************************************************)
(* The rebalance command of the command line tool (handleClusterRebalance  *)
(* of cmd/vortex-cli/main.go, ExecuteRebalancePlan and migrateSlotKeys of  *)
(* internal/cluster/rebalancer.go) at work on a running cluster: it reads  *)
(* the slots of the masters from one process, plans with module SlotPlan,  *)
(* and moves slot after slot, a command at a time, while the heartbeats of *)
(* module ClusterBus go on.  The tool ignores every error answer, and      *)
(* leaves out a process that does not accept its connection.  Processes do *)
(* not stop while it works.                                                *)
(*                                                                         *)
(* Answers are read line by line.  A bulk string is a "$" line and the     *)
(* line with its payload; other answers are one line.  unread is what a    *)
(* donor has answered and the tool has not read: the keys of a slot are    *)
(* not read to the end before the first GET is sent, so the tool may take  *)
(* the name of a key for the answer to a GET, and a payload for a "$" or   *)
(* "*" line if it looks like one.  All values are strings that fit the     *)
(* buffer of the reader, and none of them is the name of a key.            *)
(*                                                                         *)
(* start has one more field here: keys, those that may be stored.          *)
(***************************************************************************)
EXTENDS ClusterBus, SlotPlan

CONSTANTS Key,                \* keys
          KeySlot,            \* the slot of each
          Value,              \* values
          Stored,             \* the value of each key
          Odd,                \* keys and values with a "$" or "*" in their text
          MaxList             \* keys asked for with GETKEYSINSLOT (100)

ASSUME MoveAssumption == /\ Slot = 0 .. NumSlots - 1 /\ MaxList \in Nat
                         /\ KeySlot \in [Key -> Slot]
                         /\ Key \cap Value = {} /\ None \notin Key \cup Value
                         /\ Stored \in [Key -> Value]
                         /\ Odd \subseteq Key \cup Value

VARIABLES pc,         \* what the tool does next
          plan,         \* the moves
          at,           \* the one it is working at
          store,        \* the value of each key on each process
          unread,       \* lines of each process the tool has not read
          todo,         \* keys announced by the donor, not yet handled
          key, val,     \* the key and the value being moved
          misread       \* history: a payload was taken for a header

data == <<store, unread, todo, key, val, misread>>
tool == <<pc, plan, at, data>>
allVars == <<vars, tool>>

Bulk(w) == <<[kind |-> "$", word |-> w], [kind |-> "body", word |-> w]>>
One(k) == <<[kind |-> k, word |-> None]>>

Donor == Home[plan[at].from]
Receiver == Home[plan[at].to]
Moved == plan[at].slot

(* The cluster guard of ExecuteCommandWithSession: any other node answers   *)
(* MOVED or CLUSTERDOWN, an importing one included.                         *)
Serves(p, s) == view[p].owner[s] = id[p]

(* The nodes that serve their slots hold any of the keys. *)
InitMove == /\ Init
            /\ pc = "analyze" /\ plan = << >> /\ at = 1
            /\ \E K \in SUBSET start.keys :
                 store = [p \in Proc |-> [k \in Key |->
                            IF k \in K /\ Serves(p, KeySlot[k]) THEN Stored[k] ELSE None]]
            /\ unread = [p \in Proc |-> << >>]
            /\ todo = 0 /\ key = None /\ val = None /\ misread = FALSE

Cluster == UNCHANGED <<view, conf>> /\ Quiet

(* The masters of a CLUSTER NODES answer, failed ones among them, in the    *)
(* order of their IDs.                                                      *)
MastersOf(v) ==
  LET ids == SetToSortSeq(Masters(v), LAMBDA m, n : Rank[m] < Rank[n])
  IN  [i \in DOMAIN ids |->
         [id |-> ids[i], slots |-> ParseSlotRanges(SlotRangesString(v.bits[ids[i]]))]]

(* handleClusterRebalance: no plan for a single master, nothing to do if    *)
(* there are no moves; the user may decline.                                *)
Analyze(seed) ==
  /\ pc = "analyze" /\ seed \in Up
  /\ LET masters == MastersOf(view[seed])
         moves == IF Len(masters) < 2 THEN << >> ELSE ComputeRebalancePlan(masters)
     IN  /\ plan' = moves
         /\ \/ moves = << >> /\ pc' = "done"
            \/ moves # << >> /\ pc' \in {"importing", "declined"}
  /\ UNCHANGED <<at, data>> /\ Cluster

(* ExecuteRebalancePlan.  SETSLOT IMPORTING on the receiver. *)
Importing ==
  /\ pc = "importing" /\ pc' = "migrating"
  /\ IF Receiver \in Up /\ plan[at].from \in view[Receiver].known
     THEN SetView(Receiver, SetSlotImporting(view[Receiver], Moved, plan[at].from))
     ELSE UNCHANGED view
  /\ UNCHANGED <<conf, plan, at, data>> /\ Quiet

(* getConn: the reader made for a connection that exists already does not   *)
(* see what the one before it has buffered, which may end inside a line.    *)
Reread(lines) == {SubSeq(lines, i, Len(lines)) : i \in 1 .. Len(lines) + 1} \cup
                 {One("other") \o SubSeq(lines, i, Len(lines)) : i \in 2 .. Len(lines) + 1}

(* SETSLOT MIGRATING on the donor, and the line taken for its answer. *)
Migrating ==
  /\ pc = "migrating"
  /\ pc' = IF {Donor, Receiver} \subseteq Up THEN "list" ELSE "node"
  /\ \/ /\ Donor \in Up
        /\ IF CanSetSlotMigrating(view[Donor], id[Donor], Moved, plan[at].to)
           THEN SetView(Donor, SetSlotMigrating(view[Donor], Moved, plan[at].to))
           ELSE UNCHANGED view
        /\ \E lines \in Reread(unread[Donor]) :
             unread' = [unread EXCEPT ![Donor] = Tail(lines \o One("other"))]
     \/ Donor \notin Up /\ UNCHANGED <<view, unread>>
  /\ UNCHANGED <<conf, plan, at, store, todo, key, val, misread>> /\ Quiet

(* The tool looks only at the first byte of a line, so a payload may pass   *)
(* for a header.                                                            *)
LooksLikeHeader(line) == line.kind = "body" /\ line.word \in Odd

(* The tool has read n of the lines. *)
HasRead(lines, n) ==
  unread' = [unread EXCEPT ![Donor] = SubSeq(lines, n + 1, Len(lines))]

(* A payload is taken for a "$" line.  What follows the "$" is taken for a  *)
(* length: the tool panics, if there can be no such buffer, waits for ever, *)
(* if no line follows, or reads that much and the rest of the line it ends  *)
(* in.                                                                      *)
Misread(lines, next) ==
  /\ LooksLikeHeader(Head(lines)) /\ misread' = TRUE
  /\ \/ pc' = "stuck" /\ HasRead(lines, 1)
     \/ pc' = next /\ \E n \in 2 .. Len(lines) : HasRead(lines, n)

(* migrateSlotKeys.  GETKEYSINSLOT, answered in the order of a map walk.  A *)
(* line that is no array header is taken for an error.                      *)
ListKeys ==
  LET here == {k \in Key : KeySlot[k] = Moved /\ store[Donor][k] # None}
      n == Min({MaxList, Cardinality(here)})
  IN  /\ pc = "list" /\ pc' = "key"
      /\ \E f \in [1 .. n -> here] :
           /\ \A i, j \in 1 .. n : f[i] = f[j] => i = j
           /\ LET lines == unread[Donor] \o <<[kind |-> "*", word |-> n]>>
                           \o FlattenSeq([i \in 1 .. n |-> Bulk(f[i])])
              IN  /\ HasRead(lines, 1)
                  /\ \/ /\ Head(lines).kind = "*" /\ todo' = Head(lines).word
                        /\ UNCHANGED misread
                     \/ /\ LooksLikeHeader(Head(lines)) /\ todo' \in 0 .. MaxList
                        /\ misread' = TRUE
                     \/ /\ Head(lines).kind # "*" /\ todo' = 0
                        /\ UNCHANGED misread
      /\ UNCHANGED <<plan, at, store, key, val>> /\ Cluster


(* The next key is read, or waited for.  A line that starts no bulk string  *)
(* is skipped; "$-1" makes the tool panic.                                  *)
ReadKey ==
  LET lines == unread[Donor]
  IN  /\ pc = "key" /\ todo > 0 /\ lines # << >>
      /\ \/ /\ Head(lines).kind = "$"
            /\ key' = Head(lines).word /\ pc' = "get" /\ HasRead(lines, 2)
            /\ UNCHANGED <<todo, misread>>
         \/ Misread(lines, "get") /\ key' = None /\ UNCHANGED todo
         \/ /\ Head(lines).kind = "nil" /\ pc' = "stuck"
            /\ UNCHANGED <<todo, key, unread, misread>>
         \/ /\ Head(lines).kind \notin {"$", "nil"}
            /\ todo' = todo - 1 /\ HasRead(lines, 1)
            /\ UNCHANGED <<pc, key, misread>>
      /\ UNCHANGED <<plan, at, store, val>> /\ Cluster

(* What GET answers.  A word that is no key is not found, or belongs to a   *)
(* slot of another node.                                                    *)
GetAnswers == IF key \notin Key THEN {One("nil"), One("other")}
              ELSE IF ~Serves(Donor, KeySlot[key]) THEN {One("other")}
              ELSE IF store[Donor][key] = None THEN {One("nil")}
              ELSE {Bulk(store[Donor][key])}

(* The answer is read; a negative length is no value. *)
GetValue ==
  /\ pc = "get"
  /\ \E answer \in GetAnswers :
       LET lines == unread[Donor] \o answer
       IN  \/ /\ Head(lines).kind = "$"
              /\ val' = Head(lines).word /\ pc' = "set" /\ HasRead(lines, 2)
              /\ UNCHANGED <<todo, misread>>
           \/ Misread(lines, "set") /\ val' = Head(lines).word /\ UNCHANGED todo
           \/ /\ Head(lines).kind # "$"
              /\ todo' = todo - 1 /\ pc' = "key" /\ HasRead(lines, 1)
              /\ UNCHANGED <<val, misread>>
  /\ UNCHANGED <<plan, at, store, key>> /\ Cluster

SetOnReceiver == /\ pc = "set" /\ pc' = "del"
                 /\ store' = IF key \in Key /\ Serves(Receiver, KeySlot[key])
                             THEN [store EXCEPT ![Receiver][key] = val]
                             ELSE store
                 /\ UNCHANGED <<plan, at, unread, todo, key, val, misread>> /\ Cluster

(* A line that is not looked at is read for an answer of the donor. *)
SkipAnswer == unread' = [unread EXCEPT ![Donor] = Tail(@ \o One("other"))]

DelOnDonor == /\ pc = "del" /\ pc' = "key"
              /\ store' = IF key \in Key /\ Serves(Donor, KeySlot[key])
                          THEN [store EXCEPT ![Donor][key] = None]
                          ELSE store
              /\ SkipAnswer
              /\ todo' = todo - 1
              /\ UNCHANGED <<plan, at, key, val, misread>> /\ Cluster

(* SETSLOT NODE on the receiver, then on the donor. *)
NodeOn(p) == /\ IF p \in Up /\ plan[at].to \in view[p].known
                THEN SetViewAndSave(p, SetSlotNode(view[p], Moved, plan[at].to))
                ELSE UNCHANGED <<view, conf>>
             /\ UNCHANGED <<plan, store, todo, key, val, misread>> /\ Quiet

NodeOnReceiver == /\ pc = "node" \/ (pc = "key" /\ todo = 0)
                  /\ pc' = "last"
                  /\ NodeOn(Receiver)
                  /\ UNCHANGED <<at, unread>>

NextMoveOrEnd == /\ at' = at + 1
                 /\ pc' = IF at = Len(plan) THEN "done" ELSE "importing"

NodeOnDonor == /\ pc = "last" /\ NextMoveOrEnd
               /\ NodeOn(Donor)
               /\ IF Donor \in Up THEN SkipAnswer ELSE UNCHANGED unread

Move == \/ \E seed \in Up : Analyze(seed)
        \/ Importing \/ Migrating \/ ListKeys \/ ReadKey \/ GetValue
        \/ SetOnReceiver \/ DelOnDonor \/ NodeOnReceiver \/ NodeOnDonor

NextMove == Move \/ (Next /\ UNCHANGED tool)

SpecMove == InitMove /\ [][NextMove]_allVars
-----------------------------------------------------------------------------
(* A move that has taken hold stays so.  SETSLOT NODE raises no epoch, so a *)
(* heartbeat the donor has sent before it takes the slot back from the      *)
(* receiver, and since the donor does not claim it either any more, nobody  *)
(* serves it from then on.  But once the tool is through with a slot and no *)
(* such packet is on its way, nothing takes it from the receiver: no        *)
(* heartbeat or answer of a process with old tables and no later move.      *)
Settled(k) ==
  /\ k < at /\ {Home[plan[k].from], Home[plan[k].to]} \subseteq Up
  /\ Serves(Home[plan[k].to], plan[k].slot)
  /\ \A m \in msgs : m.pkt.src # plan[k].to => plan[k].slot \notin m.pkt.slots

MoveSettles == [][\A k \in DOMAIN plan : Settled(k) => Settled(k)']_allVars


(* "Cluster rebalance successfully completed" (cmd/vortex-cli/main.go:258): *)
(* with nothing else going on every master ends with its share, or if there *)
(* are slots without an owner with no more than that.  The plans of the     *)
(* operator agree with it (module SlotPlan).                                *)
PlanBalances ==
  /\ OperatorPlans
  /\ pc = "done" /\ MaxMsgs = 0 /\ start.dead = {} =>
       LET ids == SetToSortSeq({id[p] : p \in Up}, LAMBDA m, n : Rank[m] < Rank[n])
           served(i) == Cardinality({s \in Slot : Serves(Home[ids[i]], s)})
       IN  \A i \in DOMAIN ids :
             /\ served(i) <= Share(Len(ids), i)
             /\ (\A s \in Slot : \E p \in Up : Serves(p, s)) =>
                   served(i) = Share(Len(ids), i)

(* docs/cluster.md:280, "Moves stored keys across slots": at every moment a *)
(* key the donor held is found on one of the two.                           *)
KeysKept ==
  [][\A k \in Key : (\E p \in Proc : store[p][k] # None)
        => \E p \in Proc : store'[p][k] # None]_allVars
=============================================================================
