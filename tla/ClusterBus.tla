----------------------------- MODULE ClusterBus -----------------------------
(***************************************************************************)
(* A cluster of vortexkv processes: the commands operators send to them,   *)
(* the heartbeats they exchange, the failure detector, elections, and      *)
(* restarts.  Each process has a view (module ClusterView) under its own   *)
(* mutex; a step is one critical section.  Packets travel on a TCP         *)
(* connection of their own each, so they are delivered in any order, or    *)
(* not at all, and never twice.                                            *)
(***************************************************************************)
EXTENDS ClusterView

CONSTANTS Proc,       \* server processes (addresses)
          Home,         \* the address each node identifier is drawn for
          FirstId,      \* the identifier of each process at the start
          Starts        \* the situations a behaviour may start from

ASSUME HomeAssumption == /\ Home \in [Node -> Proc]
                         /\ FirstId \in [Proc -> Node]
                         /\ \A p \in Proc : Home[FirstId[p]] = p

VARIABLES start,        \* the one it has started from, but for the views
          id,           \* Self.ID of each process
          used,         \* the identifiers drawn so far
          view,         \* the view of each process
          conf,         \* the nodes.conf of each process, None if missing
          msgs,         \* packets in flight
          meets,        \* CLUSTER MEET commands a process is to carry out
          texts,        \* CLUSTER NODES replies read by a Meet, not yet merged
          failing,      \* BroadcastFail goroutines about to run
          spawned,      \* RunFailoverElection goroutines about to run
          polls,        \* elections waiting for votes
          grants        \* history: votes granted

vars == <<start, id, used, view, conf, msgs, meets, texts, failing, spawned,
          polls, grants>>
tables == <<start, id, used>>
meeting == <<meets, texts>>
electing == <<spawned, polls, grants>>

Up == start.member \ start.dead  \* the processes that run
Ops == start.ops                 \* the operator commands issued
MaxMsgs == start.msgs            \* bound: packets and texts in flight
MaxEpoch == start.epochs         \* bound: epochs

Init == /\ \E s \in Starts :
             /\ start = s.start
             /\ view = [p \in Proc |-> IF p \in s.start.member THEN s.view[p]
                                      ELSE NewView(FirstId[p])]
        /\ id = FirstId
        /\ used = {FirstId[p] : p \in start.member}
        /\ conf = [p \in Proc |-> IF view[p] = NewView(FirstId[p]) THEN None
                                 ELSE NodesText(view[p], FirstId[p])]
        /\ msgs = {} /\ meets = {} /\ texts = {}
        /\ failing = [p \in Proc |-> {}]
        /\ spawned = [p \in Proc |-> {}]
        /\ polls = [p \in Proc |-> {}]
        /\ grants = {}

(* Process p's view becomes v, and is saved. *)
SetView(p, v) == view' = [view EXCEPT ![p] = v]
SetViewAndSave(p, v) == /\ SetView(p, v)
                        /\ conf' = [conf EXCEPT ![p] = NodesText(v, id[p])]

Peers(p) == view[p].known \ {id[p]}

Send(m) == Cardinality(msgs) < MaxMsgs /\ msgs' = msgs \cup {m}
Message(p, n, pkt) == [to |-> Home[n], from |-> p, as |-> n, pkt |-> pkt]
-----------------------------------------------------------------------------
(* Commands.  Those that change the configuration save it before they       *)
(* answer.                                                                  *)

Quiet == UNCHANGED <<tables, msgs, meets, texts, failing, spawned, polls,
                     grants>>

ClusterAddSlots(p, S) == /\ "addslots" \in Ops
                         /\ CanAddSlots(view[p], id[p], S)
                         /\ SetViewAndSave(p, AddSlots(view[p], id[p], S))
                         /\ Quiet

ClusterDelSlots(p, S) == /\ "delslots" \in Ops
                         /\ CanDelSlots(view[p], id[p], S)
                         /\ SetViewAndSave(p, DelSlots(view[p], id[p], S))
                         /\ Quiet

ClusterSetSlotNode(p, s, n) == /\ "setslot" \in Ops
                               /\ n \in view[p].known
                               /\ SetViewAndSave(p, SetSlotNode(view[p], s, n))
                               /\ Quiet

(* The migration marks are kept in memory only. *)
ClusterSetSlotMark(p, s, n) ==
  /\ "mark" \in Ops
  /\ \/ /\ CanSetSlotMigrating(view[p], id[p], s, n)
        /\ SetView(p, SetSlotMigrating(view[p], s, n))
     \/ /\ n \in view[p].known
        /\ SetView(p, SetSlotImporting(view[p], s, n))
     \/ SetView(p, SetSlotStable(view[p], s))
  /\ UNCHANGED conf
  /\ Quiet

ClusterForget(p, n) == /\ "forget" \in Ops
                       /\ n \in Peers(p)
                       /\ SetViewAndSave(p, RemoveNode(view[p], n))
                       /\ Quiet

ClusterReplicate(p, n) == /\ "replicate" \in Ops
                          /\ CanReplicate(view[p], id[p], n)
                          /\ SetViewAndSave(p, Replicate(view[p], id[p], n))
                          /\ Quiet

ClusterSaveConfig(p) == /\ "saveconfig" \in Ops
                        /\ SetViewAndSave(p, view[p])
                        /\ Quiet
-----------------------------------------------------------------------------
(* CLUSTER MEET.  The node table of the peer is read, and the peer told to  *)
(* MEET back, without the mutex; the table is merged later, under it.       *)

ClusterMeet(p, q) == /\ "meet" \in Ops
                     /\ p # q
                     /\ meets' = meets \cup {<<p, q>>}
                     /\ UNCHANGED <<view, conf, tables, msgs, texts, failing,
                                    electing>>

MeetRead(p, q) == /\ <<p, q>> \in meets /\ q \in Up
                  /\ Cardinality(texts) < MaxMsgs
                  /\ texts' = texts \cup {[at |-> p, of |-> q,
                                  text |-> NodesText(view[q], id[q])]}
                  /\ meets' = (meets \ {<<p, q>>}) \cup {<<q, p>>}
                  /\ UNCHANGED <<view, conf, tables, msgs, failing, electing>>

MeetMerge(t) == /\ SetViewAndSave(t.at, MergeNodes(view[t.at], id[t.at], t.text))
                /\ texts' = texts \ {t}
                /\ UNCHANGED <<tables, msgs, meets, failing, electing>>

(* The peer cannot be reached: unless its address is known already, it is   *)
(* entered under an identifier drawn here.                                  *)
MeetUnreachable(p, q) ==
  /\ <<p, q>> \in meets
  /\ meets' = meets \ {<<p, q>>}
  /\ \/ /\ \E n \in view[p].known : Home[n] = q
        /\ SetViewAndSave(p, view[p])
        /\ UNCHANGED used
     \/ /\ \A n \in view[p].known : Home[n] # q
        /\ \E n \in Node \ used :
             /\ Home[n] = q
             /\ SetViewAndSave(p, [view[p] EXCEPT !.known = @ \cup {n}])
             /\ used' = used \cup {n}
  /\ UNCHANGED <<start, id, msgs, texts, failing, electing>>
-----------------------------------------------------------------------------
(* Heartbeats and the packets they bring. *)

(* The orders in which the audit may walk the nodes that matter to it. *)
Orders(v) ==
  LET S == IF v.pfail = {} THEN {} ELSE Masters(v) \cup v.pfail
  IN  {f \in [S -> 1 .. Cardinality(S)] : \A m, n \in S : f[m] = f[n] => m = n}

(* heartbeatStep at p.  The pings to all healthy peers are sent from one    *)
(* goroutine each; the step shows the one that gets through, if any.        *)
Heartbeat(p, silent) ==
  LET w == Suspect(view[p], id[p], silent)
  IN  \E up \in {Elevated(w, id[p], ord) : ord \in Orders(w)} :
        LET v == Elevate(w, up)
        IN  /\ SetView(p, v)
            /\ failing' = [failing EXCEPT ![p] = @ \cup up]
            /\ spawned' = [spawned EXCEPT ![p] =
                  IF ShouldFailover(v, id[p]) THEN @ \cup {v.master[id[p]]}
                  ELSE @]
            /\ \/ \E n \in Peers(p) \ v.fail :
                     Send(Message(p, n, SelfPacket(v, id[p], "ping")))
               \/ UNCHANGED msgs
            /\ UNCHANGED <<conf, tables, meeting, polls, grants>>

(* BroadcastFail, in a goroutine started by the heartbeat. *)
BroadcastFail(p, f) ==
  /\ f \in failing[p]
  /\ failing' = [failing EXCEPT ![p] = @ \ {f}]
  /\ LET D == Peers(p) \ view[p].fail
     IN  \E E \in SUBSET D :
           /\ Cardinality(msgs) + Cardinality(E) <= MaxMsgs
           /\ msgs' = msgs \cup
                {Message(p, n, BarePacket(view[p], id[p], "fail", f, 0)) :
                   n \in E}
  /\ UNCHANGED <<view, conf, tables, meeting, electing>>

Reply(m, pkt) == [to |-> m.from, from |-> m.to, as |-> m.as, pkt |-> pkt]

(* handleBusConn, and the end of sendPingToPeer: a packet is processed, and *)
(* the answer goes back on the same connection.                             *)
Deliver(m) ==
  LET p == m.to
      granted == Grants(Sync(view[p], id[p], m.pkt), id[p], m.pkt)
      v == ProcessPacket(view[p], id[p], m.pkt)
  IN  /\ m.pkt.type # "authack" /\ p \in Up
      /\ IF granted THEN SetViewAndSave(p, v)
         ELSE SetView(p, v) /\ UNCHANGED conf
      /\ msgs' = (msgs \ {m}) \cup
            (CASE m.pkt.type = "ping" ->
                    {Reply(m, SelfPacket(v, id[p], "pong"))}
               [] granted ->
                    {Reply(m, BarePacket(v, id[p], "authack", m.pkt.src,
                                         m.pkt.req))}
               [] OTHER -> {})
      /\ grants' = IF granted
                   THEN grants \cup {[by |-> id[p], to |-> m.pkt.src,
                                      epoch |-> m.pkt.req]}
                   ELSE grants
      /\ UNCHANGED <<tables, meeting, failing, spawned, polls>>

Lose(m) == /\ msgs' = msgs \ {m}
           /\ UNCHANGED <<view, conf, tables, meeting, failing, electing>>
-----------------------------------------------------------------------------
(* RunFailoverElection, in a goroutine started by the heartbeat.            *)

StartElection(p, f) ==
  LET v == [view[p] EXCEPT !.epoch = @ + 1]
      asked == ActiveMasters(v)
  IN  /\ f \in spawned[p]
      /\ spawned' = [spawned EXCEPT ![p] = @ \ {f}]
      /\ \/ /\ view[p].role[id[p]] # "slave"
            /\ UNCHANGED <<view, msgs, polls>>
         \/ /\ view[p].role[id[p]] = "slave"
            /\ v.epoch <= MaxEpoch
            /\ SetView(p, v)
            /\ polls' = [polls EXCEPT ![p] = @ \cup
                 {[target |-> f, epoch |-> v.epoch, masters |-> asked,
                   waiting |-> asked, votes |-> {}]}]
            /\ Cardinality(msgs) + Cardinality(asked) <= MaxMsgs
            /\ msgs' = msgs \cup
                 {Message(p, n, BarePacket(v, id[p], "authreq", f, v.epoch)) :
                    n \in asked}
      /\ UNCHANGED <<conf, tables, meeting, failing, grants>>

(* A vote arrives while its election still waits for it. *)
CountVote(m, e) ==
  LET p == m.to
  IN  /\ m.pkt.type = "authack"
      /\ m.as \in e.waiting
      /\ m.pkt.target = id[p] /\ m.pkt.req = e.epoch
      /\ polls' = [polls EXCEPT ![p] = (@ \ {e}) \cup
            {[e EXCEPT !.waiting = @ \ {m.as}, !.votes = @ \cup {m.as}]}]
      /\ msgs' = msgs \ {m}
      /\ UNCHANGED <<view, conf, tables, meeting, failing, spawned, grants>>

(* All answers are in, or the deadlines of the connections have passed. *)
EndElection(p, e) ==
  LET wins == 1 + Cardinality(e.votes) >= VotesNeeded(e.masters)
      v == PromoteReplica(view[p], id[p], e.target)
  IN  /\ polls' = [polls EXCEPT ![p] = @ \ {e}]
      /\ \/ /\ wins /\ view[p].role[id[p]] # "master"
            /\ SetViewAndSave(p, v)
            /\ \/ \E n \in Peers(p) \ v.fail :
                     Send(Message(p, n, SelfPacket(v, id[p], "pong")))
               \/ UNCHANGED msgs
         \/ /\ ~(wins /\ view[p].role[id[p]] # "master")
            /\ UNCHANGED <<view, conf, msgs>>
      /\ UNCHANGED <<tables, meeting, failing, spawned, grants>>
-----------------------------------------------------------------------------
(* A process stops and starts again.  Its connections and goroutines are    *)
(* gone, and NewClusterManager draws a new identifier.                      *)
Restart(p) ==
  /\ "restart" \in Ops
  /\ \E n \in Node \ used :
       /\ Home[n] = p
       /\ id' = [id EXCEPT ![p] = n]
       /\ used' = used \cup {n}
       /\ SetView(p, IF conf[p] = None THEN NewView(n)
                     ELSE LoadConfig(n, conf[p]))
  /\ msgs' = {m \in msgs : m.to # p \/ m.pkt.type \notin {"pong", "authack"}}
  /\ meets' = {x \in meets : x[1] # p}
  /\ texts' = {t \in texts : t.at # p}
  /\ failing' = [failing EXCEPT ![p] = {}]
  /\ spawned' = [spawned EXCEPT ![p] = {}]
  /\ polls' = [polls EXCEPT ![p] = {}]
  /\ UNCHANGED <<start, conf, grants>>

Command(p) ==
  \/ \E s \in Slot : ClusterAddSlots(p, {s}) \/ ClusterDelSlots(p, {s})
  \/ \E s \in Slot, n \in Node : \/ ClusterSetSlotNode(p, s, n)
                                  \/ ClusterSetSlotMark(p, s, n)
  \/ \E n \in Node : ClusterForget(p, n) \/ ClusterReplicate(p, n)
  \/ ClusterSaveConfig(p)

Meet == \/ \E p \in Up, q \in start.member :
              \/ ClusterMeet(p, q) \/ MeetRead(p, q) \/ MeetUnreachable(p, q)
        \/ \E t \in texts : MeetMerge(t)

Beat(p) == \E silent \in SUBSET start.silent : Heartbeat(p, silent)

Election(p) == \/ \E f \in spawned[p] : StartElection(p, f)
               \/ \E e \in polls[p] : EndElection(p, e)

Next == \/ \E p \in Up :
             \/ Command(p) \/ Beat(p) \/ Election(p) \/ Restart(p)
             \/ \E f \in failing[p] : BroadcastFail(p, f)
        \/ Meet
        \/ \E m \in msgs : \/ Deliver(m) \/ Lose(m)
                           \/ \E e \in polls[m.to] : CountVote(m, e)

Spec == Init /\ [][Next]_vars

(* What the code's scheduling and TCP give: heartbeats go on (gossipLoop)   *)
(* and reach every healthy peer again and again, not all of the packets     *)
(* from one process to another are lost, elections take their steps, and a  *)
(* vote nobody waits for goes when its connection is closed.  (Fairness of  *)
(* an election is strong since the bound on packets may disable its step.)  *)
Pings(p, q) == Heartbeat(p, {}) /\ \E m \in msgs' \ msgs : m.to = q
Delivers(p, q) == \E m \in msgs : m.from = p /\ m.to = q /\ Deliver(m)

Fairness(P) == /\ \A p \in P : WF_vars(Beat(p)) /\ SF_vars(Election(p))
               /\ \A p, q \in P : SF_vars(Pings(p, q)) /\ SF_vars(Delivers(p, q))
               /\ WF_vars(\E m \in msgs : m.pkt.type = "authack" /\ Lose(m))

-----------------------------------------------------------------------------
Text == [self : Node, nodes : SUBSET Node, role : [Node -> Role],
         master : [Node -> Node \cup {None}], slots : [Node -> SUBSET Slot],
         epoch : Nat]

Wire == [to : Proc, from : Proc, as : Node, pkt : Packet]

Poll == [target : Node, epoch : Nat, masters : SUBSET Node,
         waiting : SUBSET Node, votes : SUBSET Node]

(* Type invariant of the cluster. *)
TypeInv ==
  /\ id \in [Proc -> Node] /\ used \subseteq Node
  /\ view \in [Proc -> View]
  /\ conf \in [Proc -> Text \cup {None}]
  /\ msgs \subseteq Wire
  /\ meets \subseteq Proc \X Proc
  /\ texts \subseteq [at : Proc, of : Proc, text : Text]
  /\ failing \in [Proc -> SUBSET Node]
  /\ spawned \in [Proc -> SUBSET Node]
  /\ polls \in [Proc -> SUBSET Poll]
  /\ grants \subseteq [by : Node, to : Node, epoch : Nat]

(* The slot map and the node table of a process agree: the node a slot is   *)
(* routed to (GetSlotOwner, the MOVED redirection) is a known node, and has *)
(* the slot in its own bitmap, from which CLUSTER NODES, nodes.conf,        *)
(* RemoveNode, Replicate and PromoteReplica work.                           *)
OwnerHasBit ==
  \A p \in Proc, s \in Slot :
     view[p].owner[s] # None =>
        /\ view[p].owner[s] \in view[p].known
        /\ s \in view[p].bits[view[p].owner[s]]

(* A process that was never told to MEET claims in its heartbeats           *)
(* (buildSelfPacketLocked) only slots it serves itself: no peer learns from *)
(* it that it owns a slot for which it would answer MOVED.                  *)
ClaimsOnlyServed ==
  "meet" \notin Ops =>
    \A p \in Proc, s \in Slot :
       s \in view[p].bits[id[p]] => view[p].owner[s] = id[p]

(* A master votes for one candidate in an epoch (the comment at             *)
(* gossip.go:178), whatever was lost or delayed and whoever else restarts,  *)
(* for as long as it runs.  Its own restart forgets the vote: nodes.conf    *)
(* has the epoch but always 0 for the last vote (cluster.go:566), which is  *)
(* not read back either, so the process, which has another identifier then, *)
(* may vote a second time in the epoch; the model shows it do so.           *)
VotesOnce ==
  \A g, h \in grants : g.by = h.by /\ g.epoch = h.epoch => g.to = h.to

(* A slot of a stopped master is taken over for good: in the end every      *)
(* running process routes it to a node whose process is running.            *)
TakenOver ==
  \A p \in Proc, s \in Slot :
     <>[](p \in Up => view[p].owner[s] # None /\ Home[view[p].owner[s]] \in Up)
=============================================================================
