----------------------------- MODULE ClusterView -----------------------------
(***************************************************************************)
(* What one node knows of the cluster, and how each operation of           *)
(* internal/cluster changes it.  A view stands for the fields of a         *)
(* ClusterManager; every operator here is one critical section of its      *)
(* mutex, a function from the view before to the view after.  The modules  *)
(* that put several nodes together (ClusterBus) apply them.                *)
(*                                                                         *)
(*   known    the keys of Nodes, the node itself (Self) among them         *)
(*   role, master, bits                                                    *)
(*            Role, MasterID and Slots of each entry of Nodes; a node that *)
(*            is not known has role master, no master and no bits, which   *)
(*            is what NewNode gives it when it is registered               *)
(*   owner    SlotMap                                                      *)
(*   mig, imp MigratingSlots and ImportingSlots                            *)
(*   epoch, lastVote                                                       *)
(*            CurrentEpoch and LastVoteEpoch                               *)
(*   pfail, fail, reports                                                  *)
(*            PFail and Fail of each entry, and failReports                *)
(***************************************************************************)
EXTENDS Integers, FiniteSets

CONSTANTS Node,     \* node identifiers (40 random hex digits in the code)
          Slot,     \* hash slots
          None,     \* a nil pointer or an absent map entry
          Rank      \* the order of the identifiers as strings

ASSUME NoneAssumption == None \notin Node
ASSUME RankAssumption ==
  /\ Rank \in [Node -> Nat]
  /\ \A m, n \in Node : Rank[m] = Rank[n] => m = n

Role == {"master", "slave"}

View == [known  : SUBSET Node,
         role   : [Node -> Role],
         master : [Node -> Node \cup {None}],
         bits   : [Node -> SUBSET Slot],
         owner  : [Slot -> Node \cup {None}],
         mig    : [Slot -> Node \cup {None}],
         imp    : [Slot -> Node \cup {None}],
         epoch  : Nat,
         lastVote : Nat,
         pfail  : SUBSET Node,
         fail   : SUBSET Node,
         reports : [Node -> SUBSET Node]]

(* NewClusterManager, before it loads a configuration file. *)
NewView(me) ==
  [known  |-> {me},
   role   |-> [n \in Node |-> "master"],
   master |-> [n \in Node |-> None],
   bits   |-> [n \in Node |-> {}],
   owner  |-> [s \in Slot |-> None],
   mig    |-> [s \in Slot |-> None],
   imp    |-> [s \in Slot |-> None],
   epoch  |-> 1,
   lastVote |-> 0,
   pfail  |-> {},
   fail   |-> {},
   reports |-> [n \in Node |-> {}]]

Masters(v) == {n \in v.known : v.role[n] = "master"}
-----------------------------------------------------------------------------
(* Commands an operator sends to the node.                                  *)

CanAddSlots(v, me, S) == \A s \in S : v.owner[s] \in {None, me}

AddSlots(v, me, S) ==
  [v EXCEPT !.bits[me] = @ \cup S,
            !.owner = [s \in Slot |-> IF s \in S THEN me ELSE v.owner[s]]]

CanDelSlots(v, me, S) == \A s \in S : v.owner[s] = me

DelSlots(v, me, S) ==
  [v EXCEPT !.bits[me] = @ \ S,
            !.owner = [s \in Slot |-> IF s \in S THEN None ELSE v.owner[s]]]

(* Slots S pass to node t: the previous owner of each loses its bit. *)
Take(v, S, t) ==
  [v EXCEPT !.bits = [n \in Node |->
                        IF n = t THEN v.bits[n] \cup S
                        ELSE v.bits[n] \ {s \in S : v.owner[s] = n}],
            !.owner = [s \in Slot |-> IF s \in S THEN t ELSE v.owner[s]]]

(* Mutant: the bit of the previous owner stays. *)
SetSlotNodeKeepsBit(v, s, t) == [v EXCEPT !.bits[t] = @ \cup {s},
                                          !.owner[s] = t,
                                          !.mig[s] = None,
                                          !.imp[s] = None]

(* SETSLOT NODE, with the end of a migration. *)
SetSlotNode(v, s, t) == [Take(v, {s}, t) EXCEPT !.mig[s] = None,
                                               !.imp[s] = None]

CanSetSlotMigrating(v, me, s, t) == v.owner[s] = me /\ t \in v.known

SetSlotMigrating(v, s, t) == [v EXCEPT !.mig[s] = t]

SetSlotImporting(v, s, t) == [v EXCEPT !.imp[s] = t]

SetSlotStable(v, s) == [v EXCEPT !.mig[s] = None, !.imp[s] = None]

(* RemoveNode: slots whose bit the removed entry holds become unassigned.   *)
(* The failure reports about it stay.                                       *)
RemoveNode(v, t) ==
  [v EXCEPT !.known = @ \ {t},
            !.role[t] = "master",
            !.master[t] = None,
            !.bits[t] = {},
            !.owner = [s \in Slot |-> IF v.owner[s] = t /\ s \in v.bits[t]
                                      THEN None ELSE v.owner[s]],
            !.pfail = @ \ {t},
            !.fail = @ \ {t}]

CanReplicate(v, me, m) == m # me /\ m \in v.known /\ v.role[m] = "master"

(* Mutant: the slots are given up in the slot map only. *)
ReplicateKeepsBits(v, me, m) ==
  [v EXCEPT !.owner = [s \in Slot |-> IF v.owner[s] = me THEN None
                                      ELSE v.owner[s]],
            !.role[me] = "slave",
            !.master[me] = m]

Replicate(v, me, m) ==
  [v EXCEPT !.bits[me] = {},
            !.owner = [s \in Slot |-> IF v.owner[s] = me /\ s \in v.bits[me]
                                      THEN None ELSE v.owner[s]],
            !.role[me] = "slave",
            !.master[me] = m]
-----------------------------------------------------------------------------
(* The node table as text: what CLUSTER NODES prints and nodes.conf keeps.  *)
(* A line lists the slots of its node only if the node is a master, and     *)
(* health flags are printed but never read back.  The line of the node      *)
(* itself comes first, the others follow in the order of their identifiers. *)

NodesText(v, me) ==
  [self   |-> me,
   nodes  |-> v.known,
   role   |-> v.role,
   master |-> v.master,
   slots  |-> [n \in Node |-> IF n \in Masters(v) THEN v.bits[n] ELSE {}],
   epoch  |-> v.epoch]

(* The node of the last line of text t that lists slot s. *)
Listing(t, s) == {n \in t.nodes : s \in t.slots[n]}
LastListed(t, s) ==
  CHOOSE n \in Listing(t, s) :
     \A m \in Listing(t, s) \ {n} :
        n # t.self /\ (m = t.self \/ Rank[m] < Rank[n])

(* Mutant: the field of a node without a master is taken for an identifier. *)
MergeNodesDash(v, me, t) ==
  [v EXCEPT !.known = @ \cup t.nodes,
            !.master = [n \in Node |-> IF n \in t.nodes /\ t.master[n] = None
                                       THEN "-" ELSE v.master[n]]]

(* parseAndMergeNodesTextLocked: nodes not yet known are added with the     *)
(* role of their line, a known node keeps the role it has, and every listed *)
(* slot is given to its node without a look at who had it.                  *)
MergeNodes(v, me, t) ==
  LET own == t.self = me
      fresh == t.nodes \ v.known
  IN  [v EXCEPT
        !.known = @ \cup t.nodes,
        !.role = [n \in Node |-> IF n \in fresh \/ (own /\ n = me)
                                 THEN t.role[n] ELSE v.role[n]],
        !.master = [n \in Node |->
                      IF n \in t.nodes /\ (n # me \/ own)
                      THEN t.master[n] ELSE v.master[n]],
        !.bits = [n \in Node |-> IF n \in t.nodes
                                 THEN v.bits[n] \cup t.slots[n]
                                 ELSE v.bits[n]],
        !.owner = [s \in Slot |-> IF Listing(t, s) # {}
                                  THEN LastListed(t, s) ELSE v.owner[s]]]

(* A restarted process has drawn a new identifier before it reads           *)
(* nodes.conf; only the file has the line with the epoch.                   *)
LoadConfig(me, t) == [MergeNodes(NewView(me), me, t) EXCEPT !.epoch = t.epoch]
-----------------------------------------------------------------------------
(* Packets of the cluster bus.  A packet carries the sender's flags, its    *)
(* epoch and slot bitmap, and what it thinks of the health of the others.   *)
(* FAIL, vote requests and votes carry no flags, hence no claim on slots.   *)

Packet == [type : {"ping", "pong", "fail", "authreq", "authack"},
           src : Node, epoch : Nat,
           flags : Role \cup {"none"}, slots : SUBSET Slot,
           failed : SUBSET Node, suspected : SUBSET Node,
           target : Node \cup {None}, req : Nat]

(* buildSelfPacketLocked *)
SelfPacket(v, me, type) ==
  [type |-> type, src |-> me, epoch |-> v.epoch,
   flags |-> v.role[me], slots |-> v.bits[me],
   failed |-> (v.known \ {me}) \cap v.fail,
   suspected |-> ((v.known \ {me}) \cap v.pfail) \ v.fail,
   target |-> None, req |-> 0]

BarePacket(v, me, type, target, req) ==
  [type |-> type, src |-> me, epoch |-> v.epoch,
   flags |-> "none", slots |-> {}, failed |-> {}, suspected |-> {},
   target |-> target, req |-> req]

(* The sender is registered if need be, is alive, and its epoch is adopted  *)
(* if it is newer.                                                          *)
Hear(v, p) ==
  [v EXCEPT !.known = @ \cup {p.src},
            !.role[p.src] = IF p.src \notin v.known /\ p.flags = "slave"
                            THEN "slave" ELSE @,
            !.pfail = @ \ {p.src},
            !.fail = @ \ {p.src},
            !.epoch = IF p.epoch > @ THEN p.epoch ELSE @]

(* The slots a packet takes: those a master claims, except the ones the     *)
(* node holds itself while its epoch is higher than the packet's.           *)
Claimed(v, me, p) ==
  IF p.flags = "master"
  THEN {s \in p.slots : /\ v.owner[s] # p.src
                        /\ ~(v.owner[s] = me /\ v.epoch > p.epoch)}
  ELSE {}

(* processGossipEntriesLocked: FAIL is believed at once, PFAIL is recorded  *)
(* as a report of the sender.                                               *)
HearGossip(v, me, p) ==
  LET dead == (p.failed \ {me}) \cap v.known
  IN  [v EXCEPT !.fail = @ \cup dead,
                !.pfail = @ \ dead,
                !.reports = [n \in Node |-> IF n \in p.suspected \ {me}
                                            THEN v.reports[n] \cup {p.src}
                                            ELSE v.reports[n]]]

HearFail(v, me, p) ==
  IF p.target \in v.known \ {me}
  THEN [v EXCEPT !.fail = @ \cup {p.target}, !.pfail = @ \ {p.target}]
  ELSE v

(* Mutant: the last vote is not looked at. *)
GrantsAgain(v, me, p) == /\ p.type = "authreq"
                         /\ v.role[me] = "master" /\ p.req >= v.epoch
                         /\ p.target \in v.known \cap v.fail

(* Does a master grant the vote a packet asks for? *)
Grants(v, me, p) == /\ p.type = "authreq"
                    /\ v.role[me] = "master"
                    /\ p.req >= v.epoch /\ p.req > v.lastVote
                    /\ p.target \in v.known \cap v.fail

Vote(v, p) == [v EXCEPT !.lastVote = p.req, !.epoch = p.req]

(* ProcessPacket up to the point where the kinds of packet part. *)
Sync(v, me, p) == Take(Hear(v, p), Claimed(Hear(v, p), me, p), p.src)

(* ProcessPacket *)
ProcessPacket(v, me, p) ==
  LET w == Sync(v, me, p)
  IN  CASE p.type \in {"ping", "pong"} -> HearGossip(w, me, p)
        [] p.type = "fail"             -> HearFail(w, me, p)
        [] Grants(w, me, p)            -> Vote(w, p)
        [] OTHER                       -> w

(* The masters counted when the audit of heartbeatStep reaches node n: the  *)
(* count is taken while the map is walked, in the order ord.                *)
MastersSoFar(v, ord, n) == Cardinality({m \in Masters(v) : ord[m] <= ord[n]})

(* The audit: silent peers become PFAIL, with a report of the node itself. *)
Suspect(v, me, silent) ==
  LET late == (silent \cap (v.known \ {me})) \ (v.pfail \cup v.fail)
  IN  [v EXCEPT !.pfail = @ \cup late,
                !.reports = [n \in Node |->
                               IF n \in late THEN v.reports[n] \cup {me}
                               ELSE v.reports[n]]]

(* The PFAIL peers that become FAIL: those that enough nodes have ever      *)
(* reported, against the masters counted so far.                            *)
Elevated(v, me, ord) ==
  {n \in (v.pfail \cap (v.known \ {me})) \ v.fail :
     /\ MastersSoFar(v, ord, n) > 0
     /\ Cardinality(v.reports[n]) > MastersSoFar(v, ord, n) \div 2}

Elevate(v, up) == [v EXCEPT !.pfail = @ \ up, !.fail = @ \cup up]

(* Mutant: the election is started on suspicion, which FAIL has replaced. *)
ShouldFailoverPfail(v, me) == /\ v.role[me] = "slave"
                              /\ v.master[me] \in v.known \cap v.pfail

ShouldFailover(v, me) == /\ v.role[me] = "slave"
                         /\ v.master[me] \in v.known \cap v.fail

(* The masters a candidate asks for their votes, and the votes it needs     *)
(* with its own.                                                            *)
ActiveMasters(v) == Masters(v) \ v.fail
VotesNeeded(masters) == Cardinality(masters) \div 2 + 1

(* Mutant: only the slot map changes hands. *)
PromoteReplicaNoBits(v, me, failed) ==
  [v EXCEPT !.role[me] = "master", !.master[me] = None,
            !.owner = [s \in Slot |-> IF v.owner[s] = failed THEN me
                                      ELSE v.owner[s]]]

(* PromoteReplica: the slots of the failed master, by its bits or by the    *)
(* slot map, pass to the node.                                              *)
PromoteReplica(v, me, failed) ==
  LET taken == {s \in Slot : s \in v.bits[failed] \/ v.owner[s] = failed}
  IN  [v EXCEPT !.role[me] = "master",
                !.master[me] = None,
                !.bits = [n \in Node |-> IF n = me THEN v.bits[n] \cup taken
                                         ELSE IF n = failed THEN {}
                                         ELSE v.bits[n]],
                !.owner = [s \in Slot |-> IF s \in taken THEN me
                                          ELSE v.owner[s]]]
=============================================================================
