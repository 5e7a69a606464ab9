----------------------------- MODULE MCCluster -----------------------------
(* Two masters a1 and b1, replicas r1 and q1 of a1, and a spare identifier  *)
(* b2 for the process of b1: after a restart, or for a MEET that cannot     *)
(* reach it.                                                                *)
EXTENDS ClusterBus, TLC

CONSTANTS a, b, r, q, a1, b1, b2, r1, q1, s1

MCHome == (a1 :> a @@ b1 :> b @@ b2 :> b @@ r1 :> r @@ q1 :> q)
MCFirstId == (a :> a1 @@ b :> b1 @@ r :> r1 @@ q :> q1)
MCRank == (a1 :> 1 @@ b1 :> 2 @@ b2 :> 0 @@ r1 :> 3 @@ q1 :> 4)

S(views, ops, dead, silent, m, epochs) ==
  [view |-> views,
   start |-> [member |-> DOMAIN views, ops |-> ops, dead |-> dead,
              silent |-> silent, msgs |-> m, epochs |-> epochs]]

(* Both processes just started, without a nodes.conf. *)
Alone == [p \in {a, b} |-> NewView(FirstId[p])]

(* The two masters have met, and a1 serves the slot. *)
Met == [p \in {a, b} |->
          Take([NewView(FirstId[p]) EXCEPT !.known = {a1, b1}], {s1}, a1)]

(* Everyone of P knows everyone; a1 serves the slot. *)
Formed(P) ==
  LET members == {FirstId[p] : p \in P}
  IN  [p \in P |->
         [Take(NewView(FirstId[p]), {s1}, a1)
            EXCEPT !.known = members,
                   !.role = [n \in Node |-> IF n \in members \cap {r1, q1}
                                            THEN "slave" ELSE "master"],
                   !.master = [n \in Node |-> IF n \in members \cap {r1, q1}
                                              THEN a1 ELSE None]]]

(* The same, after everyone has found out that a1 is down. *)
Failed(P) == [p \in P |-> IF p = a THEN Formed(P)[p]
                          ELSE [Formed(P)[p] EXCEPT !.fail = {a1},
                                                    !.reports[a1] = {b1, r1}]]

MCStarts ==
  {S(Alone, {"addslots", "meet", "restart", "saveconfig"}, {}, {}, 1, 1),
   S(Met, {"setslot", "delslots", "replicate", "forget"}, {}, {}, 1, 1),
   S(Met, {"setslot", "mark", "forget"}, {}, {}, 1, 1),
   S(Formed({a, b, r}), {}, {}, {a1}, 1, 2),
   S(Failed({a, b, r, q}), {"restart"}, {a}, {}, 1, 2)}

(* a1 is down, and one replica is left to take over. *)
MCFailed == {S(Failed({a, b, r}), {}, {a}, {}, 2, 2)}
LiveSpec == Spec /\ Fairness({b, r})
=============================================================================
