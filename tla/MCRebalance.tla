---------------------------- MODULE MCRebalance ----------------------------
(* Four slots.  Two moves from a to b, with up to three keys in the first   *)
(* slot and one in the second, or with a text that passes for a header; a   *)
(* move in a cluster of three with heartbeats; every distribution of the    *)
(* slots over three masters, with nothing else going on; and one with a     *)
(* master that is down.                                                     *)
EXTENDS Rebalance

CONSTANTS a, b, c, a1, b1, c1, k1, k2, k3, k4, k5, v1, v2, v3, v4, v5

MCSlot == 0 .. 3
MCHome == (a1 :> a @@ b1 :> b @@ c1 :> c)
MCFirstId == (a :> a1 @@ b :> b1 @@ c :> c1)
MCRank == (a1 :> 1 @@ b1 :> 2 @@ c1 :> 3)
MCKeySlot == (k1 :> 2 @@ k2 :> 2 @@ k3 :> 2 @@ k4 :> 3 @@ k5 :> 2)
MCStored == (k1 :> v1 @@ k2 :> v2 @@ k3 :> v3 @@ k4 :> v4 @@ k5 :> v5)

(* The members know each other, and which of them owns which slots. *)
Situation(members, owned, dead, messages, keys) ==
  LET ids == {FirstId[p] : p \in members}
  IN  [view |-> [p \in Proc |->
                   [NewView(FirstId[p]) EXCEPT !.known = ids,
                      !.bits = [n \in Node |-> {s \in Slot : owned[s] = n}],
                      !.owner = owned]],
       start |-> [member |-> members, ops |-> {}, dead |-> dead, silent |-> {},
                  msgs |-> messages, epochs |-> 1, keys |-> keys]]

MCStarts ==
  {Situation({a, b}, [s \in Slot |-> a1], {}, 1, keys) :
     keys \in {{k1, k2, k3, k4}, {k1, k4, k5}}} \cup
  {Situation(Proc, (0 :> a1 @@ 1 :> a1 @@ 2 :> a1 @@ 3 :> b1), {}, 1, {})} \cup
  {Situation(Proc, owned, {}, 0, {}) : owned \in [Slot -> Node \cup {None}]} \cup
  {Situation(Proc, [s \in Slot |-> n], {c}, 0, {k1, k4}) : n \in {a1, c1}}
=============================================================================
