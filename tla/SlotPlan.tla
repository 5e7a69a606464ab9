------------------------------ MODULE SlotPlan ------------------------------
(***************************************************************************)
(* How slots are listed, shared out and moved to balance a cluster:        *)
(* SlotsList and SlotRangesString, with which CLUSTER NODES prints the     *)
(* slots of a node, ParseSlotRanges, with which the command line tool      *)
(* reads them (internal/cluster/node.go), ComputeRebalancePlan             *)
(* (internal/cluster/rebalancer.go), and the plan of the Kubernetes        *)
(* operator for a new cluster (internal/operator/controller.go).  Slots    *)
(* are the numbers below NumSlots, which is 16384 in the code.             *)
(***************************************************************************)
EXTENDS Integers, SequencesExt, FiniteSetsExt

CONSTANT NumSlots

ASSUME NumSlotsAssumption == NumSlots \in Nat \ {0}

SlotsList(bits) == SetToSortSeq(bits, <)

(* A range as it is printed: one number, or two with a dash. *)
Token(first, last) == IF first = last THEN <<first>> ELSE <<first, last>>

(* Mutant: the range that reaches the last slot is not printed. *)
SlotRangesStringOpen(bits) ==
  LET slots == SlotsList(bits)
  IN  IF slots = << >> THEN << >>
      ELSE FoldLeft(LAMBDA acc, curr :
                 IF curr = acc.prev + 1 THEN [acc EXCEPT !.prev = curr]
                 ELSE [ranges |-> Append(acc.ranges, Token(acc.start, acc.prev)),
                       start |-> curr, prev |-> curr],
               [ranges |-> << >>, start |-> Head(slots), prev |-> Head(slots)],
               Tail(slots)).ranges

(* SlotRangesString, as the sequence of the words it joins. *)
SlotRangesString(bits) ==
  LET slots == SlotsList(bits)
      end == FoldLeft(LAMBDA acc, curr :
                 IF curr = acc.prev + 1 THEN [acc EXCEPT !.prev = curr]
                 ELSE [ranges |-> Append(acc.ranges, Token(acc.start, acc.prev)),
                       start |-> curr, prev |-> curr],
               [ranges |-> << >>, start |-> Head(slots), prev |-> Head(slots)],
               Tail(slots))
  IN  IF slots = << >> THEN << >>
      ELSE Append(end.ranges, Token(end.start, end.prev))

(* ParseSlotRanges; nil, and an error the tool ignores, if a word is wrong. *)
ParseSlotRanges(words) ==
  LET ok == \A i \in DOMAIN words :
              words[i][1] <= Last(words[i]) /\ Last(words[i]) < NumSlots
      Slots(w) == [i \in 1 .. Last(w) - w[1] + 1 |-> w[1] + i - 1]
  IN  IF ok THEN SortSeq(FlattenSeq([i \in DOMAIN words |-> Slots(words[i])]), <)
      ELSE << >>

(* The share of the i-th of n masters in all slots, i from 1. *)
Share(n, i) == (NumSlots \div n) + (IF i <= NumSlots % n THEN 1 ELSE 0)

Pad(x, n) == [i \in 1 .. n |-> x]

(* ComputeRebalancePlan.  masters are records of an id and a list of slots, *)
(* here in the order of their IDs.  The excess slots of the donors, taken   *)
(* from the end of their lists, go to the receivers one after the other.    *)
ComputeRebalancePlan(masters) ==
  LET n == Len(masters)
      has(i) == Len(masters[i].slots)
      surplus(i) == Max({0, has(i) - Share(n, i)})
      lack(i) == Max({0, Share(n, i) - has(i)})
      given == FlattenSeq([i \in 1 .. n |->
                 [k \in 1 .. surplus(i) |->
                    [slot |-> masters[i].slots[has(i) - surplus(i) + k],
                     from |-> masters[i].id]]])
      taken == FlattenSeq([i \in 1 .. n |-> Pad(masters[i].id, lack(i))])
  IN  [k \in 1 .. Min({Len(given), Len(taken)}) |->
         [slot |-> given[k].slot, from |-> given[k].from, to |-> taken[k]]]

(* PartitionSlots *)
PartitionSlots(n) ==
  LET before(i) == FoldLeft(LAMBDA x, y : x + y, 0, [j \in 1 .. i - 1 |-> Share(n, j)])
  IN  [i \in 1 .. n |-> [k \in 1 .. Share(n, i) |-> before(i) + k - 1]]

(* PlanBootstrap: the words CLUSTER ADDSLOTSRANGE gets for each master, and *)
(* the master of each further pod.                                          *)
PlanBootstrap(masters, perMaster) ==
  [ranges |-> [i \in 1 .. masters |->
                 LET s == PartitionSlots(masters)[i]
                 IN  IF s = << >> THEN << >> ELSE <<s[1], Last(s)>>],
   follows |-> [r \in 1 .. masters * perMaster |-> ((r - 1) % masters) + 1]]

(* ReconcileScaleOut: masters without slots join.  Their names,             *)
(* "new_master_<i>", come behind all identifiers, which are hex digits.     *)
(* (Masters are numbered here instead of named.)                            *)
ReconcileScaleOut(masters, wanted) ==
  IF wanted <= Len(masters) THEN << >>
  ELSE ComputeRebalancePlan(masters \o
         [i \in 1 .. wanted - Len(masters) |->
            [id |-> Len(masters) + i, slots |-> << >>]])

(* The moves leave n masters with their shares, and take no slot twice. *)
EvenedOut(masters, moves, n) ==
  LET has(i) == IF i \in DOMAIN masters THEN Len(masters[i].slots) ELSE 0
      name(i) == IF i \in DOMAIN masters THEN masters[i].id ELSE i
      gets(x) == Cardinality({k \in DOMAIN moves : moves[k].to = x})
      gives(x) == Cardinality({k \in DOMAIN moves : moves[k].from = x})
  IN  /\ \A j, k \in DOMAIN moves : moves[j].slot = moves[k].slot => j = k
      /\ \A i \in 1 .. n : has(i) + gets(name(i)) - gives(name(i)) = Share(n, i)

(* What the operator plans fits what the tool does.  A cluster made by      *)
(* PlanBootstrap serves every slot once and its replicas are spread evenly. *)
(* The pods draw their identifiers at random, in whose order the tool gives *)
(* out the slots that do not divide evenly: whatever the order, it moves at *)
(* most one slot to or from each master, and its plan and the plan to add   *)
(* masters give everyone a share and move no slot twice.                    *)
OperatorPlans ==
  \A n \in 1 .. NumSlots + 1 :
    LET pod == [i \in 1 .. n |-> [id |-> i, slots |->
                  LET words == PlanBootstrap(n, 0).ranges[i]
                  IN  IF words = << >> THEN << >> ELSE ParseSlotRanges(<<words>>)]]
    IN  /\ FlattenSeq([i \in 1 .. n |-> pod[i].slots]) = SlotsList(0 .. NumSlots - 1)
        /\ \A r \in 0 .. 2, i \in 1 .. n :
             LET follows == PlanBootstrap(n, r).follows
             IN  Cardinality({k \in DOMAIN follows : follows[k] = i}) = r
        /\ \A order \in SetToSeqs(1 .. n) :
             LET old == [i \in 1 .. n |-> pod[order[i]]]
                 moves == ComputeRebalancePlan(old)
             IN  /\ EvenedOut(old, moves, n)
                 /\ Cardinality({moves[k].from : k \in DOMAIN moves} \cup
                                {moves[k].to : k \in DOMAIN moves}) = 2 * Len(moves)
                 /\ \A wanted \in n + 1 .. NumSlots + 1 :
                      EvenedOut(old, ReconcileScaleOut(old, wanted), wanted)
=============================================================================
