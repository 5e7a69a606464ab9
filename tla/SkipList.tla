------------------------------ MODULE SkipList ------------------------------
(***************************************************************************)
(* Sorted sets: the skip list with spans of internal/datastruct/           *)
(* skiplist.go, under ZADD, ZREM, ZSCORE, ZRANK, ZCARD, ZRANGE and         *)
(* ZREVRANGE.  Every method holds the mutex of the list, so a step is one  *)
(* call: ZADD is an Insert for each of its pairs up to the first score     *)
(* that is no number, and ZREM a Delete for each of its members.           *)
(*                                                                         *)
(* A node is known by its member, a number that stands for the place of    *)
(* the string among all strings; 0 is the empty string, which the header   *)
(* has for its member too.  Scores are numbers: NaN, which ParseFloat      *)
(* takes, is left out, since every comparison with it fails and a member   *)
(* with it is never found again.  Levels count from 1.                     *)
(***************************************************************************)
EXTENDS Integers, SequencesExt, FiniteSetsExt

CONSTANTS Member, Score, MaxLevel,
          MaxRestored     \* bound: the members a restart is tried with

ASSUME SkipListAssumption == /\ Member \subseteq Nat /\ Score \subseteq Int
                             /\ MaxLevel \in Nat \ {0} /\ MaxRestored \in Nat

Header == -1
Nil == -2

VARIABLES zset,     \* the skip list
          given     \* history: the score last given to each member of the set

varsZ == <<zset, given>>

NoScores == [m \in {} |-> 0]

NewSkipList ==
  [nodes |-> (Header :> [member |-> 0, score |-> 0, back |-> Nil,
                         next |-> [i \in 1 .. MaxLevel |-> [fwd |-> Nil, span |-> 0]]]),
   tail |-> Nil, length |-> 0, level |-> 1, dict |-> NoScores]

(* The walk of every method: from the top level down, on each level forward *)
(* as long as Goes(the next node, the rank it would have).  What is left is *)
(* where it stood, and the rank, at the end of every level.                 *)
Walk(sl, Goes(_, _)) ==
  LET along[i \in 1 .. MaxLevel, x \in DOMAIN sl.nodes, r \in Nat] ==
        LET e == sl.nodes[x].next[i]
        IN  IF e.fwd # Nil /\ Goes(sl.nodes[e.fwd], r + e.span)
            THEN along[i, e.fwd, r + e.span] ELSE [x |-> x, rank |-> r]
      end[i \in 1 .. sl.level] ==
        LET from == IF i = sl.level THEN [x |-> Header, rank |-> 0] ELSE end[i + 1]
        IN  along[i, from.x, from.rank]
  IN  [i \in 1 .. sl.level |-> end[i]]

Less(n, s, m) == n.score < s \/ (n.score = s /\ n.member < m)

(* deleteUnsafe *)
DeleteUnsafe(sl, m) ==
  LET update == Walk(sl, LAMBDA n, r : Less(n, sl.dict[m], m))
      target == sl.nodes[update[1].x].next[1].fwd
      was == sl.nodes[target]
      found == /\ m \in DOMAIN sl.dict /\ target # Nil
               /\ was.score = sl.dict[m] /\ was.member = m
      links(x) == [i \in DOMAIN sl.nodes[x].next |->
        LET e == sl.nodes[x].next[i]
        IN  IF i > sl.level \/ update[i].x # x THEN e
            ELSE IF e.fwd = target
                 THEN [fwd |-> was.next[i].fwd, span |-> e.span + was.next[i].span - 1]
                 ELSE [e EXCEPT !.span = @ - 1]]
  IN  IF ~found THEN sl
      ELSE [nodes |-> [x \in DOMAIN sl.nodes \ {target} |->
                         [sl.nodes[x] EXCEPT !.next = links(x),
                            !.back = IF x = was.next[1].fwd THEN was.back ELSE @]],
            tail |-> IF was.next[1].fwd = Nil THEN was.back ELSE sl.tail,
            length |-> sl.length - 1,
            level |-> Max({1} \cup {i \in 1 .. sl.level : links(Header)[i].fwd # Nil}),
            dict |-> Restrict(sl.dict, DOMAIN sl.dict \ {m})]

(* Mutant: the span keeps its length. *)
PassedSame(e) == e

(* A link that passes above a new node. *)
Passed(e) == [e EXCEPT !.span = @ + 1]

(* The list with a new node on the given number of levels, after the walk   *)
(* has ended at update; levels the list did not have start at the header.   *)
Link(sl, s, m, level, update) ==
  LET place(i) == IF i <= sl.level THEN update[i] ELSE [x |-> Header, rank |-> 0]
      passed(i) == update[1].rank - place(i).rank
      old(i) == LET e == sl.nodes[place(i).x].next[i]
                IN  IF i <= sl.level THEN e ELSE [e EXCEPT !.span = sl.length]
      next == old(1).fwd
      links(x) == [i \in DOMAIN sl.nodes[x].next |->
        LET e == sl.nodes[x].next[i]
        IN  IF i > Max({level, sl.level}) \/ place(i).x # x THEN e
            ELSE IF i <= level THEN [fwd |-> m, span |-> passed(i) + 1]
            ELSE Passed(e)]
      node == [member |-> m, score |-> s,
               back |-> IF place(1).x = Header THEN Nil ELSE place(1).x,
               next |-> [i \in 1 .. level |->
                           [fwd |-> old(i).fwd, span |-> old(i).span - passed(i)]]]
  IN  [nodes |-> (m :> node) @@
                 [x \in DOMAIN sl.nodes |->
                    [sl.nodes[x] EXCEPT !.next = links(x),
                                        !.back = IF x = next THEN m ELSE @]],
       tail |-> IF next = Nil THEN m ELSE sl.tail,
       length |-> sl.length + 1,
       level |-> Max({level, sl.level}),
       dict |-> (m :> s) @@ sl.dict]

(* Insert, with what randomLevel returns. *)
Insert(sl, s, m, level) ==
  LET base == IF m \in DOMAIN sl.dict THEN DeleteUnsafe(sl, m) ELSE sl
  IN  Link(base, s, m, level, Walk(base, LAMBDA n, r : Less(n, s, m)))

(* The walk ends on the first level, from the top, at which it has arrived. *)
Arrived(update, Is(_)) ==
  LET at == {i \in DOMAIN update : Is(update[i])}
  IN  IF at = {} THEN [x |-> Nil, rank |-> 0] ELSE update[Max(at)]

GetRank(sl, m) ==
  IF m \notin DOMAIN sl.dict THEN -1
  ELSE Arrived(Walk(sl, LAMBDA n, r : \/ Less(n, sl.dict[m], m)
                                      \/ n.score = sl.dict[m] /\ n.member = m),
               LAMBDA u : sl.nodes[u.x].member = m).rank - 1

GetElementByRank(sl, rank) ==
  Arrived(Walk(sl, LAMBDA n, r : r <= rank), LAMBDA u : u.rank = rank).x

(* Range: negative positions count from the end. *)
RangeByRank(sl, start, stop, reverse) ==
  LET from == Max({0, IF start < 0 THEN sl.length + start ELSE start})
      to == Min({sl.length - 1, IF stop < 0 THEN sl.length + stop ELSE stop})
      first == GetElementByRank(sl, IF reverse THEN sl.length - from ELSE from + 1)
      on[x \in DOMAIN sl.nodes \cup {Nil}, n \in Nat] ==
        IF x = Nil \/ n = 0 THEN << >>
        ELSE <<x>> \o on[IF reverse THEN sl.nodes[x].back ELSE sl.nodes[x].next[1].fwd,
                         n - 1]
  IN  IF sl.length = 0 \/ from > to \/ from >= sl.length THEN << >>
      ELSE on[first, to - from + 1]

InitZ == zset = NewSkipList /\ given = NoScores

ZAdd(s, m, level) == /\ zset' = Insert(zset, s, m, level)
                     /\ given' = (m :> s) @@ given

ZRem(m) == /\ zset' = DeleteUnsafe(zset, m)
           /\ given' = Restrict(given, DOMAIN given \ {m})

(* A restart, from a snapshot or a rewritten log of the members in order.   *)
ZRestore ==
  LET all == RangeByRank(zset, 0, -1, FALSE)
  IN  /\ zset.length <= MaxRestored
      /\ \E levels \in [DOMAIN all -> 1 .. MaxLevel] :
           zset' = FoldLeft(LAMBDA sl, i :
                       Insert(sl, zset.nodes[all[i]].score, all[i], levels[i]),
                     NewSkipList, [i \in DOMAIN all |-> i])
      /\ UNCHANGED given

NextZ == \/ \E s \in Score, m \in Member, level \in 1 .. MaxLevel : ZAdd(s, m, level)
         \/ \E m \in Member : ZRem(m)
         \/ ZRestore

(* Whatever the order of additions, removals and changes of score, and      *)
(* whatever the levels drawn: the members are those that were added, with   *)
(* the scores last given; ZRANGE and ZREVRANGE list them in the order of    *)
(* their scores, from and to any positions, and ZRANK is the place in that  *)
(* list.  The spans that give the ranks are right on every level.  (The     *)
(* rank of the empty string is missed, its search ends at the header.)      *)
RanksAgree ==
  LET sorted == SetToSortSeq(DOMAIN given, LAMBDA m, n :
                  given[m] < given[n] \/ (given[m] = given[n] /\ m < n))
      n == Len(sorted)
      place(x) == IF x < 0 THEN n + x ELSE x
      listed(seq, start, stop) ==
        SubSeq(seq, Max({1, place(start) + 1}), Min({n, place(stop) + 1}))
  IN  /\ zset.dict = given /\ zset.length = n
      /\ \A i \in 1 .. n : /\ GetElementByRank(zset, i) = sorted[i]
                           /\ sorted[i] # 0 => GetRank(zset, sorted[i]) = i - 1
      /\ \A start, stop \in -n - 1 .. n :
           /\ RangeByRank(zset, start, stop, FALSE) = listed(sorted, start, stop)
           /\ RangeByRank(zset, start, stop, TRUE) = listed(Reverse(sorted), start, stop)
=============================================================================
