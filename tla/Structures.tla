----------------------------- MODULE Structures -----------------------------
(***************************************************************************)
(* The structured values of the engine under its dispatch: a key holds a   *)
(* stream (module Streams) or a sorted set (module SkipList), and the      *)
(* commands of the other type find the wrong type and change nothing.      *)
(***************************************************************************)
EXTENDS Streams, SkipList

VARIABLE type     \* the type of the entry

varsS == <<type, vars, varsZ>>

(* For a sorted set, the scenario without any stream command. *)
InitS == /\ Init /\ InitZ
         /\ type = IF \A k \in DOMAIN left : left[k] = 0 THEN "zset" ELSE "stream"

NextS == \/ type = "stream" /\ Next /\ UNCHANGED <<type, varsZ>>
         \/ type = "zset" /\ NextZ /\ UNCHANGED <<type, vars>>

(* The fairness of module Streams. *)
SpecS == /\ InitS /\ [][NextS]_varsS
         /\ \A c \in Client : WF_vars(Step(c)) /\ SF_vars(Expire(c))
=============================================================================
