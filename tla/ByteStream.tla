----------------------------- MODULE ByteStream -----------------------------
(***************************************************************************)
(* What the input buffer of a connection promises to the command parser: a *)
(* byte stream.  Bytes come out in the order in which the socket delivered *)
(* them, none is lost, none comes out twice, however the two sides cut the *)
(* stream into pieces.                                                     *)
(***************************************************************************)
EXTENDS Naturals, Sequences

VARIABLES sent,     \* every byte written so far
          got       \* every byte handed to the reader so far

vars == <<sent, got>>

Prefix(s, t) == /\ Len(s) <= Len(t)
                /\ \A i \in 1 .. Len(s) : s[i] = t[i]

Init == sent = << >> /\ got = << >>

(* The writer appends; the reader is not affected. *)
Put == Prefix(sent, sent') /\ got' = got

(* The reader receives a further piece of what has been written. *)
Take == Prefix(got, got') /\ Prefix(got', sent) /\ sent' = sent

Next == Put \/ Take

Spec == Init /\ [][Next]_vars
=============================================================================
