------------------------------- MODULE Values -------------------------------
(***************************************************************************)
(* What the commands that change a key do to it, as far as the files and   *)
(* the replicas tell values apart.  A value is the sequence of the writes  *)
(* that made it: SET leaves one and makes a string of whatever was there,  *)
(* RPUSH appends one to a list, DEL leaves nothing.  The arguments of a    *)
(* command are a sequence, as in the protocol.                             *)
(***************************************************************************)
EXTENDS Naturals, Sequences

Missing == [type |-> "none", made |-> << >>]
Str(w) == [type |-> "string", made |-> <<w>>]
List(ws) == [type |-> "list", made |-> ws]

(* RPUSH on a string is refused (WRONGTYPE), as is a command that is not      *)
(* whole: nothing changes.                                                    *)
Effect(v, args) ==
    CASE args[1] = "SET" /\ Len(args) = 3 -> Str(args[3])
      [] args[1] = "RPUSH" /\ Len(args) > 2 /\ v.type # "string" ->
             List(v.made \o SubSeq(args, 3, Len(args)))
      [] args[1] = "DEL" -> Missing
      [] OTHER -> v

Execute(d, args) ==
    IF Len(args) < 2 \/ args[2] \notin DOMAIN d THEN d
    ELSE [d EXCEPT ![args[2]] = Effect(@, args)]

(* The commands clients send: the write w of key k. *)
Command(op, k, w) == IF op = "DEL" THEN <<op, k>> ELSE <<op, k, w>>
IsWrite(v, args) == args[1] = "RPUSH" => v.type # "string"
=============================================================================
