----------------------------- MODULE MCStructures ---------------------------
(* Two clients, one group of two consumers and the IDs 0-0 to 1-1.            *)
EXTENDS Structures

MCMaxLens == {-1, 1}
MCIdArgs == {Auto(1), Partial(1), Explicit(<<0, 1>>), Explicit(<<1, 1>>)}

(* Making the stream while others add and delete; IDs over a stream that is   *)
(* emptied; blocked reads; a group with deliveries and acknowledgements; a    *)
(* group that is moved; restarts; and a sorted set of up to three members     *)
(* instead.  prior = -1: no stream yet.                                       *)
MCScenarios ==
    {[prior |-> -1, left |-> NoGroups],
     [prior |-> -1, left |-> ("XADD" :> 2 @@ "DEL" :> 1)],
     [prior |-> -1, left |-> ("XADD" :> 1 @@ "CREATE" :> 1 @@ "XREADGROUP BLOCK" :> 1)],
     [prior |-> 1, left |-> ("XADD" :> 3 @@ "XDEL" :> 1)],
     [prior |-> 2, left |-> ("XADD" :> 2 @@ "XTRIM" :> 1)],
     [prior |-> -1, left |-> ("XADD" :> 2 @@ "SAVE" :> 1 @@ "RESTART" :> 1)],
     [prior |-> -1, left |-> ("XADD" :> 1 @@ "DEL" :> 1 @@ "RESTART" :> 1)],
     [prior |-> 1, left |-> ("XADD" :> 1 @@ "XREAD" :> 1 @@ "DEL" :> 1)],
     [prior |-> 1, left |-> ("XADD" :> 1 @@ "XREAD" :> 1 @@ "XDEL" :> 1)],
     [prior |-> 2, left |-> ("XREADGROUP" :> 2 @@ "XACK" :> 1)],
     [prior |-> 1, left |-> ("XADD" :> 1 @@ "XREADGROUP" :> 2)],
     [prior |-> 1, left |-> ("XREADGROUP" :> 2 @@ "DELCONSUMER" :> 1 @@ "SETID" :> 1)],
     [prior |-> 1, left |-> ("XADD" :> 1 @@ "XREADGROUP BLOCK" :> 1 @@ "DESTROY" :> 1)],
     [prior |-> 3, left |-> ("XADD" :> 1 @@ "XREAD" :> 1)],
     [prior |-> 3, left |-> ("XADD" :> 1 @@ "DESTROY" :> 1 @@ "CREATE" :> 1
                             @@ "XREADGROUP" :> 1)]}
=============================================================================
