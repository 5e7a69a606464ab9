------------------------------- MODULE Clients ------------------------------
(***************************************************************************)
(* The clients of a server and the network between them, as both engines   *)
(* of the server (modules Reactor and TcpServer) meet them.                *)
(*                                                                         *)
(* The i-th request of peer p is the two bytes <<p, i, 1>> and <<p, i, 2>>, *)
(* or the first of them if it is empty or malformed; the network cuts the  *)
(* bytes as it likes.  The reply to it is <<peer, i>>, a protocol error is *)
(* <<peer, 0>>, and <<peer, i, "message">> is what the request published.  *)
(***************************************************************************)
EXTENDS Integers, SequencesExt, FiniteSetsExt, Functions

CONSTANTS Peer,       \* client sockets, 1 .. n
          Scenarios   \* bounds: requests, server settings, faults

ASSUME PeerAssumption == Peer = 1 .. Cardinality(Peer)

VARIABLES plan,       \* the scenario
          sock,       \* Peer -> the socket: what is in flight either way
          executed    \* history: Peer -> the requests executed
clients == <<plan, sock, executed>>
fixed == <<plan, executed>>

CInit ==
    /\ plan \in Scenarios
    /\ sock = [p \in Peer |-> [st |-> "new", gone |-> FALSE, rcv |-> << >>,
                               sent |-> 0, got |-> << >>, taken |-> 0]]
    /\ executed = [p \in Peer |-> << >>]

Requests(p) == IF p \in DOMAIN plan.requests THEN plan.requests[p] ELSE << >>
Kind(p, i) == Requests(p)[i]
OneByte == {"EMPTY", "BAD"}
Wire(p) == FlattenSeq([i \in 1 .. Len(Requests(p)) |->
              IF Kind(p, i) \in OneByte THEN <<<<p, i, 1>>>>
              ELSE <<<<p, i, 1>>, <<p, i, 2>>>>])

Connect(p) ==
    /\ sock[p].st = "new" /\ p \in DOMAIN plan.requests
    /\ sock' = [sock EXCEPT ![p].st = "backlog"]
    /\ UNCHANGED fixed

(* The network hands the server the next n bytes. *)
Arrive(p, n) ==
    /\ sock[p].st = "up" /\ ~sock[p].gone
    /\ sock[p].sent + n <= Len(Wire(p))
    /\ sock' = [sock EXCEPT ![p].sent = @ + n,
                  ![p].rcv = @ \o SubSeq(Wire(p), sock[p].sent + 1, sock[p].sent + n)]
    /\ UNCHANGED fixed

(* The peer reads, which makes room in the send buffer. *)
Take(p) ==
    /\ sock[p].taken < Len(sock[p].got) /\ Len(sock[p].got) >= plan.room
    /\ sock' = [sock EXCEPT ![p].taken = @ + 1]
    /\ UNCHANGED fixed

Leave(p) ==
    /\ sock[p].st = "up" /\ ~sock[p].gone
    /\ Cardinality({q \in Peer : sock[q].gone}) < plan.leaves
    /\ sock' = [sock EXCEPT ![p].gone = TRUE]
    /\ UNCHANGED fixed

CNext == \E p \in Peer : \/ Connect(p) \/ Take(p) \/ Leave(p)
                         \/ \E n \in 1 .. 4 : Arrive(p, n)

Room(p) == plan.room - (Len(sock[p].got) - sock[p].taken)

(* The kind of the first request of some input and the bytes it takes, none  *)
(* of them as long as it is incomplete.                                      *)
Parse(src) ==
    LET p == src[1][1]
        i == src[1][2]
    IN  IF src[1][3] # 1 \/ Kind(p, i) = "BAD"
           \/ (Len(src) > 1 /\ Kind(p, i) \notin OneByte /\ src[2] # <<p, i, 2>>)
        THEN [kind |-> "BAD", n |-> 0, p |-> p, i |-> i]
        ELSE IF Kind(p, i) = "EMPTY" THEN [kind |-> "EMPTY", n |-> 1, p |-> p, i |-> i]
        ELSE [kind |-> Kind(p, i), n |-> IF Len(src) > 1 THEN 2 ELSE 0, p |-> p, i |-> i]

(* ------------------------------ properties ------------------------------ *)

Proper(p) == SelectSeq([i \in 1 .. Len(Requests(p)) |-> i],
                       LAMBDA i : Kind(p, i) \notin OneByte)
Replies(p) == SelectSeq(sock[p].got, LAMBDA r : Len(r) = 2 /\ r[2] # 0)
=============================================================================
