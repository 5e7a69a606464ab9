------------------------------- MODULE Server -------------------------------
(***************************************************************************)
(* A server and its clients.  Start (internal/server/tcp.go) chooses the   *)
(* engine: the reactor unless TLS is on or the standard one is asked for,  *)
(* and the standard one also if the reactor cannot be started.             *)
(***************************************************************************)
EXTENDS Reactor, TcpServer

VARIABLE serving    \* the engine
svars == <<clients, reactor, tcp, serving>>

Start == IF plan.std THEN {"std"} ELSE {"reactor", "std"}

Init == CInit /\ RInit /\ TInit /\ serving \in Start

ByReactor(A) == serving = "reactor" /\ A /\ UNCHANGED <<tcp, serving>>
ByTcp(A) == serving = "std" /\ A /\ UNCHANGED <<reactor, serving>>

Next == \/ CNext /\ UNCHANGED <<reactor, tcp, serving>>
        \/ ByReactor(RNext)
        \/ ByTcp(TNext)

(* Reactor workers go on, and epoll_wait reports every connection that stays *)
(* readable: the loop serves all the events of a batch in turn.  The Go      *)
(* scheduler runs every goroutine that can go on.  Clients may stop to read  *)
(* or to send at any time.                                                   *)
Fairness ==
    /\ \A w \in Worker : WF_svars(ByReactor(WorkerStep(w)))
    /\ \A p \in Peer : WF_svars(ByReactor(\E w \in Worker, c \in DOMAIN conns :
                                   conns[c].peer = p /\ HandleRead(w, c)))
    /\ \A p \in Peer : /\ WF_svars(ByTcp(Handler(p))) /\ WF_svars(ByTcp(Reader(p)))
                       /\ WF_svars(ByTcp(Fill(p)))
    /\ WF_svars(ByTcp(Admit \/ \E p \in Peer : TAccept(p)))

Spec == Init /\ [][Next]_svars /\ Fairness

(* README.md:42 "Configurable maxclients connection ceiling".  Workers of    *)
(* the reactor check and count in two steps, so they pass it by at most one  *)
(* connection for every other worker.  With the single accept loop of the    *)
(* standard engine it is exact, though connections end at any time, since    *)
(* the telemetry it reads counts the connections that have a goroutine.      *)
Ceiling ==
    IF serving = "reactor"
    THEN plan.maxClients > 0 => connCount <= plan.maxClients + Cardinality(Worker) - 1
    ELSE /\ active = Cardinality(Live)
         /\ plan.maxClients > 0 => active <= plan.maxClients

(* However the network cuts a peer's requests into pieces, and whether they  *)
(* are parsed from the read buffer, from the ring or by the subscription     *)
(* reader, they are executed in order, none twice and none left out, and a   *)
(* protocol error is answered only to a malformed request, after all         *)
(* requests before it.  Exempt is a peer that was robbed: a worker of the    *)
(* reactor had found a connection open, Stop closed it, and the worker read  *)
(* from its descriptor, which the peer had been given in between.            *)
InputOnce ==
    \A p \in Peer \ hist.robbed :
       /\ IsPrefix(executed[p], Proper(p))
       /\ <<p, 0>> \in ToSet(sock[p].got) =>
            \E i \in DOMAIN Requests(p) :
               /\ Kind(p, i) = "BAD"
               /\ executed[p] = SelectSeq(Proper(p), LAMBDA j : j < i)

HeldBack(p) == \/ serving = "reactor" /\ p \in hist.full
               \/ serving = "std" /\ \/ Room(p) = 0 \/ Doing(p) = "psync"
                                     \/ sock[p].sent > 0 /\ Wire(p)[sock[p].sent][3] = 1
Owed(p) == /\ sock[p].st = "up" /\ ~sock[p].gone /\ stopping.w = {} /\ ~HeldBack(p)
           /\ \E i \in ToSet(Proper(p)) :
                /\ <<p, i, 2>> \in ToSet(SubSeq(Wire(p), 1, sock[p].sent))
                /\ <<p, i>> \notin ToSet(sock[p].got)

(* Requests that have arrived in full on a connection that stays open are    *)
(* answered.  Exempt are, with the reactor, peers whose socket was full:     *)
(* nothing waits for it to be writable, so the rest goes out only with the   *)
(* peer's next request; and with the standard engine peers that do not read, *)
(* a PSYNC, and replies held back for more input, which may be the beginning *)
(* of a request or an empty one.                                             *)
RequestsAnswered == \A p \in Peer : []<>~Owed(p)
=============================================================================
