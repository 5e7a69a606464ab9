------------------------------- MODULE Reactor ------------------------------
(***************************************************************************)
(* The event reactor (internal/reactor/reactor_linux.go): worker loops     *)
(* that accept connections, read and parse requests, and write replies,    *)
(* and Stop, which closes what they hold.                                  *)
(*                                                                         *)
(* What workers share is the connection counter, the engine's session map  *)
(* and the descriptor table of the process; each access is a step.  A      *)
(* worker's todo is what is left of the function it runs.  The input ring  *)
(* is the byte sequence it holds, which RingBuffer shows to be all that    *)
(* can be seen of it.                                                      *)
(***************************************************************************)
EXTENDS Clients

CONSTANTS Worker,     \* in the order of s.workers
          Stopper,
          ReadBuf     \* bytes one read returns at most

ASSUME ReactorAssumption == /\ ReadBuf \in Nat \ {0}
                            /\ Worker \subseteq Nat /\ Stopper \notin Worker

Actor == Worker \cup {Stopper}

VARIABLES fds,        \* descriptor -> the peer it is connected to, 0 if free
          connCount, sessions, conns,
          act,        \* Actor -> what it executes
          stopping,   \* [w: workers told to stop, conns: still to be closed]
          hist        \* history: exempted cases
reactor == <<fds, connCount, sessions, conns, act, stopping, hist>>
rvars == <<clients, reactor>>
net == <<sock, fds>>
shared == <<connCount, sessions>>

Nobody == [todo |-> << >>, c |-> 0, fd |-> 0, id |-> 0, buf |-> << >>]

RInit ==
    /\ fds = [f \in Peer |-> 0]
    /\ connCount = 0 /\ sessions = [i \in {} |-> 0] /\ conns = << >>
    /\ act = [a \in Actor |-> Nobody]
    /\ stopping = [w |-> {}, conns |-> {}, exited |-> {}]
    /\ hist = [full |-> {}, raced |-> FALSE, late |-> {}, robbed |-> {}, made |-> 0]

(* ------------------------------ accepting ------------------------------- *)

Now(a) == IF act[a].todo = << >> THEN "wait" ELSE Head(act[a].todo)
Rest(a) == Tail(act[a].todo)
Running(w) == w \notin stopping.exited

(* Accept4, in a loop that ends when nobody waits: the lowest free           *)
(* descriptor.  Any listener may be given the connection.                    *)
Accept(w) ==
    /\ Now(w) \in {"wait", "accept"} /\ Running(w) /\ w \notin stopping.w
    /\ \E p \in Peer :
         /\ sock[p].st = "backlog"
         /\ LET fd == Min({f \in DOMAIN fds : fds[f] = 0})
            IN  /\ fds' = [fds EXCEPT ![fd] = p]
                /\ act' = [act EXCEPT ![w] =
                     [Nobody EXCEPT !.todo = <<"check", "accept">>, !.fd = fd]]
         /\ sock' = [sock EXCEPT ![p].st = "up"]
    /\ UNCHANGED <<fixed, shared, conns, stopping, hist>>

AcceptNone(w) ==
    /\ Now(w) = "accept"
    /\ w \in stopping.w \/ \A p \in Peer : sock[p].st # "backlog"
    /\ act' = [act EXCEPT ![w] = Nobody]
    /\ UNCHANGED <<fixed, net, shared, conns, stopping, hist>>

(* The counter is read; at the ceiling the connection is closed at once. *)
CheckMax(w) ==
    /\ Now(w) = "check"
    /\ IF plan.maxClients > 0 /\ connCount >= plan.maxClients
       THEN /\ fds' = [fds EXCEPT ![act[w].fd] = 0]
            /\ sock' = [sock EXCEPT ![fds[act[w].fd]].st = "refused"]
            /\ act' = [act EXCEPT ![w].todo = Rest(w)]
       ELSE /\ act' = [act EXCEPT ![w].todo = <<"count", "bind">> \o Rest(w)]
            /\ UNCHANGED net
    /\ UNCHANGED <<fixed, shared, conns, stopping, hist>>

(* connCount.Add(1); the ID of the connection is the value it returns. *)
Count(w) ==
    /\ Now(w) = "count"
    /\ connCount' = connCount + 1
    /\ act' = [act EXCEPT ![w].todo = Rest(w), ![w].id = connCount + 1]
    /\ UNCHANGED <<fixed, net, sessions, conns, stopping, hist>>

(* GetClientSession: the session of that ID, a new one if there is none. *)
Bind(w) ==
    /\ Now(w) = "bind"
    /\ LET id == act[w].id
           s == IF id \in DOMAIN sessions THEN sessions[id] ELSE hist.made + 1
       IN  /\ sessions' = [i \in DOMAIN sessions \cup {id} |->
                             IF i = id THEN s ELSE sessions[i]]
           /\ conns' = Append(conns,
                [peer |-> fds[act[w].fd], fd |-> act[w].fd, id |-> id, w |-> w,
                 ring |-> << >>, out |-> << >>, session |-> s, closed |-> FALSE,
                 quit |-> FALSE])
           /\ hist' = [hist EXCEPT !.made = IF id \in DOMAIN sessions THEN @ ELSE @ + 1,
                         !.late = IF w \in stopping.w THEN @ \cup {Len(conns')} ELSE @]
    /\ act' = [act EXCEPT ![w] = [Nobody EXCEPT !.todo = Rest(w)]]
    /\ UNCHANGED <<fixed, net, connCount, stopping>>

(* ------------------------------- requests ------------------------------- *)

Ready(w, c) ==
    /\ Now(w) = "wait" /\ Running(w)
    /\ conns[c].w = w /\ ~conns[c].closed

(* An error or hang-up event: the connection is closed, read or not. *)
HangUp(w, c) ==
    /\ Ready(w, c) /\ sock[conns[c].peer].gone
    /\ act' = [act EXCEPT ![w] = [Nobody EXCEPT !.todo = <<"close">>, !.c = c]]
    /\ UNCHANGED <<fixed, net, shared, conns, stopping, hist>>

(* Who has the descriptor of a worker's connection now. *)
Target(w) == fds[conns[act[w].c].fd]

(* A read event: the connection is looked up and not closed, and handleRead  *)
(* goes by whether its ring is empty.  What it reads, it reads later, from   *)
(* whoever has the descriptor then.                                          *)
HandleRead(w, c) ==
    /\ Ready(w, c) /\ sock[conns[c].peer].rcv # << >>
    /\ act' = [act EXCEPT ![w] = [Nobody EXCEPT !.c = c,
                 !.todo = IF conns[c].ring = << >> THEN <<"read">> ELSE <<"more", "exec">>]]
    /\ UNCHANGED <<fixed, net, shared, conns, stopping, hist>>

(* What a read returns, at most ReadBuf bytes.  It fails on a closed         *)
(* descriptor and at the end of the input; else no bytes are EAGAIN.         *)
Reading(w) == LET p == Target(w)
              IN  IF p = 0 THEN << >>
                  ELSE SubSeq(sock[p].rcv, 1, Min({ReadBuf, Len(sock[p].rcv)}))
InputEnds(w) == Target(w) # 0 => Reading(w) = << >> /\ sock[Target(w)].gone

Consume(w) ==
    /\ sock' = [sock EXCEPT ![Target(w)].rcv = SubSeq(@, Len(Reading(w)) + 1, Len(@))]
    /\ hist' = [hist EXCEPT !.robbed =
                  IF conns[act[w].c].closed /\ Reading(w) # << >>
                  THEN @ \cup {Target(w)} ELSE @]

(* With an empty ring: what is read is parsed where it is. *)
Read(w) ==
    /\ Now(w) = "read" /\ ~InputEnds(w)
    /\ Consume(w)
    /\ act' = [act EXCEPT ![w].buf = Reading(w),
                 ![w].todo = IF Reading(w) = << >> THEN << >> ELSE <<"exec">>]
    /\ UNCHANGED <<fixed, fds, shared, conns, stopping>>

(* Else it is appended to the ring, and reading goes on while reads are full. *)
ReadMore(w) ==
    /\ Now(w) = "more" /\ ~InputEnds(w)
    /\ Consume(w)
    /\ conns' = [conns EXCEPT ![act[w].c].ring = @ \o Reading(w)]
    /\ act' = [act EXCEPT ![w].todo = IF Len(Reading(w)) = ReadBuf THEN @ ELSE Rest(w)]
    /\ UNCHANGED <<fixed, fds, shared, stopping>>

ReadEnds(w) ==
    /\ Now(w) \in {"read", "more"} /\ InputEnds(w)
    /\ act' = [act EXCEPT ![w].todo = <<"close">>]
    /\ UNCHANGED <<fixed, net, shared, conns, stopping, hist>>

(* What is parsed next: the bytes read, or the ring once they are used up. *)
Source(w) == IF act[w].buf # << >> THEN act[w].buf ELSE conns[act[w].c].ring

Pending(w) == Source(w) # << >>
Parsed(w) == Parse(Source(w))

(* handleRead ends with a flush if there is output. *)
Finish(c) == IF conns[c].out # << >> THEN <<"flush">> ELSE << >>

(* Mutant: the beginning of a request is forgotten. *)
ExecNoneDropped(w) ==
    /\ Now(w) = "exec" /\ (Pending(w) => Parsed(w).kind # "BAD" /\ Parsed(w).n = 0)
    /\ conns' = [conns EXCEPT ![act[w].c].ring = << >>]
    /\ act' = [act EXCEPT ![w].buf = << >>, ![w].todo = Finish(act[w].c)]
    /\ UNCHANGED <<fixed, net, shared, stopping, hist>>

(* Mutant: output is left until there is more input. *)
ExecNoneUnflushed(w) ==
    /\ Now(w) = "exec" /\ (Pending(w) => Parsed(w).kind # "BAD" /\ Parsed(w).n = 0)
    /\ conns' = [conns EXCEPT ![act[w].c].ring = Source(w)]
    /\ act' = [act EXCEPT ![w].buf = << >>, ![w].todo = << >>]
    /\ UNCHANGED <<fixed, net, shared, stopping, hist>>

(* No complete request is left: its beginning is kept in the ring. *)
ExecNone(w) ==
    /\ Now(w) = "exec" /\ (Pending(w) => Parsed(w).kind # "BAD" /\ Parsed(w).n = 0)
    /\ conns' = [conns EXCEPT ![act[w].c].ring = Source(w)]
    /\ act' = [act EXCEPT ![w].buf = << >>, ![w].todo = Finish(act[w].c)]
    /\ UNCHANGED <<fixed, net, shared, stopping, hist>>

(* A protocol error is answered, and the connection is closed. *)
ExecBad(w) ==
    /\ Now(w) = "exec" /\ Pending(w) /\ Parsed(w).kind = "BAD"
    /\ conns' = [conns EXCEPT ![act[w].c].out =
                   Append(@, <<conns[act[w].c].peer, 0>>)]
    /\ act' = [act EXCEPT ![w].buf = << >>, ![w].todo = <<"flush", "close">>]
    /\ UNCHANGED <<fixed, net, shared, stopping, hist>>

(* executeCommand.  QUIT flushes and closes, and the requests behind it are  *)
(* executed all the same; an empty request does nothing.                      *)
ExecCommand(w) ==
    /\ Now(w) = "exec" /\ Pending(w) /\ Parsed(w).n > 0
    /\ LET c == act[w].c
           r == Parsed(w)
           rest == SubSeq(Source(w), r.n + 1, Len(Source(w)))
           fast == act[w].buf # << >>
       IN  /\ conns' = [conns EXCEPT
                ![c].ring = IF fast THEN @ ELSE rest,
                ![c].out = IF r.kind = "EMPTY" THEN @ ELSE Append(@, <<r.p, r.i>>),
                ![c].quit = @ \/ r.kind = "QUIT"]
           /\ act' = [act EXCEPT
                ![w].buf = IF fast THEN rest ELSE @,
                ![w].todo = IF r.kind = "QUIT" THEN <<"flush", "close", "exec">> ELSE @]
           /\ executed' = [executed EXCEPT ![r.p] =
                IF r.kind = "EMPTY" THEN @ ELSE Append(@, r.i)]
           /\ hist' = [hist EXCEPT !.raced = @ \/ conns[c].quit]
    /\ UNCHANGED <<plan, net, shared, stopping>>

(* -------------------------------- output -------------------------------- *)

(* A write puts what there is room for into the send buffer. *)
Put(w, n) ==
    /\ sock' = [sock EXCEPT ![Target(w)].got =
                  @ \o SubSeq(conns[act[w].c].out, 1, n)]
    /\ conns' = [conns EXCEPT ![act[w].c].out = SubSeq(@, n + 1, Len(@))]

WriteFails(w) ==
    /\ Now(w) \in {"flush", "retry"}
    /\ Target(w) # 0 => sock[Target(w)].gone
    /\ act' = [act EXCEPT ![w].todo = <<"close">> \o Rest(w)]
    /\ UNCHANGED <<fixed, net, shared, conns, stopping, hist>>

(* Mutant: what has been written stays in OutBuf. *)
FlushWriteKeeps(w) ==
    /\ Now(w) = "flush" /\ Target(w) # 0 /\ ~sock[Target(w)].gone
    /\ sock' = [sock EXCEPT ![Target(w)].got =
         @ \o SubSeq(conns[act[w].c].out, 1,
                     Min({Room(Target(w)), Len(conns[act[w].c].out)}))]
    /\ act' = [act EXCEPT ![w].todo = Rest(w)]
    /\ UNCHANGED <<fixed, fds, shared, conns, stopping, hist>>

(* flushWrite: until everything is written or the socket is full. *)
FlushWrite(w) ==
    /\ Now(w) = "flush" /\ Target(w) # 0 /\ ~sock[Target(w)].gone
    /\ LET p == Target(w)
           left == Len(conns[act[w].c].out)
           n == Min({Room(p), left})
       IN  /\ Put(w, n)
           /\ act' = [act EXCEPT ![w].todo =
                        IF n = left THEN Rest(w) ELSE <<"retry">> \o Rest(w)]
           /\ hist' = [hist EXCEPT !.full = IF n = left THEN @ ELSE @ \cup {p}]
    /\ UNCHANGED <<fixed, fds, shared, stopping>>

(* Up to fifty more attempts: the first that writes anything is the last,    *)
(* and what is left stays in OutBuf until the next flush.                    *)
Retry(w) ==
    /\ Now(w) = "retry" /\ Target(w) # 0 /\ ~sock[Target(w)].gone
    /\ Put(w, Min({Room(Target(w)), Len(conns[act[w].c].out)}))
    /\ act' = [act EXCEPT ![w].todo = Rest(w)]
    /\ UNCHANGED <<fixed, fds, shared, stopping, hist>>

(* ------------------------------- closing -------------------------------- *)

(* Mutant: a connection that is closed already is closed again. *)
CloseConnAgain(a) ==
    /\ Now(a) = "close"
    /\ LET c == act[a].c
       IN  /\ conns' = [conns EXCEPT ![c].closed = TRUE]
           /\ fds' = [fds EXCEPT ![conns[c].fd] = 0]
           /\ sock' = [sock EXCEPT ![conns[c].peer].st = "closed"]
    /\ act' = [act EXCEPT ![a].todo = <<"uncount", "clear">> \o Rest(a)]
    /\ UNCHANGED <<fixed, shared, stopping, hist>>

(* closeConn: only the first caller closes the descriptor, gives the count   *)
(* back and clears the session of the ID.                                    *)
CloseConn(a) ==
    /\ Now(a) = "close"
    /\ LET c == act[a].c
       IN  IF conns[c].closed
           THEN /\ act' = [act EXCEPT ![a].todo = Rest(a)]
                /\ UNCHANGED <<net, conns, hist>>
           ELSE /\ conns' = [conns EXCEPT ![c].closed = TRUE]
                /\ fds' = [fds EXCEPT ![conns[c].fd] = 0]
                /\ sock' = [sock EXCEPT ![conns[c].peer].st = "closed"]
                /\ act' = [act EXCEPT ![a].todo = <<"uncount", "clear">> \o Rest(a)]
                /\ hist' = [hist EXCEPT !.raced = @ \/ \E w \in Worker \ {a} :
                              act[w].c = c /\ act[w].todo # << >>]
    /\ UNCHANGED <<fixed, shared, stopping>>

Uncount(a) ==
    /\ Now(a) = "uncount"
    /\ connCount' = connCount - 1
    /\ act' = [act EXCEPT ![a].todo = Rest(a)]
    /\ UNCHANGED <<fixed, net, sessions, conns, stopping, hist>>

ClearClientSession(a) ==
    /\ Now(a) = "clear"
    /\ sessions' = Restrict(sessions, DOMAIN sessions \ {conns[act[a].c].id})
    /\ act' = [act EXCEPT ![a].todo = Rest(a)]
    /\ UNCHANGED <<fixed, net, connCount, conns, stopping, hist>>

(* Stop: worker after worker it closes the stop channel and the listener and *)
(* then the connections the worker has at that time.                         *)
StopWorker(w) ==
    /\ plan.stop /\ w \notin stopping.w /\ w = Min(Worker \ stopping.w)
    /\ Now(Stopper) = "wait" /\ stopping.conns = {}
    /\ stopping' = [stopping EXCEPT !.w = @ \cup {w},
         !.conns = {c \in DOMAIN conns : conns[c].w = w /\ ~conns[c].closed}]
    /\ UNCHANGED <<fixed, net, shared, conns, act, hist>>

StopConn(c) ==
    /\ Now(Stopper) = "wait" /\ c \in stopping.conns
    /\ stopping' = [stopping EXCEPT !.conns = @ \ {c}]
    /\ act' = [act EXCEPT ![Stopper] = [Nobody EXCEPT !.todo = <<"close">>, !.c = c]]
    /\ UNCHANGED <<fixed, net, shared, conns, hist>>

(* A worker that was told to stop leaves its loop. *)
Exit(w) ==
    /\ Now(w) = "wait" /\ w \in stopping.w /\ Running(w)
    /\ stopping' = [stopping EXCEPT !.exited = @ \cup {w}]
    /\ UNCHANGED <<fixed, net, shared, conns, act, hist>>

Stopped == /\ stopping.exited = Worker /\ stopping.conns = {}
           /\ Now(Stopper) = "wait"

Closing(a) == CloseConn(a) \/ Uncount(a) \/ ClearClientSession(a)

WorkerStep(w) == \/ Accept(w) \/ AcceptNone(w) \/ CheckMax(w) \/ Count(w) \/ Bind(w)
                 \/ Read(w) \/ ReadMore(w) \/ ReadEnds(w)
                 \/ ExecNone(w) \/ ExecBad(w) \/ ExecCommand(w)
                 \/ FlushWrite(w) \/ Retry(w) \/ WriteFails(w) \/ Exit(w) \/ Closing(w)

RNext ==
    \/ \E w \in Worker : \/ WorkerStep(w) \/ StopWorker(w)
                         \/ \E c \in DOMAIN conns : HandleRead(w, c) \/ HangUp(w, c)
    \/ \E c \in stopping.conns : StopConn(c)
    \/ Closing(Stopper)

(* ------------------------------ properties ------------------------------ *)

Open == {c \in DOMAIN conns : ~conns[c].closed}

(* The books of the reactor are right, however often and by whom closeConn   *)
(* is called.  The counter is the number of connections being opened, open,  *)
(* and being closed: places are neither lost, which would end in refusing    *)
(* everybody, nor given out twice.  The descriptor of an open connection is  *)
(* that of its peer.  "binds a ClientSession directly to the active TCP      *)
(* connection" (docs/architecture.md:90): connections do not share a         *)
(* session, with its MULTI queue and watched keys, as long as none has been  *)
(* closed (a closed one gives its number back, and the next ID is the ID of  *)
(* a connection that may still be open).  And once Stop has returned none is *)
(* left open but those that a worker was accepting meanwhile.                *)
BooksExact ==
    /\ connCount = Cardinality(Open)
                   + Cardinality({w \in Worker : Now(w) = "bind"})
                   + Cardinality({a \in Actor : Now(a) = "uncount"})
    /\ \A c \in Open : fds[conns[c].fd] = conns[c].peer
    /\ Open = DOMAIN conns =>
         \A c, d \in Open : conns[c].session = conns[d].session => c = d
    /\ Stopped => Open \subseteq hist.late

(* A peer receives the replies to its own requests, in order and without a   *)
(* gap, also when its socket was full in between.  Exempt is what follows    *)
(* from working on a closed connection, whose descriptor may belong to       *)
(* somebody else by then: requests behind QUIT are executed and answered,    *)
(* and Stop closes connections that workers are using.                       *)
OwnReplies ==
    ~hist.raced =>
       \A p \in Peer :
          /\ \A r \in ToSet(sock[p].got) : Len(r) = 2 => r[1] = p
          /\ IsPrefix([i \in DOMAIN Replies(p) |-> Replies(p)[i][2]], executed[p])
=============================================================================
