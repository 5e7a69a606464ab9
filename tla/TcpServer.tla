------------------------------ MODULE TcpServer -----------------------------
(***************************************************************************)
(* The server with one goroutine per connection (internal/server/tcp.go),  *)
(* used with TLS and when the reactor is not wanted or cannot start, and   *)
(* the publish/subscribe broker (internal/pubsub/broker.go), which only    *)
(* this server offers to subscribers.                                      *)
(*                                                                         *)
(* A goroutine's todo is what is left of the function it runs; writes      *)
(* block while the socket is full.  The subscriber queue of a connection   *)
(* is named by its peer.  Publish holds the read lock of the broker, so    *)
(* subscriptions change only between publications, but publications run    *)
(* side by side.                                                           *)
(***************************************************************************)
EXTENDS Clients

CONSTANTS Channel,    \* the channels of a SUBSCRIBE request, 1 .. n
          QueueCap,   \* capacity of a subscriber queue (256)
          CmdCap      \* capacity of clientCmdChan (10)

ASSUME TcpAssumption == /\ Channel = 1 .. Cardinality(Channel)
                        /\ QueueCap \in Nat \ {0} /\ CmdCap \in Nat \ {0}

VARIABLES acceptor,   \* [pc, p]: the accept loop and the connection it has
          active,     \* Telemetry.ActiveConnections
          h,          \* Peer -> the goroutines of its connection
          broker,     \* Channel -> the subscribed queues
          promise     \* history: [p: messages owed to p, lost: queue was full]
tcp == <<acceptor, active, h, broker, promise>>

NoConn == [todo |-> << >>, buf |-> << >>, out |-> << >>, authed |-> FALSE,
           sub |-> 0, ch |-> 0, left |-> {}, msg |-> 0,
           queue |-> << >>, cmds |-> << >>, err |-> FALSE, done |-> FALSE,
           reader |-> "none", cmd |-> [kind |-> "EMPTY", i |-> 0]]

TInit ==
    /\ acceptor = [pc |-> "accept", p |-> 0]
    /\ active = 0
    /\ h = [p \in Peer |-> NoConn]
    /\ broker = [ch \in Channel |-> {}]
    /\ promise = [owed |-> [p \in Peer |-> {}], lost |-> [p \in Peer |-> {}]]

(* ------------------------------ accepting ------------------------------- *)

TAccept(p) ==
    /\ acceptor.pc = "accept" /\ sock[p].st = "backlog"
    /\ sock' = [sock EXCEPT ![p].st = "up"]
    /\ acceptor' = [pc |-> "check", p |-> p]
    /\ UNCHANGED <<fixed, active, h, broker, promise>>

(* Mutant: the ceiling itself is let in. *)
AdmitOver ==
    /\ acceptor.pc = "check"
    /\ acceptor' = [pc |-> "accept", p |-> 0]
    /\ IF plan.maxClients > 0 /\ active > plan.maxClients
       THEN /\ sock' = [sock EXCEPT ![acceptor.p].st = "refused"]
            /\ UNCHANGED <<active, h>>
       ELSE /\ active' = active + 1
            /\ h' = [h EXCEPT ![acceptor.p].todo = <<"read">>]
            /\ UNCHANGED sock
    /\ UNCHANGED <<fixed, broker, promise>>

(* The ceiling: a snapshot of the telemetry is taken, then the connection    *)
(* is counted and its goroutine started, or it is refused.                   *)
Admit ==
    /\ acceptor.pc = "check"
    /\ acceptor' = [pc |-> "accept", p |-> 0]
    /\ IF plan.maxClients > 0 /\ active >= plan.maxClients
       THEN /\ sock' = [sock EXCEPT ![acceptor.p].st = "refused"]
            /\ UNCHANGED <<active, h>>
       ELSE /\ active' = active + 1
            /\ h' = [h EXCEPT ![acceptor.p].todo = <<"read">>]
            /\ UNCHANGED sock
    /\ UNCHANGED <<fixed, broker, promise>>

(* Stop closes the listener and waits for the accept loop; connections are   *)
(* left alone.                                                               *)
StopListening ==
    /\ plan.stop /\ acceptor.pc = "accept"
    /\ acceptor' = [acceptor EXCEPT !.pc = "stopped"]
    /\ UNCHANGED <<clients, active, h, broker, promise>>

(* ------------------------------- requests ------------------------------- *)

Doing(p) == IF h[p].todo = << >> THEN "nothing" ELSE Head(h[p].todo)
Then(p) == Tail(h[p].todo)
Cleanup == <<"done", "unsubscribe", "close", "uncount">>
Closed(p) == sock[p].st # "up"

(* ReadCommand needs more input: of the handler, or of the reader goroutine  *)
(* once the connection is subscribed.                                        *)
Reads(p) == Doing(p) = "read" \/ h[p].reader = "reading"
Complete(p) == h[p].buf # << >> /\ LET r == Parse(h[p].buf) IN r.n > 0 \/ r.kind = "BAD"

Fill(p) ==
    /\ Reads(p) /\ ~Complete(p) /\ ~Closed(p) /\ sock[p].rcv # << >>
    /\ h' = [h EXCEPT ![p].buf = @ \o sock[p].rcv]
    /\ sock' = [sock EXCEPT ![p].rcv = << >>]
    /\ UNCHANGED <<fixed, acceptor, active, broker, promise>>

(* The connection is at its end, or the input is no request. *)
Fails(p) == IF Complete(p) THEN Parse(h[p].buf).kind = "BAD"
            ELSE Closed(p) \/ (sock[p].gone /\ sock[p].rcv = << >>)

ReadFails(p) ==
    /\ Doing(p) = "read" /\ Fails(p)
    /\ h' = [h EXCEPT ![p].todo = Cleanup]
    /\ UNCHANGED <<clients, acceptor, active, broker, promise>>

Allowed(p) == ~plan.password \/ h[p].authed

(* handleConnection: one request.  A reply stays in the write buffer while   *)
(* there is more input in the read buffer.                                   *)
Handle(p) ==
    /\ Doing(p) = "read" /\ Complete(p) /\ ~Fails(p)
    /\ LET r == Parse(h[p].buf)
           buf == SubSeq(h[p].buf, r.n + 1, Len(h[p].buf))
           reply == [h[p] EXCEPT !.buf = buf, !.out = Append(@, <<p, r.i>>)]
           takes == r.kind \in {"SUBSCRIBE", "PSYNC"} /\ Allowed(p)
       IN  /\ h' = [h EXCEPT ![p] =
                CASE r.kind = "EMPTY" -> [h[p] EXCEPT !.buf = buf]
                  [] r.kind = "QUIT" -> [reply EXCEPT !.todo = <<"flush">> \o Cleanup]
                  [] r.kind = "PSYNC" /\ takes ->
                       [h[p] EXCEPT !.buf = buf, !.todo = <<"psync">> \o Cleanup]
                  [] r.kind = "SUBSCRIBE" /\ takes ->
                       [reply EXCEPT !.sub = r.i, !.ch = 1,
                                     !.todo = <<"subscribe", "tryflush", "start", "pump">>]
                  [] r.kind \in {"SUBSCRIBE", "PSYNC"} /\ ~takes ->
                       [reply EXCEPT !.todo = <<"tryflush", "read">>]
                  [] r.kind = "PUBLISH" /\ Allowed(p) ->
                       [h[p] EXCEPT !.buf = buf, !.msg = r.i, !.todo = <<"publish", "read">>]
                  [] OTHER ->
                       [reply EXCEPT !.authed = @ \/ r.kind = "AUTH",
                          !.todo = IF buf = << >> THEN <<"flush", "read">> ELSE @]]
           /\ executed' = [executed EXCEPT ![p] =
                IF r.kind = "EMPTY" THEN @ ELSE Append(@, r.i)]
    /\ UNCHANGED <<plan, sock, acceptor, active, broker, promise>>

(* HandlePSync has the connection until it ends. *)
PSyncEnds(p) ==
    /\ Doing(p) = "psync" /\ sock[p].gone
    /\ h' = [h EXCEPT ![p].todo = Then(p)]
    /\ UNCHANGED <<clients, acceptor, active, broker, promise>>

(* A write error ends the connection, except where it is ignored. *)
Flush(p) ==
    /\ Doing(p) \in {"flush", "tryflush"} /\ (sock[p].gone \/ Room(p) > 0 \/ h[p].out = << >>)
    /\ LET n == Min({Room(p), Len(h[p].out)})
       IN  IF sock[p].gone
           THEN /\ h' = [h EXCEPT ![p].out = << >>,
                          ![p].todo = IF Doing(p) = "flush" THEN Cleanup ELSE Then(p)]
                /\ UNCHANGED sock
           ELSE /\ sock' = [sock EXCEPT ![p].got = @ \o SubSeq(h[p].out, 1, n)]
                /\ h' = [h EXCEPT ![p].out = SubSeq(@, n + 1, Len(@)),
                          ![p].todo = IF n = Len(h[p].out) THEN Then(p) ELSE @]
    /\ UNCHANGED <<fixed, acceptor, active, broker, promise>>

(* -------------------------------- broker -------------------------------- *)

Publishing == {p \in Peer : Doing(p) = "deliver"}

(* Mutant: the reply is flushed before the last channel is subscribed. *)
SubscribeLate(p) ==
    /\ Doing(p) = "subscribe" /\ Publishing = {}
    /\ broker' = [broker EXCEPT ![h[p].ch] = @ \cup {p}]
    /\ h' = [h EXCEPT ![p].ch = @ + 1, ![p].todo =
                IF h[p].ch + 1 \in Channel THEN <<"tryflush", "subscribe">> \o Tail(Then(p))
                ELSE Then(p)]
    /\ UNCHANGED <<clients, acceptor, active, promise>>

(* Broker.Subscribe, channel after channel. *)
Subscribe(p) ==
    /\ Doing(p) = "subscribe" /\ Publishing = {}
    /\ broker' = [broker EXCEPT ![h[p].ch] = @ \cup {p}]
    /\ h' = [h EXCEPT ![p].ch = @ + 1,
                      ![p].todo = IF h[p].ch + 1 \in Channel THEN @ ELSE Then(p)]
    /\ UNCHANGED <<clients, acceptor, active, promise>>

(* Broker.Publish takes the read lock ... *)
Publish(p, ch) ==
    /\ Doing(p) = "publish"
    /\ h' = [h EXCEPT ![p].left = broker[ch], ![p].todo = <<"deliver">> \o Then(p)]
    /\ promise' = [promise EXCEPT !.owed = [q \in Peer |->
          IF h[q].sub # 0 /\ <<q, h[q].sub>> \in ToSet(sock[q].got)
          THEN @[q] \cup {<<p, h[p].msg>>} ELSE @[q]]]
    /\ UNCHANGED <<clients, acceptor, active, broker>>

(* Mutant: it waits until the queue has room. *)
DeliverWaits(p, q) ==
    /\ Doing(p) = "deliver" /\ q \in h[p].left /\ Len(h[q].queue) < QueueCap
    /\ h' = [h EXCEPT ![p].left = @ \ {q},
                       ![q].queue = Append(@, <<p, h[p].msg, "message">>)]
    /\ UNCHANGED <<clients, acceptor, active, broker, promise>>

(* ... and offers the message to one queue after the other, in any order; a  *)
(* full queue does not get it.                                               *)
Deliver(p, q) ==
    /\ Doing(p) = "deliver" /\ q \in h[p].left
    /\ LET full == Len(h[q].queue) >= QueueCap
           m == <<p, h[p].msg, "message">>
       IN  /\ h' = [h EXCEPT ![p].left = @ \ {q},
                             ![q].queue = IF full THEN @ ELSE Append(@, m)]
           /\ promise' = [promise EXCEPT !.lost[q] =
                IF full THEN @ \cup {<<p, h[p].msg>>} ELSE @]
    /\ UNCHANGED <<clients, acceptor, active, broker>>

(* The number of deliveries is the reply. *)
Published(p) ==
    /\ Doing(p) = "deliver" /\ h[p].left = {}
    /\ h' = [h EXCEPT ![p].out = Append(@, <<p, h[p].msg>>),
                ![p].todo = IF h[p].buf = << >> THEN <<"flush">> \o Then(p) ELSE Then(p)]
    /\ UNCHANGED <<clients, acceptor, active, broker, promise>>

(* UnsubscribeAll, when the connection ends. *)
UnsubscribeAll(p) ==
    /\ Doing(p) = "unsubscribe" /\ (h[p].sub # 0 => Publishing = {})
    /\ broker' = [ch \in Channel |-> broker[ch] \ {p}]
    /\ h' = [h EXCEPT ![p].todo = Then(p)]
    /\ UNCHANGED <<clients, acceptor, active, promise>>

(* ----------------------------- subscribers ------------------------------ *)

(* handleSubscribedClient starts a goroutine that reads requests. *)
StartReader(p) ==
    /\ Doing(p) = "start"
    /\ h' = [h EXCEPT ![p].reader = "reading", ![p].todo = Then(p)]
    /\ UNCHANGED <<clients, acceptor, active, broker, promise>>

ReaderReads(p) ==
    /\ h[p].reader = "reading" /\ Complete(p) /\ ~Fails(p)
    /\ LET r == Parse(h[p].buf)
       IN  h' = [h EXCEPT ![p].buf = SubSeq(@, r.n + 1, Len(@)), ![p].reader = "sending",
                          ![p].cmd = [kind |-> r.kind, i |-> r.i]]
    /\ UNCHANGED <<clients, acceptor, active, broker, promise>>

ReaderSends(p) ==
    /\ h[p].reader = "sending" /\ Len(h[p].cmds) < CmdCap
    /\ h' = [h EXCEPT ![p].cmds = Append(@, h[p].cmd), ![p].reader = "reading"]
    /\ UNCHANGED <<clients, acceptor, active, broker, promise>>

(* Mutant: a request is handed over without regard to doneChan. *)
ReaderEndsOnError(p) ==
    /\ h[p].reader = "reading" /\ Fails(p)
    /\ h' = [h EXCEPT ![p].reader = "ended", ![p].err = TRUE]
    /\ UNCHANGED <<clients, acceptor, active, broker, promise>>

(* Told that nobody listens any more, or at the end of the input. *)
ReaderEnds(p) ==
    /\ \/ /\ h[p].reader = "sending" /\ h[p].done
          /\ h' = [h EXCEPT ![p].reader = "ended"]
       \/ /\ h[p].reader = "reading" /\ Fails(p)
          /\ h' = [h EXCEPT ![p].reader = "ended", ![p].err = TRUE]
    /\ UNCHANGED <<clients, acceptor, active, broker, promise>>

PumpMessage(p) ==
    /\ Doing(p) = "pump" /\ h[p].queue # << >>
    /\ h' = [h EXCEPT ![p].queue = Tail(@), ![p].out = Append(@, Head(h[p].queue)),
                      ![p].todo = <<"tryflush">> \o @]
    /\ UNCHANGED <<clients, acceptor, active, broker, promise>>

PumpCommand(p) ==
    /\ Doing(p) = "pump" /\ h[p].cmds # << >>
    /\ LET r == Head(h[p].cmds)
           reply == [h[p] EXCEPT !.cmds = Tail(@), !.out = Append(@, <<p, r.i>>)]
       IN  /\ h' = [h EXCEPT ![p] =
                CASE r.kind = "EMPTY" -> [h[p] EXCEPT !.cmds = Tail(@)]
                  [] r.kind = "QUIT" -> [h[p] EXCEPT !.cmds = Tail(@), !.todo = Cleanup]
                  [] r.kind = "SUBSCRIBE" ->
                       [reply EXCEPT !.ch = 1, !.todo = <<"subscribe", "tryflush">> \o @]
                  [] OTHER -> [reply EXCEPT !.todo = <<"tryflush">> \o @]]
           /\ executed' = [executed EXCEPT ![p] =
                IF r.kind = "EMPTY" THEN @ ELSE Append(@, r.i)]
    /\ UNCHANGED <<plan, sock, acceptor, active, broker, promise>>

PumpError(p) ==
    /\ Doing(p) = "pump" /\ h[p].err
    /\ h' = [h EXCEPT ![p].todo = Cleanup]
    /\ UNCHANGED <<clients, acceptor, active, broker, promise>>

(* ------------------------------- closing -------------------------------- *)

(* close(doneChan), when handleSubscribedClient returns. *)
CloseDone(p) ==
    /\ Doing(p) = "done"
    /\ h' = [h EXCEPT ![p].done = TRUE, ![p].todo = Then(p)]
    /\ UNCHANGED <<clients, acceptor, active, broker, promise>>

(* The socket is closed and the session cleared, then the place given back. *)
TClose(p) ==
    /\ Doing(p) = "close"
    /\ sock' = [sock EXCEPT ![p].st = "closed"]
    /\ h' = [h EXCEPT ![p].todo = Then(p)]
    /\ UNCHANGED <<fixed, acceptor, active, broker, promise>>

DecrConnections(p) ==
    /\ Doing(p) = "uncount"
    /\ active' = active - 1
    /\ h' = [h EXCEPT ![p].todo = Then(p)]
    /\ UNCHANGED <<clients, acceptor, broker, promise>>

Handler(p) == \/ ReadFails(p) \/ Handle(p) \/ PSyncEnds(p) \/ Flush(p) \/ Subscribe(p)
              \/ (\E ch \in Channel : Publish(p, ch)) \/ (\E q \in Peer : Deliver(p, q))
              \/ Published(p) \/ StartReader(p) \/ PumpMessage(p) \/ PumpCommand(p)
              \/ PumpError(p) \/ UnsubscribeAll(p) \/ CloseDone(p) \/ TClose(p)
              \/ DecrConnections(p)
Reader(p) == ReaderReads(p) \/ ReaderSends(p) \/ ReaderEnds(p)

TNext == \/ \E p \in Peer : TAccept(p) \/ Handler(p) \/ Reader(p) \/ Fill(p)
         \/ Admit \/ StopListening

(* ------------------------------ properties ------------------------------ *)

Live == {p \in Peer : h[p].todo # << >>}
InOrder(s) == \A i, j \in DOMAIN s : i < j /\ s[i][1] = s[j][1] => s[i][2] < s[j][2]

(* A subscriber that has been told of its subscription gets every message    *)
(* published from then on unless its queue was full, and the messages of a   *)
(* publisher in the order of publication, whatever requests it sends and     *)
(* however many publish at a time.                                           *)
SubscriberServed ==
    \A p \in Peer :
       LET stream == SelectSeq(sock[p].got \o h[p].out, LAMBDA m : Len(m) = 3) \o h[p].queue
       IN  /\ InOrder(stream)
           /\ Doing(p) \notin ToSet(Cleanup) /\ ~sock[p].gone /\ ~Closed(p) =>
                \A m \in promise.owed[p] \ promise.lost[p] :
                   \/ \E i \in DOMAIN stream : <<stream[i][1], stream[i][2]>> = m
                   \/ Doing(m[1]) = "deliver" /\ h[m[1]].msg = m[2] /\ p \in h[m[1]].left

LeftBehind(p) == \/ h[p].done /\ h[p].reader \notin {"none", "ended"}
                 \/ Closed(p) /\ \E ch \in Channel : p \in broker[ch]

(* A connection that has ended, in whatever way, leaves nothing behind: the  *)
(* goroutine that reads for a subscriber ends too, also when it has a        *)
(* request to hand over and nobody takes it, and no queue of it is left in   *)
(* the broker, to be filled and kept for ever.                               *)
ReadersEnd == \A p \in Peer : []<>~LeftBehind(p)

(* "Non-blocking drop if channel buffer full to avoid stalling publisher"    *)
(* (broker.go:69): PUBLISH returns, whether subscribers read or not.         *)
PublishReturns == \A p \in Peer : []<>(Doing(p) # "deliver")
=============================================================================
