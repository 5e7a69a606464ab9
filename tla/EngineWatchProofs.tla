------------------------- MODULE EngineWatchProofs --------------------------
(* Proofs about module Engine: the count of the sessions that watch keys,   *)
(* and the transactions whose watched keys are changed.                     *)
EXTENDS EngineProofs

(* As long as no identifier was given out while in use, every connection    *)
(* has a session of its own, which is the one the map has for its           *)
(* identifier, and the map has no others.                                   *)
Bound == /\ \A c \in Open : clientSessions[conn[c].id] = conn[c].s
         /\ \A c, d \in Open : conn[c].id = conn[d].id => c = d
         /\ \A i \in ID : clientSessions[i] # NoSession
                            => \E c \in Open : conn[c].id = i
         /\ \A c, d \in Open : conn[c].s = conn[d].s => c = d

(* A session object that is not in the map is as good as new. *)
Free == \A o \in Obj \ Live : /\ sess[o] = NewSession /\ ~stale[o]
                              /\ \A c \in Client : o \notin hit[c]

(* Only a connection that is open runs a command. *)
JobOpen == \A c \in Client : job[c].stage # "idle" => c \in Open

LEMMA LiveOpen ==
  ASSUME ConnInv, Bound
  PROVE  Live = {conn[c].s : c \in Open}
  <1>1. ASSUME NEW o \in Live  PROVE \E c \in Open : o = conn[c].s
    <2>1. PICK i \in ID : o = clientSessions[i] /\ o # NoSession
      BY DEF Live
    <2>2. PICK c \in Open : conn[c].id = i
      BY <2>1 DEF Bound
    <2> QED  BY <2>1, <2>2 DEF Bound
  <1>2. ASSUME NEW c \in Open  PROVE conn[c].s \in Live
    <2>1. conn[c].id \in ID /\ conn[c].s \in Obj
      BY OpenConn
    <2>2. conn[c].s # NoSession
      BY <2>1, ObjAssumption
    <2> QED  BY <2>1, <2>2 DEF Bound, Live
  <1> QED  BY <1>1, <1>2

(* The session a connection looks up is its own. *)
LEMMA Lookup ==
  ASSUME ConnInv, Bound, NEW c \in Open, NEW o, GetClientSession(conn[c].id, o)
  PROVE  o = conn[c].s /\ o \in Live /\ clientSessions' = clientSessions
  <1>1. conn[c].id \in ID /\ conn[c].s \in Obj /\ clientSessions[conn[c].id] = conn[c].s
    BY OpenConn DEF Bound
  <1>2. clientSessions[conn[c].id] # NoSession
    BY <1>1, ObjAssumption
  <1>3. o = conn[c].s
    BY <1>1, <1>2 DEF GetClientSession
  <1>4. clientSessions' = clientSessions
    BY <1>1, <1>3 DEF GetClientSession, ConnInv
  <1> QED  BY <1>1, <1>2, <1>3, <1>4 DEF Live

LEMMA OpenLive ==
  ASSUME ConnInv, Bound, NEW c \in Open
  PROVE  conn[c].s \in Live /\ conn[c].s \in Obj
  BY LiveOpen, OpenConn

LEMMA LiveObj == ASSUME ConnInv  PROVE Live \subseteq Obj
  BY DEF Live, ConnInv

(* Steps that leave connections and map alone. *)
LEMMA BoundSame ==
  ASSUME Bound, UNCHANGED <<conn, clientSessions>>
  PROVE  Bound' /\ Live' = Live /\ Open' = Open
  BY DEF Bound, Open, Live

(* A connection that gets an identifier nobody has gets a new session. *)
LEMMA ConnectBound ==
  ASSUME ConnInv, Bound, NEW c \in Client, conn[c] = Closed,
         NEW i \in ID, ~Taken(i), NEW o, GetClientSession(i, o),
         conn' = [conn EXCEPT ![c] = [id |-> i, s |-> o]]
  PROVE  Bound' /\ o \notin Live /\ Live' = Live \cup {o}
  <1>1. o \in Obj /\ o # NoSession
    BY ObjAssumption DEF GetClientSession
  <1>2. clientSessions[i] = NoSession
    BY DEF Bound, Taken
  <1>3. o \notin InUse
    BY <1>1, <1>2 DEF GetClientSession
  <1>4. o \notin Live /\ \A d \in Client : conn[d].s # o
    BY <1>3 DEF InUse
  <1>5. [id |-> i, s |-> o] # Closed
    BY <1>1 DEF Closed
  <1>6. Open' = Open \cup {c} /\ c \notin Open
    BY <1>5 DEF Open, ConnInv
  <1>7. /\ conn'[c].id = i /\ conn'[c].s = o
        /\ \A d \in Open : conn'[d] = conn[d] /\ d \in Client
    BY <1>6 DEF ConnInv, Open
  <1>8. /\ clientSessions'[i] = o
        /\ \A j \in ID \ {i} : clientSessions'[j] = clientSessions[j]
    BY DEF GetClientSession, ConnInv
  <1>9. \A d \in Open : conn[d].id \in ID \ {i}
    BY OpenConn DEF Taken
  <1>10. Bound'
    <2>1. \A d \in Open' : clientSessions'[conn'[d].id] = conn'[d].s
      BY <1>6, <1>7, <1>8, <1>9 DEF Bound
    <2>2. \A d, e \in Open' : conn'[d].id = conn'[e].id => d = e
      BY <1>6, <1>7, <1>9 DEF Bound
    <2>3. \A j \in ID : clientSessions'[j] # NoSession
                          => \E d \in Open' : conn'[d].id = j
      BY <1>6, <1>7, <1>8 DEF Bound
    <2>4. \A d, e \in Open' : conn'[d].s = conn'[e].s => d = e
      BY <1>4, <1>6, <1>7 DEF Bound
    <2> QED  BY <2>1, <2>2, <2>3, <2>4 DEF Bound
  <1>11. Live' = Live \cup {o}
    BY <1>1, <1>2, <1>8 DEF Live
  <1> QED  BY <1>4, <1>10, <1>11

(* A connection that ends takes its session with it. *)
LEMMA HangupBound ==
  ASSUME ConnInv, Bound, NEW c \in Open, Hangup(c)
  PROVE  Bound' /\ Live' = Live \ {conn[c].s} /\ InUse' \cap Obj = Live'
  <1> DEFINE i == conn[c].id
             o == conn[c].s
  <1>0. c \in Client /\ i \in ID /\ o \in Obj /\ o # NoSession
    BY OpenConn, ObjAssumption
  <1>1. /\ conn'[c] = Closed
        /\ \A d \in Client \ {c} : conn'[d] = conn[d]
    BY <1>0 DEF Hangup, ConnInv
  <1>2. /\ clientSessions'[i] = NoSession
        /\ \A j \in ID \ {i} : clientSessions'[j] = clientSessions[j]
    BY <1>0 DEF Hangup, ConnInv
  <1>3. Open' = Open \ {c}
    BY <1>0, <1>1 DEF Open
  <1>4. \A d \in Open' : conn'[d] = conn[d] /\ d \in Open /\ conn[d].id \in ID \ {i}
    BY <1>1, <1>3, OpenConn DEF Bound
  <1>5. Bound'
    <2>1. \A d \in Open' : clientSessions'[conn'[d].id] = conn'[d].s
      BY <1>2, <1>4 DEF Bound
    <2>2. \A d, e \in Open' : conn'[d].id = conn'[e].id => d = e
      BY <1>4 DEF Bound
    <2>3. ASSUME NEW j \in ID, clientSessions'[j] # NoSession
          PROVE  \E d \in Open' : conn'[d].id = j
      <3>1. j # i /\ clientSessions[j] # NoSession
        BY <1>2, <2>3
      <3>2. PICK d \in Open : conn[d].id = j
        BY <3>1 DEF Bound
      <3>3. d \in Open'
        BY <1>3, <3>1, <3>2
      <3> QED  BY <1>4, <3>2, <3>3
    <2>4. \A d, e \in Open' : conn'[d].s = conn'[e].s => d = e
      BY <1>4 DEF Bound
    <2> QED  BY <2>1, <2>2, <2>3, <2>4 DEF Bound
  <1>6. Live' = Live \ {o}
    <2>1. clientSessions[i] = o
      BY DEF Bound
    <2>2. ASSUME NEW j \in ID \ {i}  PROVE clientSessions[j] # o
      <3>1. SUFFICES ASSUME clientSessions[j] = o  PROVE FALSE
        OBVIOUS
      <3>2. PICK d \in Open : conn[d].id = j
        BY <1>0, <3>1 DEF Bound
      <3>3. conn[d].s = o
        BY <3>1, <3>2 DEF Bound
      <3> QED  BY <3>2, <3>3 DEF Bound
    <2> QED  BY <1>0, <1>2, <2>1, <2>2 DEF Live
  <1>7. InUse' \cap Obj = Live'
    <2>1. \A d \in Client : conn'[d].s \in Live' \cup {NoSession}
      <3>1. \A d \in Client \ Open' : conn'[d].s = NoSession
        BY DEF Open, Closed
      <3>2. \A d \in Open' : conn'[d].s \in Live'
        <4>1. \A d \in Open' : conn[d].s # o /\ conn[d].s \in Live
          BY <1>3, <1>4, OpenLive DEF Bound
        <4> QED  BY <1>4, <1>6, <4>1
      <3> QED  BY <3>1, <3>2
    <2>2. Live \subseteq Obj
      BY LiveObj
    <2> QED  BY <1>6, <2>1, <2>2, ObjAssumption DEF InUse
  <1> QED  BY <1>5, <1>6, <1>7
-----------------------------------------------------------------------------
(* What a step may do to the sessions in the map and to their count:        *)
(* nothing that matters to it,                                              *)
Quiet == /\ Live' = Live /\ UNCHANGED watchedCount
         /\ \A o \in Obj : /\ sess'[o].watched = sess[o].watched
                           /\ sess[o].aborted => sess'[o].aborted
         /\ \A o \in Obj \ Live : sess'[o] = sess[o]

(* one session watches more keys, or no key any more,                       *)
Begins == /\ Live' = Live
          /\ \E o \in Live, keys \in Seq(Key) : keys # << >> /\ Watch(o, keys)
Ends == /\ Live' = Live
        /\ \E o \in Live, s \in SessionType : EndWatch(o, s)

(* or one comes or goes.                                                    *)
Opens == \E o \in Obj \ Live :
           Live' = Live \cup {o} /\ UNCHANGED <<sess, watchedCount, hit, stale>>
Closes == \E o \in Live :
            /\ Live' = Live \ {o}
            /\ sess' = [p \in Obj |-> IF p \in Live' THEN sess[p] ELSE NewSession]
            /\ hit' = [d \in Client |-> hit[d] \cap Live']
            /\ stale' = [p \in Obj |-> p \in Live' /\ stale[p]]
            /\ watchedCount' = IF sess[o].watched # {} THEN watchedCount - 1
                               ELSE watchedCount

LEMMA QuietSame ==
  ASSUME Bound, UNCHANGED sessions
  PROVE  Bound' /\ Quiet /\ Open' = Open
  <1>1. UNCHANGED <<conn, clientSessions, sess, watchedCount>>
    BY DEF sessions
  <1>2. Bound' /\ Live' = Live /\ Open' = Open
    BY <1>1, BoundSame
  <1> QED  BY <1>1, <1>2 DEF Quiet

LEMMA DispatchEffect ==
  ASSUME Typed, Bound, NEW c \in Open, NEW op \in Op, DispatchWatch(c, op)
  PROVE  /\ Bound' /\ Open' = Open
         /\ Begins \/ Ends \/ (Quiet /\ UNCHANGED <<sess, seen>>)
  <1>1. PICK o \in Obj :
          /\ GetClientSession(conn[c].id, o)
          /\ \/ op.name = "WATCH" /\ Watch(o, op.keys)
             \/ UNCHANGED <<sess, watchedCount, seen>>
             \/ EndWatch(o, sess[o])
    BY Zenon DEF DispatchWatch
  <1>2. o \in Live /\ clientSessions' = clientSessions
    BY <1>1, Lookup DEF Typed
  <1>3. conn' = conn
    BY DEF DispatchWatch
  <1>4. Bound' /\ Live' = Live /\ Open' = Open
    BY <1>2, <1>3, BoundSame
  <1>5. CASE op.name = "WATCH" /\ Watch(o, op.keys)
    <2>1. op.keys \in Seq(Key) /\ op.keys # << >>
      BY <1>5, OpKeys, WatchKeys, Zenon
    <2>2. Begins
      BY <1>2, <1>4, <1>5, <2>1, Zenon DEF Begins
    <2> QED  BY <1>4, <2>2
  <1>6. CASE UNCHANGED <<sess, watchedCount, seen>>
    BY <1>4, <1>6 DEF Quiet
  <1>7. CASE EndWatch(o, sess[o])
    <2>1. sess[o] \in SessionType
      BY DEF Typed, SessInv
    <2>2. Ends
      BY <1>2, <1>4, <1>7, <2>1, Zenon DEF Ends
    <2> QED  BY <1>4, <2>2
  <1> QED  BY <1>1, <1>5, <1>6, <1>7, Zenon

(* EXEC and DISCARD. *)
LEMMA EndEffect ==
  ASSUME Typed, Bound, NEW c \in Open, UNCHANGED <<conn, clientSessions>>,
         EndWatch(conn[c].s, [sess[conn[c].s] EXCEPT !.multi = FALSE, !.queue = << >>])
  PROVE  Bound' /\ Open' = Open /\ Ends
  <1>1. Bound' /\ Live' = Live /\ Open' = Open
    BY BoundSame
  <1>2. conn[c].s \in Live /\ conn[c].s \in Obj
    BY OpenLive DEF Typed
  <1>3. << >> \in Seq(Op)
    OBVIOUS
  <1>4. [sess[conn[c].s] EXCEPT !.multi = FALSE, !.queue = << >>] \in SessionType
    BY <1>2, <1>3, SessionFields, Zenon DEF Typed, SessInv
  <1> QED  BY <1>1, <1>2, <1>4, Zenon DEF Ends

(* MULTI and a queued command. *)
LEMMA FieldsQuiet ==
  ASSUME Typed, Bound, UNCHANGED <<conn, clientSessions, watchedCount>>,
         NEW o \in Live, NEW m, NEW q,
         \/ sess' = [sess EXCEPT ![o].multi = m, ![o].queue = q]
         \/ sess' = [sess EXCEPT ![o].queue = q]
  PROVE  Bound' /\ Quiet /\ Open' = Open
  <1>1. Bound' /\ Live' = Live /\ Open' = Open
    BY BoundSame
  <1>2. o \in Obj
    BY LiveObj DEF Typed
  <1>0. sess \in [Obj -> SessionType]
    BY DEF Typed, SessInv
  <1>3. \A p \in Obj : sess'[p].watched = sess[p].watched
                       /\ sess'[p].aborted = sess[p].aborted
    <2>1. CASE sess' = [sess EXCEPT ![o].multi = m, ![o].queue = q]
      BY <1>0, <1>2, <2>1 DEF SessionType
    <2>2. CASE sess' = [sess EXCEPT ![o].queue = q]
      BY <1>0, <1>2, <2>2 DEF SessionType
    <2> QED  BY <2>1, <2>2
  <1>4. \A p \in Obj \ Live : sess'[p] = sess[p]
    BY <1>0, <1>2
  <1> QED  BY <1>1, <1>3, <1>4 DEF Quiet

LEMMA SessionEffect ==
  ASSUME Typed, config \in Config, Bound, shared = 0, shared' = 0,
         NEW c \in Client, Session(c)
  PROVE  /\ Bound'
         /\ \/ Quiet /\ UNCHANGED <<job, seen>>
            \/ Quiet /\ UNCHANGED seen /\ Ready(c) /\ job'[c].stage = "apply"
               /\ OthersKeep(c)
            \/ Begins /\ UNCHANGED job
            \/ (Ends \/ Closes) /\ Ready(c) /\ OthersKeep(c)
               /\ job'[c].stage \in {"idle", "next"}
            \/ Opens /\ UNCHANGED job
  <1> USE DEF Typed
  <1>j. ASSUME UNCHANGED job, Ready(c)
        PROVE  OthersKeep(c) /\ job'[c].stage \in {"idle", "next"}
    BY <1>j DEF OthersKeep, Ready
  <1>1. CASE Connect(c)
    <2>1. PICK i \in ID, o \in Obj :
            /\ GetClientSession(i, o)
            /\ conn' = [conn EXCEPT ![c] = [id |-> i, s |-> o]]
            /\ shared' = IF Taken(i) THEN shared + 1 ELSE shared
      BY <1>1, Zenon DEF Connect
    <2>2. ~Taken(i)
      BY <2>1
    <2>3. Bound' /\ o \notin Live /\ Live' = Live \cup {o}
      BY <1>1, <2>1, <2>2, ConnectBound DEF Connect
    <2>4. UNCHANGED <<sess, watchedCount, hit, stale, job>>
      BY <1>1 DEF Connect, seen
    <2> QED  BY <2>3, <2>4, Zenon DEF Opens
  <1>2. CASE Multi(c)
    <2>1. PICK o \in Obj :
            /\ GetClientSession(conn[c].id, o)
            /\ sess' = [sess EXCEPT ![o].multi = TRUE, ![o].queue = << >>]
      BY <1>2, Zenon DEF Multi
    <2>2. c \in Open /\ UNCHANGED <<conn, watchedCount, job, seen>>
      BY <1>2 DEF Multi, Ready
    <2>3. o \in Live /\ clientSessions' = clientSessions
      BY <2>1, <2>2, Lookup
    <2>4. Bound' /\ Quiet
      BY <2>1, <2>2, <2>3, FieldsQuiet
    <2> QED  BY <2>2, <2>4
  <1>3. CASE Discard(c)
    <2>1. Ready(c) /\ c \in Open /\ UNCHANGED <<conn, clientSessions, job>>
      BY <1>3 DEF Discard, Ready
    <2>2. Bound' /\ Ends
      BY <1>3, <2>1, EndEffect DEF Discard
    <2> QED  BY <1>j, <2>1, <2>2
  <1>4. CASE Exec(c)
    <2>1. Ready(c) /\ c \in Open /\ UNCHANGED <<conn, clientSessions>>
      BY <1>4 DEF Exec, Ready
    <2>2. Bound' /\ Ends
      BY <1>4, <2>1, EndEffect DEF Exec
    <2>3. job'[c].stage \in {"idle", "next"} /\ OthersKeep(c)
      BY <1>4, ExecFields
    <2> QED  BY <2>1, <2>2, <2>3
  <1>5. CASE Close(c)
    <2>1. Hangup(c) /\ Ready(c) /\ c \in Open /\ UNCHANGED job
      BY <1>5 DEF Close, Hangup, Ready
    <2>2. Bound' /\ Live' = Live \ {conn[c].s} /\ InUse' \cap Obj = Live'
      BY <2>1, HangupBound
    <2>3. conn[c].s \in Live /\ conn[c].s \in Obj
      BY <2>1, OpenLive
    <2>4. clientSessions[conn[c].id] = conn[c].s /\ conn[c].s # NoSession
      BY <2>1, <2>3, ObjAssumption DEF Bound
    <2>5. watchedCount' = IF sess[conn[c].s].watched # {} THEN watchedCount - 1
                          ELSE watchedCount
      BY <1>5, <2>4 DEF Close
    <2>6. \A p \in Obj : p \in InUse' <=> p \in Live'
      BY <2>2
    <2>7. sess' = [p \in Obj |-> IF p \in Live' THEN sess[p] ELSE NewSession]
      BY <2>1, <2>6 DEF Hangup
    <2>8. hit' = [d \in Client |-> hit[d] \cap Live']
      <3>1. \A d \in Client : hit[d] \cap InUse' = hit[d] \cap Live'
        BY <2>6, LiveObj, Zenon DEF HistInv
      <3> QED  BY <2>1, <3>1 DEF Hangup
    <2>9. stale' = [p \in Obj |-> p \in Live' /\ stale[p]]
      <3>1. \A p \in Obj : (p \in InUse' /\ stale[p]) = (p \in Live' /\ stale[p])
        BY <2>6, Zenon
      <3> QED  BY <2>1, <3>1, Zenon DEF Hangup
    <2>10. Closes
      BY <2>2, <2>3, <2>5, <2>7, <2>8, <2>9, Zenon DEF Closes
    <2> QED  BY <1>j, <2>1, <2>2, <2>10
  <1>6. ASSUME NEW op \in Op, Queue(c, op)
        PROVE  Bound' /\ Quiet /\ UNCHANGED <<job, seen>>
    <2>1. c \in Open /\ UNCHANGED <<conn, clientSessions, watchedCount, job, seen>>
      BY <1>6 DEF Queue, Ready
    <2>2. conn[c].s \in Live
      BY <2>1, OpenLive
    <2>3. sess' = [sess EXCEPT ![conn[c].s].queue = Append(sess[conn[c].s].queue, op)]
      BY <1>6 DEF Queue
    <2> QED  BY <2>1, <2>2, <2>3, FieldsQuiet
  <1>7. ASSUME NEW op \in Op, WatchCommand(c, op)
        PROVE  /\ Bound' /\ UNCHANGED job /\ Ready(c)
               /\ Begins \/ Ends \/ (Quiet /\ UNCHANGED <<sess, seen>>)
    <2>1. c \in Open /\ Ready(c) /\ UNCHANGED job /\ DispatchWatch(c, op)
      BY <1>7 DEF WatchCommand, Ready
    <2> QED  BY <2>1, DispatchEffect
  <1>8. ASSUME NEW op \in Op, WriteCommand(c, op)
        PROVE  /\ Bound' /\ Quiet /\ UNCHANGED seen /\ Ready(c)
               /\ job'[c].stage = "apply" /\ OthersKeep(c)
    <2>1. job'[c].stage = "apply" /\ OthersKeep(c)
      BY <1>8, IdleType, BeginFields DEF WriteCommand
    <2>2. UNCHANGED <<sessions, seen>> /\ Ready(c)
      BY <1>8 DEF WriteCommand
    <2> QED  BY <2>1, <2>2, QuietSame
  <1> QED
    BY <1>j, <1>1, <1>2, <1>3, <1>4, <1>5, <1>6, <1>7, <1>8, CommandsType, Zenon
    DEF Session

(* touchWatchedKey marks sessions and does nothing else to them. *)
LEMMA TouchQuiet ==
  ASSUME Typed, NEW c \in Client, Touch(c)
  PROVE  Quiet
  <1>1. Live' = Live /\ UNCHANGED watchedCount
    BY DEF Touch, Live
  <1>2. \A o \in Obj : /\ sess'[o].watched = sess[o].watched
                       /\ sess[o].aborted => sess'[o].aborted
    <2>1. CASE sess' = sess
      BY <2>1
    <2>2. CASE sess' = [o \in Obj |->
                   IF o \in Live /\ Head(job[c].todo) \in sess[o].watched
                   THEN [sess[o] EXCEPT !.aborted = TRUE] ELSE sess[o]]
      BY <2>2 DEF Typed, SessInv, SessionType
    <2> QED  BY <2>1, <2>2 DEF Touch
  <1>3. \A o \in Obj \ Live : sess'[o] = sess[o]
    BY DEF Touch
  <1> QED  BY <1>1, <1>2, <1>3 DEF Quiet

LEMMA StepEffect ==
  ASSUME Typed, Bound, JobOpen, NEW c \in Client, Step(c)
  PROVE  Bound' /\ Open' = Open /\ (Quiet \/ Begins \/ Ends)
  <1> USE DEF Typed
  <1>1. ASSUME UNCHANGED sessions  PROVE Bound' /\ Open' = Open /\ Quiet
    BY <1>1, QuietSame
  <1>2. CASE Touch(c)
    BY <1>2, TouchQuiet, BoundSame DEF Touch
  <1>3. CASE ExecNext(c)
    <2>1. c \in Open
      BY <1>3 DEF ExecNext, JobOpen
    <2>2. Head(job[c].rest) \in Op
      <3>1. job[c].rest \in Seq(Op)
        BY JobFields, Zenon DEF JobInv
      <3> QED  BY <1>3, <3>1, HeadTail DEF ExecNext
    <2>3. CASE DispatchWatch(c, Head(job[c].rest))
      BY <2>1, <2>2, <2>3, DispatchEffect
    <2>4. CASE UNCHANGED sessions
      BY <1>1, <2>4
    <2> QED  BY <1>3, <2>3, <2>4, Zenon DEF ExecNext
  <1> QED
    BY <1>1, <1>2, <1>3, Zenon
    DEF Step, Apply, Applied, Count, Touched, Memory, Log, Broadcast, ExecEnd
-----------------------------------------------------------------------------
(* watchedCount. *)

Watching == {o \in Live : sess[o].watched # {}}
CountExact == watchedCount = Cardinality(Watching)

LEMMA CountDef == WatchedCountExact <=> (shared = 0 => CountExact)
  BY DEF WatchedCountExact, CountExact, Watching

LEMMA WatchingFinite ==
  ASSUME ConnInv
  PROVE  IsFiniteSet(Watching) /\ Cardinality(Watching) \in Nat
  <1>1. Watching \in SUBSET Obj
    BY LiveObj DEF Watching
  <1>2. IsFiniteSet(Watching)
    BY <1>1, ObjAssumption, FS_Subset
  <1> QED  BY <1>2, FS_CardinalityType

(* With an exact count, a count of zero means that no key is watched. *)
LEMMA NoneWatches ==
  ASSUME ConnInv, CountExact, watchedCount <= 0, NEW o \in Live
  PROVE  sess[o].watched = {}
  <1>1. Cardinality(Watching) = 0
    BY WatchingFinite DEF CountExact
  <1>2. Watching = {}
    BY <1>1, WatchingFinite, FS_EmptySet
  <1> QED  BY <1>2 DEF Watching

(* Whatever a step does to the sessions, the count stays exact. *)
LEMMA CountSame ==
  ASSUME CountExact, UNCHANGED watchedCount, Watching' = Watching
  PROVE  CountExact'
  BY Zenon DEF CountExact

LEMMA CountQuiet ==
  ASSUME ConnInv, CountExact, Quiet
  PROVE  CountExact'
  <1>1. Watching' = Watching
    BY LiveObj DEF Quiet, Watching
  <1> QED  BY <1>1, CountSame DEF Quiet

LEMMA CountBegins ==
  ASSUME Typed, CountExact, Begins
  PROVE  CountExact'
  <1> USE DEF Typed
  <1>1. PICK o \in Live, keys \in Seq(Key) : keys # << >> /\ Watch(o, keys)
    BY DEF Begins
  <1>2. o \in Obj /\ sess[o] \in SessionType
    BY LiveObj DEF SessInv
  <1>3. keys[1] \in Elems(keys)
    BY <1>1 DEF Elems
  <1>4. sess'[o].watched = sess[o].watched \cup Elems(keys)
    BY <1>1, <1>2 DEF Watch, SessInv, SessionType
  <1>5. \A p \in Live \ {o} : sess'[p] = sess[p]
    BY <1>1, <1>2, LiveObj DEF Watch, SessInv
  <1>6. Watching' = Watching \cup {o}
    BY <1>3, <1>4, <1>5 DEF Watching, Begins
  <1>7. Cardinality(Watching') = IF o \in Watching THEN Cardinality(Watching)
                                 ELSE Cardinality(Watching) + 1
    BY <1>6, WatchingFinite, FS_AddElement, Zenon
  <1> QED  BY <1>1, <1>7 DEF CountExact, Watching, Watch

LEMMA CountEnds ==
  ASSUME Typed, CountExact, Ends
  PROVE  CountExact'
  <1> USE DEF Typed
  <1>1. PICK o \in Live, s \in SessionType : EndWatch(o, s)
    BY DEF Ends
  <1>2. o \in Obj
    BY LiveObj
  <1>3. sess'[o].watched = {}
    BY <1>1, <1>2 DEF EndWatch, SessInv, SessionType
  <1>4. \A p \in Live \ {o} : sess'[p] = sess[p]
    BY <1>1, <1>2, LiveObj DEF EndWatch, SessInv
  <1>5. Watching' = Watching \ {o}
    BY <1>3, <1>4 DEF Watching, Ends
  <1>6. Cardinality(Watching') = IF o \in Watching THEN Cardinality(Watching) - 1
                                 ELSE Cardinality(Watching)
    BY <1>5, WatchingFinite, FS_RemoveElement, Zenon
  <1> QED  BY <1>1, <1>6 DEF CountExact, Watching, EndWatch

LEMMA CountOpens ==
  ASSUME CountExact, Free, Opens
  PROVE  CountExact'
  <1>1. PICK o \in Obj \ Live : Live' = Live \cup {o} /\ UNCHANGED <<sess, watchedCount>>
    BY DEF Opens
  <1>2. sess[o].watched = {}
    BY DEF Free, NewSession
  <1>3. Watching' = Watching
    BY <1>1, <1>2 DEF Watching
  <1> QED  BY <1>1, <1>3, CountSame

LEMMA CountCloses ==
  ASSUME Typed, CountExact, Closes
  PROVE  CountExact'
  <1> USE DEF Typed
  <1>1. PICK o \in Live :
          /\ Live' = Live \ {o}
          /\ sess' = [p \in Obj |-> IF p \in Live' THEN sess[p] ELSE NewSession]
          /\ watchedCount' = IF sess[o].watched # {} THEN watchedCount - 1
                             ELSE watchedCount
    BY DEF Closes
  <1>2. \A p \in Live' : sess'[p] = sess[p]
    BY <1>1, LiveObj
  <1>3. Watching' = Watching \ {o}
    BY <1>1, <1>2 DEF Watching
  <1>4. Cardinality(Watching') = IF o \in Watching THEN Cardinality(Watching) - 1
                                 ELSE Cardinality(Watching)
    BY <1>3, WatchingFinite, FS_RemoveElement, Zenon
  <1> QED  BY <1>1, <1>4 DEF CountExact, Watching
-----------------------------------------------------------------------------
(* Transactions whose watched keys are changed.  The keys that a write has  *)
(* still to make known: a session it hit is marked already, or watches one. *)

Pending(c) ==
  IF job[c].stage = "touch" THEN Elems(job[c].todo)
  ELSE IF job[c].stage = "memory" \/ (job[c].stage \in {"log", "cast"} /\ ~job[c].tx)
       THEN {} ELSE Elems(job[c].told)

HitMarked(c, o) == sess[o].aborted \/ Pending(c) \cap sess[o].watched # {}
HitPending == \A c \in Client : \A o \in hit[c] : HitMarked(c, o)
Resting(c) == job[c].stage \in {"idle", "next"}
HitIdle == \A c \in Client : Resting(c) => hit[c] = {}
StaleMarked == \A o \in Obj : stale[o] => sess[o].aborted
WatchInv == HitPending /\ HitIdle /\ StaleMarked

Grows == \A o \in Obj : /\ sess[o].watched \subseteq sess'[o].watched
                        /\ sess[o].aborted => sess'[o].aborted

(* The write of c, if it hit a session, goes on and has as much to tell. *)
Goes(c) == hit[c] = {} \/ (Pending(c) \subseteq Pending(c)' /\ ~Resting(c)')

LEMMA GoesSame ==
  ASSUME HitIdle, NEW c \in Client, job'[c] = job[c]
  PROVE  Goes(c)
  <1>1. Pending(c)' = Pending(c) /\ (Resting(c)' <=> Resting(c))
    BY Zenon DEF Pending, Resting
  <1> QED  BY <1>1, Zenon DEF HitIdle, Goes

LEMMA GoesOthers ==
  ASSUME HitIdle, NEW c \in Client, OthersKeep(c), Goes(c)
  PROVE  \A d \in Client : Goes(d)
  BY GoesSame, Zenon DEF OthersKeep

LEMMA ElemsEmpty == Elems(<< >>) = {}
  BY DEF Elems

LEMMA ElemsTail ==
  ASSUME NEW S, NEW s \in Seq(S), s # << >>
  PROVE  Elems(s) = {Head(s)} \cup Elems(Tail(s))
  <1>1. Len(s) \in Nat \ {0} /\ Head(s) = s[1]
    OBVIOUS
  <1>2. Len(Tail(s)) = Len(s) - 1 /\ \A i \in 1 .. Len(s) - 1 : Tail(s)[i] = s[i + 1]
    BY HeadTailProperties
  <1>3. ASSUME NEW x \in Elems(s)  PROVE x \in {Head(s)} \cup Elems(Tail(s))
    <2>1. PICK i \in 1 .. Len(s) : x = s[i]
      BY DEF Elems
    <2>2. CASE i = 1
      BY <1>1, <2>1, <2>2
    <2>3. CASE i # 1
      <3>1. i - 1 \in 1 .. Len(Tail(s)) /\ Tail(s)[i - 1] = x
        BY <1>1, <1>2, <2>1, <2>3
      <3> QED  BY <3>1 DEF Elems
    <2> QED  BY <2>2, <2>3
  <1>4. ASSUME NEW x \in Elems(Tail(s))  PROVE x \in Elems(s)
    <2>1. PICK i \in 1 .. Len(Tail(s)) : x = Tail(s)[i]
      BY Zenon DEF Elems
    <2>2. i + 1 \in 1 .. Len(s) /\ s[i + 1] = x
      BY <1>1, <1>2, <2>1
    <2> QED  BY <2>2 DEF Elems
  <1>5. Head(s) \in Elems(s)
    BY <1>1 DEF Elems
  <1> QED  BY <1>3, <1>4, <1>5

(* A step after which every session that was marked still is. *)
LEMMA MarkStays ==
  ASSUME NEW c \in Client, NEW o \in Obj, HitMarked(c, o),
         Pending(c) \subseteq Pending(c)',
         sess[o].watched \subseteq sess'[o].watched,
         sess[o].aborted => sess'[o].aborted
  PROVE  HitMarked(c, o)'
  BY Zenon DEF HitMarked

LEMMA WatchKeep ==
  ASSUME HistInv, WatchInv, Grows, UNCHANGED seen, \A c \in Client : Goes(c)
  PROVE  WatchInv'
  <1>0. hit' = hit /\ stale' = stale
    BY DEF seen
  <1>1. StaleMarked'
    BY <1>0, Zenon DEF WatchInv, StaleMarked, Grows
  <1>2. HitIdle'
    BY <1>0, Zenon DEF HitIdle, Goes
  <1>3. ASSUME NEW c \in Client, NEW o \in hit'[c]  PROVE HitMarked(c, o)'
    <2>1. o \in hit[c] /\ o \in Obj
      BY <1>0 DEF HistInv
    <2>2. HitMarked(c, o) /\ Pending(c) \subseteq Pending(c)'
      BY <2>1, Zenon DEF WatchInv, HitPending, Goes
    <2> QED  BY <2>1, <2>2, MarkStays, Zenon DEF Grows
  <1> QED  BY <1>1, <1>2, <1>3, Zenon DEF WatchInv, HitPending

(* The sessions of the map that a step leaves alone, the others being new   *)
(* or without a watch.                                                      *)
LEMMA WatchFewer ==
  ASSUME HistInv, WatchInv, NEW S \in SUBSET Obj,
         \A o \in S : sess'[o] = sess[o] /\ (stale'[o] => stale[o]),
         \A o \in Obj \ S : ~stale'[o],
         \A c \in Client : hit'[c] \subseteq hit[c] \cap S,
         \A c \in Client : Goes(c)
  PROVE  WatchInv'
  <1>1. StaleMarked'
    BY Zenon DEF WatchInv, StaleMarked
  <1>2. HitIdle'
    <2>1. ASSUME NEW c \in Client, Resting(c)'  PROVE hit'[c] = {}
      <3>1. hit[c] = {}
        BY <2>1, Zenon DEF Goes
      <3> QED  BY <3>1, Zenon
    <2> QED  BY <2>1, Zenon DEF HitIdle
  <1>3. ASSUME NEW c \in Client, NEW o \in hit'[c]  PROVE HitMarked(c, o)'
    <2>1. o \in hit[c] /\ o \in S /\ o \in Obj
      BY Zenon
    <2>2. HitMarked(c, o) /\ Pending(c) \subseteq Pending(c)'
      BY <2>1, Zenon DEF WatchInv, HitPending, Goes
    <2>3. sess'[o] = sess[o]
      BY <2>1
    <2> QED  BY <2>1, <2>2, <2>3, MarkStays, Zenon
  <1> QED  BY <1>1, <1>2, <1>3, Zenon DEF WatchInv, HitPending

LEMMA WatchBegins ==
  ASSUME Typed, WatchInv, Begins, \A c \in Client : Goes(c)
  PROVE  WatchInv'
  <1> USE DEF Typed
  <1>1. PICK o \in Live, keys \in Seq(Key) : Watch(o, keys)
    BY DEF Begins
  <1>2. o \in Obj
    BY LiveObj
  <1>3. Grows /\ UNCHANGED seen
    BY <1>1, <1>2 DEF Watch, Grows, SessInv, SessionType
  <1> QED  BY <1>3, WatchKeep

LEMMA WatchEnds ==
  ASSUME Typed, WatchInv, Ends, \A c \in Client : Goes(c)
  PROVE  WatchInv'
  <1> USE DEF Typed
  <1>1. PICK o \in Live, s \in SessionType : EndWatch(o, s)
    BY DEF Ends
  <1>2. o \in Obj
    BY LiveObj
  <1>3. \A p \in Obj \ {o} : sess'[p] = sess[p] /\ stale'[p] = stale[p]
    BY <1>1, <1>2 DEF EndWatch, SessInv, HistInv
  <1>4. ~stale'[o]
    BY <1>1, <1>2, Zenon DEF EndWatch, HistInv
  <1>5. \A c \in Client : hit'[c] \subseteq hit[c] \cap (Obj \ {o})
    BY <1>1 DEF EndWatch, HistInv
  <1> QED  BY <1>2, <1>3, <1>4, <1>5, WatchFewer

LEMMA WatchCloses ==
  ASSUME Typed, WatchInv, Closes, \A c \in Client : Goes(c)
  PROVE  WatchInv'
  <1> USE DEF Typed
  <1>1. PICK o \in Live :
          /\ Live' = Live \ {o}
          /\ sess' = [p \in Obj |-> IF p \in Live' THEN sess[p] ELSE NewSession]
          /\ hit' = [d \in Client |-> hit[d] \cap Live']
          /\ stale' = [p \in Obj |-> p \in Live' /\ stale[p]]
    BY DEF Closes
  <1>2. Live' \in SUBSET Obj
    BY <1>1, LiveObj
  <1>3. \A p \in Live' : sess'[p] = sess[p] /\ (stale'[p] => stale[p])
    BY <1>1, <1>2, Zenon
  <1>4. \A p \in Obj \ Live' : ~stale'[p]
    BY <1>1, Zenon
  <1>5. \A c \in Client : hit'[c] \subseteq hit[c] \cap Live'
    BY <1>1
  <1> QED  BY <1>2, <1>3, <1>4, <1>5, WatchFewer

(* A command is done: the sessions it hit are marked. *)
LEMMA WatchAnswered ==
  ASSUME HistInv, WatchInv, NEW c \in Client, OthersKeep(c), Answered(c),
         UNCHANGED sess, \A o \in hit[c] : sess[o].aborted
  PROVE  WatchInv'
  <1>1. hit'[c] = {} /\ \A d \in Client \ {c} : hit'[d] = hit[d]
    BY DEF Answered, HistInv
  <1>2. \A o \in Obj : stale'[o] <=> (stale[o] \/ o \in hit[c])
    BY Zenon DEF Answered
  <1>3. StaleMarked'
    BY <1>2, Zenon DEF WatchInv, StaleMarked
  <1>4. ASSUME NEW d \in Client \ {c}
        PROVE  (Resting(d)' => hit'[d] = {}) /\ \A o \in hit'[d] : HitMarked(d, o)'
    <2>1. Pending(d)' = Pending(d) /\ (Resting(d)' <=> Resting(d))
      BY Zenon DEF OthersKeep, Pending, Resting
    <2>2. \A o : HitMarked(d, o)' <=> HitMarked(d, o)
      BY <2>1, Zenon DEF HitMarked
    <2> QED  BY <1>1, <2>1, <2>2, Zenon DEF WatchInv, HitIdle, HitPending
  <1> QED  BY <1>1, <1>3, <1>4, Zenon DEF WatchInv, HitIdle, HitPending
-----------------------------------------------------------------------------
(* Connections that run a command stay open. *)

LEMMA SessionJobOpen ==
  ASSUME Typed, config \in Config, JobOpen, NEW c \in Client, Session(c)
  PROVE  JobOpen'
  <1> USE DEF Typed
  <1>1. ASSUME OthersKeep(c), UNCHANGED conn, c \in Open  PROVE JobOpen'
    BY <1>1 DEF JobOpen, OthersKeep, Open
  <1>2. CASE Connect(c)
    <2>1. PICK i \in ID, o \in Obj : conn' = [conn EXCEPT ![c] = [id |-> i, s |-> o]]
      BY <1>2, Zenon DEF Connect
    <2>2. [id |-> i, s |-> o] # Closed
      BY ObjAssumption DEF Closed
    <2>3. Open' = Open \cup {c}
      BY <2>1, <2>2 DEF ConnInv, Open
    <2> QED  BY <1>2, <2>3 DEF Connect, JobOpen
  <1>3. CASE Close(c)
    <2>1. Open' = Open \ {c} /\ job' = job /\ job[c].stage = "idle"
      BY <1>3 DEF Close, Hangup, Ready, ConnInv, Open
    <2> QED  BY <2>1 DEF JobOpen
  <1>4. CASE Exec(c)
    <2>1. OthersKeep(c)
      BY <1>4, ExecFields
    <2> QED  BY <1>1, <1>4, <2>1 DEF Exec, Ready
  <1>5. CASE Multi(c)
    BY <1>1, <1>5 DEF Multi, Ready, OthersKeep
  <1>6. CASE Discard(c)
    BY <1>1, <1>6 DEF Discard, Ready, OthersKeep
  <1>7. ASSUME NEW op \in Op, Queue(c, op)  PROVE JobOpen'
    BY <1>1, <1>7 DEF Queue, Ready, OthersKeep
  <1>8. ASSUME NEW op \in Op, WatchCommand(c, op)  PROVE JobOpen'
    BY <1>1, <1>8 DEF WatchCommand, DispatchWatch, Ready, OthersKeep
  <1>9. ASSUME NEW op \in Op, WriteCommand(c, op)  PROVE JobOpen'
    <2>1. OthersKeep(c)
      BY <1>9, IdleType, BeginFields DEF WriteCommand
    <2> QED  BY <1>1, <1>9, <2>1 DEF WriteCommand, Ready, sessions
  <1> QED
    BY <1>2, <1>3, <1>4, <1>5, <1>6, <1>7, <1>8, <1>9, CommandsType, Zenon
    DEF Session

(* A step of a command changes the job of its connection alone. *)
LEMMA StepJob ==
  ASSUME Typed, NEW c \in Client, Step(c)
  PROVE  OthersKeep(c) /\ UNCHANGED conn /\ job[c].stage # "idle"
  <1> USE DEF Typed
  <1>1. ASSUME NEW s, Stage(c, s)  PROVE OthersKeep(c)
    BY <1>1, StageFields
  <1>2. ASSUME Finish(c)  PROVE OthersKeep(c)
    BY <1>2, FinishFields
  <1>3. OthersKeep(c)
    <2>1. CASE Apply(c) \/ Touch(c)
      BY <2>1, TodoFields DEF Apply, Touch
    <2>2. CASE Applied(c) \/ Log(c)
      BY <1>1, <2>2 DEF Applied, Log
    <2>3. CASE Count(c)
      BY <1>1, <1>2, <2>3, TouchFields DEF Count
    <2>4. CASE Touched(c) \/ Broadcast(c)
      BY <1>1, <1>2, <2>4 DEF Touched, Broadcast
    <2>5. CASE Memory(c)
      BY <1>1, <2>5, IdleFields DEF Memory
    <2>6. CASE ExecNext(c)
      <3>1. [job[c] EXCEPT !.rest = Tail(job[c].rest)] \in JobType
        BY <2>6, JobFields, HeadTail DEF ExecNext, JobInv
      <3> QED  BY <2>6, <3>1, BeginFields, RestFields DEF ExecNext
    <2>7. CASE ExecEnd(c)
      BY <2>7, IdleFields DEF ExecEnd
    <2> QED  BY <2>1, <2>2, <2>3, <2>4, <2>5, <2>6, <2>7, Zenon DEF Step
  <1>4. UNCHANGED conn
    BY Zenon DEF Step, Apply, Applied, Count, Touch, Touched, Memory, Log, Broadcast,
             ExecNext, ExecEnd, DispatchWatch, sessions
  <1>5. job[c].stage # "idle"
    BY DEF Step, Apply, Applied, Count, Touch, Touched, Memory, Log, Broadcast,
           ExecNext, ExecEnd
  <1> QED  BY <1>3, <1>4, <1>5

LEMMA StepJobOpen ==
  ASSUME Typed, JobOpen, NEW c \in Client, Step(c)
  PROVE  JobOpen'
  <1>1. OthersKeep(c) /\ conn' = conn /\ c \in Open
    BY StepJob DEF JobOpen
  <1> QED  BY <1>1 DEF JobOpen, OthersKeep, Open
-----------------------------------------------------------------------------
(* The sessions that are not in the map stay as good as new. *)

LEMMA FreeSame ==
  ASSUME Free, Live' = Live,
         \A o \in Obj \ Live : /\ sess'[o] = sess[o] /\ (stale'[o] => stale[o])
                               /\ \A c \in Client : o \in hit'[c] => o \in hit[c]
  PROVE  Free'
  BY Zenon DEF Free, NewSession

LEMMA FreeEnds ==
  ASSUME Typed, Free, Begins \/ Ends
  PROVE  Free'
  <1> USE DEF Typed
  <1>1. CASE Begins
    <2>1. PICK o \in Live, keys \in Seq(Key) : Watch(o, keys)
      BY <1>1 DEF Begins
    <2>2. o \in Obj
      BY LiveObj
    <2>3. UNCHANGED <<hit, stale>> /\ \A p \in Obj \ Live : sess'[p] = sess[p]
      BY <2>1, <2>2 DEF Watch, SessInv, seen
    <2> QED  BY <1>1, <2>3, FreeSame, Zenon DEF Begins
  <1>2. CASE Ends
    <2>1. PICK o \in Live, s \in SessionType : EndWatch(o, s)
      BY <1>2 DEF Ends
    <2>2. o \in Obj
      BY LiveObj
    <2>3. \A p \in Obj \ Live : sess'[p] = sess[p] /\ stale'[p] = stale[p]
      BY <2>1, <2>2 DEF EndWatch, SessInv, HistInv
    <2>4. \A c \in Client : hit'[c] \subseteq hit[c]
      BY <2>1 DEF EndWatch
    <2> QED  BY <1>2, <2>3, <2>4, FreeSame, Zenon DEF Ends
  <1> QED  BY <1>1, <1>2

LEMMA FreeOpens ==
  ASSUME Free, Opens  PROVE Free'
  BY Zenon DEF Free, Opens, NewSession

LEMMA FreeCloses ==
  ASSUME Free, Closes  PROVE Free'
  <1>1. /\ sess' = [p \in Obj |-> IF p \in Live' THEN sess[p] ELSE NewSession]
        /\ hit' = [d \in Client |-> hit[d] \cap Live']
        /\ stale' = [p \in Obj |-> p \in Live' /\ stale[p]]
    BY DEF Closes
  <1>2. \A o \in Obj \ Live' : sess'[o] = NewSession /\ ~stale'[o]
    BY <1>1, Zenon
  <1>3. \A o \in Obj \ Live', c \in Client : o \notin hit'[c]
    BY <1>1
  <1> QED  BY <1>2, <1>3, Zenon DEF Free, NewSession
-----------------------------------------------------------------------------
(* The inductive invariant: JobOpen, and as long as no identifier was       *)
(* given out while in use, the rest.                                        *)
Alone == Bound /\ Free /\ CountExact /\ WatchInv
EngineInv == JobOpen /\ (shared = 0 => Alone)

LEMMA SessionAlone ==
  ASSUME Typed, config \in Config, Alone, shared = 0, shared' = 0,
         NEW c \in Client, Session(c)
  PROVE  Alone'
  <1> USE DEF Typed
  <1>a. Bound /\ Free /\ CountExact /\ WatchInv /\ HitIdle
    BY DEF Alone, WatchInv
  <1>b. ASSUME UNCHANGED job  PROVE \A d \in Client : Goes(d)
    BY <1>a, <1>b, GoesSame
  <1>r. ASSUME Ready(c), OthersKeep(c)  PROVE \A d \in Client : Goes(d)
    <2>1. hit[c] = {}
      BY <1>a, <1>r, Zenon DEF Ready, HitIdle, Resting
    <2>2. Goes(c)
      BY <2>1 DEF Goes
    <2> QED  BY <1>a, <1>r, <2>2, GoesOthers
  <1>1. Bound'
    BY <1>a, SessionEffect
  <1>2. CASE Quiet /\ UNCHANGED seen /\ \A d \in Client : Goes(d)
    <2>1. CountExact'
      BY <1>2, <1>a, CountQuiet
    <2>2. Free'
      BY <1>2, <1>a, FreeSame DEF Quiet, seen
    <2>3. Grows
      BY <1>2 DEF Quiet, Grows
    <2>4. WatchInv'
      BY <1>2, <1>a, <2>3, WatchKeep
    <2> QED  BY <1>1, <2>1, <2>2, <2>4 DEF Alone
  <1>3. CASE Begins /\ \A d \in Client : Goes(d)
    BY <1>1, <1>3, <1>a, CountBegins, FreeEnds, WatchBegins DEF Alone
  <1>4. CASE Ends /\ \A d \in Client : Goes(d)
    BY <1>1, <1>4, <1>a, CountEnds, FreeEnds, WatchEnds DEF Alone
  <1>5. CASE Closes /\ \A d \in Client : Goes(d)
    BY <1>1, <1>5, <1>a, CountCloses, FreeCloses, WatchCloses DEF Alone
  <1>6. CASE Opens /\ \A d \in Client : Goes(d)
    <2>1. Grows /\ UNCHANGED seen
      BY <1>6 DEF Opens, Grows, seen
    <2>2. WatchInv'
      BY <1>6, <1>a, <2>1, WatchKeep
    <2> QED  BY <1>1, <1>6, <1>a, <2>2, CountOpens, FreeOpens DEF Alone
  <1> QED
    BY <1>a, <1>b, <1>r, <1>2, <1>3, <1>4, <1>5, <1>6, SessionEffect, Zenon

(* The sessions a write hit are marked once it has nothing more to tell. *)
LEMMA HitAborted ==
  ASSUME WatchInv, NEW c \in Client, Pending(c) = {}
  PROVE  \A o \in hit[c] : sess[o].aborted
  BY Zenon DEF WatchInv, HitPending, HitMarked

(* So they are when no session watches a key at all. *)
LEMMA HitNone ==
  ASSUME Typed, Free, CountExact, WatchInv, NEW c \in Client, watchedCount <= 0
  PROVE  \A o \in hit[c] : sess[o].aborted
  <1> USE DEF Typed
  <1>1. SUFFICES ASSUME NEW o \in hit[c]  PROVE sess[o].aborted
    OBVIOUS
  <1>2. o \in Live
    BY DEF HistInv, Free
  <1>3. sess[o].watched = {}
    BY <1>2, NoneWatches
  <1>4. HitMarked(c, o)
    BY Zenon DEF WatchInv, HitPending
  <1> QED  BY <1>3, <1>4, Zenon DEF HitMarked

LEMMA FreeAnswered ==
  ASSUME HistInv, Free, Live' = Live, UNCHANGED sess, NEW c \in Client, Answered(c)
  PROVE  Free'
  <1>1. \A o \in Obj \ Live : stale'[o] => stale[o]
    BY Zenon DEF Answered, Free
  <1>2. \A d \in Client : hit'[d] \subseteq hit[d]
    BY DEF Answered, HistInv
  <1> QED  BY <1>1, <1>2, FreeSame, Zenon

(* What is left to do for a step that leaves sessions and count alone. *)
LEMMA QuietAlone ==
  ASSUME Typed, Alone, Bound', Quiet, Free', WatchInv'
  PROVE  Alone'
  BY CountQuiet DEF Typed, Alone

LEMMA StepAlone ==
  ASSUME Typed, Alone, JobOpen, NEW c \in Client, Step(c)
  PROVE  Alone'
  <1> USE DEF Typed
  <1>a. Bound /\ Free /\ CountExact /\ WatchInv /\ HitIdle
    BY DEF Alone, WatchInv
  <1>e. Bound' /\ (Quiet \/ Begins \/ Ends) /\ OthersKeep(c)
    BY <1>a, StepEffect, StepJob
  <1>k. job[c].told \in Seq(Key) /\ job[c].todo \in Seq(Key)
    BY JobFields, Zenon DEF JobInv
  <1>s. ASSUME UNCHANGED sessions  PROVE Quiet /\ UNCHANGED sess /\ Grows
    BY <1>a, <1>s, QuietSame DEF sessions, Grows
  <1>g. ASSUME UNCHANGED <<sessions, seen>>, Goes(c)  PROVE Alone'
    <2>1. WatchInv'
      BY <1>a, <1>e, <1>g, <1>s, GoesOthers, WatchKeep
    <2>2. Free'
      BY <1>a, <1>g, <1>s, FreeSame DEF Quiet, seen
    <2> QED  BY <1>e, <1>g, <1>s, <2>1, <2>2, QuietAlone
  <1>f. ASSUME UNCHANGED sessions, Answered(c), \A o \in hit[c] : sess[o].aborted
        PROVE  Alone'
    <2>1. WatchInv'
      BY <1>a, <1>e, <1>f, <1>s, WatchAnswered
    <2>2. Free'
      BY <1>a, <1>f, <1>s, FreeAnswered DEF Quiet
    <2> QED  BY <1>e, <1>f, <1>s, <2>1, <2>2, QuietAlone
  <1>m. ASSUME UNCHANGED <<sessions, seen>>, \A o \in hit[c] : sess[o].aborted,
               ~Resting(c)'
        PROVE  Alone'
    <2>1. Grows /\ hit' = hit /\ stale' = stale
      BY <1>m, <1>s DEF seen
    <2>2. ASSUME NEW d \in Client \ {c}  PROVE Goes(d)
      BY <1>a, <1>e, GoesSame DEF OthersKeep
    <2>3. StaleMarked'
      BY <1>a, <2>1, Zenon DEF WatchInv, StaleMarked, Grows
    <2>4. HitIdle'
      BY <1>m, <2>1, <2>2, Zenon DEF HitIdle, Goes
    <2>5. ASSUME NEW d \in Client, NEW o \in hit'[d]  PROVE HitMarked(d, o)'
      <3>1. o \in hit[d] /\ o \in Obj
        BY <2>1 DEF HistInv
      <3>2. CASE d = c
        BY <1>m, <2>1, <3>1, <3>2, Zenon DEF HitMarked, Grows
      <3>3. CASE d # c
        <4>1. HitMarked(d, o) /\ Pending(d) \subseteq Pending(d)'
          BY <1>a, <2>2, <3>1, <3>3, Zenon DEF WatchInv, HitPending, Goes
        <4> QED  BY <2>1, <3>1, <4>1, MarkStays, Zenon DEF Grows
      <3> QED  BY <3>2, <3>3
    <2>6. WatchInv'
      BY <2>3, <2>4, <2>5, Zenon DEF WatchInv, HitPending
    <2>7. Free'
      BY <1>a, <1>m, <1>s, FreeSame DEF Quiet, seen
    <2> QED  BY <1>e, <1>m, <1>s, <2>6, <2>7, QuietAlone
  <1>1. CASE Apply(c)
    <2> DEFINE k == Head(job[c].todo)
    <2>1. /\ UNCHANGED <<sessions, stale>> /\ job[c].stage = "apply"
          /\ \A d \in Client \ {c} : hit'[d] = hit[d]
          /\ hit'[c] = hit[c] \cup
               {o \in Live : k \in sess[o].watched \cap Elems(job[c].told)}
      BY <1>1 DEF Apply, HistInv
    <2>2. job'[c].stage = "apply" /\ job'[c].told = job[c].told
      BY <1>1, TodoFields DEF Apply
    <2>3. /\ Pending(c) = Elems(job[c].told) /\ Pending(c)' = Elems(job[c].told)
          /\ ~Resting(c)'
      BY <2>1, <2>2 DEF Pending, Resting
    <2>4. Grows /\ sess' = sess /\ Live' = Live
      BY <1>s, <2>1 DEF Quiet
    <2>5. ASSUME NEW d \in Client \ {c}  PROVE Goes(d)
      BY <1>a, <1>e, GoesSame DEF OthersKeep
    <2>6. StaleMarked'
      BY <1>a, <2>1, <2>4, Zenon DEF WatchInv, StaleMarked
    <2>7. HitIdle'
      BY <2>1, <2>3, <2>5, Zenon DEF HitIdle, Goes
    <2>8. ASSUME NEW d \in Client, NEW o \in hit[d]  PROVE HitMarked(d, o)'
      <3>1. HitMarked(d, o) /\ o \in Obj
        BY <1>a DEF WatchInv, HitPending, HistInv
      <3>2. Pending(d) \subseteq Pending(d)'
        BY <2>3, <2>5, Zenon DEF Goes
      <3> QED  BY <2>4, <3>1, <3>2, MarkStays, Zenon
    <2>9. ASSUME NEW o \in Live, k \in sess[o].watched \cap Elems(job[c].told)
          PROVE  HitMarked(c, o)'
      BY <2>3, <2>4, <2>9, Zenon DEF HitMarked
    <2>10. HitPending'
      <3>1. ASSUME NEW d \in Client, NEW o \in hit'[d]  PROVE HitMarked(d, o)'
        BY <2>1, <2>8, <2>9, Zenon
      <3> QED  BY <3>1, Zenon DEF HitPending
    <2>11. Free'
      <3>1. \A d \in Client : hit'[d] \subseteq hit[d] \cup Live
        BY <2>1
      <3> QED  BY <1>a, <2>1, <2>4, <3>1, FreeSame, Zenon
    <2> QED  BY <1>e, <1>s, <2>1, <2>6, <2>7, <2>10, <2>11, QuietAlone DEF WatchInv
  <1>2. CASE Applied(c)
    <2>1. /\ job'[c].stage = (IF job[c].tx THEN "log" ELSE "count")
          /\ job'[c].tx = job[c].tx /\ job'[c].told = job[c].told
      BY <1>2, StageFields DEF Applied
    <2>2. Pending(c)' = Pending(c) /\ ~Resting(c)'
      BY <1>2, <2>1 DEF Applied, Pending, Resting
    <2> QED  BY <1>2, <1>g, <2>2 DEF Applied, Goes
  <1>3. CASE Count(c)
    <2>1. CASE /\ watchedCount > 0 /\ UNCHANGED seen
               /\ job' = [job EXCEPT ![c].stage = "touch", ![c].todo = job[c].told]
      <3>1. job'[c].stage = "touch" /\ job'[c].todo = job[c].told
        BY <2>1, TouchFields
      <3>2. Pending(c)' = Pending(c) /\ ~Resting(c)'
        BY <1>3, <3>1 DEF Count, Pending, Resting
      <3> QED  BY <1>3, <1>g, <2>1, <3>2 DEF Count, Goes
    <2>2. CASE watchedCount <= 0 /\ Stage(c, "memory") /\ UNCHANGED seen
      <3>1. ~Resting(c)'
        BY <2>2, StageFields DEF Resting
      <3>2. \A o \in hit[c] : sess[o].aborted
        BY <1>a, <2>2, HitNone
      <3> QED  BY <1>3, <1>m, <2>2, <3>1, <3>2 DEF Count
    <2>3. CASE watchedCount <= 0 /\ Finish(c)
      <3>1. \A o \in hit[c] : sess[o].aborted
        BY <1>a, <2>3, HitNone
      <3> QED  BY <1>3, <1>f, <2>3, <3>1 DEF Count, Finish
    <2> QED  BY <1>3, <2>1, <2>2, <2>3, Zenon DEF Count
  <1>4. CASE Touch(c)
    <2> DEFINE k == Head(job[c].todo)
    <2>1. job'[c].stage = "touch" /\ job'[c].todo = Tail(job[c].todo)
      BY <1>4, TodoFields DEF Touch
    <2>2. Pending(c) = {k} \cup Pending(c)' /\ ~Resting(c)'
      <3>1. Elems(job[c].todo) = {k} \cup Elems(Tail(job[c].todo))
        BY <1>4, <1>k, ElemsTail DEF Touch
      <3> QED  BY <1>4, <2>1, <3>1 DEF Touch, Pending, Resting
    <2>3. ASSUME NEW o \in Live, k \in sess[o].watched  PROVE sess'[o].aborted
      <3>1. ~(watchedCount <= 0)
        BY <1>a, <2>3, NoneWatches
      <3>2. o \in Obj /\ sess[o] \in SessionType
        BY LiveObj DEF SessInv
      <3>3. sess'[o] = [sess[o] EXCEPT !.aborted = TRUE]
        BY <1>4, <2>3, <3>1, <3>2 DEF Touch
      <3> QED  BY <3>2, <3>3 DEF SessionType
    <2>4. Live' = Live /\ Quiet /\ hit' = hit /\ stale' = stale
      BY <1>4, TouchQuiet DEF Touch, Quiet, seen
    <2>5. ASSUME NEW d \in Client \ {c}  PROVE Goes(d)
      BY <1>a, <1>e, GoesSame DEF OthersKeep
    <2>6. StaleMarked'
      BY <1>a, <2>4, Zenon DEF WatchInv, StaleMarked, Quiet
    <2>7. HitIdle'
      BY <2>2, <2>4, <2>5, Zenon DEF HitIdle, Goes
    <2>8. ASSUME NEW d \in Client, NEW o \in hit[d]  PROVE HitMarked(d, o)'
      <3>1. HitMarked(d, o) /\ o \in Obj /\ o \in Live
        BY <1>a DEF WatchInv, HitPending, HistInv, Free
      <3>2. sess'[o].watched = sess[o].watched /\ (sess[o].aborted => sess'[o].aborted)
        BY <2>4, <3>1 DEF Quiet
      <3>3. CASE d = c /\ k \in sess[o].watched
        BY <2>3, <3>1, <3>3, Zenon DEF HitMarked
      <3>4. CASE d = c /\ k \notin sess[o].watched
        BY <2>2, <3>1, <3>2, <3>4, Zenon DEF HitMarked
      <3>5. CASE d # c
        <4>1. Pending(d) \subseteq Pending(d)'
          BY <2>5, <3>5, Zenon DEF Goes
        <4>2. sess[o].watched \subseteq sess'[o].watched
          BY <3>2
        <4> QED  BY <3>1, <3>2, <4>1, <4>2, MarkStays, Zenon
      <3> QED  BY <3>3, <3>4, <3>5
    <2>9. HitPending'
      BY <2>4, <2>8, Zenon DEF HitPending
    <2>10. Free'
      BY <1>a, <2>4, FreeSame, Zenon DEF Quiet
    <2> QED  BY <1>e, <2>4, <2>6, <2>7, <2>9, <2>10, QuietAlone DEF WatchInv
  <1>5. CASE Touched(c)
    <2>1. Pending(c) = {}
      BY <1>5, ElemsEmpty DEF Touched, Pending
    <2>2. \A o \in hit[c] : sess[o].aborted
      BY <1>a, <2>1, HitAborted
    <2>3. CASE Stage(c, "memory") /\ UNCHANGED seen
      <3>1. ~Resting(c)'
        BY <2>3, StageFields DEF Resting
      <3> QED  BY <1>5, <1>m, <2>2, <2>3, <3>1 DEF Touched
    <2>4. CASE Finish(c)
      BY <1>5, <1>f, <2>2, <2>4 DEF Touched, Finish
    <2> QED  BY <1>5, <2>3, <2>4, Zenon DEF Touched
  <1>6. CASE Memory(c)
    <2>1. Pending(c) = {}
      BY <1>6 DEF Memory, Pending
    <2>2. \A o \in hit[c] : sess[o].aborted
      BY <1>a, <2>1, HitAborted
    <2>3. CASE Stage(c, "log") /\ UNCHANGED seen
      <3>1. ~Resting(c)'
        BY <2>3, StageFields DEF Resting
      <3> QED  BY <1>6, <1>m, <2>2, <2>3, <3>1 DEF Memory
    <2>4. CASE Answered(c)
      BY <1>6, <1>f, <2>2, <2>4 DEF Memory
    <2> QED  BY <1>6, <2>3, <2>4, Zenon DEF Memory
  <1>7. CASE Log(c)
    <2>1. /\ job'[c].stage = "cast" /\ job'[c].tx = job[c].tx
          /\ job'[c].told = job[c].told
      BY <1>7, StageFields DEF Log
    <2>2. Pending(c)' = Pending(c) /\ ~Resting(c)'
      BY <1>7, <2>1 DEF Log, Pending, Resting
    <2> QED  BY <1>7, <1>g, <2>2 DEF Log, Goes
  <1>8. CASE Broadcast(c)
    <2>1. CASE job[c].tx /\ Stage(c, "count") /\ UNCHANGED seen
      <3>1. /\ job'[c].stage = "count" /\ job'[c].tx = job[c].tx
            /\ job'[c].told = job[c].told
        BY <2>1, StageFields
      <3>2. Pending(c)' = Pending(c) /\ ~Resting(c)'
        BY <1>8, <2>1, <3>1 DEF Broadcast, Pending, Resting
      <3> QED  BY <1>8, <1>g, <2>1, <3>2 DEF Broadcast, Goes
    <2>2. CASE ~job[c].tx /\ Finish(c)
      <3>1. Pending(c) = {}
        BY <1>8, <2>2 DEF Broadcast, Pending
      <3>2. \A o \in hit[c] : sess[o].aborted
        BY <1>a, <3>1, HitAborted
      <3> QED  BY <1>8, <1>f, <2>2, <3>2 DEF Broadcast, Finish
    <2> QED  BY <1>8, <2>1, <2>2, Zenon DEF Broadcast
  <1>9. CASE ExecNext(c) \/ ExecEnd(c)
    <2>1. hit[c] = {}
      BY <1>9, <1>a DEF ExecNext, ExecEnd, HitIdle, Resting
    <2>2. Goes(c)
      BY <2>1 DEF Goes
    <2>3. \A d \in Client : Goes(d)
      BY <1>a, <1>e, <2>2, GoesOthers
    <2>4. CASE UNCHANGED <<sessions, seen>>
      BY <1>g, <2>2, <2>4
    <2>5. CASE Begins
      BY <1>a, <1>e, <2>3, <2>5, CountBegins, FreeEnds, WatchBegins DEF Alone
    <2>6. CASE Ends
      BY <1>a, <1>e, <2>3, <2>6, CountEnds, FreeEnds, WatchEnds DEF Alone
    <2>7. CASE ExecNext(c) /\ DispatchWatch(c, Head(job[c].rest))
      <3>1. c \in Open
        BY <2>7 DEF ExecNext, JobOpen
      <3>2. Head(job[c].rest) \in Op
        <4>1. job[c].rest \in Seq(Op)
          BY JobFields, Zenon DEF JobInv
        <4> QED  BY <2>7, <4>1, HeadTail DEF ExecNext
      <3>3. Begins \/ Ends \/ (Quiet /\ UNCHANGED <<sess, seen>>)
        BY <1>a, <2>7, <3>1, <3>2, DispatchEffect
      <3>4. CASE Quiet /\ UNCHANGED <<sess, seen>>
        <4>1. Grows /\ WatchInv'
          BY <1>a, <2>3, <3>4, WatchKeep DEF Grows
        <4>2. Free'
          BY <1>a, <3>4, FreeSame DEF Quiet, seen
        <4> QED  BY <1>e, <3>4, <4>1, <4>2, QuietAlone
      <3> QED  BY <2>5, <2>6, <3>3, <3>4
    <2> QED  BY <1>9, <2>4, <2>7, Zenon DEF ExecNext, ExecEnd
  <1> QED
    BY <1>1, <1>2, <1>3, <1>4, <1>5, <1>6, <1>7, <1>8, <1>9, Zenon DEF Step
-----------------------------------------------------------------------------
(* The number of identifiers given out while in use never shrinks but in a  *)
(* crash.                                                                   *)
LEMMA SharedGrows ==
  ASSUME Typed, NEW c \in Client, Session(c) \/ Step(c), shared' = 0
  PROVE  shared = 0
  <1>1. CASE Connect(c)
    <2>1. shared' = shared + 1 \/ shared' = shared
      BY <1>1, Zenon DEF Connect
    <2> QED  BY <2>1 DEF Typed, ConnInv
  <1>2. CASE ~Connect(c)
    BY <1>2, Zenon
    DEF Session, Multi, Discard, Exec, Close, Hangup, Queue, WatchCommand,
        WriteCommand, Step, Apply, Applied, Count, Touch, Touched, Memory, Log,
        Broadcast, ExecNext, ExecEnd, DispatchWatch, sessions
  <1> QED  BY <1>1, <1>2

(* The server has just been started. *)
Started == /\ conn = [c \in Client |-> Closed]
           /\ clientSessions = [i \in ID |-> NoSession]
           /\ sess = [o \in Obj |-> NewSession] /\ watchedCount = 0
           /\ job = [c \in Client |-> Idle] /\ hit = [c \in Client |-> {}]
           /\ stale = [o \in Obj |-> FALSE]

LEMMA NewAlone == Started => JobOpen /\ Alone
  <1> SUFFICES ASSUME Started  PROVE JobOpen /\ Alone
    OBVIOUS
  <1> USE DEF Started
  <1>1. Open = {} /\ Live = {}
    BY DEF Open, Live
  <1>2. Bound
    BY <1>1 DEF Bound
  <1>3. JobOpen /\ HitIdle /\ HitPending
    BY DEF JobOpen, Idle, HitIdle, HitPending
  <1>4. StaleMarked
    BY Zenon DEF StaleMarked
  <1>5. Free
    <2>1. \A o \in Obj : sess[o] = NewSession /\ ~stale[o]
      BY Zenon
    <2> QED  BY <2>1 DEF Free
  <1>6. CountExact
    <2>1. Watching = {}
      BY <1>1 DEF Watching
    <2> QED  BY <2>1, FS_EmptySet DEF CountExact
  <1> QED  BY <1>2, <1>3, <1>4, <1>5, <1>6 DEF Alone, WatchInv

LEMMA EngineInit == Init => EngineInv
  <1> SUFFICES ASSUME Init  PROVE EngineInv
    OBVIOUS
  <1>1. JobOpen /\ Alone
    BY NewAlone DEF Init, Started
  <1> QED  BY <1>1 DEF EngineInv

LEMMA AloneSame ==
  ASSUME Alone, JobOpen,
         UNCHANGED <<conn, clientSessions, sess, watchedCount, job, hit, stale>>
  PROVE  Alone' /\ JobOpen'
  <1>1. Bound' /\ Live' = Live /\ Open' = Open
    BY BoundSame DEF Alone
  <1>2. Free' /\ JobOpen'
    BY <1>1, Zenon DEF Alone, Free, JobOpen, NewSession
  <1>3. CountExact'
    BY <1>1, Zenon DEF Alone, CountExact, Watching
  <1>4. WatchInv'
    BY Zenon DEF Alone, WatchInv, HitPending, HitIdle, StaleMarked, HitMarked, Pending,
             Resting
  <1> QED  BY <1>1, <1>2, <1>3, <1>4 DEF Alone

LEMMA EngineNext ==
  ASSUME TypeInv, EngineInv, [Next]_vars
  PROVE  EngineInv'
  <1>1. Typed /\ config \in Config /\ JobOpen /\ (shared = 0 => Alone)
    BY TypeParts DEF EngineInv
  <1>2. ASSUME NEW c \in Client, Session(c)  PROVE EngineInv'
    <2>1. JobOpen'
      BY <1>1, <1>2, SessionJobOpen
    <2>2. ASSUME shared' = 0  PROVE Alone'
      <3>1. shared = 0
        BY <1>1, <1>2, <2>2, SharedGrows
      <3> QED  BY <1>1, <1>2, <2>2, <3>1, SessionAlone
    <2> QED  BY <2>1, <2>2 DEF EngineInv
  <1>3. ASSUME NEW c \in Client, Step(c)  PROVE EngineInv'
    <2>1. JobOpen'
      BY <1>1, <1>3, StepJobOpen
    <2>2. ASSUME shared' = 0  PROVE Alone'
      <3>1. shared = 0
        BY <1>1, <1>3, <2>2, SharedGrows
      <3> QED  BY <1>1, <1>3, <3>1, StepAlone
    <2> QED  BY <2>1, <2>2 DEF EngineInv
  <1>4. CASE FsyncLoop \/ UNCHANGED vars
    <2>1. UNCHANGED <<conn, clientSessions, sess, watchedCount, job, hit, stale, shared>>
      BY <1>4 DEF FsyncLoop, vars, sessions, seen
    <2>2. CASE shared = 0
      BY <1>1, <2>1, <2>2, AloneSame DEF EngineInv
    <2>3. CASE shared # 0
      <3>1. JobOpen'
        BY <1>1, <2>1 DEF JobOpen, Open
      <3> QED  BY <2>1, <2>3, <3>1 DEF EngineInv
    <2> QED  BY <2>2, <2>3
  <1>5. CASE Crash
    <2>1. (JobOpen /\ Alone)'
      <3>1. Started'
        BY <1>5 DEF Crash, Started
      <3>2. (Started => JobOpen /\ Alone)'
        BY NewAlone, PTL
      <3> QED  BY <3>1, <3>2
    <2> QED  BY <2>1 DEF EngineInv
  <1> QED  BY <1>2, <1>3, <1>4, <1>5 DEF Next

LEMMA EngineSafe == Spec => []EngineInv
  <1>1. TypeInv /\ EngineInv /\ [Next]_vars => EngineInv'
    BY EngineNext
  <1> QED  BY <1>1, EngineInit, TypeCorrect, PTL DEF Spec

(* watchedCount, kept with increments and decrements in WATCH, UNWATCH,     *)
(* EXEC, DISCARD and ClearClientSession, and read without a lock, is the    *)
(* number of the sessions in the map that watch a key, for any number of    *)
(* connections and commands, as long as every connection that is open has   *)
(* an identifier of its own.                                                *)
THEOREM CountCorrect == Spec => []WatchedCountExact
  <1>1. EngineInv => WatchedCountExact
    BY CountDef DEF EngineInv, Alone
  <1> QED  BY <1>1, EngineSafe, PTL

(* The search for watchers that is skipped when watchedCount is zero, and   *)
(* done a key at a time after the write, marks every session whose key was  *)
(* changed by a write that announces the key before that write is answered. *)
THEOREM StaleAborted == Spec => []NoStaleCommit
  <1>1. ASSUME Typed, EngineInv  PROVE NoStaleCommit
    BY <1>1, LiveObj DEF EngineInv, Alone, WatchInv, StaleMarked, NoStaleCommit, Typed
  <1>2. TypeInv /\ EngineInv => NoStaleCommit
    BY <1>1, TypeParts
  <1> QED  BY <1>2, EngineSafe, TypeCorrect, PTL
=============================================================================
