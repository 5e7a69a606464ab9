---------------------------- MODULE EngineProofs ----------------------------
(* Proofs about module Engine, for any number of connections, sessions and  *)
(* keys and any commands: the type invariant, and the append-only file.     *)
EXTENDS Engine, FiniteSetTheorems, SequenceTheorems, WellFoundedInduction,
        TLAPS

(* The keys of a command; WATCH has one at least. *)
LEMMA OpKeys == \A op \in Op : op \in Command /\ op.keys \in Seq(Key)
  BY OpAssumption DEF Command

LEMMA WatchKeys == \A op \in Op : op.name = "WATCH" => op.keys # << >>
  BY OpAssumption, Zenon

LEMMA TellKeys == \A op \in Op : extractCommandKeys(op) \in Seq(Key)
  BY OpKeys DEF extractCommandKeys

(* A session, and a job, of the right type keep it when a field is changed  *)
(* to a value of the right type.                                            *)
LEMMA NewSessionType == NewSession \in SessionType
  BY DEF NewSession, SessionType

LEMMA IdleType == Idle \in JobType
  BY DEF Idle, JobType, Stages

LEMMA SessionFields ==
  ASSUME NEW s \in SessionType
  PROVE  /\ s.multi \in BOOLEAN /\ s.queue \in Seq(Op)
         /\ s.watched \in SUBSET Key /\ s.aborted \in BOOLEAN
         /\ \A b \in BOOLEAN : [s EXCEPT !.multi = b] \in SessionType
         /\ \A b \in BOOLEAN : [s EXCEPT !.aborted = b] \in SessionType
         /\ \A q \in Seq(Op) : [s EXCEPT !.queue = q] \in SessionType
         /\ \A w \in SUBSET Key : [s EXCEPT !.watched = w] \in SessionType
         /\ \A b \in BOOLEAN, q \in Seq(Op) :
              [s EXCEPT !.multi = b, !.queue = q] \in SessionType
  BY Zenon DEF SessionType

LEMMA JobFields ==
  ASSUME NEW j \in JobType
  PROVE  /\ j.stage \in Stages /\ j.n \in Nat /\ j.keys \in Seq(Key)
         /\ j.told \in Seq(Key) /\ j.todo \in Seq(Key) /\ j.tx \in BOOLEAN
         /\ j.rest \in Seq(Op)
         /\ \A s \in Stages : [j EXCEPT !.stage = s] \in JobType
         /\ \A t \in Seq(Key) : [j EXCEPT !.todo = t] \in JobType
         /\ \A r \in Seq(Op) : [j EXCEPT !.rest = r] \in JobType
         /\ \A s \in Stages, b \in BOOLEAN, r \in Seq(Op) :
              [j EXCEPT !.stage = s, !.tx = b, !.rest = r] \in JobType
         /\ \A s \in Stages, t \in Seq(Key) :
              [j EXCEPT !.stage = s, !.todo = t] \in JobType
  BY Zenon DEF JobType

(* The parts of the type invariant. *)
ConnInv == /\ conn \in [Client -> [id : ID, s : Obj] \cup {Closed}]
           /\ clientSessions \in [ID -> Obj \cup {NoSession}]
           /\ shared \in Nat
SessInv == sess \in [Obj -> SessionType]
JobInv == job \in [Client -> JobType]
LogInv == /\ aof \in Seq(Entry) /\ synced \in 0 .. Len(aof)
          /\ aofErr \in BOOLEAN /\ lost \subseteq Nat
          /\ sent \in Seq(Entry) /\ finished \subseteq Nat
HistInv == hit \in [Client -> SUBSET Obj] /\ stale \in [Obj -> BOOLEAN]

Typed == /\ ConnInv /\ SessInv /\ watchedCount \in Int /\ JobInv
         /\ store \in [Key -> Nat] /\ writes \in Nat /\ LogInv /\ HistInv

LEMMA TypeParts == TypeInv <=> config \in Config /\ Typed
  BY DEF TypeInv, Typed, ConnInv, SessInv, JobInv, LogInv, HistInv

LEMMA CommandsType ==
  ASSUME config \in Config, NEW op \in config.cmds  PROVE op \in Op
  BY DEF Config

(* The session of a connection that is open. *)
LEMMA OpenConn ==
  ASSUME ConnInv, NEW c \in Open
  PROVE  c \in Client /\ conn[c].id \in ID /\ conn[c].s \in Obj
  BY DEF ConnInv, Open

LEMMA LookupType ==
  ASSUME ConnInv, NEW i, NEW o, GetClientSession(i, o)
  PROVE  o \in Obj /\ clientSessions' \in [ID -> Obj \cup {NoSession}]
  BY DEF ConnInv, GetClientSession

LEMMA StageType ==
  ASSUME JobInv, NEW c \in Client, NEW s \in Stages, Stage(c, s)
  PROVE  JobInv'
  <1>1. [job[c] EXCEPT !.stage = s] \in JobType
    BY JobFields, Zenon DEF JobInv
  <1> QED  BY <1>1 DEF JobInv, Stage

LEMMA FinishType ==
  ASSUME JobInv, NEW c \in Client, Finish(c)
  PROVE  JobInv'
  <1>1. \A r \in Seq(Op) :
          [Idle EXCEPT !.stage = "next", !.tx = TRUE, !.rest = r] \in JobType
    BY IdleType, JobFields, Zenon DEF Stages
  <1>2. job[c].rest \in Seq(Op)
    BY JobFields, Zenon DEF JobInv
  <1> QED  BY <1>1, <1>2, IdleType, Zenon DEF JobInv, Finish

LEMMA BeginType ==
  ASSUME JobInv, NEW c \in Client, NEW op \in Op, NEW j \in JobType,
         writes \in Nat, Begin(c, op, j)
  PROVE  JobInv'
  <1>1. op.keys \in Seq(Key) /\ extractCommandKeys(op) \in Seq(Key)
    BY OpKeys, TellKeys, Zenon
  <1>2. writes + 1 \in Nat
    OBVIOUS
  <1>3. \A n \in Nat, ks \in Seq(Key), ts \in Seq(Key) :
          [j EXCEPT !.stage = "apply", !.n = n, !.keys = ks, !.todo = ks,
                    !.told = ts] \in JobType
    BY Zenon DEF JobType, Stages
  <1> QED  BY <1>1, <1>2, <1>3, Zenon DEF JobInv, Begin

LEMMA EndWatchType ==
  ASSUME SessInv, HistInv, watchedCount \in Int,
         NEW o \in Obj, NEW s \in SessionType, EndWatch(o, s)
  PROVE  SessInv' /\ HistInv' /\ watchedCount' \in Int
  <1>1. [s EXCEPT !.watched = {}, !.aborted = FALSE] \in SessionType
    BY Zenon DEF SessionType
  <1>2. SessInv'
    BY <1>1 DEF SessInv, EndWatch
  <1>3. HistInv'
    BY DEF HistInv, EndWatch
  <1>4. watchedCount' \in {watchedCount, watchedCount - 1}
    BY Zenon DEF EndWatch
  <1> QED  BY <1>2, <1>3, <1>4

LEMMA WatchType ==
  ASSUME SessInv, HistInv, watchedCount \in Int,
         NEW o \in Obj, NEW keys \in Seq(Key), Watch(o, keys)
  PROVE  SessInv' /\ HistInv' /\ watchedCount' \in Int
  <1>1. Elems(keys) \subseteq Key
    BY DEF Elems
  <1>2. [sess[o] EXCEPT !.watched = @ \cup Elems(keys)] \in SessionType
    BY <1>1, SessionFields, Zenon DEF SessInv
  <1>3. SessInv'
    BY <1>2 DEF SessInv, Watch
  <1> QED  BY <1>3 DEF Watch, HistInv, seen

LEMMA DispatchWatchType ==
  ASSUME ConnInv, SessInv, HistInv, watchedCount \in Int,
         NEW c \in Client, NEW op \in Op, DispatchWatch(c, op)
  PROVE  ConnInv' /\ SessInv' /\ HistInv' /\ watchedCount' \in Int
  <1>1. PICK o \in Obj :
          /\ GetClientSession(conn[c].id, o)
          /\ \/ Watch(o, op.keys)
             \/ UNCHANGED <<sess, watchedCount, seen>>
             \/ EndWatch(o, sess[o])
    BY Zenon DEF DispatchWatch
  <1>2. ConnInv'
    <2>1. conn' = conn /\ shared' = shared
      BY DEF DispatchWatch
    <2> QED  BY <1>1, <2>1, LookupType DEF ConnInv
  <1>3. CASE Watch(o, op.keys)
    BY <1>2, <1>3, OpKeys, WatchType, Zenon
  <1>4. CASE UNCHANGED <<sess, watchedCount, seen>>
    BY <1>2, <1>4 DEF SessInv, HistInv, seen
  <1>5. CASE EndWatch(o, sess[o])
    <2>1. sess[o] \in SessionType
      BY DEF SessInv
    <2> QED  BY <1>2, <1>5, <2>1, EndWatchType, Zenon
  <1> QED  BY <1>1, <1>3, <1>4, <1>5, Zenon

LEMMA AnsweredType ==
  ASSUME HistInv, NEW c \in Client, Answered(c)
  PROVE  HistInv'
  <1>1. stale' \in [Obj -> BOOLEAN]
    BY Zenon DEF HistInv, Answered
  <1> QED  BY <1>1 DEF HistInv, Answered

LEMMA FinishedType ==
  ASSUME HistInv, LogInv, JobInv, NEW c \in Client, Finish(c)
  PROVE  JobInv' /\ finished' \subseteq Nat /\ HistInv'
  <1>1. finished' \subseteq Nat
    BY JobFields, Zenon DEF LogInv, JobInv, Finish
  <1> QED  BY <1>1, FinishType, AnsweredType, Zenon DEF Finish
-----------------------------------------------------------------------------
LEMMA TypeInit == Init => TypeInv
  <1> SUFFICES ASSUME Init PROVE TypeInv
    OBVIOUS
  <1>1. SessInv /\ JobInv
    BY NewSessionType, IdleType DEF Init, SessInv, JobInv
  <1>2. LogInv
    <2>1. << >> \in Seq(Entry) /\ 0 \in 0 .. Len(<< >>)
      OBVIOUS
    <2> QED  BY <2>1, Zenon DEF Init, LogInv
  <1>3. HistInv /\ ConnInv
    BY DEF Init, HistInv, ConnInv
  <1>4. config \in Config
    BY ConfigAssumption DEF Init
  <1>5. watchedCount \in Int /\ store \in [Key -> Nat] /\ writes \in Nat
    BY DEF Init
  <1> QED  BY <1>1, <1>2, <1>3, <1>4, <1>5, TypeParts DEF Typed

LEMMA HangupType ==
  ASSUME Typed, NEW c \in Client, Hangup(c)
  PROVE  ConnInv' /\ SessInv' /\ HistInv'
  <1>1. ConnInv'
    BY DEF Hangup, Typed, ConnInv
  <1>2. SessInv'
    BY NewSessionType, Zenon DEF Hangup, Typed, SessInv
  <1>3. hit' \in [Client -> SUBSET Obj]
    BY DEF Hangup, Typed, HistInv
  <1>4. stale' \in [Obj -> BOOLEAN]
    BY Zenon DEF Hangup, Typed, HistInv
  <1> QED  BY <1>1, <1>2, <1>3, <1>4 DEF HistInv

(* One lemma for the commands that only touch the session, one for each     *)
(* step of a write.                                                         *)
LEMMA SessionTyped ==
  ASSUME Typed, config \in Config, NEW c \in Client, Session(c)
  PROVE  Typed'
  <1> USE DEF Typed
  <1> DEFINE o == conn[c].s
  <1>e. << >> \in Seq(Op)
    OBVIOUS
  <1>1. \A s \in SessionType, b \in BOOLEAN :
          [s EXCEPT !.multi = b, !.queue = << >>] \in SessionType
    BY <1>e, SessionFields, Zenon
  <1>2. ASSUME Data  PROVE LogInv' /\ store' = store /\ writes' = writes
    BY <1>2 DEF Data, logs, file, LogInv
  <1>r. ASSUME Ready(c)
        PROVE  /\ o \in Obj /\ sess[o] \in SessionType /\ job[c] \in JobType
               /\ [sess[o] EXCEPT !.multi = FALSE, !.queue = << >>] \in SessionType
    BY <1>1, <1>r, OpenConn, Zenon DEF Ready, SessInv, JobInv
  <1>0. CASE Connect(c)
    <2>1. PICK i \in ID, p \in Obj :
            /\ GetClientSession(i, p)
            /\ conn' = [conn EXCEPT ![c] = [id |-> i, s |-> p]]
            /\ shared' = IF Taken(i) THEN shared + 1 ELSE shared
      BY <1>0, Zenon DEF Connect
    <2>2. clientSessions' \in [ID -> Obj \cup {NoSession}]
      BY <2>1, LookupType
    <2>3. conn' \in [Client -> [id : ID, s : Obj] \cup {Closed}]
      BY <2>1 DEF ConnInv
    <2>4. shared' \in Nat
      BY <2>1 DEF ConnInv
    <2>5. ConnInv'
      BY <2>2, <2>3, <2>4 DEF ConnInv
    <2> QED
      BY <1>0, <2>5 DEF Connect, SessInv, JobInv, LogInv, HistInv, logs, file, seen
  <1>3. CASE Multi(c)
    <2>1. PICK p \in Obj :
            /\ GetClientSession(conn[c].id, p)
            /\ sess' = [sess EXCEPT ![p].multi = TRUE, ![p].queue = << >>]
      BY <1>3, Zenon DEF Multi
    <2>2. [sess[p] EXCEPT !.multi = TRUE, !.queue = << >>] \in SessionType
      BY <1>1, Zenon DEF SessInv
    <2>3. SessInv'
      BY <2>1, <2>2 DEF SessInv
    <2>4. clientSessions' \in [ID -> Obj \cup {NoSession}]
      BY <2>1, LookupType
    <2>5. UNCHANGED <<conn, shared, watchedCount, job, hit, stale>> /\ Data
      BY <1>3 DEF Multi, seen
    <2> QED  BY <1>2, <2>3, <2>4, <2>5 DEF ConnInv, JobInv, HistInv
  <1>4. CASE Discard(c)
    <2>1. SessInv' /\ HistInv' /\ watchedCount' \in Int
      BY <1>4, <1>r, EndWatchType DEF Discard
    <2> QED  BY <1>2, <1>4, <2>1 DEF Discard, ConnInv, JobInv
  <1>5. CASE Close(c)
    <2>1. Hangup(c)
      BY <1>5 DEF Close
    <2>2. ConnInv' /\ SessInv' /\ HistInv'
      BY <2>1, HangupType
    <2>3. watchedCount' \in {watchedCount, watchedCount - 1}
      BY <1>5, Zenon DEF Close
    <2>4. watchedCount' \in Int
      BY <2>3
    <2> QED  BY <1>2, <2>1, <2>2, <2>4 DEF Hangup, JobInv
  <1>6. CASE Exec(c)
    <2>1. SessInv' /\ HistInv' /\ watchedCount' \in Int
      BY <1>6, <1>r, EndWatchType DEF Exec
    <2>2. \A j \in JobType, q \in Seq(Op) :
            [j EXCEPT !.stage = "next", !.tx = TRUE, !.rest = q] \in JobType
      BY JobFields, Zenon DEF Stages
    <2>3. sess[o].queue \in Seq(Op)
      BY <1>6, <1>r, SessionFields, Zenon DEF Exec
    <2>4. JobInv'
      BY <1>6, <1>r, <2>2, <2>3, Zenon DEF Exec, JobInv
    <2> QED  BY <1>2, <1>6, <2>1, <2>4 DEF Exec, ConnInv
  <1>7. ASSUME NEW op \in Op, Queue(c, op)  PROVE Typed'
    <2>1. sess[o].queue \in Seq(Op) /\ o \in Obj /\ sess[o] \in SessionType
      BY <1>7, <1>r, SessionFields, Zenon DEF Queue
    <2>2. Append(sess[o].queue, op) \in Seq(Op)
      BY <2>1
    <2>3. [sess[o] EXCEPT !.queue = Append(sess[o].queue, op)] \in SessionType
      BY <2>1, <2>2, SessionFields, Zenon
    <2>4. SessInv'
      BY <1>7, <2>1, <2>3 DEF Queue, SessInv
    <2> QED  BY <1>2, <1>7, <2>4 DEF Queue, ConnInv, JobInv, HistInv, seen
  <1>8. ASSUME NEW op \in Op, WatchCommand(c, op)  PROVE Typed'
    <2>1. ConnInv' /\ SessInv' /\ HistInv' /\ watchedCount' \in Int
      BY <1>8, DispatchWatchType, Zenon DEF WatchCommand
    <2> QED  BY <1>2, <1>8, <2>1 DEF WatchCommand, JobInv
  <1>9. ASSUME NEW op \in Op, WriteCommand(c, op)  PROVE Typed'
    <2>1. JobInv'
      BY <1>9, IdleType, BeginType DEF WriteCommand
    <2> QED
      BY <1>9, <2>1
      DEF WriteCommand, ConnInv, SessInv, LogInv, HistInv, sessions, logs, file, seen
  <1> QED
    BY <1>0, <1>3, <1>4, <1>5, <1>6, <1>7, <1>8, <1>9, CommandsType DEF Session

(* The tail of a sequence is a sequence, its head an element. *)
LEMMA HeadTail ==
  ASSUME NEW S, NEW s \in Seq(S), s # << >>
  PROVE  Head(s) \in S /\ Tail(s) \in Seq(S)
  OBVIOUS

LEMMA LoggedType ==
  ASSUME JobInv, NEW c \in Client
  PROVE  Logged(c) \in Entry /\ Logged(c).n = job[c].n /\ job[c].n \in Nat
  BY JobFields, Zenon DEF JobInv, Logged, Entry

LEMMA LogEntry ==
  ASSUME JobInv, NEW c \in Client, NEW log \in Seq(Entry)
  PROVE  /\ Append(log, Logged(c)) \in Seq(Entry)
         /\ Len(Append(log, Logged(c))) = Len(log) + 1
  <1>1. Logged(c) \in Entry
    BY LoggedType
  <1> QED  BY <1>1

LEMMA NumbersType ==
  ASSUME NEW log \in Seq(Entry)  PROVE Numbers(log) \subseteq Nat
  <1> SUFFICES ASSUME NEW i \in 1 .. Len(log)  PROVE log[i].n \in Nat
    BY DEF Numbers
  <1>1. log[i] \in Entry
    BY ElementOfSeq
  <1> QED  BY <1>1 DEF Entry

LEMMA RefusedType ==
  ASSUME LogInv, NEW ns \in SUBSET Nat, Refused(ns)
  PROVE  /\ aof' \in Seq(Entry) /\ synced \in 0 .. Len(aof')
         /\ aofErr' \in BOOLEAN /\ lost' \subseteq Nat
  <1>1. PICK m \in synced .. Len(aof) : aof' = SubSeq(aof, 1, m)
    BY Zenon DEF Refused
  <1>2. m \in 0 .. Len(aof)
    BY DEF LogInv
  <1>3. aof' \in Seq(Entry) /\ Len(aof') = m
    BY <1>1, <1>2, SubSeqProperties DEF LogInv
  <1>4. synced \in 0 .. Len(aof')
    BY <1>2, <1>3 DEF LogInv
  <1>5. lost' \subseteq Nat
    <2>1. Numbers(aof) \subseteq Nat
      BY NumbersType DEF LogInv
    <2> QED  BY <2>1, Zenon DEF Refused, LogInv
  <1> QED  BY <1>3, <1>4, <1>5 DEF Refused

LEMMA LogType ==
  ASSUME LogInv, JobInv, NEW c \in Client, Log(c)
  PROVE  LogInv'
  <1>1. /\ Append(aof, Logged(c)) \in Seq(Entry)
        /\ Len(Append(aof, Logged(c))) = Len(aof) + 1
    BY LogEntry DEF LogInv
  <1>2. job[c].n \in Nat /\ {job[c].n} \in SUBSET Nat
    BY LoggedType
  <1>3. UNCHANGED <<sent, finished>>
    BY DEF Log
  <1>4. CASE /\ aof' = Append(aof, Logged(c)) /\ UNCHANGED aofErr
             /\ synced' \in {Len(aof'), synced} /\ lost' \in {lost, lost \cup {job[c].n}}
    <2>1. aof' \in Seq(Entry) /\ Len(aof') = Len(aof) + 1
      BY <1>1, <1>4
    <2>2. synced' \in 0 .. Len(aof')
      BY <1>4, <2>1 DEF LogInv
    <2>3. lost' \subseteq Nat
      BY <1>2, <1>4 DEF LogInv
    <2> QED  BY <1>3, <1>4, <2>1, <2>2, <2>3 DEF LogInv
  <1>5. CASE Refused({job[c].n}) /\ UNCHANGED synced
    BY <1>2, <1>3, <1>5, RefusedType, Zenon DEF LogInv
  <1> QED  BY <1>4, <1>5, Zenon DEF Log

LEMMA StepTyped ==
  ASSUME Typed, NEW c \in Client, Step(c)
  PROVE  Typed'
  <1> USE DEF Typed
  <1>0. job[c] \in JobType
    BY DEF JobInv
  <1>k. /\ job[c].n \in Nat /\ job[c].told \in Seq(Key)
        /\ job[c].todo \in Seq(Key) /\ job[c].rest \in Seq(Op)
    BY <1>0, JobFields, Zenon
  <1>u. ASSUME UNCHANGED sessions
        PROVE  ConnInv' /\ SessInv' /\ watchedCount' \in Int
    BY <1>u DEF sessions, ConnInv, SessInv
  <1>g. ASSUME UNCHANGED logs  PROVE LogInv'
    BY <1>g DEF logs, file, LogInv
  <1>h. ASSUME UNCHANGED seen  PROVE HistInv'
    BY <1>h DEF seen, HistInv
  (* A step that only goes on to another stage, and one that finishes. *)
  <1>m. ASSUME UNCHANGED <<sessions, store, writes, file, sent>>, JobInv',
               HistInv', finished' \subseteq Nat
        PROVE  Typed'
    <2>1. LogInv'
      BY <1>m DEF file, LogInv
    <2> QED  BY <1>m, <1>u, <2>1
  <1>f. ASSUME UNCHANGED <<sessions, store, writes, file, sent>>, Finish(c)
        PROVE  Typed'
    BY <1>f, <1>m, FinishedType, Zenon
  <1>s. ASSUME UNCHANGED <<sessions, store, writes, file, sent, finished, seen>>,
               JobInv'
        PROVE  Typed'
    <2>1. finished' \subseteq Nat
      BY <1>s DEF LogInv
    <2> QED  BY <1>s, <1>m, <1>h, <2>1
  <1>1. CASE Apply(c)
    <2>1. Head(job[c].todo) \in Key /\ Tail(job[c].todo) \in Seq(Key)
      BY <1>1, <1>k, HeadTail DEF Apply
    <2>2. [job[c] EXCEPT !.todo = Tail(job[c].todo)] \in JobType
      BY <1>0, <2>1, JobFields, Zenon
    <2>3. JobInv'
      BY <1>1, <2>2 DEF Apply, JobInv
    <2>4. store' \in [Key -> Nat]
      BY <1>1, <1>k, <2>1 DEF Apply
    <2>5. HistInv'
      <3>1. Live \subseteq Obj
        BY DEF Live, ConnInv
      <3> QED  BY <1>1, <3>1 DEF Apply, HistInv
    <2>6. UNCHANGED <<sessions, writes, logs>>
      BY <1>1 DEF Apply
    <2> QED  BY <1>u, <1>g, <2>3, <2>4, <2>5, <2>6
  <1>2. CASE Applied(c)
    <2>1. (IF job[c].tx THEN "log" ELSE "count") \in Stages
      BY DEF Stages
    <2>2. JobInv'
      BY <1>2, <2>1, StageType DEF Applied
    <2> QED  BY <1>2, <1>s, <2>2 DEF Applied, logs
  <1>3. CASE Count(c)
    <2>0. UNCHANGED <<sessions, store, writes, file, sent>>
      BY <1>3 DEF Count
    <2>1. CASE job' = [job EXCEPT ![c].stage = "touch",
                                  ![c].todo = job[c].told]
               /\ UNCHANGED <<finished, seen>>
      <3>1. [job[c] EXCEPT !.stage = "touch", !.todo = job[c].told] \in JobType
        BY <1>0, <1>k, JobFields, Zenon DEF Stages
      <3>2. JobInv'
        BY <2>1, <3>1 DEF JobInv
      <3> QED  BY <1>s, <2>0, <2>1, <3>2
    <2>2. CASE Stage(c, "memory") /\ UNCHANGED <<finished, seen>>
      <3>1. JobInv'
        BY <2>2, StageType DEF Stages
      <3> QED  BY <1>s, <2>0, <2>2, <3>1
    <2>3. CASE Finish(c)
      BY <1>f, <2>0, <2>3
    <2> QED  BY <1>3, <2>1, <2>2, <2>3, Zenon DEF Count
  <1>4. CASE Touch(c)
    <2>1. Tail(job[c].todo) \in Seq(Key)
      BY <1>4, <1>k, HeadTail DEF Touch
    <2>2. [job[c] EXCEPT !.todo = Tail(job[c].todo)] \in JobType
      BY <1>0, <2>1, JobFields, Zenon
    <2>3. JobInv'
      BY <1>4, <2>2 DEF Touch, JobInv
    <2>4. \A o \in Obj : [sess[o] EXCEPT !.aborted = TRUE] \in SessionType
      BY SessionFields, Zenon DEF SessInv
    <2>5. SessInv'
      BY <1>4, <2>4, Zenon DEF Touch, SessInv
    <2>6. /\ UNCHANGED <<conn, clientSessions, shared, watchedCount>>
          /\ UNCHANGED <<store, writes, logs, seen>>
      BY <1>4 DEF Touch
    <2>7. ConnInv'
      BY <2>6 DEF ConnInv
    <2> QED  BY <1>g, <1>h, <2>3, <2>5, <2>6, <2>7
  <1>5. CASE Touched(c)
    <2>0. UNCHANGED <<sessions, store, writes, file, sent>>
      BY <1>5 DEF Touched
    <2>1. CASE Stage(c, "memory") /\ UNCHANGED <<finished, seen>>
      <3>1. JobInv'
        BY <2>1, StageType DEF Stages
      <3> QED  BY <1>s, <2>0, <2>1, <3>1
    <2>2. CASE Finish(c)
      BY <1>f, <2>0, <2>2
    <2> QED  BY <1>5, <2>1, <2>2, Zenon DEF Touched
  <1>6. CASE Memory(c)
    <2>0. UNCHANGED <<sessions, writes, logs>>
      BY <1>6 DEF Memory
    <2>1. store' \in [Key -> Nat]
      BY <1>6 DEF Memory
    <2>2. CASE Stage(c, "log") /\ UNCHANGED seen
      <3>1. JobInv'
        BY <2>2, StageType DEF Stages
      <3> QED  BY <1>u, <1>g, <1>h, <2>0, <2>1, <2>2, <3>1
    <2>3. CASE job' = [job EXCEPT ![c] = Idle] /\ Answered(c)
      <3>1. JobInv'
        BY <2>3, IdleType DEF JobInv
      <3>2. HistInv'
        BY <2>3, AnsweredType
      <3> QED  BY <1>u, <1>g, <2>0, <2>1, <3>1, <3>2
    <2> QED  BY <1>6, <2>2, <2>3, Zenon DEF Memory
  <1>7. CASE Log(c)
    <2>1. JobInv'
      BY <1>7, StageType DEF Log, Stages
    <2>2. LogInv'
      BY <1>7, LogType
    <2>3. UNCHANGED <<sessions, store, writes, seen>>
      BY <1>7 DEF Log
    <2> QED  BY <1>u, <1>h, <2>1, <2>2, <2>3
  <1>8. CASE Broadcast(c)
    <2>0. UNCHANGED <<sessions, store, writes, file>>
      BY <1>8 DEF Broadcast
    <2>1. sent' \in Seq(Entry)
      BY <1>8, LogEntry DEF Broadcast, LogInv
    <2>2. JobInv' /\ finished' \subseteq Nat /\ HistInv'
      <3>1. CASE Stage(c, "count") /\ UNCHANGED <<finished, seen>>
        <4>1. JobInv'
          BY <3>1, StageType DEF Stages
        <4> QED  BY <1>h, <3>1, <4>1 DEF LogInv
      <3>2. CASE Finish(c)
        BY <3>2, FinishedType
      <3> QED  BY <1>8, <3>1, <3>2, Zenon DEF Broadcast
    <2>3. LogInv'
      BY <2>0, <2>1, <2>2 DEF LogInv, file
    <2> QED  BY <1>u, <2>0, <2>2, <2>3
  <1>9. CASE ExecNext(c)
    <2> DEFINE op == Head(job[c].rest)
               left == [job[c] EXCEPT !.rest = Tail(job[c].rest)]
    <2>1. op \in Op /\ Tail(job[c].rest) \in Seq(Op)
      BY <1>9, <1>k, HeadTail DEF ExecNext
    <2>2. left \in JobType
      BY <1>0, <2>1, JobFields, Zenon
    <2>3. UNCHANGED <<store, logs>>
      BY <1>9 DEF ExecNext
    <2>4. LogInv' /\ store' \in [Key -> Nat]
      BY <1>g, <2>3
    <2>6. CASE /\ writes' = writes + 1 /\ Begin(c, op, left)
               /\ UNCHANGED <<sessions, seen>>
      <3>1. JobInv'
        BY <2>1, <2>2, <2>6, BeginType
      <3> QED  BY <1>u, <1>h, <2>4, <2>6, <3>1
    <2>7. CASE /\ DispatchWatch(c, op) /\ job' = [job EXCEPT ![c] = left]
               /\ UNCHANGED writes
      <3>1. ConnInv' /\ SessInv' /\ HistInv' /\ watchedCount' \in Int
        BY <2>1, <2>7, DispatchWatchType, Zenon
      <3>2. JobInv'
        BY <2>2, <2>7 DEF JobInv
      <3> QED  BY <2>4, <2>7, <3>1, <3>2
    <2> QED  BY <1>9, <2>6, <2>7, Zenon DEF ExecNext
  <1>10. CASE ExecEnd(c)
    <2>1. JobInv'
      BY <1>10, IdleType DEF ExecEnd, JobInv
    <2> QED  BY <1>10, <1>s, <2>1 DEF ExecEnd, Data, logs
  <1> QED
    BY <1>1, <1>2, <1>3, <1>4, <1>5, <1>6, <1>7, <1>8, <1>9, <1>10, Zenon DEF Step

(* A set of indices that is not empty has a largest one. *)
LEMMA LargestIndex ==
  ASSUME NEW n \in Nat, NEW I \in SUBSET (1 .. n), I # {}
  PROVE  \E i \in I : \A j \in I : j <= i
  <1> DEFINE R == {ss \in Nat \X Nat : ss[1] < ss[2]}
             T == {m \in Nat : \E i \in I : m = n - i}
  <1>1. PICK i0 \in I : TRUE
    BY Zenon
  <1>2. n - i0 \in T
    OBVIOUS
  <1>3. T \subseteq Nat /\ T # {}
    BY <1>2, Zenon
  <1>4. PICK x \in T : \A y \in T : ~(<<y, x>> \in R)
    <2> HIDE DEF T, R
    <2>1. IsWellFoundedOn(R, Nat)
      BY NatLessThanWellFounded DEF R, OpToRel
    <2> QED  BY <1>3, <2>1, WFMin, Zenon
  <1>5. ASSUME NEW y \in T  PROVE x <= y
    <2>1. x \in Nat /\ y \in Nat /\ ~(<<y, x>> \in R)
      BY <1>4
    <2>2. ~(y < x)
      <3>1. ASSUME y < x  PROVE <<y, x>> \in R
        <4>1. <<y, x>> \in Nat \X Nat /\ <<y, x>>[1] < <<y, x>>[2]
          BY <2>1, <3>1
        <4> QED  BY <4>1, Zenon
      <3> QED  BY <2>1, <3>1
    <2> QED  BY <2>1, <2>2
  <1>6. PICK i \in I : x = n - i
    OBVIOUS
  <1>7. ASSUME NEW j \in I  PROVE j <= i
    <2>1. n - j \in T
      OBVIOUS
    <2>2. n - i <= n - j
      BY <1>5, <1>6, <2>1
    <2> QED  BY <2>2
  <1> QED  BY <1>7

LEMMA ReplayType ==
  ASSUME NEW log \in Seq(Entry)
  PROVE  Replay(log) \in [Key -> Nat]
  <1> SUFFICES ASSUME NEW k \in Key  PROVE Replay(log)[k] \in Nat
    BY Zenon DEF Replay
  <1> DEFINE I == {i \in 1 .. Len(log) : k \in Elems(log[i].keys)}
             m == CHOOSE i \in I : \A j \in I : j <= i
  <1>1. Replay(log)[k] = IF I = {} THEN 0 ELSE log[m].n
    BY DEF Replay
  <1>2. CASE I = {}
    BY <1>1, <1>2
  <1>3. CASE I # {}
    <2>1. I \in SUBSET (1 .. Len(log)) /\ Len(log) \in Nat
      OBVIOUS
    <2>2. m \in I
      <3> HIDE DEF I
      <3>1. \E i \in I : \A j \in I : j <= i
        BY <1>3, <2>1, LargestIndex, Zenon
      <3> QED  BY <3>1
    <2>3. log[m] \in Entry
      BY <2>1, <2>2, ElementOfSeq
    <2>4. log[m].n \in Nat
      BY <2>3 DEF Entry
    <2> QED  BY <1>1, <1>3, <2>4
  <1> QED  BY <1>2, <1>3

LEMMA CrashTyped ==
  ASSUME Typed, Crash
  PROVE  Typed'
  <1> USE DEF Typed
  <1>1. PICK m \in synced .. Len(aof) : aof' = SubSeq(aof, 1, m) /\ synced' = m
    BY Zenon DEF Crash
  <1>2. m \in 0 .. Len(aof)
    BY DEF LogInv
  <1>3. aof' \in Seq(Entry) /\ Len(aof') = m
    BY <1>1, <1>2, SubSeqProperties DEF LogInv
  <1>4. LogInv'
    <2>1. << >> \in Seq(Entry)
      OBVIOUS
    <2>2. synced' \in 0 .. Len(aof')
      BY <1>1, <1>2, <1>3
    <2> QED  BY <1>3, <2>1, <2>2, Zenon DEF Crash, LogInv
  <1>5. store' \in [Key -> Nat]
    BY <1>3, ReplayType, Zenon DEF Crash
  <1>6. SessInv' /\ JobInv'
    BY NewSessionType, IdleType DEF Crash, SessInv, JobInv
  <1>7. HistInv' /\ ConnInv'
    BY DEF Crash, HistInv, ConnInv
  <1>8. watchedCount' \in Int /\ writes' \in Nat
    BY DEF Crash
  <1> QED  BY <1>4, <1>5, <1>6, <1>7, <1>8

LEMMA FsyncTyped ==
  ASSUME Typed, FsyncLoop
  PROVE  Typed'
  <1> USE DEF Typed
  <1>1. /\ aof' \in Seq(Entry) /\ synced \in 0 .. Len(aof')
        /\ aofErr' \in BOOLEAN /\ lost' \subseteq Nat
    <2>1. CASE UNCHANGED <<aof, aofErr, lost>>
      BY <2>1 DEF LogInv
    <2>2. CASE Refused({})
      BY <2>2, RefusedType
    <2> QED  BY <2>1, <2>2, Zenon DEF FsyncLoop
  <1>2. synced' \in 0 .. Len(aof')
    <2>1. synced' \in {Len(aof'), synced}
      BY Zenon DEF FsyncLoop
    <2> QED  BY <1>1, <2>1
  <1>3. LogInv'
    BY <1>1, <1>2 DEF FsyncLoop, LogInv
  <1>4. UNCHANGED <<conn, clientSessions, sess, watchedCount, shared, job,
                    store, writes, hit, stale>>
    BY DEF FsyncLoop, sessions, seen
  <1> QED  BY <1>3, <1>4 DEF ConnInv, SessInv, JobInv, HistInv

LEMMA TypeNext == TypeInv /\ [Next]_vars => TypeInv'
  <1> SUFFICES ASSUME TypeInv, [Next]_vars  PROVE TypeInv'
    OBVIOUS
  <1>1. Typed /\ config \in Config
    BY TypeParts
  <1>2. config' = config
    BY DEF Next, vars
  <1>3. Typed'
    <2>1. ASSUME NEW c \in Client, Session(c)  PROVE Typed'
      BY <1>1, <2>1, SessionTyped
    <2>2. ASSUME NEW c \in Client, Step(c)  PROVE Typed'
      BY <1>1, <2>2, StepTyped
    <2>3. CASE FsyncLoop
      BY <1>1, <2>3, FsyncTyped
    <2>4. CASE Crash
      BY <1>1, <2>4, CrashTyped
    <2>5. CASE UNCHANGED vars
      BY <1>1, <2>5 DEF vars, sessions, logs, file, seen, Typed, ConnInv,
         SessInv, JobInv, LogInv, HistInv
    <2> QED  BY <2>1, <2>2, <2>3, <2>4, <2>5 DEF Next
  <1>4. TypeInv' <=> config' \in Config /\ Typed'
    BY DEF TypeInv, Typed, ConnInv, SessInv, JobInv, LogInv, HistInv
  <1> QED  BY <1>1, <1>2, <1>3, <1>4

(* The type invariant holds for any connections, sessions, keys and         *)
(* commands: what ExecuteCommandWithSession, executeTransaction, the fsync  *)
(* loop, errors of the disk and the replay after a crash leave behind is a  *)
(* state of the engine.                                                     *)
THEOREM TypeCorrect == Spec => []TypeInv
  BY TypeInit, TypeNext, PTL DEF Spec
-----------------------------------------------------------------------------
(* What the operators that change a job do to its fields. *)
OthersKeep(c) == \A e \in Client \ {c} : job'[e] = job[e]

LEMMA StageFields ==
  ASSUME JobInv, NEW c \in Client, NEW s, Stage(c, s)
  PROVE  /\ job'[c].stage = s /\ job'[c].tx = job[c].tx
         /\ job'[c].n = job[c].n /\ job'[c].told = job[c].told
         /\ job'[c].todo = job[c].todo /\ OthersKeep(c)
  BY DEF JobInv, Stage, JobType, OthersKeep

LEMMA FinishFields ==
  ASSUME JobInv, NEW c \in Client, Finish(c)
  PROVE  /\ job'[c].stage \in {"idle", "next"}
         /\ job'[c].stage = "next" <=> job[c].tx
         /\ OthersKeep(c)
  BY DEF JobInv, Finish, Idle, OthersKeep

LEMMA BeginFields ==
  ASSUME JobInv, NEW c \in Client, NEW op, NEW j \in JobType, Begin(c, op, j)
  PROVE  job'[c].stage = "apply" /\ OthersKeep(c)
  BY DEF JobInv, Begin, JobType, OthersKeep

LEMMA IdleFields ==
  ASSUME JobInv, NEW c \in Client, job' = [job EXCEPT ![c] = Idle]
  PROVE  job'[c].stage = "idle" /\ OthersKeep(c)
  BY DEF JobInv, Idle, OthersKeep

LEMMA TodoFields ==
  ASSUME JobInv, NEW c \in Client, NEW t, job' = [job EXCEPT ![c].todo = t]
  PROVE  /\ job'[c].stage = job[c].stage /\ job'[c].tx = job[c].tx
         /\ job'[c].n = job[c].n /\ job'[c].told = job[c].told
         /\ job'[c].todo = t /\ OthersKeep(c)
  BY DEF JobInv, JobType, OthersKeep

LEMMA TouchFields ==
  ASSUME JobInv, NEW c \in Client, NEW t,
         job' = [job EXCEPT ![c].stage = "touch", ![c].todo = t]
  PROVE  /\ job'[c].stage = "touch" /\ job'[c].tx = job[c].tx
         /\ job'[c].n = job[c].n /\ job'[c].todo = t /\ OthersKeep(c)
  BY DEF JobInv, JobType, OthersKeep

LEMMA RestFields ==
  ASSUME JobInv, NEW c \in Client, NEW r,
         job' = [job EXCEPT ![c] = [job[c] EXCEPT !.rest = r]]
  PROVE  job'[c].stage = job[c].stage /\ OthersKeep(c)
  BY DEF JobInv, JobType, OthersKeep

LEMMA ExecFields ==
  ASSUME JobInv, NEW c \in Client, Exec(c)
  PROVE  job'[c].stage \in {"idle", "next"} /\ OthersKeep(c)
  BY DEF Exec, Ready, JobInv, JobType, OthersKeep
-----------------------------------------------------------------------------
(* The append-only file.  Journalled is not inductive: it needs that a      *)
(* write being sent is in the file or refused by it, and that a write of a  *)
(* transaction that has still to be made known is in the stream.            *)

(* The writes the file keeps: those on disk, under "always". *)
Kept == IF config.fsync = "always" THEN Numbers(SubSeq(aof, 1, synced))
        ELSE Numbers(aof)
InFile == \A c \in Client : job[c].stage = "cast" => job[c].n \in Kept \cup lost
InStream == \A c \in Client :
              job[c].tx /\ job[c].stage \in {"count", "touch"}
              => job[c].n \in Numbers(sent)

JournalInv == InFile /\ InStream /\ Journalled

LEMMA JournalledKept ==
  Journalled <=> finished \subseteq Numbers(sent) /\ Numbers(sent) \subseteq Kept \cup lost
  BY Zenon DEF Journalled, Kept

LEMMA NumbersEmpty == Numbers(<< >>) = {}
  BY DEF Numbers

LEMMA NumbersAppend ==
  ASSUME NEW log \in Seq(Entry), NEW e \in Entry
  PROVE  Numbers(Append(log, e)) = Numbers(log) \cup {e.n}
  <1>1. /\ Len(Append(log, e)) = Len(log) + 1 /\ Len(log) \in Nat
        /\ \A i \in 1 .. Len(log) : Append(log, e)[i] = log[i]
        /\ Append(log, e)[Len(log) + 1] = e
    BY AppendProperties
  <1>2. ASSUME NEW x \in Numbers(Append(log, e))
        PROVE  x \in Numbers(log) \cup {e.n}
    <2>1. PICK i \in 1 .. Len(log) + 1 : x = Append(log, e)[i].n
      BY <1>1 DEF Numbers
    <2>2. CASE i \in 1 .. Len(log)
      BY <1>1, <2>1, <2>2 DEF Numbers
    <2>3. CASE i = Len(log) + 1
      BY <1>1, <2>1, <2>3
    <2> QED  BY <1>1, <2>2, <2>3
  <1>3. ASSUME NEW x \in Numbers(log)  PROVE x \in Numbers(Append(log, e))
    <2>1. PICK i \in 1 .. Len(log) : x = log[i].n
      BY DEF Numbers
    <2>2. i \in 1 .. Len(Append(log, e)) /\ x = Append(log, e)[i].n
      BY <1>1, <2>1
    <2> QED  BY <2>2 DEF Numbers
  <1>4. e.n \in Numbers(Append(log, e))
    <2>1. Len(log) + 1 \in 1 .. Len(Append(log, e))
      BY <1>1
    <2> QED  BY <1>1, <2>1 DEF Numbers
  <1> QED  BY <1>2, <1>3, <1>4

LEMMA NumbersOfWrite ==
  ASSUME JobInv, NEW c \in Client, NEW log \in Seq(Entry)
  PROVE  Numbers(Append(log, Logged(c))) = Numbers(log) \cup {job[c].n}
  BY LoggedType, NumbersAppend

LEMMA NumbersPrefix ==
  ASSUME NEW log \in Seq(Entry), NEW m \in 0 .. Len(log)
  PROVE  Numbers(SubSeq(log, 1, m)) = {log[i].n : i \in 1 .. m}
  <1>1. Len(SubSeq(log, 1, m)) = m /\ \A i \in 1 .. m : SubSeq(log, 1, m)[i] = log[i]
    BY SubSeqProperties
  <1> QED  BY <1>1 DEF Numbers

(* A write that is in the file stays there or is lost.  Under "always" the  *)
(* file only grows, on disk too.                                            *)
LEMMA LogKeeps ==
  ASSUME LogInv, JobInv, UNCHANGED config, NEW c \in Client, Log(c)
  PROVE  Kept \cup lost \cup {job[c].n} \subseteq (Kept \cup lost)'
  <1>1. aof \in Seq(Entry) /\ synced \in 0 .. Len(aof) /\ Len(aof) \in Nat
    BY DEF LogInv
  <1>2. CASE /\ aof' = Append(aof, Logged(c))
             /\ \/ /\ synced' = IF config.fsync = "always" THEN Len(aof') ELSE synced
                   /\ lost' = lost
                \/ synced' = synced /\ lost' = lost \cup {job[c].n}
    <2>1. aof' \in Seq(Entry) /\ Len(aof') = Len(aof) + 1
      BY <1>1, <1>2, LogEntry
    <2>2. Numbers(aof') = Numbers(aof) \cup {job[c].n}
      BY <1>1, <1>2, NumbersOfWrite
    <2>3. \A i \in 1 .. Len(aof) : aof'[i] = aof[i]
      BY <1>1, <1>2, LoggedType, AppendProperties
    <2>4. CASE config.fsync # "always"
      <3>1. Kept = Numbers(aof) /\ Kept' = Numbers(aof')
        BY <2>4, Zenon DEF Kept
      <3>2. lost \subseteq lost'
        BY <1>2, Zenon
      <3> QED  BY <2>2, <3>1, <3>2
    <2>5. CASE config.fsync = "always" /\ synced' = Len(aof')
      <3>1. SubSeq(aof', 1, synced') = aof'
        BY <2>1, <2>5, SubSeqFull
      <3>2. Kept' = Numbers(aof')
        BY <2>5, <3>1, Zenon DEF Kept
      <3>3. Kept \subseteq Numbers(aof)
        <4>1. Kept = {aof[i].n : i \in 1 .. synced}
          BY <1>1, <2>5, NumbersPrefix, Zenon DEF Kept
        <4>2. 1 .. synced \subseteq 1 .. Len(aof)
          BY <1>1
        <4> QED  BY <4>1, <4>2, Zenon DEF Numbers
      <3>4. lost \subseteq lost'
        BY <1>2, Zenon
      <3> QED  BY <2>2, <3>2, <3>3, <3>4
    <2>6. CASE config.fsync = "always" /\ synced' = synced /\ lost' = lost \cup {job[c].n}
      <3>1. synced \in 0 .. Len(aof')
        BY <1>1, <2>1
      <3>2. /\ Kept = {aof[i].n : i \in 1 .. synced}
            /\ Kept' = {aof'[i].n : i \in 1 .. synced}
        BY <1>1, <2>1, <2>6, <3>1, NumbersPrefix, Zenon DEF Kept
      <3>3. \A i \in 1 .. synced : aof'[i] = aof[i]
        BY <1>1, <2>3
      <3>4. Kept' = Kept
        BY <3>2, <3>3
      <3> QED  BY <2>6, <3>4
    <2> QED  BY <1>2, <2>4, <2>5, <2>6, Zenon
  <1>3. CASE Refused({job[c].n}) /\ UNCHANGED synced
    <2>1. PICK m \in synced .. Len(aof) :
            /\ (aofErr \/ config.fsync = "always") => m = Len(aof)
            /\ aof' = SubSeq(aof, 1, m)
      BY <1>3, Zenon DEF Refused
    <2>2. lost' = lost \cup {job[c].n} \cup (Numbers(aof) \ Numbers(aof'))
      BY <1>3, Zenon DEF Refused
    <2>3. CASE config.fsync = "always"
      <3>1. aof' = aof
        BY <1>1, <2>1, <2>3, SubSeqFull
      <3>2. Kept' = Kept
        BY <1>3, <3>1, Zenon DEF Kept
      <3> QED  BY <2>2, <3>2
    <2>4. CASE config.fsync # "always"
      <3>1. Kept = Numbers(aof) /\ Kept' = Numbers(aof')
        BY <2>4, Zenon DEF Kept
      <3> QED  BY <2>2, <3>1
    <2> QED  BY <2>3, <2>4
  <1> QED  BY <1>2, <1>3, Zenon DEF Log

LEMMA FsyncKeeps ==
  ASSUME LogInv, UNCHANGED config, FsyncLoop
  PROVE  Kept \cup lost \subseteq (Kept \cup lost)'
  <1>1. config.fsync # "always"
    BY DEF FsyncLoop
  <1>2. Kept = Numbers(aof) /\ Kept' = Numbers(aof')
    BY <1>1, Zenon DEF Kept
  <1>3. CASE UNCHANGED <<aof, aofErr, lost>>
    BY <1>2, <1>3
  <1>4. CASE Refused({})
    <2>1. lost' = lost \cup {} \cup (Numbers(aof) \ Numbers(aof'))
      BY <1>4, Zenon DEF Refused
    <2> QED  BY <1>2, <2>1
  <1> QED  BY <1>3, <1>4, Zenon DEF FsyncLoop

(* JournalInv is kept by a step of c that logs and sends nothing, if the    *)
(* new stage of c is a promise it keeps.                                    *)
LEMMA JournalStep ==
  ASSUME JournalInv, NEW c \in Client, OthersKeep(c),
         UNCHANGED <<config, aof, synced, lost, sent>>,
         finished' \subseteq finished \cup Numbers(sent),
         job'[c].stage # "cast",
         job'[c].tx /\ job'[c].stage \in {"count", "touch"}
           => job'[c].n \in Numbers(sent)
  PROVE  JournalInv'
  <1>1. Kept' = Kept
    BY Zenon DEF Kept
  <1>2. InFile'
    BY <1>1 DEF JournalInv, InFile, OthersKeep
  <1>3. InStream'
    BY DEF JournalInv, InStream, OthersKeep
  <1>4. Journalled'
    BY <1>1 DEF JournalInv, Journalled, Kept
  <1> QED  BY <1>2, <1>3, <1>4 DEF JournalInv

LEMMA JournalSame ==
  ASSUME JournalInv, UNCHANGED <<config, job, logs>>
  PROVE  JournalInv'
  <1>1. UNCHANGED <<config, job, aof, synced, lost, sent, finished>>
    BY DEF logs, file
  <1>2. InFile'
    BY <1>1 DEF JournalInv, InFile, Kept
  <1>3. InStream'
    BY <1>1 DEF JournalInv, InStream
  <1>4. Journalled'
    BY <1>1 DEF JournalInv, Journalled
  <1> QED  BY <1>2, <1>3, <1>4 DEF JournalInv

LEMMA SessionJournal ==
  ASSUME JournalInv, Typed, UNCHANGED config, config \in Config,
         NEW c \in Client, Session(c)
  PROVE  JournalInv'
  <1>1. CASE Exec(c)
    <2>1. OthersKeep(c) /\ job'[c].stage \in {"idle", "next"}
      BY <1>1, ExecFields DEF Typed
    <2>2. UNCHANGED <<aof, synced, lost, sent, finished>>
      BY <1>1 DEF Exec, Data, logs, file
    <2> QED  BY <2>1, <2>2, JournalStep
  <1>2. ASSUME NEW op \in Op, WriteCommand(c, op)  PROVE JournalInv'
    <2>1. job'[c].stage = "apply" /\ OthersKeep(c)
      BY <1>2, IdleType, BeginFields DEF WriteCommand, Typed
    <2>2. UNCHANGED <<aof, synced, lost, sent, finished>>
      BY <1>2 DEF WriteCommand, logs, file
    <2> QED  BY <2>1, <2>2, JournalStep
  <1>3. CASE Connect(c) \/ Multi(c) \/ Discard(c) \/ Close(c)
    BY <1>3, JournalSame, Zenon DEF Connect, Multi, Discard, Close, Hangup, Data
  <1>4. ASSUME NEW op, Queue(c, op) \/ WatchCommand(c, op)  PROVE JournalInv'
    BY <1>4, JournalSame, Zenon DEF Queue, WatchCommand, Data
  <1> QED  BY <1>1, <1>2, <1>3, <1>4, CommandsType DEF Session

LEMMA StepJournal ==
  ASSUME JournalInv, Typed, UNCHANGED config, NEW c \in Client, Step(c)
  PROVE  JournalInv'
  <1> USE DEF Typed
  <1>0. job[c] \in JobType
    BY DEF JobInv
  <1>g. ASSUME UNCHANGED logs
        PROVE  UNCHANGED <<aof, synced, lost, sent, finished>>
    BY <1>g DEF logs, file
  <1>f. ASSUME Finish(c), UNCHANGED <<file, sent>>, job[c].n \in Numbers(sent)
        PROVE  JournalInv'
    <2>1. OthersKeep(c) /\ job'[c].stage \in {"idle", "next"}
      BY <1>f, FinishFields
    <2>2. UNCHANGED <<aof, synced, lost, sent>>
      BY <1>f DEF file
    <2>3. finished' \subseteq finished \cup Numbers(sent)
      BY <1>f DEF Finish
    <2> QED  BY <2>1, <2>2, <2>3, JournalStep
  <1>m. ASSUME Stage(c, "memory"), UNCHANGED <<file, sent, finished>>
        PROVE  JournalInv'
    <2>1. job'[c].stage = "memory" /\ OthersKeep(c)
      BY <1>m, StageFields
    <2>2. UNCHANGED <<aof, synced, lost, sent>>
      BY <1>m DEF file
    <2> QED  BY <1>m, <2>1, <2>2, JournalStep
  <1>1. CASE Apply(c)
    <2>1. job'[c].stage = "apply" /\ OthersKeep(c)
      BY <1>1, TodoFields, Zenon DEF Apply
    <2> QED  BY <1>1, <1>g, <2>1, JournalStep DEF Apply
  <1>2. CASE Applied(c)
    <2>1. /\ job'[c].stage = (IF job[c].tx THEN "log" ELSE "count")
          /\ job'[c].tx = job[c].tx /\ OthersKeep(c)
      BY <1>2, StageFields DEF Applied
    <2> QED  BY <1>2, <1>g, <2>1, JournalStep DEF Applied
  <1>3. CASE Count(c)
    <2>1. job[c].tx => job[c].n \in Numbers(sent)
      BY <1>3 DEF Count, JournalInv, InStream
    <2>2. CASE /\ job' = [job EXCEPT ![c].stage = "touch",
                                      ![c].todo = job[c].told]
               /\ UNCHANGED <<finished, seen>>
      <3>1. /\ job'[c].stage = "touch" /\ job'[c].tx = job[c].tx
            /\ job'[c].n = job[c].n /\ OthersKeep(c)
        BY <2>2, TouchFields, Zenon
      <3>2. UNCHANGED <<aof, synced, lost, sent, finished>>
        BY <1>3, <2>2 DEF Count, file
      <3> QED  BY <2>1, <3>1, <3>2, JournalStep
    <2>3. CASE Stage(c, "memory") /\ UNCHANGED <<finished, seen>>
      BY <1>3, <1>m, <2>3 DEF Count
    <2>4. CASE job[c].tx /\ Finish(c)
      BY <1>3, <1>f, <2>1, <2>4 DEF Count
    <2> QED  BY <1>3, <2>2, <2>3, <2>4, Zenon DEF Count
  <1>4. CASE Touch(c)
    <2>1. /\ job'[c].stage = "touch" /\ job'[c].tx = job[c].tx
          /\ job'[c].n = job[c].n /\ OthersKeep(c)
      BY <1>4, TodoFields, Zenon DEF Touch
    <2>2. job[c].tx => job[c].n \in Numbers(sent)
      BY <1>4 DEF Touch, JournalInv, InStream
    <2> QED  BY <1>4, <1>g, <2>1, <2>2, JournalStep DEF Touch
  <1>5. CASE Touched(c)
    <2>1. job[c].tx => job[c].n \in Numbers(sent)
      BY <1>5 DEF Touched, JournalInv, InStream
    <2>2. CASE Stage(c, "memory") /\ UNCHANGED <<finished, seen>>
      BY <1>5, <1>m, <2>2 DEF Touched
    <2>3. CASE job[c].tx /\ Finish(c)
      BY <1>5, <1>f, <2>1, <2>3 DEF Touched
    <2> QED  BY <1>5, <2>2, <2>3, Zenon DEF Touched
  <1>6. CASE Memory(c)
    <2>1. CASE Stage(c, "log")
      <3>1. job'[c].stage = "log" /\ OthersKeep(c)
        BY <2>1, StageFields
      <3> QED  BY <1>6, <1>g, <3>1, JournalStep DEF Memory
    <2>2. CASE job' = [job EXCEPT ![c] = Idle]
      <3>1. job'[c].stage = "idle" /\ OthersKeep(c)
        BY <2>2, IdleFields
      <3> QED  BY <1>6, <1>g, <3>1, JournalStep DEF Memory
    <2> QED  BY <1>6, <2>1, <2>2, Zenon DEF Memory
  <1>7. CASE Log(c)
    <2>1. job'[c].stage = "cast" /\ job'[c].n = job[c].n /\ OthersKeep(c)
      BY <1>7, StageFields DEF Log
    <2>2. Kept \cup lost \cup {job[c].n} \subseteq (Kept \cup lost)'
      BY <1>7, LogKeeps
    <2>3. UNCHANGED <<sent, finished>>
      BY <1>7 DEF Log
    <2>4. InFile'
      BY <2>1, <2>2, Zenon DEF JournalInv, InFile, OthersKeep
    <2>5. InStream'
      BY <2>1, <2>3 DEF JournalInv, InStream, OthersKeep
    <2>6. Journalled'
      <3>1. finished \subseteq Numbers(sent) /\ Numbers(sent) \subseteq Kept \cup lost
        BY JournalledKept DEF JournalInv
      <3> QED  BY <2>2, <2>3, <3>1, Zenon DEF Journalled, Kept
    <2> QED  BY <2>4, <2>5, <2>6 DEF JournalInv
  <1>8. CASE Broadcast(c)
    <2>1. Numbers(sent') = Numbers(sent) \cup {job[c].n}
      BY <1>8, NumbersOfWrite DEF Broadcast, LogInv
    <2>2. job[c].n \in Kept \cup lost
      BY <1>8, Zenon DEF Broadcast, JournalInv, InFile
    <2>3. /\ OthersKeep(c) /\ job'[c].stage # "cast"
          /\ job'[c].tx /\ job'[c].stage \in {"count", "touch"}
                => job'[c].n = job[c].n
      BY <1>8, StageFields, FinishFields DEF Broadcast
    <2>4. finished' \subseteq finished \cup {job[c].n}
      BY <1>8 DEF Broadcast, Finish
    <2>5. UNCHANGED <<aof, synced, lost>>
      BY <1>8 DEF Broadcast, file
    <2>6. Kept' = Kept
      BY <2>5, Zenon DEF Kept
    <2>7. InFile'
      BY <2>3, <2>5, <2>6 DEF JournalInv, InFile, OthersKeep
    <2>8. InStream'
      BY <2>1, <2>3 DEF JournalInv, InStream, OthersKeep
    <2>9. Journalled'
      <3>1. finished \subseteq Numbers(sent) /\ Numbers(sent) \subseteq Kept \cup lost
        BY JournalledKept DEF JournalInv
      <3>2. finished' \subseteq Numbers(sent') /\ Numbers(sent') \subseteq Kept' \cup lost'
        BY <2>1, <2>2, <2>4, <2>5, <2>6, <3>1
      <3> QED  BY <3>2, Zenon DEF Journalled, Kept
    <2> QED  BY <2>7, <2>8, <2>9 DEF JournalInv
  <1>9. CASE ExecNext(c)
    <2> DEFINE left == [job[c] EXCEPT !.rest = Tail(job[c].rest)]
    <2>1. job[c].rest \in Seq(Op) /\ job[c].rest # << >>
      BY <1>0, <1>9, JobFields, Zenon DEF ExecNext
    <2>2. Tail(job[c].rest) \in Seq(Op)
      BY <2>1, HeadTail
    <2>3. left \in JobType
      BY <1>0, <2>2, JobFields, Zenon
    <2>g. UNCHANGED <<aof, synced, lost, sent, finished>>
      BY <1>9, <1>g DEF ExecNext
    <2>4. CASE Begin(c, Head(job[c].rest), left)
      <3>1. job'[c].stage = "apply" /\ OthersKeep(c)
        BY <2>3, <2>4, BeginFields
      <3> QED  BY <2>g, <3>1, JournalStep
    <2>5. CASE job' = [job EXCEPT ![c] = left]
      <3>1. job'[c].stage = "next" /\ OthersKeep(c)
        BY <1>9, <2>5, RestFields, Zenon DEF ExecNext
      <3> QED  BY <2>g, <3>1, JournalStep
    <2> QED  BY <1>9, <2>4, <2>5, Zenon DEF ExecNext
  <1>10. CASE ExecEnd(c)
    <2>1. job'[c].stage = "idle" /\ OthersKeep(c)
      BY <1>10, IdleFields DEF ExecEnd
    <2> QED  BY <1>10, <1>g, <2>1, JournalStep DEF ExecEnd, Data
  <1> QED
    BY <1>1, <1>2, <1>3, <1>4, <1>5, <1>6, <1>7, <1>8, <1>9, <1>10, Zenon DEF Step

LEMMA JournalNext ==
  ASSUME TypeInv, JournalInv, [Next]_vars
  PROVE  JournalInv'
  <1>1. Typed /\ config \in Config
    BY TypeParts
  <1>2. UNCHANGED config
    BY DEF Next, vars
  <1>3. ASSUME NEW c \in Client, Session(c)  PROVE JournalInv'
    BY <1>1, <1>2, <1>3, SessionJournal
  <1>4. ASSUME NEW c \in Client, Step(c)  PROVE JournalInv'
    BY <1>1, <1>2, <1>4, StepJournal
  <1>5. CASE FsyncLoop
    <2>1. Kept \cup lost \subseteq (Kept \cup lost)'
      BY <1>1, <1>2, <1>5, FsyncKeeps DEF Typed
    <2>2. UNCHANGED <<job, sent, finished>>
      BY <1>5 DEF FsyncLoop
    <2>3. InFile' /\ InStream'
      BY <2>1, <2>2, Zenon DEF JournalInv, InFile, InStream
    <2>4. Journalled'
      <3>1. finished \subseteq Numbers(sent) /\ Numbers(sent) \subseteq Kept \cup lost
        BY JournalledKept DEF JournalInv
      <3> QED  BY <2>1, <2>2, <3>1, Zenon DEF Journalled, Kept
    <2> QED  BY <2>3, <2>4 DEF JournalInv
  <1>6. CASE Crash
    <2>1. InFile' /\ InStream'
      BY <1>6 DEF Crash, Idle, InFile, InStream
    <2>2. Journalled'
      BY <1>6, NumbersEmpty, Zenon DEF Crash, Journalled
    <2> QED  BY <2>1, <2>2 DEF JournalInv
  <1>7. CASE UNCHANGED vars
    BY <1>7, JournalSame DEF vars
  <1> QED  BY <1>3, <1>4, <1>5, <1>6, <1>7 DEF Next

LEMMA JournalInit == Init => JournalInv
  <1> SUFFICES ASSUME Init  PROVE JournalInv
    OBVIOUS
  <1>1. InFile /\ InStream
    BY DEF Init, Idle, InFile, InStream
  <1>2. Journalled
    BY NumbersEmpty, Zenon DEF Init, Journalled
  <1> QED  BY <1>1, <1>2 DEF JournalInv

(* A finished write has been sent to the replicas, and what has been sent   *)
(* is in the append-only file, on disk under "always", or is one that the   *)
(* file refused, however the writes of connections and transactions         *)
(* interleave, wherever the disk fails and the server crashes.              *)
THEOREM JournalKept == Spec => []Journalled
  <1>1. TypeInv /\ JournalInv /\ [Next]_vars => JournalInv'
    BY JournalNext
  <1>2. JournalInv => Journalled
    BY DEF JournalInv
  <1> QED  BY <1>1, <1>2, JournalInit, TypeCorrect, PTL DEF Spec
=============================================================================
