--------------------------- MODULE KeyspaceProofs ---------------------------
(* Proofs about module Keyspace, for any keys, goroutines and limits. *)
EXTENDS Keyspace, FiniteSetTheorems, TLAPS

(* The parts of the type invariant that a step of a goroutine changes. *)
JobInv == job \in [Client -> JobType]
EntriesInv == entries \in [Key -> Ref \cup {None}]
HeapInv == expiresAt \in [Ref -> Int]
NumInv == clock \in Nat /\ keyCount \in Int /\ cleared \in Nat
          /\ overlap \in BOOLEAN
ReaperInv == reaper \in [now : Nat, left : Nat]

LEMMA IdleType == Idle \in JobType
  BY DEF Idle, JobType, Ops

LEMMA JobFields ==
  ASSUME NEW j \in JobType
  PROVE  /\ j.op \in Ops /\ j.key \in Key \cup {None}
         /\ j.ref \in Ref \cup {None} /\ j.now \in Nat
         /\ j.cond \in {"get", "nx", "xx"} /\ j.left \in SUBSET Key
         /\ j.found \in SUBSET Key /\ j.n \in Nat
  BY DEF JobType

LEMMA CollectType ==
  ASSUME NEW heap \in [Ref -> Int], Collect(heap)
  PROVE  HeapInv'
  BY DEF Collect, HeapInv

(* What Keep, Remove, Put and Retime leave is well typed. *)
Data == EntriesInv /\ HeapInv /\ NumInv

LEMMA KeepType ==
  ASSUME Data, UNCHANGED clock, Keep
  PROVE  Data'
  BY CollectType DEF Data, Keep, EntriesInv, HeapInv, NumInv

LEMMA OverlapsType ==
  ASSUME NumInv, Overlaps
  PROVE  cleared' \in Nat /\ overlap' \in BOOLEAN
  BY DEF NumInv, Overlaps

LEMMA RemoveType ==
  ASSUME Data, UNCHANGED clock, NEW k \in Key, Remove(k)
  PROVE  Data'
  <1>1. HeapInv'
    BY CollectType DEF Data, HeapInv, Remove
  <1>2. EntriesInv'
    BY DEF Data, EntriesInv, Remove
  <1>3. NumInv'
    BY OverlapsType DEF Data, NumInv, Remove
  <1> QED  BY <1>1, <1>2, <1>3 DEF Data

LEMMA PutType ==
  ASSUME Data, UNCHANGED clock, NEW k \in Key, NEW exp \in Int, Put(k, exp)
  PROVE  Data'
  <1>1. PICK r \in Ref : /\ entries' = [entries EXCEPT ![k] = r]
                         /\ Collect([expiresAt EXCEPT ![r] = exp])
    BY Zenon DEF Put
  <1>2. [expiresAt EXCEPT ![r] = exp] \in [Ref -> Int]
    BY DEF Data, HeapInv
  <1>3. HeapInv'
    BY <1>1, <1>2, CollectType, Zenon
  <1>4. EntriesInv'
    BY <1>1 DEF Data, EntriesInv
  <1>5. keyCount' \in {keyCount, keyCount + 1}
    BY Zenon DEF Put
  <1>6. NumInv'
    BY <1>5, OverlapsType DEF Data, NumInv, Put
  <1> QED  BY <1>3, <1>4, <1>6 DEF Data

LEMMA RetimeType ==
  ASSUME Data, UNCHANGED clock, NEW k \in Key, NEW exp \in Int, Retime(k, exp)
  PROVE  Data'
  BY Zenon DEF Data, Retime, EntriesInv, HeapInv, NumInv

LEMMA DeadlineType ==
  ASSUME clock \in Nat
  PROVE  Deadlines \subseteq Int
  BY LimitAssumption DEF Deadlines

LEMMA TypeParts ==
  TypeInv <=> JobInv /\ ReaperInv /\ Data
  BY DEF TypeInv, JobInv, ReaperInv, Data, EntriesInv, HeapInv, NumInv
-----------------------------------------------------------------------------
(* The type invariant is not inductive: a command in its second half has a  *)
(* key.                                                                     *)
HasKey(j) == j.op \in {"get", "expired", "set"} => j.key \in Key
JobKeys == \A c \in Client : HasKey(job[c])

Typed == JobInv /\ JobKeys /\ ReaperInv /\ Data

LEMMA IdleKey == HasKey(Idle)
  BY DEF HasKey, Idle

LEMMA LockedTyped ==
  ASSUME Typed, NEW k \in Key, Locked(k)
  PROVE  Typed'
  <1> USE DEF Typed
  <1>1. clock \in Nat /\ Deadlines \subseteq Int
    BY DeadlineType DEF Data, NumInv
  <1>2. Alone
    BY DEF Locked, Set, SetNX, IncrBy, AppendTo, GetOrCreate, Create, Delete,
           Persist, Expire
  <1>3. JobInv' /\ JobKeys' /\ ReaperInv' /\ UNCHANGED clock
    BY <1>2 DEF Alone, JobInv, JobKeys, HasKey, ReaperInv
  <1>4. ASSUME NEW exp \in Int, Put(k, exp) \/ Retime(k, exp)  PROVE Data'
    BY <1>3, <1>4, PutType, RetimeType
  <1>5. ASSUME Remove(k)  PROVE Data'
    BY <1>3, <1>5, RemoveType
  <1>6. CASE Set(k)
    BY <1>1, <1>3, <1>4, <1>6 DEF Set
  <1>7. CASE Create(k)
    BY <1>3, <1>4, <1>7 DEF Create
  <1>8. CASE Delete(k)
    BY <1>3, <1>5, <1>8 DEF Delete
  <1>9. CASE Persist(k)
    BY <1>3, <1>4, <1>5, <1>9 DEF Persist
  <1>10. ASSUME NEW t \in TTL, Expire(k, t)  PROVE Typed'
    <2>1. clock + t \in Int
      BY <1>1, LimitAssumption
    <2> QED  BY <1>3, <1>4, <1>5, <1>10, <2>1 DEF Expire
  <1> QED
    BY <1>6, <1>7, <1>8, <1>9, <1>10
    DEF Locked, SetNX, IncrBy, AppendTo, GetOrCreate

(* A job replaced by a well typed one with a key. *)
LEMMA JobStep ==
  ASSUME JobInv, JobKeys, NEW c \in Client, NEW j \in JobType, HasKey(j),
         job' = [job EXCEPT ![c] = j]
  PROVE  JobInv' /\ JobKeys'
  <1>1. JobInv'
    BY DEF JobInv
  <1>2. ASSUME NEW d \in Client  PROVE HasKey(job'[d])
    <2>1. job'[d] = IF d = c THEN j ELSE job[d]
      BY DEF JobInv
    <2>2. HasKey(job[d])
      BY DEF JobKeys
    <2> QED  BY <2>1, <2>2
  <1>3. JobKeys'
    BY <1>2 DEF JobKeys, HasKey
  <1> QED  BY <1>1, <1>3

LEMMA ThenStep ==
  ASSUME JobInv, JobKeys, NEW c \in Client, NEW k \in Key, NEW cond, NEW hit,
         Then(c, k, cond, hit)
  PROVE  JobInv' /\ JobKeys'
  <1>1. [Idle EXCEPT !.op = "set", !.key = k] \in JobType
    BY Zenon DEF Idle, JobType, Ops
  <1>2. HasKey([Idle EXCEPT !.op = "set", !.key = k])
    BY DEF Idle, HasKey
  <1>3. CASE job' = [job EXCEPT ![c] = [Idle EXCEPT !.op = "set", !.key = k]]
    BY <1>1, <1>2, <1>3, JobStep, Zenon
  <1>4. CASE job' = [job EXCEPT ![c] = Idle]
    BY <1>4, IdleType, IdleKey, JobStep, Zenon
  <1> QED  BY <1>3, <1>4, Zenon DEF Then

LEMMA GoroutineTyped ==
  ASSUME Typed, NEW c \in Client, Goroutine(c)
  PROVE  Typed'
  <1> USE DEF Typed
  <1>0. job[c] \in JobType /\ HasKey(job[c])
    BY DEF JobInv, JobKeys
  <1>1. UNCHANGED <<clock, reaper>>
    BY Zenon DEF Goroutine, Get, GetCheck, GetDelete, SetAfterGet, EvictStart,
           EvictSample, EvictDelete, EvictEnd, FlushStart, FlushShard, FlushEnd
  <1>2. ReaperInv'
    BY <1>1 DEF ReaperInv
  <1>3. ASSUME Keep  PROVE Data'
    BY <1>1, <1>3, KeepType
  <1>4. ASSUME NEW k \in Key, NEW cond \in {"get", "nx", "xx"}, Get(c, k, cond)
        PROVE  Typed'
    <2>1. CASE Then(c, k, cond, FALSE)
      BY <1>2, <1>3, <1>4, <2>1, ThenStep, Zenon DEF Get
    <2>2. CASE /\ entries[k] # None
               /\ job' = [job EXCEPT ![c] = [Idle EXCEPT !.op = "get", !.key = k,
                    !.ref = entries[k], !.cond = cond]]
      <3>1. entries[k] \in Ref
        BY <2>2 DEF Data, EntriesInv
      <3>2. \A r \in Ref :
              [Idle EXCEPT !.op = "get", !.key = k, !.ref = r, !.cond = cond]
                \in JobType
        BY Zenon DEF Idle, JobType, Ops
      <3>3. HasKey([Idle EXCEPT !.op = "get", !.key = k, !.ref = entries[k],
                                !.cond = cond])
        BY DEF HasKey, Idle
      <3>4. JobInv' /\ JobKeys'
        BY <2>2, <3>1, <3>2, <3>3, JobStep, Zenon
      <3> QED  BY <1>2, <1>3, <1>4, <3>4 DEF Get
    <2> QED  BY <1>4, <2>1, <2>2, Zenon DEF Get
  <1>5. CASE GetCheck(c)
    <2>1. job[c].key \in Key
      BY <1>0, <1>5 DEF GetCheck, HasKey
    <2>2. CASE job' = [job EXCEPT ![c].op = "expired", ![c].now = clock,
                                  ![c].ref = None]
      <3> DEFINE j == [job[c] EXCEPT !.op = "expired", !.now = clock,
                                     !.ref = None]
      <3>1. clock \in Nat
        BY DEF Data, NumInv
      <3>2. j \in JobType /\ j.key = job[c].key
        BY <1>0, <3>1, Zenon DEF JobType, Ops
      <3>3. HasKey(j)
        BY <2>1, <3>2 DEF HasKey
      <3>4. job' = [job EXCEPT ![c] = j]
        BY <2>2, Zenon
      <3>5. JobInv' /\ JobKeys'
        <4> HIDE DEF j
        <4> QED  BY <3>2, <3>3, <3>4, JobStep, Zenon
      <3> QED  BY <1>2, <1>3, <1>5, <3>5 DEF GetCheck
    <2>3. CASE Then(c, job[c].key, job[c].cond, TRUE)
      BY <1>2, <1>3, <1>5, <2>1, <2>3, ThenStep, Zenon DEF GetCheck
    <2> QED  BY <1>5, <2>2, <2>3, Zenon DEF GetCheck
  <1>6. CASE GetDelete(c)
    <2>1. job[c].key \in Key
      BY <1>0, <1>6 DEF GetDelete, HasKey
    <2>2. JobInv' /\ JobKeys'
      BY <1>6, <2>1, ThenStep, Zenon DEF GetDelete
    <2>3. Data'
      BY <1>1, <1>3, <1>6, <2>1, RemoveType DEF GetDelete
    <2> QED  BY <1>2, <2>2, <2>3
  <1>e. ASSUME job' = [job EXCEPT ![c] = Idle]  PROVE JobInv' /\ JobKeys'
    BY <1>e, IdleType, IdleKey, JobStep, Zenon
  <1>7. CASE SetAfterGet(c)
    <2>1. job[c].key \in Key
      BY <1>0, <1>7 DEF SetAfterGet, HasKey
    <2>2. Deadlines \subseteq Int
      BY DeadlineType DEF Data, NumInv
    <2>3. Data'
      BY <1>1, <1>7, <2>1, <2>2, PutType DEF SetAfterGet
    <2> QED  BY <1>2, <1>7, <1>e, <2>3 DEF SetAfterGet
  <1>s. ASSUME NEW op \in {"sample", "flush"},
               job' = [job EXCEPT ![c] = [Idle EXCEPT !.op = op, !.left = Key]]
        PROVE  JobInv' /\ JobKeys'
    <2>1. [Idle EXCEPT !.op = op, !.left = Key] \in JobType
      BY Zenon DEF Idle, JobType, Ops
    <2>2. HasKey([Idle EXCEPT !.op = op, !.left = Key])
      BY DEF Idle, HasKey
    <2> QED  BY <1>s, <2>1, <2>2, JobStep, Zenon
  <1>8. CASE EvictStart(c)
    BY <1>2, <1>3, <1>8, <1>s DEF EvictStart
  <1>9. CASE EvictSample(c)
    <2>1. PICK k \in job[c].left :
            job' = [job EXCEPT ![c].left = @ \ {k},
                               ![c].found = IF entries[k] = None THEN @
                                            ELSE @ \cup {k}]
      BY <1>9, Zenon DEF EvictSample
    <2> DEFINE found == IF entries[k] = None THEN job[c].found
                        ELSE job[c].found \cup {k}
               j == [job[c] EXCEPT !.left = job[c].left \ {k}, !.found = found]
    <2>2. k \in Key /\ job[c].left \ {k} \in SUBSET Key /\ found \in SUBSET Key
      BY <1>0, JobFields
    <2>3. j \in JobType /\ j.op = "sample"
      <3> HIDE DEF found
      <3> QED  BY <1>0, <1>9, <2>2, Zenon DEF JobType, EvictSample, Sampling
    <2>4. HasKey(j)
      BY <2>3 DEF HasKey
    <2>5. job' = [job EXCEPT ![c] = j]
      BY <2>1, Zenon
    <2>6. JobInv' /\ JobKeys'
      <3> HIDE DEF j
      <3> QED  BY <2>3, <2>4, <2>5, JobStep, Zenon
    <2> QED  BY <1>2, <1>3, <1>9, <2>6 DEF EvictSample
  <1>10. CASE EvictDelete(c)
    <2>1. PICK k \in job[c].found :
            /\ job' = [job EXCEPT ![c].found = @ \ {k},
                         ![c].n = IF entries[k] # None THEN @ + 1 ELSE @]
            /\ IF entries[k] # None THEN Remove(k) ELSE Keep
      BY <1>10, Zenon DEF EvictDelete
    <2> DEFINE n == IF entries[k] # None THEN job[c].n + 1 ELSE job[c].n
               j == [job[c] EXCEPT !.found = job[c].found \ {k}, !.n = n]
    <2>2. k \in Key /\ job[c].found \ {k} \in SUBSET Key /\ n \in Nat
      BY <1>0, JobFields
    <2>3. j \in JobType /\ j.op = "sample"
      <3> HIDE DEF n
      <3> QED  BY <1>0, <1>10, <2>2, Zenon DEF JobType, EvictDelete
    <2>4. HasKey(j)
      BY <2>3 DEF HasKey
    <2>5. job' = [job EXCEPT ![c] = j]
      BY <2>1, Zenon
    <2>6. JobInv' /\ JobKeys'
      <3> HIDE DEF j
      <3> QED  BY <2>3, <2>4, <2>5, JobStep, Zenon
    <2>7. Data'
      BY <1>1, <1>3, <2>1, <2>2, RemoveType
    <2> QED  BY <1>2, <2>6, <2>7
  <1>11. CASE EvictEnd(c)
    BY <1>2, <1>3, <1>11, <1>e DEF EvictEnd
  <1>12. CASE FlushStart(c)
    BY <1>2, <1>3, <1>12, <1>s DEF FlushStart
  <1>13. CASE FlushShard(c)
    <2>1. PICK k \in job[c].left :
            /\ entries' = [entries EXCEPT ![k] = None]
            /\ cleared' = IF entries[k] = None THEN cleared ELSE cleared + 1
            /\ job' = [job EXCEPT ![c].left = @ \ {k}]
      BY <1>13, Zenon DEF FlushShard
    <2> DEFINE j == [job[c] EXCEPT !.left = job[c].left \ {k}]
    <2>2. k \in Key /\ job[c].left \ {k} \in SUBSET Key
      BY <1>0, JobFields
    <2>3. j \in JobType /\ j.op = "flush"
      BY <1>0, <1>13, <2>2 DEF JobType, FlushShard
    <2>4. HasKey(j)
      BY <2>3 DEF HasKey
    <2>5. job' = [job EXCEPT ![c] = j]
      BY <2>1
    <2>6. JobInv' /\ JobKeys'
      <3> HIDE DEF j
      <3> QED  BY <2>3, <2>4, <2>5, JobStep, Zenon
    <2>7. HeapInv'
      BY <1>13, CollectType DEF FlushShard, Data, HeapInv
    <2>8. EntriesInv' /\ NumInv'
      BY <1>1, <1>13, <2>1, <2>2 DEF FlushShard, Data, EntriesInv, NumInv
    <2> QED  BY <1>2, <2>6, <2>7, <2>8 DEF Data
  <1>14. CASE FlushEnd(c)
    <2>1. Data'
      BY <1>14 DEF FlushEnd, Data, EntriesInv, HeapInv, NumInv
    <2> QED  BY <1>2, <1>14, <1>e, <2>1 DEF FlushEnd
  <1> QED
    BY <1>4, <1>5, <1>6, <1>7, <1>8, <1>9, <1>10, <1>11, <1>12, <1>13, <1>14
    DEF Goroutine

LEMMA ReapTyped ==
  ASSUME Typed, NEW k \in Key, ReapShard(k)
  PROVE  Typed'
  <1> USE DEF Typed
  <1>1. JobInv' /\ JobKeys'
    BY DEF ReapShard, JobInv, JobKeys, HasKey
  <1>2. ReaperInv'
    <2>1. reaper.left \in Nat /\ reaper.left > 0
      BY DEF ReapShard, ReaperInv
    <2>2. reaper.left - 1 \in Nat
      BY <2>1
    <2>3. [reaper EXCEPT !.left = reaper.left - 1] \in [now : Nat, left : Nat]
      BY <2>2 DEF ReaperInv
    <2>4. NoTick \in [now : Nat, left : Nat]
      BY DEF NoTick
    <2> QED  BY <2>3, <2>4 DEF ReapShard, Picked, ReaperInv
  <1>3. Data'
    BY KeepType, RemoveType DEF ReapShard
  <1> QED  BY <1>1, <1>2, <1>3

LEMMA TypedNext == Typed /\ [Next]_vars => Typed'
  <1> SUFFICES ASSUME Typed, [Next]_vars  PROVE Typed'
    OBVIOUS
  <1>1. ASSUME NEW k \in Key, Locked(k)  PROVE Typed'
    BY <1>1, LockedTyped
  <1>2. ASSUME NEW c \in Client, Goroutine(c)  PROVE Typed'
    BY <1>2, GoroutineTyped
  <1>3. ASSUME NEW k \in Key, ReapShard(k)  PROVE Typed'
    BY <1>3, ReapTyped
  <1>4. CASE ReapTick
    <2>1. JobInv' /\ JobKeys' /\ UNCHANGED clock
      BY <1>4 DEF ReapTick, Typed, JobInv, JobKeys, HasKey
    <2>2. ReaperInv'
      BY <1>4, LimitAssumption DEF ReapTick, Typed, Data, NumInv, ReaperInv
    <2>3. Data'
      BY <1>4, <2>1, KeepType DEF ReapTick, Typed
    <2> QED  BY <2>1, <2>2, <2>3 DEF Typed
  <1>5. CASE Tick
    <2>1. JobInv' /\ JobKeys' /\ ReaperInv'
      BY <1>5 DEF Tick, Typed, JobInv, JobKeys, HasKey, ReaperInv
    <2>2. EntriesInv' /\ HeapInv'
      BY <1>5, CollectType DEF Tick, Keep, Typed, Data, EntriesInv, HeapInv
    <2>3. NumInv'
      BY <1>5 DEF Tick, Keep, Typed, Data, NumInv
    <2> QED  BY <2>1, <2>2, <2>3 DEF Typed, Data
  <1>6. CASE UNCHANGED vars
    BY <1>6 DEF vars, Typed, JobInv, JobKeys, HasKey, ReaperInv, Data,
                EntriesInv, HeapInv, NumInv
  <1> QED  BY <1>1, <1>2, <1>3, <1>4, <1>5, <1>6 DEF Next

LEMMA TypedInit == Init => Typed
  <1> SUFFICES ASSUME Init  PROVE Typed
    OBVIOUS
  <1>1. JobInv /\ JobKeys
    BY IdleType, IdleKey DEF Init, JobInv, JobKeys
  <1>2. ReaperInv
    BY DEF Init, NoTick, ReaperInv
  <1>3. EntriesInv /\ HeapInv
    BY DEF Init, EntriesInv, HeapInv
  <1>4. overlap \in BOOLEAN
    BY Zenon DEF Init
  <1>5. NumInv
    BY <1>4 DEF Init, NumInv
  <1> QED  BY <1>1, <1>2, <1>3, <1>5 DEF Typed, Data

LEMMA TypedAlways == Spec => []Typed
  BY TypedInit, TypedNext, PTL DEF Spec

(* The type invariant: every operation of the keyspace, finished or half    *)
(* done, leaves entries, counter and jobs of the right shape.               *)
THEOREM TypeCorrect == Spec => []TypeInv
  <1>1. Typed => TypeInv
    BY TypeParts DEF Typed
  <1> QED  BY <1>1, TypedAlways, PTL
-----------------------------------------------------------------------------
(* The counter of keys.  FlushEnd sets it to 0, so the count is exact after *)
(* it only if the shards are empty then: what a FLUSHDB has cleared stays   *)
(* empty unless something overlaps it.                                      *)
FlushInv == ~overlap => \A c \in Client : job[c].op = "flush"
                          => \A k \in Key \ job[c].left : entries[k] = None
CountInv == FlushInv /\ CountExact

LEMMA PresentFinite == IsFiniteSet(Present) /\ Cardinality(Present) \in Nat
  <1>1. Present \in SUBSET Key
    BY DEF Present
  <1>2. IsFiniteSet(Present)
    BY <1>1, KeyAssumption, FS_Subset
  <1> QED  BY <1>2, FS_CardinalityType

(* The number of keys after one of them is gone, and after one has come. *)
LEMMA PresentLess ==
  ASSUME EntriesInv, NEW k \in Key, entries[k] # None,
         entries' = [entries EXCEPT ![k] = None]
  PROVE  Cardinality(Present') = Cardinality(Present) - 1
  <1>1. Present' = Present \ {k} /\ k \in Present
    BY DEF Present, EntriesInv
  <1> QED  BY <1>1, PresentFinite, FS_RemoveElement, SMTT(60)

LEMMA PresentMore ==
  ASSUME EntriesInv, NEW k \in Key, NEW r \in Ref,
         entries' = [entries EXCEPT ![k] = r]
  PROVE  Cardinality(Present') = IF entries[k] = None
                                 THEN Cardinality(Present) + 1
                                 ELSE Cardinality(Present)
  <1>1. Present' = Present \cup {k} /\ (k \in Present <=> entries[k] # None)
    BY RefAssumption DEF Present, EntriesInv
  <1> QED  BY <1>1, PresentFinite, FS_AddElement, Zenon

LEMMA CountRemove ==
  ASSUME Typed, CountExact, NEW k \in Key, entries[k] # None, Remove(k)
  PROVE  CountExact'
  <1>1. Cardinality(Present') = Cardinality(Present) - 1
    BY PresentLess, Zenon DEF Remove, Typed, Data
  <1>2. keyCount' = keyCount - 1 /\ cleared' = cleared /\ (overlap => overlap')
    BY Zenon DEF Remove, Overlaps
  <1>3. keyCount \in Int /\ cleared \in Nat /\ Cardinality(Present) \in Nat
    BY PresentFinite DEF Typed, Data, NumInv
  <1> QED  BY <1>1, <1>2, <1>3 DEF CountExact

LEMMA CountPut ==
  ASSUME Typed, CountExact, NEW k \in Key, NEW exp, Put(k, exp)
  PROVE  CountExact'
  <1>1. PICK r \in Ref : entries' = [entries EXCEPT ![k] = r]
    BY Zenon DEF Put
  <1>2. Cardinality(Present') = IF entries[k] = None
                                THEN Cardinality(Present) + 1
                                ELSE Cardinality(Present)
    BY <1>1, PresentMore, Zenon DEF Typed, Data
  <1>3. /\ keyCount' = IF entries[k] = None THEN keyCount + 1 ELSE keyCount
        /\ cleared' = cleared /\ (overlap => overlap')
    BY Zenon DEF Put, Overlaps
  <1>4. keyCount \in Int /\ cleared \in Nat /\ Cardinality(Present) \in Nat
    BY PresentFinite DEF Typed, Data, NumInv
  <1> QED  BY <1>2, <1>3, <1>4 DEF CountExact

LEMMA CountSame ==
  ASSUME CountExact, UNCHANGED <<entries, keyCount, cleared, overlap>>
  PROVE  CountExact'
  BY DEF CountExact, Present

(* Every step keeps the count. *)
LEMMA CountNext ==
  ASSUME Typed, CountInv, [Next]_vars
  PROVE  CountExact'
  <1> USE DEF CountInv
  <1>1. ASSUME Keep  PROVE CountExact'
    BY <1>1, CountSame DEF Keep
  <1>2. ASSUME NEW k \in Key, NEW exp, Put(k, exp)  PROVE CountExact'
    BY <1>2, CountPut
  <1>3. ASSUME NEW k \in Key, entries[k] # None, Remove(k)  PROVE CountExact'
    BY <1>3, CountRemove
  <1>4. ASSUME NEW k \in Key, NEW exp, Retime(k, exp)  PROVE CountExact'
    BY <1>4, CountSame DEF Retime
  <1>5. ASSUME NEW k \in Key, Locked(k)  PROVE CountExact'
    BY <1>2, <1>3, <1>4, <1>5
    DEF Locked, Set, SetNX, IncrBy, AppendTo, GetOrCreate, Create, Delete,
        Persist, Expire
  <1>6. ASSUME NEW k \in Key, ReapShard(k)  PROVE CountExact'
    BY <1>1, <1>3, <1>6 DEF ReapShard
  <1>7. ASSUME NEW c \in Client, Goroutine(c)  PROVE CountExact'
    <2>0. job[c] \in JobType /\ HasKey(job[c])
      BY DEF Typed, JobInv, JobKeys
    <2>1. CASE GetDelete(c)
      BY <1>1, <1>3, <2>0, <2>1 DEF GetDelete, HasKey
    <2>2. CASE SetAfterGet(c)
      BY <1>2, <2>0, <2>2 DEF SetAfterGet, HasKey
    <2>3. CASE EvictDelete(c)
      <3>1. job[c].found \subseteq Key
        BY <2>0, JobFields
      <3> QED  BY <1>1, <1>3, <2>3, <3>1 DEF EvictDelete
    <2>4. CASE FlushShard(c)
      <3>1. PICK k \in job[c].left :
              /\ entries' = [entries EXCEPT ![k] = None]
              /\ cleared' = IF entries[k] = None THEN cleared ELSE cleared + 1
        BY <2>4, Zenon DEF FlushShard
      <3>2. k \in Key
        BY <2>0, <3>1, JobFields
      <3>3. UNCHANGED <<keyCount, overlap>>
        BY <2>4 DEF FlushShard
      <3>4. CASE entries[k] = None
        <4>1. entries' = entries
          BY <3>1, <3>4 DEF Typed, Data, EntriesInv
        <4> QED  BY <3>1, <3>3, <3>4, <4>1, CountSame
      <3>5. CASE entries[k] # None
        <4>1. Cardinality(Present') = Cardinality(Present) - 1
          BY <3>1, <3>2, <3>5, PresentLess, Zenon DEF Typed, Data
        <4>2. keyCount \in Int /\ cleared \in Nat
              /\ Cardinality(Present) \in Nat
          BY PresentFinite DEF Typed, Data, NumInv
        <4> QED  BY <3>1, <3>3, <3>5, <4>1, <4>2 DEF CountExact
      <3> QED  BY <3>4, <3>5
    <2>5. CASE FlushEnd(c)
      <3>1. ~overlap => Present = {}
        BY <2>5 DEF FlushEnd, FlushInv, Present
      <3>2. entries' = entries /\ overlap' = overlap
            /\ keyCount' = 0 /\ cleared' = 0
        BY <2>5 DEF FlushEnd
      <3>3. Present' = Present
        BY <3>2 DEF Present
      <3> QED  BY <3>1, <3>2, <3>3, FS_EmptySet DEF CountExact
    <2> QED
      BY <1>1, <1>7, <2>1, <2>2, <2>3, <2>4, <2>5, Zenon
      DEF Goroutine, Get, GetCheck, EvictStart, EvictSample, EvictEnd,
          FlushStart
  <1>8. CASE Tick \/ ReapTick
    BY <1>1, <1>8 DEF Tick, ReapTick
  <1>9. CASE UNCHANGED vars
    BY <1>9, CountSame DEF vars
  <1> QED  BY <1>5, <1>6, <1>7, <1>8, <1>9 DEF Next

(* While a FLUSHDB runs alone, entries only go. *)
LEMMA AloneOnlyGo ==
  ASSUME Typed, [Next]_vars, Flushing, ~overlap', NEW k \in Key
  PROVE  entries'[k] \in {entries[k], None}
  <1>1. ASSUME NEW l \in Key, NEW exp, Put(l, exp)  PROVE FALSE
    BY <1>1, Zenon DEF Put, Overlaps
  <1>2. ASSUME NEW l \in Key, Remove(l)  PROVE FALSE
    BY <1>2, Zenon DEF Remove, Overlaps
  <1>3. ASSUME Keep  PROVE entries' = entries
    BY <1>3 DEF Keep
  <1>4. ASSUME NEW l \in Key, Locked(l)  PROVE entries' = entries
    BY <1>1, <1>2, <1>4
    DEF Locked, Set, SetNX, IncrBy, AppendTo, GetOrCreate, Create, Delete,
        Persist, Expire, Retime
  <1>5. ASSUME NEW l \in Key, ReapShard(l)  PROVE entries' = entries
    BY <1>2, <1>3, <1>5 DEF ReapShard
  <1>6. ASSUME NEW c \in Client, Goroutine(c)
        PROVE  entries' = entries \/ FlushShard(c)
    <2>0. job[c] \in JobType /\ HasKey(job[c])
      BY DEF Typed, JobInv, JobKeys
    <2>1. CASE GetDelete(c)
      BY <1>2, <1>3, <2>0, <2>1 DEF GetDelete, HasKey
    <2>2. CASE SetAfterGet(c)
      BY <1>1, <2>0, <2>2 DEF SetAfterGet, HasKey
    <2>3. CASE EvictDelete(c)
      <3>1. job[c].found \subseteq Key
        BY <2>0, JobFields
      <3> QED  BY <1>2, <1>3, <2>3, <3>1 DEF EvictDelete
    <2> QED
      BY <1>3, <1>6, <2>1, <2>2, <2>3, Zenon
      DEF Goroutine, Get, GetCheck, EvictStart, EvictSample, EvictEnd,
          FlushStart, FlushEnd
  <1>7. ASSUME NEW c \in Client, FlushShard(c)
        PROVE  entries'[k] \in {entries[k], None}
    BY <1>7 DEF FlushShard, Typed, Data, EntriesInv
  <1> QED
    BY <1>3, <1>4, <1>5, <1>6, <1>7 DEF Next, Tick, ReapTick, vars

(* What a step makes of a FLUSHDB: it begins with all shards left, and a    *)
(* shard is struck off when it has been cleared.                            *)
LEMMA FlushStep ==
  ASSUME Typed, [Next]_vars, NEW c \in Client, job'[c].op = "flush",
         NEW k \in Key, k \notin job'[c].left
  PROVE  job[c].op = "flush" /\ (k \notin job[c].left \/ entries'[k] = None)
  <1>0. job \in [Client -> JobType]
    BY DEF Typed, JobInv
  <1>1. CASE job'[c] = job[c]
    BY <1>1
  <1>2. ASSUME NEW d \in Client, Goroutine(d), job'[c] # job[c]
        PROVE  d = c /\ \/ job'[c].op # "flush"
                        \/ FlushStart(c) \/ FlushShard(c)
    <2>1. ASSUME NEW l, NEW cond, NEW hit, Then(d, l, cond, hit)
          PROVE  d = c /\ job'[c].op # "flush"
      BY <1>0, <1>2, <2>1 DEF Then, Idle
    <2>2. ASSUME NEW l, NEW cond, Get(d, l, cond)
          PROVE  d = c /\ job'[c].op # "flush"
      BY <1>0, <1>2, <2>1, <2>2, ZenonT(60) DEF Get, Idle
    <2>3. CASE GetCheck(d)
      <3>1. CASE job' = [job EXCEPT ![d].op = "expired", ![d].now = clock,
                                    ![d].ref = None]
        <4>1. d = c
          BY <1>0, <1>2, <3>1
        <4>2. job'[c].op = "expired"
          BY <1>0, <3>1, <4>1 DEF JobType
        <4> QED  BY <4>1, <4>2
      <3> QED  BY <2>1, <2>3, <3>1, Zenon DEF GetCheck
    <2>4. CASE GetDelete(d)
      BY <2>1, <2>4, Zenon DEF GetDelete
    <2>5. CASE SetAfterGet(d) \/ EvictEnd(d) \/ FlushEnd(d)
      <3>1. job' = [job EXCEPT ![d] = Idle]
        BY <2>5 DEF SetAfterGet, EvictEnd, FlushEnd
      <3> QED  BY <1>0, <1>2, <3>1 DEF Idle
    <2>e. CASE EvictStart(d)
      BY <1>0, <1>2, <2>e DEF EvictStart, Idle
    <2>6. CASE EvictSample(d)
      BY <1>0, <1>2, <2>6 DEF EvictSample, Sampling, JobType
    <2>7. CASE EvictDelete(d)
      BY <1>0, <1>2, <2>7 DEF EvictDelete, JobType
    <2>8. CASE FlushStart(d)
      BY <1>0, <1>2, <2>8 DEF FlushStart
    <2>9. CASE FlushShard(d)
      BY <1>0, <1>2, <2>9, Zenon DEF FlushShard
    <2> QED
      BY <1>2, <2>2, <2>3, <2>4, <2>5, <2>e, <2>6, <2>7, <2>8, <2>9
      DEF Goroutine
  <1>3. CASE FlushStart(c)
    BY <1>0, <1>3 DEF FlushStart, Idle
  <1>4. CASE FlushShard(c)
    BY <1>0, <1>4 DEF FlushShard, JobType, Typed, Data, EntriesInv
  <1>5. ASSUME NEW l \in Key, Locked(l) \/ ReapShard(l)  PROVE job' = job
    BY <1>5
    DEF Locked, Set, SetNX, IncrBy, AppendTo, GetOrCreate, Create, Delete,
        Persist, Expire, Alone, ReapShard
  <1>6. ASSUME Tick \/ ReapTick \/ UNCHANGED vars  PROVE job' = job
    BY <1>6 DEF Tick, ReapTick, vars
  <1> QED  BY <1>1, <1>2, <1>3, <1>4, <1>5, <1>6 DEF Next

LEMMA OverlapStays ==
  ASSUME [Next]_vars, overlap
  PROVE  overlap'
  <1>1. ASSUME Overlaps \/ UNCHANGED overlap  PROVE overlap'
    BY <1>1, Zenon DEF Overlaps
  <1>2. ASSUME NEW k, NEW exp, Put(k, exp) \/ Remove(k) \/ Retime(k, exp)
        PROVE  overlap'
    BY <1>1, <1>2, Zenon DEF Put, Remove, Retime
  <1>3. ASSUME Keep  PROVE overlap'
    BY <1>1, <1>3 DEF Keep
  <1>4. ASSUME NEW k \in Key, Locked(k) \/ ReapShard(k)  PROVE overlap'
    BY <1>2, <1>3, <1>4
    DEF Locked, Set, SetNX, IncrBy, AppendTo, GetOrCreate, Create, Delete,
        Persist, Expire, ReapShard
  <1>5. ASSUME NEW c \in Client, Goroutine(c)  PROVE overlap'
    BY <1>1, <1>2, <1>3, <1>5, Zenon
    DEF Goroutine, Get, GetCheck, GetDelete, SetAfterGet, EvictStart,
        EvictSample, EvictDelete, EvictEnd, FlushStart, FlushShard, FlushEnd
  <1>6. CASE Tick \/ ReapTick \/ UNCHANGED vars
    BY <1>1, <1>3, <1>6, Zenon DEF Tick, ReapTick, vars
  <1> QED  BY <1>4, <1>5, <1>6 DEF Next

LEMMA FlushNext ==
  ASSUME Typed, FlushInv, [Next]_vars
  PROVE  FlushInv'
  <1> SUFFICES ASSUME ~overlap', NEW c \in Client, job'[c].op = "flush",
                      NEW k \in Key \ job'[c].left
               PROVE  entries'[k] = None
    BY DEF FlushInv
  <1>1. job[c].op = "flush" /\ (k \notin job[c].left \/ entries'[k] = None)
    BY FlushStep
  <1>2. ~overlap
    BY OverlapStays
  <1>3. entries'[k] \in {entries[k], None}
    BY <1>1, AloneOnlyGo DEF Flushing
  <1> QED  BY <1>1, <1>2, <1>3 DEF FlushInv

LEMMA CountInit == Init => CountInv
  <1> SUFFICES ASSUME Init  PROVE CountInv
    OBVIOUS
  <1>1. Present = {}
    BY DEF Init, Present
  <1>2. CountExact
    BY <1>1, FS_EmptySet DEF Init, CountExact
  <1>3. FlushInv
    BY DEF Init, FlushInv, Idle
  <1> QED  BY <1>2, <1>3 DEF CountInv

(* DBSIZE is the number of keys, for any number of connections and keys, as *)
(* long as nothing else changes the keyspace while FLUSHDB clears it.       *)
THEOREM CountCorrect == Spec => []CountExact
  <1>1. Typed /\ CountInv /\ [Next]_vars => CountInv'
    BY CountNext, FlushNext DEF CountInv
  <1>2. CountInv => CountExact
    BY DEF CountInv
  <1> QED  BY <1>1, <1>2, CountInit, TypedAlways, PTL DEF Spec
-----------------------------------------------------------------------------
(* Expiration.  The time a reader or the reaper compares with was read      *)
(* before, so it is not ahead of the clock.                                 *)
NowInv == reaper.now <= clock /\ \A c \in Client : job[c].now <= clock

LEMMA NowInit == Init => NowInv
  BY DEF Init, NowInv, NoTick, Idle

LEMMA NowNext ==
  ASSUME Typed, NowInv, [Next]_vars
  PROVE  NowInv'
  <1>0. /\ job \in [Client -> JobType] /\ \A c \in Client : job[c].now \in Nat
        /\ clock \in Nat /\ reaper \in [now : Nat, left : Nat]
    BY JobFields DEF Typed, JobInv, Data, NumInv, ReaperInv
  <1>1. ASSUME NEW k \in Key, Locked(k)  PROVE NowInv'
    <2>1. UNCHANGED <<job, reaper, clock>>
      BY <1>1 DEF Locked, Set, SetNX, IncrBy, AppendTo, GetOrCreate, Create,
                  Delete, Persist, Expire, Alone
    <2> QED  BY <2>1 DEF NowInv
  <1>2. ASSUME NEW k \in Key, ReapShard(k)  PROVE NowInv'
    BY <1>0, <1>2 DEF ReapShard, Picked, NoTick, NowInv
  <1>3. CASE Tick \/ ReapTick \/ UNCHANGED vars
    BY <1>0, <1>3 DEF Tick, ReapTick, vars, NowInv
  <1>4. ASSUME NEW c \in Client, Goroutine(c)  PROVE NowInv'
    <2>1. UNCHANGED <<clock, reaper>>
      BY <1>4, Zenon
      DEF Goroutine, Get, GetCheck, GetDelete, SetAfterGet, EvictStart,
          EvictSample, EvictDelete, EvictEnd, FlushStart, FlushShard, FlushEnd
    <2>2. SUFFICES \A d \in Client : job'[d].now <= clock
      BY <2>1 DEF NowInv
    <2>3. ASSUME NEW j, j.now <= clock, job' = [job EXCEPT ![c] = j]
          PROVE  \A d \in Client : job'[d].now <= clock
      BY <1>0, <2>3 DEF NowInv
    <2>4. Idle.now <= clock
      BY <1>0 DEF Idle
    <2>5. ASSUME NEW l, NEW cond, NEW hit, Then(c, l, cond, hit)
          PROVE  \A d \in Client : job'[d].now <= clock
      <3>1. [Idle EXCEPT !.op = "set", !.key = l].now <= clock
        BY <1>0 DEF Idle
      <3> QED  BY <2>3, <2>4, <2>5, <3>1, Zenon DEF Then
    <2>6. ASSUME NEW l, NEW cond, Get(c, l, cond)
          PROVE  \A d \in Client : job'[d].now <= clock
      <3>1. [Idle EXCEPT !.op = "get", !.key = l, !.ref = entries[l],
                         !.cond = cond].now <= clock
        BY <1>0 DEF Idle
      <3> QED  BY <2>3, <2>5, <2>6, <3>1, Zenon DEF Get
    <2>7. CASE GetCheck(c)
      <3>1. CASE job' = [job EXCEPT ![c].op = "expired", ![c].now = clock,
                                    ![c].ref = None]
        <4>1. job'[c].now = clock
          BY <1>0, <3>1 DEF JobType
        <4>2. \A d \in Client \ {c} : job'[d] = job[d]
          BY <1>0, <3>1
        <4> QED  BY <1>0, <4>1, <4>2 DEF NowInv
      <3> QED  BY <2>5, <2>7, <3>1, Zenon DEF GetCheck
    <2>8. CASE GetDelete(c)
      BY <2>5, <2>8, Zenon DEF GetDelete
    <2>9. CASE SetAfterGet(c) \/ EvictEnd(c) \/ FlushEnd(c)
      BY <2>3, <2>4, <2>9 DEF SetAfterGet, EvictEnd, FlushEnd
    <2>10. CASE EvictStart(c) \/ FlushStart(c)
      <3>1. PICK o \in {"sample", "flush"} :
              job' = [job EXCEPT ![c] = [Idle EXCEPT !.op = o, !.left = Key]]
        BY <2>10 DEF EvictStart, FlushStart
      <3>2. [Idle EXCEPT !.op = o, !.left = Key].now <= clock
        BY <1>0 DEF Idle
      <3> QED  BY <2>3, <3>1, <3>2, Zenon
    <2>11. CASE EvictSample(c) \/ EvictDelete(c) \/ FlushShard(c)
      <3>1. job'[c].now = job[c].now /\ \A d \in Client \ {c} : job'[d] = job[d]
        <4>1. CASE EvictSample(c)
          BY <1>0, <4>1 DEF EvictSample, JobType
        <4>2. CASE EvictDelete(c)
          BY <1>0, <4>2 DEF EvictDelete, JobType
        <4>3. CASE FlushShard(c)
          BY <1>0, <4>3 DEF FlushShard, JobType
        <4> QED  BY <2>11, <4>1, <4>2, <4>3
      <3> QED  BY <3>1 DEF NowInv
    <2> QED
      BY <1>4, <2>6, <2>7, <2>8, <2>9, <2>10, <2>11 DEF Goroutine
  <1> QED  BY <1>1, <1>2, <1>3, <1>4 DEF Next

(* An entry that has expired at an earlier time has expired now. *)
LEMMA StillExpired ==
  ASSUME Typed, NEW r \in Ref, NEW t \in Nat, t <= clock, IsExpired(r, t)
  PROVE  IsExpired(r, clock)
  BY DEF IsExpired, Typed, Data, HeapInv, NumInv

LEMMA GoesByRule ==
  ASSUME Typed, NowInv, [Next]_vars, NEW k \in Key
  PROVE  MayGo(k)
  <1> SUFFICES ASSUME entries[k] # None, entries'[k] # entries[k],
                      ~ IsExpired(entries[k], clock)
               PROVE  \/ Delete(k) \/ Set(k)
                      \/ \E c \in Client :
                           SetAfterGet(c) \/ EvictDelete(c) \/ FlushShard(c)
    BY DEF MayGo
  <1>0. entries \in [Key -> Ref \cup {None}] /\ entries[k] \in Ref
        /\ entries' # entries
    BY DEF Typed, Data, EntriesInv
  <1>1. ASSUME NEW l \in Key, Remove(l)  PROVE l = k
    BY <1>0, <1>1 DEF Remove
  <1>2. ASSUME NEW l \in Key, NEW exp, Put(l, exp)  PROVE l = k
    BY <1>0, <1>2 DEF Put
  <1>3. ASSUME Keep  PROVE FALSE
    BY <1>0, <1>3 DEF Keep
  <1>4. ASSUME NEW l \in Key, Locked(l)  PROVE Delete(k) \/ Set(k)
    <2>1. ASSUME Create(l)  PROVE FALSE
      BY <1>2, <2>1 DEF Create
    <2>2. ASSUME Set(l)  PROVE l = k
      BY <1>2, <2>2 DEF Set
    <2>3. ASSUME Delete(l)  PROVE l = k
      BY <1>1, <2>3 DEF Delete
    <2>4. ASSUME Persist(l) \/ \E t \in TTL : Expire(l, t)  PROVE FALSE
      BY <1>0, <1>1, <2>4 DEF Persist, Expire, Retime
    <2> QED
      BY <1>4, <2>1, <2>2, <2>3, <2>4
      DEF Locked, SetNX, IncrBy, AppendTo, GetOrCreate
  <1>5. ASSUME NEW l \in Key, ReapShard(l)  PROVE FALSE
    <2>1. reaper.now \in Nat /\ reaper.now <= clock
      BY DEF Typed, ReaperInv, NowInv
    <2> QED
      BY <1>0, <1>1, <1>3, <1>5, <2>1, StillExpired DEF ReapShard
  <1>6. ASSUME NEW c \in Client, Goroutine(c)
        PROVE  SetAfterGet(c) \/ EvictDelete(c) \/ FlushShard(c)
    <2>0. job[c] \in JobType /\ HasKey(job[c]) /\ job[c].now \in Nat
          /\ job[c].now <= clock
      BY JobFields DEF Typed, JobInv, JobKeys, NowInv
    <2>1. ASSUME GetDelete(c)  PROVE FALSE
      BY <1>0, <1>1, <1>3, <2>0, <2>1, StillExpired DEF GetDelete, HasKey
    <2> QED
      BY <1>0, <1>3, <1>6, <2>1, Zenon
      DEF Goroutine, Get, GetCheck, EvictStart, EvictSample, EvictEnd,
          FlushStart, FlushEnd
  <1> QED
    BY <1>0, <1>3, <1>4, <1>5, <1>6 DEF Next, Tick, ReapTick, vars

(* No entry goes before its time because somebody looked at an earlier      *)
(* entry of its key, for any number of connections and keys.                *)
THEOREM ExpiryCorrect == Spec => NoEarlyExpiry
  <1>1. Typed /\ NowInv /\ [Next]_vars => NowInv'
    BY NowNext
  <1>2. Typed /\ NowInv /\ [Next]_vars => [\A k \in Key : MayGo(k)]_vars
    BY GoesByRule
  <1> QED
    BY <1>1, <1>2, NowInit, TypedAlways, PTL DEF Spec, NoEarlyExpiry
=============================================================================
