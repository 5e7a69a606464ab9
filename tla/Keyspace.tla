------------------------------ MODULE Keyspace ------------------------------
(***************************************************************************)
(* The keyspace (internal/engine/keyspace.go): the entries of the shards,  *)
(* their expiration on access and by the reaper, eviction, FLUSHDB and the *)
(* counter of keys, as connections use it.                                 *)
(*                                                                         *)
(* An entry is an object that goroutines hold pointers to: a key has a     *)
(* reference, and the expiry time is kept with the reference.  Values and  *)
(* types are left out.  Every key is in a shard of its own; keys that      *)
(* share a lock interleave less.                                           *)
(***************************************************************************)
EXTENDS Integers, FiniteSets

CONSTANTS Client, Key,
          Ref,        \* addresses of entries
          None,       \* no entry
          TTL,        \* times to live of EXPIRE
          Picks,      \* shards the reaper looks at in a tick (16)
          Target,     \* keys to evict at a time (50)
          MaxTime     \* bound: the clock

ASSUME KeyAssumption == IsFiniteSet(Key)
ASSUME RefAssumption == Ref \subseteq Nat /\ None \notin Ref
ASSUME LimitAssumption == TTL \subseteq Int /\ Picks \in Nat /\ Target \in Nat

VARIABLES
  clock,      \* cachedClockMilli
  entries,    \* the entry of each key
  expiresAt,  \* ExpiresAt of each entry; 0 is never
  keyCount,   \* counter of keys
  job,        \* what each connection is doing
  reaper,     \* the time the reaper has read in this tick and the shards it
              \* has left
  cleared,    \* history: entries cleared by FLUSHDB and still counted
  overlap     \* history: did an entry come or go during a FLUSHDB?

vars == <<clock, entries, expiresAt, keyCount, job, reaper, cleared, overlap>>

Present == {k \in Key : entries[k] # None}
IsExpired(r, now) == expiresAt[r] > 0 /\ expiresAt[r] <= now

Idle == [op |-> "idle", key |-> None, ref |-> None, now |-> 0, cond |-> "get",
         left |-> {}, found |-> {}, n |-> 0]
NoTick == [now |-> 0, left |-> 0]

Init == /\ clock = 1
        /\ entries = [k \in Key |-> None]
        /\ expiresAt = [r \in Ref |-> 0]
        /\ keyCount = 0
        /\ job = [c \in Client |-> Idle]
        /\ reaper = NoTick
        /\ cleared = 0 /\ overlap = FALSE
-----------------------------------------------------------------------------
Flushing == \E c \in Client : job[c].op = "flush"
Overlaps == overlap' = (overlap \/ Flushing) /\ UNCHANGED cleared

(* The references that are held.  The collector forgets the others, so     *)
(* their numbers can be used again.                                        *)
Held == {entries[k] : k \in Key} \cup {job[c].ref : c \in Client}
Collect(heap) == expiresAt' = [r \in Ref |-> IF r \in Held' THEN heap[r] ELSE 0]

Keep == UNCHANGED <<entries, keyCount, cleared, overlap>> /\ Collect(expiresAt)

(* delete(shard.entries, k), and the counter. *)
Remove(k) == /\ entries' = [entries EXCEPT ![k] = None]
             /\ keyCount' = keyCount - 1
             /\ Collect(expiresAt)
             /\ Overlaps

(* A new entry for k. *)
Put(k, exp) ==
  LET free == Ref \ Held
  IN  /\ \E r \in free : /\ \A q \in free : r <= q
                         /\ entries' = [entries EXCEPT ![k] = r]
                         /\ Collect([expiresAt EXCEPT ![r] = exp])
      /\ keyCount' = IF entries[k] = None THEN keyCount + 1 ELSE keyCount
      /\ Overlaps

(* The expiry time of the entry of k is changed in place. *)
Retime(k, exp) == /\ UNCHANGED <<entries, keyCount, cleared, overlap>>
                  /\ expiresAt' = [expiresAt EXCEPT ![entries[k]] = exp]

(* SETEX, SET EX and the like give a time that is not over; 0 is none. *)
Deadlines == {0} \cup {clock + t : t \in {u \in TTL : u > 0}}
-----------------------------------------------------------------------------
(* Operations that hold the lock of the shard all along. *)
Alone == UNCHANGED <<clock, job, reaper>>

Set(k) == Alone /\ \E exp \in Deadlines : Put(k, exp)

(* The key is made if it is not there or has expired. *)
Create(k) == /\ entries[k] # None => IsExpired(entries[k], clock)
             /\ Alone /\ Put(k, 0)

(* These differ in the value they store, and on a live key only change it.  *)
SetNX(k) == Create(k)
IncrBy(k) == Create(k)
AppendTo(k) == Create(k)
GetOrCreate(k) == Create(k)

Delete(k) == entries[k] # None /\ Alone /\ Remove(k)

(* EXPIRE with a negative time makes the entry expire at once, but a time   *)
(* that is not positive never comes.                                        *)
Expire(k, t) == /\ entries[k] # None /\ Alone
                /\ IF IsExpired(entries[k], clock) THEN Remove(k)
                   ELSE Retime(k, clock + t)

Persist(k) == /\ entries[k] # None /\ Alone
              /\ IF IsExpired(entries[k], clock) THEN Remove(k)
                 ELSE expiresAt[entries[k]] # 0 /\ Retime(k, 0)
-----------------------------------------------------------------------------
(* Get, alone or as the first half of SET NX and SET XX (handleSet). *)

(* What follows when the key was found, or was not. *)
Then(c, k, cond, hit) ==
  job' = [job EXCEPT ![c] =
            IF (cond = "nx" /\ ~hit) \/ (cond = "xx" /\ hit)
            THEN [Idle EXCEPT !.op = "set", !.key = k] ELSE Idle]

(* The pointer is read under the read lock ... *)
Get(c, k, cond) ==
  /\ job[c].op = "idle"
  /\ IF entries[k] = None THEN Then(c, k, cond, FALSE)
     ELSE job' = [job EXCEPT ![c] = [Idle EXCEPT !.op = "get", !.key = k,
                    !.ref = entries[k], !.cond = cond]]
  /\ UNCHANGED <<clock, reaper>> /\ Keep

(* ... the expiry time and the clock without a lock ... *)
GetCheck(c) ==
  /\ job[c].op = "get"
  /\ IF IsExpired(job[c].ref, clock)
     THEN job' = [job EXCEPT ![c].op = "expired", ![c].now = clock,
                             ![c].ref = None]
     ELSE Then(c, job[c].key, job[c].cond, TRUE)
  /\ UNCHANGED <<clock, reaper>> /\ Keep

(* Mutant: what is there now is deleted whether it has expired or not. *)
GetDeleteBlind(c) ==
  LET k == job[c].key
  IN  /\ job[c].op = "expired"
      /\ Then(c, k, job[c].cond, FALSE)
      /\ IF entries[k] # None THEN Remove(k) ELSE Keep
      /\ UNCHANGED <<clock, reaper>>

(* Mutant: the entry is deleted and counted off even if it has gone. *)
GetDeleteGone(c) ==
  LET k == job[c].key
  IN  /\ job[c].op = "expired"
      /\ Then(c, k, job[c].cond, FALSE)
      /\ IF entries[k] = None \/ IsExpired(entries[k], job[c].now)
         THEN Remove(k) ELSE Keep
      /\ UNCHANGED <<clock, reaper>>

(* ... and an expired entry is deleted under the lock, after a second look. *)
GetDelete(c) ==
  LET k == job[c].key
  IN  /\ job[c].op = "expired"
      /\ Then(c, k, job[c].cond, FALSE)
      /\ IF entries[k] # None /\ IsExpired(entries[k], job[c].now)
         THEN Remove(k) ELSE Keep
      /\ UNCHANGED <<clock, reaper>>

SetAfterGet(c) ==
  /\ job[c].op = "set"
  /\ job' = [job EXCEPT ![c] = Idle]
  /\ \E exp \in Deadlines : Put(job[c].key, exp)
  /\ UNCHANGED <<clock, reaper>>
-----------------------------------------------------------------------------
(* activeExpirationReaper: the clock is read once in a tick, and shards are *)
(* picked at random.                                                        *)
ReapTick == /\ reaper.left = 0
            /\ reaper' = [now |-> clock, left |-> Picks]
            /\ UNCHANGED <<clock, job>> /\ Keep

Picked == IF reaper.left = 1 THEN NoTick ELSE [reaper EXCEPT !.left = @ - 1]

(* Mutant: an entry is left alone in its last millisecond. *)
ReapShardLate(k) ==
  /\ reaper.left > 0
  /\ reaper' = Picked
  /\ UNCHANGED <<clock, job>>
  /\ IF entries[k] # None /\ IsExpired(entries[k], reaper.now - 1)
     THEN Remove(k) ELSE Keep

ReapShard(k) ==
  /\ reaper.left > 0
  /\ reaper' = Picked
  /\ UNCHANGED <<clock, job>>
  /\ IF entries[k] # None /\ IsExpired(entries[k], reaper.now)
     THEN Remove(k) ELSE Keep

(* EvictLRU: the shards are sampled one by one, then the keys found are     *)
(* deleted, oldest first, until enough are gone.                            *)
EvictStart(c) == /\ job[c].op = "idle"
                 /\ job' = [job EXCEPT ![c] = [Idle EXCEPT !.op = "sample",
                                                           !.left = Key]]
                 /\ UNCHANGED <<clock, reaper>> /\ Keep

Sampling(c) == /\ job[c].op = "sample" /\ job[c].left # {}
               /\ Cardinality(job[c].found) < 3 * Target

EvictSample(c) ==
  /\ Sampling(c)
  /\ \E k \in job[c].left :
       job' = [job EXCEPT ![c].left = @ \ {k},
                          ![c].found = IF entries[k] = None THEN @
                                       ELSE @ \cup {k}]
  /\ UNCHANGED <<clock, reaper>> /\ Keep

EvictDelete(c) ==
  /\ job[c].op = "sample" /\ ~Sampling(c)
  /\ job[c].n < Target
  /\ \E k \in job[c].found :
       /\ job' = [job EXCEPT ![c].found = @ \ {k},
                    ![c].n = IF entries[k] # None THEN @ + 1 ELSE @]
       /\ IF entries[k] # None THEN Remove(k) ELSE Keep
  /\ UNCHANGED <<clock, reaper>>

EvictEnd(c) == /\ job[c].op = "sample" /\ ~Sampling(c)
               /\ job[c].found = {} \/ job[c].n >= Target
               /\ job' = [job EXCEPT ![c] = Idle]
               /\ UNCHANGED <<clock, reaper>> /\ Keep

(* FlushDB: shard by shard, and then the counter. *)
FlushStart(c) == /\ job[c].op = "idle"
                 /\ job' = [job EXCEPT ![c] = [Idle EXCEPT !.op = "flush",
                                                           !.left = Key]]
                 /\ UNCHANGED <<clock, reaper>> /\ Keep

FlushShard(c) ==
  /\ job[c].op = "flush"
  /\ \E k \in job[c].left :
       /\ entries' = [entries EXCEPT ![k] = None]
       /\ cleared' = IF entries[k] = None THEN cleared ELSE cleared + 1
       /\ job' = [job EXCEPT ![c].left = @ \ {k}]
  /\ Collect(expiresAt)
  /\ UNCHANGED <<clock, keyCount, reaper, overlap>>

FlushEnd(c) == /\ job[c].op = "flush" /\ job[c].left = {}
               /\ keyCount' = 0 /\ cleared' = 0
               /\ job' = [job EXCEPT ![c] = Idle]
               /\ UNCHANGED <<clock, entries, expiresAt, reaper, overlap>>

Tick == /\ clock < MaxTime /\ clock' = clock + 1
        /\ UNCHANGED <<job, reaper>> /\ Keep

Locked(k) == \/ Set(k) \/ SetNX(k) \/ IncrBy(k) \/ AppendTo(k) \/ GetOrCreate(k)
             \/ Delete(k) \/ Persist(k) \/ \E t \in TTL : Expire(k, t)

Goroutine(c) ==
  \/ \E k \in Key, cond \in {"get", "nx", "xx"} : Get(c, k, cond)
  \/ GetCheck(c) \/ GetDelete(c) \/ SetAfterGet(c)
  \/ EvictStart(c) \/ EvictSample(c) \/ EvictDelete(c) \/ EvictEnd(c)
  \/ FlushStart(c) \/ FlushShard(c) \/ FlushEnd(c)

Next == \/ Tick \/ ReapTick
        \/ \E k \in Key : Locked(k) \/ ReapShard(k)
        \/ \E c \in Client : Goroutine(c)

Spec == Init /\ [][Next]_vars

(* The reaper is a goroutine with a ticker, and a shard that is picked at   *)
(* random again and again is picked some time.                              *)
Fairness == WF_vars(ReapTick) /\ \A k \in Key : SF_vars(ReapShard(k))
LiveSpec == Spec /\ Fairness
-----------------------------------------------------------------------------
Ops == {"idle", "get", "expired", "set", "sample", "flush"}
JobType == [op : Ops, key : Key \cup {None}, ref : Ref \cup {None}, now : Nat,
            cond : {"get", "nx", "xx"}, left : SUBSET Key,
            found : SUBSET Key, n : Nat]

(* Type invariant of the keyspace. *)
TypeInv == /\ clock \in Nat
           /\ entries \in [Key -> Ref \cup {None}]
           /\ expiresAt \in [Ref -> Int]
           /\ keyCount \in Int /\ cleared \in Nat /\ overlap \in BOOLEAN
           /\ job \in [Client -> JobType]
           /\ reaper \in [now : Nat, left : Nat]

(* DBSIZE is exact, however expiration, eviction and the commands of the    *)
(* connections interleave, unless one of them changed an entry while        *)
(* FLUSHDB was clearing the shards.                                         *)
CountExact == ~overlap => keyCount = Cardinality(Present) + cleared

(* What may take the entry of k away. *)
MayGo(k) ==
  entries[k] # None /\ entries'[k] # entries[k]
  => \/ IsExpired(entries[k], clock)
     \/ Delete(k) \/ Set(k)
     \/ \E c \in Client : SetAfterGet(c) \/ EvictDelete(c) \/ FlushShard(c)

(* No entry is lost to a stale look at it: an entry that has not expired    *)
(* goes only when it is deleted, evicted or flushed, or when a SET puts     *)
(* another in its place, never because a reader or the reaper saw an        *)
(* expired entry of the same key some time before.                          *)
NoEarlyExpiry == [][\A k \in Key : MayGo(k)]_vars

(* The reaper gets every expired entry, also of keys nobody asks for. *)
ExpiredGone ==
  \A k \in Key :
    (entries[k] # None /\ IsExpired(entries[k], clock))
    ~> (entries[k] = None \/ ~IsExpired(entries[k], clock))
=============================================================================
