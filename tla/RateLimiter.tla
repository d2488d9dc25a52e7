---------------------------- MODULE RateLimiter -----------------------------
(***************************************************************************)
(* The rate limiter (infrastructure/ratelimit/limiter.go): one token       *)
(* bucket per client, created on demand, in two maps guarded by one mutex. *)
(*                                                                         *)
(* Allow looks the client up under the read lock, releases it, and then    *)
(* takes the write lock, either to touch lastSeen (fast path) or to create *)
(* the bucket (slow path).  Between the two locks other calls, an eviction *)
(* or the cleanup goroutine may change both maps.  On the fast path the    *)
(* token is taken after the second unlock.                                 *)
(*                                                                         *)
(* A bucket is an object with an identity: an evicted bucket may still be  *)
(* in the hands of a call that looked it up before.                        *)
(***************************************************************************)
EXTENDS Integers, FiniteSets

CONSTANTS
    Ids,         \* client addresses
    Callers,     \* the goroutines that call Allow
    None,        \* no address, no bucket, no time
    Burst,       \* tokens of a full bucket (20)
    Limit,       \* tokens added per unit of time (10 per second)
    TTL,         \* age at which cleanup drops a bucket (15 minutes)
    MaxSize,     \* RateLimiter.maxSize (10000)
    MaxBuckets,  \* bound of the model: buckets created in a behaviour
    MaxTime      \* bound of the model: the clock stops here

ASSUME LimiterAssumption ==
    /\ None \notin Ids /\ None \notin Nat
    /\ IsFiniteSet(Ids)
    /\ Burst \in Nat \ {0} /\ Limit \in Nat /\ TTL \in Nat
    /\ MaxSize \in Nat \ {0} /\ MaxBuckets \in Nat /\ MaxTime \in Nat

Buckets == 1..MaxBuckets

VARIABLES
    limiters,  \* the map of buckets; None where there is no entry
    lastSeen,  \* the map of times; None where there is no entry
    tokens,    \* per bucket: the tokens left
    created,   \* how many buckets have been created
    now,       \* time.Now()
    pc,        \* per caller: where its call of Allow is
    client,    \* per caller: the argument of the call
    held,      \* per caller: the bucket found by the first lookup
    answer,    \* per caller: what the last call returned
    races      \* history: touches of a client whose entries were gone

vars == <<limiters, lastSeen, tokens, created, now, pc, client, held, answer, races>>
callVars == <<pc, client, held, answer>>

Installed == {i \in Ids : limiters[i] # None}
Tracked == {i \in Ids : lastSeen[i] # None}

Init ==
    /\ limiters = [i \in Ids |-> None]
    /\ lastSeen = [i \in Ids |-> None]
    /\ tokens = [b \in Buckets |-> 0]
    /\ created = 0
    /\ now = 0
    /\ pc = [p \in Callers |-> "ready"]
    /\ client = [p \in Callers |-> None]
    /\ held = [p \in Callers |-> None]
    /\ answer = [p \in Callers |-> "none"]
    /\ races = 0

-----------------------------------------------------------------------------

\* GetClientIP: the first header that holds an address, else the peer.
Header == [forwarded : Ids \cup {None}, real : Ids \cup {None}, remote : Ids]

GetClientIP(h) ==
    IF h.forwarded # None THEN h.forwarded
    ELSE IF h.real # None THEN h.real ELSE h.remote

Clients == {GetClientIP(h) : h \in Header}

\* rate.Limiter.Allow: takes a token if there is one.
Take(p, b, bucket) ==
    /\ tokens' = [bucket EXCEPT ![b] = IF @ > 0 THEN @ - 1 ELSE @]
    /\ answer' = [answer EXCEPT ![p] = IF bucket[b] > 0 THEN "allowed" ELSE "denied"]

\* The first lookup, under the read lock.
Lookup(p) ==
    /\ pc[p] = "ready"
    /\ \E i \in Clients :
          /\ client' = [client EXCEPT ![p] = i]
          /\ held' = [held EXCEPT ![p] = limiters[i]]
          /\ pc' = [pc EXCEPT ![p] = IF limiters[i] # None THEN "touch" ELSE "create"]
    /\ UNCHANGED <<limiters, lastSeen, tokens, created, now, answer, races>>

\* Fast path, under the write lock: the entry is not looked up again.
Touch(p) ==
    /\ pc[p] = "touch"
    /\ lastSeen' = [lastSeen EXCEPT ![client[p]] = now]
    /\ pc' = [pc EXCEPT ![p] = "take"]
    /\ races' = IF client[p] \in Tracked THEN races ELSE races + 1
    /\ UNCHANGED <<limiters, tokens, created, now, client, held, answer>>

\* Fast path, without a lock: the bucket found by the first lookup.
TakeHeld(p) ==
    /\ pc[p] = "take"
    /\ Take(p, held[p], tokens)
    /\ held' = [held EXCEPT ![p] = None]
    /\ pc' = [pc EXCEPT ![p] = "ready"]
    /\ UNCHANGED <<limiters, lastSeen, created, now, client, races>>

\* Slow path, the bucket appeared since the first lookup.
Reuse(p) ==
    LET i == client[p] IN
    /\ pc[p] = "create"
    /\ limiters[i] # None
    /\ lastSeen' = [lastSeen EXCEPT ![i] = now]
    /\ Take(p, limiters[i], tokens)
    /\ pc' = [pc EXCEPT ![p] = "ready"]
    /\ UNCHANGED <<limiters, created, now, client, held, races>>

\* Bug: off by one.
AboveLimit == Cardinality(Installed) > MaxSize

AtLimit == Cardinality(Installed) >= MaxSize

\* evictOldest goes through lastSeen, not through limiters: a client with the
\* smallest time, or nobody when the map is empty.
Oldest == {i \in Tracked : \A k \in Tracked : lastSeen[i] <= lastSeen[k]}

EvictOldest == IF Tracked = {} THEN {{}} ELSE {{i} : i \in Oldest}

\* The map without the keys of a set.
Without(map, keys) == [i \in Ids |-> IF i \in keys THEN None ELSE map[i]]

\* Bug: the map is not looked up again under the write lock.
CreateUnchecked(p) ==
    LET i == client[p]
        b == created + 1
    IN
    /\ pc[p] = "create"
    /\ created < MaxBuckets
    /\ limiters' = [limiters EXCEPT ![i] = b]
    /\ lastSeen' = [lastSeen EXCEPT ![i] = now]
    /\ Take(p, b, [tokens EXCEPT ![b] = Burst])
    /\ created' = b
    /\ pc' = [pc EXCEPT ![p] = "ready"]
    /\ UNCHANGED <<now, client, held, races>>

\* Slow path, a new bucket, after an eviction when the map is at its limit.
Create(p) ==
    LET i == client[p]
        b == created + 1
    IN
    /\ pc[p] = "create"
    /\ limiters[i] = None
    /\ created < MaxBuckets
    /\ \E evicted \in IF AtLimit THEN EvictOldest ELSE {{}} :
          /\ limiters' = [Without(limiters, evicted) EXCEPT ![i] = b]
          /\ lastSeen' = [Without(lastSeen, evicted) EXCEPT ![i] = now]
    /\ Take(p, b, [tokens EXCEPT ![b] = Burst])
    /\ created' = b
    /\ pc' = [pc EXCEPT ![p] = "ready"]
    /\ UNCHANGED <<now, client, held, races>>

\* Bug: the bucket outlives its time.
CleanupTimesOnly ==
    /\ lastSeen' = Without(lastSeen, {i \in Tracked : now - lastSeen[i] > TTL})
    /\ UNCHANGED <<limiters, tokens, created, now, callVars, races>>

\* The cleanup goroutine, under the write lock: every client not seen for
\* longer than TTL leaves both maps.
Cleanup ==
    LET expired == {i \in Tracked : now - lastSeen[i] > TTL} IN
    /\ limiters' = Without(limiters, expired)
    /\ lastSeen' = Without(lastSeen, expired)
    /\ UNCHANGED <<tokens, created, now, callVars, races>>

\* Time passes and the buckets fill up.
Tick ==
    /\ now < MaxTime
    /\ now' = now + 1
    /\ tokens' = [b \in Buckets |->
                    IF b > created THEN 0
                    ELSE IF tokens[b] + Limit > Burst THEN Burst ELSE tokens[b] + Limit]
    /\ UNCHANGED <<limiters, lastSeen, created, callVars, races>>

Allow(p) == Lookup(p) \/ Touch(p) \/ TakeHeld(p) \/ Reuse(p) \/ Create(p)

Next == (\E p \in Callers : Allow(p)) \/ Cleanup \/ Tick

Spec == Init /\ [][Next]_vars

-----------------------------------------------------------------------------
(* Properties.                                                             *)

\* No bucket is forgotten: each has a last-seen time, so that cleanup and
\* evictOldest, which only go through lastSeen, can find it.
NoLeak == Installed \subseteq Tracked

\* Two first requests of one client that race do not get a bucket each: a
\* bucket in the map is removed, never overwritten by another.
NeverReplaced ==
    [][\A i \in Ids : limiters[i] # None => limiters'[i] \in {limiters[i], None}]_vars

\* The number of buckets exceeds MaxSize only by as much as calls on the fast
\* path touched a client that an eviction or the cleanup had just removed: each
\* such touch leaves a time without a bucket, which a later evictOldest may
\* pick in place of a bucket.
BoundedOverrun == Cardinality(Installed) <= MaxSize + races

=============================================================================
