-------------------------- MODULE RateLimiterProofs -------------------------
(***************************************************************************)
(* Proofs about RateLimiter, for every finite set of clients, any number   *)
(* of callers and any limits.  The argument about the size only needs the  *)
(* key sets of the two maps: a client that is tracked without a bucket was *)
(* left behind by a race, and every race accounts for one.                 *)
(***************************************************************************)
EXTENDS RateLimiter, FiniteSetTheorems, TLAPS

Types ==
    /\ limiters \in [Ids -> Nat \cup {None}]
    /\ lastSeen \in [Ids -> Nat \cup {None}]
    /\ created \in Nat
    /\ now \in Nat
    /\ races \in Nat
    /\ client \in [Callers -> Ids \cup {None}]
    /\ pc \in [Callers -> {"ready", "touch", "take", "create"}]
    /\ \A p \in Callers : pc[p] # "ready" => client[p] \in Ids

Orphans == Tracked \ Installed

Size ==
    /\ Cardinality(Orphans) <= races
    /\ Cardinality(Tracked) <= MaxSize + races

LimiterInv == Types /\ NoLeak /\ Size

-----------------------------------------------------------------------------
(* Set algebra of the key sets.                                            *)

\* The sets in question are finite.
LEMMA KeysFinite ==
    /\ IsFiniteSet(Installed) /\ Cardinality(Installed) \in Nat
    /\ IsFiniteSet(Tracked) /\ Cardinality(Tracked) \in Nat
    /\ IsFiniteSet(Orphans) /\ Cardinality(Orphans) \in Nat
  <1>1. Installed \in SUBSET Ids /\ Tracked \in SUBSET Ids /\ Orphans \in SUBSET Ids
    BY DEF Installed, Tracked, Orphans
  <1>2. IsFiniteSet(Ids)
    BY LimiterAssumption
  <1>3. QED
    BY <1>1, <1>2, FS_Subset, FS_CardinalityType

\* Removing the same clients from both maps leaves no more orphans.
LEMMA RemovalKeepsSize ==
    ASSUME NoLeak, Size, NEW D,
           Installed' = Installed \ D, Tracked' = Tracked \ D,
           races' = races, races \in Nat
    PROVE  NoLeak' /\ Size'
  <1>1. NoLeak'
    BY DEF NoLeak
  <1>2. Tracked' \in SUBSET Tracked /\ Orphans' \in SUBSET Orphans
    BY DEF Orphans
  <1>3. /\ Cardinality(Tracked') <= Cardinality(Tracked) /\ Cardinality(Tracked') \in Nat
        /\ Cardinality(Orphans') <= Cardinality(Orphans) /\ Cardinality(Orphans') \in Nat
    BY <1>2, KeysFinite, FS_Subset, FS_CardinalityType
  <1>4. QED
    BY <1>1, <1>3, KeysFinite, LimiterAssumption DEF Size

\* Touching a client adds at most one orphan, and then counts a race.
LEMMA TouchKeepsSize ==
    ASSUME NoLeak, Size, NEW i \in Ids,
           Installed' = Installed, Tracked' = Tracked \cup {i},
           races' = IF i \in Tracked THEN races ELSE races + 1, races \in Nat
    PROVE  NoLeak' /\ Size'
  <1>1. NoLeak'
    BY DEF NoLeak
  <1>2. CASE i \in Tracked
    <2>1. Tracked' = Tracked /\ Orphans' = Orphans
      BY <1>2 DEF Orphans
    <2>2. QED
      BY <1>1, <1>2, <2>1 DEF Size
  <1>3. CASE i \notin Tracked
    <2>1. i \notin Installed /\ Orphans' = Orphans \cup {i} /\ i \notin Orphans
      BY <1>3 DEF NoLeak, Orphans
    <2>2. /\ Cardinality(Tracked') = Cardinality(Tracked) + 1
          /\ Cardinality(Orphans') = Cardinality(Orphans) + 1
      BY <1>3, <2>1, KeysFinite, FS_AddElement
    <2>3. QED
      BY <1>1, <1>3, <2>2, KeysFinite, LimiterAssumption DEF Size
  <1>4. QED
    BY <1>2, <1>3

\* Evicting one tracked client for another does not add to the tracked ones.
LEMMA EvictionKeepsSize ==
    ASSUME NoLeak, Size, NEW i \in Ids, NEW e \in Tracked,
           Installed' = (Installed \ {e}) \cup {i},
           Tracked' = (Tracked \ {e}) \cup {i},
           races' = races, races \in Nat
    PROVE  NoLeak' /\ Size'
  <1>1. NoLeak'
    BY DEF NoLeak
  <1>2. Orphans' \in SUBSET Orphans
    BY DEF Orphans
  <1>3. Cardinality(Orphans') <= Cardinality(Orphans) /\ Cardinality(Orphans') \in Nat
    BY <1>2, KeysFinite, FS_Subset, FS_CardinalityType
  <1>4. IsFiniteSet(Tracked \ {e}) /\ Cardinality(Tracked \ {e}) = Cardinality(Tracked) - 1
    BY KeysFinite, FS_RemoveElement
  <1>5. Cardinality(Tracked') <= Cardinality(Tracked) /\ Cardinality(Tracked') \in Nat
    <2>1. Cardinality(Tracked') = IF i \in Tracked \ {e} THEN Cardinality(Tracked \ {e})
                                  ELSE Cardinality(Tracked \ {e}) + 1
      BY <1>4, FS_AddElement
    <2>2. IsFiniteSet(Tracked')
      BY <1>4, FS_AddElement
    <2>3. Cardinality(Tracked') \in Nat
      BY <2>2, FS_CardinalityType
    <2>4. QED
      BY <1>4, <2>1, <2>3, KeysFinite
  <1>6. QED
    BY <1>1, <1>3, <1>5, KeysFinite, LimiterAssumption DEF Size

\* Below the limit a bucket is added for a client that had none.
LEMMA InsertionKeepsSize ==
    ASSUME NoLeak, Size, NEW i \in Ids, i \notin Installed,
           Cardinality(Installed) < MaxSize,
           Installed' = Installed \cup {i}, Tracked' = Tracked \cup {i},
           races' = races, races \in Nat
    PROVE  NoLeak' /\ Size'
  <1>1. NoLeak'
    BY DEF NoLeak
  <1>2. Orphans' \in SUBSET Orphans
    BY DEF Orphans
  <1>3. IsFiniteSet(Orphans') /\ Cardinality(Orphans') <= Cardinality(Orphans)
        /\ Cardinality(Orphans') \in Nat
    BY <1>2, KeysFinite, FS_Subset, FS_CardinalityType
  <1>4. IsFiniteSet(Installed') /\ Cardinality(Installed') = Cardinality(Installed) + 1
    BY KeysFinite, FS_AddElement
  <1>5. Tracked' = Installed' \cup Orphans' /\ Installed' \cap Orphans' = {}
    BY <1>1 DEF NoLeak, Orphans
  <1>6. Cardinality(Tracked') = Cardinality(Installed') + Cardinality(Orphans') - 0
    BY <1>3, <1>4, <1>5, FS_Union, FS_EmptySet
  <1>7. QED
    BY <1>1, <1>3, <1>4, <1>6, KeysFinite, LimiterAssumption DEF Size

-----------------------------------------------------------------------------
(* The steps.                                                              *)

\* Both maps start empty.
LEMMA InitLimiterInv == Init => LimiterInv
  <1> SUFFICES ASSUME Init PROVE LimiterInv
    OBVIOUS
  <1>1. Types
    BY DEF Init, Types
  <1>2. Installed = {} /\ Tracked = {} /\ Orphans = {}
    BY DEF Init, Installed, Tracked, Orphans
  <1>3. NoLeak /\ Size
    BY <1>2, FS_EmptySet, LimiterAssumption DEF NoLeak, Size, Init
  <1>4. QED
    BY <1>1, <1>3 DEF LimiterInv

\* A step that leaves both maps alone.
LEMMA QuietLimiterInv ==
    ASSUME LimiterInv, UNCHANGED <<limiters, lastSeen, races>>
    PROVE  NoLeak' /\ Size'
  <1>1. Installed' = Installed /\ Tracked' = Tracked
    BY DEF Installed, Tracked
  <1>2. QED
    BY <1>1 DEF LimiterInv, NoLeak, Size, Orphans

\* The fast path's touch.
LEMMA TouchLimiterInv ==
    ASSUME LimiterInv, NEW p \in Callers, Touch(p)
    PROVE  LimiterInv'
  <1> DEFINE i == client[p]
  <1>1. i \in Ids
    BY DEF LimiterInv, Types, Touch
  <1>2. /\ limiters' = limiters /\ lastSeen' = [lastSeen EXCEPT ![i] = now]
        /\ races' = IF i \in Tracked THEN races ELSE races + 1
    BY DEF Touch
  <1>3. Installed' = Installed /\ Tracked' = Tracked \cup {i}
    BY <1>1, <1>2, LimiterAssumption DEF LimiterInv, Types, Installed, Tracked
  <1>4. NoLeak' /\ Size'
    BY <1>1, <1>2, <1>3, TouchKeepsSize DEF LimiterInv, Types
  <1>5. Types'
    BY <1>1 DEF LimiterInv, Types, Touch
  <1>6. QED
    BY <1>4, <1>5 DEF LimiterInv

\* The slow path that finds a bucket: its client is tracked already.
LEMMA ReuseLimiterInv ==
    ASSUME LimiterInv, NEW p \in Callers, Reuse(p)
    PROVE  LimiterInv'
  <1> DEFINE i == client[p]
  <1>1. i \in Ids /\ limiters[i] # None
    BY DEF LimiterInv, Types, Reuse
  <1>2. limiters' = limiters /\ lastSeen' = [lastSeen EXCEPT ![i] = now] /\ races' = races
    BY DEF Reuse
  <1>3. i \in Tracked
    BY <1>1 DEF LimiterInv, NoLeak, Installed
  <1>4. Installed' = Installed /\ Tracked' = Tracked \cup {i}
    BY <1>1, <1>2, LimiterAssumption DEF LimiterInv, Types, Installed, Tracked
  <1>5. NoLeak' /\ Size'
    BY <1>1, <1>2, <1>3, <1>4, TouchKeepsSize DEF LimiterInv, Types
  <1>6. Types'
    BY <1>1 DEF LimiterInv, Types, Reuse
  <1>7. QED
    BY <1>5, <1>6 DEF LimiterInv

\* The slow path that creates a bucket, with or without an eviction.
LEMMA CreateLimiterInv ==
    ASSUME LimiterInv, NEW p \in Callers, Create(p)
    PROVE  LimiterInv'
  <1> DEFINE i == client[p]
             b == created + 1
  <1>1. i \in Ids /\ limiters[i] = None /\ b \in Nat
    BY DEF LimiterInv, Types, Create
  <1>2. PICK evicted \in IF AtLimit THEN EvictOldest ELSE {{}} :
          /\ limiters' = [Without(limiters, evicted) EXCEPT ![i] = b]
          /\ lastSeen' = [Without(lastSeen, evicted) EXCEPT ![i] = now]
    BY DEF Create
  <1>3. created' = b /\ now' = now /\ races' = races /\ client' = client
        /\ pc' = [pc EXCEPT ![p] = "ready"]
    BY DEF Create
  <1> HIDE DEF i, b
  <1>4. Types'
    BY <1>1, <1>2, <1>3 DEF LimiterInv, Types, Without
  <1>5. /\ Installed' = (Installed \ evicted) \cup {i}
        /\ Tracked' = (Tracked \ evicted) \cup {i}
    BY <1>1, <1>2, LimiterAssumption DEF LimiterInv, Types, Installed, Tracked, Without
  <1>6. NoLeak' /\ Size'
    <2>1. CASE AtLimit
      <3>1. Tracked # {}
        <4>1. Installed # {}
          BY <2>1, FS_EmptySet, LimiterAssumption DEF AtLimit
        <4>2. QED
          BY <4>1 DEF LimiterInv, NoLeak
      <3>2. PICK e \in Tracked : evicted = {e}
        BY <1>2, <2>1, <3>1 DEF EvictOldest, Oldest
      <3>3. QED
        BY <1>1, <1>3, <1>5, <3>2, EvictionKeepsSize DEF LimiterInv, Types
    <2>2. CASE ~AtLimit
      <3>1. /\ Installed' = Installed \cup {i} /\ Tracked' = Tracked \cup {i}
            /\ i \notin Installed
        BY <1>1, <1>2, <1>5, <2>2 DEF Installed
      <3>2. Cardinality(Installed) < MaxSize
        BY <2>2, KeysFinite, LimiterAssumption DEF AtLimit
      <3>3. QED
        BY <1>1, <1>3, <3>1, <3>2, InsertionKeepsSize DEF LimiterInv, Types
    <2>3. QED
      BY <2>1, <2>2
  <1>7. QED
    BY <1>4, <1>6 DEF LimiterInv

\* The cleanup goroutine.
LEMMA CleanupLimiterInv ==
    ASSUME LimiterInv, Cleanup
    PROVE  LimiterInv'
  <1> DEFINE expired == {i \in Tracked : now - lastSeen[i] > TTL}
  <1>1. /\ limiters' = Without(limiters, expired) /\ lastSeen' = Without(lastSeen, expired)
        /\ UNCHANGED <<created, now, races, client, pc>>
    BY DEF Cleanup, callVars
  <1> HIDE DEF expired
  <1>2. Installed' = Installed \ expired /\ Tracked' = Tracked \ expired
    BY <1>1 DEF Installed, Tracked, Without
  <1>3. NoLeak' /\ Size'
    BY <1>1, <1>2, RemovalKeepsSize DEF LimiterInv, Types
  <1>4. Types'
    BY <1>1 DEF LimiterInv, Types, Without
  <1>5. QED
    BY <1>3, <1>4 DEF LimiterInv

\* Every step of the limiter preserves the invariant.
LEMMA NextLimiterInv == LimiterInv /\ [Next]_vars => LimiterInv'
  <1> SUFFICES ASSUME LimiterInv, [Next]_vars PROVE LimiterInv'
    OBVIOUS
  <1>1. ASSUME NEW p \in Callers, Lookup(p) PROVE LimiterInv'
    <2>1. PICK i \in Clients :
            /\ client' = [client EXCEPT ![p] = i]
            /\ pc' = [pc EXCEPT ![p] = IF limiters[i] # None THEN "touch" ELSE "create"]
      BY <1>1 DEF Lookup
    <2>2. i \in Ids
      BY DEF Clients, GetClientIP, Header
    <2>3. UNCHANGED <<limiters, lastSeen, created, now, races>>
      BY <1>1 DEF Lookup
    <2>4. Types'
      BY <2>1, <2>2, <2>3 DEF LimiterInv, Types
    <2>5. QED
      BY <2>3, <2>4, QuietLimiterInv DEF LimiterInv
  <1>2. ASSUME NEW p \in Callers, TakeHeld(p) PROVE LimiterInv'
    <2>1. /\ UNCHANGED <<limiters, lastSeen, created, now, races, client>>
          /\ pc' = [pc EXCEPT ![p] = "ready"]
      BY <1>2 DEF TakeHeld
    <2>2. Types'
      BY <2>1 DEF LimiterInv, Types
    <2>3. QED
      BY <2>1, <2>2, QuietLimiterInv DEF LimiterInv
  <1>3. ASSUME NEW p \in Callers, Allow(p) PROVE LimiterInv'
    BY <1>1, <1>2, <1>3, TouchLimiterInv, ReuseLimiterInv, CreateLimiterInv DEF Allow
  <1>4. CASE Tick \/ UNCHANGED vars
    <2>1. /\ UNCHANGED <<limiters, lastSeen, created, races, client, pc>>
          /\ now' \in {now, now + 1}
      BY <1>4 DEF Tick, vars, callVars
    <2>2. Types'
      BY <2>1 DEF LimiterInv, Types
    <2>3. QED
      BY <2>1, <2>2, QuietLimiterInv DEF LimiterInv
  <1>5. QED
    BY <1>3, <1>4, CleanupLimiterInv DEF Next

\* No bucket is out of reach of the cleanup and of the eviction.
THEOREM NoLeakTheorem == Spec => []NoLeak
  <1>1. LimiterInv => NoLeak
    BY DEF LimiterInv
  <1>2. QED
    BY InitLimiterInv, NextLimiterInv, <1>1, PTL DEF Spec

\* The map exceeds MaxSize by no more than the number of raced touches.
THEOREM BoundedOverrunTheorem == Spec => []BoundedOverrun
  <1>1. LimiterInv => BoundedOverrun
    <2> SUFFICES ASSUME LimiterInv PROVE BoundedOverrun
      OBVIOUS
    <2>1. Cardinality(Installed) <= Cardinality(Tracked)
      BY KeysFinite, FS_Subset DEF LimiterInv, NoLeak
    <2>2. QED
      BY <2>1, KeysFinite, LimiterAssumption DEF LimiterInv, Types, Size, BoundedOverrun
  <1>2. QED
    BY InitLimiterInv, NextLimiterInv, <1>1, PTL DEF Spec

\* A bucket in the map is never overwritten: the slow path looks again under
\* the write lock.
THEOREM NeverReplacedTheorem == Spec => NeverReplaced
  <1>1. LimiterInv /\ [Next]_vars =>
          [\A i \in Ids : limiters[i] # None => limiters'[i] \in {limiters[i], None}]_vars
    <2> SUFFICES ASSUME LimiterInv, Next, NEW i \in Ids, limiters[i] # None
                 PROVE  limiters'[i] \in {limiters[i], None}
      OBVIOUS
    <2>1. ASSUME NEW p \in Callers, Lookup(p) \/ Touch(p) \/ TakeHeld(p) \/ Reuse(p)
          PROVE  limiters' = limiters
      BY <2>1 DEF Lookup, Touch, TakeHeld, Reuse
    <2>2. ASSUME NEW p \in Callers, Create(p)
          PROVE  limiters'[i] \in {limiters[i], None}
      BY <2>2 DEF Create, Without, LimiterInv, Types
    <2>3. CASE Cleanup
      BY <2>3 DEF Cleanup, Without
    <2>4. CASE Tick
      BY <2>4 DEF Tick
    <2>5. QED
      BY <2>1, <2>2, <2>3, <2>4 DEF Next, Allow
  <1>2. QED
    BY InitLimiterInv, NextLimiterInv, <1>1, PTL DEF Spec, NeverReplaced

=============================================================================
