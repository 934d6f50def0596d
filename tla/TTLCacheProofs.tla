--------------------------- MODULE TTLCacheProofs ---------------------------
(***************************************************************************)
(* Proofs about TTLCache for every set of keys and values, every lifetime, *)
(* capacity, ticker period and horizon: its type invariant, its capacity,  *)
(* and that it implements ExpiringMap.                                     *)
(***************************************************************************)
EXTENDS TTLCache, FiniteSetTheorems, TLAPS

(***************************************************************************)
(* A non-empty map has an oldest entry, so evictOldest always makes room.  *)
(***************************************************************************)
LEMMA OldestExists ==
  ASSUME TypeOK, DOMAIN items # {}
  PROVE  Oldest # {}
<1> DEFINE T == {items[k].addedAt : k \in DOMAIN items}
<1>1. T \subseteq Nat /\ T # {}
  BY DEF TypeOK, CacheItem
<1>2. PICK t \in T : \A u \in T : ~ (<<u, t>> \in OpToRel(<, Nat))
  BY <1>1, NatLessThanWellFounded, WFMin
<1>3. OpToRel(<, Nat) = {ss \in Nat \X Nat : ss[1] < ss[2]}
  BY DEF OpToRel
<1>4. \A u \in T : t <= u
  <2> SUFFICES ASSUME NEW u \in T, u < t
               PROVE  FALSE
    BY <1>1
  <2>1. <<u, t>> \in OpToRel(<, Nat)
    BY <1>1, <1>3
  <2> QED
    BY <1>2, <2>1
<1> QED
  BY <1>4 DEF Oldest

(***************************************************************************)
(* evictOldest leaves the map alone or takes one of its oldest entries.    *)
(***************************************************************************)
LEMMA EvictOldestCases ==
  ASSUME NEW m \in EvictOldest
  PROVE  \/ Oldest = {} /\ m = items
         \/ \E j \in Oldest : m = Without(j)
BY DEF EvictOldest

(***************************************************************************)
(* Every step keeps the types.                                             *)
(***************************************************************************)
LEMMA TypeKept == TypeOK /\ [Next]_vars => TypeOK'
<1> SUFFICES ASSUME TypeOK, [Next]_vars
             PROVE  TypeOK'
  OBVIOUS
<1> USE CacheAssumption DEF TypeOK, CacheItem
<1>1. CASE CallGet
  BY <1>1 DEF CallGet, Get
<1>2. CASE CallSet
  <2>1. PICK k \in Keys, v \in Values : Set(k, v)
    BY <1>2 DEF CallSet
  <2>2. PICK m \in {items} \cup EvictOldest :
          items' = Put(m, k, [value |-> v, expiresAt |-> now + TTL, addedAt |-> now])
    BY <2>1 DEF Set
  <2>3. DOMAIN m \subseteq Keys /\ m \in [DOMAIN m -> CacheItem]
    <3>1. CASE m = items
      BY <3>1
    <3>2. CASE \E j \in Oldest : m = Without(j)
      BY <3>2 DEF Without, Restrict
    <3> QED
      BY <2>2, <3>1, <3>2, EvictOldestCases
  <2>4. [value |-> v, expiresAt |-> now + TTL, addedAt |-> now] \in CacheItem
    OBVIOUS
  <2>5. DOMAIN items' \subseteq Keys /\ items' \in [DOMAIN items' -> CacheItem]
    BY <2>2, <2>3, <2>4 DEF Put
  <2> QED
    BY <2>1, <2>5 DEF Set
<1>3. CASE CallDelete
  BY <1>3 DEF CallDelete, Delete, Without, Restrict
<1>4. CASE Stop
  BY <1>4 DEF Stop
<1>5. CASE LoopTick
  BY <1>5 DEF LoopTick
<1>6. CASE LoopExit
  BY <1>6 DEF LoopExit
<1>7. CASE Cleanup
  BY <1>7 DEF Cleanup, Restrict
<1>8. CASE Advance
  <2>1. now' \in 0..MaxTime
    BY <1>8 DEF Advance
  <2>2. tick' \in BOOLEAN
    BY <1>8 DEF Advance
  <2> QED
    BY <1>8, <2>1, <2>2 DEF Advance
<1>9. CASE UNCHANGED vars
  BY <1>9 DEF vars
<1> QED
  BY <1>1, <1>2, <1>3, <1>4, <1>5, <1>6, <1>7, <1>8, <1>9 DEF Next

(***************************************************************************)
(* A new cache has the types.                                              *)
(***************************************************************************)
LEMMA TypeInit == Init => TypeOK
<1> SUFFICES ASSUME Init
             PROVE  TypeOK
  OBVIOUS
<1>1. now \in 0..MaxTime
  BY CacheAssumption DEF Init
<1>2. DOMAIN items \subseteq Keys /\ items \in [DOMAIN items -> CacheItem]
  BY DEF Init
<1> QED
  BY <1>1, <1>2 DEF Init, TypeOK

(***************************************************************************)
(* TypeOK holds in every state: in particular a reply is a stored value or *)
(* a miss, and c.items holds only what Set put there.                      *)
(***************************************************************************)
THEOREM TypeCorrect == Spec => []TypeOK
<1>1. Init => TypeOK
  BY TypeInit
<1>2. TypeOK /\ [Next]_vars => TypeOK'
  BY TypeKept
<1> QED
  BY <1>1, <1>2, PTL DEF Spec

-----------------------------------------------------------------------------
(***************************************************************************)
(* Capacity.  WithinCapacity alone is not inductive: that a Set replaces   *)
(* what it evicts needs the map to be finite and evictOldest to find an    *)
(* entry.                                                                  *)
(***************************************************************************)
Bounded == IsFiniteSet(DOMAIN items) /\ WithinCapacity

(***************************************************************************)
(* A map that lost an entry or gained one stays bounded.                   *)
(***************************************************************************)
LEMMA FewerKeysBounded ==
  ASSUME Bounded, DOMAIN items' \subseteq DOMAIN items
  PROVE  Bounded'
<1>1. /\ IsFiniteSet(DOMAIN items')
      /\ Cardinality(DOMAIN items') <= Cardinality(DOMAIN items)
  BY FS_Subset DEF Bounded
<1>2. Cardinality(DOMAIN items) \in Nat /\ Cardinality(DOMAIN items') \in Nat
  BY <1>1, FS_CardinalityType DEF Bounded
<1> QED
  BY <1>1, <1>2, CacheAssumption DEF Bounded, WithinCapacity

(***************************************************************************)
(* Set keeps the map bounded: it adds a key only after making room.        *)
(***************************************************************************)
LEMMA SetBounded ==
  ASSUME TypeOK, Bounded, NEW k \in Keys, NEW v \in Values, Set(k, v)
  PROVE  Bounded'
<1> USE CacheAssumption
<1>1. PICK m \in IF k \notin DOMAIN items /\ AtCapacity THEN EvictOldest ELSE {items} :
        items' = Put(m, k, [value |-> v, expiresAt |-> now + TTL, addedAt |-> now])
  BY DEF Set
<1>2. DOMAIN items' = DOMAIN m \cup {k}
  BY <1>1 DEF Put
<1>3. Cardinality(DOMAIN items) \in Nat
  BY FS_CardinalityType DEF Bounded
<1>4. CASE k \in DOMAIN items
  <2>1. DOMAIN items' = DOMAIN items
    BY <1>1, <1>2, <1>4
  <2> QED
    BY <2>1, FewerKeysBounded
<1>5. CASE k \notin DOMAIN items /\ ~AtCapacity
  <2>1. DOMAIN items' = DOMAIN items \cup {k}
    BY <1>1, <1>2, <1>5
  <2>2. /\ IsFiniteSet(DOMAIN items')
        /\ Cardinality(DOMAIN items') = Cardinality(DOMAIN items) + 1
    BY <1>5, <2>1, FS_AddElement DEF Bounded
  <2> QED
    BY <1>3, <1>5, <2>2 DEF Bounded, WithinCapacity, AtCapacity
<1>6. CASE k \notin DOMAIN items /\ AtCapacity
  <2>1. DOMAIN items # {}
    BY <1>6, FS_EmptySet DEF AtCapacity
  <2>2. PICK j \in Oldest : m = Without(j)
    BY <1>1, <1>6, <2>1, OldestExists, EvictOldestCases
  <2>3. j \in DOMAIN items /\ DOMAIN m = DOMAIN items \ {j}
    BY <2>2 DEF Oldest, Without, Restrict
  <2>4. /\ IsFiniteSet(DOMAIN m)
        /\ Cardinality(DOMAIN m) = Cardinality(DOMAIN items) - 1
    BY <2>3, FS_RemoveElement DEF Bounded
  <2>5. /\ IsFiniteSet(DOMAIN items')
        /\ Cardinality(DOMAIN items') = Cardinality(DOMAIN m) + 1
    BY <1>2, <1>6, <2>3, <2>4, FS_AddElement
  <2> QED
    BY <1>3, <2>4, <2>5 DEF Bounded, WithinCapacity
<1> QED
  BY <1>4, <1>5, <1>6

(***************************************************************************)
(* Every step keeps the map bounded.                                       *)
(***************************************************************************)
LEMMA BoundedKept == TypeOK /\ Bounded /\ [Next]_vars => Bounded'
<1> SUFFICES ASSUME TypeOK, Bounded, [Next]_vars
             PROVE  Bounded'
  OBVIOUS
<1>1. CASE CallGet
  BY <1>1, FewerKeysBounded DEF CallGet, Get
<1>2. CASE CallSet
  BY <1>2, SetBounded DEF CallSet
<1>3. CASE CallDelete
  BY <1>3, FewerKeysBounded DEF CallDelete, Delete, Without, Restrict
<1>4. CASE Stop
  BY <1>4, FewerKeysBounded DEF Stop
<1>5. CASE LoopTick
  BY <1>5, FewerKeysBounded DEF LoopTick
<1>6. CASE LoopExit
  BY <1>6, FewerKeysBounded DEF LoopExit
<1>7. CASE Cleanup
  BY <1>7, FewerKeysBounded DEF Cleanup, Restrict
<1>8. CASE Advance
  BY <1>8, FewerKeysBounded DEF Advance
<1>9. CASE UNCHANGED vars
  BY <1>9, FewerKeysBounded DEF vars
<1> QED
  BY <1>1, <1>2, <1>3, <1>4, <1>5, <1>6, <1>7, <1>8, <1>9 DEF Next

(***************************************************************************)
(* A new cache is within any bound.                                        *)
(***************************************************************************)
LEMMA BoundedInit == Init => Bounded
<1> SUFFICES ASSUME Init
             PROVE  Bounded
  OBVIOUS
<1>1. DOMAIN items = {}
  BY DEF Init
<1> QED
  BY <1>1, FS_EmptySet, CacheAssumption DEF Bounded, WithinCapacity

(***************************************************************************)
(* The inductive invariant of the capacity.                                *)
(***************************************************************************)
LEMMA AlwaysBounded == Spec => []Bounded
<1>1. Init => Bounded
  BY BoundedInit
<1>2. TypeOK /\ Bounded /\ [Next]_vars => Bounded'
  BY BoundedKept
<1> QED
  BY <1>1, <1>2, TypeCorrect, PTL DEF Spec

(***************************************************************************)
(* WithinCapacity holds in every state: c.items never outgrows maxEntries, *)
(* whatever the callers and the cleanup goroutine do and in any order.     *)
(***************************************************************************)
THEOREM CapacityRespected == Spec => []WithinCapacity
<1>1. Bounded => WithinCapacity
  BY DEF Bounded
<1> QED
  BY <1>1, AlwaysBounded, PTL

-----------------------------------------------------------------------------
(***************************************************************************)
(* Every step keeps age and expiry in one order.                           *)
(***************************************************************************)
LEMMA AgeKept == TypeOK /\ AgeIsExpiry /\ [Next]_vars => AgeIsExpiry'
<1> SUFFICES ASSUME TypeOK, AgeIsExpiry, [Next]_vars
             PROVE  AgeIsExpiry'
  OBVIOUS
<1> USE CacheAssumption DEF AgeIsExpiry
<1>1. CASE CallGet
  BY <1>1 DEF CallGet, Get
<1>2. CASE CallSet
  <2>1. PICK k \in Keys, v \in Values : Set(k, v)
    BY <1>2 DEF CallSet
  <2>2. PICK m \in {items} \cup EvictOldest :
          items' = Put(m, k, [value |-> v, expiresAt |-> now + TTL, addedAt |-> now])
    BY <2>1 DEF Set
  <2>3. DOMAIN m \subseteq DOMAIN items /\ \A j \in DOMAIN m : m[j] = items[j]
    <3>1. CASE m = items
      BY <3>1
    <3>2. CASE \E j \in Oldest : m = Without(j)
      BY <3>2 DEF Without, Restrict
    <3> QED
      BY <2>2, <3>1, <3>2, EvictOldestCases
  <2>4. \A j \in DOMAIN items' :
          \/ j = k /\ items'[j] = [value |-> v, expiresAt |-> now + TTL, addedAt |-> now]
          \/ j \in DOMAIN items /\ items'[j] = items[j]
    BY <2>2, <2>3 DEF Put
  <2>5. now' = now /\ now \in Nat
    BY <2>1 DEF Set, TypeOK
  <2> QED
    BY <2>4, <2>5
<1>3. CASE CallDelete
  BY <1>3 DEF CallDelete, Delete, Without, Restrict
<1>4. CASE Stop
  BY <1>4 DEF Stop
<1>5. CASE LoopTick
  BY <1>5 DEF LoopTick
<1>6. CASE LoopExit
  BY <1>6 DEF LoopExit
<1>7. CASE Cleanup
  BY <1>7 DEF Cleanup, Restrict
<1>8. CASE Advance
  <2>1. now' = now + 1 /\ items' = items
    BY <1>8 DEF Advance
  <2>2. \A k \in DOMAIN items : items[k].addedAt \in Nat
    BY DEF TypeOK, CacheItem
  <2>3. now \in Nat
    BY DEF TypeOK
  <2> QED
    BY <2>1, <2>2, <2>3
<1>9. CASE UNCHANGED vars
  BY <1>9 DEF vars
<1> QED
  BY <1>1, <1>2, <1>3, <1>4, <1>5, <1>6, <1>7, <1>8, <1>9 DEF Next

(***************************************************************************)
(* AgeIsExpiry: the age by which evictOldest chooses and the expiry by     *)
(* which Get and cleanup decide are the same order.                        *)
(***************************************************************************)
THEOREM ExpiryFollowsAge == Spec => []AgeIsExpiry
<1>1. Init => AgeIsExpiry
  BY DEF Init, AgeIsExpiry
<1>2. TypeOK /\ AgeIsExpiry /\ [Next]_vars => AgeIsExpiry'
  BY AgeKept
<1> QED
  BY <1>1, <1>2, TypeCorrect, PTL DEF Spec
-----------------------------------------------------------------------------
(***************************************************************************)
(* Refinement.  LiveKeys are the keys the abstract map has.                *)
(***************************************************************************)
LiveKeys == {k \in DOMAIN items : ~Expired(items[k])}

IInv == TypeOK /\ Bounded /\ AgeIsExpiry

(***************************************************************************)
(* Cardinality means the same in the instance of ExpiringMap.              *)
(***************************************************************************)
LEMMA MapCardinality == ASSUME NEW S PROVE Map!Cardinality(S) = Cardinality(S)
BY DEF Map!Cardinality, Cardinality

LEMMA LiveFacts ==
  ASSUME Bounded
  PROVE  /\ DOMAIN LiveItems = LiveKeys
         /\ IsFiniteSet(LiveKeys)
         /\ Cardinality(LiveKeys) \in Nat
         /\ Cardinality(LiveKeys) <= Cardinality(DOMAIN items)
<1>1. DOMAIN LiveItems = LiveKeys
  BY DEF LiveItems, LiveOf, LiveKeys
<1>2. LiveKeys \in SUBSET DOMAIN items
  BY DEF LiveKeys
<1>3. IsFiniteSet(LiveKeys) /\ Cardinality(LiveKeys) <= Cardinality(DOMAIN items)
  BY <1>2, FS_Subset DEF Bounded
<1> QED
  BY <1>1, <1>3, FS_CardinalityType

(***************************************************************************)
(* An entry that is present but not live leaves the abstract map a free    *)
(* slot: this is where an expired entry nobody has cleaned must not count. *)
(***************************************************************************)
LEMMA ExpiredLeavesRoom ==
  ASSUME IInv, NEW j \in DOMAIN items, Expired(items[j])
  PROVE  ~Map!Full
<1> USE DEF IInv
<1>1. LiveKeys \in SUBSET (DOMAIN items \ {j})
  BY DEF LiveKeys
<1>2. /\ IsFiniteSet(DOMAIN items \ {j})
      /\ Cardinality(DOMAIN items \ {j}) = Cardinality(DOMAIN items) - 1
  BY FS_RemoveElement DEF Bounded
<1>3. Cardinality(LiveKeys) <= Cardinality(DOMAIN items) - 1
  BY <1>1, <1>2, FS_Subset
<1>4. Cardinality(DOMAIN items) \in Nat
  BY FS_CardinalityType DEF Bounded
<1> QED
  BY <1>3, <1>4, LiveFacts, MapCardinality, CacheAssumption DEF Map!Full, Bounded, WithinCapacity

(***************************************************************************)
(* Storing an item shows in the abstract map as storing its entry.         *)
(***************************************************************************)
LEMMA PutIsWith ==
  ASSUME now \in Nat, NEW m, NEW k \in Keys, NEW v \in Values
  PROVE  LiveOf(Put(m, k, [value |-> v, expiresAt |-> now + TTL, addedAt |-> now]))
           = Map!With(LiveOf(m), k, [value |-> v, until |-> now + TTL])
<1> DEFINE n == Put(m, k, [value |-> v, expiresAt |-> now + TTL, addedAt |-> now])
           L == {j \in DOMAIN m : ~Expired(m[j])}
           new(j) == [value |-> n[j].value, until |-> n[j].expiresAt]
           old(j) == IF j = k THEN [value |-> v, until |-> now + TTL] ELSE LiveOf(m)[j]
<1>1. DOMAIN n = DOMAIN m \cup {k}
  BY DEF Put
<1>2. /\ n[k] = [value |-> v, expiresAt |-> now + TTL, addedAt |-> now]
      /\ \A j \in DOMAIN m \ {k} : n[j] = m[j]
  BY DEF Put
<1> HIDE DEF n
<1>3. ~Expired(n[k])
  BY <1>2, CacheAssumption DEF Expired
<1>4. {j \in DOMAIN n : ~Expired(n[j])} = L \cup {k}
  BY <1>1, <1>2, <1>3
<1>5. DOMAIN LiveOf(m) = L /\ \A j \in L : LiveOf(m)[j] = [value |-> m[j].value, until |-> m[j].expiresAt]
  BY DEF LiveOf
<1>6. \A j \in L \cup {k} : new(j) = old(j)
  BY <1>2, <1>5
<1> HIDE DEF new, old
<1>7. [j \in L \cup {k} |-> new(j)] = [j \in L \cup {k} |-> old(j)]
  BY <1>6
<1>8. LiveOf(n) = [j \in L \cup {k} |-> new(j)]
  BY <1>4 DEF LiveOf, new
<1>9. Map!With(LiveOf(m), k, [value |-> v, until |-> now + TTL]) = [j \in L \cup {k} |-> old(j)]
  BY <1>5 DEF Map!With, old
<1> QED
  BY <1>7, <1>8, <1>9 DEF n

(***************************************************************************)
(* Taking an item out shows as taking its entry out, if it had one.        *)
(***************************************************************************)
LEMMA WithoutIsWithout ==
  ASSUME NEW k
  PROVE  LiveOf(Without(k)) = Map!Without(LiveItems, k)
<1> DEFINE L == {j \in DOMAIN items : ~Expired(items[j])}
<1>1. /\ DOMAIN Without(k) = DOMAIN items \ {k}
      /\ \A j \in DOMAIN items \ {k} : Without(k)[j] = items[j]
  BY DEF Without, Restrict
<1>2. {j \in DOMAIN Without(k) : ~Expired(Without(k)[j])} = L \ {k}
  BY <1>1
<1>3. LiveOf(Without(k)) = [j \in L \ {k} |-> [value |-> items[j].value, until |-> items[j].expiresAt]]
  BY <1>1, <1>2 DEF LiveOf
<1>4. /\ DOMAIN LiveItems = L
      /\ \A j \in L : LiveItems[j] = [value |-> items[j].value, until |-> items[j].expiresAt]
  BY DEF LiveItems, LiveOf
<1>5. Map!Without(LiveItems, k) = [j \in L \ {k} |-> LiveItems[j]]
  BY <1>4 DEF Map!Without, Map!Restrict
<1> QED
  BY <1>3, <1>4, <1>5

(***************************************************************************)
(* A Set is a Write of the abstract map.                                   *)
(***************************************************************************)
LEMMA SetIsWrite ==
  ASSUME IInv, NEW k \in Keys, NEW v \in Values, Set(k, v)
  PROVE  Map!Write(k, v)
<1> DEFINE item == [value |-> v, expiresAt |-> now + TTL, addedAt |-> now]
           entry == [value |-> v, until |-> now + TTL]
<1>1. now \in Nat /\ now' = now /\ reply' = reply
  BY DEF IInv, TypeOK, Set
<1>2. PICK m \in IF k \notin DOMAIN items /\ AtCapacity THEN EvictOldest ELSE {items} :
        items' = Put(m, k, item)
  BY DEF Set
<1>3. LiveItems' = Map!With(LiveOf(m), k, entry)
  <2>1. LiveItems' = LiveOf(items')
    BY <1>1 DEF LiveItems, LiveOf, Expired
  <2> QED
    BY <1>1, <1>2, <2>1, PutIsWith
<1>4. DOMAIN LiveItems = LiveKeys
  BY LiveFacts DEF IInv
<1>5. CASE m = items /\ (k \in LiveKeys \/ ~Map!Full)
  BY <1>1, <1>3, <1>4, <1>5 DEF Map!Write, LiveItems
<1>6. CASE k \in DOMAIN items
  <2>1. k \in LiveKeys \/ ~Map!Full
    BY <1>6, ExpiredLeavesRoom DEF LiveKeys
  <2> QED
    BY <1>2, <1>5, <1>6, <2>1
<1>7. CASE k \notin DOMAIN items /\ ~AtCapacity
  <2>1. Cardinality(DOMAIN items) \in Nat
    BY FS_CardinalityType DEF IInv, Bounded
  <2>2. ~Map!Full
    BY <1>7, <2>1, LiveFacts, MapCardinality, CacheAssumption
       DEF Map!Full, AtCapacity, IInv
  <2> QED
    BY <1>2, <1>5, <1>7, <2>2
<1>8. CASE k \notin DOMAIN items /\ AtCapacity
  <2>1. DOMAIN items # {}
    BY <1>8, FS_EmptySet, CacheAssumption DEF AtCapacity
  <2>2. PICK j \in Oldest : m = Without(j)
    BY <1>2, <1>8, <2>1, OldestExists, EvictOldestCases DEF IInv
  <2>3. j \in DOMAIN items
    BY DEF Oldest
  <2>4. LiveItems' = Map!With(Map!Without(LiveItems, j), k, entry)
    BY <1>3, <2>2, WithoutIsWithout
  <2>5. CASE Expired(items[j])
    <3>1. Map!Without(LiveItems, j) = LiveItems
      <4>1. j \notin LiveKeys
        BY <2>5 DEF LiveKeys
      <4> QED
        BY <1>4, <4>1 DEF Map!Without, Map!Restrict, LiveItems, LiveOf
    <3>2. ~Map!Full
      BY <2>3, <2>5, ExpiredLeavesRoom
    <3> QED
      BY <1>1, <2>4, <3>1, <3>2 DEF Map!Write
  <2>6. CASE ~Expired(items[j])
    <3>1. \A i \in DOMAIN items : /\ items[j].expiresAt <= items[i].expiresAt
                                  /\ items[i].expiresAt \in Nat
                                  /\ items[i].addedAt \in Nat
      BY <2>3, CacheAssumption DEF Oldest, IInv, AgeIsExpiry, TypeOK, CacheItem
    <3>2. LiveKeys = DOMAIN items
      BY <1>1, <2>3, <2>6, <3>1 DEF LiveKeys, Expired
    <3>3. Map!Full
      BY <1>4, <1>8, <3>2, MapCardinality DEF Map!Full, AtCapacity
    <3>4. \A i \in LiveKeys : LiveItems[i].until = items[i].expiresAt
      BY DEF LiveItems, LiveOf, LiveKeys
    <3>5. j \in Map!Displaced(k)
      BY <1>4, <2>3, <3>1, <3>2, <3>4 DEF Map!Displaced
    <3> QED
      BY <1>1, <1>4, <1>8, <2>4, <3>2, <3>3, <3>5 DEF Map!Write
  <2> QED
    BY <2>5, <2>6
<1> QED
  BY <1>6, <1>7, <1>8

(***************************************************************************)
(* What leaves the entries, the clock and the reply alone is not seen.     *)
(***************************************************************************)
LEMMA Unseen ==
  ASSUME items' = items, now' = now, reply' = reply
  PROVE  UNCHANGED Map!vars
BY DEF Map!vars, LiveItems, LiveOf, Expired

(***************************************************************************)
(* A Get is a Read, of any key.                                            *)
(***************************************************************************)
LEMMA GetIsRead ==
  ASSUME NEW k, Get(k)
  PROVE  Map!Read(k)
<1>1. LiveItems' = LiveItems
  BY DEF Get, LiveItems, LiveOf, Expired
<1>2. reply' = IF k \in DOMAIN LiveItems THEN LiveItems[k].value ELSE Miss
  BY DEF Get, LiveItems, LiveOf
<1> QED
  BY <1>1, <1>2 DEF Get, Map!Read

(***************************************************************************)
(* A cleanup takes nothing a Get could return.                             *)
(***************************************************************************)
LEMMA CleanupIsUnseen ==
  ASSUME Cleanup
  PROVE  UNCHANGED Map!vars
<1>1. /\ DOMAIN items' = LiveKeys
      /\ \A k \in LiveKeys : items'[k] = items[k]
      /\ now' = now /\ reply' = reply
  BY DEF Cleanup, Restrict, LiveKeys
<1>2. {k \in DOMAIN items' : ~Expired(items'[k])} = LiveKeys
  BY <1>1 DEF LiveKeys
<1>3. LiveOf(items') = LiveItems
  BY <1>1, <1>2 DEF LiveOf, LiveItems, LiveKeys
<1>4. LiveItems' = LiveOf(items')
  BY <1>1 DEF LiveItems, LiveOf, Expired
<1> QED
  BY <1>1, <1>3, <1>4 DEF Map!vars

(***************************************************************************)
(* Time takes out of the abstract map what has expired.                    *)
(***************************************************************************)
LEMMA AdvanceIsPass ==
  ASSUME IInv, Advance
  PROVE  Map!Pass
<1>1. now < MaxTime /\ now' = now + 1 /\ items' = items /\ reply' = reply
  BY DEF Advance
<1>2. now \in Nat /\ \A k \in DOMAIN items : items[k].expiresAt \in Nat
  BY DEF IInv, TypeOK, CacheItem
<1> DEFINE still == {k \in DOMAIN items : ~(now + 1 > items[k].expiresAt)}
<1>3. LiveItems' = [k \in still |-> [value |-> items[k].value, until |-> items[k].expiresAt]]
  BY <1>1 DEF LiveItems, LiveOf, Expired
<1>4. /\ DOMAIN LiveItems = LiveKeys
      /\ \A k \in LiveKeys : LiveItems[k] = [value |-> items[k].value, until |-> items[k].expiresAt]
  BY DEF LiveItems, LiveOf, LiveKeys
<1>5. still \subseteq LiveKeys
  BY <1>2 DEF LiveKeys, Expired
<1>6. {k \in LiveKeys : LiveItems[k].until >= now + 1} = still
  <2>1. \A k \in LiveKeys : LiveItems[k].until = items[k].expiresAt /\ k \in DOMAIN items
    BY <1>4 DEF LiveKeys
  <2>2. \A k \in LiveKeys : LiveItems[k].until >= now + 1 <=> k \in still
    BY <1>2, <2>1
  <2> QED
    BY <1>5, <2>2
<1>7. Map!Restrict(LiveItems, still) = LiveItems'
  BY <1>3, <1>4, <1>5 DEF Map!Restrict
<1> QED
  BY <1>1, <1>4, <1>6, <1>7 DEF Map!Pass

(***************************************************************************)
(* A new cache is a new map.                                               *)
(***************************************************************************)
LEMMA MapInit == Init => Map!Init
<1> SUFFICES ASSUME Init
             PROVE  Map!Init
  OBVIOUS
<1>1. DOMAIN items = {}
  BY DEF Init
<1>2. LiveItems = [k \in {} |-> Miss]
  BY <1>1 DEF LiveItems, LiveOf
<1> QED
  BY <1>2 DEF Init, Map!Init

(***************************************************************************)
(* IsExpiringMap: the cache implements the abstract map.  Each operation   *)
(* is the abstract one, Cleanup, Stop and the goroutine's other steps are  *)
(* stutters, and time takes out of the abstract map what has expired.      *)
(***************************************************************************)
THEOREM CacheImplementsMap == Spec => IsExpiringMap
<1>1. Init => Map!Init
  BY MapInit
<1>2. IInv /\ [Next]_vars => [Map!Next]_Map!vars
  <2> SUFFICES ASSUME IInv, [Next]_vars
               PROVE  Map!Next \/ UNCHANGED Map!vars
    OBVIOUS
  <2>1. CASE CallGet
    BY <2>1, GetIsRead DEF CallGet, Map!Next
  <2>2. CASE CallSet
    BY <2>2, SetIsWrite DEF CallSet, Map!Next
  <2>3. CASE CallDelete
    <3>1. PICK k \in Keys : Delete(k)
      BY <2>3 DEF CallDelete
    <3>2. LiveItems' = LiveOf(Without(k))
      BY <3>1 DEF Delete, LiveItems, LiveOf, Expired
    <3>3. Map!Remove(k)
      BY <3>1, <3>2, WithoutIsWithout DEF Delete, Map!Remove
    <3> QED
      BY <3>3 DEF Map!Next
  <2>4. CASE Stop \/ LoopTick \/ LoopExit
    BY <2>4, Unseen DEF Stop, LoopTick, LoopExit
  <2>5. CASE Cleanup
    BY <2>5, CleanupIsUnseen
  <2>6. CASE Advance
    BY <2>6, AdvanceIsPass DEF Map!Next
  <2>7. CASE UNCHANGED vars
    BY <2>7, Unseen DEF vars
  <2> QED
    BY <2>1, <2>2, <2>3, <2>4, <2>5, <2>6, <2>7 DEF Next
<1>3. Spec => []IInv
  BY TypeCorrect, AlwaysBounded, ExpiryFollowsAge, PTL DEF IInv
<1> QED
  BY <1>1, <1>2, <1>3, PTL DEF Spec, IsExpiringMap, Map!Spec
=============================================================================
