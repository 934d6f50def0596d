------------------------------ MODULE TTLCache ------------------------------
(***************************************************************************)
(* internal/api/explore_cache.go: the generic TTL cache that holds the     *)
(* analyses of the explore page.                                           *)
(*                                                                         *)
(* Get runs under the read lock and Set, Delete, Stop and cleanup under    *)
(* the write lock, each reading the clock inside its critical section, so  *)
(* each is one action.  The cleanup goroutine is not one action: its       *)
(* select and the cleanup it then calls are separate steps, and any        *)
(* operation, Stop included, may come between them.                        *)
(*                                                                         *)
(* Time is counted in whole units.  MaxTime is the one bound: the clock    *)
(* stops there, so that the state space is finite.                         *)
(***************************************************************************)
EXTENDS Integers, FiniteSets, Functions

CONSTANTS
  Keys,        \* the keys callers use
  Values,      \* the values they store
  TTL,         \* lifetime of an entry
  MaxEntries,  \* capacity, 0 when no limit is enforced
  Period,      \* interval of the cleanup ticker
  MaxTime,     \* bound: the last instant of the clock
  Miss         \* the (zero value, false) a Get returns

ASSUME CacheAssumption ==
  /\ TTL \in Nat
  /\ MaxEntries \in Nat
  /\ Period \in Nat \ {0}
  /\ MaxTime \in Nat
  /\ Miss \notin Values

VARIABLES
  now,      \* time.Now()
  items,    \* c.items: a function on the keys that have an entry
  stopped,  \* c.stopped, true exactly when stopCh is closed
  tick,     \* ticker.C holds a tick (its buffer is one; later ticks are dropped)
  loop,     \* the cleanup goroutine: at its select, before cleanup(), or gone
  reply     \* what the last Get returned: a value, or Miss

vars == <<now, items, stopped, tick, loop, reply>>

CacheItem == [value : Values, expiresAt : Nat, addedAt : Nat]

TypeOK ==
  /\ now \in 0..MaxTime
  /\ DOMAIN items \subseteq Keys
  /\ items \in [DOMAIN items -> CacheItem]
  /\ stopped \in BOOLEAN
  /\ tick \in BOOLEAN
  /\ loop \in {"select", "cleanup", "exited"}
  /\ reply \in Values \cup {Miss}

Init ==
  /\ now = 0
  /\ items = [k \in {} |-> Miss]
  /\ stopped = FALSE
  /\ tick = FALSE
  /\ loop = "select"
  /\ reply = Miss

-----------------------------------------------------------------------------
\* now.After(item.expiresAt): an entry is still good at its last instant.
Expired(item) == now > item.expiresAt

\* Mutant: the cache item itself is handed out.
MutGetReturnsItem(k) ==
  /\ reply' = IF k \in DOMAIN items /\ ~Expired(items[k]) THEN items[k] ELSE Miss
  /\ UNCHANGED <<now, items, stopped, tick, loop>>

Get(k) ==
  /\ reply' = IF k \in DOMAIN items /\ ~Expired(items[k])
                THEN items[k].value ELSE Miss
  /\ UNCHANGED <<now, items, stopped, tick, loop>>

Without(k) == Restrict(items, DOMAIN items \ {k})

\* Mutant: the comparison the wrong way round, the newest entry goes.
MutOldestIsNewest ==
  {k \in DOMAIN items : \A j \in DOMAIN items : items[k].addedAt >= items[j].addedAt}

\* evictOldest: the scan keeps the first entry it meets with the least
\* addedAt, and a map is scanned in any order.
Oldest ==
  {k \in DOMAIN items : \A j \in DOMAIN items : items[k].addedAt <= items[j].addedAt}

EvictOldest == IF Oldest = {} THEN {items} ELSE {Without(k) : k \in Oldest}

\* Mutant: an entry too many.
MutAtCapacityLate == MaxEntries > 0 /\ Cardinality(DOMAIN items) > MaxEntries

AtCapacity == MaxEntries > 0 /\ Cardinality(DOMAIN items) >= MaxEntries

Put(m, k, item) == [j \in DOMAIN m \cup {k} |-> IF j = k THEN item ELSE m[j]]

\* Set: an update of a key that is there, expired or not, evicts nothing.
Set(k, v) ==
  /\ \E m \in IF k \notin DOMAIN items /\ AtCapacity THEN EvictOldest ELSE {items} :
       items' = Put(m, k, [value |-> v, expiresAt |-> now + TTL, addedAt |-> now])
  /\ UNCHANGED <<now, stopped, tick, loop, reply>>

Delete(k) ==
  /\ items' = Without(k)
  /\ UNCHANGED <<now, stopped, tick, loop, reply>>

\* Stop closes stopCh once; a second call finds stopped set and does nothing.
Stop ==
  /\ stopped' = TRUE
  /\ UNCHANGED <<now, items, tick, loop, reply>>

-----------------------------------------------------------------------------
\* The cleanup goroutine.  When a tick waits and stopCh is closed the select
\* picks either.
LoopTick ==
  /\ loop = "select" /\ tick
  /\ tick' = FALSE
  /\ loop' = "cleanup"
  /\ UNCHANGED <<now, items, stopped, reply>>

\* Mutant: stopCh is looked at only when a tick arrives.
MutLoopExitOnTick ==
  /\ loop = "select" /\ tick /\ stopped
  /\ loop' = "exited"
  /\ UNCHANGED <<now, items, stopped, tick, reply>>

LoopExit ==
  /\ loop = "select" /\ stopped
  /\ loop' = "exited"
  /\ UNCHANGED <<now, items, stopped, tick, reply>>

\* Mutant: no loop around the select.
MutCleanupOnce ==
  /\ loop = "cleanup"
  /\ items' = Restrict(items, {k \in DOMAIN items : ~Expired(items[k])})
  /\ loop' = "exited"
  /\ UNCHANGED <<now, stopped, tick, reply>>

Cleanup ==
  /\ loop = "cleanup"
  /\ items' = Restrict(items, {k \in DOMAIN items : ~Expired(items[k])})
  /\ loop' = "select"
  /\ UNCHANGED <<now, stopped, tick, reply>>

\* Time passes.  The ticker fires at every multiple of Period and drops the
\* tick when the last one was not taken; a goroutine that left its loop has
\* stopped its ticker.
Advance ==
  /\ now < MaxTime
  /\ now' = now + 1
  /\ tick' = (tick \/ (loop # "exited" /\ (now + 1) % Period = 0))
  /\ UNCHANGED <<items, stopped, loop, reply>>

-----------------------------------------------------------------------------
CallGet == \E k \in Keys : Get(k)
CallSet == \E k \in Keys, v \in Values : Set(k, v)
CallDelete == \E k \in Keys : Delete(k)

Next ==
  \/ CallGet \/ CallSet \/ CallDelete \/ Stop
  \/ LoopTick \/ LoopExit \/ Cleanup
  \/ Advance

Spec == Init /\ [][Next]_vars

\* Time passes and the goroutine runs whenever it can; callers owe nothing.
\* The exit is strongly fair: select chooses at random among its ready cases,
\* so a closed stopCh is not passed over for ever in favour of ticks.
Fairness ==
  /\ WF_vars(Advance)
  /\ WF_vars(LoopTick)
  /\ WF_vars(Cleanup)
  /\ SF_vars(LoopExit)

FairSpec == Spec /\ Fairness

-----------------------------------------------------------------------------
\* A limit is never exceeded, whatever mixture of updates of present keys,
\* expired entries nobody has cleaned yet and concurrent cleanups there was
\* (Set's check of len(c.items) and evictOldest).
WithinCapacity == MaxEntries > 0 => Cardinality(DOMAIN items) <= MaxEntries

\* Every entry was stored in the past and expires one TTL after that, so the
\* order evictOldest scans by is the order of expiry.
AgeIsExpiry ==
  \A k \in DOMAIN items :
    /\ items[k].addedAt <= now
    /\ items[k].expiresAt = items[k].addedAt + TTL

\* The entries a Get can return, as the abstract map sees them.
LiveOf(m) ==
  [k \in {j \in DOMAIN m : ~Expired(m[j])} |->
     [value |-> m[k].value, until |-> m[k].expiresAt]]

LiveItems == LiveOf(items)

Map == INSTANCE ExpiringMap WITH live <- LiveItems

\* The cache is the abstract map: a Get returns the last value Set for its key
\* until one TTL after that Set and never later, an entry is lost early only
\* by Delete or to a new key when every slot holds a live entry, and cleanup,
\* Stop and expired entries that are still in c.items are invisible.
IsExpiringMap == Map!Spec

\* An entry that has expired one ticker period before the end of the clock
\* does not stay in memory, unless the cache was stopped (cleanupLoop).
ExpiredIsReclaimed ==
  \A k \in Keys :
    (k \in DOMAIN items /\ Expired(items[k]) /\ now + Period <= MaxTime)
      ~> (stopped \/ k \notin DOMAIN items \/ ~Expired(items[k]))

\* After Stop the cleanup goroutine ends, also when ticks keep coming.
StopEndsLoop == stopped ~> (loop = "exited")
=============================================================================
