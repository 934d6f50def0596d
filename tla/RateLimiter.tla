---------------------------- MODULE RateLimiter ----------------------------
(***************************************************************************)
(* The per-IP rate limiter of internal/api/middleware.go: a sync.Map from  *)
(* IPs to visitors, each a token bucket (golang.org/x/time/rate) with the  *)
(* time it was last seen, and a goroutine that drops idle visitors.        *)
(*                                                                         *)
(* The map's operations are atomic one by one and nothing holds them       *)
(* together, so getVisitor is a sequence of steps of a request's goroutine *)
(* and the cleanup of a visitor two steps of the cleaner's: the test of    *)
(* lastSeen and the Delete.  Visitors are objects: a request goes on using *)
(* the one it loaded after the map forgot it.                              *)
(*                                                                         *)
(* Time is counted in ticks of the cleaner.  MaxTime bounds the clock.     *)
(***************************************************************************)
EXTENDS Integers, FiniteSets, Functions

CONSTANTS
  Ips,        \* client addresses
  Procs,      \* goroutines of requests, each serving one request after another
  Burst,      \* tokens of a full bucket
  Refill,     \* tokens a bucket gains in a tick
  IdleLimit,  \* the 3 minutes of the cleaner, in ticks
  MaxDelay,   \* ticks that can begin while one request is inside the middleware
  MaxTime,    \* bound: the last instant of the clock
  NoVisitor

ASSUME LimiterAssumption ==
  /\ IsFiniteSet(Ips) /\ Ips # {} /\ IsFiniteSet(Procs)
  /\ Burst \in Nat \ {0} /\ Refill \in Nat
  /\ IdleLimit \in Nat /\ MaxDelay \in Nat /\ MaxTime \in Nat
  /\ NoVisitor \notin Nat

\* The cleaner drops no visitor before its bucket has had the time to be full
\* again and the excess of the last eviction to be made good, counted from the
\* end of the last request that can still have used it: MaxDelay after it was
\* last seen for those that had come, and as much for those that came before.
\* So it is with the defaults (60 a minute, a burst of 10, 3 minutes); nothing in
\* config.Load makes it so.
ASSUME IdleRefills ==
  Refill * (IdleLimit + 1 - 2 * MaxDelay) >= 2 * Burst + Cardinality(Procs) - 1

VARIABLES
  now,       \* the clock
  visitors,  \* rl.visitors: IP to object, or NoVisitor
  objects,   \* the visitorInfo objects that are referenced somewhere
  pc,        \* where each request is in Middleware and getVisitor
  ip,        \* the IP of the request a goroutine serves
  stamp,     \* getVisitor's now
  ref,       \* the visitor a request found or made
  cleaner,   \* the cleaner: at its select, ranging, about to delete, or gone
  tick,      \* its ticker holds a tick
  cutoff,    \* the cutoff of this Range
  todo,      \* the keys this Range has not come to
  doomed,    \* the key about to be deleted
  done,      \* rl.done is closed
  allowance  \* history: one bucket per IP that pays for every admission, and
             \* that nothing ever drops

request == <<pc, ip, stamp, ref>>
cleaning == <<cleaner, tick, cutoff, todo, doomed, done>>
vars == <<now, visitors, objects, request, cleaning, allowance>>

\* Names for objects: enough for every map entry and every request in flight.
Ids == 1..(Cardinality(Ips) + Cardinality(Procs))

Visitor == [ip : Ips, tokens : 0..Burst, lastSeen : 0..MaxTime]

TypeOK ==
  /\ now \in 0..MaxTime
  /\ visitors \in [Ips -> Ids \cup {NoVisitor}]
  /\ DOMAIN objects \subseteq Ids /\ objects \in [DOMAIN objects -> Visitor]
  /\ pc \in [Procs -> {"idle", "load", "create", "touch", "allow"}]
  /\ ip \in [Procs -> Ips] /\ stamp \in [Procs -> 0..MaxTime]
  /\ ref \in [Procs -> Ids \cup {NoVisitor}]
  /\ cleaner \in {"select", "range", "delete", "exited"}
  /\ tick \in BOOLEAN /\ done \in BOOLEAN
  /\ cutoff \in Int /\ todo \subseteq Ips /\ doomed \in Ips
  /\ allowance \in [Ips -> Int]

AnIp == CHOOSE i \in Ips : TRUE

Init ==
  /\ now = 0
  /\ visitors = [i \in Ips |-> NoVisitor]
  /\ objects = [o \in {} |-> NoVisitor]
  /\ pc = [p \in Procs |-> "idle"]
  /\ ip = [p \in Procs |-> AnIp] /\ stamp = [p \in Procs |-> 0]
  /\ ref = [p \in Procs |-> NoVisitor]
  /\ cleaner = "select" /\ tick = FALSE /\ done = FALSE
  /\ cutoff = 0 /\ todo = {} /\ doomed = AnIp
  /\ allowance = [i \in Ips |-> Burst]

-----------------------------------------------------------------------------
\* Objects nobody refers to any more are garbage.
Referenced(map, holders) == {map[i] : i \in Ips} \cup {holders[p] : p \in Procs}

Collected(heap, map, holders) == Restrict(heap, DOMAIN heap \cap Referenced(map, holders))

Goto(p, label) == pc' = [pc EXCEPT ![p] = label]

\* A request that is not exempt comes in: realIP, and getVisitor reads the clock.
Enter(p) ==
  /\ pc[p] = "idle"
  /\ \E i \in Ips : ip' = [ip EXCEPT ![p] = i]
  /\ stamp' = [stamp EXCEPT ![p] = now]
  /\ Goto(p, "load")
  /\ UNCHANGED <<now, visitors, objects, ref, cleaning, allowance>>

\* rl.visitors.Load(ip)
Load(p) ==
  /\ pc[p] = "load"
  /\ ref' = [ref EXCEPT ![p] = visitors[ip[p]]]
  /\ Goto(p, IF visitors[ip[p]] = NoVisitor THEN "create" ELSE "touch")
  /\ UNCHANGED <<now, visitors, objects, ip, stamp, cleaning, allowance>>

\* Mutant: a limiter made with no burst.
MutFreshEmpty(p) == [ip |-> ip[p], tokens |-> 0, lastSeen |-> stamp[p]]

Fresh(p) == [ip |-> ip[p], tokens |-> Burst, lastSeen |-> stamp[p]]

FreeId == CHOOSE o \in Ids \ DOMAIN objects : TRUE

\* Mutant: Store instead of LoadOrStore, so that a bucket in use is replaced.
MutCreateStores(p) ==
  /\ pc[p] = "create"
  /\ visitors' = [visitors EXCEPT ![ip[p]] = FreeId]
  /\ ref' = [ref EXCEPT ![p] = FreeId]
  /\ objects' = Collected([o \in DOMAIN objects \cup {FreeId} |->
                             IF o = FreeId THEN Fresh(p) ELSE objects[o]], visitors', ref')
  /\ Goto(p, "touch")
  /\ UNCHANGED <<now, ip, stamp, cleaning, allowance>>

\* A new visitor and LoadOrStore: the one that is there wins over the new one.
Create(p) ==
  /\ pc[p] = "create"
  /\ IF visitors[ip[p]] # NoVisitor
       THEN /\ ref' = [ref EXCEPT ![p] = visitors[ip[p]]]
            /\ UNCHANGED <<visitors, objects>>
       ELSE /\ visitors' = [visitors EXCEPT ![ip[p]] = FreeId]
            /\ ref' = [ref EXCEPT ![p] = FreeId]
            /\ objects' = [o \in DOMAIN objects \cup {FreeId} |->
                             IF o = FreeId THEN Fresh(p) ELSE objects[o]]
  /\ Goto(p, "touch")
  /\ UNCHANGED <<now, ip, stamp, cleaning, allowance>>

\* vi.lastSeen.Store(now), with the time read on entry.
Touch(p) ==
  /\ pc[p] = "touch"
  /\ objects' = [objects EXCEPT ![ref[p]].lastSeen = stamp[p]]
  /\ Goto(p, "allow")
  /\ UNCHANGED <<now, visitors, ip, stamp, ref, cleaning, allowance>>

\* Mutant: Reserve instead of Allow, which lends tokens it does not have.
MutAllowReserves(p) ==
  /\ pc[p] = "allow"
  /\ LET rest == [ref EXCEPT ![p] = NoVisitor]
     IN /\ objects' = Collected([objects EXCEPT ![ref[p]].tokens = @ - 1], visitors, rest)
        /\ allowance' = [allowance EXCEPT ![ip[p]] = @ - 1]
        /\ ref' = rest
  /\ Goto(p, "idle")
  /\ ip' = [ip EXCEPT ![p] = AnIp] /\ stamp' = [stamp EXCEPT ![p] = 0]
  /\ UNCHANGED <<now, visitors, cleaning>>

\* limiter.Allow(): a token is taken, or the request is answered 429.
Allow(p) ==
  /\ pc[p] = "allow"
  /\ LET charge == IF objects[ref[p]].tokens > 0 THEN 1 ELSE 0
         rest == [ref EXCEPT ![p] = NoVisitor]
     IN /\ objects' = Collected([objects EXCEPT ![ref[p]].tokens = @ - charge], visitors, rest)
        /\ allowance' = [allowance EXCEPT ![ip[p]] = @ - charge]
        /\ ref' = rest
  /\ Goto(p, "idle")
  /\ ip' = [ip EXCEPT ![p] = AnIp] /\ stamp' = [stamp EXCEPT ![p] = 0]
  /\ UNCHANGED <<now, visitors, cleaning>>

-----------------------------------------------------------------------------
\* The cleaner's select, its Range and the two steps of one visit.
StartRange ==
  /\ cleaner = "select" /\ tick
  /\ tick' = FALSE
  /\ cutoff' = now - IdleLimit
  /\ todo' = Ips
  /\ cleaner' = "range"
  /\ UNCHANGED <<now, visitors, objects, request, doomed, done, allowance>>

\* Mutant: the comparison the wrong way round.
MutStale(i) ==
  visitors[i] # NoVisitor /\ objects[visitors[i]].lastSeen > cutoff

Stale(i) ==
  visitors[i] # NoVisitor /\ objects[visitors[i]].lastSeen < cutoff

Visit(i) ==
  /\ cleaner = "range" /\ i \in todo
  /\ todo' = todo \ {i}
  /\ IF Stale(i) THEN cleaner' = "delete" /\ doomed' = i
                 ELSE UNCHANGED <<cleaner, doomed>>
  /\ UNCHANGED <<now, visitors, objects, request, tick, cutoff, done, allowance>>

\* rl.visitors.Delete(key): whatever the key has become meanwhile.
DeleteVisitor ==
  /\ cleaner = "delete"
  /\ visitors' = [visitors EXCEPT ![doomed] = NoVisitor]
  /\ objects' = Collected(objects, visitors', ref)
  /\ cleaner' = "range" /\ doomed' = AnIp
  /\ UNCHANGED <<now, request, tick, cutoff, todo, done, allowance>>

EndRange ==
  /\ cleaner = "range" /\ todo = {}
  /\ cleaner' = "select" /\ cutoff' = 0
  /\ UNCHANGED <<now, visitors, objects, request, tick, todo, doomed, done, allowance>>

\* Mutant: break in place of return, which leaves the select and not the loop.
MutExit == cleaner = "select" /\ done /\ UNCHANGED vars

Exit ==
  /\ cleaner = "select" /\ done
  /\ cleaner' = "exited"
  /\ UNCHANGED <<now, visitors, objects, request, tick, cutoff, todo, doomed, done, allowance>>

\* Stop closes done; the server calls it once.
Stop ==
  /\ ~done
  /\ done' = TRUE
  /\ UNCHANGED <<now, visitors, objects, request, cleaner, tick, cutoff, todo, doomed, allowance>>

-----------------------------------------------------------------------------
Least(a, b) == IF a <= b THEN a ELSE b

\* A tick: buckets refill and the cleaner's ticker fires.  A request is inside
\* the middleware for at most MaxDelay ticks.
Advance ==
  /\ now < MaxTime
  /\ \A p \in Procs : pc[p] # "idle" => now + 1 - stamp[p] <= MaxDelay
  /\ now' = now + 1
  /\ objects' = [o \in DOMAIN objects |->
                   [objects[o] EXCEPT !.tokens = Least(Burst, @ + Refill)]]
  /\ allowance' = [i \in Ips |-> Least(Burst, allowance[i] + Refill)]
  /\ tick' = (cleaner # "exited")
  /\ UNCHANGED <<visitors, request, cleaner, cutoff, todo, doomed, done>>

Request(p) == Load(p) \/ Create(p) \/ Touch(p) \/ Allow(p)
Cleaning == StartRange \/ (\E i \in Ips : Visit(i)) \/ DeleteVisitor \/ EndRange

Next ==
  \/ \E p \in Procs : Enter(p) \/ Request(p)
  \/ Cleaning \/ Exit \/ Stop \/ Advance

Spec == Init /\ [][Next]_vars

\* Requests in the middleware go on, time passes and the cleaner runs.  Its
\* select picks a closed done in the end, however many ticks come.
Fairness ==
  /\ \A p \in Procs : WF_vars(Request(p))
  /\ WF_vars(Cleaning) /\ SF_vars(Exit) /\ WF_vars(Advance)

FairSpec == Spec /\ Fairness

-----------------------------------------------------------------------------
\* No client is refused that keeps within its rate: a limiter in use never has
\* fewer tokens than a bucket that pays for all the admissions of its IP, so the
\* evictions and the races with them only ever favour the client.
NeverStricterThanRate ==
  \A o \in DOMAIN objects : allowance[objects[o].ip] <= objects[o].tokens

\* However the cleaner and the requests of an IP interleave, what an IP is
\* admitted beyond its rate is one more burst and a token for each other request
\* that still holds the dropped visitor: excesses do not add up over evictions.
ForgivenAtMostOnce ==
  \A i \in Ips : allowance[i] >= -(Burst + Cardinality(Procs) - 1)

\* "ensures only one limiter is created per IP" (getVisitor): requests of one
\* IP that are in the middleware together use the same limiter.
OneLimiterPerIp ==
  \A p, q \in Procs :
    pc[p] = "allow" /\ pc[q] = "allow" /\ ip[p] = ip[q] => ref[p] = ref[q]

\* A visitor that has been idle for longer than the limit is forgotten at the
\* next tick, unless it comes back, the limiter is stopped or the clock ends.
SeenEarly(i) ==
  visitors[i] # NoVisitor /\ objects[visitors[i]].lastSeen + IdleLimit < MaxTime

IdleIsForgotten == \A i \in Ips : SeenEarly(i) ~> (done \/ ~SeenEarly(i))

\* Stop ends the cleaner, whatever it is in the middle of.
StopEndsCleaner == done ~> (cleaner = "exited")
=============================================================================
