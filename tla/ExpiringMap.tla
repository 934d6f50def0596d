---------------------------- MODULE ExpiringMap ----------------------------
(***************************************************************************)
(* What internal/api/explore_cache.go promises its callers, with nothing   *)
(* of how it keeps the promise: a bounded map whose entries vanish the     *)
(* moment their lifetime is over.  There is no mutex, no cleanup goroutine *)
(* and no Stop here, and no expired entry: `live` holds exactly what a     *)
(* Get can still return.                                                   *)
(*                                                                         *)
(* The promise is stronger than the comments of the file say: writing a    *)
(* new key costs another entry only when the map is full of LIVE entries,  *)
(* and then the one entry lost is one that was written first.              *)
(***************************************************************************)
EXTENDS Integers, FiniteSets, Functions

CONSTANTS Keys, Values, TTL, MaxEntries, MaxTime, Miss

VARIABLES now,   \* the time every caller reads
          live,  \* the entries a Get can return, a function on some keys
          reply  \* what the last Get returned: a value or Miss

vars == <<now, live, reply>>

Entry == [value : Values, until : Nat]

Init ==
  /\ now = 0
  /\ live = [k \in {} |-> Miss]
  /\ reply = Miss

Without(m, k) == Restrict(m, DOMAIN m \ {k})

With(m, k, e) == [j \in DOMAIN m \cup {k} |-> IF j = k THEN e ELSE m[j]]

Full == MaxEntries > 0 /\ Cardinality(DOMAIN live) >= MaxEntries

\* An entry is lost for the new key, one of those with the least time left.
Displaced(k) ==
  {j \in DOMAIN live : \A i \in DOMAIN live : live[j].until <= live[i].until}

Write(k, v) ==
  /\ \/ /\ k \in DOMAIN live \/ ~Full
        /\ live' = With(live, k, [value |-> v, until |-> now + TTL])
     \/ /\ k \notin DOMAIN live /\ Full
        /\ \E j \in Displaced(k) :
             live' = With(Without(live, j), k, [value |-> v, until |-> now + TTL])
  /\ UNCHANGED <<now, reply>>

Read(k) ==
  /\ reply' = IF k \in DOMAIN live THEN live[k].value ELSE Miss
  /\ UNCHANGED <<now, live>>

Remove(k) ==
  /\ live' = Without(live, k)
  /\ UNCHANGED <<now, reply>>

\* Time passes, and with it every entry whose lifetime is over.
Pass ==
  /\ now < MaxTime
  /\ now' = now + 1
  /\ live' = Restrict(live, {k \in DOMAIN live : live[k].until >= now + 1})
  /\ UNCHANGED reply

Next ==
  \/ Pass
  \/ \E k \in Keys : Read(k) \/ Remove(k) \/ \E v \in Values : Write(k, v)

Spec == Init /\ [][Next]_vars
=============================================================================
