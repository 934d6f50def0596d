--------------------------- MODULE ExploreProofs ---------------------------
(***************************************************************************)
(* The safety of the explore handlers, for every number of uploads, every  *)
(* set of contents and every capacity and lifetime of the cache.           *)
(*                                                                         *)
(* The cache is content-addressed: what it holds under a hash is the       *)
(* analysis of the content with that hash (EntriesSound), so what is shown *)
(* under a hash is too (ShownSound) and answers made at different times    *)
(* agree.  That an entry lasts follows from when entries were written,     *)
(* which the cache evicts by (EntriesSound again) and a count.             *)
(***************************************************************************)
EXTENDS Explore, FiniteSetTheorems, TLAPS

\* Uploads that reach the cache have parsed.
StoreSound == \A p \in Procs : pc[p] = "store" => content[p] \notin Bad

EntriesSound ==
  /\ \A h \in DOMAIN live :
       /\ live[h].value \notin Bad
       /\ Hash[live[h].value] = h
       /\ live[h].until = written[h] + TTL
  /\ \A h \in Hashes : written[h] <= now

SoundAnswer(a) ==
  /\ a.status \in {200, 500} =>
       /\ a.of \in Contents \ Bad /\ a.hash = Hash[a.of]
       /\ a.item # Nothing => a.item \in ItemsOf[a.of] /\ a.view = DetailOf[a.item]
  /\ a.status = 404 =>
       /\ a.of \in Contents /\ a.hash = Hash[a.of]
       /\ a.view = DetailOf[a.item] => a.item \notin ItemsOf[a.of]

ShownSound ==
  \A x \in shown : \E c \in Contents : x[1] = Hash[c] /\ x[2] \in ItemsOf[c]

-----------------------------------------------------------------------------
\* What the cache's operations do to its entries.
LEMMA WriteEffect ==
  ASSUME TypeOK, NEW h \in Hashes, NEW c \in Contents, Cache!Write(h, c)
  PROVE  /\ now' = now /\ reply' = reply
         /\ h \in DOMAIN live' /\ DOMAIN live' \subseteq DOMAIN live \cup {h}
         /\ live'[h] = [value |-> c, until |-> now + TTL]
         /\ \A k \in DOMAIN live' : k # h => live'[k] = live[k]
         /\ live' \in [DOMAIN live' -> [value : Contents, until : Nat]]
<1> USE DEF TypeOK, CacheOK, UploadsOK, Cache!Write, Cache!With, Cache!Without, Cache!Displaced, Cache!Restrict
<1>0. TTL \in Nat /\ MaxTime \in Nat
  BY ExploreAssumption
<1>1. [value |-> c, until |-> now + TTL] \in [value : Contents, until : Nat]
  BY <1>0
<1>2. CASE live' = Cache!With(live, h, [value |-> c, until |-> now + TTL])
  BY <1>1, <1>2
<1>3. CASE \E j \in Cache!Displaced(h) :
             live' = Cache!With(Cache!Without(live, j), h, [value |-> c, until |-> now + TTL])
  BY <1>1, <1>3
<1> QED
  BY <1>2, <1>3

\* A read answers with an entry of the cache or with nothing.
LEMMA ReadEffect ==
  ASSUME TypeOK, NEW h \in Hashes, Cache!Read(h)
  PROVE  /\ now' = now /\ live' = live
         /\ reply' = Nothing \/ (h \in DOMAIN live /\ reply' = live[h].value)
         /\ reply' \in Contents \cup {Nothing}
BY DEF TypeOK, CacheOK, UploadsOK, Cache!Read

LEMMA PassEffect ==
  ASSUME TypeOK, Cache!Pass
  PROVE  /\ now' = now + 1 /\ now' \in 0..MaxTime /\ reply' = reply
         /\ DOMAIN live' \subseteq DOMAIN live
         /\ \A h \in DOMAIN live' : live'[h] = live[h]
         /\ \A h \in DOMAIN live : live[h].until >= now + 1 => h \in DOMAIN live'
         /\ live' \in [DOMAIN live' -> [value : Contents, until : Nat]]
<1> USE DEF TypeOK, CacheOK, UploadsOK, Cache!Pass, Cache!Restrict
<1>0. MaxTime \in Nat
  BY ExploreAssumption
<1> QED
  BY <1>0

-----------------------------------------------------------------------------
\* Every answer the handlers make has the type of one.
LEMMA AnswerTypes ==
  /\ NoAnswer \in Answer
  /\ [NoAnswer EXCEPT !.status = 503] \in Answer
  /\ \A h \in Hashes, c \in Contents :
       Analysed(h, c) \in Answer
  /\ \A v \in Views, h \in Hashes \cup {Nothing}, i \in Items \cup {Nothing}, c \in Contents \cup {Nothing} :
       ViewOf(v, h, i, c) \in Answer
<1>1. NoAnswer \in Answer /\ [NoAnswer EXCEPT !.status = 503] \in Answer
  BY DEF NoAnswer, Answer
<1>2. ASSUME NEW h \in Hashes, NEW c \in Contents PROVE Analysed(h, c) \in Answer
  BY DEF Analysed, NoAnswer, Answer
<1>3. ASSUME NEW v \in Views, NEW h \in Hashes \cup {Nothing}, NEW i \in Items \cup {Nothing},
             NEW c \in Contents \cup {Nothing}
      PROVE  ViewOf(v, h, i, c) \in Answer
  <2>1. StatusOf(v, h, i, c) \in {200, 400, 404, 410, 500, 503}
    BY DEF StatusOf
  <2> QED
    BY <2>1 DEF ViewOf, Answer
<1> QED
  BY <1>1, <1>2, <1>3

LEMMA AnalysedFields ==
  \A h, c : LET a == Analysed(h, c)
           IN  /\ DOMAIN a = DOMAIN NoAnswer
               /\ a.status = 200 /\ a.hash = h /\ a.item = Nothing /\ a.of = c
BY DEF Analysed, NoAnswer

LEMMA ResponseTypes ==
  ASSUME TypeOK, NEW a \in Answer, Respond(a), a.status = 200 => a.hash \in Hashes /\ a.of \in Contents
  PROVE  answer' \in Answer /\ shown' \subseteq Hashes \X Items
BY ExploreAssumption DEF TypeOK, CacheOK, UploadsOK, Respond, Answer

LEMMA RenderedTypes ==
  ASSUME TypeOK, NEW a \in Answer, RenderHTML(a),
         a.status = 200 => a.hash \in Hashes /\ a.of \in Contents
  PROVE  answer' \in Answer /\ shown' \subseteq Hashes \X Items
<1>1. CASE Respond(a)
  BY <1>1, ResponseTypes
<1>2. CASE Respond([a EXCEPT !.status = 500])
  <2> DEFINE b == [a EXCEPT !.status = 500]
  <2>1. b \in Answer /\ b.status # 200
    BY DEF Answer
  <2> HIDE DEF b
  <2> QED
    BY <1>2, <2>1, ResponseTypes DEF b
<1> QED
  BY <1>1, <1>2 DEF RenderHTML

LEMMA GotoTypes ==
  ASSUME TypeOK, NEW p \in Procs, pc[p] # "idle",
         NEW label \in {"idle", "lookup", "parse", "store"}, Goto(p, label)
  PROVE  UploadsOK'
<1> USE DEF TypeOK, UploadsOK, Goto
<1>1. CASE label = "idle"
  BY <1>1
<1>2. CASE label # "idle"
  BY <1>2
<1> QED
  BY <1>1, <1>2

LEMMA FinishTypes ==
  ASSUME TypeOK, NEW p \in Procs, pc[p] # "idle", NEW a \in Answer,
         a.status = 200 => a.hash \in Hashes /\ a.of \in Contents, Finish(p, a)
  PROVE  UploadsOK' /\ answer' \in Answer /\ shown' \subseteq Hashes \X Items
<1>1. UploadsOK'
  BY GotoTypes DEF Finish
<1>2. CASE cut[p]
  BY <1>1, <1>2 DEF Finish, TypeOK, UploadsOK
<1>3. CASE ~cut[p]
  BY <1>1, <1>3, RenderedTypes DEF Finish
<1> QED
  BY <1>2, <1>3

LEMMA TypeInit == Init => TypeOK
<1> SUFFICES ASSUME Init PROVE TypeOK
  OBVIOUS
<1>1. CacheOK
  BY ExploreAssumption DEF Init, Cache!Init, CacheOK
<1>2. UploadsOK
  BY ExploreAssumption DEF Init, UploadsOK
<1> QED
  BY <1>1, <1>2, AnswerTypes DEF Init, TypeOK
LEMMA TypeStep == TypeOK /\ [Next]_vars => TypeOK'
<1> SUFFICES ASSUME TypeOK, [Next]_vars PROVE TypeOK'
  OBVIOUS
<1> USE ExploreAssumption
<1>0. CacheOK /\ UploadsOK /\ answer \in Answer /\ shown \subseteq Hashes \X Items
  BY DEF TypeOK
<1>1. ASSUME NEW p \in Procs, Upload(p) PROVE TypeOK'
  <2>1. CacheOK'
    BY <1>0, <1>1 DEF Upload, cache, CacheOK
  <2>2. CASE UNCHANGED <<pc, content, cut>> /\ Respond(NoAnswer)
    BY <1>0, <2>1, <2>2, AnswerTypes, ResponseTypes DEF UploadsOK, NoAnswer, TypeOK
  <2>3. ASSUME NEW c \in Contents, content' = [content EXCEPT ![p] = c],
               pc' = [pc EXCEPT ![p] = "lookup"], UNCHANGED <<cut, answer, shown>>
        PROVE  TypeOK'
    <3>1. UploadsOK'
      BY <1>0, <2>3 DEF UploadsOK
    <3> QED
      BY <1>0, <2>1, <2>3, <3>1 DEF TypeOK
  <2> QED
    BY <1>1, <2>2, <2>3 DEF Upload
<1>2. ASSUME NEW p \in Procs, Lookup(p) PROVE TypeOK'
  <2>1. Key(content[p]) \in Hashes /\ pc[p] # "idle"
    BY <1>0, <1>2 DEF Lookup, Key, UploadsOK
  <2>2. CacheOK'
    BY <1>0, <1>2, <2>1, ReadEffect DEF Lookup, CacheOK
  <2>3. CASE reply' = Nothing
    BY <1>0, <1>2, <2>1, <2>2, <2>3, GotoTypes DEF Lookup, TypeOK
  <2>4. CASE reply' # Nothing
    <3>1. reply' \in Contents
      BY <2>2, <2>4 DEF CacheOK
    <3> DEFINE a == Analysed(Key(content[p]), reply')
    <3>2. a \in Answer /\ a.hash \in Hashes /\ a.of \in Contents
      BY <2>1, <3>1, AnswerTypes, AnalysedFields
    <3>3. Finish(p, a)
      BY <1>2, <2>4 DEF Lookup
    <3> HIDE DEF a
    <3> QED
      BY <2>1, <2>2, <3>2, <3>3, FinishTypes DEF TypeOK
  <2> QED
    BY <2>3, <2>4
<1>3. ASSUME NEW p \in Procs, Parse(p) PROVE TypeOK'
  <2>1. CacheOK'
    BY <1>0, <1>3 DEF Parse, cache, CacheOK
  <2>2. CASE content[p] \in Bad
    BY <1>3, <2>1, <2>2, AnswerTypes, FinishTypes DEF Parse, NoAnswer, TypeOK
  <2>3. CASE content[p] \notin Bad
    BY <1>0, <1>3, <2>1, <2>3, GotoTypes DEF Parse, TypeOK
  <2> QED
    BY <2>2, <2>3
<1>4. ASSUME NEW p \in Procs, Store(p) PROVE TypeOK'
  <2>1. content[p] \in Contents /\ Key(content[p]) \in Hashes /\ pc[p] # "idle"
    BY <1>0, <1>4 DEF Store, Key, UploadsOK
  <2>2. CacheOK'
    <3>1. written' \in [Hashes -> -1..MaxTime]
      BY <1>0, <1>4, <2>1 DEF Store, CacheOK
    <3>2. /\ now' = now /\ reply' = reply
          /\ DOMAIN live' \subseteq Hashes
          /\ live' \in [DOMAIN live' -> [value : Contents, until : Nat]]
      BY <1>0, <1>4, <2>1, WriteEffect DEF Store, CacheOK
    <3> QED
      BY <1>0, <3>1, <3>2 DEF CacheOK
  <2> DEFINE a == Analysed(Key(content[p]), content[p])
  <2>3. a \in Answer /\ a.hash \in Hashes /\ a.of \in Contents /\ Finish(p, a)
    BY <1>4, <2>1, AnswerTypes, AnalysedFields DEF Store
  <2> HIDE DEF a
  <2> QED
    BY <2>1, <2>2, <2>3, FinishTypes DEF TypeOK
<1>5. ASSUME NEW p \in Procs, Deadline(p) PROVE TypeOK'
  <2>1. CacheOK' /\ UploadsOK'
    BY <1>0, <1>5 DEF Deadline, cache, CacheOK, UploadsOK
  <2> DEFINE a == [NoAnswer EXCEPT !.status = 503]
  <2>2. a \in Answer /\ a.status # 200
    BY AnswerTypes DEF NoAnswer
  <2>3. Respond(a)
    BY <1>5 DEF Deadline
  <2> HIDE DEF a
  <2> QED
    BY <2>1, <2>2, <2>3, ResponseTypes DEF TypeOK
<1>6. ASSUME NEW v \in Views, NEW h \in Hashes \cup {Nothing}, NEW i \in Asked(v),
             View(v, h, i)
      PROVE  TypeOK'
  <2>1. CacheOK' /\ UploadsOK'
    BY <1>0, <1>6, ReadEffect DEF View, AsksCache, cache, CacheOK, UploadsOK
  <2>0. i \in Items \cup {Nothing}
    BY DEF Asked
  <2> DEFINE of == IF AsksCache(v, h, i) THEN reply' ELSE Nothing
  <2>2. of \in Contents \cup {Nothing}
    BY <2>1 DEF CacheOK
  <2>3. RenderHTML(ViewOf(v, h, i, of))
    BY <1>6 DEF View
  <2>4. ViewOf(v, h, i, of).status = 200 => ViewOf(v, h, i, of).hash \in Hashes /\ ViewOf(v, h, i, of).of \in Contents
    BY <2>2 DEF ViewOf, StatusOf, AsksCache
  <2> HIDE DEF of
  <2> QED
    BY <2>0, <2>1, <2>2, <2>3, <2>4, AnswerTypes, RenderedTypes DEF TypeOK
<1>7. CASE Restart
  <2>1. CacheOK'
    BY <1>0, <1>7 DEF Restart, CacheOK
  <2>2. UploadsOK'
    BY <1>7 DEF Restart, UploadsOK
  <2> QED
    BY <1>0, <1>7, <2>1, <2>2 DEF Restart, TypeOK
<1>8. CASE Pass
  <2>1. CacheOK' /\ UploadsOK'
    BY <1>0, <1>8, PassEffect DEF Pass, CacheOK, UploadsOK
  <2> QED
    BY <1>0, <1>8, <2>1 DEF Pass, TypeOK
<1>9. CASE UNCHANGED vars
  BY <1>9 DEF vars, cache, TypeOK, CacheOK, UploadsOK
<1> QED
  BY <1>1, <1>2, <1>3, <1>4, <1>5, <1>6, <1>7, <1>8, <1>9 DEF Next

\* Every variable keeps its type, whatever uploads, views and restarts there are.
THEOREM TypeCorrect == Spec => []TypeOK
BY TypeInit, TypeStep, PTL DEF Spec
-----------------------------------------------------------------------------
\* Content addressing.
CacheSound == StoreSound /\ EntriesSound

LEMMA CacheSoundInit == Init => CacheSound
BY ExploreAssumption DEF Init, Cache!Init, CacheSound, StoreSound, EntriesSound

\* Nothing but a Store changes what is under a hash, and an upload comes to it
\* through Parse.
LEMMA CacheSoundStep == TypeOK /\ CacheSound /\ [Next]_vars => CacheSound'
<1> SUFFICES ASSUME TypeOK, CacheSound, [Next]_vars PROVE CacheSound'
  OBVIOUS
<1> USE ExploreAssumption DEF CacheSound
<1>0. CacheOK /\ UploadsOK
  BY DEF TypeOK
<1>1. ASSUME NEW p \in Procs, Upload(p) PROVE CacheSound'
  BY <1>0, <1>1 DEF Upload, StoreSound, EntriesSound, cache, UploadsOK
<1>2. ASSUME NEW p \in Procs, Lookup(p) PROVE CacheSound'
  <2>1. now' = now /\ live' = live /\ written' = written
    BY <1>2 DEF Lookup, Cache!Read
  <2>2. StoreSound'
    BY <1>0, <1>2 DEF Lookup, Finish, Goto, StoreSound, UploadsOK
  <2> QED
    BY <2>1, <2>2 DEF EntriesSound
<1>3. ASSUME NEW p \in Procs, Parse(p) PROVE CacheSound'
  BY <1>0, <1>3 DEF Parse, Finish, Goto, StoreSound, EntriesSound, cache, UploadsOK
<1>4. ASSUME NEW p \in Procs, Store(p) PROVE CacheSound'
  <2>1. StoreSound'
    BY <1>0, <1>4 DEF Store, Finish, Goto, StoreSound, UploadsOK
  <2>2. content[p] \in Contents \ Bad /\ Hash[content[p]] \in Hashes
    BY <1>0, <1>4 DEF Store, StoreSound, UploadsOK
  <2> DEFINE h == Hash[content[p]]
  <2>3. Cache!Write(h, content[p]) /\ written' = [written EXCEPT ![h] = now]
    BY <1>4 DEF Store, Key
  <2> HIDE DEF h
  <2>4. /\ now' = now /\ DOMAIN live' \subseteq DOMAIN live \cup {h}
        /\ live'[h] = [value |-> content[p], until |-> now + TTL]
        /\ \A k \in DOMAIN live' : k # h => live'[k] = live[k]
    BY <2>2, <2>3, WriteEffect DEF h
  <2>5. /\ written'[h] = now /\ h \in Hashes
        /\ \A k \in Hashes : k # h => written'[k] = written[k]
    BY <1>0, <2>2, <2>3 DEF CacheOK, h
  <2>6. EntriesSound'
    <3>1. ASSUME NEW k \in DOMAIN live'
          PROVE  /\ live'[k].value \notin Bad /\ Hash[live'[k].value] = k
                 /\ live'[k].until = written'[k] + TTL
      <4>1. CASE k = h
        BY <2>2, <2>4, <2>5, <4>1 DEF h
      <4>2. CASE k # h
        BY <1>0, <2>4, <2>5, <4>2 DEF EntriesSound, CacheOK
      <4> QED
        BY <4>1, <4>2
    <3>2. \A k \in Hashes : written'[k] <= now'
      BY <1>0, <2>4, <2>5 DEF EntriesSound, CacheOK
    <3> QED
      BY <3>1, <3>2 DEF EntriesSound
  <2> QED
    BY <2>1, <2>6
<1>5. ASSUME NEW p \in Procs, Deadline(p) PROVE CacheSound'
  BY <1>5 DEF Deadline, StoreSound, EntriesSound, cache
<1>6. ASSUME NEW v \in Views, NEW h \in Hashes \cup {Nothing}, NEW i \in Asked(v),
             View(v, h, i)
      PROVE  CacheSound'
  BY <1>6 DEF View, Cache!Read, StoreSound, EntriesSound, cache
<1>7. CASE Restart
  BY <1>0, <1>7 DEF Restart, StoreSound, EntriesSound, CacheOK
<1>8. CASE Pass
  <2>1. now' = now + 1 /\ DOMAIN live' \subseteq DOMAIN live /\ \A h \in DOMAIN live' : live'[h] = live[h]
    BY <1>8, PassEffect DEF Pass
  <2> QED
    BY <1>0, <1>8, <2>1 DEF Pass, StoreSound, EntriesSound, CacheOK
<1>9. CASE UNCHANGED vars
  BY <1>9 DEF vars, cache, StoreSound, EntriesSound
<1> QED
  BY <1>1, <1>2, <1>3, <1>4, <1>5, <1>6, <1>7, <1>8, <1>9 DEF Next
\* What clients are told follows from what the cache holds.
AnswersSound == SoundAnswer(answer) /\ ShownSound

LEMMA PlainAnswers == SoundAnswer(NoAnswer) /\ SoundAnswer([NoAnswer EXCEPT !.status = 503])
BY DEF SoundAnswer, NoAnswer

LEMMA ResponseSound ==
  ASSUME AnswersSound, NEW a, SoundAnswer(a), Respond(a)
  PROVE  AnswersSound'
<1>1. SoundAnswer(answer')
  BY DEF Respond
<1>2. ASSUME NEW x \in shown'
      PROVE  \E c \in Contents : x[1] = Hash[c] /\ x[2] \in ItemsOf[c]
  <2>1. CASE x \in shown
    BY <2>1 DEF AnswersSound, ShownSound
  <2>2. CASE x \notin shown
    BY <1>2, <2>2 DEF Respond, SoundAnswer
  <2> QED
    BY <2>1, <2>2
<1> QED
  BY <1>1, <1>2 DEF AnswersSound, ShownSound, SoundAnswer

\* A page that could not be rendered was one of the right analysis.
LEMMA RenderedSound ==
  ASSUME AnswersSound, NEW a, DOMAIN a = DOMAIN NoAnswer, SoundAnswer(a), RenderHTML(a)
  PROVE  AnswersSound'
<1>1. CASE Respond(a)
  BY <1>1, ResponseSound
<1>2. CASE a.status = 200 /\ Respond([a EXCEPT !.status = 500])
  <2> DEFINE b == [a EXCEPT !.status = 500]
  <2>1. b.status = 500 /\ b.of = a.of /\ b.hash = a.hash /\ b.item = a.item /\ b.view = a.view
    BY DEF NoAnswer
  <2> HIDE DEF b
  <2>2. SoundAnswer(b)
    BY <1>2, <2>1 DEF SoundAnswer
  <2> QED
    BY <1>2, <2>2, ResponseSound DEF b
<1> QED
  BY <1>1, <1>2 DEF RenderHTML

LEMMA FinishSound ==
  ASSUME AnswersSound, NEW p, NEW a, DOMAIN a = DOMAIN NoAnswer, SoundAnswer(a), Finish(p, a)
  PROVE  AnswersSound'
<1>1. CASE cut[p]
  BY <1>1 DEF Finish, AnswersSound, SoundAnswer, ShownSound
<1>2. CASE ~cut[p]
  BY <1>2, RenderedSound DEF Finish
<1> QED
  BY <1>1, <1>2

LEMMA AnswersSoundInit == Init => AnswersSound
BY PlainAnswers DEF Init, AnswersSound, ShownSound

LEMMA AnswersSoundStep == TypeOK /\ CacheSound /\ AnswersSound /\ [Next]_vars => AnswersSound'
<1> SUFFICES ASSUME TypeOK, CacheSound, AnswersSound, [Next]_vars PROVE AnswersSound'
  OBVIOUS
<1> USE ExploreAssumption
<1>0. CacheOK /\ UploadsOK /\ StoreSound /\ EntriesSound
  BY DEF TypeOK, CacheSound
<1>same. ASSUME UNCHANGED <<answer, shown>> PROVE AnswersSound'
  BY <1>same DEF AnswersSound, SoundAnswer, ShownSound
<1>1. ASSUME NEW p \in Procs, Upload(p) PROVE AnswersSound'
  BY <1>1, <1>same, PlainAnswers, ResponseSound DEF Upload
<1>2. ASSUME NEW p \in Procs, Lookup(p) PROVE AnswersSound'
  <2>1. CASE reply' = Nothing
    BY <1>2, <2>1, <1>same DEF Lookup
  <2>2. CASE reply' # Nothing
    <3> DEFINE h == Hash[content[p]]
               a == Analysed(h, reply')
    <3>1. h \in Hashes /\ Cache!Read(h)
      BY <1>0, <1>2 DEF Lookup, Key, UploadsOK
    <3>2. h \in DOMAIN live /\ reply' = live[h].value /\ reply' \in Contents
      BY <2>2, <3>1, ReadEffect
    <3>3. SoundAnswer(a) /\ DOMAIN a = DOMAIN NoAnswer
      BY <1>0, <3>2, AnalysedFields DEF EntriesSound, SoundAnswer
    <3>4. Finish(p, a)
      BY <1>2, <2>2 DEF Lookup, Key
    <3> HIDE DEF a
    <3> QED
      BY <3>3, <3>4, FinishSound
  <2> QED
    BY <2>1, <2>2
<1>3. ASSUME NEW p \in Procs, Parse(p) PROVE AnswersSound'
  BY <1>3, <1>same, PlainAnswers, FinishSound DEF Parse
<1>4. ASSUME NEW p \in Procs, Store(p) PROVE AnswersSound'
  <2> DEFINE a == Analysed(Key(content[p]), content[p])
  <2>1. SoundAnswer(a) /\ DOMAIN a = DOMAIN NoAnswer
    BY <1>0, <1>4, AnalysedFields DEF Store, Key, StoreSound, SoundAnswer, UploadsOK
  <2>2. Finish(p, a)
    BY <1>4 DEF Store
  <2> HIDE DEF a
  <2> QED
    BY <2>1, <2>2, FinishSound
<1>5. ASSUME NEW p \in Procs, Deadline(p) PROVE AnswersSound'
  BY <1>5, PlainAnswers, ResponseSound DEF Deadline
<1>6. ASSUME NEW v \in Views, NEW h \in Hashes \cup {Nothing}, NEW i \in Asked(v),
             View(v, h, i)
      PROVE  AnswersSound'
  <2> DEFINE of == IF AsksCache(v, h, i) THEN reply' ELSE Nothing
  <2>1. of # Nothing => h # Nothing /\ of \in Contents \ Bad /\ Hash[of] = h
    <3>1. CASE ~AsksCache(v, h, i)
      BY <3>1
    <3>2. CASE AsksCache(v, h, i)
      <4>1. h \in Hashes /\ h # Nothing /\ Cache!Read(h)
        BY <1>6, <3>2 DEF View, AsksCache
      <4>2. reply' = Nothing \/ (h \in DOMAIN live /\ reply' = live[h].value)
        BY <4>1, ReadEffect
      <4> QED
        BY <1>0, <3>2, <4>1, <4>2 DEF EntriesSound, CacheOK
    <3> QED
      BY <3>1, <3>2
  <2>2. RenderHTML(ViewOf(v, h, i, of))
    BY <1>6 DEF View
  <2> HIDE DEF of
  <2>3. SoundAnswer(ViewOf(v, h, i, of))
    <3>1. StatusOf(v, h, i, of) = 200 =>
            of # Nothing /\ (i # Nothing => v \in API!Details /\ Finds(v, i, of))
      BY DEF StatusOf, AsksCache, Asked
    <3>2. /\ StatusOf(v, h, i, of) = 404 => of # Nothing /\ ~Finds(v, i, of)
          /\ StatusOf(v, h, i, of) # 500
      BY DEF StatusOf, AsksCache
    <3> QED
      BY <2>1, <3>1, <3>2 DEF SoundAnswer, ViewOf, Finds
  <2>4. DOMAIN ViewOf(v, h, i, of) = DOMAIN NoAnswer
    BY DEF ViewOf, NoAnswer
  <2> QED
    BY <2>2, <2>3, <2>4, RenderedSound
<1>7. CASE Restart
  BY <1>7, <1>same DEF Restart
<1>8. CASE Pass
  BY <1>8, <1>same DEF Pass
<1>9. CASE UNCHANGED vars
  BY <1>9, <1>same DEF vars
<1> QED
  BY <1>1, <1>2, <1>3, <1>4, <1>5, <1>6, <1>7, <1>8, <1>9 DEF Next

LEMMA Sound == Spec => [](TypeOK /\ CacheSound /\ AnswersSound)
<1>1. Init => TypeOK /\ CacheSound /\ AnswersSound
  BY TypeInit, CacheSoundInit, AnswersSoundInit
<1>2. TypeOK /\ CacheSound /\ AnswersSound /\ [Next]_vars => (TypeOK /\ CacheSound /\ AnswersSound)'
  BY TypeStep, CacheSoundStep, AnswersSoundStep
<1> QED
  BY <1>1, <1>2, PTL DEF Spec

\* A client that gets an analysis gets the right one, of a content that parsed:
\* hits, misses, cut-off uploads and evictions make no difference.
THEOREM AnswersAreRight == Spec => []AnswersMatch
<1>1. TypeOK /\ CacheSound /\ AnswersSound => AnswersMatch
  BY DEF AnswersSound, SoundAnswer, AnswersMatch
<1> QED
  BY <1>1, Sound, PTL

\* No view says "not found" of an item another view listed under the same hash.
THEOREM ViewsAreConsistent == Spec => []ViewsAgree
<1>1. AnswersSound => ViewsAgree
  BY HashSeparates DEF AnswersSound, SoundAnswer, ShownSound, ViewsAgree
<1>2. TypeOK /\ CacheSound /\ AnswersSound => ViewsAgree
  BY <1>1
<1> QED
  BY <1>2, Sound, PTL
-----------------------------------------------------------------------------
\* Of the views only the details look for an item, and they declare every status.
LEMMA DeclaredView ==
  ASSUME NEW v \in Views, NEW h, NEW i, NEW of
  PROVE  \/ StatusOf(v, h, i, of) \in v.answers
         \/ v \in API!Tabs /\ StatusOf(v, h, i, of) \in {400, 410}
<1>1. /\ StatusOf(v, h, i, of) \in {200, 400, 404, 410}
      /\ StatusOf(v, h, i, of) = 404 => v \in API!Details
  BY DEF StatusOf
<1>2. v \in API!Tabs => {200, 404} \subseteq v.answers
  BY DEF API!Tabs, API!Route, API!ExploreOperations, API!ExploreSchemas, API!ExploreSecurity
<1>3. v \in API!Lists => {200, 400, 410} \subseteq v.answers
  BY DEF API!Lists, API!Route, API!ExploreInlineSchemas, API!ExploreUnsecured, API!ExploreSummaryDetails
<1>4. v \in API!Details => {200, 400, 404, 410} \subseteq v.answers
  BY DEF API!Details, API!Route, API!ExploreOperationDetail, API!ExploreSchemaDetail,
         API!ExploreSecurityDetail
<1> QED
  BY <1>1, <1>2, <1>3, <1>4, ExploreAssumption

LEMMA DeclaredStep == ViewsAreDeclared /\ [Next]_vars => ViewsAreDeclared'
<1> SUFFICES ASSUME ViewsAreDeclared, [Next]_vars PROVE ViewsAreDeclared'
  OBVIOUS
<1>same. ASSUME answer' = answer PROVE ViewsAreDeclared'
  BY <1>same DEF ViewsAreDeclared
<1>plain. ASSUME NEW a, a.view = Nothing, Respond(a) PROVE ViewsAreDeclared'
  BY <1>plain DEF Respond, ViewsAreDeclared
<1>page. ASSUME NEW a, DOMAIN a = DOMAIN NoAnswer, a.view = Nothing, RenderHTML(a)
         PROVE  ViewsAreDeclared'
  <2>1. [a EXCEPT !.status = 500].view = Nothing
    BY <1>page DEF NoAnswer
  <2> QED
    BY <1>page, <1>plain, <2>1 DEF RenderHTML
<1>0. /\ NoAnswer.view = Nothing /\ [NoAnswer EXCEPT !.status = 503].view = Nothing
      /\ \A h, c : Analysed(h, c).view = Nothing /\ DOMAIN Analysed(h, c) = DOMAIN NoAnswer
  BY DEF NoAnswer, Analysed
<1>1. ASSUME NEW p \in Procs, Upload(p) \/ Lookup(p) \/ Parse(p) \/ Store(p) \/ Deadline(p)
      PROVE  ViewsAreDeclared'
  <2>fin. ASSUME NEW a, DOMAIN a = DOMAIN NoAnswer, a.view = Nothing, Finish(p, a)
          PROVE  ViewsAreDeclared'
    BY <2>fin, <1>same, <1>page DEF Finish
  <2>1. CASE Upload(p)
    BY <2>1, <1>0, <1>same, <1>plain DEF Upload
  <2>2. CASE Lookup(p)
    BY <2>2, <1>0, <1>same, <2>fin DEF Lookup
  <2>3. CASE Parse(p)
    BY <2>3, <1>0, <1>same, <2>fin DEF Parse
  <2>4. CASE Store(p)
    BY <2>4, <1>0, <2>fin DEF Store
  <2>5. CASE Deadline(p)
    BY <2>5, <1>0, <1>plain DEF Deadline
  <2> QED
    BY <1>1, <2>1, <2>2, <2>3, <2>4, <2>5
<1>2. ASSUME NEW v \in Views, NEW h, NEW i, View(v, h, i) PROVE ViewsAreDeclared'
  <2>1. PICK of : \/ answer' = ViewOf(v, h, i, of)
                  \/ answer' = [ViewOf(v, h, i, of) EXCEPT !.status = 500]
    BY <1>2 DEF View, RenderHTML, Respond
  <2>2. answer'.view = v /\ answer'.status \in {StatusOf(v, h, i, of), 500}
    BY <2>1 DEF ViewOf
  <2> QED
    BY <2>2, DeclaredView DEF ViewsAreDeclared
<1>3. CASE Restart \/ Pass \/ UNCHANGED vars
  BY <1>3, <1>same DEF Restart, Pass, vars
<1> QED
  BY <1>1, <1>2, <1>3 DEF Next

\* Whatever the cache holds, whatever is missing and whether or not the template
\* can be rendered, a view answers as described or with one of the two statuses
\* that are not.
THEOREM ViewsAnswerAsDeclared == Spec => []ViewsAreDeclared
<1>1. Init => ViewsAreDeclared
  BY DEF Init, NoAnswer, ViewsAreDeclared
<1> QED
  BY <1>1, DeclaredStep, PTL DEF Spec
-----------------------------------------------------------------------------
\* How long an entry lasts.  Cardinality as the instance of the cache reads it.
LEMMA CacheCardinality == \A S : Cache!Cardinality(S) = Cardinality(S)
BY DEF Cache!Cardinality, Cardinality

\* An entry that makes room for h was written before all that stay.
LEMMA DisplacedEffect ==
  ASSUME TypeOK, NEW h \in Hashes, NEW c \in Contents, Cache!Write(h, c),
         NEW j \in DOMAIN live, j \notin DOMAIN live'
  PROVE  /\ h \notin DOMAIN live /\ Cardinality(DOMAIN live) >= MaxEntries
         /\ \A k \in DOMAIN live : live[j].until <= live[k].until
<1> USE DEF Cache!Write, Cache!With, Cache!Without, Cache!Restrict
<1> DEFINE e == [value |-> c, until |-> now + TTL]
<1>1. CASE live' = Cache!With(live, h, e)
  BY <1>1
<1>2. CASE /\ h \notin DOMAIN live /\ Cache!Full
           /\ \E k \in Cache!Displaced(h) :
                live' = Cache!With(Cache!Without(live, k), h, e)
  <2>1. PICK k \in Cache!Displaced(h) : live' = Cache!With(Cache!Without(live, k), h, e)
    BY <1>2
  <2>2. k = j
    BY <2>1
  <2>3. \A i \in DOMAIN live : live[j].until <= live[i].until
    BY <2>1, <2>2 DEF Cache!Displaced
  <2>4. Cardinality(DOMAIN live) >= MaxEntries
    BY <1>2, CacheCardinality DEF Cache!Full
  <2> QED
    BY <1>2, <2>3, <2>4
<1> QED
  BY <1>1, <1>2

LEMMA LastsInit == Init => EntryLastsItsTime
BY DEF Init, EntryLastsItsTime

LEMMA LastsWrite ==
  ASSUME TypeOK, CacheSound, EntryLastsItsTime, NEW h \in Hashes, NEW c \in Contents,
         Cache!Write(h, c), written' = [written EXCEPT ![h] = now],
         NEW j \in Hashes, written'[j] >= 0, j \notin DOMAIN live'
  PROVE  now' > written'[j] + TTL \/ Cardinality(Since(j)') >= MaxEntries
<1> USE ExploreAssumption
<1>0. CacheOK /\ EntriesSound
  BY DEF TypeOK, CacheSound
<1>1. now' = now /\ h \in DOMAIN live' /\ DOMAIN live \subseteq Hashes
  BY <1>0, WriteEffect DEF CacheOK
<1>2. /\ written'[h] = now /\ j # h
      /\ \A k \in Hashes : k # h => written'[k] = written[k]
      /\ \A k \in Hashes : written[k] \in Int /\ written[k] <= now
      /\ now \in Int
  BY <1>0, <1>1 DEF CacheOK, EntriesSound
<1>3. IsFiniteSet(Since(j)')
  BY FS_Subset DEF Since
<1>4. CASE j \notin DOMAIN live
  <2>1. now > written[j] + TTL \/ Cardinality(Since(j)) >= MaxEntries
    BY <1>2, <1>4 DEF EntryLastsItsTime
  <2>2. Since(j) \subseteq Since(j)'
    BY <1>2 DEF Since
  <2>3. /\ Cardinality(Since(j)) <= Cardinality(Since(j)')
        /\ Cardinality(Since(j)) \in Nat /\ Cardinality(Since(j)') \in Nat
    BY <1>3, <2>2, FS_Subset, FS_CardinalityType
  <2> QED
    BY <1>1, <1>2, <2>1, <2>3
<1>5. CASE j \in DOMAIN live
  <2>1. /\ h \notin DOMAIN live /\ Cardinality(DOMAIN live) >= MaxEntries
        /\ \A k \in DOMAIN live : live[j].until <= live[k].until
    BY <1>5, DisplacedEffect
  <2> DEFINE stay == DOMAIN live \ {j}
             others == stay \cup {h}
  <2>2. \A k \in stay : written[j] <= written[k]
    BY <1>0, <1>1, <1>2, <1>5, <2>1 DEF EntriesSound
  <2>3. others \subseteq Since(j)'
    BY <1>1, <1>2, <2>1, <2>2 DEF Since
  <2>4. IsFiniteSet(DOMAIN live) /\ Cardinality(DOMAIN live) \in Nat
    BY <1>1, FS_Subset, FS_CardinalityType
  <2>5. IsFiniteSet(stay) /\ Cardinality(stay) = Cardinality(DOMAIN live) - 1
    BY <1>5, <2>4, FS_RemoveElement
  <2>6. Cardinality(others) = Cardinality(stay) + 1
    BY <2>1, <2>5, FS_AddElement
  <2>7. Cardinality(others) <= Cardinality(Since(j)') /\ Cardinality(Since(j)') \in Nat
    BY <1>3, <2>3, FS_Subset, FS_CardinalityType
  <2> QED
    BY <2>1, <2>4, <2>5, <2>6, <2>7
<1> QED
  BY <1>4, <1>5
LEMMA LastsStep == TypeOK /\ CacheSound /\ EntryLastsItsTime /\ [Next]_vars => EntryLastsItsTime'
<1> SUFFICES ASSUME TypeOK, CacheSound, EntryLastsItsTime, [Next]_vars PROVE EntryLastsItsTime'
  OBVIOUS
<1> USE ExploreAssumption
<1>0. CacheOK /\ EntriesSound
  BY DEF TypeOK, CacheSound
<1>same. ASSUME now' = now, live' = live, written' = written PROVE EntryLastsItsTime'
  <2>1. \A h \in Hashes : Since(h)' = Since(h)
    BY <1>same DEF Since
  <2> QED
    BY <1>same, <2>1 DEF EntryLastsItsTime
<1>1. ASSUME NEW p \in Procs, Upload(p) PROVE EntryLastsItsTime'
  BY <1>1, <1>same DEF Upload, cache
<1>2. ASSUME NEW p \in Procs, Lookup(p) PROVE EntryLastsItsTime'
  BY <1>2, <1>same DEF Lookup, Cache!Read
<1>3. ASSUME NEW p \in Procs, Parse(p) PROVE EntryLastsItsTime'
  BY <1>3, <1>same DEF Parse, cache
<1>4. ASSUME NEW p \in Procs, Store(p) PROVE EntryLastsItsTime'
  <2>1. content[p] \in Contents /\ Hash[content[p]] \in Hashes
    BY <1>4 DEF Store, TypeOK, UploadsOK
  <2>2. Cache!Write(Hash[content[p]], content[p]) /\ written' = [written EXCEPT ![Hash[content[p]]] = now]
    BY <1>4 DEF Store, Key
  <2> QED
    BY <2>1, <2>2, LastsWrite DEF EntryLastsItsTime
<1>5. ASSUME NEW p \in Procs, Deadline(p) PROVE EntryLastsItsTime'
  BY <1>5, <1>same DEF Deadline, cache
<1>6. ASSUME NEW v \in Views, NEW h \in Hashes \cup {Nothing}, NEW i \in Asked(v),
             View(v, h, i)
      PROVE  EntryLastsItsTime'
  BY <1>6, <1>same DEF View, Cache!Read, cache
<1>7. CASE Restart
  BY <1>7 DEF Restart, EntryLastsItsTime
<1>8. CASE Pass
  <2>1. /\ now' = now + 1 /\ written' = written
        /\ \A h \in DOMAIN live : live[h].until >= now + 1 => h \in DOMAIN live'
    BY <1>8, PassEffect DEF Pass
  <2>2. \A h \in Hashes : Since(h)' = Since(h)
    BY <2>1 DEF Since
  <2>3. ASSUME NEW h \in Hashes, written[h] >= 0, h \notin DOMAIN live'
        PROVE  now' > written[h] + TTL \/ Cardinality(Since(h)) >= MaxEntries
    <3>1. CASE h \in DOMAIN live
      BY <1>0, <2>1, <2>3, <3>1 DEF EntriesSound, CacheOK
    <3>2. CASE h \notin DOMAIN live
      BY <1>0, <2>1, <2>3, <3>2 DEF EntryLastsItsTime, CacheOK
    <3> QED
      BY <3>1, <3>2
  <2> QED
    BY <2>1, <2>2, <2>3 DEF EntryLastsItsTime
<1>9. CASE UNCHANGED vars
  BY <1>9, <1>same DEF vars, cache
<1> QED
  BY <1>1, <1>2, <1>3, <1>4, <1>5, <1>6, <1>7, <1>8, <1>9 DEF Next

\* A stored analysis answers for its 5 minutes: only as many others as the cache
\* holds, stored since, can take it away earlier.
THEOREM EntriesLast == Spec => []EntryLastsItsTime
BY LastsInit, LastsStep, Sound, PTL DEF Spec
=============================================================================
