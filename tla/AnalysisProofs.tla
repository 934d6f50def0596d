--------------------------- MODULE AnalysisProofs ---------------------------
(***************************************************************************)
(* The loops of Analysis agree on documents of any size: the summary with  *)
(* the list of unsecured operations, the count of a scheme with its        *)
(* details, and the pages of a schema with each other.                     *)
(***************************************************************************)
EXTENDS Analysis, FiniteSetTheorems, SequenceTheorems, TLAPS

\* A part of a whole is 100 percent of it when it is all of it, and only then.
LEMMA Percent ==
  ASSUME NEW s \in Nat, NEW n \in Nat \ {0}, s <= n
  PROVE  (s * 100) \div n = 100 <=> s = n
OBVIOUS

\* The loops over a document's operations agree, however many there are.
LEMMA CoverageIsRight == ASSUME NEW doc \in Documents PROVE CoverageAgrees(doc)
<1> DEFINE All == Operations(doc)
           Secured == {o \in All :
             /\ Security(doc, o) # Nil
             /\ IF Security(doc, o) = Unset THEN doc.security # <<>> ELSE Security(doc, o) # <<>>}
           Open == FindUnsecuredOperations(doc)
<1>1. Open = All \ Secured
  BY AnalysisAssumption DEF FindUnsecuredOperations
<1>2. UnsecuredCount(doc) = Cardinality(Open)
  <2>1. Open = {o \in All : \/ Security(doc, o) \in {Nil, <<>>}
                            \/ Security(doc, o) = Unset /\ doc.security = <<>>}
    BY AnalysisAssumption DEF FindUnsecuredOperations
  <2> QED BY <2>1 DEF UnsecuredCount
<1>3. SecuredCount(doc) = Cardinality(Secured)
  BY DEF SecuredCount
<1>4. IsFiniteSet(All) /\ Secured \in SUBSET All
  BY AnalysisAssumption DEF Operations
<1> HIDE DEF Secured, Open, All
<1>5. /\ IsFiniteSet(Secured) /\ IsFiniteSet(Open)
      /\ Cardinality(Open) = Cardinality(All) - Cardinality(Secured)
      /\ Cardinality(All) \in Nat /\ Cardinality(Secured) \in Nat
      /\ Cardinality(Secured) <= Cardinality(All)
  <2>1. All \cap Secured = Secured
    BY <1>4
  <2>2. /\ IsFiniteSet(Secured) /\ Cardinality(Secured) <= Cardinality(All)
    BY <1>4, FS_Subset
  <2>3. IsFiniteSet(Open) /\ Cardinality(Open) = Cardinality(All) - Cardinality(All \cap Secured)
    BY <1>1, <1>4, FS_Difference
  <2>4. Cardinality(All) \in Nat /\ Cardinality(Secured) \in Nat
    BY <1>4, <2>2, FS_CardinalityType
  <2> QED BY <2>1, <2>2, <2>3, <2>4
<1>6. Open = {} <=> Cardinality(Secured) = Cardinality(All)
  BY <1>5, FS_EmptySet
<1>7. All = {} <=> Cardinality(All) = 0
  BY <1>4, FS_EmptySet
<1>8. CoveragePercent(doc) = 100 <=> All # {} /\ Open = {}
  <2>1. CASE All = {}
    BY <2>1 DEF CoveragePercent, All
  <2>2. CASE All # {}
    <3>1. CoveragePercent(doc) = (Cardinality(Secured) * 100) \div Cardinality(All)
      BY <1>3, <2>2 DEF CoveragePercent, All
    <3> QED BY <1>5, <1>6, <1>7, <2>2, <3>1, Percent
  <2> QED BY <2>1, <2>2
<1> QED BY <1>2, <1>3, <1>5, <1>8 DEF CoverageAgrees, All, Open

-----------------------------------------------------------------------------
\* A function takes no more values than it has arguments.
LEMMA ImageIsFinite ==
  ASSUME NEW S, IsFiniteSet(S), NEW f, DOMAIN f = S
  PROVE  IsFiniteSet({f[x] : x \in S})
<1> DEFINE T == {f[x] : x \in S}
<1>1. [x \in S |-> f[x]] \in Surjection(S, T)
  BY DEF Surjection
<1> QED
  BY <1>1, FS_Surjection

LEMMA UsesAreFinite ==
  ASSUME NEW doc \in Documents, NEW o \in Operations(doc), NEW s
  PROVE  IsFiniteSet(Uses(doc, o, s))
<1>1. IsFiniteSet(DOMAIN EffectiveSecurity(doc, o))
  <2>1. CASE Security(doc, o) = Nil
    <3>1. EffectiveSecurity(doc, o) = <<>>
      BY <2>1, AnalysisAssumption DEF EffectiveSecurity
    <3>2. DOMAIN <<>> = {}
      OBVIOUS
    <3> QED
      BY <3>1, <3>2, FS_EmptySet
  <2>2. CASE Security(doc, o) = Unset
    <3>1. EffectiveSecurity(doc, o) = doc.security
      BY <2>2, AnalysisAssumption DEF EffectiveSecurity
    <3> QED
      BY <3>1, AnalysisAssumption
  <2>3. CASE Security(doc, o) \notin {Nil, Unset}
    <3>1. EffectiveSecurity(doc, o) = doc.operations[o]
      BY <2>3 DEF EffectiveSecurity, Security
    <3> QED
      BY <2>3, <3>1, AnalysisAssumption DEF Security, Operations
  <2> QED
    BY <2>1, <2>2, <2>3
<1> QED
  BY <1>1, FS_Subset DEF Uses

LEMMA CountedIsFinite ==
  ASSUME NEW doc \in Documents, NEW s
  PROVE  IsFiniteSet(Counted(doc, s))
<1> DEFINE f == [o \in Operations(doc) |-> {o} \X Uses(doc, o, s)]
<1>1. \A o \in Operations(doc) : IsFiniteSet(f[o])
  BY UsesAreFinite, FS_Singleton, FS_Product
<1>2. DOMAIN f = Operations(doc) /\ IsFiniteSet(Operations(doc))
  BY AnalysisAssumption DEF Operations
<1>3. Counted(doc, s) = UNION {f[o] : o \in Operations(doc)}
  BY DEF Counted
<1> HIDE DEF f
<1>4. IsFiniteSet({f[o] : o \in Operations(doc)})
  BY <1>2, ImageIsFinite
<1> QED
  BY <1>1, <1>3, <1>4, FS_UNION

LEMMA CountedMeans ==
  ASSUME NEW doc, NEW s, NEW x
  PROVE  x \in Counted(doc, s) <=>
           \E o \in Operations(doc) : \E i \in Uses(doc, o, s) : x = <<o, i>>
BY DEF Counted

\* No requirement applies to an operation that is listed as unsecured.
LEMMA UnsecuredUsesNothing ==
  ASSUME NEW doc \in Documents, NEW o \in FindUnsecuredOperations(doc), NEW s
  PROVE  Uses(doc, o, s) = {}
<1>1. EffectiveSecurity(doc, o) = <<>>
  BY AnalysisAssumption DEF FindUnsecuredOperations, EffectiveSecurity
<1> QED
  BY <1>1 DEF Uses

\* A scheme's count and the operations its details name agree (countSecurityUsage,
\* findSecurityUsages), on any number of operations, alternatives and schemes.
LEMMA UsagesAreRight == ASSUME NEW doc \in Documents PROVE UsagesAgree(doc)
<1> SUFFICES ASSUME NEW s \in doc.schemes
             PROVE  LET used == FindSecurityUsages(doc, s)
                    IN  /\ CountSecurityUsage(doc, s) >= Cardinality(used)
                        /\ (\A o \in used : Cardinality(Uses(doc, o, s)) = 1)
                             <=> CountSecurityUsage(doc, s) = Cardinality(used)
                        /\ used \cap FindUnsecuredOperations(doc) = {}
  BY DEF UsagesAgree
<1> DEFINE used == FindSecurityUsages(doc, s)
           counted == Counted(doc, s)
           operation == [x \in counted |-> x[1]]
<1>1. IsFiniteSet(counted)
  BY CountedIsFinite
<1>2. operation \in Surjection(counted, used)
  <2>1. operation \in [counted -> used]
    BY CountedMeans DEF FindSecurityUsages
  <2>2. ASSUME NEW o \in used PROVE \E x \in counted : operation[x] = o
    <3>1. PICK i \in Uses(doc, o, s) : TRUE
      BY <2>2 DEF FindSecurityUsages
    <3>2. <<o, i>> \in counted
      BY CountedMeans DEF FindSecurityUsages
    <3> QED
      BY <3>2
  <2> QED
    BY <2>1, <2>2 DEF Surjection
<1>3. /\ Cardinality(used) <= Cardinality(counted)
      /\ Cardinality(used) = Cardinality(counted) <=> operation \in Injection(counted, used)
  BY <1>1, <1>2, FS_Surjection
<1>4. Cardinality(used) \in Nat /\ Cardinality(counted) \in Nat
  BY <1>1, <1>2, FS_Surjection, FS_CardinalityType
<1>5. ASSUME NEW o \in used
      PROVE  Cardinality(Uses(doc, o, s)) = 1 <=> \E i : Uses(doc, o, s) = {i}
  BY UsesAreFinite, FS_Singleton DEF FindSecurityUsages
<1>6. operation \in Injection(counted, used) <=> \A o \in used : Cardinality(Uses(doc, o, s)) = 1
  <2>1. ASSUME operation \in Injection(counted, used), NEW o \in used
        PROVE  \E i : Uses(doc, o, s) = {i}
    <3>1. PICK i \in Uses(doc, o, s) : TRUE
      BY DEF FindSecurityUsages
    <3>2. ASSUME NEW j \in Uses(doc, o, s) PROVE j = i
      <4>1. <<o, i>> \in counted /\ <<o, j>> \in counted
        BY CountedMeans DEF FindSecurityUsages
      <4>2. operation[<<o, i>>] = o /\ operation[<<o, j>>] = o
        BY <4>1
      <4>3. \A x, y \in counted : operation[x] = operation[y] => x = y
        BY <2>1 DEF Injection, IsInjective
      <4>4. <<o, i>> = <<o, j>>
        BY <4>1, <4>2, <4>3
      <4> QED
        BY <4>4
    <3> QED
      BY <3>2
  <2>2. ASSUME \A o \in used : \E i : Uses(doc, o, s) = {i}
        PROVE  operation \in Injection(counted, used)
    <3>1. ASSUME NEW x \in counted, NEW y \in counted, operation[x] = operation[y]
          PROVE  x = y
      <4>1. PICK o \in Operations(doc) : \E i \in Uses(doc, o, s) : x = <<o, i>>
        BY CountedMeans
      <4>2. PICK q \in Operations(doc) : \E j \in Uses(doc, q, s) : y = <<q, j>>
        BY CountedMeans
      <4>3. o = q /\ o \in used
        BY <3>1, <4>1, <4>2 DEF FindSecurityUsages
      <4> QED
        BY <2>2, <4>1, <4>2, <4>3
    <3>2. operation \in [counted -> used]
      BY <1>2 DEF Surjection
    <3>3. DOMAIN operation = counted
      OBVIOUS
    <3> HIDE DEF operation, counted, used
    <3> QED
      BY <3>1, <3>2, <3>3 DEF Injection, IsInjective
  <2> QED
    BY <1>5, <2>1, <2>2
<1>7. used \cap FindUnsecuredOperations(doc) = {}
  BY UnsecuredUsesNothing DEF FindSecurityUsages
<1> QED
  BY <1>3, <1>4, <1>6, <1>7 DEF CountSecurityUsage

-----------------------------------------------------------------------------
\* The steps of a path before a schema's place, and those from there to it.
Steps ==
  {Word(w) : w \in SchemaWords \cup {"content", "headers", "schema", "default"}}
    \cup {Name(n) : n \in DOMAIN Within}
FirstSteps == {Word(w) : w \in Keywords}

LEMMA InPlaceType ==
  ASSUME NEW s, IsHeld(s)
  PROVE  InPlace(s) \in Seq(Steps) /\ Len(InPlace(s)) \in Nat \ {0}
<1> DEFINE first == IF s.in = "schema" THEN <<>> ELSE <<Word(s.in), Name(s.key)>>
           rest == <<Word("schema")>>
<1>1. first \in Seq(Steps)
  <2>1. CASE s.in = "schema"
    BY <2>1
  <2>2. CASE s.in # "schema"
    <3>1. Word(s.in) \in Steps /\ Name(s.key) \in Steps
      BY <2>2 DEF IsHeld, Steps
    <3> QED
      BY <2>2, <3>1
  <2> QED
    BY <2>1, <2>2
<1>2. rest \in Seq(Steps) /\ Len(rest) = 1
  <2>1. Word("schema") \in Steps
    BY DEF Steps
  <2> QED
    BY <2>1
<1>3. s.below \in Seq(Steps)
  <2>1. {Word(w) : w \in SchemaWords} \cup {Name(n) : n \in DOMAIN Within} \subseteq Steps
    BY DEF Steps
  <2> QED
    BY <2>1 DEF IsHeld
<1>4. InPlace(s) = first \o rest \o s.below
  BY DEF InPlace
<1> HIDE DEF first, rest
<1> DEFINE trunk == first \o rest
<1>5. trunk \in Seq(Steps) /\ Len(trunk) = Len(first) + 1
  BY <1>1, <1>2, ConcatProperties
<1>6. InPlace(s) = trunk \o s.below
  BY <1>4
<1> HIDE DEF trunk
<1>7. trunk \o s.below \in Seq(Steps) /\ Len(trunk \o s.below) = Len(trunk) + Len(s.below)
  BY <1>3, <1>5, ConcatProperties
<1>8. Len(first) \in Nat /\ Len(s.below) \in Nat
  BY <1>1, <1>3
<1>9. Len(InPlace(s)) = Len(first) + 1 + Len(s.below)
  BY <1>5, <1>6, <1>7
<1>10. \A m, n \in Nat : m + 1 + n \in Nat \ {0}
  OBVIOUS
<1>11. Len(first) + 1 + Len(s.below) \in Nat \ {0}
  BY <1>8, <1>10
<1> QED
  BY <1>6, <1>7, <1>9, <1>11

LEMMA PlaceType ==
  ASSUME NEW s, IsHeld(s)
  PROVE  /\ Place(s) \in Seq(Steps \cup FirstSteps) /\ Len(Place(s)) \in {1, 2}
         /\ Place(s)[1] =
              CASE s.at = "requestBody" -> Word("requestBody")
                [] s.at = "parameters"  -> Word("parameters")
                [] OTHER                -> Word("responses")
         /\ s.at \notin {"requestBody", "parameters"} =>
              Len(Place(s)) = 2 /\ Place(s)[2] = IF s.at = "default" THEN Word("default") ELSE Name(s.at)
         /\ Len(Place(s)) = 2 => Place(s)[2] \in Steps
<1>1. /\ \A w \in Keywords : Word(w) \in Steps \cup FirstSteps
      /\ Word("default") \in Steps
  BY DEF Steps, FirstSteps
<1>2. CASE s.at = "requestBody"
  <2>1. Place(s) = <<Word("requestBody")>>
    BY <1>2 DEF Place
  <2> QED
    BY <1>1, <1>2, <2>1 DEF Keywords
<1>3. CASE s.at = "parameters"
  <2>1. Place(s) = <<Word("parameters")>>
    BY <1>3 DEF Place
  <2> QED
    BY <1>1, <1>3, <2>1 DEF Keywords
<1>4. CASE s.at = "default"
  <2>1. Place(s) = <<Word("responses"), Word("default")>>
    BY <1>4 DEF Place
  <2> QED
    BY <1>1, <1>4, <2>1 DEF Keywords
<1>5. CASE s.at \notin {"requestBody", "parameters", "default"}
  <2>1. Place(s) = <<Word("responses"), Name(s.at)>>
    BY <1>5 DEF Place
  <2>2. Name(s.at) \in Steps
    BY <1>5 DEF IsHeld, Steps
  <2> QED
    BY <1>1, <1>5, <2>1, <2>2 DEF Keywords
<1> QED
  BY <1>2, <1>3, <1>4, <1>5

\* A path begins with the steps of the place; those that follow it are no keywords.
LEMMA PathOf ==
  ASSUME NEW s, IsHeld(s)
  PROVE  LET path == JSONPath(s)
         IN  /\ DOMAIN path = 1..Len(path) /\ Len(path) \in Nat
             /\ Len(path) > Len(Place(s))
             /\ \A i \in 1..Len(Place(s)) : path[i] = Place(s)[i]
             /\ path[1] \in FirstSteps
             /\ \A i \in DOMAIN path : i # 1 => path[i] \in Steps
<1> DEFINE p == Place(s)
           q == InPlace(s)
           path == JSONPath(s)
<1>1. /\ p \in Seq(Steps \cup FirstSteps) /\ Len(p) \in {1, 2}
      /\ p[1] \in FirstSteps /\ (Len(p) = 2 => p[2] \in Steps)
  BY PlaceType DEF FirstSteps, Keywords
<1>2. q \in Seq(Steps) /\ q \in Seq(Steps \cup FirstSteps) /\ Len(q) \in Nat \ {0}
  BY InPlaceType
<1>3. path = p \o q
  BY DEF JSONPath
<1> HIDE DEF p, q, path
<1>4. /\ path \in Seq(Steps \cup FirstSteps) /\ Len(path) = Len(p) + Len(q)
      /\ \A i \in 1..(Len(p) + Len(q)) : path[i] = IF i <= Len(p) THEN p[i] ELSE q[i - Len(p)]
  BY <1>1, <1>2, <1>3, ConcatProperties
<1>5. DOMAIN path = 1..Len(path) /\ Len(path) \in Nat /\ Len(path) > Len(p)
  BY <1>1, <1>2, <1>4
<1>6. \A i \in 1..Len(p) : path[i] = p[i]
  BY <1>1, <1>2, <1>4
<1>7. ASSUME NEW i \in DOMAIN path, i # 1 PROVE path[i] \in Steps
  <2>1. CASE i <= Len(p)
    <3>1. i = 2 /\ Len(p) = 2
      <4>1. i \in Nat \ {0}
        BY <1>5, <1>7
      <4>2. Len(p) = 1 \/ Len(p) = 2
        BY <1>1
      <4>3. \A n \in {1, 2} : i <= n => i = 1 \/ (i = 2 /\ n = 2)
        BY <4>1
      <4> QED
        BY <1>7, <2>1, <4>2, <4>3
    <3> QED
      BY <1>1, <1>6, <3>1
  <2>2. CASE ~(i <= Len(p))
    <3>1. path[i] = q[i - Len(p)] /\ i - Len(p) \in 1..Len(q)
      BY <1>1, <1>2, <1>4, <1>5, <2>2
    <3> QED
      BY <1>2, <3>1
  <2> QED
    BY <2>1, <2>2
<1>8. path[1] \in FirstSteps
  BY <1>1, <1>6
<1> QED
  BY <1>5, <1>6, <1>7, <1>8 DEF p, path

\* A path without keywords in its names mentions the one it begins with only.
LEMMA MentionsOf ==
  ASSUME NEW s, IsHeld(s), IsPlain(JSONPath(s)), NEW text \in Keywords
  PROVE  Mentions(JSONPath(s), text) <=> JSONPath(s)[1] = Word(text)
<1> DEFINE path == JSONPath(s)
<1>1. /\ 1 \in DOMAIN path /\ path[1] \in FirstSteps
      /\ \A i \in DOMAIN path : i # 1 => path[i] \in Steps
  <2>1. Len(Place(s)) \in {1, 2}
    BY PlaceType
  <2> QED
    BY <2>1, PathOf
<1>2. \A i \in DOMAIN path : path[i][1] = "name" => Texts(path[i]) = {}
  BY DEF IsPlain
<1> HIDE DEF path
<1>3. ASSUME NEW i \in DOMAIN path, i # 1 PROVE text \notin Texts(path[i])
  <2>1. CASE \E n \in DOMAIN Within : path[i] = Name(n)
    BY <1>2, <2>1 DEF Name
  <2>2. ASSUME NEW w \in SchemaWords \cup {"content", "headers", "schema", "default"},
               path[i] = Word(w)
        PROVE  text \notin Texts(path[i])
    <3>1. w \notin Keywords
      BY DEF SchemaWords, Keywords
    <3>2. path[i][1] = "word" /\ path[i][2] = w
      BY <2>2 DEF Word
    <3> QED
      BY <3>1, <3>2 DEF Texts
  <2> QED
    BY <1>1, <1>3, <2>1, <2>2 DEF Steps
<1>4. text \in Texts(path[1]) <=> path[1] = Word(text)
  <2>1. PICK w \in Keywords : path[1] = Word(w)
    BY <1>1 DEF FirstSteps
  <2>2. path[1][1] = "word" /\ path[1][2] = w
    BY <2>1 DEF Word
  <2>3. Texts(path[1]) = {w}
    BY <2>2 DEF Texts
  <2>4. Word(text) = Word(w) <=> text = w
    BY DEF Word
  <2> QED
    BY <2>1, <2>3, <2>4
<1> QED
  BY <1>1, <1>3, <1>4 DEF Mentions, path

\* The label of an inline schema is that of its place, whatever the codes of the
\* responses, the names and the way to it, as long as no name contains a keyword.
LEMMA ContextOf ==
  ASSUME NEW s, IsHeld(s), IsPlain(JSONPath(s))
  PROVE  Context(JSONPath(s)) = PlaceOf(s)
<1> DEFINE path == JSONPath(s)
           codes == Codes(path)
<1>1. /\ \A text \in Keywords : Mentions(path, text) <=> path[1] = Word(text)
      /\ path[1] = Place(s)[1]
  <2>1. Len(Place(s)) \in {1, 2}
    BY PlaceType
  <2>2. path[1] = Place(s)[1]
    BY <2>1, PathOf
  <2> QED
    BY <2>2, MentionsOf
<1>2. \A v, w \in Keywords : Word(v) = Word(w) <=> v = w
  BY DEF Word
<1>3. {"requestBody", "responses", "parameters"} = Keywords
  BY DEF Keywords
<1>4. CASE s.at = "requestBody"
  <2>1. path[1] = Word("requestBody")
    BY <1>1, <1>4, PlaceType
  <2> HIDE DEF path, codes
  <2>2. Mentions(path, "requestBody")
    BY <1>1, <1>3, <2>1
  <2>3. Context(path) = <<"request body">>
    BY <2>2 DEF Context
  <2> QED
    BY <1>4, <2>3 DEF PlaceOf, path
<1>5. CASE s.at = "parameters"
  <2>1. path[1] = Word("parameters")
    BY <1>1, <1>5, PlaceType
  <2> HIDE DEF path, codes
  <2>2. /\ Mentions(path, "parameters")
        /\ ~Mentions(path, "requestBody") /\ ~Mentions(path, "responses")
    BY <1>1, <1>2, <1>3, <2>1
  <2>3. Context(path) = <<"parameter">>
    BY <2>2 DEF Context
  <2> QED
    BY <1>5, <2>3 DEF PlaceOf, path
<1>6. ASSUME s.at \notin {"requestBody", "parameters"}
      PROVE  /\ Mentions(path, "responses") /\ ~Mentions(path, "requestBody")
             /\ path[1] = Word("responses") /\ 1 \in 1..(Len(path) - 1)
             /\ path[2] = IF s.at = "default" THEN Word("default") ELSE Name(s.at)
             /\ \A i \in 1..(Len(path) - 1) : path[i] = Word("responses") => i = 1
  <2>1. /\ Len(Place(s)) = 2 /\ Place(s)[1] = Word("responses")
        /\ Place(s)[2] = IF s.at = "default" THEN Word("default") ELSE Name(s.at)
    BY <1>6, PlaceType
  <2>2. path[1] = Word("responses")
    BY <1>1, <2>1
  <2>3. /\ Len(path) \in Nat /\ Len(path) > 2 /\ DOMAIN path = 1..Len(path)
        /\ path[2] = Place(s)[2]
        /\ \A i \in DOMAIN path : i # 1 => path[i] \in Steps
    <3>1. /\ DOMAIN path = 1..Len(path) /\ Len(path) \in Nat /\ Len(path) > Len(Place(s))
          /\ \A i \in 1..Len(Place(s)) : path[i] = Place(s)[i]
          /\ \A i \in DOMAIN path : i # 1 => path[i] \in Steps
      BY PathOf
    <3>2. 2 \in 1..Len(Place(s))
      BY <2>1
    <3> HIDE DEF path, codes
    <3> QED
      BY <2>1, <3>1, <3>2
  <2>4. Word("responses") \notin Steps
    BY DEF Steps, SchemaWords, Word, Name
  <2> HIDE DEF path, codes
  <2>5. Mentions(path, "responses") /\ ~Mentions(path, "requestBody")
    BY <1>1, <1>2, <1>3, <2>2
  <2>6. \A i \in 1..(Len(path) - 1) : path[i] = Word("responses") => i = 1
    BY <2>3, <2>4
  <2> QED
    BY <2>1, <2>2, <2>3, <2>5, <2>6
<1>7. CASE s.at = "default"
  <2>1. /\ Mentions(path, "responses") /\ ~Mentions(path, "requestBody")
        /\ path[1] = Word("responses") /\ 1 \in 1..(Len(path) - 1)
        /\ path[2] = Word("default") /\ path[1 + 1] = Word("default")
        /\ \A i \in 1..(Len(path) - 1) : path[i] = Word("responses") => i = 1
    BY <1>6, <1>7
  <2>2. Word("default")[1] # "name"
    BY DEF Word
  <2>3. codes = {}
    BY <2>1, <2>2 DEF Codes
  <2> HIDE DEF path, codes
  <2>4. Context(path) = <<"response", "default">>
    BY <2>1, <2>3 DEF Context, codes
  <2> QED
    BY <1>7, <2>4 DEF PlaceOf, path
<1>8. CASE s.at \notin {"requestBody", "parameters", "default"}
  <2>1. /\ Mentions(path, "responses") /\ ~Mentions(path, "requestBody")
        /\ path[1] = Word("responses") /\ 1 \in 1..(Len(path) - 1)
        /\ path[2] = Name(s.at) /\ path[1 + 1] = Name(s.at)
        /\ \A i \in 1..(Len(path) - 1) : path[i] = Word("responses") => i = 1
    BY <1>6, <1>8
  <2>2. Name(s.at)[1] = "name" /\ Name(s.at)[2] = s.at
    BY DEF Name
  <2>3. codes = {1}
    BY <2>1, <2>2 DEF Codes
  <2>4. Min(codes) = 1
    BY <2>3 DEF Min
  <2> HIDE DEF path, codes
  <2>5. Context(path) = <<"response", s.at>>
    BY <2>1, <2>2, <2>3, <2>4 DEF Context, codes
  <2> QED
    BY <1>8, <2>5 DEF PlaceOf, path
<1> QED
  BY <1>4, <1>5, <1>7, <1>8

\* The pages of a schema agree as far as they go (findSchemaUsages,
\* parseInlineLocations), on any number of places, codes and names.
LEMMA SchemaPagesAreRight == ASSUME NEW doc \in Documents PROVE SchemaPagesAgree(doc)
<1>1. ASSUME NEW s \in doc.holds, IsPlain(JSONPath(s))
      PROVE  Context(JSONPath(s)) = PlaceOf(s)
  BY <1>1, ContextOf, AnalysisAssumption
<1>2. ASSUME NEW s \in doc.holds, Reads(s)
      PROVE  UsageContext(s) = PlaceOf(s)
  BY <1>2 DEF Reads, UsageContext, PlaceOf
<1>3. ASSUME NEW s \in doc.holds, Len(s.ref) > 1
      PROVE  \/ [op |-> s.op, context |-> PlaceOf(s)] \in FindSchemaUsages(doc, Last(s.ref))
             \/ s.at \in {"parameters", "default"}
             \/ s.in # "content"
             \/ s.below # <<>>
  <2>1. SUFFICES ASSUME Reads(s)
                 PROVE  [op |-> s.op, context |-> PlaceOf(s)] \in FindSchemaUsages(doc, Last(s.ref))
    BY DEF Reads
  <2> QED
    BY <1>2, <1>3, <2>1 DEF FindSchemaUsages, RefersTo
<1>4. ASSUME NEW schema, NEW usage \in FindSchemaUsages(doc, schema)
      PROVE  \E s \in doc.holds :
               RefersTo(s, schema) /\ usage = [op |-> s.op, context |-> PlaceOf(s)]
  BY <1>2 DEF FindSchemaUsages
<1> QED
  BY <1>1, <1>3, <1>4 DEF SchemaPagesAgree
=============================================================================
