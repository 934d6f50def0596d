------------------------------ MODULE Analysis ------------------------------
(***************************************************************************)
(* What the explore page says of a document's security and schemas         *)
(* (internal/api/explore.go): the upload's counts, and the lists behind    *)
(* them that the views compute again, by other loops, from the cached      *)
(* document.  A requirement is the set of schemes it names, an operation's *)
(* security is a sequence of requirements, or Unset when it has none of    *)
(* its own, or Nil when the walker reports no operation at all.            *)
(*                                                                         *)
(* holds is the set of schemas the operations have.  A schema of operation *)
(* op is at its "requestBody", its "parameters", its "default" response or *)
(* the response of a code: in the "content" of that, under a media type,   *)
(* in its "headers", under the name of one, or as the "schema" of its own  *)
(* that a parameter has, and in OpenAPI 2 a response; key is that media    *)
(* type or name.  below is the way from there to a schema inside, <<>> at  *)
(* the top; ref is the segments of a reference, <<>> for an inline schema. *)
(***************************************************************************)
EXTENDS Integers, Sequences, FiniteSets, FiniteSetsExt, SequencesExt

CONSTANTS
  Documents,   \* records: schemes, security, operations and holds
  Unset, Nil,  \* values of an operation's security that are no sequence
  Within       \* for each name of a document, the keywords its text contains

\* A step of the walker's JSON path of a schema: a word after a dot, or a name in
\* quotes and brackets.
Word(w) == <<"word", w>>
Name(n) == <<"name", n>>

Keywords == {"requestBody", "responses", "parameters"}

\* The words by which a path goes on from a schema to one inside it.
SchemaWords ==
  {"properties", "patternProperties", "additionalProperties", "items", "prefixItems",
   "allOf", "anyOf", "oneOf", "not"}

\* No name has quotes or dots that would make it look like steps of a path.
IsHeld(s) ==
  /\ s.at \in {"requestBody", "parameters", "default"} \cup DOMAIN Within
  /\ s.in \in {"content", "headers", "schema"} /\ s.key \in DOMAIN Within
  /\ s.below \in Seq({Word(w) : w \in SchemaWords} \cup {Name(n) : n \in DOMAIN Within})

ASSUME AnalysisAssumption ==
  /\ Unset \notin {Nil, <<>>}
  /\ Within \in [DOMAIN Within -> SUBSET Keywords]
  /\ \A doc \in Documents :
       /\ doc # Nil
       /\ IsFiniteSet(DOMAIN doc.operations) /\ IsFiniteSet(DOMAIN doc.security)
       /\ \A o \in DOMAIN doc.operations :
            doc.operations[o] \notin {Unset, Nil} => IsFiniteSet(DOMAIN doc.operations[o])
       /\ \A s \in doc.holds : IsHeld(s)

Operations(doc) == DOMAIN doc.operations
Security(doc, o) == doc.operations[o]

\* The requirements that apply to an operation; Nil has none (it is skipped).
EffectiveSecurity(doc, o) ==
  CASE Security(doc, o) = Nil   -> <<>>
    [] Security(doc, o) = Unset -> doc.security
    [] OTHER                    -> Security(doc, o)

\* The requirements of an operation that name a scheme.
Uses(doc, o, scheme) ==
  {i \in DOMAIN EffectiveSecurity(doc, o) : scheme \in EffectiveSecurity(doc, o)[i]}

\* The requirements countSecurityUsage counts, each with its operation.
Counted(doc, scheme) == UNION {{o} \X Uses(doc, o, scheme) : o \in Operations(doc)}

\* countSecurityUsage: every requirement that names the scheme counts.
CountSecurityUsage(doc, scheme) == Cardinality(Counted(doc, scheme))

\* Mutant: what the document requires is asked before what the operation says.
MutFindSecurityUsages(doc, scheme) ==
  {o \in Operations(doc) :
     Uses(doc, o, scheme) # {} \/ \E i \in DOMAIN doc.security : scheme \in doc.security[i]}

\* findSecurityUsages: an operation is listed once.
FindSecurityUsages(doc, scheme) == {o \in Operations(doc) : Uses(doc, o, scheme) # {}}

\* Mutant: a list without requirements is read as no list at all.
MutSecuredCount(doc) ==
  Cardinality({o \in Operations(doc) :
    /\ Security(doc, o) # Nil
    /\ IF Security(doc, o) \in {Unset, <<>>} THEN doc.security # <<>> ELSE TRUE})

\* computeExploreStats, the operations that have or inherit a requirement.
SecuredCount(doc) ==
  Cardinality({o \in Operations(doc) :
    /\ Security(doc, o) # Nil
    /\ IF Security(doc, o) = Unset THEN doc.security # <<>> ELSE Security(doc, o) # <<>>})

\* computeExploreStats, the others.
UnsecuredCount(doc) ==
  Cardinality({o \in Operations(doc) :
    \/ Security(doc, o) \in {Nil, <<>>}
    \/ Security(doc, o) = Unset /\ doc.security = <<>>})

\* findUnsecuredOperations.
FindUnsecuredOperations(doc) ==
  {o \in Operations(doc) :
     CASE Security(doc, o) = Nil   -> TRUE
       [] Security(doc, o) = Unset -> doc.security = <<>>
       [] OTHER                    -> Security(doc, o) = <<>>}

\* handleExploreSummaryDetails.
CoveragePercent(doc) ==
  IF Operations(doc) = {} THEN 0
  ELSE (SecuredCount(doc) * 100) \div Cardinality(Operations(doc))

\* The numbers of the summary and the list behind them agree, though three
\* loops compute them: every operation is secured or not, the unsecured ones
\* are those listed, and the coverage is whole exactly when none is.
CoverageAgrees(doc) ==
  /\ SecuredCount(doc) + UnsecuredCount(doc) = Cardinality(Operations(doc))
  /\ UnsecuredCount(doc) = Cardinality(FindUnsecuredOperations(doc))
  /\ CoveragePercent(doc) = 100 <=>
       Operations(doc) # {} /\ FindUnsecuredOperations(doc) = {}

\* A scheme's count in the list and the operations its details name agree: one
\* is empty when the other is, the count is the larger, and they differ only
\* where an operation names the scheme in several alternatives.  No operation
\* that uses a scheme is listed as unsecured.
UsagesAgree(doc) ==
  \A s \in doc.schemes :
    LET used == FindSecurityUsages(doc, s)
    IN  /\ CountSecurityUsage(doc, s) >= Cardinality(used)
        /\ (\A o \in used : Cardinality(Uses(doc, o, s)) = 1)
             <=> CountSecurityUsage(doc, s) = Cardinality(used)
        /\ used \cap FindUnsecuredOperations(doc) = {}

\* The count of a scheme is that of the operations that use it.
CountsOperations(doc) ==
  \A s \in doc.schemes : CountSecurityUsage(doc, s) = Cardinality(FindSecurityUsages(doc, s))

-----------------------------------------------------------------------------
\* findSchemaUsages reads the media types of the body and of the responses that
\* have a code, and of each the schema itself and none inside it.
Reads(s) == s.at \notin {"parameters", "default"} /\ s.in = "content" /\ s.below = <<>>

UsageContext(s) ==
  IF s.at = "requestBody" THEN <<"request body">> ELSE <<"response", s.at>>

\* A reference is taken for one to the schema when it ends in a slash and its name.
RefersTo(s, schema) == Len(s.ref) > 1 /\ Last(s.ref) = schema

FindSchemaUsages(doc, schema) ==
  {[op |-> s.op, context |-> UsageContext(s)] :
     s \in {t \in doc.holds : Reads(t) /\ RefersTo(t, schema)}}

\* The walker's JSON path of a schema, below its operation.
Place(s) ==
  CASE s.at = "requestBody" -> <<Word("requestBody")>>
    [] s.at = "parameters"  -> <<Word("parameters")>>
    [] s.at = "default"     -> <<Word("responses"), Word("default")>>
    [] OTHER                -> <<Word("responses"), Name(s.at)>>

InPlace(s) ==
  (IF s.in = "schema" THEN <<>> ELSE <<Word(s.in), Name(s.key)>>) \o <<Word("schema")>> \o s.below

JSONPath(s) == Place(s) \o InPlace(s)

\* The keywords in the text of a step.
Texts(step) == IF step[1] = "name" THEN Within[step[2]] ELSE {step[2]}

\* strings.Contains.
Mentions(path, text) == \E i \in DOMAIN path : text \in Texts(path[i])

\* Where a path names the code of a response.
Codes(path) ==
  {i \in 1..(Len(path) - 1) : path[i] = Word("responses") /\ path[i + 1][1] = "name"}

\* Mutant: the default response is not told from the others.
MutContext(path) ==
  IF Mentions(path, "requestBody") THEN <<"request body">>
  ELSE IF Mentions(path, "responses") THEN
    IF Codes(path) # {} THEN <<"response", path[Min(Codes(path)) + 1][2]>> ELSE <<"response">>
  ELSE IF Mentions(path, "parameters") THEN <<"parameter">> ELSE <<"schema">>

\* parseInlineLocations looks for words wherever they are in the path, in turn.
Context(path) ==
  IF Mentions(path, "requestBody") THEN <<"request body">>
  ELSE IF Mentions(path, "responses") THEN
    IF Codes(path) # {} THEN <<"response", path[Min(Codes(path)) + 1][2]>>
    ELSE IF \E i \in 1..(Len(path) - 1) :
              path[i] = Word("responses") /\ path[i + 1] = Word("default")
      THEN <<"response", "default">> ELSE <<"response">>
  ELSE IF Mentions(path, "parameters") THEN <<"parameter">> ELSE <<"schema">>

\* Where a schema is, for a reader.
PlaceOf(s) ==
  CASE s.at = "requestBody" -> <<"request body">>
    [] s.at = "parameters"  -> <<"parameter">>
    [] OTHER                -> <<"response", s.at>>

\* No name in a path has a keyword in it.
IsPlain(path) == \A i \in DOMAIN path : path[i][1] = "name" => Texts(path[i]) = {}

\* The two pages of schemas agree as far as they go.  An inline schema has the
\* label of its place, unless a name in its path (a code, a media type, a header
\* or a property) contains a keyword, as requestBodyId does.  What a component's
\* page lists are operations that refer to it, under the label of the place.  It
\* lists every reference but those in parameters, in a default response, in
\* headers, inside another schema, or of an OpenAPI 2 document, though the comment
\* at explore.go:727 has it find all operations that reference the schema.
SchemaPagesAgree(doc) ==
  /\ \A s \in doc.holds :
       s.ref = <<>> /\ IsPlain(JSONPath(s)) => Context(JSONPath(s)) = PlaceOf(s)
  /\ \A s \in doc.holds : Len(s.ref) > 1 =>
       \/ [op |-> s.op, context |-> PlaceOf(s)] \in FindSchemaUsages(doc, Last(s.ref))
       \/ s.at \in {"parameters", "default"}
       \/ s.in # "content"
       \/ s.below # <<>>
  /\ \A schema \in {Last(s.ref) : s \in {t \in doc.holds : t.ref # <<>>}} :
       \A usage \in FindSchemaUsages(doc, schema) : \E s \in doc.holds :
         RefersTo(s, schema) /\ usage = [op |-> s.op, context |-> PlaceOf(s)]
=============================================================================
