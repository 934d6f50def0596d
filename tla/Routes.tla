------------------------------- MODULE Routes -------------------------------
(***************************************************************************)
(* What the server serves: the operations it registers with the statuses   *)
(* their OpenAPI description declares (internal/api/routes.go), the pages  *)
(* (handler.go, servePage), and how middleware reads a path: whether it is *)
(* exempt from limits and metrics, and the operation it is counted as.     *)
(*                                                                         *)
(* A path is the sequence of its segments: "/api/validate" is              *)
(* <<"api", "validate">>, "/" is <<"">>, "/static/" is <<"static", "">>.   *)
(* Methods are left out: a path with another method is not found.          *)
(***************************************************************************)
EXTENDS Naturals, Sequences

Route(path, answers) == [path |-> path, answers |-> answers]

\* A segment that stands for any one segment.
Param == "{name}"

Health  == Route(<<"health">>, {200})
APISpec == Route(<<"api", "spec">>, {200})

ValidateSpec == Route(<<"api", "validate">>, {200, 400})
ConvertSpec  == Route(<<"api", "convert">>, {200, 400, 422})
FixSpec      == Route(<<"api", "fix">>, {200, 400, 422})
DiffSpecs    == Route(<<"api", "diff">>, {200, 400})
JoinSpecs    == Route(<<"api", "join">>, {200, 400, 422})
ApplyOverlay == Route(<<"api", "overlay">>, {200, 400, 422})

ExploreUpload     == Route(<<"api", "explore">>, {200, 400})
ExploreOperations == Route(<<"api", "explore", "operations">>, {200, 404})
ExploreSchemas    == Route(<<"api", "explore", "schemas">>, {200, 404})
ExploreSecurity   == Route(<<"api", "explore", "security">>, {200, 404})

ExploreOperationDetail == Route(<<"api", "explore", "operation">>, {200, 400, 404, 410})
ExploreSchemaDetail    == Route(<<"api", "explore", "schema">>, {200, 400, 404, 410})
ExploreInlineSchemas   == Route(<<"api", "explore", "inline-schemas">>, {200, 400, 410})
ExploreSecurityDetail  == Route(<<"api", "explore", "security-detail">>, {200, 400, 404, 410})
ExploreUnsecured       == Route(<<"api", "explore", "unsecured">>, {200, 400, 410})
ExploreSummaryDetails  == Route(<<"api", "explore", "summary-details">>, {200, 400, 410})

ListExamples == Route(<<"api", "examples">>, {200})
GetExample   == Route(<<"api", "examples", Param>>, {200, 404})

\* The operations that enrich what Metrics counts, and the name they give it.
Uploads == {ValidateSpec, ConvertSpec, FixSpec, DiffSpecs, JoinSpecs, ApplyOverlay, ExploreUpload}
Named(route) == route.path[2]

\* The tabs of the explore page, its other lists, and its details.
Tabs    == {ExploreOperations, ExploreSchemas, ExploreSecurity}
Lists   == {ExploreInlineSchemas, ExploreUnsecured, ExploreSummaryDetails}
Details == {ExploreOperationDetail, ExploreSchemaDetail, ExploreSecurityDetail}

\* registerOperations.
AllRoutes ==
  {Health, APISpec} \cup Uploads \cup Tabs \cup Lists \cup Details \cup {ListExamples, GetExample}

\* servePage.
Pages == {<<"">>, <<"validate">>, <<"convert">>, <<"diff">>, <<"fix">>, <<"join">>,
          <<"overlay">>, <<"explore">>}

-----------------------------------------------------------------------------
\* strings.HasPrefix(path, "/first/").
Under(first, path) == Len(path) >= 2 /\ path[1] = first

Matches(route, path) ==
  /\ Len(route.path) = Len(path)
  /\ \A i \in 1..Len(path) : route.path[i] \in {path[i], Param}

\* route: files to the file server, /api/ and /health to the routes, the rest to
\* servePage; what none of them knows is not found.
Served(path) ==
  CASE Under("static", path)                       -> TRUE
    [] Under("api", path) \/ path = Health.path    -> \E r \in AllRoutes : Matches(r, path)
    [] OTHER                                       -> path \in Pages

\* RateLimiter.Middleware and Metrics let these pass.
Exempt(path) == Under("static", path) \/ path = Health.path

IsUpload(path) == \E r \in Uploads : Matches(r, path)

\* The name the handler of an upload gives to enrich.
EnrichedAs(path) == Named(CHOOSE r \in Uploads : Matches(r, path))

KnownOps == {"validate", "convert", "diff", "fix", "join", "overlay", "explore", "spec"}

Unknown == "unknown"

\* Mutant: what follows the operation's name is not cut off.
MutOperationFromPath(path) ==
  IF Under("api", path) /\ Len(path) = 2 /\ path[2] \in KnownOps THEN path[2] ELSE Unknown

OperationFromPath(path) ==
  IF Under("api", path) /\ path[2] \in KnownOps THEN path[2] ELSE Unknown
=============================================================================
