---------------------------- MODULE MCOperations ----------------------------
EXTENDS Operations

\* One lookup may say that a name is here, the next that it is there.
MCHosts == {"public", "other", "internal"}
MCBlockedHosts == {"internal"}
MCIPs == {"outside", "inside"}
MCBlockedIPs == {"inside"}
MCSizes == 0..4

\* Two operations under every list of up to two requirements, of which one asks
\* for nothing; a scheme that is declared and not required.
Lists == UNION {[1..n -> {{}, {"key"}}] : n \in 0..2}
SecuredDocuments ==
  [schemes : {{"key", "oauth"}}, security : Lists,
   operations : [{"list", "create"} -> Lists \cup {Unset, Nil}], holds : {{}}]

\* Names of codes, media types, headers and properties; one contains a keyword.
MCWithin ==
  [n \in {"200", "json", "X-Rate", "id", "requestBodyId"} |->
     IF n = "requestBodyId" THEN {"requestBody"} ELSE {}]

\* One inline schema of an operation, or up to two references, everywhere they
\* can be in OpenAPI 2 or 3, at the top or inside another schema.
Reference(schema) == <<"#", "components", "schemas", schema>>
Property(n) == <<Word("properties"), Name(n)>>
Places ==
  [at : {"requestBody"}, in : {"content"}, key : {"json"}]
    \cup [at : {"parameters", "default", "200"}, in : {"content", "schema"}, key : {"json"}]
    \cup [at : {"default", "200"}, in : {"headers"}, key : {"X-Rate"}]
Held(where, refs, below) ==
  {[op |-> "list", at |-> w.at, in |-> w.in, key |-> w.key, below |-> b, ref |-> r] :
     w \in where, b \in below, r \in refs}
Inline ==
  Held(Places, {<<>>}, {<<>>, <<Word("items")>>, Property("id"), Property("requestBodyId")})
References ==
  Held(Places, {Reference(n) : n \in {"pet", "cat"}}, {<<>>, <<Word("items")>>})

DescribedDocuments ==
  [schemes : {{}}, security : {<<>>}, operations : [{"list"} -> {Unset}],
   holds : {{s} : s \in Inline} \cup {{s, t} : s, t \in References}]

MCDocuments == SecuredDocuments \cup DescribedDocuments
=============================================================================
