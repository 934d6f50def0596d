----------------------------- MODULE Operations -----------------------------
(***************************************************************************)
(* The operation handlers of internal/api: validate, convert, fix, diff,   *)
(* join, overlay and the explore upload.  A request is read (input.go,     *)
(* with UrlFetch for the URL mode), parsed, given to the library, written  *)
(* out and answered, and every stage may end it with an error.             *)
(*                                                                         *)
(* The handlers share nothing but the fetcher's kept-alive connections, so *)
(* requests come one after another.  The library (oastools) is external:   *)
(* it may refuse, or give any result.  Contents are their size and format; *)
(* the metrics the handlers enrich are in RequestPipeline, the cache of    *)
(* the explore handlers in Explore.                                        *)
(***************************************************************************)
EXTENDS UrlFetch, Analysis

CONSTANTS
  MaxFileSize,         \* cfg.MaxFileSize
  MaxJoinFileSize,     \* of each input of join
  MaxOverlaySize,      \* of overlay's second input
  MinSpecs, MaxSpecs,  \* how many join takes: 2 and 5
  MaxIssues            \* bound: the parse errors of a document

ASSUME OperationsAssumption ==
  /\ MaxFileSize \in Nat /\ MaxJoinFileSize \in Nat /\ MaxOverlaySize \in Nat
  /\ MinSpecs \in Nat \ {0} /\ MaxSpecs \in Nat /\ MaxIssues \in Nat

API == INSTANCE Routes

VARIABLES
  op,      \* the operation
  at,      \* the stage of its handler
  mode,    \* join's input mode, one for all its inputs
  wanted,  \* how many inputs it reads
  inputs,  \* those read so far
  dry,     \* fix: DryRun
  output,  \* the document written out: its format and parse errors
  verdict, \* fix: classifyParseErrors
  answer   \* of the last request

opVars == <<op, at, mode, wanted, inputs, dry, output, verdict, answer>>
vars == <<fetchVars, opVars>>

\* Where each handler goes after each of its stages, when nothing fails.  convert
\* checks its target and overlays before it parses, join its options after.
ValidatePath == [read |-> "parse", parse |-> "engine", engine |-> "render"]

ConvertPath == [read |-> "options", options |-> "parse", parse |-> "engine",
                engine |-> "serialize", serialize |-> "render"]

FixPath == [read |-> "parse", parse |-> "engine", engine |-> "serialize",
            serialize |-> "reparse", reparse |-> "render"]

DiffPath == [read |-> "parse", parse |-> "engine", engine |-> "render"]

OverlayPath == [read |-> "parse", parse |-> "engine", engine |-> "serialize",
                serialize |-> "render"]

JoinPath == [read |-> "parse", parse |-> "options", options |-> "engine",
             engine |-> "serialize", serialize |-> "render"]

ExplorePath == [read |-> "parse"]

Path == [validate |-> ValidatePath, convert |-> ConvertPath, fix |-> FixPath, diff |-> DiffPath,
         overlay |-> OverlayPath, join |-> JoinPath, explore |-> ExplorePath]

Ops == DOMAIN Path
Writers == {"convert", "fix", "join", "overlay"}
Formats == {"json", "yaml"}
Unparseable == MaxIssues + 1

NoOutput == [format |-> "none", issues |-> 0]
NoVerdict == [known |-> FALSE, submitted |-> 0, remaining |-> 0, reduction |-> 0]
NoAnswer == [status |-> 0, output |-> NoOutput, verdict |-> NoVerdict, doc |-> Nil]

Inputs == [sent : Nat, kept : Nat, format : Formats]
Outputs == [format : Formats \cup {"none"}, issues : 0..Unparseable]
Verdicts == [known : BOOLEAN, submitted : 0..MaxIssues,
             remaining : 0..MaxIssues, reduction : 0..MaxIssues]

OpTypeOK ==
  /\ FetchTypeOK
  /\ op \in Ops /\ mode \in {"any", "file", "paste"}
  /\ at \in {"idle", "read", "fetch", "options", "parse", "engine", "serialize",
             "reparse", "render"}
  /\ wanted \in 1..(MaxSpecs + 2)
  /\ inputs \in Seq(Inputs) /\ Len(inputs) <= wanted
  /\ dry \in BOOLEAN /\ output \in Outputs /\ verdict \in Verdicts
  /\ answer \in [status : {0, 200, 400, 413, 422, 500}, output : Outputs,
                 verdict : Verdicts, doc : Documents \cup {Nil}]

Init ==
  /\ FetchInit
  /\ op = "validate" /\ at = "idle" /\ mode = "any" /\ wanted = 1 /\ inputs = <<>>
  /\ dry = FALSE /\ output = NoOutput /\ verdict = NoVerdict /\ answer = NoAnswer

-----------------------------------------------------------------------------
\* The handler returns an answer.
Answer(a) ==
  at' = "idle" /\ answer' = a /\ UNCHANGED <<op, mode, wanted, inputs, dry, output, verdict>>

\* renderError.
Refuse(status) == Answer([NoAnswer EXCEPT !.status = status])

Goto(stage_) == at' = stage_ /\ UNCHANGED answer

Start(o, m, n) ==
  /\ op' = o /\ at' = "read" /\ mode' = m /\ wanted' = n /\ inputs' = <<>>
  /\ dry' = FALSE /\ output' = NoOutput /\ verdict' = NoVerdict /\ answer' = NoAnswer
  /\ UNCHANGED fetchVars

\* A request for an operation of one or two inputs.
Begin ==
  /\ at = "idle"
  /\ \E o \in Ops \ {"join"} : Start(o, "any", IF o \in {"diff", "overlay"} THEN 2 ELSE 1)

\* A request for join: readMultipleInputs counts the files, or the contents that
\* are not blank, before it reads one, and refuses too few and too many, a form
\* that is not multipart, and a mode that is URL or unknown.
BeginJoin ==
  /\ at = "idle"
  /\ \/ \E m \in {"file", "paste"}, n \in MinSpecs..MaxSpecs : Start("join", m, n)
     \/ /\ op' = "join" /\ answer' = [NoAnswer EXCEPT !.status = 400]
        /\ UNCHANGED <<at, mode, wanted, inputs, dry, output, verdict, fetchVars>>

\* The limit of the input that is read next.
Limit ==
  CASE op = "join"                            -> MaxJoinFileSize
    [] op = "overlay" /\ Len(inputs) = 1      -> MaxOverlaySize
    [] OTHER                                  -> MaxFileSize

\* An input has been read; it is the last one or there are more.
Took(input) ==
  /\ inputs' = Append(inputs, input)
  /\ Goto(IF Len(inputs') < wanted THEN "read" ELSE Path[op].read)
  /\ UNCHANGED <<op, mode, wanted, dry, output, verdict>>

\* Content of which kept of sent bytes were read is checked against the limit.
Admit(sent_, kept) ==
  IF kept = 0 THEN Refuse(400)
  ELSE IF kept > Limit THEN Refuse(413)
  ELSE \E f \in Formats : Took([sent |-> sent_, kept |-> kept, format |-> f])

\* readFileInputWithLimit, readMultipleFileInputs: a file, or none that can be read.
ReadFile ==
  /\ at = "read" /\ mode # "paste"
  /\ Refuse(400) \/ \E n \in Sizes : Admit(n, ReadUpTo(Limit, n))
  /\ UNCHANGED fetchVars

\* readPasteInputWithLimit, readMultiplePasteInputs, whose blanks are gone.
ReadPaste ==
  /\ at = "read" /\ mode # "file"
  /\ \E n \in Sizes : (mode = "paste" => n > 0) /\ Admit(n, n)
  /\ UNCHANGED fetchVars

\* readURLInputWithLimit: no URL (or an unknown mode), or a fetch.
ReadUrl ==
  /\ at = "read" /\ mode = "any"
  /\ \/ Refuse(400) /\ UNCHANGED fetchVars
     \/ Fetch /\ Goto("fetch") /\ UNCHANGED <<op, mode, wanted, inputs, dry, output, verdict>>

Fetching == at = "fetch" /\ FetchSteps /\ UNCHANGED opVars

\* Fetch has returned; the limit may be stricter than its own.
Fetched ==
  /\ at = "fetch" /\ stage = "idle"
  /\ Admit(body.sent, body.kept)
  /\ UNCHANGED fetchVars

-----------------------------------------------------------------------------
Advance(stage_) ==
  /\ Goto(stage_) /\ UNCHANGED <<op, mode, wanted, inputs, dry, output, verdict, fetchVars>>

\* validateTargetVersion, and the optional overlays of convert.
ConvertOptions ==
  /\ at = "options" /\ op = "convert"
  /\ \/ Refuse(400) /\ UNCHANGED fetchVars
     \/ Advance(Path[op].options)

\* The strategies of join, its equivalence and deduplication.
JoinOptions ==
  /\ at = "options" /\ op = "join"
  /\ \/ Refuse(400) /\ UNCHANGED fetchVars
     \/ Advance(Path[op].options)

\* Every input is parsed, and overlay's second one as an overlay.  What fix was
\* given has parse errors of its own; explore walks the document and answers.
Parse ==
  /\ at = "parse"
  /\ UNCHANGED fetchVars
  /\ \/ Refuse(400)
     \/ /\ op # "explore"
        /\ \E n \in 0..(IF op = "fix" THEN MaxIssues ELSE 0) :
             verdict' = [verdict EXCEPT !.submitted = n]
        /\ Goto(Path[op].parse)
        /\ UNCHANGED <<op, mode, wanted, inputs, dry, output>>
     \/ op = "explore" /\ Refuse(500)
     \/ /\ op = "explore"
        /\ \E d \in Documents : Answer([NoAnswer EXCEPT !.status = 200, !.doc = d])

\* Mutant: what the library refuses is unprocessable, whatever the operation.
MutFailure == 422

\* What a refusal of the library is answered with.
Failure == IF op = "validate" THEN 400 ELSE 422

\* The library does its work or refuses.  What fix returns can have any number of
\* parse errors, or not be parseable.
Engine ==
  /\ at = "engine"
  /\ UNCHANGED fetchVars
  /\ \/ Refuse(Failure)
     \/ /\ dry' \in (IF op = "fix" THEN BOOLEAN ELSE {FALSE})
        /\ \E n \in 0..(IF op = "fix" THEN Unparseable ELSE 0) :
             output' = [output EXCEPT !.issues = n]
        /\ Goto(Path[op].engine)
        /\ UNCHANGED <<op, mode, wanted, inputs, verdict>>

\* Mutant: join keeps the format of the input it parsed last.
MutFormat == inputs[Len(inputs)].format

\* The format a result is written in: that of the first input.
Format == inputs[1].format

\* serializeDocument.
Serialize ==
  /\ at = "serialize"
  /\ UNCHANGED fetchVars
  /\ \/ Refuse(500)
     \/ /\ output' = [output EXCEPT !.format = Format]
        /\ Goto(Path[op].serialize)
        /\ UNCHANGED <<op, mode, wanted, inputs, dry, verdict>>

\* Mutant: a reparse that fails is taken for one that finds nothing.
MutVerdict(v, n) ==
  LET left == IF n = Unparseable THEN 0 ELSE n
  IN  [v EXCEPT !.known = TRUE, !.remaining = left,
                !.reduction = IF v.submitted > left THEN v.submitted - left ELSE 0]

\* Mutant: the reduction is not floored.
MutUnfloored(v, n) ==
  IF n = Unparseable THEN v
  ELSE [v EXCEPT !.known = TRUE, !.remaining = n, !.reduction = v.submitted - n]

\* classifyParseErrors: the verdict on an output with n errors.
Verdict(v, n) ==
  IF n = Unparseable THEN v
  ELSE [v EXCEPT !.known = TRUE, !.remaining = n,
                 !.reduction = IF v.submitted > n THEN v.submitted - n ELSE 0]

\* reparseErrors; a dry run is not judged.
Reparse ==
  /\ at = "reparse"
  /\ verdict' = IF dry THEN verdict ELSE Verdict(verdict, output.issues)
  /\ Goto(Path[op].reparse)
  /\ UNCHANGED <<op, mode, wanted, inputs, dry, output, fetchVars>>

\* renderHTML, whose template may fail, or JSON.
Render ==
  /\ at = "render"
  /\ UNCHANGED fetchVars
  /\ \/ Refuse(500)
     \/ Answer([status |-> 200, output |-> output, verdict |-> verdict, doc |-> Nil])

Closing == Hangup /\ UNCHANGED opVars

\* Steps the handler takes by itself once it has a request.
HandlerSteps ==
  \/ ReadFile \/ ReadPaste \/ ReadUrl \/ Fetched \/ ConvertOptions \/ JoinOptions
  \/ Parse \/ Engine \/ Serialize \/ Reparse \/ Render

Next == Begin \/ BeginJoin \/ HandlerSteps \/ Fetching \/ Closing

\* The handler runs on and the fetcher's timeout fires; no server need answer.
Fairness == WF_vars(HandlerSteps) /\ WF_vars(Timeout /\ Fetching)

Spec == Init /\ [][Next]_vars
FairSpec == Spec /\ Fairness

-----------------------------------------------------------------------------
\* What the library gets is what was sent: as many inputs as the operation
\* takes, each of them whole, not empty and within its own limit.  The readers
\* stop one byte after the limit, so that nothing is cut short unnoticed
\* (input.go 47-265, urlfetch.go 256-276).
EngineGetsWhatWasSent ==
  at \in {"options", "parse", "engine", "serialize", "reparse", "render"} =>
    /\ Len(inputs) = wanted
    /\ op = "join" => wanted \in MinSpecs..MaxSpecs
    /\ \A k \in DOMAIN inputs :
         /\ inputs[k].kept = inputs[k].sent
         /\ inputs[k].kept \in 1..(CASE op = "join"               -> MaxJoinFileSize
                                     [] op = "overlay" /\ k = 2   -> MaxOverlaySize
                                     [] OTHER                     -> MaxFileSize)

\* A document that is answered is in the format of the first input, however many
\* there were and whatever the others are in ("first file's format", join.go 163).
ResultKeepsFormat ==
  answer.status = 200 /\ op \in Writers => answer.output.format = inputs[1].format

\* What fix says of its result is true (fix.go 22-43, 219-254): it gives a verdict
\* only on an output it could parse and never on a dry run, lists no problem only
\* when none is left, and claims no more resolved than the counts show.
VerdictIsHonest ==
  LET v == answer.verdict
  IN  answer.status = 200 /\ op = "fix" =>
        /\ v.known <=> ~dry /\ answer.output.issues # Unparseable
        /\ v.known => v.remaining = answer.output.issues
        /\ v.known /\ v.reduction > 0 => answer.output.issues + v.reduction = v.submitted
        /\ ~v.known => v.remaining = 0 /\ v.reduction = 0

\* An operation answers with the statuses its OpenAPI description declares
\* (routes.go), or one that none declares and every one can give: 413 for an
\* input over its limit, 500 for a page or a document that cannot be written.
\* diff alone has a 422 it does not declare (diff.go 99).
Declared(o) == (CHOOSE r \in API!Uploads : API!Named(r) = o).answers

StatusesAreDeclared ==
  \/ answer.status \in {0, 413, 500} \cup Declared(op)
  \/ op = "diff" /\ answer.status = 422

\* The explore page's summary agrees with the lists behind it (Analysis).
CoverageOfAnswer == answer.doc # Nil => CoverageAgrees(answer.doc)

\* The security list's counts agree with the details (Analysis).
UsagesOfAnswer == answer.doc # Nil => UsagesAgree(answer.doc)

\* The schema pages agree on the places schemas are in (Analysis).
SchemaPagesOfAnswer == answer.doc # Nil => SchemaPagesAgree(answer.doc)

\* "countSecurityUsage counts how many operations use each security scheme"
\* (explore.go 264), and the page says "Used by n operations".
SchemeCountIsOperations == answer.doc # Nil => CountsOperations(answer.doc)

\* Every request is answered, also when a server redirects for ever, accepts and
\* says nothing, or stops in the middle of a body.
RequestEnds == at # "idle" ~> at = "idle"
=============================================================================
