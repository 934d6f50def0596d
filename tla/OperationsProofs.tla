-------------------------- MODULE OperationsProofs --------------------------
(***************************************************************************)
(* Theorems about Operations and the fetcher it uses: every behaviour of   *)
(* the handlers is one of the fetcher, the fetcher talks to nobody it      *)
(* should not and stays within its bounds, and the library is given what   *)
(* was sent.                                                               *)
(***************************************************************************)
EXTENDS Operations, AnalysisProofs, FiniteSetTheorems, TLAPS

\* What Fetch knows between its steps.
Underway ==
  /\ stage \in {"connect", "exchange", "body"} => host \in Hosts
  /\ stage = "connect" => sent < MaxRequests
  /\ stage \in {"exchange", "body"} => peer \in IPs

FetchInv == FetchTypeOK /\ OnlyAllowedPeers /\ FetchIsBounded /\ Underway

\* A fetch that ends leaves the fetcher as it should be, if the pool is and the
\* body it returns is.
LEMMA ReturnKeeps ==
  ASSUME NEW b, b \in [sent : Nat, kept : Nat], b.kept = b.sent, b.kept <= FetchLimit,
         Return(b), idle' \subseteq Hosts \X IPs,
         \A c \in idle' : c[1] \notin BlockedHosts /\ c[2] \notin BlockedIPs
  PROVE  FetchInv'
BY FetchAssumption
   DEF Return, FetchInv, FetchTypeOK, OnlyAllowedPeers, FetchIsBounded, Underway

LEMMA FailKeeps ==
  ASSUME FetchInv, Fail, idle' \subseteq Hosts \X IPs,
         \A c \in idle' : c[1] \notin BlockedHosts /\ c[2] \notin BlockedIPs
  PROVE  FetchInv'
<1>1. Failed \in [sent : Nat, kept : Nat] /\ Failed.kept = Failed.sent /\ Failed.kept <= FetchLimit
  BY FetchAssumption DEF Failed
<1> QED BY <1>1, ReturnKeeps DEF Fail

\* A connection that is released was to an allowed address.
LEMMA ReleaseKeeps ==
  ASSUME FetchInv, Release, stage \in {"exchange", "body"}
  PROVE  /\ idle' \subseteq Hosts \X IPs
         /\ \A c \in idle' : c[1] \notin BlockedHosts /\ c[2] \notin BlockedIPs
BY DEF FetchInv, Release, FetchTypeOK, OnlyAllowedPeers, Underway

LEMMA PoolStays ==
  ASSUME FetchInv, UNCHANGED idle
  PROVE  /\ idle' \subseteq Hosts \X IPs
         /\ \A c \in idle' : c[1] \notin BlockedHosts /\ c[2] \notin BlockedIPs
BY DEF FetchInv, FetchTypeOK, OnlyAllowedPeers

LEMMA FetchKeeps == ASSUME FetchInv, Fetch PROVE FetchInv'
<1>1. CASE Fail
  BY <1>1, FailKeeps, PoolStays DEF Fetch
<1>2. CASE \E h \in Hosts : ~BlockedHost(h) /\ Ask(h) /\ sent' = 0 /\ body' = Failed
  BY <1>2, PoolStays, FetchAssumption
     DEF Fetch, Ask, BlockedHost, Failed, FetchInv, FetchTypeOK, OnlyAllowedPeers, FetchIsBounded, Underway
<1> QED BY <1>1, <1>2 DEF Fetch

\* The address that is dialled was among those looked up, and none was blocked.
LEMMA DialAllowed ==
  ASSUME NEW ips \in Resolved, NEW a \in Dial(ips)
  PROVE  a \in IPs \ BlockedIPs
<1>1. PICK n \in 1..MaxAddresses : ips \in [1..n -> IPs]
  BY DEF Resolved
<1>2. n \in Nat \ {0} /\ 1 \in 1..n
  BY <1>1, FetchAssumption
<1>3. a = ips[1] /\ \A i \in DOMAIN ips : ips[i] \notin BlockedIPs
  BY DEF Dial, BlockedIP
<1> QED BY <1>1, <1>2, <1>3

LEMMA ConnectKeeps == ASSUME FetchInv, Connect PROVE FetchInv'
<1> USE FetchAssumption
<1>1. ASSUME NEW c \in idle, c[1] = host, peer' = c[2], idle' = idle \ {c},
             stage' = "exchange", sent' = sent + 1, UNCHANGED <<host, body>>
      PROVE  FetchInv'
  BY <1>1 DEF Connect, FetchInv, FetchTypeOK, OnlyAllowedPeers, FetchIsBounded, Underway
<1>2. ASSUME NEW ips \in Resolved, UNCHANGED idle, peer' \in Dial(ips),
             stage' = "exchange", sent' = sent + 1, UNCHANGED <<host, body>>
      PROVE  FetchInv'
  <2>1. peer' \in IPs \ BlockedIPs
    BY <1>2, DialAllowed
  <2> QED BY <1>2, <2>1
          DEF Connect, FetchInv, FetchTypeOK, OnlyAllowedPeers, FetchIsBounded, Underway
<1>3. ASSUME Fail, UNCHANGED idle PROVE FetchInv'
  BY <1>3, FailKeeps, PoolStays
<1> QED BY <1>1, <1>2, <1>3 DEF Connect

LEMMA RedirectKeeps == ASSUME FetchInv, Redirect PROVE FetchInv'
<1>1. PICK h \in Hosts :
        IF TooMany \/ BlockedHost(h) THEN Fail ELSE Ask(h) /\ UNCHANGED <<sent, body>>
  BY DEF Redirect
<1>2. CASE TooMany \/ BlockedHost(h)
  BY <1>1, <1>2, FailKeeps, ReleaseKeeps DEF Redirect
<1>3. CASE ~(TooMany \/ BlockedHost(h))
  <2>1. sent < MaxRequests
    BY <1>3, FetchAssumption DEF TooMany, FetchInv, FetchTypeOK
  <2> QED BY <1>1, <1>3, <2>1, ReleaseKeeps, FetchAssumption
          DEF Redirect, Ask, BlockedHost, FetchInv, FetchTypeOK, OnlyAllowedPeers, FetchIsBounded, Underway
<1> QED BY <1>2, <1>3

LEMMA AcceptKeeps == ASSUME FetchInv, Accept PROVE FetchInv'
<1>1. CASE Fail
  BY <1>1, FailKeeps, PoolStays DEF Accept
<1>2. CASE stage' = "body" /\ UNCHANGED <<host, peer, sent, body>>
  BY <1>2 DEF Accept, FetchInv, FetchTypeOK, OnlyAllowedPeers, FetchIsBounded, Underway
<1> QED BY <1>1, <1>2 DEF Accept

\* A reader that admits one byte over the limit cuts nothing short unnoticed.
LEMMA NothingCutShort ==
  ASSUME NEW limit \in Nat, NEW n \in Nat, ReadUpTo(limit, n) <= limit
  PROVE  ReadUpTo(limit, n) = n
BY DEF ReadUpTo

LEMMA ReadBodyKeeps == ASSUME FetchInv, ReadBody PROVE FetchInv'
<1>1. PICK n \in Sizes :
        IF ReadUpTo(FetchLimit, n) > FetchLimit \/ ReadUpTo(FetchLimit, n) = 0 THEN Fail
        ELSE Return([sent |-> n, kept |-> ReadUpTo(FetchLimit, n)])
  BY DEF ReadBody
<1>2. n \in Nat /\ ReadUpTo(FetchLimit, n) \in Nat
  BY FetchAssumption DEF ReadUpTo
<1>3. CASE Fail
  BY <1>3, FailKeeps, ReleaseKeeps DEF ReadBody
<1>4. CASE ~(ReadUpTo(FetchLimit, n) > FetchLimit \/ ReadUpTo(FetchLimit, n) = 0)
  <2>1. ReadUpTo(FetchLimit, n) = n /\ n <= FetchLimit
    BY <1>2, <1>4, NothingCutShort, FetchAssumption
  <2>2. Return([sent |-> n, kept |-> n])
    BY <1>1, <1>4, <2>1
  <2> QED BY <1>2, <2>1, <2>2, ReturnKeeps, ReleaseKeeps DEF ReadBody
<1> QED BY <1>1, <1>3, <1>4

LEMMA FetchNextKeeps == ASSUME FetchInv, [FetchNext]_fetchVars PROVE FetchInv'
<1>1. CASE Timeout
  BY <1>1, FailKeeps, PoolStays DEF Timeout
<1>2. CASE Hangup
  BY <1>2 DEF Hangup, FetchInv, FetchTypeOK, OnlyAllowedPeers, FetchIsBounded, Underway
<1>3. CASE UNCHANGED fetchVars
  BY <1>3 DEF fetchVars, FetchInv, FetchTypeOK, OnlyAllowedPeers, FetchIsBounded, Underway
<1> QED BY <1>1, <1>2, <1>3, FetchKeeps, ConnectKeeps, RedirectKeeps, AcceptKeeps, ReadBodyKeeps
        DEF FetchNext, FetchSteps

LEMMA FetchInvHolds == FetchSpec => []FetchInv
<1>1. FetchInit => FetchInv
  BY FetchAssumption DEF FetchInit, Failed, FetchInv, FetchTypeOK, OnlyAllowedPeers,
     FetchIsBounded, Underway
<1> QED BY <1>1, FetchNextKeeps, PTL DEF FetchSpec

\* A step of a handler is one of the fetcher, or does not touch it.
LEMMA StepsOfFetcher == Next => [FetchNext]_fetchVars
<1> SUFFICES ASSUME Next PROVE FetchNext \/ UNCHANGED fetchVars
  OBVIOUS
<1>1. CASE Begin \/ BeginJoin
  BY <1>1 DEF Begin, BeginJoin, Start
<1>2. CASE ReadUrl
  BY <1>2 DEF ReadUrl, FetchNext
<1>3. CASE Fetching \/ Closing
  BY <1>3 DEF Fetching, Closing, FetchNext
<1>4. CASE ReadFile \/ ReadPaste \/ Fetched \/ Parse \/ Engine \/ Serialize \/ Render
  BY <1>4 DEF ReadFile, ReadPaste, Fetched, Parse, Engine, Serialize, Render
<1>5. CASE ConvertOptions \/ JoinOptions \/ Reparse
  BY <1>5 DEF ConvertOptions, JoinOptions, Advance, Reparse, fetchVars
<1> QED BY <1>1, <1>2, <1>3, <1>4, <1>5 DEF Next, HandlerSteps

\* The handlers use the fetcher as it is meant: their behaviours are its own.
THEOREM UsesFetcher == Spec => FetchSpec
<1>1. Init => FetchInit
  BY DEF Init
<1>2. [Next]_vars => [FetchNext]_fetchVars
  BY StepsOfFetcher DEF vars
<1> QED BY <1>1, <1>2, PTL DEF Spec, FetchSpec

\* Whatever the resolver and the servers do, no request of any operation is for a
\* blocked host or goes to a blocked address, over a new connection or an old one.
THEOREM PeersAreAllowed == Spec => []OnlyAllowedPeers
<1>1. FetchInv => OnlyAllowedPeers
  BY DEF FetchInv
<1> QED BY <1>1, UsesFetcher, FetchInvHolds, PTL

\* However servers redirect, a fetch sends a bounded number of requests, and the
\* body it returns is what was sent.
THEOREM FetchesAreBounded == Spec => []FetchIsBounded
<1>1. FetchInv => FetchIsBounded
  BY DEF FetchInv
<1> QED BY <1>1, UsesFetcher, FetchInvHolds, PTL

-----------------------------------------------------------------------------
\* Every stage leads on to one that needs no more than what is there.
LEMMA Paths ==
  ASSUME NEW o \in Ops
  PROVE  /\ Path[o].read \in {"options", "parse"}
         /\ o # "explore" => /\ Path[o].parse \in {"options", "engine"}
                             /\ Path[o].engine = IF o \in Writers THEN "serialize" ELSE "render"
         /\ o \in Writers => Path[o].serialize = IF o = "fix" THEN "reparse" ELSE "render"
         /\ o \in {"convert", "join"} => Path[o].options \in {"parse", "engine"}
         /\ Path["fix"].reparse = "render"
<1>1. o \in {"validate", "convert", "fix", "diff", "overlay", "join", "explore"}
  BY DEF Ops, Path
<1> QED
  BY <1>1 DEF Path, Writers, ValidatePath, ConvertPath, FixPath, DiffPath, OverlayPath, JoinPath,
     ExplorePath

\* The limit of an operation's k-th input.
LimitOf(o, k) ==
  IF o = "join" THEN MaxJoinFileSize
  ELSE IF o = "overlay" /\ k = 2 THEN MaxOverlaySize ELSE MaxFileSize

Whole(o, k, input) == input.kept = input.sent /\ input.kept \in 1..LimitOf(o, k)

ReadStages == {"read", "fetch"}
LateStages == {"options", "parse", "engine", "serialize", "reparse", "render"}

\* Only handlers whose paths have them come to these stages.
OnPath ==
  /\ at = "engine" => op # "explore"
  /\ at = "serialize" => op \in Writers
  /\ at = "reparse" => op = "fix"

\* The inputs read so far are whole, and stages that need all of them have them.
InputsInv ==
  /\ op \in Ops /\ wanted \in Nat \ {0} /\ inputs \in Seq(Inputs)
  /\ at \in {"idle"} \cup ReadStages \cup LateStages /\ OnPath
  /\ at \in ReadStages => Len(inputs) < wanted
  /\ at \in LateStages => Len(inputs) = wanted
  /\ at # "idle" /\ op = "join" => wanted \in MinSpecs..MaxSpecs
  /\ at # "idle" => \A k \in DOMAIN inputs : Whole(op, k, inputs[k])

Unread == UNCHANGED <<op, wanted, inputs>>

\* A step that reads nothing keeps the invariant, if it goes to a stage that needs
\* no more than the one it leaves.
LEMMA UnreadKeeps ==
  ASSUME InputsInv, Unread, OnPath',
         \/ at' = "idle" \/ at' = at
         \/ at \in LateStages /\ at' \in LateStages
         \/ at \in ReadStages /\ at' \in ReadStages
  PROVE  InputsInv'
BY DEF InputsInv, Unread, ReadStages, LateStages

LEMMA RefuseKeeps == ASSUME InputsInv, NEW status, Refuse(status) PROVE InputsInv'
BY UnreadKeeps DEF Refuse, Answer, Unread, OnPath

LEMMA StartKeeps ==
  ASSUME InputsInv, NEW o \in Ops, NEW m, NEW n \in Nat \ {0}, Start(o, m, n),
         o = "join" => n \in MinSpecs..MaxSpecs
  PROVE  InputsInv'
BY DEF InputsInv, Start, ReadStages, LateStages, OnPath

\* An input that is taken is whole and within the limit of its place.
LEMMA TookKeeps ==
  ASSUME InputsInv, at \in ReadStages, NEW input \in Inputs, Took(input),
         input.kept = input.sent, input.kept \in 1..Limit
  PROVE  InputsInv'
<1> DEFINE n == Len(inputs)
<1>1. /\ inputs \in Seq(Inputs) /\ n \in Nat /\ n < wanted /\ wanted \in Nat
      /\ inputs' = Append(inputs, input) /\ UNCHANGED <<op, wanted>>
  BY DEF InputsInv, Took
<1>2. /\ inputs' \in Seq(Inputs) /\ Len(inputs') = n + 1 /\ DOMAIN inputs' = 1..(n + 1)
      /\ inputs'[n + 1] = input /\ \A k \in 1..n : inputs'[k] = inputs[k]
  BY <1>1
<1>3. Whole(op, n + 1, input)
  <2>1. Limit = LimitOf(op, n + 1)
    <3>0. \A m \in Nat : (m = 1) <=> (m + 1 = 2)
      OBVIOUS
    <3>1. (n = 1) <=> (n + 1 = 2)
      BY <1>1, <3>0
    <3> HIDE DEF n
    <3>2. CASE op = "join"
      BY <3>2 DEF Limit, LimitOf
    <3>3. CASE op = "overlay" /\ n = 1
      BY <3>1, <3>3 DEF Limit, LimitOf, n
    <3>4. CASE op # "join" /\ ~(op = "overlay" /\ n = 1)
      BY <3>1, <3>4 DEF Limit, LimitOf, n
    <3> QED BY <3>2, <3>3, <3>4
  <2> QED BY <2>1 DEF Whole
<1>4. \A k \in 1..n : Whole(op, k, inputs[k])
  BY <1>1 DEF InputsInv, ReadStages
<1>5. IF n + 1 < wanted THEN at' = "read" ELSE at' \in {"options", "parse"}
  BY <1>2, Paths DEF Took, Goto, InputsInv
<1>6. \A k \in DOMAIN inputs' : Whole(op', k, inputs'[k])
  BY <1>1, <1>2, <1>3, <1>4
<1> QED BY <1>1, <1>2, <1>5, <1>6 DEF InputsInv, ReadStages, LateStages, OnPath

LEMMA AdmitKeeps ==
  ASSUME InputsInv, at \in ReadStages, NEW n \in Nat, NEW kept \in Nat, Admit(n, kept),
         kept <= Limit => kept = n
  PROVE  InputsInv'
<1> USE OperationsAssumption
<1>1. Limit \in Nat
  BY DEF Limit
<1>2. CASE kept = 0
  BY <1>2, RefuseKeeps DEF Admit
<1>3. CASE kept > Limit
  BY <1>2, <1>3, RefuseKeeps DEF Admit
<1>4. CASE kept # 0 /\ ~(kept > Limit)
  <2>1. PICK f \in Formats : Took([sent |-> n, kept |-> kept, format |-> f])
    BY <1>4 DEF Admit
  <2>2. kept = n /\ kept \in 1..Limit
    BY <1>1, <1>4
  <2> QED BY <2>1, <2>2, TookKeeps DEF Inputs
<1> QED BY <1>2, <1>3, <1>4

LEMMA InputsKept == ASSUME InputsInv, FetchInv, [Next]_vars PROVE InputsInv'
<1> USE OperationsAssumption, FetchAssumption
<1>0. Limit \in Nat
  BY DEF Limit
<1>a. op \in Ops
  BY DEF InputsInv
<1>1. CASE Begin
  <2>1. PICK o \in Ops \ {"join"} : Start(o, "any", IF o \in {"diff", "overlay"} THEN 2 ELSE 1)
    BY <1>1 DEF Begin
  <2> QED BY <2>1, StartKeeps
<1>2. CASE BeginJoin
  <2>1. ASSUME NEW m \in {"file", "paste"}, NEW n \in MinSpecs..MaxSpecs, Start("join", m, n)
        PROVE  InputsInv'
    BY <2>1, StartKeeps DEF Ops, Path
  <2>2. ASSUME at = "idle", op' = "join", UNCHANGED <<at, wanted, inputs>>
        PROVE  InputsInv'
    BY <2>2 DEF InputsInv, Ops, Path, OnPath, ReadStages, LateStages
  <2> QED BY <1>2, <2>1, <2>2 DEF BeginJoin
<1>3. CASE ReadFile
  <2>1. ASSUME NEW n \in Sizes, Admit(n, ReadUpTo(Limit, n)) PROVE InputsInv'
    <3>1. n \in Nat /\ ReadUpTo(Limit, n) \in Nat
      BY <1>0 DEF ReadUpTo
    <3> QED BY <1>0, <1>3, <2>1, <3>1, NothingCutShort, AdmitKeeps DEF ReadFile, ReadStages
  <2> QED BY <1>3, <2>1, RefuseKeeps DEF ReadFile
<1>4. CASE ReadPaste
  <2>1. PICK n \in Sizes : Admit(n, n)
    BY <1>4 DEF ReadPaste
  <2> QED BY <1>4, <2>1, AdmitKeeps DEF ReadPaste, ReadStages
<1>5. CASE ReadUrl
  BY <1>5, RefuseKeeps, UnreadKeeps DEF ReadUrl, Goto, Unread, ReadStages, OnPath
<1>6. CASE Fetched
  <2>1. body.sent \in Nat /\ body.kept \in Nat /\ body.kept = body.sent
    BY DEF FetchInv, FetchTypeOK, FetchIsBounded
  <2> QED BY <1>6, <2>1, AdmitKeeps DEF Fetched, ReadStages
<1>7. CASE ConvertOptions \/ JoinOptions
  <2>1. ASSUME Advance(Path[op].options), op \in {"convert", "join"}, at = "options"
        PROVE  InputsInv'
    BY <2>1, <1>a, Paths, UnreadKeeps DEF Advance, Goto, Unread, OnPath, LateStages
  <2> QED BY <1>7, <2>1, RefuseKeeps DEF ConvertOptions, JoinOptions
<1>8. CASE Parse
  <2>1. ASSUME op # "explore", Goto(Path[op].parse), at = "parse", Unread PROVE InputsInv'
    <3>1. at' \in {"options", "engine"} /\ op' = op
      BY <2>1, <1>a, Paths DEF Goto, Unread
    <3> QED BY <2>1, <3>1, UnreadKeeps DEF OnPath, LateStages
  <2>2. ASSUME at' = "idle", Unread PROVE InputsInv'
    BY <2>2, UnreadKeeps DEF OnPath
  <2> QED BY <1>8, <2>1, <2>2, RefuseKeeps DEF Parse, Answer, Unread
<1>9. CASE Engine
  <2>1. ASSUME Goto(Path[op].engine), Unread PROVE InputsInv'
    <3>1. at = "engine" /\ op # "explore" /\ op' = op
      BY <1>9, <2>1 DEF Engine, OnPath, InputsInv, Unread
    <3>2. at' = IF op \in Writers THEN "serialize" ELSE "render"
      BY <2>1, <3>1, <1>a, Paths DEF Goto
    <3> QED BY <2>1, <3>1, <3>2, UnreadKeeps DEF OnPath, LateStages
  <2> QED BY <1>9, <2>1, RefuseKeeps DEF Engine, Unread
<1>10. CASE Serialize
  <2>1. ASSUME Goto(Path[op].serialize), Unread PROVE InputsInv'
    <3>1. at = "serialize" /\ op \in Writers /\ op' = op
      BY <1>10, <2>1 DEF Serialize, OnPath, InputsInv, Unread
    <3>2. at' = IF op = "fix" THEN "reparse" ELSE "render"
      BY <2>1, <3>1, <1>a, Paths DEF Goto
    <3> QED BY <2>1, <3>1, <3>2, UnreadKeeps DEF OnPath, LateStages
  <2> QED BY <1>10, <2>1, RefuseKeeps DEF Serialize, Unread
<1>11. CASE Reparse
  <2>1. op = "fix" /\ at' = "render" /\ at = "reparse" /\ Unread
    BY <1>11, <1>a, Paths DEF Reparse, Goto, Unread, OnPath, InputsInv
  <2> QED BY <2>1, UnreadKeeps DEF OnPath, LateStages
<1>12. CASE Render
  BY <1>12, RefuseKeeps, UnreadKeeps DEF Render, Answer, Unread, OnPath
<1>13. CASE Fetching \/ Closing \/ UNCHANGED vars
  BY <1>13, UnreadKeeps DEF Fetching, Closing, vars, opVars, Unread, OnPath, InputsInv
<1> QED BY <1>1, <1>2, <1>3, <1>4, <1>5, <1>6, <1>7, <1>8, <1>9, <1>10, <1>11, <1>12, <1>13
        DEF Next, HandlerSteps

\* The library is given what was sent: every input of the operation, whole, not
\* empty and within its own limit, whatever the limits and the sizes are.
THEOREM EngineInputsAreWhole == Spec => []EngineGetsWhatWasSent
<1>1. Init => InputsInv
  BY DEF Init, InputsInv, Ops, Path, ReadStages, LateStages, OnPath
<1>2. InputsInv => EngineGetsWhatWasSent
  BY DEF InputsInv, EngineGetsWhatWasSent, Whole, LimitOf, LateStages
<1> QED BY <1>1, <1>2, InputsKept, UsesFetcher, FetchInvHolds, PTL DEF Spec

-----------------------------------------------------------------------------
Judged(v, o) ==
  /\ v.known <=> ~dry /\ o.issues # Unparseable
  /\ v.known => v.remaining = o.issues
  /\ v.known /\ v.reduction > 0 => o.issues + v.reduction = v.submitted
  /\ ~v.known => v.remaining = 0 /\ v.reduction = 0

Unjudged == ~verdict.known /\ verdict.remaining = 0 /\ verdict.reduction = 0

\* What a handler has at hand to answer, from its first stage to its answer.
OutcomeInv ==
  /\ InputsInv
  /\ verdict \in Verdicts /\ output \in Outputs /\ dry \in BOOLEAN
  /\ at # "idle" => answer.status = 0
  /\ at \in ReadStages \cup (LateStages \ {"render"}) => Unjudged
  /\ at = "reparse" => op = "fix"
  /\ at = "reparse" \/ (at = "render" /\ op \in Writers) => output.format = Format
  /\ at = "render" /\ op = "fix" => Judged(verdict, output)
  /\ ResultKeepsFormat
  /\ VerdictIsHonest

\* A refusal says nothing of a result.
LEMMA RefusalSaysNothing ==
  ASSUME OutcomeInv, InputsInv', NEW status \in {400, 413, 422, 500}, Refuse(status)
  PROVE  OutcomeInv'
BY DEF Refuse, Answer, NoAnswer, OutcomeInv, ReadStages, LateStages, ResultKeepsFormat,
   VerdictIsHonest

LEMMA NothingIsTyped ==
  /\ NoVerdict \in Verdicts /\ NoOutput \in Outputs
  /\ ~NoVerdict.known /\ NoVerdict.remaining = 0 /\ NoVerdict.reduction = 0
  /\ NoAnswer.status = 0
BY OperationsAssumption DEF NoVerdict, NoOutput, NoAnswer, Verdicts, Outputs, Unparseable

LEMMA StartSaysNothing ==
  ASSUME OutcomeInv, InputsInv', NEW o, NEW m, NEW n, Start(o, m, n)
  PROVE  OutcomeInv'
<1>1. /\ at' = "read" /\ answer' = NoAnswer /\ dry' = FALSE
      /\ output' = NoOutput /\ verdict' = NoVerdict
  BY DEF Start
<1>2. verdict' \in Verdicts /\ output' \in Outputs /\ Unjudged'
  BY <1>1, NothingIsTyped DEF Unjudged
<1>3. ResultKeepsFormat' /\ VerdictIsHonest'
  BY <1>1, NothingIsTyped DEF ResultKeepsFormat, VerdictIsHonest
<1> QED BY <1>1, <1>2, <1>3, NothingIsTyped DEF OutcomeInv

\* A stage that neither writes out nor judges goes on to one that needs neither.
LEMMA EarlyStages ==
  ASSUME OutcomeInv, InputsInv', at # "idle", at # "render", UNCHANGED <<op, dry, answer>>,
         verdict' \in Verdicts, output' \in Outputs, Unjudged',
         at' \in {"read", "fetch", "options", "parse", "engine", "serialize"}
           \/ (at' = "render" /\ op \notin Writers)
  PROVE  OutcomeInv'
BY DEF OutcomeInv, ResultKeepsFormat, VerdictIsHonest, Writers, ReadStages, LateStages

LEMMA AdmitSaysNothing ==
  ASSUME OutcomeInv, InputsInv', at \in ReadStages, NEW n, NEW kept, Admit(n, kept)
  PROVE  OutcomeInv'
<1>1. ASSUME NEW input, Took(input) PROVE OutcomeInv'
  <2>1. at' \in {"read", "options", "parse"}
    BY <1>1, Paths DEF Took, Goto, OutcomeInv, InputsInv
  <2> QED BY <1>1, <2>1, EarlyStages DEF Took, Goto, OutcomeInv, Unjudged, ReadStages, LateStages
<1>2. CASE Refuse(400) \/ Refuse(413)
  BY <1>2, RefusalSaysNothing
<1> QED BY <1>1, <1>2 DEF Admit

\* A verdict is right about the output it is on.
LEMMA VerdictIsRight ==
  ASSUME NEW v \in Verdicts, ~v.known, v.remaining = 0, v.reduction = 0, NEW n \in 0..Unparseable
  PROVE  /\ Verdict(v, n) \in Verdicts
         /\ Verdict(v, n).known <=> n # Unparseable
         /\ Verdict(v, n).known => Verdict(v, n).remaining = n
         /\ Verdict(v, n).known /\ Verdict(v, n).reduction > 0 =>
              n + Verdict(v, n).reduction = Verdict(v, n).submitted
         /\ ~Verdict(v, n).known => Verdict(v, n).remaining = 0 /\ Verdict(v, n).reduction = 0
<1> USE OperationsAssumption
<1>1. CASE n = Unparseable
  BY <1>1 DEF Verdict
<1>2. CASE n # Unparseable
  <2>1. n \in 0..MaxIssues
    BY <1>2 DEF Unparseable
  <2>2. Verdict(v, n) = [known |-> TRUE, submitted |-> v.submitted, remaining |-> n,
                         reduction |-> IF v.submitted > n THEN v.submitted - n ELSE 0]
    BY <1>2 DEF Verdict, Verdicts
  <2>3. v.submitted \in 0..MaxIssues
    BY DEF Verdicts
  <2> QED BY <1>2, <2>1, <2>2, <2>3 DEF Verdicts
<1> QED BY <1>1, <1>2

LEMMA ReparseJudges == ASSUME OutcomeInv, InputsInv', Reparse PROVE OutcomeInv'
<1>1. /\ at = "reparse" /\ at' = "render" /\ op = "fix" /\ verdict \in Verdicts /\ Unjudged
      /\ UNCHANGED <<op, inputs, dry, output, answer>> /\ answer.status = 0 /\ dry \in BOOLEAN
      /\ output.format = Format /\ output.issues \in 0..Unparseable
  BY Paths DEF Reparse, Goto, OutcomeInv, InputsInv, ReadStages, LateStages, Outputs
<1>2. verdict' \in Verdicts /\ Judged(verdict', output)
  <2>1. CASE dry
    BY <1>1, <2>1 DEF Reparse, Judged, Unjudged
  <2>2. CASE ~dry
    <3>1. verdict' = Verdict(verdict, output.issues)
      BY <2>2 DEF Reparse
    <3> QED BY <1>1, <2>2, <3>1, VerdictIsRight DEF Judged, Unjudged
  <2> QED BY <2>1, <2>2
<1> QED BY <1>1, <1>2
        DEF OutcomeInv, Judged, Format, ReadStages, LateStages, ResultKeepsFormat, VerdictIsHonest

LEMMA OutcomeKept ==
  ASSUME OutcomeInv, FetchInv, [Next]_vars PROVE OutcomeInv'
<1>0. InputsInv'
  BY InputsKept DEF OutcomeInv
<1>a. op \in Ops
  BY DEF OutcomeInv, InputsInv
<1>1. CASE Begin \/ BeginJoin
  <2>1. ASSUME at = "idle", at' = at, answer' = [NoAnswer EXCEPT !.status = 400],
               UNCHANGED <<dry, output, verdict>>
        PROVE  OutcomeInv'
    BY <1>0, <2>1 DEF OutcomeInv, NoAnswer, ReadStages, LateStages, ResultKeepsFormat, VerdictIsHonest
  <2> QED BY <1>0, <1>1, <2>1, StartSaysNothing DEF Begin, BeginJoin
<1>2. CASE ReadFile \/ ReadPaste \/ Fetched
  BY <1>0, <1>2, AdmitSaysNothing, RefusalSaysNothing DEF ReadFile, ReadPaste, Fetched, ReadStages
<1>3. CASE ReadUrl
  <2>1. CASE Refuse(400)
    BY <1>0, <2>1, RefusalSaysNothing
  <2>2. CASE Goto("fetch") /\ UNCHANGED <<op, mode, wanted, inputs, dry, output, verdict>>
    BY <1>0, <1>3, <2>2, EarlyStages DEF ReadUrl, Goto, OutcomeInv, Unjudged, ReadStages
  <2> QED BY <1>3, <2>1, <2>2 DEF ReadUrl
<1>4. CASE ConvertOptions \/ JoinOptions
  <2>1. CASE Refuse(400)
    BY <1>0, <2>1, RefusalSaysNothing
  <2>2. CASE Advance(Path[op].options)
    BY <1>0, <1>a, <1>4, <2>2, Paths, EarlyStages DEF ConvertOptions, JoinOptions, Advance, Goto, OutcomeInv, Unjudged, LateStages
  <2> QED BY <1>4, <2>1, <2>2 DEF ConvertOptions, JoinOptions
<1>5. CASE Parse
  <2>1. CASE Refuse(400) \/ Refuse(500)
    BY <1>0, <2>1, RefusalSaysNothing
  <2>2. ASSUME NEW n \in 0..MaxIssues, verdict' = [verdict EXCEPT !.submitted = n],
               op # "explore", Goto(Path[op].parse),
               UNCHANGED <<op, mode, wanted, inputs, dry, output>>
        PROVE  OutcomeInv'
    <3>1. verdict' \in Verdicts /\ Unjudged'
      BY <1>5, <2>2 DEF Parse, OutcomeInv, Verdicts, Unjudged, LateStages
    <3> QED BY <1>0, <1>a, <1>5, <2>2, <3>1, Paths, EarlyStages DEF Parse, Goto, OutcomeInv
  <2>3. ASSUME NEW d, op = "explore", Answer([NoAnswer EXCEPT !.status = 200, !.doc = d])
        PROVE  OutcomeInv'
    BY <1>0, <2>3 DEF Answer, NoAnswer, OutcomeInv, Writers, ReadStages, LateStages,
       ResultKeepsFormat, VerdictIsHonest
  <2>4. ASSUME \E n \in 0..(IF op = "fix" THEN MaxIssues ELSE 0) :
                 verdict' = [verdict EXCEPT !.submitted = n]
        PROVE  \E n \in 0..MaxIssues : verdict' = [verdict EXCEPT !.submitted = n]
    BY <2>4, OperationsAssumption
  <2> QED BY <1>5, <2>1, <2>2, <2>3, <2>4 DEF Parse
<1>6. CASE Engine
  <2>1. CASE Refuse(Failure)
    BY <1>0, <2>1, RefusalSaysNothing DEF Failure
  <2>2. ASSUME NEW n \in 0..Unparseable, output' = [output EXCEPT !.issues = n], dry' \in BOOLEAN,
               Goto(Path[op].engine),
               UNCHANGED <<op, mode, wanted, inputs, verdict>>
        PROVE  OutcomeInv'
    <3>1. output' \in Outputs
      BY <2>2 DEF OutcomeInv, Outputs
    <3>2. at' = IF op \in Writers THEN "serialize" ELSE "render"
      BY <1>6, <1>a, <2>2, Paths DEF Engine, Goto, OutcomeInv, InputsInv, OnPath
    <3> QED BY <1>0, <1>6, <2>2, <3>1, <3>2
            DEF Engine, Goto, OutcomeInv, Unjudged, Writers, ReadStages, LateStages,
            ResultKeepsFormat, VerdictIsHonest
  <2>3. ASSUME \E n \in 0..(IF op = "fix" THEN Unparseable ELSE 0) :
                 output' = [output EXCEPT !.issues = n]
        PROVE  \E n \in 0..Unparseable : output' = [output EXCEPT !.issues = n]
    BY <2>3, OperationsAssumption DEF Unparseable
  <2> QED BY <1>6, <2>1, <2>2, <2>3 DEF Engine
<1>7. CASE Serialize
  <2>1. CASE Refuse(500)
    BY <1>0, <2>1, RefusalSaysNothing
  <2>2. CASE /\ output' = [output EXCEPT !.format = Format]
             /\ Goto(Path[op].serialize)
             /\ UNCHANGED <<op, mode, wanted, inputs, dry, verdict>>
    <3>1. Format \in Formats
      <4>1. inputs \in Seq(Inputs) /\ 1 \in 1..Len(inputs)
        BY <1>7 DEF Serialize, OutcomeInv, InputsInv, LateStages
      <4>2. inputs[1] \in Inputs
        BY <4>1
      <4> QED BY <4>2 DEF Inputs, Format
    <3>2. output' \in Outputs /\ output'.format = Format
      BY <2>2, <3>1 DEF OutcomeInv, Outputs
    <3>3. op \in Writers /\ at' = IF op = "fix" THEN "reparse" ELSE "render"
      BY <1>7, <1>a, <2>2, Paths DEF Serialize, Goto, OutcomeInv, InputsInv, OnPath
    <3> QED BY <1>0, <1>7, <2>2, <3>2, <3>3
            DEF Serialize, Goto, OutcomeInv, Unjudged, Format, ReadStages, LateStages,
            ResultKeepsFormat, VerdictIsHonest
  <2> QED BY <1>7, <2>1, <2>2 DEF Serialize
<1>8. CASE Reparse
  BY <1>0, <1>8, ReparseJudges
<1>9. CASE Render
  <2>1. CASE Refuse(500)
    BY <1>0, <2>1, RefusalSaysNothing
  <2>2. CASE Answer([status |-> 200, output |-> output, verdict |-> verdict, doc |-> Nil])
    BY <1>0, <1>9, <2>2
       DEF Render, Answer, OutcomeInv, Judged, Format, ReadStages, LateStages,
       ResultKeepsFormat, VerdictIsHonest, Writers
  <2> QED BY <1>9, <2>1, <2>2 DEF Render
<1>10. CASE Fetching \/ Closing \/ UNCHANGED vars
  BY <1>0, <1>10 DEF Fetching, Closing, vars, opVars, OutcomeInv, Unjudged, Judged, Format,
     ResultKeepsFormat, VerdictIsHonest
<1> QED BY <1>1, <1>2, <1>3, <1>4, <1>5, <1>6, <1>7, <1>8, <1>9, <1>10 DEF Next, HandlerSteps

LEMMA OutcomeHolds == Spec => []OutcomeInv
<1>1. Init => OutcomeInv
  <2> SUFFICES ASSUME Init PROVE OutcomeInv
    OBVIOUS
  <2>1. InputsInv
    BY DEF Init, InputsInv, Ops, Path, ReadStages, LateStages, OnPath
  <2>2. ResultKeepsFormat /\ VerdictIsHonest
    BY NothingIsTyped DEF Init, ResultKeepsFormat, VerdictIsHonest
  <2> QED BY <2>1, <2>2, NothingIsTyped DEF Init, OutcomeInv, Unjudged, ReadStages, LateStages
<1> QED BY <1>1, OutcomeKept, UsesFetcher, FetchInvHolds, PTL DEF Spec

\* A result is written in the format of the first input of its own request.
THEOREM FormatIsKept == Spec => []ResultKeepsFormat
BY OutcomeHolds, PTL DEF OutcomeInv

\* What fix says of its result is true, whatever the library does to a document.
THEOREM FixIsHonest == Spec => []VerdictIsHonest
BY OutcomeHolds, PTL DEF OutcomeInv

-----------------------------------------------------------------------------
\* What every operation declares, and those that write a document out.
LEMMA UploadsDeclare ==
  ASSUME NEW route \in API!Uploads
  PROVE  /\ {200, 400} \subseteq route.answers
         /\ API!Named(route) \in Writers => 422 \in route.answers
<1>1. \A a, b : <<a, b>>[2] = b
  OBVIOUS
<1> QED
  BY <1>1 DEF API!Uploads, API!Route, API!Named, API!ValidateSpec, API!ConvertSpec, API!FixSpec,
     API!DiffSpecs, API!JoinSpecs, API!ApplyOverlay, API!ExploreUpload, Writers

LEMMA OperationDeclares ==
  ASSUME NEW o \in Ops
  PROVE  {200, 400} \subseteq Declared(o) /\ (o \in Writers => 422 \in Declared(o))
<1>1. \A a, b : <<a, b>>[2] = b
  OBVIOUS
<1>2. \E r \in API!Uploads : API!Named(r) = o
  BY <1>1 DEF Ops, Path, API!Uploads, API!Route, API!Named, API!ValidateSpec, API!ConvertSpec,
     API!FixSpec, API!DiffSpecs, API!JoinSpecs, API!ApplyOverlay, API!ExploreUpload
<1> DEFINE route == CHOOSE r \in API!Uploads : API!Named(r) = o
<1>3. route \in API!Uploads /\ API!Named(route) = o
  BY <1>2
<1> HIDE DEF route
<1>4. Declared(o) = route.answers
  BY DEF Declared, route
<1> QED BY <1>3, <1>4, UploadsDeclare

\* A request is answered with a status its operation declares, 413, 500, or the
\* 422 that diff does not declare.
THEOREM DeclaredStatuses == Spec => []StatusesAreDeclared
<1> DEFINE Undeclared == {0, 413, 500}
<1>1. ASSUME StatusesAreDeclared, InputsInv, [Next]_vars
      PROVE  StatusesAreDeclared'
  <2>0. op \in Ops /\ OnPath
    BY <1>1 DEF InputsInv
  <2>1. ASSUME answer'.status \in {0, 200, 400, 413, 500}, op' \in Ops
        PROVE  StatusesAreDeclared'
    BY <2>1, OperationDeclares DEF StatusesAreDeclared
  <2>2. ASSUME NEW s, Refuse(s) PROVE op' = op /\ answer'.status = s
    BY <2>2 DEF Refuse, Answer, NoAnswer
  <2>3. ASSUME UNCHANGED <<op, answer>> PROVE StatusesAreDeclared'
    BY <1>1, <2>3 DEF StatusesAreDeclared
  <2>4. CASE Begin \/ BeginJoin
    <3>1. op' \in Ops /\ answer'.status \in {0, 400}
      BY <2>4 DEF Begin, BeginJoin, Start, NoAnswer, Ops, Path
    <3> QED BY <2>1, <3>1
  <2>5. ASSUME NEW n, NEW kept, Admit(n, kept) PROVE StatusesAreDeclared'
    <3>1. CASE Refuse(400) \/ Refuse(413)
      BY <2>0, <2>1, <2>2, <3>1
    <3>2. ASSUME NEW f \in Formats, Took([sent |-> n, kept |-> kept, format |-> f])
          PROVE  StatusesAreDeclared'
      BY <2>3, <3>2 DEF Took, Goto
    <3> QED BY <2>5, <3>1, <3>2 DEF Admit
  <2>6. CASE ReadFile \/ ReadPaste \/ Fetched \/ ReadUrl
    <3>1. CASE Refuse(400)
      BY <2>0, <2>1, <2>2, <3>1
    <3>2. CASE Goto("fetch") /\ UNCHANGED op
      BY <2>3, <3>2 DEF Goto
    <3> QED BY <2>5, <2>6, <3>1, <3>2 DEF ReadFile, ReadPaste, Fetched, ReadUrl
  <2>7. CASE ConvertOptions \/ JoinOptions
    <3>1. CASE Refuse(400)
      BY <2>0, <2>1, <2>2, <3>1
    <3>2. CASE Advance(Path[op].options)
      BY <2>3, <3>2 DEF Advance, Goto
    <3> QED BY <2>7, <3>1, <3>2 DEF ConvertOptions, JoinOptions
  <2>8. CASE Parse
    <3>1. CASE Refuse(400) \/ Refuse(500)
      BY <2>0, <2>1, <2>2, <3>1
    <3>2. CASE Goto(Path[op].parse) /\ UNCHANGED op
      BY <2>3, <3>2 DEF Goto
    <3>3. ASSUME NEW d, Answer([NoAnswer EXCEPT !.status = 200, !.doc = d])
          PROVE  StatusesAreDeclared'
      BY <2>0, <2>1, <3>3 DEF Answer, NoAnswer
    <3> QED BY <2>8, <3>1, <3>2, <3>3 DEF Parse
  <2>9. CASE Engine
    <3>1. CASE Refuse(Failure)
      <4>1. op' = op /\ answer'.status = Failure
        BY <2>2, <3>1
      <4>2. op \in Writers \cup {"validate", "diff"}
        BY <2>0, <2>9 DEF Engine, OnPath, Ops, Path, Writers
      <4> QED BY <2>0, <4>1, <4>2, OperationDeclares DEF Failure, StatusesAreDeclared
    <3>2. CASE Goto(Path[op].engine) /\ UNCHANGED op
      BY <2>3, <3>2 DEF Goto
    <3> QED BY <2>9, <3>1, <3>2 DEF Engine
  <2>10. CASE Serialize
    <3>1. CASE Refuse(500)
      BY <2>0, <2>1, <2>2, <3>1
    <3>2. CASE Goto(Path[op].serialize) /\ UNCHANGED op
      BY <2>3, <3>2 DEF Goto
    <3> QED BY <2>10, <3>1, <3>2 DEF Serialize
  <2>11. CASE Reparse
    BY <2>3, <2>11 DEF Reparse, Goto
  <2>12. CASE Render
    <3>1. CASE Refuse(500)
      BY <2>0, <2>1, <2>2, <3>1
    <3>2. CASE Answer([status |-> 200, output |-> output, verdict |-> verdict, doc |-> Nil])
      BY <2>0, <2>1, <3>2 DEF Answer
    <3> QED BY <2>12, <3>1, <3>2 DEF Render
  <2>13. CASE Fetching \/ Closing \/ UNCHANGED vars
    BY <2>3, <2>13 DEF Fetching, Closing, vars, opVars
  <2> QED
    BY <1>1, <2>4, <2>6, <2>7, <2>8, <2>9, <2>10, <2>11, <2>12, <2>13 DEF Next, HandlerSteps
<1>2. Init => StatusesAreDeclared
  BY NothingIsTyped DEF Init, StatusesAreDeclared
<1>3. OutcomeInv => InputsInv
  BY DEF OutcomeInv
<1> QED BY <1>1, <1>2, <1>3, OutcomeHolds, PTL DEF Spec

-----------------------------------------------------------------------------
Answers == [status : {0, 200, 400, 413, 422, 500}, output : Outputs, verdict : Verdicts,
            doc : Documents \cup {Nil}]

\* What the other invariants do not say of the types.
Typed ==
  /\ mode \in {"any", "file", "paste"}
  /\ wanted \in 1..(MaxSpecs + 2) /\ Len(inputs) <= wanted
  /\ answer \in Answers

LEMMA RefusalIsTyped ==
  ASSUME NEW status \in {400, 413, 422, 500}
  PROVE  [NoAnswer EXCEPT !.status = status] \in Answers
BY NothingIsTyped DEF NoAnswer, Answers

LEMMA TypesKept == ASSUME Typed, OutcomeInv, [Next]_vars PROVE Typed'
<1> USE OperationsAssumption
<1>0. /\ inputs \in Seq(Inputs) /\ wanted \in Nat
      /\ at \in ReadStages => Len(inputs) < wanted
      /\ output \in Outputs /\ verdict \in Verdicts
  BY DEF OutcomeInv, InputsInv
<1>1. ASSUME UNCHANGED <<mode, wanted, inputs>>, answer' \in Answers PROVE Typed'
  BY <1>1 DEF Typed
<1>2. ASSUME NEW s \in {400, 413, 422, 500}, Refuse(s) PROVE Typed'
  BY <1>1, <1>2, RefusalIsTyped DEF Refuse, Answer
<1>3. ASSUME NEW o, NEW m \in {"any", "file", "paste"}, NEW n \in 1..(MaxSpecs + 2), Start(o, m, n)
      PROVE  Typed'
  BY <1>3, NothingIsTyped DEF Start, Typed, Answers, NoAnswer
<1>4. ASSUME UNCHANGED <<mode, wanted, inputs, answer>> PROVE Typed'
  BY <1>4 DEF Typed
<1>5. CASE Begin \/ BeginJoin
  <2>1. ASSUME answer' = [NoAnswer EXCEPT !.status = 400], UNCHANGED <<mode, wanted, inputs>>
        PROVE  Typed'
    BY <1>1, <2>1, RefusalIsTyped
  <2>2. CASE Begin
    <3>1. PICK o \in Ops : Start(o, "any", IF o \in {"diff", "overlay"} THEN 2 ELSE 1)
      BY <2>2 DEF Begin
    <3>2. (IF o \in {"diff", "overlay"} THEN 2 ELSE 1) \in 1..(MaxSpecs + 2)
      OBVIOUS
    <3> QED BY <1>3, <3>1, <3>2
  <2>3. CASE BeginJoin
    <3>1. MinSpecs..MaxSpecs \subseteq 1..(MaxSpecs + 2)
      OBVIOUS
    <3> QED BY <1>3, <2>1, <2>3, <3>1 DEF BeginJoin
  <2> QED BY <1>5, <2>2, <2>3
<1>6. ASSUME NEW n, NEW kept, Admit(n, kept), at \in ReadStages PROVE Typed'
  <2>1. CASE Refuse(400) \/ Refuse(413)
    BY <1>2, <2>1
  <2>2. ASSUME NEW input, Took(input) PROVE Typed'
    <3>1. Len(inputs') = Len(inputs) + 1 /\ Len(inputs) \in Nat
      BY <1>0, <2>2 DEF Took
    <3> QED BY <1>0, <1>6, <2>2, <3>1 DEF Took, Goto, Typed
  <2> QED BY <1>6, <2>1, <2>2 DEF Admit
<1>7. CASE ReadFile \/ ReadPaste \/ Fetched \/ ReadUrl
  <2>1. CASE Goto("fetch") /\ UNCHANGED <<op, mode, wanted, inputs, dry, output, verdict>>
    BY <1>4, <2>1 DEF Goto
  <2> QED BY <1>2, <1>6, <1>7, <2>1 DEF ReadFile, ReadPaste, Fetched, ReadUrl, ReadStages
<1>8. CASE ConvertOptions \/ JoinOptions
  <2>1. CASE Advance(Path[op].options)
    BY <1>4, <2>1 DEF Advance, Goto
  <2> QED BY <1>2, <1>8, <2>1 DEF ConvertOptions, JoinOptions
<1>9. CASE Parse
  <2>1. CASE Goto(Path[op].parse) /\ UNCHANGED <<op, mode, wanted, inputs, dry, output>>
    BY <1>4, <2>1 DEF Goto
  <2>2. ASSUME NEW d \in Documents, Answer([NoAnswer EXCEPT !.status = 200, !.doc = d])
        PROVE  Typed'
    <3>1. [NoAnswer EXCEPT !.status = 200, !.doc = d] \in Answers
      BY NothingIsTyped DEF NoAnswer, Answers
    <3> QED BY <1>1, <2>2, <3>1 DEF Answer
  <2>3. CASE Refuse(400) \/ Refuse(500)
    BY <1>2, <2>3
  <2> QED BY <1>9, <2>1, <2>2, <2>3 DEF Parse
<1>10. CASE Engine
  <2>1. CASE Goto(Path[op].engine) /\ UNCHANGED <<op, mode, wanted, inputs, verdict>>
    BY <1>4, <2>1 DEF Goto
  <2>2. CASE Refuse(Failure)
    BY <1>2, <2>2 DEF Failure
  <2> QED BY <1>10, <2>1, <2>2 DEF Engine
<1>11. CASE Serialize
  <2>1. CASE Goto(Path[op].serialize) /\ UNCHANGED <<op, mode, wanted, inputs, dry, verdict>>
    BY <1>4, <2>1 DEF Goto
  <2> QED BY <1>2, <1>11, <2>1 DEF Serialize
<1>12. CASE Reparse
  BY <1>4, <1>12 DEF Reparse, Goto
<1>13. CASE Render
  <2>1. CASE Answer([status |-> 200, output |-> output, verdict |-> verdict, doc |-> Nil])
    <3>1. [status |-> 200, output |-> output, verdict |-> verdict, doc |-> Nil] \in Answers
      BY <1>0 DEF Answers
    <3> QED BY <1>1, <2>1, <3>1 DEF Answer
  <2> QED BY <1>2, <1>13, <2>1 DEF Render
<1>14. CASE Fetching \/ Closing \/ UNCHANGED vars
  BY <1>4, <1>14 DEF Fetching, Closing, vars, opVars
<1> QED
  BY <1>5, <1>7, <1>8, <1>9, <1>10, <1>11, <1>12, <1>13, <1>14 DEF Next, HandlerSteps

LEMMA TypedHolds == Spec => []Typed
<1>1. Init => Typed
  BY NothingIsTyped, OperationsAssumption DEF Init, Typed, Answers, NoAnswer
<1> QED BY <1>1, TypesKept, OutcomeHolds, PTL DEF Spec

\* Every variable stays in its type.
THEOREM TypesAreCorrect == Spec => []OpTypeOK
<1>1. FetchInv /\ OutcomeInv /\ Typed => OpTypeOK
  BY DEF FetchInv, OutcomeInv, InputsInv, Typed, Answers, OpTypeOK, ReadStages, LateStages
<1> QED BY <1>1, UsesFetcher, FetchInvHolds, OutcomeHolds, TypedHolds, PTL

-----------------------------------------------------------------------------
\* The summary's numbers agree with the list behind them for every document.
THEOREM CoverageIsKept == Spec => []CoverageOfAnswer
<1>1. Typed => CoverageOfAnswer
  BY CoverageIsRight DEF Typed, Answers, CoverageOfAnswer
<1> QED BY <1>1, TypedHolds, PTL

\* A scheme's count in an answer agrees with the operations its details name,
\* for every document.
THEOREM UsagesAreKept == Spec => []UsagesOfAnswer
<1>1. Typed => UsagesOfAnswer
  BY UsagesAreRight DEF Typed, Answers, UsagesOfAnswer
<1> QED BY <1>1, TypedHolds, PTL

\* The pages an answer has of a schema agree, for every document.
THEOREM SchemaPagesAreKept == Spec => []SchemaPagesOfAnswer
<1>1. Typed => SchemaPagesOfAnswer
  BY SchemaPagesAreRight DEF Typed, Answers, SchemaPagesOfAnswer
<1> QED BY <1>1, TypedHolds, PTL
=============================================================================
