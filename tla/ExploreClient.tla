--------------------------- MODULE ExploreClient ----------------------------
(***************************************************************************)
(* The explore page in the browser: static/js/explore.js, the beforeSwap   *)
(* listener of static/js/app.js, and the forms and tabs of the templates.  *)
(* The page keeps the specification in sessionStorage, so that it can      *)
(* upload it again when the server has forgotten the analysis (410).       *)
(*                                                                         *)
(* A specification stands for its hash.  A FileReader is a callback that   *)
(* comes when it comes; answers come in any order; the server forgets an   *)
(* analysis at any time (Explore says when).  htmx is external: it sends   *)
(* the requests, swaps the answers in, and raises htmx:responseError when  *)
(* the listeners of htmx:beforeSwap leave isError set.                     *)
(***************************************************************************)
EXTENDS Integers, FiniteSets

CONSTANTS
  Specs,  \* specifications a user has
  Nothing

Tabs == {"operations", "schemas", "security"}
FirstTab == "operations"

VARIABLES
  mode, file, text,  \* the form: its input mode, the file picked, the text pasted
  reading,   \* the files that FileReaders read
  stored,    \* sessionStorage: the specification, and whether 30 minutes have passed
  upload,    \* the specification the form is sending
  resubmit,  \* the one that recovery is sending
  page,      \* #explore-results: a specification's results, or a message
  tab,       \* #tab-content: a tab's view, nothing yet, or the body of a 410
  views,     \* the tabs whose views of this page are asked for
  cached     \* the analyses the server has

vars == <<mode, file, text, reading, stored, upload, resubmit, page, tab, views, cached>>

Messages == {"empty", "error", "loading", "expired"}
Entry == [spec : Specs, old : BOOLEAN]
None == [spec |-> Nothing, old |-> FALSE]

TypeOK ==
  /\ mode \in {"file", "paste"} /\ file \in Specs \cup {Nothing} /\ text \in Specs \cup {Nothing}
  /\ reading \subseteq Specs /\ cached \subseteq Specs
  /\ stored \in Entry \cup {None}
  /\ upload \in Specs \cup {Nothing} /\ resubmit \in Specs \cup {Nothing}
  /\ page \in Specs \cup Messages /\ tab \in Tabs \cup {"none", "gone"} /\ views \subseteq Tabs

Init ==
  /\ mode = "file" /\ file = Nothing /\ text = Nothing
  /\ reading = {} /\ stored = None /\ upload = Nothing /\ resubmit = Nothing
  /\ page = "empty" /\ tab = "none" /\ views = {} /\ cached = {}

-----------------------------------------------------------------------------
Store(c) == stored' = [spec |-> c, old |-> FALSE]

\* switchInputMode of app.js; what is stored stays (explore.js listens for clicks
\* on another class of button, which no template has).
Switch ==
  /\ mode' \in {"file", "paste"} \ {mode}
  /\ UNCHANGED <<file, text, reading, stored, upload, resubmit, page, tab, views, cached>>

\* loadExample: an example is pasted, without a change event.
Example ==
  /\ mode' = "paste" /\ text' \in Specs
  /\ UNCHANGED <<file, reading, stored, upload, resubmit, page, tab, views, cached>>

\* The change listener, for a file: its reader starts.
Pick ==
  /\ mode = "file"
  /\ \E c \in Specs : file' = c /\ reading' = reading \cup {c}
  /\ UNCHANGED <<mode, text, stored, upload, resubmit, page, tab, views, cached>>

\* reader.onload.
ReadDone ==
  /\ \E c \in reading : Store(c) /\ reading' = reading \ {c}
  /\ UNCHANGED <<mode, file, text, upload, resubmit, page, tab, views, cached>>

\* The change listener, for a text or a URL: what is stored is removed.
Write ==
  /\ mode = "paste" /\ text' \in Specs /\ stored' = None
  /\ UNCHANGED <<mode, file, reading, upload, resubmit, page, tab, views, cached>>

\* The form is submitted; configRequest stores a text, a file is stored already.
Submit ==
  LET c == IF mode = "file" THEN file ELSE text
  IN  /\ c # Nothing /\ upload = Nothing
      /\ upload' = c
      /\ IF mode = "paste" THEN Store(c) ELSE UNCHANGED stored
      /\ UNCHANGED <<mode, file, text, reading, resubmit, page, tab, views, cached>>

\* Results replace #explore-results.  Views that are still asked for would be put
\* in an element that is gone; the first tab is asked for at once ("load, click").
Show(c) ==
  page' = c /\ tab' = "none" /\ views' = {FirstTab} /\ cached' = cached \cup {c}

\* A message replaces them.
Tell(message) == page' = message /\ tab' = "none" /\ views' = {}

\* The upload is answered.
Uploaded ==
  /\ upload # Nothing
  /\ \/ Show(upload)
     \/ Tell("error") /\ UNCHANGED cached
  /\ upload' = Nothing
  /\ UNCHANGED <<mode, file, text, reading, stored, resubmit>>

\* A tab is clicked; htmx asks for its view.
Click ==
  /\ page \in Specs
  /\ \E t \in Tabs : views' = views \cup {t}
  /\ UNCHANGED <<mode, file, text, reading, stored, upload, resubmit, page, tab, cached>>

\* A view is answered from the analysis.
Viewed ==
  /\ page \in cached
  /\ \E t \in views : tab' = t /\ views' = views \ {t}
  /\ UNCHANGED <<mode, file, text, reading, stored, upload, resubmit, page, cached>>

\* What htmx takes for an error.
IsError(status) == status >= 400

\* The listener of app.js: such an answer is swapped in and is no error any more.
BeforeSwap(status) == IF status >= 400 THEN FALSE ELSE IsError(status)

\* The listener of explore.js for htmx:responseError: it resubmits what is stored,
\* or says that the session has expired (showCacheMissMessage).
Recover ==
  IF stored = None \/ stored.old
    THEN stored' = None /\ Tell("expired") /\ UNCHANGED resubmit
    ELSE /\ resubmit' = stored.spec
         /\ Tell("loading") /\ UNCHANGED stored

\* A view is answered with a 410, whose body is empty.
Gone ==
  /\ page \in Specs \ cached
  /\ \E t \in views :
       IF BeforeSwap(410) THEN Recover
       ELSE tab' = "gone" /\ views' = views \ {t} /\ UNCHANGED <<page, stored, resubmit>>
  /\ UNCHANGED <<mode, file, text, reading, upload, cached>>

\* resubmitSpec's answer.  The results are shown, but retryOriginalRequest takes
\* the target in htmx's request, an element, for a selector: querySelector throws,
\* and the catch says that the session has expired, as it does for a failure.
Resubmitted ==
  /\ resubmit # Nothing
  /\ cached' \in {cached, cached \cup {resubmit}}
  /\ Tell("expired")
  /\ resubmit' = Nothing
  /\ UNCHANGED <<mode, file, text, reading, stored, upload>>

\* Time passes: the server forgets, or what is stored gets too old.
Forget ==
  /\ \E c \in cached : cached' = cached \ {c}
  /\ UNCHANGED <<mode, file, text, reading, stored, upload, resubmit, page, tab, views>>

Age ==
  /\ stored # None /\ stored' = [stored EXCEPT !.old = TRUE]
  /\ UNCHANGED <<mode, file, text, reading, upload, resubmit, page, tab, views, cached>>

Next ==
  \/ Switch \/ Example \/ Pick \/ ReadDone \/ Write \/ Submit \/ Uploaded \/ Click \/ Viewed \/ Gone
  \/ Resubmitted \/ Forget \/ Age

Spec == Init /\ [][Next]_vars

-----------------------------------------------------------------------------
\* A page does not stay with the body of a 410 while the specification is stored
\* ("Handle 410 Gone responses (cache miss)", explore.js 70; "410 recovery", 2).
RecoversFrom410 == tab = "gone" => stored = None \/ stored.old
=============================================================================
