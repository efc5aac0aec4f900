---------------------------- MODULE PageRuntime ----------------------------
(***************************************************************************)
(* A JS runtime (bouncy-js Runtime and its native bridge) and the three    *)
(* programs that drive one from load to result:                            *)
(*   mcp     render_js_blocking of the MCP server;                         *)
(*   cli     `bouncy fetch` when it needs JS, with its cookie jar file;    *)
(*   cdp     a CDP connection, which navigates, evaluates and asks for     *)
(*           nodes for as long as the client likes.                        *)
(* The runtime of a browse session is driven by BrowseSession.             *)
(*                                                                         *)
(* Page code is an environment: a script, an expression or a listener may  *)
(* queue a navigation, make or drop a node, listen on one, and end, throw  *)
(* or be halted.  It is assumed to end.  Node ids are given out from 1 by  *)
(* each document; JS keeps its wrappers, and the listeners on them, by     *)
(* node id, from one document to the next.                                 *)
(***************************************************************************)
EXTENDS Integers, FiniteSets

CONSTANTS
    Urls, Blank, NoUrl,
    MaxNavHops,
    MaxScripts,   \* bound: inline scripts of a page
    MaxNodes,     \* bound: node ids given out by one document
    MaxLoads,     \* bound: documents one runtime loads
    MaxListeners, \* bound: listeners kept
    MaxCookies    \* bound: responses counted that set a cookie

ASSUME PageRuntimeAssumption ==
    /\ Blank \notin Urls /\ NoUrl \notin Urls \cup {Blank}
    /\ {MaxNavHops, MaxScripts, MaxLoads, MaxListeners, MaxCookies} \subseteq Nat
    /\ MaxNodes \in Nat \ {0}

VARIABLES
    program,      \* mcp, cli or cdp
    at,           \* fetch, scripts, wait, eval, done, printed, failed; ready, closed
    url,          \* the document: its base URL,
    gen,          \* which one it is of this runtime's,
    nodes,        \* its nodes by id, each with a number of its own
    given,        \* ids given out
    nav,          \* NavSlot
    listeners,    \* <<id, gen>>: who listens through the wrapper of an id
    todo,         \* inline scripts collected and not run yet
    ran,          \* history: the document whose code ran last
    target,       \* the URL being fetched
    hops, current, \* locals of the render
    unfollowed,   \* history: a navigation of this document is not followed
    cookies,      \* cookies received, last in the jar
    file,         \* cookies in the jar file
    known,        \* node ids handed to the CDP client: <<id, gen, node>>
    answer,       \* the last answer to the CDP client
    sent          \* history: where the CDP client's last load went

document == <<url, gen, nodes, given>>
js == <<nav, listeners, ran, unfollowed>>
render == <<hops, current>>
jar == <<cookies, file>>
cdp == <<known, answer, sent>>
vars == <<program, at, document, todo, target, js, render, jar, cdp>>

Ids == 1..MaxNodes

NoAnswer == [is |-> "none"]

First(n) == [i \in 1..n |-> i]

----------------------------------------------------------------------------
(* The runtime *)

\* Seeded bug for the runs: an id is given out again once its node is gone.
NextIdReused == CHOOSE i \in Ids : i \notin DOMAIN nodes

\* NodeIds count up for the life of the document.
NextId == given + 1

\* Document::parse, the slots of the context, NavSlot emptied; the context, its
\* wrappers and their listeners stay.
Loaded(u) ==
    /\ gen < MaxLoads
    /\ url' = u /\ gen' = gen + 1
    /\ \E n \in Ids : nodes' = First(n) /\ given' = n
    /\ nav' = NoUrl /\ unfollowed' = FALSE
    /\ UNCHANGED listeners /\ ran' = 0

\* run_inline_scripts collects the scripts before it runs one.
Collected == todo' \in 0..MaxScripts

\* What one run of page code does to the document: nothing, a node more or one
\* less, or one more listener of document by.
Touched(by) ==
    \/ UNCHANGED <<nodes, given, listeners>>
    \/ /\ Cardinality(DOMAIN nodes) < MaxNodes /\ given < MaxNodes
       /\ nodes' = [i \in DOMAIN nodes \cup {NextId} |->
                       IF i = NextId THEN given + 1 ELSE nodes[i]]
       /\ given' = given + 1
       /\ UNCHANGED listeners
    \/ \E i \in DOMAIN nodes :
          /\ nodes' = [j \in DOMAIN nodes \ {i} |-> nodes[j]]
          /\ UNCHANGED <<given, listeners>>
    \/ \E i \in DOMAIN nodes :
          /\ Cardinality(listeners) < MaxListeners
          /\ listeners' = listeners \cup {<<i, by>>}
          /\ UNCHANGED <<nodes, given>>

\* location.href = u: the slot, a marker exception and V8's kill flag.
NavTo == \E u \in Urls : nav' = u /\ unfollowed' = TRUE

\* Runtime::eval.  A script that catches the marker can still end or throw
\* before V8 looks at the flag, with the navigation queued.
Eval(result) ==
    /\ \E by \in {gen} \cup {l[2] : l \in {l \in listeners : l[1] \in DOMAIN nodes}} :
          Touched(by) /\ ran' = by
    /\ \/ NavTo
       \/ result # "halted" /\ UNCHANGED <<nav, unfollowed>>
    /\ UNCHANGED <<url, gen>>

Results == {"ok", "halted", "threw"}

----------------------------------------------------------------------------
Init ==
    /\ program \in {"mcp", "cli", "cdp"}
    /\ at = IF program = "cdp" THEN "ready" ELSE "fetch"
    /\ url = IF program = "cdp" THEN Blank ELSE NoUrl
    /\ gen = IF program = "cdp" THEN 1 ELSE 0
    /\ nodes = First(IF program = "cdp" THEN 1 ELSE 0)
    /\ given = IF program = "cdp" THEN 1 ELSE 0
    /\ nav = NoUrl /\ listeners = {} /\ ran = 0 /\ unfollowed = FALSE
    /\ todo = 0 /\ hops = 0 /\ cookies = 0 /\ file = 0
    /\ target \in IF program = "cdp" THEN {NoUrl} ELSE Urls
    /\ current = NoUrl
    /\ known = {} /\ answer = NoAnswer /\ sent = Blank

Rendering == program # "cdp"

\* Any response may set a cookie, one to a script's own synchronous request too;
\* the jar of the CLI's fetcher is followed.
Harvest ==
    /\ cookies' \in {cookies} \cup
                    {n \in {cookies + 1} : program = "cli" /\ n <= MaxCookies}
    /\ UNCHANGED file

\* Seeded bug for the runs: the fetcher was given a copy of the jar.
SavedCopy == 0

\* The jar is shared with the fetcher: what is saved is all it received.
Saved == cookies

----------------------------------------------------------------------------
(* A render *)

FetchPage ==
    /\ Rendering /\ at = "fetch"
    /\ Loaded(target) /\ Collected /\ Harvest
    /\ at' = "scripts"
    /\ UNCHANGED <<program, target, render, cdp>>

\* The request, the decoding of its body, or the stealth patch that load runs
\* once the document is in place.
FetchFails ==
    /\ Rendering /\ at = "fetch" /\ gen < MaxLoads
    /\ \/ UNCHANGED <<document, js>>
       \/ Loaded(target)
    /\ Harvest
    /\ at' = "failed"
    /\ UNCHANGED <<program, todo, target, render, cdp>>

\* One inline script; what halts it is not an error, what it throws is.
RunScript ==
    /\ at = "scripts" /\ todo > 0
    /\ \E result \in Results :
         /\ Eval(result)
         /\ IF result # "threw" THEN todo' = todo - 1 /\ UNCHANGED <<at, answer>>
            ELSE /\ todo' = 0
                 /\ IF Rendering THEN at' = "failed" /\ UNCHANGED answer
                    ELSE at' = "ready" /\ answer' = [is |-> "errorText"]
    /\ Harvest
    /\ UNCHANGED <<program, target, render, known, sent>>

\* Seeded bug for the runs: hops are not counted against the budget.
HopSpentNever == FALSE

HopSpent == hops >= MaxNavHops

\* Seeded bug for the runs: the URL the caller asked for is reported.
CurrentFirst == IF hops = 0 THEN target ELSE current

\* current_url = next_url, once its scripts have run.
Current == target

\* take_pending_nav, and then the look at the budget.
TakeNav ==
    /\ Rendering /\ at = "scripts" /\ todo = 0
    /\ current' = Current
    /\ nav' = NoUrl
    /\ IF nav = NoUrl \/ HopSpent
       THEN at' = "wait" /\ UNCHANGED <<hops, target>>
       ELSE at' = "fetch" /\ hops' = hops + 1 /\ target' = nav
    /\ UNCHANGED <<program, document, todo, listeners, ran, unfollowed, jar, cdp>>

\* wait_for_selector polls a document that nobody changes meanwhile; whether it
\* finds the selector is not looked at.
WaitForSelector ==
    /\ Rendering /\ at = "wait"
    /\ at' = "eval"
    /\ UNCHANGED <<program, document, todo, target, js, render, jar, cdp>>

\* The MCP tools dump the page too; the CLI prints the expression's value and
\* returns.
Evaluate ==
    /\ Rendering /\ at = "eval"
    /\ \E result \in Results :
         /\ Eval(result)
         /\ at' = IF result # "ok" THEN "failed"
                  ELSE IF program = "cli" THEN "printed" ELSE "done"
    /\ Harvest
    /\ UNCHANGED <<program, todo, target, render, cdp>>

\* Without an expression.  The CLI selects or dumps, and writes its jar back.
Dump ==
    /\ Rendering /\ at = "eval"
    /\ \/ at' = "done" /\ file' = IF program = "cli" THEN Saved ELSE file
       \/ program = "cli" /\ at' = "failed" /\ UNCHANGED file
    /\ UNCHANGED <<program, document, todo, target, js, render, cookies, cdp>>

----------------------------------------------------------------------------
(* A CDP connection: one request at a time *)

Serving == program = "cdp" /\ at = "ready"

\* Page.navigate: fetched and decoded before anything is replaced.
Navigate ==
    /\ Serving
    /\ \E u \in Urls : Loaded(u) /\ sent' = u
    /\ Collected
    /\ at' = "scripts"
    /\ UNCHANGED <<program, target, render, jar, known, answer>>

\* The fetch and the decoding come before load.
NavigateFails ==
    /\ Serving
    /\ answer' = [is |-> "error"]
    /\ UNCHANGED <<program, at, document, js, todo, target, render, jar, known, sent>>

\* The scripts are over; what they queued stays in the slot.
Navigated ==
    /\ program = "cdp" /\ at = "scripts" /\ todo = 0
    /\ at' = "ready" /\ answer' = [is |-> "loaded"]
    /\ UNCHANGED <<program, document, todo, target, js, render, jar, known, sent>>

\* Runtime.evaluate: an exception is an answer too.
EvaluateRemote ==
    /\ Serving
    /\ \E result \in Results : Eval(result) /\ answer' = [is |-> result]
    /\ UNCHANGED <<program, at, todo, target, render, jar, known, sent>>

\* DOM.querySelector; 0 when nothing matches.
QuerySelector ==
    /\ Serving
    /\ \/ \E i \in DOMAIN nodes :
            /\ known' = known \cup {<<i, gen, nodes[i]>>}
            /\ answer' = [is |-> "node"]
       \/ answer' = [is |-> "node"] /\ UNCHANGED known
    /\ UNCHANGED <<program, at, document, todo, target, js, render, jar, sent>>

\* DOM.getOuterHTML: the id, looked up in the document loaded now.
GetOuterHTML ==
    /\ Serving
    /\ \E k \in known :
         answer' = [is |-> "html", asked |-> k,
                    got |-> IF k[1] \in DOMAIN nodes THEN {<<gen, nodes[k[1]]>>} ELSE {}]
    /\ UNCHANGED <<program, at, document, todo, target, js, render, jar, known, sent>>

\* The connection ends; every other request is acknowledged and changes nothing
\* here.
Close ==
    /\ Serving
    /\ at' = "closed"
    /\ UNCHANGED <<program, document, todo, target, js, render, jar, cdp>>

Ends == {"done", "printed", "failed"}

\* The end, or the bound on loads, which a render does not reach.
Over ==
    /\ at \in Ends \cup {"closed"} \/ (at = "fetch" /\ gen = MaxLoads)
    /\ UNCHANGED vars

Render == FetchPage \/ FetchFails \/ RunScript \/ TakeNav \/ WaitForSelector
            \/ Evaluate \/ Dump

Serve == Navigate \/ NavigateFails \/ Navigated \/ EvaluateRemote \/ QuerySelector
            \/ GetOuterHTML \/ Close

Next == Render \/ Serve \/ Over

Spec == Init /\ [][Next]_vars

\* The thread of a render runs on, pages' scripts end and servers answer.
FairSpec == Spec /\ WF_vars(Render)

----------------------------------------------------------------------------
(* Properties *)

Stages ==
    {"fetch", "scripts", "wait", "eval", "done", "printed", "failed", "ready",
     "closed"}

Handles == Ids \X Nat \X Nat

TypeOK ==
    /\ program \in {"mcp", "cli", "cdp"} /\ at \in Stages
    /\ url \in Urls \cup {Blank, NoUrl} /\ gen \in Nat
    /\ DOMAIN nodes \subseteq Ids /\ nodes \in [DOMAIN nodes -> Nat] /\ given \in Nat
    /\ nav \in Urls \cup {NoUrl} /\ target \in Urls \cup {NoUrl}
    /\ listeners \subseteq Ids \X Nat /\ ran \in Nat /\ unfollowed \in BOOLEAN
    /\ todo \in 0..MaxScripts
    /\ hops \in 0..MaxNavHops /\ current \in Urls \cup {NoUrl}
    /\ cookies \in Nat /\ file \in Nat
    /\ known \subseteq Handles
    /\ answer.is = "html" => answer.asked \in Handles /\ answer.got \subseteq Nat \X Nat
    /\ sent \in Urls \cup {Blank}

\* The page that is shown is the page that is reported.  What a render goes on to
\* wait for, evaluate and dump is the document of its current_url, with every
\* navigation its pages queued followed, unless the budget of hops is used up, and
\* then only the last one is dropped.  A CDP connection stays on the page of its
\* last successful Page.navigate: one that fails leaves the page, and what pages
\* queue is not followed.
RenderedPage ==
    /\ Rendering /\ at \in {"wait", "eval"} =>
          /\ current = url /\ nav = NoUrl
          /\ gen = hops + 1
          /\ unfollowed => hops = MaxNavHops
    /\ program = "cdp" => url = sent

\* Pages that navigate for ever do not keep a render from its end.
RenderEnds == Rendering ~> at \in Ends

\* An id a CDP client was given never leads to another node of the document that
\* gave it, whatever scripts drop and make in between.
HandleIsExact ==
    answer.is = "html" =>
        \A e \in answer.got : e[1] = answer.asked[2] => e[2] = answer.asked[3]

\* `bouncy fetch` that dumps a page saves every cookie received on the way to
\* it; the jar file is never left with a part of them.
JarWritten ==
    program = "cli" =>
        /\ file \in {0, cookies}
        /\ at = "done" => file = cookies

\* bootstrap.js:33-35: the wrapper cache is "Cleared by the host runtime between
\* page loads".  Refuted: a listener of an earlier document runs for a node of
\* the loaded one that has the same id.
ListenersOfThisPage == ran \in {0, gen}
============================================================================
