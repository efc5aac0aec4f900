------------------------- MODULE PageRuntime_proofs -------------------------
(***************************************************************************)
(* Theorems about PageRuntime, for any URLs, budget of hops and bounds.    *)
(***************************************************************************)
EXTENDS PageRuntime, TLAPS

----------------------------------------------------------------------------
(* Types *)

\* A document that was just loaded is well typed.
LEMMA LoadedType ==
    ASSUME TypeOK, NEW u \in Urls \cup {Blank, NoUrl}, Loaded(u)
    PROVE  /\ url' = u /\ gen' \in Nat
           /\ DOMAIN nodes' \subseteq Ids /\ nodes' \in [DOMAIN nodes' -> Nat]
           /\ given' \in Nat /\ nav' = NoUrl /\ unfollowed' = FALSE
           /\ listeners' \subseteq Ids \X Nat /\ ran' \in Nat
<1>1. PICK n \in Ids : nodes' = First(n) /\ given' = n
  BY DEF Loaded
<1>2. n \in Nat /\ DOMAIN nodes' = 1..n /\ 1..n \subseteq Ids
  BY <1>1, PageRuntimeAssumption DEF First, Ids
<1>3. nodes' \in [DOMAIN nodes' -> Nat]
  BY <1>1, <1>2 DEF First
<1>4. QED
  BY <1>1, <1>2, <1>3 DEF Loaded, TypeOK

\* Page code keeps the document and the listeners well typed.
LEMMA TouchedType ==
    ASSUME TypeOK, NEW by \in Nat, Touched(by)
    PROVE  /\ DOMAIN nodes' \subseteq Ids /\ nodes' \in [DOMAIN nodes' -> Nat]
           /\ given' \in Nat /\ listeners' \subseteq Ids \X Nat
<1> USE DEF TypeOK
<1>1. CASE UNCHANGED <<nodes, given, listeners>>
  BY <1>1
<1>2. CASE /\ given < MaxNodes
           /\ nodes' = [i \in DOMAIN nodes \cup {NextId} |->
                          IF i = NextId THEN given + 1 ELSE nodes[i]]
           /\ given' = given + 1
           /\ UNCHANGED listeners
  <2>1. NextId \in Ids
    BY <1>2, PageRuntimeAssumption DEF NextId, Ids
  <2>2. DOMAIN nodes' = DOMAIN nodes \cup {NextId}
    BY <1>2
  <2>3. \A i \in DOMAIN nodes' : nodes'[i] \in Nat
    BY <1>2
  <2>4. nodes' \in [DOMAIN nodes' -> Nat]
    BY <1>2, <2>2, <2>3
  <2>5. QED
    BY <1>2, <2>1, <2>2, <2>4
<1>3. CASE \E i \in DOMAIN nodes :
              /\ nodes' = [j \in DOMAIN nodes \ {i} |-> nodes[j]]
              /\ UNCHANGED <<given, listeners>>
  <2>1. PICK i \in DOMAIN nodes : nodes' = [j \in DOMAIN nodes \ {i} |-> nodes[j]]
    BY <1>3
  <2>2. DOMAIN nodes' = DOMAIN nodes \ {i}
    BY <2>1
  <2>3. nodes' \in [DOMAIN nodes' -> Nat]
    BY <2>1, <2>2
  <2>4. QED
    BY <1>3, <2>2, <2>3
<1>4. CASE \E i \in DOMAIN nodes :
              /\ listeners' = listeners \cup {<<i, by>>}
              /\ UNCHANGED <<nodes, given>>
  BY <1>4
<1>5. QED
  BY <1>1, <1>2, <1>3, <1>4 DEF Touched

\* Whoever's code runs, so does eval.
LEMMA EvalType ==
    ASSUME TypeOK, NEW result, Eval(result)
    PROVE  /\ url' = url /\ gen' = gen
           /\ DOMAIN nodes' \subseteq Ids /\ nodes' \in [DOMAIN nodes' -> Nat]
           /\ given' \in Nat /\ nav' \in Urls \cup {NoUrl} /\ unfollowed' \in BOOLEAN
           /\ listeners' \subseteq Ids \X Nat /\ ran' \in Nat
<1>1. PICK by \in {gen} \cup {l[2] : l \in {l \in listeners : l[1] \in DOMAIN nodes}} :
        Touched(by) /\ ran' = by
  BY DEF Eval
<1>2. by \in Nat
  BY DEF TypeOK
<1>3. /\ DOMAIN nodes' \subseteq Ids /\ nodes' \in [DOMAIN nodes' -> Nat]
      /\ given' \in Nat /\ listeners' \subseteq Ids \X Nat
  BY <1>1, <1>2, TouchedType
<1>4. nav' \in Urls \cup {NoUrl} /\ unfollowed' \in BOOLEAN
  BY DEF Eval, NavTo, TypeOK
<1>5. QED
  BY <1>1, <1>2, <1>3, <1>4 DEF Eval

\* Type correctness of the runtime and of the program that drives it.
THEOREM TypeCorrect == Spec => []TypeOK
<1> USE PageRuntimeAssumption
<1>1. Init => TypeOK
  <2> SUFFICES ASSUME Init
               PROVE  TypeOK
    OBVIOUS
  <2>1. DOMAIN nodes \subseteq Ids /\ nodes \in [DOMAIN nodes -> Nat] /\ given \in Nat
    BY DEF Init, First, Ids
  <2>2. program \in {"mcp", "cli", "cdp"} /\ at \in Stages
    BY DEF Init, Stages
  <2>3. /\ url \in Urls \cup {Blank, NoUrl} /\ gen \in Nat
        /\ target \in Urls \cup {NoUrl} /\ answer.is # "html"
    BY DEF Init, NoAnswer
  <2>4. /\ nav = NoUrl /\ listeners = {} /\ ran = 0 /\ unfollowed = FALSE /\ todo = 0
        /\ hops = 0 /\ current = NoUrl /\ cookies = 0 /\ file = 0 /\ known = {}
        /\ sent = Blank
    BY DEF Init
  <2>5. todo \in 0..MaxScripts /\ hops \in 0..MaxNavHops
    BY <2>4
  <2>6. QED
    BY <2>1, <2>2, <2>3, <2>4, <2>5 DEF TypeOK
<1>2. TypeOK /\ [Next]_vars => TypeOK'
  <2> SUFFICES ASSUME TypeOK, [Next]_vars
               PROVE  TypeOK'
    OBVIOUS
  <2> USE DEF document, js, render, jar, cdp
  <2>1. ASSUME FetchPage \/ FetchFails
        PROVE  TypeOK'
    <3>1. cookies' \in Nat /\ file' = file
      BY <2>1 DEF FetchPage, FetchFails, Harvest, TypeOK
    <3>2. CASE UNCHANGED <<document, js>> /\ FetchFails
      BY <3>1, <3>2 DEF FetchFails, TypeOK, Stages
    <3>3. CASE Loaded(target)
      <4>1. target \in Urls \cup {Blank, NoUrl}
        BY DEF TypeOK
      <4>2. DOMAIN nodes' \subseteq Ids /\ nodes' \in [DOMAIN nodes' -> Nat]
        BY <3>3, <4>1, LoadedType
      <4>3. /\ url' = target /\ gen' \in Nat /\ given' \in Nat /\ nav' = NoUrl
            /\ unfollowed' = FALSE /\ listeners' \subseteq Ids \X Nat /\ ran' \in Nat
        BY <3>3, <4>1, LoadedType
      <4>4. at' \in Stages /\ todo' \in 0..MaxScripts
        BY <2>1 DEF FetchPage, FetchFails, Collected, TypeOK, Stages
      <4>5. UNCHANGED <<program, target, hops, current, known, answer, sent>>
        BY <2>1 DEF FetchPage, FetchFails
      <4>6. QED
        BY <3>1, <4>1, <4>2, <4>3, <4>4, <4>5 DEF TypeOK
    <3>4. QED
      BY <2>1, <3>2, <3>3 DEF FetchPage, FetchFails
  <2>2. ASSUME RunScript
        PROVE  TypeOK'
    <3>1. PICK result \in Results : Eval(result)
      BY <2>2 DEF RunScript
    <3>2. DOMAIN nodes' \subseteq Ids /\ nodes' \in [DOMAIN nodes' -> Nat]
      BY <3>1, EvalType
    <3>3. /\ url' = url /\ gen' = gen /\ given' \in Nat /\ nav' \in Urls \cup {NoUrl}
          /\ unfollowed' \in BOOLEAN /\ listeners' \subseteq Ids \X Nat /\ ran' \in Nat
      BY <3>1, EvalType
    <3>4. /\ todo' \in 0..MaxScripts /\ at' \in Stages
          /\ answer' = answer \/ answer' = [is |-> "errorText"]
      BY <2>2 DEF RunScript, TypeOK, Stages
    <3>5. /\ cookies' \in Nat
          /\ UNCHANGED <<program, target, hops, current, file, known, sent>>
      BY <2>2 DEF RunScript, Harvest, TypeOK
    <3>6. QED
      BY <3>2, <3>3, <3>4, <3>5 DEF TypeOK
  <2>3. ASSUME TakeNav
        PROVE  TypeOK'
    <3>1. hops' \in 0..MaxNavHops
      BY <2>3 DEF TakeNav, HopSpent, TypeOK
    <3>2. QED
      BY <2>3, <3>1 DEF TakeNav, Current, TypeOK, Stages
  <2>4. ASSUME WaitForSelector \/ Dump \/ Navigated \/ Close \/ NavigateFails
        PROVE  TypeOK'
    BY <2>4 DEF WaitForSelector, Dump, Navigated, Close, NavigateFails,
                Saved, TypeOK, Stages
  <2>5. ASSUME Evaluate \/ EvaluateRemote
        PROVE  TypeOK'
    <3>1. PICK result \in Results : Eval(result)
      BY <2>5 DEF Evaluate, EvaluateRemote
    <3>2. DOMAIN nodes' \subseteq Ids /\ nodes' \in [DOMAIN nodes' -> Nat]
      BY <3>1, EvalType
    <3>3. /\ url' = url /\ gen' = gen /\ given' \in Nat /\ nav' \in Urls \cup {NoUrl}
          /\ unfollowed' \in BOOLEAN /\ listeners' \subseteq Ids \X Nat /\ ran' \in Nat
      BY <3>1, EvalType
    <3>4. answer'.is = "html" => answer' = answer
      BY <2>5 DEF Evaluate, EvaluateRemote, Results
    <3>5. /\ at' \in Stages /\ cookies' \in Nat
          /\ UNCHANGED <<program, target, todo, hops, current, file, known, sent>>
      BY <2>5 DEF Evaluate, EvaluateRemote, Harvest, TypeOK, Stages
    <3>6. QED
      BY <3>2, <3>3, <3>4, <3>5 DEF TypeOK
  <2>6. ASSUME Navigate
        PROVE  TypeOK'
    <3>1. PICK u \in Urls : Loaded(u) /\ sent' = u
      BY <2>6 DEF Navigate
    <3>2. DOMAIN nodes' \subseteq Ids /\ nodes' \in [DOMAIN nodes' -> Nat]
      BY <3>1, LoadedType
    <3>3. /\ url' \in Urls /\ gen' \in Nat /\ given' \in Nat /\ nav' = NoUrl
          /\ unfollowed' = FALSE /\ listeners' \subseteq Ids \X Nat /\ ran' \in Nat
      BY <3>1, LoadedType
    <3>4. /\ todo' \in 0..MaxScripts /\ at' \in Stages
          /\ UNCHANGED <<program, target, hops, current, cookies, file, known, answer>>
      BY <2>6 DEF Navigate, Collected, Stages
    <3>5. QED
      BY <3>1, <3>2, <3>3, <3>4 DEF TypeOK
  <2>7. ASSUME QuerySelector
        PROVE  TypeOK'
    <3>1. known' \subseteq Handles
      BY <2>7 DEF QuerySelector, TypeOK, Handles
    <3>2. QED
      BY <2>7, <3>1 DEF QuerySelector, TypeOK
  <2>8. ASSUME GetOuterHTML
        PROVE  TypeOK'
    <3>1. PICK k \in known :
            answer' = [is |-> "html", asked |-> k,
                       got |-> IF k[1] \in DOMAIN nodes THEN {<<gen, nodes[k[1]]>>}
                               ELSE {}]
      BY <2>8 DEF GetOuterHTML
    <3>2. k \in Handles /\ \A i \in DOMAIN nodes : nodes[i] \in Nat
      BY DEF TypeOK
    <3>3. answer'.asked \in Handles /\ answer'.got \subseteq Nat \X Nat
      BY <3>1, <3>2 DEF TypeOK
    <3>4. QED
      BY <2>8, <3>3 DEF GetOuterHTML, TypeOK
  <2>9. CASE Over \/ UNCHANGED vars
    BY <2>9 DEF Over, vars, TypeOK
  <2>10. QED
    BY <2>1, <2>2, <2>3, <2>4, <2>5, <2>6, <2>7, <2>8, <2>9 DEF Next, Render, Serve
<1>3. QED
  BY <1>1, <1>2, PTL DEF Spec

----------------------------------------------------------------------------
(* The page that is shown *)

\* Where a render is in its hops: a document for each hop and for the first URL,
\* the loaded one that of the URL fetched last, and what its pages queued either
\* in the slot or dropped with the budget.
RenderInv ==
    /\ at = "fetch" => gen = hops
    /\ at = "scripts" => url = target /\ gen = hops + 1 /\ (unfollowed => nav # NoUrl)
    /\ at \in {"wait", "eval"} =>
          /\ current = url /\ nav = NoUrl
          /\ gen = hops + 1
          /\ unfollowed => hops = MaxNavHops

ShownInv == IF Rendering THEN RenderInv ELSE url = sent /\ at # "fetch"

\* Code that runs in a page keeps its URL, and a navigation it queues waits.
LEMMA EvalKeeps ==
    ASSUME NEW result, Eval(result)
    PROVE  /\ url' = url /\ gen' = gen
           /\ (unfollowed => nav # NoUrl) => (unfollowed' => nav' # NoUrl)
BY PageRuntimeAssumption DEF Eval, NavTo

\* What a render goes on with is the page it reports, with every navigation
\* followed that the budget allows; a CDP connection stays where its last
\* successful Page.navigate went.
THEOREM ShownIsReported == Spec => []RenderedPage
<1> USE PageRuntimeAssumption
<1>1. Init => ShownInv
  BY DEF Init, ShownInv, RenderInv, Rendering
<1>2. TypeOK /\ ShownInv /\ [Next]_vars => ShownInv'
  <2> SUFFICES ASSUME TypeOK, ShownInv, [Next]_vars
               PROVE  ShownInv'
    OBVIOUS
  <2> USE DEF ShownInv, Rendering, document, js, render, jar, cdp
  <2>1. ASSUME FetchPage
        PROVE  ShownInv'
    BY <2>1 DEF FetchPage, Loaded, RenderInv
  <2>2. ASSUME FetchFails
        PROVE  ShownInv'
    BY <2>2 DEF FetchFails, RenderInv
  <2>3. ASSUME RunScript
        PROVE  ShownInv'
    <3>1. PICK result \in Results : Eval(result)
      BY <2>3 DEF RunScript
    <3>2. /\ url' = url /\ gen' = gen
          /\ (unfollowed => nav # NoUrl) => (unfollowed' => nav' # NoUrl)
      BY <3>1, EvalKeeps
    <3>3. /\ UNCHANGED <<program, target, hops, current, sent>>
          /\ at = "scripts" /\ at' \in {"scripts", "failed", "ready"}
      BY <2>3 DEF RunScript
    <3>4. QED
      BY <3>2, <3>3 DEF RenderInv
  <2>4. ASSUME TakeNav
        PROVE  ShownInv'
    <3>1. RenderInv /\ at = "scripts" /\ hops \in 0..MaxNavHops /\ gen \in Nat
      BY <2>4 DEF TakeNav, TypeOK
    <3>2. CASE nav = NoUrl \/ HopSpent
      <4>1. /\ at' = "wait" /\ current' = target /\ nav' = NoUrl
            /\ UNCHANGED <<program, url, gen, hops, unfollowed>>
        BY <2>4, <3>2 DEF TakeNav, Current
      <4>2. unfollowed => hops = MaxNavHops
        BY <3>1, <3>2 DEF RenderInv, HopSpent
      <4>3. QED
        BY <2>4, <3>1, <4>1, <4>2 DEF RenderInv, TakeNav
    <3>3. CASE ~(nav = NoUrl \/ HopSpent)
      <4>1. at' = "fetch" /\ hops' = hops + 1 /\ gen' = gen /\ program' = program
        BY <2>4, <3>3 DEF TakeNav
      <4>2. QED
        BY <2>4, <3>1, <4>1 DEF RenderInv, TakeNav
    <3>4. QED
      BY <3>2, <3>3
  <2>5. ASSUME WaitForSelector
        PROVE  ShownInv'
    BY <2>5 DEF WaitForSelector, RenderInv
  <2>6. ASSUME Evaluate
        PROVE  ShownInv'
    <3>1. program' = program /\ program # "cdp" /\ at' \in {"failed", "printed", "done"}
      BY <2>6 DEF Evaluate
    <3>2. QED
      BY <3>1 DEF RenderInv
  <2>7. ASSUME Dump
        PROVE  ShownInv'
    BY <2>7 DEF Dump, RenderInv
  <2>8. ASSUME Navigate
        PROVE  ShownInv'
    BY <2>8 DEF Navigate, Serving, Loaded
  <2>9. ASSUME EvaluateRemote
        PROVE  ShownInv'
    <3>1. PICK result \in Results : Eval(result)
      BY <2>9 DEF EvaluateRemote
    <3>2. QED
      BY <2>9, <3>1, EvalKeeps DEF EvaluateRemote, Serving
  <2>10. ASSUME NavigateFails \/ Navigated \/ QuerySelector \/ GetOuterHTML \/ Close
         PROVE  ShownInv'
    BY <2>10 DEF NavigateFails, Navigated, QuerySelector, GetOuterHTML,
                 Close, Serving
  <2>11. CASE Over \/ UNCHANGED vars
    BY <2>11 DEF Over, vars, RenderInv
  <2>12. QED
    BY <2>1, <2>2, <2>3, <2>4, <2>5, <2>6, <2>7, <2>8, <2>9, <2>10, <2>11
       DEF Next, Render, Serve
<1>3. ShownInv => RenderedPage
  BY DEF ShownInv, RenderInv, RenderedPage, Rendering
<1>4. QED
  BY <1>1, <1>2, <1>3, TypeCorrect, PTL DEF Spec

----------------------------------------------------------------------------
(* The jar file *)

\* The file is written in the last step of a render that dumps its page.
FileInv ==
    program = "cli" => IF at = "done" THEN file = cookies ELSE file = 0

\* The jar file of `bouncy fetch` is never left with a part of the cookies it
\* received, and holds all of them after a dump.
THEOREM JarIsWhole == Spec => []JarWritten
<1>1. Init => FileInv
  BY DEF Init, FileInv
<1>2. FileInv /\ [Next]_vars => FileInv'
  <2> SUFFICES ASSUME FileInv, [Next]_vars
               PROVE  FileInv'
    OBVIOUS
  <2> USE DEF FileInv, render, jar, cdp
  <2>1. ASSUME FetchPage \/ FetchFails
        PROVE  FileInv'
    BY <2>1 DEF FetchPage, FetchFails, Harvest
  <2>2. ASSUME Dump
        PROVE  FileInv'
    BY <2>2 DEF Dump, Saved
  <2>3. ASSUME Evaluate \/ RunScript
        PROVE  FileInv'
    BY <2>3 DEF Evaluate, RunScript, Harvest
  <2>4. ASSUME \/ TakeNav \/ WaitForSelector \/ Serve
        PROVE  FileInv'
    BY <2>4 DEF TakeNav, WaitForSelector, Serve, Navigate, NavigateFails,
                Navigated, EvaluateRemote, QuerySelector, GetOuterHTML, Close, Serving
  <2>5. CASE Over \/ UNCHANGED vars
    BY <2>5 DEF Over, vars
  <2>6. QED
    BY <2>1, <2>2, <2>3, <2>4, <2>5 DEF Next, Render
<1>3. FileInv => JarWritten
  BY DEF FileInv, JarWritten
<1>4. QED
  BY <1>1, <1>2, <1>3, PTL DEF Spec

----------------------------------------------------------------------------
(* Node ids *)

\* An id is the number of its node: ids are given out in the order in which nodes
\* are made and no other node ever gets one of them, in any document.
IdInv ==
    /\ \A i \in DOMAIN nodes : nodes[i] = i
    /\ \A k \in known : k[3] = k[1]
    /\ answer.is = "html" =>
          /\ answer.asked[3] = answer.asked[1]
          /\ \A e \in answer.got : e[2] = answer.asked[1]

LEMMA LoadedIds ==
    ASSUME NEW u, Loaded(u)
    PROVE  \A i \in DOMAIN nodes' : nodes'[i] = i
BY DEF Loaded, First

LEMMA EvalIds ==
    ASSUME IdInv, NEW result, Eval(result)
    PROVE  \A i \in DOMAIN nodes' : nodes'[i] = i
<1>1. PICK by : Touched(by)
  BY DEF Eval
<1>2. QED
  BY <1>1 DEF Touched, NextId, IdInv

\* An id a CDP client was given never leads to another node of the document
\* that gave it.
THEOREM HandlesAreExact == Spec => []HandleIsExact
<1>1. Init => IdInv
  BY DEF Init, IdInv, First, NoAnswer
<1>2. IdInv /\ [Next]_vars => IdInv'
  <2> SUFFICES ASSUME IdInv, [Next]_vars
               PROVE  IdInv'
    OBVIOUS
  <2> USE DEF document, js, render, jar, cdp
  <2>1. ASSUME FetchPage \/ FetchFails \/ Navigate
        PROVE  IdInv'
    <3>1. nodes' = nodes \/ \A i \in DOMAIN nodes' : nodes'[i] = i
      BY <2>1, LoadedIds DEF FetchPage, FetchFails, Navigate
    <3>2. known' = known /\ answer' = answer
      BY <2>1 DEF FetchPage, FetchFails, Navigate
    <3>3. QED
      BY <3>1, <3>2 DEF IdInv
  <2>2. ASSUME RunScript \/ Evaluate \/ EvaluateRemote
        PROVE  IdInv'
    <3>1. PICK result \in Results : Eval(result)
      BY <2>2 DEF RunScript, Evaluate, EvaluateRemote
    <3>2. \A i \in DOMAIN nodes' : nodes'[i] = i
      BY <3>1, EvalIds
    <3>3. known' = known /\ (answer'.is = "html" => answer' = answer)
      BY <2>2 DEF RunScript, Evaluate, EvaluateRemote, Results
    <3>4. QED
      BY <3>2, <3>3 DEF IdInv
  <2>3. ASSUME TakeNav \/ WaitForSelector \/ Dump \/ Close \/ Over \/ UNCHANGED vars
        PROVE  IdInv'
    BY <2>3 DEF TakeNav, WaitForSelector, Dump, Close, Over, vars, IdInv
  <2>4. ASSUME NavigateFails \/ Navigated \/ QuerySelector
        PROVE  IdInv'
    <3>1. nodes' = nodes /\ (answer'.is = "html" => answer' = answer)
      BY <2>4 DEF NavigateFails, Navigated, QuerySelector
    <3>2. \A k \in known' : k[3] = k[1]
      BY <2>4 DEF NavigateFails, Navigated, QuerySelector, IdInv
    <3>3. QED
      BY <3>1, <3>2 DEF IdInv
  <2>5. ASSUME GetOuterHTML
        PROVE  IdInv'
    <3>1. PICK k \in known :
            answer' = [is |-> "html", asked |-> k,
                       got |-> IF k[1] \in DOMAIN nodes THEN {<<gen, nodes[k[1]]>>}
                               ELSE {}]
      BY <2>5 DEF GetOuterHTML
    <3>2. k[3] = k[1] /\ (k[1] \in DOMAIN nodes => nodes[k[1]] = k[1])
      BY DEF IdInv
    <3>3. /\ answer'.asked[3] = answer'.asked[1]
          /\ \A e \in answer'.got : e[2] = answer'.asked[1]
      BY <3>1, <3>2
    <3>4. nodes' = nodes /\ known' = known
      BY <2>5 DEF GetOuterHTML
    <3>5. QED
      BY <3>3, <3>4 DEF IdInv
  <2>6. QED
    BY <2>1, <2>2, <2>3, <2>4, <2>5 DEF Next, Render, Serve
<1>3. IdInv => HandleIsExact
  BY DEF IdInv, HandleIsExact
<1>4. QED
  BY <1>1, <1>2, <1>3, PTL DEF Spec
=============================================================================
