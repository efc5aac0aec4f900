# A verification project for bouncy

bouncy is a headless browser in Rust: an HTTP client, a DOM, V8 with a
bridge to that DOM, and on top of them a stateful browse session, an MCP server,
a CDP server and a command line (fetch, scrape, browse). These TLA+ modules
model its stateful parts, TLC checks them on small instances, and TLAPS proves
the most important results for every value of the constants.

Paths below are relative to `src/` of the repository; `session.rs` is
`crates/bouncy-browse/src/session.rs`, and so on.

## 1. Inventory

### The parts and the state each keeps

| Part | Source | State | Operations |
|---|---|---|---|
| Browse session: actor and channel | `bouncy-browse/session.rs` | the `Arc` handles, the unbounded command channel, the actor thread, one oneshot per call | `open`, every method (`send` a command, await the reply), chains, drop |
| Browse session: navigation and history | `bouncy-browse/session.rs` | current URL, loaded page, back and forward stacks, the queued navigation | goto, click, fill, submit, select, press key, eval, back, forward, wait, read, snapshot |
| Page snapshot | `bouncy-browse/snapshot.rs` | none (computed from the document) | list interactive elements, headings, forms; give each a selector and an index |
| MCP session store | `bouncy-mcp/browse_store.rs` | a mutex-protected map id to (session, last use), the reaper task | open (two capacity checks), touch, close, reap |
| MCP server and tools | `bouncy-mcp/server.rs, glue.rs, tools.rs` | the store and one fetcher | one handler per tool: touch a session and run a command; stateless fetch, scrape, extract, render |
| JS runtime and bridge | `bouncy-js/runtime.rs, bridge.rs` | one V8 context; slots for document, fetch, navigation and cookies | load, run inline scripts, eval, take the pending navigation, dispatch events |
| JS polyfills | `bouncy-js/js/bootstrap.js` | wrapper cache by NodeId, listeners, timers, observers | the DOM API seen by pages |
| Isolate pool | `bouncy-js/lib.rs` | a mutex-protected free list | acquire, release through a guard |
| DOM | `bouncy-dom/lib.rs` | rcdom's reference-counted nodes (lists of children, weak links to parents), a table from NodeId to node and one from address to NodeId | parse, create, append, remove, set inner_html, set text, query, serialise |
| HTTP fetcher and jar | `bouncy-fetch/lib.rs` | the shared cookie jar, the blocklist, the connection pool | request (redirect loop), load and save the jar |
| Bulk scrape | `bouncy-cli/scrape.rs` | the window of rows in progress, a semaphore per host, retries, rows of the summary | scrape |
| Scrape display | `bouncy-cli/scrape_tui.rs` | counters and one line per URL | apply an event, draw, quit |
| CLI fetch | `bouncy-cli/main.rs, select.rs` | one page | fetch, optional JS, navigation loop, output, jar |
| CLI browse | `bouncy-cli/browse.rs` | a session and its last snapshot | script of steps, REPL |
| CDP server | `bouncy-cdp/lib.rs` | per connection: runtime, current document | Page, Runtime and DOM methods |
| Extractors | `bouncy-extract/lib.rs` | none | title, text, links from bytes |
| Facade | `crates/bouncy` | none | re-exports |
| WebArena agent | `bench/webarena/agent.rs, tools.rs` | conversation, step count | model turn, tool calls, done |
| WebArena runner | `bench/webarena/*` | the summary | tasks, judging, provider HTTP |

### How they interact

- A front end (MCP tool, CLI, agent) holds `Arc<BrowseSession>` and calls its
  methods. Each call is a message in an unbounded `mpsc` channel plus a oneshot
  for the reply; one blocking thread per session owns everything else. This is
  the only way to reach a session's state, so **SessionActor** is the front of
  **BrowseSession**.
- The MCP server keeps those `Arc`s in a map. The map entry and the clones that
  running tools hold are what keeps an actor alive: **BrowseStore**.
- The actor calls the runtime (load, scripts, eval) and the fetcher (one
  request per hop). Scripts talk back through a slot: setting `location.href`
  stores a URL in the NavSlot and terminates the script; the session looks at
  the slot after each load or eval.
- All requests of a process share one `Fetcher` and so one cookie jar behind a
  mutex, locked briefly before a hop is sent and after its head is received.
- `scrape` runs its rows in one task; rows share a fetcher and the host
  semaphores and report events through an unbounded channel to the display
  task. Leaving the display aborts the scrape task.
- The MCP render tools, `bouncy fetch` and a CDP connection drive a `Runtime` of
  their own without a session: **PageRuntime**.
- The MCP browse tools and `bouncy browse` turn requests and lines into commands
  of a session: **Frontends**. The benchmark's agent does the same for a language
  model, which names elements by an index of the last snapshot: **AgentLoop**
  over **Snapshot**.

### What is hard, and what must be right

- *Actor and channel*: futures dropped while their command runs, handles dropped
  while commands are queued, construction failing or the thread dying with
  callers waiting. Commands must take effect in order and as blocks, answers
  must be true, every caller must be answered, the thread must end.
- *Navigation and history*: a command is several requests, any of which fails
  or queues another navigation; three places edit two stacks, before and after
  the navigation. Replies, page, URL and stacks must agree.
- *Store*: a check and an insert with an await between them, a reaper whose
  clock is read before the lock, sessions closed under running tools.
- *Fetcher*: method, body, headers and cookies are rewritten hop by hop while
  other calls change the jar; two boundaries (redirects, timeout).
- *Scrape*: two limits taken one after the other, permits kept through
  backoffs, counters in three places; *display*: it sees everything late.
- *DOM*, *runtime*, *polyfills*: two representations of one tree; caches that
  outlive the document they are about; scripts terminated in the middle.
- *Snapshot*, *agent*, *CDP*: sequential, but ids and indexes held by the other
  side go stale, and one element is found by several walks that have to agree.
- *Front ends*: lists of steps converted or parsed at one time and executed at
  another, with several outputs kept up to date in several places.

PROJECT.json lists every hazard with its line and the properties that cover it.

## 2. Plan

Modules are written in the order in which they matter to users of sessions, of
bulk scraping, of pages' scripts and of the front ends. All of them are there.

| # | Module | What it is for | Relation to others |
|---|---|---|---|
| 1 | `BrowseStore` | cap, expiry, reaper, lifetime of actors | each entry is a `SessionActor` behind an `Arc` |
| 2 | `BrowseSession`, `History` | navigation, failures, stacks | implements the abstract `History` |
| 3 | `SessionActor` | channel, replies, lifetime | its steps are `BrowseSession`'s commands |
| 4 | `Fetcher` | redirects, rewriting, timeout, jar | each hop of `BrowseSession` and attempt of `Scrape` is one call |
| 5 | `Scrape` | window, permits, retries | |
| 6 | `ScrapeTui` | display and abort | EXTENDS `Scrape` |
| 7 | `DomTree` | NodeIds, addresses and the tree under mutation | the page of `BrowseSession`, while one document is loaded |
| 8 | `PageRuntime` | one runtime from load to result, its documents and their ids, and the three programs that drive it without a session | the counterpart of `BrowseSession`; its nodes are `DomTree`'s, by id |
| 9 | `Snapshot` | the interactive list, selectors, matching: operators only | used by `AgentLoop` |
| 10 | `AgentLoop` | turns, tool calls, indexes, the conversation, judging | EXTENDS `Snapshot`; a client of a session |
| 11 | `Frontends` | MCP tools and chains, `bouncy browse` | clients of `BrowseSession`; a chain is one command of `SessionActor` |

The abstract specification is `History` (what back and forward promise), which
the session implements. Every safety property that a run checks
is a theorem too. What is worth doing next: the jar's JSON file and
`document.cookie` in `Fetcher`, and the retry loop of the MCP `scrape` tool.

## 3. The modules

Every module has a header that says what it abstracts; every property has a
comment that says what it claims. A definition called "Seeded bug for the runs"
is the broken variant of the definition after it: it is used by no action and
exists to show that a property can fail.

### BrowseStore (`browse_store.rs`)

State: `store` (ids in the map), `age` (ticks since `last_used`), `actor`
(unused, live, gone), `task` (what each client does and the `Arc` it holds),
`reaper`, `uptime`. One action per section under the mutex: `OpenBegin` (first
check, actor spawned), `OpenInsert` / `OpenRefused` (re-check after the await),
`OpenFail`, `Touch`, `Finish`, `Close`; `ReapCutoff` (the clock is read) and
`ReapSweep` (retain under the lock) are apart because the code takes the lock
between them. `ActorExit` happens when the last sender is gone. Time is kept as
ages, so it needs no bound; `Slack` bounds how late the reaper's timer and lock
may be.

### BrowseSession and History (`session.rs`, parts of `runtime.rs`)

State: `current_url`, `page` (last `Runtime::load`), `nav` (the NavSlot, with
the page that filled it), `back_stack`, `forward_stack`, `op` (the running
command and where it is), `last` (its reply), `status`. A command starts
(`Goto`, `SubmitGet`, `SubmitPost`, `Back`, `Forward`, `EvalReturned`,
`EvalFailed`, `Observe`, `NothingToPop`) and then takes one action per request:
`FetchFails`, `ScriptsThrow`, `NavigateOn` and `NavigateLands`
(`navigate_blocking_inner`), `Load` and `DrainEnds` (`drain_navs`). Pages are
known by their URL; their scripts may queue any navigation or throw. Click,
fill, select, key and eval do the same to this state and are one action.

`History` is the specification a user has in mind: an entry, a past, a future
and whether the last command succeeded, changed by atomic operations (open,
visit, replace, answer, step back or forward, lose an entry in a failed
traversal; a step says that it succeeded, a lost entry that it did not).
`AsHistory` maps the running session to it: while a navigation is under way the
entry shown is still the one it left, and an entry that was popped still counts.
A session that pushed an entry before
the navigation landed, pushed in both directions, or forgot to clear the future
would not implement it.

### SessionActor (`session.rs`: `send`, `spawn_actor`, `actor_main`, `run_chain`)

State: `holders` (tasks with a clone of the `Arc`), `queue`, `actor`,
`waiting` and `answer` (the oneshots), `effects` (steps executed, a history
variable). Callers `Send`, `Return`, `Abandon` (drop the future), `Share`,
`Release`; the actor `Start`s (construction may fail), `Recv`s, executes
(`StepOk`, `LastStepOk`, `StepErr`), answers `RecvFailing`, `Exit`s; with
`Fragile` it may `Panic`, which applies to builds that unwind (the release
profile aborts, `Cargo.toml:105`).

### Fetcher (`bouncy-fetch/lib.rs`)

State per call: `stage`, the request as `asked` and as rewritten (`req`),
`target`, `hops`, `resp`, `timer`; shared: `jar`. A hop is `Send`, `Head`,
then `Done`, `NotFollowed` or `Redirect`; `Fail` and `TimeOut` end it early,
`Leave` drops the future anywhere. `sends`, `seen`, `received` and `waited` (the
ticks a call has spent waiting for heads) observe. Origins stand for URLs because the jar and the blocklist look at
nothing else; one cookie per origin, told apart by setter and order.

### Scrape and ScrapeTui (`scrape.rs`, `scrape_tui.rs`, `main.rs:329-375`)

`Scrape`: `stage` of each row, `pulled` (the window of `buffer_unordered`),
`free` and `queue` of each host's semaphore (tokio's is FIFO and hands a permit
over directly, hence "granted"), `retries`, `result`, `saved`, `events`.
A row's step is what it does between two awaits: `Enter`, `Wait`, `Resume`,
`BackOff`, `RetryNow`, `Complete`, `Fail`. `Setup`, `WriteBack`
and their failures are the task's own.

`ScrapeTui` EXTENDS it with the display: `Show` is one event through
`AppState::apply`, `ShowEnd` the closed channel, `Quit` and `Abort` the key and
what `main` does about it. The interleaving of scrape and display is free: the
display may lag by any number of events.

### DomTree (`bouncy-dom/lib.rs`, the callbacks of `bouncy-js/bridge.rs`)

State: `live` (the cells, that is allocations, that hold a node), `kids` and
`up` (rcdom's list of children and weak link to the parent), `nodes` and
`by_ptr` (the two halves of the NodeId table), `illegal` (how many calls a
browser would have refused), `status`. Actions: `Create`, `AppendChild`,
`RemoveChild`, `ReplaceChildren` (innerHTML with any fragment, textContent with
one node) and `Overflow` (a walk over a cycle, which exhausts the stack).

Three things make it more than a tree. Addresses come back: a new node may take
any free cell, so an entry left in `by_ptr` would be found by a stranger.
Freeing is computed: `Drained` and `Dead` follow rcdom's `Drop`, which empties
the list of every node below a dropped one, held elsewhere or not, while
`Forgotten` is the code's own walk before it. And the callbacks refuse nothing:
`AppendChild` makes a cycle when it is asked to, `RemoveChild` clears the link of
a node that was not in the list. Lists are sets: the order of siblings, and a node
listed twice by one parent, change none of the properties. Whether a call is
legal (`Counted`) is what the DOM standard says, and is observed only.

### PageRuntime (`bouncy-js/runtime.rs`, `bridge.rs`; `glue.rs`, `main.rs`, `bouncy-cdp/lib.rs`)

State: the document (`url`, `gen`, `nodes` by id, `given`), what outlives it in
JS (`nav`, `listeners` by node id, `ran`), the local variables of a render
(`hops`, `current`, `target`), the jar (`cookies`, `file`) and the CDP
connection (`known` handles, `answer`). `program` says which of the three drives
the runtime. A render is `FetchPage` / `FetchFails`, one `RunScript` per inline
script, `TakeNav` (the pending navigation is taken, then the budget looked at),
`WaitForSelector`, and `Evaluate` or `Dump`; a CDP connection is one request
after the other, with Page.navigate as `Navigate`, `RunScript`, `Navigated` or
`NavigateFails`. `Eval` is Runtime::eval: page code may navigate, make or drop a
node, listen, and end, throw or be halted; whose code runs depends on the
listeners kept for the ids of the loaded document, which is where the wrapper
cache shows. A node is known by its id and by a number of its own, so that an id
given out twice would be seen. In `BrowseSession`, by contrast, what runs is
always the loaded page's own code.

### Snapshot and AgentLoop (`snapshot.rs`, selectors of `bouncy-dom/lib.rs`; `bench/webarena`)

`Snapshot` has operators only: `Parsed` and `Matches` are SimpleSelector,
`UniqueSelector` tries the strategies of unique_selector in order, `Interactive`
gives indexes to forms with their fields, stray fields, links and buttons, and
`TextMatches` is the search of run_click_text. Pages are sequences of elements
with the attributes selectors look at; where the code keeps vectors of NodeIds
these are sequences of positions, so that each walk of the code is an
enumeration of a set of positions (`InOrder` gives document order).

`AgentLoop` is run_task and the job loop around it. State: `page` (live),
`shown` (the list in the last message), `at`, `step`, `calls` still to
dispatch, `blocks`, `messages`, the trajectory (`steps`, `answer`, `stop`) and
`verdicts`. `Open`, `Turn`, one action per kind of tool call (`ByIndex`,
`ByText`, `BySelector`, `Look`, `Done`), `Refresh`, and the ways out (`NoCalls`,
`OutOfSteps`, `HarnessError`, `Score`). The model may send any turn; an index
goes through a snapshot of its own (`Resolved`), as in resolve_target. Its
specification is `AgentSpec`, with names of its own, so that one module of proofs
can extend it and `BrowseStore`.

### Frontends (`server.rs`, `tools.rs`; `browse.rs`)

State: `page` (how often the session's page has changed), for MCP `there` (the
session is in the store) and `call` (one per client), for the CLI `script`,
`json` (the flag), `line`, `printed`, `last` and `status`, and `ran`, what was
executed. `CallTool` and `CallChain` touch, convert and send; `Finish` is the
actor's execution and the handler's answer; `Return`, `Gone`. `DoStep` is one
`--do`, `DoneScript` the end, `ReplLine` and `ReplEnd` the REPL. How far a command
gets, and which of its steps change the page before one fails, is any possibility
(`Runs`). `printed` is what goes to standard output, a record per document or per
group of lines: what it is, its step, and the page it shows. A script in text
announces each step that parses (`Echo`), reports what it returned (`Results`;
a read has a line per match, so maybe none) and ends with `done.`; under `--json`
it announces nothing, prints a document for a read or an eval, keeps snapshots to
itself (`StepResults`) and ends with the last one. The REPL prints every result
in both modes and has no end.

## 4. What is checked

Bounds and sizes (distinct states) of the passing runs:

| Run | Instance | States | What it shows |
|---|---|---|---|
| `store` | 3 clients, 3 ids, cap 1, timeout 2, interval 1, slack 1, a clock that may not reach back | 39 990 | cap, live handles, the deadline of an entry, the reaper spares recent ones, an abandoned session is freed |
| `session` | 3 URLs, 2 hops, 2 entries | 109 547 | settled replies, no stray navigation, implements `History`, every command is answered |
| `actor` | 3 tasks, 4 calls, chains of 2, panics | 71 307 | order, true answers, draining, callers are answered, the thread ends |
| `fetch` | 1 call, every input, 2 origins, 2 redirects, timeout 2, 1 cookie | 316 638 | redirect budget and time waited, coherent rewriting, a call with a timeout ends |
| `fetch_jar` | 2 calls, 2 origins, 2 cookies, 1 redirect | 1.4 million | cookies stay home, a call reads what it received |
| `scrape` | 3 rows of one host, window 2, 1 permit, 1 retry, display | 130 339 | host cap, no idle permit, truthful attempts, the display and its counters agree, it says finished in the end |
| `dom` | the document and 3 more cells, 7 ids, fragments of 2, 1 illegal call | 27 274 | ids and addresses one to one; with legal calls: links agree, forgotten is freed, no cycles |
| `page` | 2 URLs, 2 hops, 3 documents, 2 scripts a page, 2 ids a document, 1 listener, 1 cookie | 515 398 | what is shown is reported, handles are exact, the jar is whole, renders end |
| `agent` | 2 tasks, 2 turns of up to 2 calls, pages of up to 2 elements of 6 shapes, indexes 0, 1, 2 and 4 with a width of 4 | 398 308 | complete lists, an index acts on what was shown, conversation and trajectory whole |
| `tools` | 2 clients, 2 calls or lines, 3 steps, 3 changes of the page | 657 099 | a chain with a step that does not convert runs nothing and one answered ok ran all of it, final snapshots are true, what a script prints in text and under `--json` is what it did, and it ends with the page as it is |

Why these are enough. The store needs two clients that both pass the first
check with one place left, and a third to touch or close between the reaper's
two steps; three ids let a session be closed and replaced. The session needs
three URLs to tell a page, its predecessor and a redirect apart, and two entries
in a stack so that the top is not the bottom; two hops beyond the first have a
first, a middle and a last. Three tasks let one abandon, one hold and one drop;
four calls let one be executed, one run and one wait while another is sent. Two
redirects allow a 307 after a 303 and the reverse; two calls on one origin race
on the jar. Three rows fill a window of two and leave one queued, with one
permit so that one of the two waits, and one retry so that a permit is kept
through a backoff. Three cells besides the document make a parent, a child and a
second parent to move it to, and seven ids let every cell be used again; one
illegal call is enough to make a cycle or to part the lists from the links. Two
hops and three documents spend the budget of a render with a navigation left
over, and two ids let one be dropped and another made. A page of two elements
has a form with its field, two fields of the same name with and without a
trailing blank, or two elements that share a tag or a class, and a script may
turn any of them into a page where the index or the selector is another's;
index 4 with a width of 4 is the index that wraps to 0. Three steps put a bad or
failing one first, in the middle or last, and let reads follow the last
snapshot.

Bounds that cut an otherwise unbounded thing are `MaxEntries` (guard of the
commands that push), `MaxCalls`, `MaxCookies`, `MaxWaited`, `MaxIds`,
`MaxFragment`, `MaxIllegal`; `MaxScripts`, `MaxNodes`, `MaxLoads` and
`MaxListeners` of `PageRuntime`; `MaxLen`, `Shapes` and `Added` of `AgentLoop`;
`MaxSteps` and `MaxPage` of `Frontends`; each is named in its module. Symmetry is
used in `fetch_jar`, over the calls, in `dom`, over the cells other than the
document, and in `tools`, over the clients: constants that nothing tells apart,
in runs that check invariants only. Deadlock checking is off where a run really may stop: in the session
runs after a failed `open`, in the actor run after the thread has ended and
nobody holds a handle, in the DOM runs after the process has died of a cycle or
when the ids of the bound are used up. Elsewhere the end of a program is a
stuttering action of its own (`Over`, `Ended`, `Quiet`).

The type invariant of each module is proved for every value of its constants
(section 5) and not repeated as a run.

### Fairness

- `BrowseStore`: opens and commands come back, an unreferenced actor notices,
  the reaper's loop runs, time passes. Clients owe nothing; the property is a
  disjunction with "touched again and again".
- `BrowseSession`: a step of a running command is eventually taken, that is,
  requests are answered and scripts return. The session's fetcher has no request
  timeout, so this is an assumption about servers and pages and not something
  the code enforces.
- `SessionActor`: the actor thread is scheduled and commands come back (the
  previous item), and a caller whose answer is there resumes.
- `Fetcher`: only that time passes, expired timers fire and a body that has
  started comes to an end; no server has to answer.
- `Scrape`: `FairSpec` schedules the task and fires timers, no server has to
  answer. `ScrapeTui`'s `TuiFairSpec` adds that servers do, because `--timeout`
  has no effect (below), and that the display keeps ticking; the user need not
  leave, and if they do the task still has to end.
- `PageRuntime`: a render's next step is eventually taken, that is, servers
  answer, scripts return and the thread is scheduled. A CDP connection owes
  nothing: clients may stop asking.

### Where the code and its documentation part

Each of these runs checks one statement of a comment or of the documentation
and finds it violated; PROJECT.json quotes the lines.

| Run | Statement | What the model shows |
|---|---|---|
| `scrape_timeout` | `--timeout` bounds each URL (README.md:449) | it is parsed and dropped: a row may wait for ever |
| `page_listeners` | the wrapper cache is cleared between page loads (`bootstrap.js:32-34`) | nothing clears it, and a listener of an old page runs for an element of the new one with the same id |

Differences met while modelling that need no run to be seen; the models follow
the code:

- the store's cap counts map entries, so sessions being opened, or closed while
  a tool uses them, hold isolates above it (`browse_store.rs:129`);
- soon after boot the reaper's cutoff falls back to the present
  (`browse_store.rs:211`), and only-idle is then a matter of one sweep;
- a click is said to drain any `location.href` redirects (repository
  `README.md:344`); when the evaluation fails, as it does when it is terminated
  because the script set `location.href` (`NavTerminated`), click and `eval` answer
  with an error before they come to the drain (`session.rs:890-898`,
  `1105-1106`), and the navigation waits for the next command. One that succeeds
  is drained;
- with `--json` a script is said to emit only the final snapshot
  (`browse.rs:66-69`); reads and evals print a document each before it
  (`browse.rs:92-110`), and only the snapshots of the steps are held back;
- a chain that fails drops the outputs of the steps that ran
  (`session.rs:1399-1412`);
- a row that waits for its host's permit occupies the window
  (`scrape.rs:163-165` says it does not), and redirects leave the host whose
  permit was taken (`scrape.rs:276`);
- a URL given twice is one line of the display and two of its histogram
  (`scrape_tui.rs:138-140`);
- `q` in the dashboard aborts the scrape before the jar is written
  (`main.rs:357-359`);
- the forward stack is said to be cleared on any other navigation
  (`session.rs:578-580`); a click or a POST that ends on another page leaves both
  stacks as they were (`session.rs:654-670`, `1037-1039`), which is the
  `replace` of `History`;
- request_timeout is said to wrap the whole request
  (`bouncy-fetch/lib.rs:520-521`); it is armed for the head of each hop
  (`lib.rs:756`), which is what `RedirectBudget` bounds;
- the blocklist is consulted for the first URL only, so a redirect reaches a
  blocked host (`bouncy-fetch/lib.rs:646`, `678`);
- a removeChild by a node that is not the parent, which browsers refuse, clears
  the child's link and leaves it in its list (`bouncy-dom/lib.rs:374-376`); moved
  and swept away later it stays in the document without a NodeId;
- an index is looked up in a snapshot of its own (`session.rs:691`), while the
  agent shows the model one per turn and lets it send several calls
  (`webarena/tools.rs:7-9`, `agent.rs:26`; `session.rs:90-92` expects indices of
  the latest snapshot): only the first call of a turn is sure to meet the list
  that was shown, which is why `FirstIndexActs` says no more. A selector whose attribute value has blanks around it is trimmed when it is read
  back (`bouncy-dom/lib.rs:532`) and may then miss its element;
- within `interactive` a form comes after its fields although its index comes
  before theirs (`snapshot.rs:181-197`); `Interactive` is in index order;
- a chain of the MCP tools that fails answers with the error alone, where
  `server.rs:639` and `tools.rs:434-435` promise the steps that completed; and
  its `snapshot` is the last one any step returned, where `tools.rs:461-463`
  says there is none if the last step was a read (`server.rs:654-658`);
- `outer_html` answers an empty string for an unknown id, so the CDP error
  "unknown nodeId" cannot happen (`runtime.rs:630-636`, `cdp/lib.rs:214`);
- `bouncy fetch --eval` returns before it saves the jar (`main.rs:593-599`,
  against `main.rs:123-124`), and `--dump links` resolves against the URL of the
  command line, whatever page was reached (`main.rs:626`).

### Seeded bugs

Every property of a passing run has a mutant in PROJECT.json: a definition of
the model replaced by the variant a plausible mistake in the code would give
(no re-check after the await, a strict comparison, a permit freed twice, a hop
not counted, a table cleared by half), under which TLC finds the property
violated.

## 5. What is proved

Proofs are in modules of their own (`*_proofs`) that EXTEND the model;
`BrowseClients_proofs` is about both programs that keep sessions for a language
model, `BrowseStore` and `AgentLoop`. They hold
for every value of the constants that satisfies the module's named assumption
(`StoreAssumption`, `SessionAssumption`, `ActorAssumption`,
`FetcherAssumption`, `ScrapeAssumption`, `DomAssumption`,
`PageRuntimeAssumption`, `FrontendsAssumption`, `AgentAssumption` with
`SnapshotAssumption`), which say that bounds
are naturals and that sentinels are not data; where a set has to be finite the
proof shows it. `AgentAssumption` also says what a shape is (types only) and that
there are more node ids than a page and a list can hold, since a new element
always gets an id of its own (`Document::intern`).

Two theorems about the display have hypotheses of their own: `Tui` (the scrape
runs with a display) and `DistinctUrls` (no URL is given twice). Both are what
`MCScrapeTui` instantiates, and without the second the claim is false, as said
above: a URL given twice has one line.

| Theorem | Inductive invariant | Why the property alone is not inductive |
|---|---|---|
| `TypeCorrect` in each | `TypeOK` and what it needs | |
| `CapHolds` | `CapInv`: the map is finite and within the cap | Cardinality says nothing of a set not known to be finite |
| `DeadlineHolds` | `AgeInv`: an entry's age by where the reaper is, and the reaper's own lateness | the deadline has to be split over sleeping and sweeping |
| `ReaperSparesRecent` | `WindowInv`: what the cutoff of a sweep under way can be | the step compares with a clock read earlier |
| `HandlesStayAlive` | `HandleInv`: entries and handles have live actors | |
| `SuccessSettles`, `NavBelongsToPage` | `IInv`: with `Started` (an open session has a page) and `PostLoaded` (a POST has loaded before it drains) | a drain answers Ok from `nav = NoNav`, and page and URL agree only because of what it loaded |
| `ImplementsHistory` | `IInv` | each command step maps to one operation of `History` or to a stutter |
| `SerialExecution` | `OrderInv`: ids in the queue increase, are above those executed, and the running command's steps are the last effects | order of the past needs order of the queue |
| `AnswersAreTrue` | `ReplyInv`: what the running command has done so far, what queued ones have not, and what each answer says of its own command | an answer is about the past of a command that has left the queue |
| `DrainsFirst` | `RanInv`: every accepted call is queued, running or executed | |
| `BudgetHolds` | `BudgetInv`: requests sent against redirects followed, by stage; `WaitInv`: ticks waited against requests sent and the timer of the one under way | the time of a call is that of its hops added up |
| `RewritesAreCoherent` | `CoherentInv`: coherence at every stage | the property speaks of requests on the wire only |
| `CookiesAreHome`, `CookiesAreRead` | `JarInv` and `WireInv`: the jar's entry of an origin was set by it and is at least as new as anything a call saw | the cookie on the wire is what the jar held when it was sent |
| `HostCapHolds`, `NoWastedPermit` | `FullInv`: `QueueInv` (the queue of a host is the rows that wait, each once, and only while no permit is free) and `PermitInv` (free permits and holders add up to the limit) | the cap follows from conservation |
| `RetriesBounded` | `AttemptInv`: requests made against retries, by stage | |
| `BesideTheDisplay` | the same four, with the display's steps: showing an event or leaving changes no row, aborting ends them all | the display's module has another next-state relation |
| `HeaderAndLinesAgree` | `Leads` and `Counts`: for each line, what is shown and the events still on their way add up to what the row has reported; the counters count lines | the display lags, so what it shows has to be completed by what is in the channel |
| `FinishedCountsAll` | the same: when the channel is closed and empty nothing is missing | |
| `TableHolds` | `Memory`: types and the table together | a call acts on `nodes[n]`, which is a live node only because the table is coherent |
| `LinksHold`, `NamedHolds`, `WalksEnd` | `IInv`: `Memory`, and `Tree` while no call was illegal (lists and links agree, every node is named, the document is a root, no node is below itself) | what `Drop` frees is what `forget_subtree` walks only in a forest, and appending keeps a forest only because its ancestors, read off the links, are those of the lists |
| `ShownIsReported` | `ShownInv`, with `RenderInv`: page, URL, hops and the navigation left, by stage; a connection's page is the one last sent for | where the property speaks (after the loop) everything was decided before |
| `HandlesAreExact` | `IdInv`: in every document the id of a node is its number, and so for every handle and answer | the answer is looked up in a document loaded long after the handle was given |
| `JarIsWhole` | `FileInv`: nothing is in the file before the end | |
| `CallsAreWhole` | `CallInv`: calls have distinct ids (`Own`), only calls that convert are sent (`Sound`), and what ran of each is what its state says (`RanFor`) | what one client's call runs must not be taken for another's |
| `FinalIsTrue` | the property itself, by the lemma `FinalIsNow`: the last snapshot of a chain that succeeded counts all its moves | |
| `ScriptsReport` | `ScriptInv`: `ScriptDid` (the steps executed, and announced in text, are the lines taken and the one that failed), `ScriptTold` (what was reported of them, by mode) an order of the documents that leaves room for the next step only, and `ScriptEnds` (an ending is printed by a script that is ok, and the snapshot it keeps is the page until a step fails) | the failing step is executed and announced, yet is no line; under `--json` the snapshot is printed long after the step that returned it |
| `ShownIsComplete` | `PageInv`: the page has distinct nodes, each in one form at most, and what was shown is its list until the first call of a turn is answered | the list is complete for pages that are well formed, whatever scripts did to them |
| `IndexIsHonoured` | `PageInv`, by `SoundSelector` (a selector that is unique and reads back leads to the element it was made for) | the index goes through a snapshot taken later than the one that was shown |
| `ConversationHolds` | `ConvInv`: roles alternate, and during a turn the calls of the last message are those answered and those still to dispatch | the property speaks of the moments between turns |
| `TrajectoryHolds` | `TrajInv`: the steps followed by the calls still to dispatch are the calls of the conversation | |
| `AgentHolds` | all of these together | |

The argument about the tree rests on lemmas about `Below`, the smallest set
closed under children: taking nodes out of lists makes no cycle
(`AcyclicLess`), nor does hanging a node under one that is not below it
(`AcyclicMore`), nor replacing what is below a node by a fragment
(`AcyclicReplace`); and in a tree nothing below the children of a node is held
from elsewhere (`TreeDrops`).

The argument about the agent's list is one about sequences that enumerate a set,
each element once (`Enumerates`): the walk of one tag enumerates the positions
with that tag, concatenation enumerates a disjoint union (`EnumConcat`,
`EnumFlatten`), so forms with their fields, the fields left over, links and
buttons enumerate what is interactive (`InteractiveEnum`). Fields of two forms
are disjoint because an element is in one form at most, and the stray fields are
the others because a node occurs once. FlattenSeq is a recursive function; its
properties are proved by induction over the set of numbers up to which they hold
(`SetInduction`, from the well-foundedness of the naturals), which takes a set
and no operator as a parameter.

### Only model-checked

- Liveness (`AbandonedIsFreed`, `CommandsEnd`, `CallsEnd`, `ThreadFreed`,
  `FinishShown`, `RenderEnds`): fairness needs ENABLED, which the prover does
  not handle.
- The order of the agent's list: that it has every element once is proved, that
  it is in the order of the code follows from the definitions and is not a
  property. `TextMatches` filters with SelectSeq, which is recursive; nothing
  proved depends on what it finds.
- The violated statements: a counterexample is a proof already.

## 6. What is not modelled

- Contents of pages beyond the tree and what selectors look at (text, values,
  sibling order in `DomTree`), HTML parsing, extraction, argument parsing, what
  printed lines look like (which are printed, and when, is modelled for
  `bouncy browse`): no state that the properties tell apart.
- The web APIs of the polyfills (events, timers, observers, storage) and the
  stealth patch: JavaScript that V8 runs; page code is an environment here. So
  are `document.cookie` and the per-document cookies of scripts' requests
  (`bridge.rs:594-640`); that such requests fill the fetcher's jar is modelled.
- The MCP tools without a session: `fetch` and `extract_*` are one request or one
  function, `scrape` retries as `Scrape` does but for one URL, `scrape_many`
  maps it over a list; the secrets of a session and their placeholders.
- The static path of `bouncy fetch` (one request, no page), its headers and body.
- The isolate pool (`bouncy-js/lib.rs`): used by its tests only.
- The pages of `BrowseSession` have no listeners: that a listener of an earlier
  page may run in a later one is shown in `PageRuntime` alone.
- TLS, proxies, connection pooling, decompression: libraries.
- tokio's limit on blocking threads: a session holds one for its life; the cap
  of 20 sessions per server is far below the default of 512.
- The facade; the benchmark's task files, provider formats and fixture server.
