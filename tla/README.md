# A TLA+ model of sasori

Sasori runs a language-model agent as a durable loop: every accepted reply,
tool dispatch, result and operator decision is committed to a run store before
the program goes on, so that a run survives crashes, timeouts, cancellation and
redeployment without repeating a side effect by itself. Around the loop stand a
server, workflows, a memory, artifacts, provider adapters, tools and a browser
client. This directory models them in TLA+, checks the models with TLC on small
instances and proves with TLAPS, for every instance, the safety properties of the
loop and that it implements its abstract specification, those of the server's
owner, of the memory, of the saved workflows and their page and of running
workflows and their public view, of the decoders and projections a model call
passes through, and that the store survives its migrations.

## The system and its parts

| Part | State it keeps | Operations | What is hard | What makes it correct | Module |
|---|---|---|---|---|---|
| Agent loop, `Harness` (`sasori_core/runtime.py`) | drives in progress and the snapshot each holds | `run`, `resume`, `resolve_approval`, `resolve_effect`, cancellation | awaits interleave drives and cancellation; a crash between two commits; recovery by other tools | no side effect repeated, approval before dispatch, one answer per call, order, one terminal status, progress | `Harness`, `CallContract` |
| Run store (`sqlite_store.py`, `sasori_core/store.py`) | rows of runs, calls, approvals, accepted replies, events | `start_run`, `commit`, `accept_reply`, `update_call`, `request_approval`, `resolve_approval`; opening and migrating | stale snapshots, unique ids, a death between two statements, one owner process | compare-and-swap, events and rows agree, a version is never claimed too early | `Harness`, `RunStoreSchema` |
| Tool progress reporter (`runtime.py` 127-277) | sequence, bytes, pending observers | `report`, `_schedule`, `close`, `abandon`, `drain` | worker threads against the event loop | all progress before the result, in order | `ToolProgress` |
| Model stream collector (`runtime.py` 449-527) | started, terminal, counters | one pass over a stream | early end, duplicate start, events after the end | a reply only from a well-formed stream | `ModelStream` |
| Server owner and HTTP server (`server.py`) | owner state, gate, active drive, futures, handlers | `start`, `call`, `_exclusive`, `close`, request threads, SSE | shutdown from other threads, deadlines | every caller answered, stores closed once, one mutation at a time | `ServerOwner` |
| Artifacts (`sasori_artifacts/store.py`, `sqlite_store.py` 774-898) | blob files, artifact rows | `put`, publish, reconcile | file and row are not one transaction; limit per run | a row always has its blob; results are published before the owner is ready | `Artifacts` |
| Saved workflows (`sasori_flow/catalog.py`) and the Studio page | heads, revisions; the page's ledger and drafts | `create`, `update`, `load`; save, open, reconcile | concurrent editors, lost and late answers | no lost edit, one revision per save, "saved" is true | `WorkflowCatalog` |
| Workflow runtime (`sasori_flow/runtime.py`) and projections | none of its own: the transcript | replay, `_assert_run`, the composed view | recovery in the middle of a step | stops at the first failure, runs stay loadable and visible | `WorkflowRun`, `WorkflowProjection` |
| Memory (`sasori_memory/store.py`, `runtime.py`) | versions, heads, operations, observations, suppressions, index | `remember`, `forget_*`, `rebuild`, tools and leases | replays, forgetting, overlapping threads | forgotten stays forgotten, a replay returns what was committed | `MemoryStore` |
| Context (`sasori_context`, `MemoryContextModel`) | summary cache and its tickets | recall, projection, summary | overlapping computations; three rewriters of one history | nothing dropped that had room, call and result together, one summary | `ContextProjection`, `SummaryCache` |
| Provider adapters (`_provider_common.py`, `provider_*.py`) | a request's control, socket and deadline | one call; decoding a stream | a blocking thread that must be stopped; streams that are cut or spoiled | a reply is the whole message; no thread stays blocked | `ProviderCall`, `ProviderReply` |
| MCP client (`sasori_plugins/mcp_stdio.py`) | a child process per call | request, response, reap | silence, floods, ignored signals | the process is gone in the end, a text is the tool's | `McpProcess` |
| Document index (`sasori_plugins/rag_sqlite.py`) | generations of sources, chunks, records | `index_text`, `search_documents` | repeated and concurrent calls | generations follow one another | `DocumentIndex` |
| Workbench client (`sasori_web`) | cursor, active view, watcher | load, watch, act | late answers, cuts, other views | one gap-free timeline, a view never goes back | `Workbench` |

The loop calls the store synchronously: every operation is one transaction.
It calls a model and tool handlers through awaits, and these are the only
places where other drives, operators and cancellation get in. The server puts
all harnesses on the event loop of one owner thread, and its request threads
submit coroutines to it. A workflow is a model and a wrapper around the loop.
Artifacts, the catalog and the projections share the owner with it; the
workbench reads the projected events over HTTP.

## Modules

`Harness` is extended by `WorkflowRun` (the workflow composed with the loop) and
`WorkflowProjection` (with the public view). `CallContract` is the abstract
specification `Harness` implements. `ServerOwner`, `MemoryStore` and
`WorkflowCatalog` stand alone. The other components share no state with these or
with each other: each is a module of its own, and `Parts` instances all of
them and lets one of them, `part`, run. `MC*` modules hold the constants for
TLC, `*_proofs` modules the proofs. `Harness_proofs` has the types and the order
of calls, then the history and the refinement; `WorkflowRun_proofs` extends it
with the workflow and its view, whose steps are steps of the loop.
`PartsCalls_proofs` and `PartsData_proofs` extend `Parts`: the one has the parts
that call something and wait, the other those that keep or show data.
`PartsContext_proofs` extends the first, whose lemmas about induction it shares,
with what is sent to a model. The other proof modules extend the module they are
named after.

A definition `Name_Variant` is `Name` with a mistake somebody could make in
that code. No specification uses it. PROJECT.json lists, for every property,
a variant that makes the property fail in its run.

### `Harness` and `CallContract`

`snap` is the row of the run (`Snapshot`: revision, status, step, history),
`calls` the `tool_calls` rows, `approvals` the `approvals` rows, `terminals` the
terminal events in the event log. A call is named by its fingerprint: the code
hashes run, step, ordinal, tool and arguments, and step and ordinal already tell
calls of one run apart. Messages keep role, step, ordinal and error flag;
content, usage and provider state are left out.

`drive[h]` is the coroutine of `_drive` in Harness `h`: where it is and which
snapshot it holds. A place is a point where it can be interrupted: `loop` and
`requested` follow a commit (observers run there and the process may die),
`model`, `handler` and `drain` are awaits, `cancelling` is the `CancelledError`
on its way to `_continue`. Between them a drive runs alone, because all
harnesses live on one event loop; `Turn` says so. So `StartModel` is the code
from the top of the loop to the await of the model, `AcceptReply` everything
from the reply to the next commit, and `Verdict` with `RefuseCall`,
`MarkEffectUnknown`, `RequestApproval`, `AwaitDecision` and `DispatchCall` the
early returns of `_process_call` in their order.

`Commit` is the compare-and-swap of `SQLiteStore._commit`. Where the snapshot a
drive uses was read in the same step it cannot fail; after an await it can,
and `Rejected` is `ConcurrentRunError`. `ReplyRowsUnique` distinguishes the two
stores: SQLite has a primary key on accepted replies that reports a stale reply
as a duplicate call id, the in-memory store has not.

Operators are `ResolveApproval`, `SettleEffect` (`record_result`, `fail`) and
`RetryEffect`. `Crash` ends a drive at any place and keeps the store;
`Redeploy` gives a Harness another tool set while it has no drive, the effect a
new release has on recovery. `dispatches` and `retries` are history variables.

### `WorkflowRun` and `WorkflowProjection`

The actions are those of `Harness`, with the workflow's own model in place of an
arbitrary one: `CanReply` and `ReplyTo` are the replay of the history in
`WorkflowModel.complete`. `AssertRun` is `_assert_run`, the comparison of the
durable rows with a replay that guards `resume` and both resolutions.
`WorkflowProjection` has `run_projection`, `_step_status` and the validator of
the composed view; `Served` is whether the view is answered at all.

### `ServerOwner`

The event loop is its queue of callbacks, `ready`; the owner thread, the thread
of `create_server`/`server_close`, the acceptor and the handler threads are
interleaved at every point where another thread can see what they did. A call is
`Call` (admission and `run_coroutine_threadsafe`), `CreateTask`, `StepCall` or
`StepDrive`, `Deliver`, `Return`, or `GiveUp` on the handler's timeout.
`StartSettle`, `GraceEnds`, `DriveSettled`, `FinishSettle` and `StopLoop` are
`_settle` with its grace period and cancellation; `BeginClose` to `Drained`
are `server_close` with its deadlines.

### `MemoryStore`

Each table is a variable, each store operation one action, because it is one
`BEGIN IMMEDIATE` transaction. `Dispatch`, `Claim`, `Operate`, `Return`, `Abandon` and
`Fault` follow the tool threads: a call whose thread is late is dispatched again
while the first thread goes on. `Restart` may come back with another binding.

### `WorkflowCatalog`

The two tables with their conditional `PUT`, and the page with its editor,
ledger, etag and recoveries. `net` holds requests: a `PUT` may be served late,
twice or never, its answer may be lost. Epochs of the page are only compared for
equality, so a request carries the outcome of the comparison.
The page's script is shipped as one minified line: its definitions are mapped to
that line and name the function or handler they model.

### The parts

- `ToolProgress`: the tool's thread, the loop's queue and the sink's threads;
  `Deadline`, `Abandon` and `CancelDrain` are the ways a drive stops listening.
- `ModelStream`: `Yield` gives the collector any event; `WellFormed` is the
  reference it is compared with.
- `ProviderCall`: caller and worker thread of one request, step by step between
  the points where the abort can hit; `ProviderReply` holds both decoders as
  functions of the event sequence, and the streams a provider makes of a
  message. `MCParts` sends whole streams, streams with an event missing, twice,
  misplaced or foreign, and bodies that end anywhere.
- `McpProcess`: the client's stages and a child that may do anything to its pipes.
- `Artifacts`: the steps of a put (temporary file, link, row), publication by the
  host and at completion, the paged reconciliation at start, disk failures and
  crashes between any two steps.
- `Workbench`: the functions of the page between their awaits, the run gate, the
  reducer's cursor, and the server's `_sse` loop with its batch and status reads.
  A run's history goes on after its end: artifacts are published during a run and
  after it, and the effect of a cancelled run is settled by `resolve_effect`.
- `SummaryCache`: the overlapping callers of one cache.
- `ContextProjection`: a pipeline of functions on histories, `Recall`, `Compact`
  or `Summarise`, `Send`, over every history of up to three sound groups of
  messages and every sequence of three messages, sound or not.
- `RunStoreSchema`: processes that open one file of any earlier version and die
  between any two statements.
- `DocumentIndex`: attempts to index, each opening, beginning and committing, or
  failing anywhere.

## What the runs check

| Run | Question | States |
|---|---|---|
| `harness_single` | One Harness, all tool effects, replies of up to two calls, two steps, two faults: is work repeated, reordered, answered twice or left hanging? | 91 000 |
| `harness_shared` | Two Harnesses over one in-memory store, redeployed between drives: do compare-and-swap and recorded contracts hold what they promise, and is every step one of `CallContract`? | 404 000 |
| `owner_life` | Three connections, two permits, drives, decisions, puts and streams, and a close at any moment: does everybody come back, and is what a client is told true? | 163 000 |
| `memory` | Three calls of two runs, overlapping threads, a restart under another binding, forgetting and a rebuild: is a call applied once, answered always alike, and what is forgotten gone? | 307 000 |
| `studio` | A page that saves twice, another client, tools that change, a network that delays, repeats and loses: is an edit overwritten or doubled, is "saved" true? | 2 088 000 |
| `workflow` | Three steps of every effect with crashes, timeouts, cancellation, recovery and redeployment: does it stop at the first failure, stay loadable and visible? | 15 500 |
| `parts` | Eleven components in ten parts, each to the end of its own state space: is a part ever taken for the whole, a thread or a child left behind, a view or a file taken back? | 1 059 000 |
| `harness_drain`, `harness_forgotten`, `harness_wedge`, `owner_start_race`, `workflow_projection` | Five statements of the documentation the code does not keep | counterexamples |

### Bounds

Loop and store:

- `MaxSteps` 2 and `MaxCalls` 2 are the least with an earlier step, an earlier
  call in the same reply and one after it; nothing in the code looks further
  than the previous step or the first open call. The shared run has one call
  per reply, because its subject is the race of two drives on one call.
- `MaxFaults` 2 in the single run lets a second crash or cancellation hit the
  recovery of the first. Three are needed for the paths of `harness_forgotten`
  and `harness_wedge`, which redeploy twice.
- `MaxRetries` 1 gives a second dispatch of one call.
- `MaxRevision` stops new drives at a revision. In the single run it is higher
  than any behaviour reaches, so it cuts nothing and liveness is checked on the
  whole graph; in the shared run it ends races that would be repetitions.
- The tools are one per effect plus one nobody has. A later deployment differs
  from the recorded contract in revision, in key, in effect, in its signature
  or by not having the tool.

Workflow: three steps are a first, a middle and a last one, with one tool of each
effect. `MaxSteps` is one more than the steps, because the workflow's final reply
is a step of the loop. Three faults and two retries let a recovery be hit again
at a later step than the one that needed it.

Owner: three connections on two permits, so that one is refused a place while
another is served. `Meetings` are the requests that wait for each other: a drive
that holds the gate against a decision while a workflow is saved, and a drive
that a stream watches. More requests of these kinds would queue behind the same gate.

Memory: three calls of two runs of one application, two of them in one reply;
two attempts of a call in flight and three dispatches of it: one late, one
repeated, one after a restart. One restart, under either of two interchangeable
bindings, and one rebuild; a second rebuild starts from what the first one left,
which `IndexIsExact` describes.

Studio: two saves, so that the second meets the answer of the first, one save of
somebody else, one recovery read and two versions of the tools. The two records
are interchangeable.

Parts (the values are in `MCParts` and `Parts.cfg`):

- Progress: three events, one delivered, one in the sink, one queued.
- Model stream: four events, the shortest sequences with each defect and an event
  after it.
- Provider: the streams of five messages, among them one with a text and a call
  with its arguments in two pieces, and every stream one alteration away from it.
- MCP: the protocol's three requests, two unread lines in a pipe.
- Artifacts: two runs of one artifact each (`Limit` 1) and pages of one, so that
  the reconciliation needs a second page; two faults.
- Workbench: two runs, three events in a run, three epochs, two tasks of the
  page, one action and one cut of the network.
- Summary cache: three overlapping callers, two keys, room for one entry.
- Context: histories of up to three groups and all of three messages; budgets
  that fit nothing but the last turn, part of a history, or more of it.
- Schema: two processes that both find the old file.
- Index: three attempts on two sources with two texts.

### Fairness

`Harness`: `FairSpec` adds weak fairness of each Harness's own steps and of the
operators as a whole. The first is justified by `model_timeout` and
`tool_timeout`, which end every await, and by the host that starts a run and
resumes it as long as it can be resumed; the second by a person who answers what
waits for them. Neither is promised by the code, so liveness here says: the
program adds no reason to hang of its own. A drain of progress is assumed to end;
observers that block for ever are outside. Faults are not fair: they may stop.
`Settles` is checked with one Harness. Two that are always resumed can overtake
each other for ever, which compare-and-swap permits.

`ServerOwner`: the operating system runs every thread, and what a drive awaits
ends (the timeouts above). Nobody has to send a request, and nobody has to close
the server.

`McpProcess`: the client's timers fire and its loop runs. Nothing is assumed of
the child.

The other modules state no fairness and have safety properties only.

## What the code does differently from its documentation

Each of these was also reproduced by running the code or is a run of its own.

1. *Cancellation while progress is drained* (`harness_drain`). The awaits of
   `progress.drain()` are outside the handler of `CancelledError`. A
   cancellation that arrives there ends the run as `cancelled` while its
   mutating call is still `dispatching`, and `resolve_effect` refuses it.
   `docs/HTTP_API.md:115` promises `effect_unknown` and reconciliation.
2. *Recovery without the tool* (`harness_forgotten`). `_process_call` validates
   the call before it looks at its status. A side effect that was dispatched
   before a crash is answered `unknown_tool` or `invalid_arguments` when the
   recovering Harness lacks the tool or its signature changed;
   `docs/FOUNDATION.md:204` says it becomes `effect_unknown`.
3. *A retry nobody can approve* (`harness_wedge`). A call put in doubt by a
   contract change before its approval was requested has no approval row.
   After `resolve_effect(retry)` the run pauses with `approval_required`, and
   both resolutions refuse. `docs/FOUNDATION.md:206` offers the retry.
4. *A close that meets a starting owner* (`owner_start_race`). The owner thread
   announces itself before it tests for a stop a second time. A close in between,
   as `create_server` makes when the socket cannot be bound, leaves `_settle` in
   a queue nobody runs: `close` waits for its hard deadline and reports that work
   may still be running although the owner is closed.
   `docs/ADR-0017-DURABLE-SAVED-WORKFLOW-CATALOG.md:148` says shutdown settles the
   calls.
5. *A recovered workflow that cannot be shown* (`workflow_projection`). After the
   result of a paused workflow call is recorded by hand, no call is pending, and
   the validator of the composed view demands one until the run is resumed: the
   recovery that has committed is answered with an error. The same holds between
   the result of a step and the next commit after a crash there.
   `docs/ADR-0014-STATIC-SERIAL-AUTHORING-PUBLIC-PROJECTION.md:219` promises the
   view for recovery.

While modelling, more was met that no run states, because it lies outside a
bound, a module's abstraction or a document's promise:

- Two Harnesses over one SQLite store: the slower reply violates the key of
  accepted replies, is reported as a duplicate id, and `_fail_model` is committed
  over the completed run (`sqlite_store.py:654`). After a cancellation,
  `resolve_approval` of another Harness reopens the run. The server avoids both:
  its gate allows one drive at a time.
- Memory: an observation offered again under another idempotency key calls
  `_validated_replay_result` without `operation_identity` (`store.py:1248`) and
  raises `TypeError`; only callers from Python reach it. Two identical `remember`
  calls in one reply share an operation key, so the second conflicts for ever.
- A completed run that already has 128 artifacts cannot register its final one,
  and reconciliation raises at every later start (`server.py:495`).
- A workflow whose next step needs an optional input that was not given fails, and
  `_assert_run` raises for the failed run from then on. `RunStaysLoadable` says so
  by exempting exactly these runs.
- `_sse` reads its batch before it reads the status. A final commit in between
  closes the stream without `run.completed` (`docs/HTTP_API.md:578` promises it),
  and the timeline of the page misses its tail. A stream cut inside a frame that
  then ends is an `EventProjectionError`, which stops the watcher for good.
- Studio: after switching records the recovery path leaves the other record's text
  in the editor and its conflict branch deletes the draft; the read of the head
  after a 412 has no epoch check (`docs/HTTP_API.md:644`); an edit during a `PUT`
  that is refused with 422 leaves the page saving, with saving disabled.
- `BoundedContextModel` under `Memory` puts its marker behind the protected data,
  and the Anthropic adapter refuses every compacted call
  (`provider_anthropic.py:399`); `SemanticCompactionModel` avoids it.

## What is proved

All theorems hold for every value of the constants that satisfies the named
assumptions; TLC evaluates the assumptions in every run of the module. The
properties named in the second column are the ones the runs check.

| Theorem | Says |
|---|---|
| **Loop** (`Harness_proofs`) | |
| `TypeSafety` | `Spec => []TypeOK` |
| `DispatchedOnce` | `Spec => []AtMostOneDispatch` |
| `ApprovalGate` | `Spec => []ApprovedBeforeDispatch` |
| `OneCallAtATime` | `Spec => []SerialExecution` |
| `PausedRunsHaveTheirCall` | `Spec => []PausesAreResolvable` |
| `AnsweredOnce` | `Spec => []AnsweredExactlyOnce` |
| `ModelIsToldEverything` | `Spec => []ModelSeesEveryResult` |
| `NothingIsLost` | `Spec => NoLostUpdate` |
| `DispatchedAsRecorded` | `Spec => DispatchesRecordedContract` |
| `LoopKeepsCallContract` | `Spec => ImplementsCallContract`: the refinement of `CallContract` |
| `EventLogAgrees` | with one Harness: `Spec => []TerminalEventMatches` |
| **Owner** (`ServerOwner_proofs`) | |
| `OneMutationAtATime` | `Spec => []GateIsTheActiveDrive` |
| `RepeatIsSafe` | `Spec => []RetryableMeansUndone` |
| `CloseLeavesNothing` | `Spec => []CloseIsComplete` |
| **Memory** (`MemoryStore_proofs`) | |
| `ForgottenStaysForgotten` | `Spec => []IndexIsExact` |
| `OneEffect` | `Spec => []OneEffectPerCall` |
| `SameAnswerForEver` | `Spec => RepeatedRequestsAgree` |
| `EveryChangeIsVisible` | `Spec => RecallChangesAreVisible` |
| **Saved workflows and the Studio page** (`WorkflowCatalog_proofs`) | |
| `NothingIsOverwrittenUnseen` | `Spec => []NoSilentOverwrite` |
| `OnePressOneRevision` | `Spec => []OneRevisionPerSave` |
| `SavedMeansDurable` | `Spec => []SavedIsDurable` |
| **Workflows** (`WorkflowRun_proofs`) | |
| `WorkflowStops` | `RunSpec => []StopsAtFirstFailure` |
| `WorkflowLoads` | `RunSpec => []RunStaysLoadable` |
| `SettledRunsAreShown` | `RunSpec => []SettledRunIsProjected` |
| **Parts that call** (`PartsCalls_proofs`) | |
| `ProgressComesFirst` | `Spec => []ProgressPrecedesResult` |
| `OnlyWholeStreamsReply` | `Spec => []ReplyIsTheStreams` |
| `NoThreadIsLeftBlocked` | `Spec => []GivenUpIsAborted` |
| `RepliesAreWhole` | `Spec => []ReplyIsWhole` |
| `TextWasAnswered` | `Spec => []TextIsTheAnswer` |
| `OneSummaryForAll` | `Spec => []OverlapAgrees` |
| **What is sent to a model** (`PartsContext_proofs`) | |
| `ProjectionKeepsAllItCan` | `Spec => []ProjectionIsMaximal` |
| **Parts that keep data** (`PartsData_proofs`) | |
| `NoArtifactDangles` | `Spec => []RefsAreReadable` |
| `OpenMeansPublished` | `Spec => ReadyMeansPublished` |
| `NothingFalseIsShown` | `Spec => []TimelineIsTheRuns` |
| `ViewOnlyAdvances` | `Spec => ViewNeverGoesBack` |
| `OpenedMeansWhole` | `Spec => []SchemaIsWhole` |
| `OneGenerationAtATime` | `Spec => []GenerationsAreLinear` |

`FairSpec` implies `Spec`, so the theorems hold of the fair behaviours too.

### Assumptions

Most only type the constants. Those that say more:

- `Harness`: at least one tool, one step and one call per reply; the key and the
  id that mean "none" are no key and no id.
- `ServerOwner`: finitely many connections and at least one permit; `None` is
  neither a connection nor an outcome.
- `MemoryStore`: finitely many keys, because the revision of a scope counts what
  was forgotten; `Nothing` is no binding, call, request or operation key.
- `WorkflowCatalog`: `Nothing` is no id, definition, etag, record or reply, and
  there is at least one set of tools.
- `WorkflowRun` (`WorkflowAssumption`): the steps are named tools whose requests
  the loop accepts, the runtime allows one step of the loop more than the workflow
  has (`max_steps` at `sasori_flow/runtime.py:660`), one Harness drives the run, and every
  deployment has each step's wrapper with the same effect and revision: the
  runtime compiles the workflow against its tools and does not start when they
  differ (`runtime.py:141-147`). Idempotency keys may change.
- `Parts` (`PartsAssumption`): bounds are numbers; finitely many callers share the
  summary cache; a document's text is the number of its chunks, as in
  `DocumentIndex`; what stands for nothing, and the wake-up of the progress queue,
  is none of the things it is told from.
- `Parts` (`ConversationsAssumption`): a history is a sequence of messages of some
  length each; a tool message has no calls of its own, because the loop writes it
  (`runtime.py`); and at least one turn is hot, which the configuration demands
  (`hot_turns`, `sasori_context/budget.py`). Nothing is assumed about the order of
  messages or what their calls name.
- `Parts` (`ScriptsAssumption`): what a provider may send. The events are events
  of its API, in any order and number: one of Anthropic has the place of a block
  and what its type says (`AnthropicEvent`), one of OpenAI the number of its type
  (`OpenAIEvent`), because a message of OpenAI is one event in this model. A script
  that is meant to carry a message carries one that is `Whole` and, pings aside, is
  its stream. A script that is meant to carry none may be anything else.
- `EventLogAgrees` is stated for one Harness object, which is what the server has
  per run. With two it is false: over SQLite a late reply is reported as a
  duplicate and fails the latest snapshot after the other Harness has completed
  it (`runtime.py:996`; "What the code does differently").

### The loop

Types alone are not inductive: a drive commits the snapshot it holds, so
`TypeInv` adds what it holds. `HoldsCurrent` says that a held snapshot that
would pass the compare-and-swap is the stored one; this is where the revision
does its work, and every argument about a drive that wakes up rests on it.

`IInv` then adds five facts none of which holds by induction alone. `InPlace`:
while its snapshot is current, the call of a suspended drive is in the status
the drive left it in. `OnlyThisStepOpen` and `SerialExecution`: only calls of
the current step are open, and one of them at a time. `StatusOfCalls`: which
run statuses admit an open, doubtful or undecided call. `AllPaidFor`: a call has
no dispatch before its approval, and an approved side effect has used no more
dispatches than retries, so the next dispatch is within the allowance.
`SafetyStep` has a step per action. Actions that change no call are instances
of the lemma `NoCallStep`, those that move one call of `OneCallStep`; accepting
a reply and the two settlements of an operator are done by hand.

With `IInv`, the second half of `Harness_proofs` shows that every step has one of three shapes
(`Shapes`): it moves no call (`NoCallMoves`), it moves one call along the table
`Moves`, writing the answer with the result and counting the dispatch with the
entry of the handler (`OneCallMoves`), or it accepts a reply whose calls are new
while all others are answered (`ReplyAccepted`). The remaining properties are
shown of the three shapes, not of each action again. `HistoryInv` adds what the
history says: a place in it for every answered call, none for another, and the
final reply at its end. In the refinement a call's status is mapped to its phase:
no step of the first shape is visible, one of the second is a step of
`CallContract` or a stutter, and one of the third adds calls.

### The owner

`GateIsTheActiveDrive` does not survive a step by itself: a callback that is due
twice would release a gate somebody else holds. `IInv` adds that every callback
in the queue fits the task it is for and no call has two (`QueueInv`), how a
call's connection, future and task go together (`CallInv`), that an effect
happens in the task that then says so (`EffectInv`), what is still possible once
the shutdown is queued, waits or has finished (`SettleInv`), how the owner thread
and the closing thread go together (`LifeInv`), and that permits, handlers and
the acceptor add up (`PermitInv`).

### The memory

The three ways to forget are one erasure with different sets of memories: the
lemmas about `Erases` are used for all of them, and what is peculiar to each
operation is the result it records. `IInv` says that heads are the last versions
(`HeadInv`), that the index of the current generation is that of the active heads
while older generations may hold anything (`TermInv`, `IndexInv`), what
forgetting makes impossible (`ForgetInv`), that a version was written by the
operation of the call it names (`WrittenInv`), and that what an operation recorded
still stands (`OperationInv` with `StandsIn`): a replay computes its answer from
the present tables, and `StandsIn` is why it is the old one. Every operation that
takes effect is an `Effect` of one call under a key that was free.

### Saved workflows and their page

A `PUT` may be served twice. `SpentInv` says why the second time does nothing: the
request that has appended its revision names a head that is no longer there.
`ByInv` and `PressInv` say that presses number revisions and that all copies of a
press carry the same condition. `AnswerInv` and `Sound` follow an etag from the
server into the page: it always names a durable revision. The steps of the page
are `Quiet`, they leave the catalog alone; those of the server are `Served`, with
or without a revision that `Grows` a chain and is `Fresh`.

### Workflows and their view

The actions are steps of `Harness`, so the invariants and shapes of the loop
hold; the lemmas are reused and no action is looked at twice. `RunInv` adds what
the workflow's model makes of the history (`Told`): step k is asked at place
2k - 1 and answered at 2k, and nothing follows a failure; that the calls are those
of the steps asked, with the contracts of their wrappers (`StepRows`); and that a
final reply follows the last answer (`Finished`). For the view, `Halted` says what
a call may be while its run has failed, is paused or is in doubt; then the steps
shown, the pending call and the status of the run are compared case by case with
the validator. The statement stops at runs that have ended or wait with their
call open, because for the others it is false (`workflow_projection`).

### The parts that call

A step of `Parts` is a step of each part or leaves it alone (`ToolSteps` and its
like), so each part has an invariant of its own.

- Progress: the queue of the loop holds the reported events in their order, each
  once, and at most one wake-up (`ToolQueue`); a drive that has closed the
  reporter waits for all that is pending (`ToolDrive`), and a sink begins no
  event before the ones in front of it are over (`ToolOrder`).
- Model stream: what was accepted so far is an unfinished prefix of a well-formed
  stream, and the sink has seen exactly that (`Accepted`).
- Provider: until its caller has gone, a thread blocks on no socket but the one it
  has registered, and one that registers a socket later finds out at its next
  check (`CallInv`).
- The provider's reply, below.
- MCP: the client is at most one answer behind, and while it talks, a good line in
  the pipe is the only one and answers its last request (`McpAnswers`); a child
  that writes before it is asked is caught by the same count.
- Summary cache: a race counts the callers that are in it (`CacheRaces`), and what
  a caller holds is the winner, fits, or is still its own (`Holds`). A caller that
  leaves takes itself out of the count; the last one forgets the race.

### A provider's reply

`ReplyIsWhole` speaks of an answer that was returned, and the answer is a function
of everything that was read: the argument is an induction over a stream of any
length. The library's induction theorems take an operator and cannot be used, so it
is made by hand: a set of naturals that is not empty has a least element
(`LeastNatural`, from `NatLessThanWellFounded` and `WFMin`), what holds at one end
of a range and survives each step holds on the range (`RangeInduction`), a recursion
over a range has a function and only one (`Recursion`, `SameRecursion`). Then
`FlatAppend` says what one part more adds to a flattened sequence and
`DecodedAppend` what one event more does to a decoder.

`ReplyInv` says that what was read is a beginning of a script (`ReadOf`) and that
the answer is the adapter's to a stream read to its terminal event, or no reply at
all. For the Anthropic decoder `ReadOf` says two things that survive an event. A
decoder that has refused nothing holds all it has read, so that the events can be
written down again from its blocks, its open block and its stop (`Rendered`,
`RenderStep`): so a reply is what the events carry, for any events. And a decoder
that has read part of a whole message's stream holds a beginning of that message
(`Follows`, `FollowStep`): the next event of the stream is one that it takes, so it
never refuses the message. `RenderStep` needs `Coherent`, that nothing is open after
a stop, which is why a block after the `message_delta` must be refused; the mutant
of `ReplyIsWhole` drops that test. An OpenAI stream is decided by its numbers, which
leave each event one place (`OpenAIRight`). TLC checks `ReplyInv` too, on the scripts
of the run, with what is infinite in its types cut down.

### What is sent to a model

The invariant (`ContextInv`) only records that a projection was computed from its
prompt; what is proved is what the functions of `ContextProjection` compute, for
histories of any length, again by `RangeInduction`. Atoms, turns and the loop of
`Project` are recursive functions; `PreviousFacts` and `FromFacts` say where the next
turn and the loop end, `FitsLater` that of two projections with a marker the one that
begins later fits if the other does, and `KeptMaximal` and `NothingFits` that no more fits than is kept, or none
at all. What the adapters do with the result is shown once, of all results: whatever
is sent has the `Form` of the leading system messages, an optional marker, the rest
of the prefix, an optional marker or summary, and the atoms from some turn on
(`WholeForm`, `KeepingForm`, `SummaryForm`). `FormContinued` says that no call is
parted from its result in a form, `FormCarried` which provider's states are in it,
`FormOrdered` and `FormInterrupted` where a system message stands, `FormTaken` that
an adapter takes the form exactly when none of the exceptions holds.

### What the attempts showed

- The refusal clause of `ProjectionIsMaximal` used to say that no turn at all would
  have fitted. With more than one hot turn that is false: `project` refuses when the
  hot turns do not fit together, even if the last of them would
  (`budget.py:478-496`). TLC had not seen it, because the run has one hot turn; with
  two it finds the counterexample. The clause now speaks of the turns up to the
  first hot one, and holds of two as of one.
- The decoders of `ProviderReply` and `EndOfBody` were written with a CASE whose
  arms overlapped. TLC takes the first arm that holds, TLA+ any of them: nothing can
  be proved of such a definition. They are chains of IF now, in the order of the
  code's early returns. The state space is the same.
- `ProviderReply` folded over the events and `ContextProjection` over the messages
  with operators of the community modules; both are recursive functions now, which
  can be reasoned about.

### The parts that keep data

- Artifacts: a put under way has done the steps before the next one, so its blob
  is complete before its row is written (`Under`); blobs are never lost, so a
  crash at any point leaves rows with blobs (`StoreRefs`). For the reconciliation,
  the runs before the page that is read next are published, but for the one in
  work (`StoreLook`, `PageCovers`). That is `ReadyMeansPublished`.
- Workbench: a task that still serves the shown view (`Serves`: its epoch is the
  current one) has its run, its pipe continues the cursor of the ledger without a
  gap, and no answer is beyond the durable history (`Serving`, `Flowing`). A task
  of an earlier epoch may hold anything: it changes nothing any more.
- Schema: `SchemaIsWhole` says nothing of a process in the middle. A file is either
  a release's or an unfinished creation whose columns are those of its tables
  (`FileIsKnown`), a process in the schema knows the version of the file and finds
  what it has created (`Knows`), and the lock keeps all others outside
  (`Exclusive`). `OneMoves` reduces each action to the process that moves.
- Document index: the records number what was committed, in all and of each
  source, and the last of a source is its current generation (`IndexRecords`); the
  rows are the chunks of the current generations (`IndexRows`); an answer is the
  record of its request (`IndexAnswers`). `IndexReplace` takes the three through
  the one transaction that changes them; whoever is in it is the only writer.

### What is only model-checked

- Liveness: `Settles`, `AdmittedCallsReturn` and `EveryChildIsReaped`. They need
  the fairness of the specification and ENABLED, which are beyond the prover. Every
  other property of a passing run is the property of a theorem.
- The five statements that fail, of course, have no theorem.

## What is not modelled

- Contents of messages, prompts, usage and provider state; the wording of
  summaries and errors; canonical forms, digests and validation of fields.
- The event log except terminal and artifact events and the numbers the stream
  needs; an observer that raises.
- A synchronous tool that keeps running in its thread after its timeout is
  modelled in `MemoryStore`, whose tools do; `Harness`, like the run store, only
  knows that its outcome is unknown.
- Plugin manifests: functions over the fields of a manifest, without state or
  order. A model of them would be the code again.
- The git, web and workspace tools check their arguments and do one piece of I/O;
  `docs/ADR-0004` disclaims guarantees against other actors in between.
- Applications, command line and build, release and evaluation scripts assemble,
  print or package.
- Listing pages of the catalog and history, byte ranges, assets, forms and
  rendering, ranking of memories and documents.
- `RunStoreSchema` takes interrupted creations to be those of this release.

## Plan

The model stands, and every safety and action property the passing runs check is
proved. What could follow:

1. The step of `EveryChildIsReaped` that is not liveness: from every state with a
   child, the client's next step is one towards the reaping.
2. Abstract specifications of `SummaryCache` and `DocumentIndex`, of which their
   invariants are already the refinement mappings.
3. OpenAI responses of more than one output event, so that the numbers of a stream
   and the places of its items are told apart.
