------------------------------- MODULE Parts --------------------------------
(***************************************************************************)
(* The components that share no state with the others, side by side: in a  *)
(* behaviour one of them, the chosen part, takes steps.  Each is a module  *)
(* of its own; here their bounds and inputs get names of their own.        *)
(***************************************************************************)
EXTENDS Naturals, Sequences, FiniteSets

CONSTANTS
    None,
    Wake, MaxProgress,                             \* ToolProgress
    Replies, MaxStreamed,                          \* ModelStream
    Scripts,                                       \* ProviderCall
    MaxLines,                                      \* McpProcess
    MaxRuns, HostIds, HostContents, Limit, PageSize, MaxFaults,   \* Artifacts
    Runs, Tasks, MaxEvents, MaxEpoch, MaxActions, MaxLosses,      \* Workbench
    Callers, Keys, Room, Sizes, MaxEntries, MaxCalls,             \* SummaryCache
    Histories, Budgets, HotTurns, Found, InjectionLimit, SummaryUnits, \* ContextProjection
    Processes,                                     \* RunStoreSchema
    Attempts, Sources, Texts                       \* DocumentIndex

ASSUME PartsAssumption ==
    /\ MaxProgress \in Nat /\ Wake \notin 1 .. MaxProgress
    /\ Texts \subseteq Nat /\ None \notin Attempts
    /\ None \notin [revision : Nat, text : Texts]
    /\ MaxStreamed \in Nat
    /\ None \notin [type : {"done", "error", "aborted"}, reply : Replies \cup {None}]
    /\ IsFiniteSet(Callers) /\ MaxEntries \in Nat
    /\ None \notin [by : Callers, size : Sizes]
    /\ None \notin Processes
    /\ MaxRuns \in Nat /\ PageSize \in Nat /\ None \notin HostIds
    /\ \A r \in 1 .. MaxRuns : None # <<"result", r>>
    /\ None \notin [run : Nat,
                     id : HostIds \cup {<<"result", r>> : r \in 1 .. MaxRuns},
                     digest : HostContents \cup {<<"markdown", r>> : r \in 1 .. MaxRuns},
                     cause : {"reconcile", "drive", "publish"}, temp : {"none", "partial", "full"},
                     todo : Seq({"create", "write", "link", "register"})]

\* Conversations are sequences of messages; the Harness writes no calls into
\* a tool message.  The configuration asks for at least one hot turn.
ASSUME ConversationsAssumption ==
    /\ Budgets \subseteq Nat /\ Found \subseteq Nat /\ SummaryUnits \subseteq Nat
    /\ HotTurns \in Nat \ {0}
    /\ \A h \in Histories :
          /\ h \in Seq({h[i] : i \in DOMAIN h})
          /\ \A i \in DOMAIN h :
                /\ h[i].units \in Nat
                /\ h[i].calls \in Seq({h[i].calls[a] : a \in DOMAIN h[i].calls})
                /\ h[i].role = "tool" => h[i].calls = <<>>

VARIABLES
    part,
    tool, drive, accepting, sink, accepted, ready, task, gathered,
    yielded, started, terminal, observed, outcome,
    caller, worker, tls, stop, expired, sock, registered, aborted,
    response, received, answer,
    client, sent, ended, stdin, notified, child, code, served, ran, out, flooded,
    owner, runs, rows, blobs, put, look, faults,
    hist, epoch, active, watcher, watchers, view, ledger, tasks, actions,
    broken, losses,
    holder, items, races, calls,
    history, budget, found, prompt, projection, call,
    opener, lock, file,
    indexer, writer, index

toolVars    == <<tool, drive, accepting, sink, accepted, ready, task, gathered>>
streamVars  == <<yielded, started, terminal, observed, outcome>>
callVars    == <<caller, worker, tls, stop, expired, sock, registered, aborted,
                 response, received, answer>>
mcpVars     == <<client, sent, ended, stdin, notified, child, code, served, ran, out, flooded>>
storeVars   == <<owner, runs, rows, blobs, put, look, faults>>
pageVars    == <<hist, epoch, active, watcher, watchers, view, ledger, tasks,
                 actions, broken, losses>>
cacheVars   == <<holder, items, races, calls>>
contextVars == <<history, budget, found, prompt, projection, call>>
schemaVars  == <<opener, lock, file>>
indexVars   == <<indexer, writer, index>>
vars == <<part, toolVars, streamVars, callVars, mcpVars, storeVars, pageVars,
          cacheVars, contextVars, schemaVars, indexVars>>
-----------------------------------------------------------------------------
Tool   == INSTANCE ToolProgress WITH MaxEvents <- MaxProgress
Stream == INSTANCE ModelStream WITH MaxEvents <- MaxStreamed
Provider == INSTANCE ProviderCall
\* initialize, tools/list, tools/call
Mcp    == INSTANCE McpProcess WITH Requests <- 3, outcome <- ended
Store  == INSTANCE Artifacts
Page   == INSTANCE Workbench WITH MaxFaults <- MaxLosses, faults <- losses
Cache  == INSTANCE SummaryCache WITH caller <- holder
Context == INSTANCE ContextProjection
Schema == INSTANCE RunStoreSchema
Index  == INSTANCE DocumentIndex

\* What a provider may send: events of its API; and a stream that is meant to
\* carry a message carries one that the API can carry.
ASSUME ScriptsAssumption ==
    /\ None \notin [kind : {"text", "thinking", "tool"},
                    parts : Seq({"text", "signature", "json1", "json2"})]
    /\ None \notin Provider!Normal \cup Provider!Pauses
    /\ \A s \in Scripts :
          /\ s.events \in Seq({s.events[i] : i \in DOMAIN s.events})
          /\ s.meant # None => Provider!Whole(s.meant)
          /\ CASE s.api = "anthropic" ->
                     /\ \A i \in DOMAIN s.events : Provider!AnthropicEvent(s.events[i])
                     /\ s.meant # None =>
                           Provider!NoPings(s.events) = Provider!AnthropicStream(s.meant)
               [] s.api = "openai" ->
                     /\ \A i \in DOMAIN s.events : Provider!OpenAIEvent(s.events[i])
                     /\ s.meant # None => s.events = Provider!OpenAIStream(s.meant)
               [] OTHER ->
                     /\ s.events = <<Provider!E("body", 0, s.events[1].x)>>
                     /\ s.meant # None => s.meant = s.events[1].x

Init ==
    /\ part \in {"tool", "stream", "provider", "mcp", "store", "page", "cache", "context",
                "schema", "index"}
    /\ Tool!Init /\ Stream!Init /\ Mcp!Init /\ Store!Init /\ Page!Init /\ Cache!Init
    /\ Provider!Init /\ (part # "provider" => ~tls)
    /\ IF part = "context" THEN Context!Init
       ELSE /\ history = <<>> /\ budget = 0 /\ found = 0
            /\ prompt = None /\ projection = None /\ call = None
    /\ IF part = "schema" THEN Schema!Init
       ELSE opener = None /\ lock = None /\ file = None
    /\ Index!Init /\ (part # "index" => index.identity = "blank")

ToolNext ==
    /\ part = "tool" /\ Tool!Next
    /\ UNCHANGED <<part, streamVars, callVars, mcpVars, storeVars, pageVars, cacheVars, contextVars,
                   schemaVars, indexVars>>
StreamNext ==
    /\ part = "stream" /\ Stream!Next
    /\ UNCHANGED <<part, toolVars, callVars, mcpVars, storeVars, pageVars, cacheVars, contextVars,
                   schemaVars, indexVars>>
ProviderNext ==
    /\ part = "provider" /\ Provider!Next
    /\ UNCHANGED <<part, toolVars, streamVars, mcpVars, storeVars, pageVars, cacheVars, contextVars,
                   schemaVars, indexVars>>
McpNext ==
    /\ part = "mcp" /\ Mcp!Next
    /\ UNCHANGED <<part, toolVars, streamVars, callVars, storeVars, pageVars, cacheVars, contextVars,
                   schemaVars, indexVars>>
StoreNext ==
    /\ part = "store" /\ Store!Next
    /\ UNCHANGED <<part, toolVars, streamVars, callVars, mcpVars, pageVars, cacheVars, contextVars,
                   schemaVars, indexVars>>
PageNext ==
    /\ part = "page" /\ Page!Next
    /\ UNCHANGED <<part, toolVars, streamVars, callVars, mcpVars, storeVars, cacheVars, contextVars,
                   schemaVars, indexVars>>
CacheNext ==
    /\ part = "cache" /\ Cache!Next
    /\ UNCHANGED <<part, toolVars, streamVars, callVars, mcpVars, storeVars, pageVars, contextVars,
                   schemaVars, indexVars>>
ContextNext ==
    /\ part = "context" /\ Context!Next
    /\ UNCHANGED <<part, toolVars, streamVars, callVars, mcpVars, storeVars, pageVars, cacheVars,
                   schemaVars, indexVars>>
SchemaNext ==
    /\ part = "schema" /\ Schema!Next
    /\ UNCHANGED <<part, toolVars, streamVars, callVars, mcpVars, storeVars, pageVars, cacheVars,
                   contextVars, indexVars>>
IndexNext ==
    /\ part = "index" /\ Index!Next
    /\ UNCHANGED <<part, toolVars, streamVars, callVars, mcpVars, storeVars, pageVars, cacheVars,
                   contextVars, schemaVars>>

Next ==
    \/ ToolNext \/ StreamNext \/ ProviderNext \/ McpNext
    \/ StoreNext \/ PageNext \/ CacheNext \/ ContextNext
    \/ SchemaNext \/ IndexNext

Spec == Init /\ [][Next]_vars /\ Mcp!Fairness
-----------------------------------------------------------------------------
\* The properties of the parts, each stated in its module.

\* A tool's result comes after the progress it reported (ToolProgress).
ProgressPrecedesResult == Tool!ProgressPrecedesResult
\* A reply is accepted from a well-formed stream only (ModelStream).
ReplyIsTheStreams == Stream!ReplyIsTheStreams
\* A reply is the provider's whole message (ProviderCall).
ReplyIsWhole == Provider!ReplyIsWhole
\* A call that was given up blocks no thread (ProviderCall).
GivenUpIsAborted == Provider!GivenUpIsAborted
\* A text is what the tool answered before its process ended well (McpProcess).
TextIsTheAnswer == Mcp!TextIsTheAnswer
\* The process of an MCP tool never outlives its call for good (McpProcess).
EveryChildIsReaped == Mcp!EveryChildIsReaped
\* A registered artifact can be read (Artifacts).
RefsAreReadable == Store!RefsAreReadable
\* The owner is ready once completed runs are published (Artifacts).
ReadyMeansPublished == Store!ReadyMeansPublished
\* The timeline shown is the durable history of the run shown (Workbench).
TimelineIsTheRuns == Page!TimelineIsTheRuns
\* A late answer never takes a view back (Workbench).
ViewNeverGoesBack == Page!ViewNeverGoesBack
\* Overlapping callers use one summary (SummaryCache).
OverlapAgrees == Cache!OverlapAgrees
\* The projection keeps all it has room for, in an acceptable form
\* (ContextProjection).
ProjectionIsMaximal == Context!ProjectionIsMaximal
\* A store that opens has its whole schema, whatever died before
\* (RunStoreSchema).
SchemaIsWhole == part = "schema" => Schema!SchemaIsWhole
\* The generations of an indexed source follow one another (DocumentIndex).
GenerationsAreLinear == Index!GenerationsAreLinear
=============================================================================
