---------------------------- MODULE MemoryStore ----------------------------
(***************************************************************************)
(* The durable memory of sasori_memory: the SQLite store of memory         *)
(* revisions, tombstones, suppressions and its lexical index, and the      *)
(* bridge that lets the tools of a run reach it.                           *)
(*                                                                         *)
(* Every store operation is one BEGIN IMMEDIATE transaction, so it is one  *)
(* action, and a fault inside it leaves nothing behind.  What interleaves  *)
(* are the tool threads: the harness stops waiting for one at its timeout  *)
(* and dispatches the same call again, while the first may still run; the  *)
(* process may die after a store operation committed and before the        *)
(* harness recorded its result.                                            *)
(*                                                                         *)
(* The content of a memory is the call that proposed it, and a record has  *)
(* one term, which every query contains: ranking and limits are left out.  *)
(***************************************************************************)
EXTENDS Integers, Sequences, FiniteSets

CONSTANTS
    Bindings,     \* memory bindings a deployment may be configured with
    AppOf,        \* the application of a binding
    Runs, RunApp, \* runs, and the application resolve_app_id gives for each
    Keys,         \* logical keys, numbered in the order of their memory ids
    Calls,        \* tool calls: <<run, step, ordinal>>
    Requests,     \* the arguments each call may carry
    Attempts,     \* bound: dispatches of one call, 1 .. n
    MaxDispatches,\* bound: dispatches of all calls
    MaxRestarts,  \* bound: restarts of the process
    MaxRebuilds,  \* bound: rebuilds of an index
    Nothing       \* no binding, no call, no result

Memories == Bindings \X Keys

Request == [mode : {"remember", "exact"}, key : Keys, expected : Nat]
           \cup [mode : {"source"}, source : Calls]
           \cup [mode : {"scope"}]

ASSUME MemoryAssumption ==
    /\ Keys \subseteq Nat /\ IsFiniteSet(Keys)
    /\ Calls \subseteq Runs \X Nat \X Nat
    /\ Requests \in [Calls -> SUBSET Request]
    /\ MaxDispatches \in Nat /\ MaxRestarts \in Nat /\ MaxRebuilds \in Nat
    /\ Nothing \notin Bindings /\ Nothing \notin Calls /\ Nothing \notin Request
    /\ Nothing \notin Bindings \X Runs \X Nat \X Request

VARIABLES
    bound,        \* memory_bindings: the binding of a run
    scopes,       \* memory_scopes
    versions,     \* memory_versions: the revisions of a memory
    heads,        \* memory_heads
    terms,        \* memory_terms: <<binding, generation, memory, revision>>
    observations, \* memory_observations: by <<memory, source call>>
    operations,   \* memory_operations, memory_audit, memory_delete_outcomes
    erased,       \* memory_suppressions: the operation that erased a memory
    shunned,      \* memory_source_suppressions: <<binding, source call>>
    config,       \* the binding the process is configured with
    asked,        \* the arguments of a call
    waiting,      \* the attempt the harness waits for: 0 none, Settled for good
    threads,      \* the handler of each attempt
    answers,      \* history: the store's last answer to a call
    faults        \* restarts so far

store == <<bound, scopes, versions, heads, terms, observations, operations,
           erased, shunned>>
vars  == <<store, config, asked, waiting, threads, answers, faults>>

\* The harness has the call's result and never dispatches it again.
Settled == -1

NoThread == [at |-> "none", lease |-> "none", out |-> Nothing]
NoScope  == [revision |-> 0, generation |-> 1, sequence |-> 1, suppressed |-> FALSE]
NoHead   == [revision |-> 0, sequence |-> 0, status |-> "absent"]

\* An operation is identified by the binding, the run, the step and the
\* arguments of its call, never by the provider's call id.
OperationKey(c) == <<config, c[1], c[2], asked[c]>>

Init ==
    /\ bound = [r \in Runs |-> Nothing]
    /\ scopes = [b \in Bindings |-> NoScope]
    /\ versions = [m \in Memories |-> <<>>]
    /\ heads = [m \in Memories |-> NoHead]
    /\ terms = {}
    /\ observations = [o \in Memories \X Calls |-> Nothing]
    /\ operations = <<>>
    /\ erased = [m \in Memories |-> Nothing]
    /\ shunned = {}
    /\ config \in Bindings
    /\ asked = [c \in Calls |-> Nothing]
    /\ waiting = [c \in Calls |-> 0]
    /\ threads = [c \in Calls |-> [n \in Attempts |-> NoThread]]
    /\ answers = [c \in Calls |-> Nothing]
    /\ faults = 0
-----------------------------------------------------------------------------
\* What the store answers.

Ok(result) == [ok |-> TRUE, value |-> result]

\* An exception: a conflict, a suppression, corruption, a failing database.
Refused == [ok |-> FALSE, value |-> Nothing]

\* What the caller of a call has heard: refusals count once it was accepted.
Hears(c, answer) ==
    answers' = [answers EXCEPT ![c] = IF answer.ok \/ @ # Nothing THEN answer ELSE @]

Remembered(m, revision, collection, sequence) ==
    [kind |-> "remember", memory |-> m, revision |-> revision,
     collection |-> collection, sequence |-> sequence]
Forgotten(m, revision, collection, already) ==
    [kind |-> "exact", memory |-> m, revision |-> revision,
     collection |-> collection, already |-> already]
SourceForgotten(source, count, collection) ==
    [kind |-> "source", source |-> source, count |-> count, collection |-> collection]
ScopeForgotten(count, collection) ==
    [kind |-> "scope", count |-> count, collection |-> collection]

\* Only what is still the head stands.
RememberStands_Head(c, r) ==
    /\ heads[r.memory].revision = r.revision
    /\ heads[r.memory].status = "active"

\* The recorded result still agrees with what the tables say.
RememberStands(c, r) ==
    LET m == r.memory IN
    /\ r.revision \in DOMAIN versions[m]
    /\ LET v == versions[m][r.revision] IN
       /\ v = [status |-> "active", source |-> c, collection |-> r.collection,
               sequence |-> r.sequence]
       /\ observations[<<m, v.source>>] = [call |-> c, request |-> asked[c], result |-> r]

ExactStands(key, r) ==
    /\ erased[r.memory] # Nothing
    /\ heads[r.memory].status \in {"absent", "tombstone"}
    /\ heads[r.memory].revision = r.revision
    /\ ~r.already => erased[r.memory] = key

SourceStands(r) == <<config, r.source>> \in shunned

ScopeStands(r) ==
    /\ scopes[config].suppressed
    /\ scopes[config].revision = r.collection

Stands(c, key, r) ==
    \/ r.kind = "remember" /\ RememberStands(c, r)
    \/ r.kind = "exact" /\ ExactStands(key, r)
    \/ r.kind = "source" /\ SourceStands(r)
    \/ r.kind = "scope" /\ ScopeStands(r)

\* The answer to an operation whose idempotency key is known already: the
\* stored result, if the request is the same one (its source included) and
\* its result still stands.
Known(c) == OperationKey(c) \in DOMAIN operations

Replay(c) ==
    LET key == OperationKey(c)
        op  == operations[key]
    IN IF op.source # c THEN Refused
       ELSE IF Stands(c, key, op.result) THEN Ok(op.result)
       ELSE Refused

Recorded(c, result) ==
    operations' = [k \in DOMAIN operations \cup {OperationKey(c)} |->
                       IF k = OperationKey(c) THEN [source |-> c, result |-> result]
                       ELSE operations[k]]

-----------------------------------------------------------------------------
\* The operations of the store.  Each is enabled when it commits.

Scope == scopes[config]
Item(c) == <<config, asked[c].key>>

ActiveTerms(b) == {t \in terms : t[1] = b /\ t[2] = scopes[b].generation}
TermsOf(m)     == {t \in ActiveTerms(m[1]) : t[3] = m}
Term(m, revision) == <<m[1], scopes[m[1]].generation, m, revision>>

\* Whatever was forgotten of the source.
CanRemember_AnySource(c) ==
    /\ ~Scope.suppressed
    /\ erased[Item(c)] = Nothing
    /\ heads[Item(c)].revision = asked[c].expected

CanRemember(c) ==
    /\ ~Scope.suppressed
    /\ erased[Item(c)] = Nothing
    /\ <<config, c>> \notin shunned
    /\ heads[Item(c)].revision = asked[c].expected

Remember(c) ==
    LET m == Item(c)
        r == Remembered(m, heads[m].revision + 1, Scope.revision + 1, Scope.sequence)
    IN /\ asked[c].mode = "remember"
       /\ CanRemember(c)
       /\ observations[<<m, c>>] = Nothing
       /\ versions' = [versions EXCEPT ![m] = Append(@,
              [status |-> "active", source |-> c, collection |-> r.collection,
               sequence |-> r.sequence])]
       /\ heads' = [heads EXCEPT ![m] = [revision |-> r.revision,
                                         sequence |-> r.sequence, status |-> "active"]]
       /\ terms' = (terms \ TermsOf(m)) \cup {Term(m, r.revision)}
       /\ scopes' = [scopes EXCEPT ![config].revision = @ + 1, ![config].sequence = @ + 1]
       /\ observations' = [observations EXCEPT ![<<m, c>>] =
                               [call |-> c, request |-> asked[c], result |-> r]]
       /\ Recorded(c, r)
       /\ Hears(c, Ok(r))
       /\ UNCHANGED <<erased, shunned>>

\* Tombstones every memory of M, in the order of their ids, for the call c.
Place(M, m) == Cardinality({x \in M : x[2] <= m[2]})

Tombstone(M, c) ==
    /\ versions' = [m \in Memories |->
           IF m \notin M THEN versions[m]
           ELSE Append(versions[m],
                    [status |-> "tombstone", source |-> c,
                     collection |-> Scope.revision + Place(M, m),
                     sequence |-> Scope.sequence + Place(M, m) - 1])]
    /\ heads' = [m \in Memories |->
           IF m \notin M THEN heads[m]
           ELSE [revision |-> heads[m].revision + 1, status |-> "tombstone",
                 sequence |-> Scope.sequence + Place(M, m) - 1]]
    /\ terms' = terms \ UNION {TermsOf(m) : m \in M}

Advance_Sequence(n) == [Scope EXCEPT !.sequence = @ + n]
Advance(n) == [Scope EXCEPT !.revision = @ + n, !.sequence = @ + n]

ForgetExact(c) ==
    LET m == Item(c)
        r == Forgotten(m, heads[m].revision + 1, Scope.revision + 1, FALSE)
    IN /\ asked[c].mode = "exact"
       /\ ~Scope.suppressed
       /\ erased[m] = Nothing
       /\ heads[m].status = "active"
       /\ heads[m].revision = asked[c].expected
       /\ Tombstone({m}, c)
       /\ erased' = [erased EXCEPT ![m] = OperationKey(c)]
       /\ scopes' = [scopes EXCEPT ![config] = Advance(1)]
       /\ Recorded(c, r)
       /\ Hears(c, Ok(r))
       /\ UNCHANGED <<observations, shunned>>

\* A memory that is suppressed already is reported as it stands.
ForgetAgain(c) ==
    LET m == Item(c)
        r == Forgotten(m, heads[m].revision, Scope.revision, TRUE)
    IN /\ asked[c].mode = "exact"
       /\ ~Scope.suppressed
       /\ erased[m] # Nothing
       /\ Recorded(c, r)
       /\ Hears(c, Ok(r))
       /\ UNCHANGED <<scopes, versions, heads, terms, observations, erased, shunned>>

\* The active memories of the configured binding whose current revision
\* came from a source.
ActiveOf(source) ==
    {m \in Memories : /\ m[1] = config /\ heads[m].status = "active"
                      /\ versions[m][heads[m].revision].source = source}

ForgetSource(c) ==
    LET M == ActiveOf(asked[c].source)
        n == Cardinality(M)
        r == SourceForgotten(asked[c].source, n, Scope.revision + n)
    IN /\ asked[c].mode = "source"
       /\ ~Scope.suppressed
       /\ shunned' = shunned \cup {<<config, asked[c].source>>}
       /\ Tombstone(M, c)
       /\ scopes' = [scopes EXCEPT ![config] = Advance(n)]
       /\ Recorded(c, r)
       /\ Hears(c, Ok(r))
       /\ UNCHANGED <<observations, erased>>

\* A scope may be forgotten again under another key: nothing is left to do.
ForgetScope(c) ==
    LET M == {m \in Memories : m[1] = config /\ heads[m].status = "active"}
        n == Cardinality(M)
        r == ScopeForgotten(n, Scope.revision + n)
    IN /\ asked[c].mode = "scope"
       /\ Tombstone(M, c)
       /\ scopes' = [scopes EXCEPT ![config] = [Advance(n) EXCEPT !.suppressed = TRUE]]
       /\ Recorded(c, r)
       /\ Hears(c, Ok(r))
       /\ UNCHANGED <<observations, erased, shunned>>

\* Every request the store refuses, and the error it is refused with.
Refusal(c) ==
    LET q == asked[c] IN
    \/ /\ q.mode # "scope" /\ Scope.suppressed
    \/ /\ q.mode = "remember" /\ ~CanRemember(c)
    \/ /\ q.mode = "remember" /\ observations[<<Item(c), c>>] # Nothing
    \/ /\ q.mode = "exact" /\ erased[Item(c)] = Nothing
       /\ \/ heads[Item(c)].status # "active"
          \/ heads[Item(c)].revision # q.expected

Commit(c) ==
    /\ ~Known(c)
    /\ \/ Remember(c) \/ ForgetExact(c) \/ ForgetAgain(c)
       \/ ForgetSource(c) \/ ForgetScope(c)
    /\ UNCHANGED bound

Reply(c) ==
    /\ \/ Known(c) /\ Hears(c, Replay(c))
       \/ ~Known(c) /\ Refusal(c) /\ Hears(c, Refused)
    /\ UNCHANGED store
-----------------------------------------------------------------------------
\* What a search of a binding returns.
Recall(b) ==
    IF scopes[b].suppressed THEN {}
    ELSE {t[3] : t \in {t \in ActiveTerms(b) :
            /\ heads[t[3]].status = "active"
            /\ heads[t[3]].revision = t[4]
            /\ erased[t[3]] = Nothing
            /\ <<b, versions[t[3]][t[4]].source>> \notin shunned}}

\* The index is built anew under a generation no term has.
Generations(b) == {t[2] : t \in {t \in terms : t[1] = b}} \cup {scopes[b].generation}

Fresh(b) == 1 + CHOOSE g \in Generations(b) : \A h \in Generations(b) : h <= g

Active(b) == {m \in Memories : m[1] = b /\ heads[m].status = "active"}

Rebuild(b) ==
    /\ ~scopes[b].suppressed
    /\ scopes[b].generation <= MaxRebuilds
    /\ \A m \in Active(b) : /\ erased[m] = Nothing
                            /\ <<b, versions[m][heads[m].revision].source>> \notin shunned
    /\ terms' = terms \cup {<<b, Fresh(b), m, heads[m].revision>> : m \in Active(b)}
    /\ scopes' = [scopes EXCEPT ![b].generation = Fresh(b), ![b].revision = @ + 1]
    /\ UNCHANGED <<bound, versions, heads, observations, operations, erased, shunned,
                   config, asked, waiting, threads, answers, faults>>

-----------------------------------------------------------------------------
\* The bridge: what an event of a run does before the work it announces.  A
\* run is bound by its first event; the recall before a model call is Recall.

Binds(r) == RunApp[r] = AppOf[config] /\ bound[r] \in {Nothing, config}

Bind_Rebind(r) ==
    bound' = IF RunApp[r] = AppOf[config] THEN [bound EXCEPT ![r] = config] ELSE bound

Bind(r) == bound' = IF Binds(r) THEN [bound EXCEPT ![r] = config] ELSE bound

tables == <<scopes, versions, heads, terms, observations, operations, erased, shunned>>

Dispatches == {d \in Calls \X Attempts : threads[d[1]][d[2]].at # "none"}
Unused(c) == {n \in Attempts : threads[c][n].at = "none"}

Next1(N) == CHOOSE n \in N : \A k \in N : n <= k

\* tool.started: the run is bound and the handler gets a context and a
\* one-use lease, or neither.  A call keeps its arguments.
Dispatch(c) ==
    /\ waiting[c] = 0
    /\ Unused(c) # {} /\ Cardinality(Dispatches) < MaxDispatches
    /\ \E q \in IF asked[c] = Nothing THEN Requests[c] ELSE {asked[c]} :
           asked' = [asked EXCEPT ![c] = q]
    /\ Bind(c[1])
    /\ waiting' = [waiting EXCEPT ![c] = Next1(Unused(c))]
    /\ threads' = [threads EXCEPT ![c][Next1(Unused(c))] =
           [at |-> "ready", out |-> Nothing,
            lease |-> IF Binds(c[1]) THEN "open" ELSE "none"]]
    /\ UNCHANGED <<tables, config, answers, faults>>

\* A handler that has returned; its outcome is kept while somebody waits.
Ended(out) == [at |-> "ended", lease |-> "none", out |-> out]

\* The handler claims the lease and reads the durable binding of its run.
Claim(c, n) ==
    /\ threads[c][n].at = "ready"
    /\ threads' = [threads EXCEPT ![c][n] =
           IF @.lease = "open" /\ bound[c[1]] = config
           THEN [@ EXCEPT !.at = "claimed", !.lease = "claimed"]
           ELSE Ended(Refused)]
    /\ UNCHANGED <<store, config, asked, waiting, answers, faults>>

\* The store operation, one transaction, in the handler's thread.
Operate(c, n) ==
    /\ threads[c][n].at = "claimed"
    /\ Commit(c) \/ Reply(c)
    /\ threads' = [threads EXCEPT ![c][n] =
           Ended(IF waiting[c] = n /\ answers'[c] # Nothing THEN answers'[c] ELSE Refused)]
    /\ UNCHANGED <<config, asked, waiting, faults>>

\* SQLite fails and the transaction is rolled back.
Fault(c, n) ==
    /\ threads[c][n].at = "claimed"
    /\ threads' = [threads EXCEPT ![c][n] = Ended(Refused)]
    /\ UNCHANGED <<store, config, asked, waiting, answers, faults>>

Revoked(t) == IF t.lease = "open" THEN [t EXCEPT !.lease = "revoked"] ELSE t

\* The harness records the result of a call, never to dispatch it again.
Return(c) ==
    LET n == waiting[c] IN
    /\ n > 0
    /\ threads[c][n].at = "ended" /\ threads[c][n].out.ok
    /\ waiting' = [waiting EXCEPT ![c] = Settled]
    /\ UNCHANGED <<store, config, asked, threads, answers, faults>>

\* The handler failed, or its timeout passed or the run was cancelled while
\* it runs: the outcome is unknown and the call may be dispatched again.
Abandon(c) ==
    LET n == waiting[c] IN
    /\ n > 0
    /\ threads[c][n].at = "ended" => ~threads[c][n].out.ok
    /\ waiting' = [waiting EXCEPT ![c] = 0]
    /\ threads' = [threads EXCEPT ![c][n] = Revoked(@)]
    /\ UNCHANGED <<store, config, asked, answers, faults>>

\* The process dies with its threads and starts again, perhaps configured
\* with another binding.  What the harness had recorded stays.
Restart ==
    /\ faults < MaxRestarts
    /\ faults' = faults + 1
    /\ config' \in Bindings
    /\ waiting' = [c \in Calls |-> IF waiting[c] > 0 THEN 0 ELSE waiting[c]]
    /\ threads' = [c \in Calls |-> [n \in Attempts |->
           IF threads[c][n].at = "none" THEN NoThread
           ELSE Ended(Refused)]]
    /\ UNCHANGED <<store, asked, answers>>

Next ==
    \/ \E c \in Calls : Dispatch(c) \/ Return(c) \/ Abandon(c)
    \/ \E c \in Calls, n \in Attempts : Claim(c, n) \/ Operate(c, n) \/ Fault(c, n)
    \/ Rebuild(config)
    \/ Restart

Spec == Init /\ [][Next]_vars
-----------------------------------------------------------------------------
\* The active generation of the index holds the current revision of every
\* active memory and nothing else, and nothing forgotten is active: neither a
\* replay, nor a second source of the same memory, nor a rebuild brings back
\* what an operator has forgotten.
IndexIsExact ==
    \A b \in Bindings :
        /\ {<<t[3], t[4]>> : t \in ActiveTerms(b)}
             = {<<m, heads[m].revision>> : m \in Active(b)}
        /\ scopes[b].suppressed => Active(b) = {}
        /\ \A m \in Active(b) :
               /\ erased[m] = Nothing
               /\ <<b, versions[m][heads[m].revision].source>> \notin shunned

\* A call makes at most one revision however often and in however many
\* threads it is dispatched, and everything it wrote is in the binding its
\* run was bound to first, under whatever binding the process runs now.
OneEffectPerCall ==
    \A c \in Calls :
        LET written == {w \in Memories \X (1 .. Cardinality(Calls)) :
                           /\ w[2] \in DOMAIN versions[w[1]]
                           /\ versions[w[1]][w[2]].source = c}
        IN /\ \A w \in written : w[1][1] = bound[c[1]]
           /\ Cardinality({w \in written : versions[w[1]][w[2]].status = "active"}) <= 1

\* Once the store has accepted a call, it gives the same answer for ever: a
\* retry after a crash or a timeout is neither refused nor found corrupt,
\* whatever was remembered and forgotten in between.
RepeatedRequestsAgree ==
    [][\A c \in Calls : answers[c] # Nothing /\ answers[c].ok => answers'[c] = answers[c]]_vars

\* Whoever compares collection revisions notices every change of a recall.
RecallChangesAreVisible ==
    [][\A b \in Bindings :
          /\ scopes'[b].revision >= scopes[b].revision
          /\ Recall(b)' # Recall(b) => scopes'[b].revision > scopes[b].revision]_vars
=============================================================================
