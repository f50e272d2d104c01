-------------------------- MODULE ContextProjection --------------------------
(***************************************************************************)
(* What becomes of a history on its way to a provider: Memory puts what it *)
(* recalled before the conversation (MemoryContextModel), the projection   *)
(* drops complete turns once the budget is exceeded (BoundedContextModel,  *)
(* SemanticCompactionModel), and an adapter translates the rest for its    *)
(* API (AnthropicMessagesModel, OpenAIResponsesModel).  A message is its   *)
(* role, its units, its calls, the state of the provider that made them    *)
(* and what it answers; a message that is sent is also the number of the   *)
(* message it is, or what was put in its place.                            *)
(***************************************************************************)
EXTENDS Naturals, Sequences, FiniteSets

CONSTANTS
    Histories,       \* the conversations sent
    Budgets,         \* their message_units
    HotTurns,        \* turns that are never dropped
    Found,           \* records a search of Memory may return
    InjectionLimit,  \* max_injection_bytes, in units
    SummaryUnits,    \* of what a summarizer may write
    None

VARIABLES
    history, budget, found,
    prompt,      \* None before, then the history with what was recalled
    projection,  \* None before, then what is sent or raised
    call         \* None before, then the adapter's answer

vars == <<history, budget, found, prompt, projection, call>>

Refusal(code) == code \in {"malformed", "incomplete"}

\* The end of the run of tool results that begins after message i.
ResultsEnd(h, i) ==
    LET Reached == {j \in i .. Len(h) : \A k \in i + 1 .. j : h[k].role = "tool"} IN
    CHOOSE j \in Reached : \A k \in Reached : k <= j

Results(h, i) == i + 1 .. ResultsEnd(h, i)

AnswersOf(h, i, id) == {j \in Results(h, i) : h[j].answers = id}

DistinctIds(calls) ==
    \A a, b \in DOMAIN calls : a # b /\ calls[a].id = calls[b].id => calls[a].id = None

\* _normalized_rejection_atom: each call has its one result, every rejection is
\* the one the call deserves, results without an id are rejections, and there
\* is at least one rejection.
Normalized(h, i) ==
    LET calls   == h[i].calls
        nameless == {a \in DOMAIN calls : calls[a].id = None}
        orphans  == {j \in Results(h, i) : h[j].answers = None}
    IN
    /\ h[i].role = "assistant" /\ Results(h, i) # {}
    /\ DistinctIds(calls)
    /\ \A a \in DOMAIN calls \ nameless :
          \E j \in Results(h, i) :
             /\ AnswersOf(h, i, calls[a].id) = {j}
             /\ IF calls[a].complete THEN ~Refusal(h[j].code) ELSE h[j].code = "incomplete"
    /\ \A j \in Results(h, i) \ orphans : \E a \in DOMAIN calls : calls[a].id = h[j].answers
    /\ Cardinality(orphans) >= Cardinality(nameless)
    /\ \A j \in orphans : h[j].code = "malformed"
    /\ orphans # {} \/ \E a \in DOMAIN calls : ~calls[a].complete

\* The group of a call message and its results, one for each call.
Complete_Loose(h, i) ==
    /\ h[i].role = "assistant"
    /\ \A a \in DOMAIN h[i].calls : h[i].calls[a].complete /\ h[i].calls[a].id # None
    /\ DistinctIds(h[i].calls)
    /\ \A j \in Results(h, i) : \E a \in DOMAIN h[i].calls : h[i].calls[a].id = h[j].answers
Complete(h, i) ==
    /\ h[i].role = "assistant"
    /\ \A a \in DOMAIN h[i].calls : h[i].calls[a].complete /\ h[i].calls[a].id # None
    /\ DistinctIds(h[i].calls)
    /\ \A j \in Results(h, i) :
          /\ ~Refusal(h[j].code)
          /\ \E a \in DOMAIN h[i].calls : h[i].calls[a].id = h[j].answers
    /\ \A a \in DOMAIN h[i].calls : Cardinality(AnswersOf(h, i, h[i].calls[a].id)) = 1

\* _atoms: what project takes or leaves as one.
AtomStarts(h) == {i \in DOMAIN h : h[i].role # "tool"}
SoundAtom(h, i) ==
    \/ Normalized(h, i)
    \/ IF h[i].calls = <<>> THEN Results(h, i) = {} ELSE Complete(h, i)
SoundAtoms(h) ==
    /\ h # <<>> => h[1].role # "tool"
    /\ \A i \in AtomStarts(h) : SoundAtom(h, i)

\* _protected_prefix_length: system messages, then protected data.
PrefixLength(h) ==
    LET Prefixes == {n \in 0 .. Len(h) :
            \E s \in 0 .. n : /\ \A k \in 1 .. s : h[k].role = "system"
                              /\ \A k \in s + 1 .. n : h[k].role = "protected"} IN
    CHOOSE n \in Prefixes : \A k \in Prefixes : k <= n
SoundPrefix(h) == \A i \in PrefixLength(h) + 1 .. Len(h) : h[i].role # "protected"

\* _wire_history of messages from .. to: rejected groups become a note of the
\* assistant and a user message.
Note(i)  == [from |-> i, as |-> "note", units |-> 1]
Error(i) == [from |-> i, as |-> "errors", units |-> 1]
Plain(h, i) == [from |-> i, as |-> "itself", units |-> h[i].units]

WireAtom(h, i) ==
    IF Normalized(h, i) THEN <<Note(i), Error(i)>>
    ELSE [k \in 1 .. 1 + Cardinality(Results(h, i)) |-> Plain(h, i + k - 1)]

Wire(h, from, to) ==
    LET grow[n \in from - 1 .. to] ==
            IF n = from - 1 THEN <<>>
            ELSE IF n \in AtomStarts(h) THEN grow[n - 1] \o WireAtom(h, n) ELSE grow[n - 1]
    IN grow[to]

Units(messages) ==
    LET total[n \in 0 .. Len(messages)] ==
            IF n = 0 THEN 0 ELSE total[n - 1] + messages[n].units
    IN total[Len(messages)]

\* _turns: a turn begins with a user message, the first with whatever is there.
TurnStarts(h) ==
    LET first == PrefixLength(h) + 1 IN
    {i \in AtomStarts(h) : i = first \/ (i > first /\ h[i].role = "user")}

\* What is sent when the turns from message i on are kept.
Marker == [from |-> 0, as |-> "marker", units |-> 1]
Keeping(h, i) ==
    LET prefix == PrefixLength(h) IN
    Wire(h, 1, prefix) \o (IF i = prefix + 1 THEN <<>> ELSE <<Marker>>) \o Wire(h, i, Len(h))

\* The first message of the hot turns.
HotStart(h) ==
    LET after(i) == Cardinality({j \in TurnStarts(h) : j >= i})
        hot == {i \in TurnStarts(h) : after(i) <= HotTurns} IN
    CHOOSE i \in hot : \A j \in hot : i <= j

\* The loop of project: one turn more, as long as the result fits.
Previous(h, i) ==
    LET before == {j \in TurnStarts(h) : j < i} IN CHOOSE j \in before : \A k \in before : k <= j
Fits(h, i, b) == Units(Keeping(h, i)) <= b
KeptFrom(h, b) ==
    LET from[n \in 0 .. Cardinality(TurnStarts(h))] ==
            IF n = 0 THEN HotStart(h)
            ELSE LET i == from[n - 1] IN
                 IF (\E j \in TurnStarts(h) : j < i) /\ Fits(h, Previous(h, i), b)
                 THEN Previous(h, i) ELSE i
    IN from[Cardinality(TurnStarts(h))]

Project(h, b) ==
    IF ~SoundPrefix(h) \/ ~SoundAtoms(h) THEN [raised |-> "structure"]
    ELSE IF Units(Wire(h, 1, Len(h))) <= b
         THEN [sent |-> Wire(h, 1, Len(h)), from |-> PrefixLength(h) + 1]
    ELSE IF TurnStarts(h) = {} \/ ~Fits(h, HotStart(h), b) THEN [raised |-> "budget"]
    ELSE [sent |-> Keeping(h, KeptFrom(h, b)), from |-> KeptFrom(h, b)]

-----------------------------------------------------------------------------
\* MemoryContextModel._inject: the guard and the records, as protected data,
\* after the leading system messages.
Message(role, units) ==
    [role |-> role, units |-> units, calls |-> <<>>, state |-> None, answers |-> None, code |-> None]

Leading(h) ==
    LET Prefixes == {n \in 0 .. Len(h) : \A k \in 1 .. n : h[k].role = "system"} IN
    CHOOSE n \in Prefixes : \A k \in Prefixes : k <= n

Inject(h, records) ==
    SubSeq(h, 1, Leading(h))
    \o <<Message("system", 1), Message("protected", 1 + records)>>
    \o SubSeq(h, Leading(h) + 1, Len(h))

\* _bounded_injection: the lowest ranked records are left out until the rest
\* fits both limits; the empty envelope stays.
Injectable(h, records, b) ==
    /\ 1 + records <= InjectionLimit
    /\ Project(Inject(h, records), b) # [raised |-> "budget"]
Recalled(h, b, n) ==
    IF n = 0 THEN h
    ELSE LET fitting == {0} \cup {k \in 0 .. n : Injectable(h, k, b)} IN
         Inject(h, CHOOSE k \in fitting : \A j \in fitting : j <= k)

\* SemanticCompactionModel: the marker moves before the protected data and the
\* summary follows it.
Compacted(h, p) == "sent" \in DOMAIN p /\ p.from > PrefixLength(h) + 1
Summary(units) == [from |-> 0, as |-> "note", units |-> units]
WithSummary(h, p, units, b) ==
    LET prefix == PrefixLength(h)
        sent == SubSeq(p.sent, 1, Leading(h)) \o <<Marker>>
                \o SubSeq(p.sent, Leading(h) + 1, prefix) \o <<Summary(units)>>
                \o SubSeq(p.sent, prefix + 2, Len(p.sent))
    IN IF Units(sent) <= b THEN [p EXCEPT !.sent = sent] ELSE [raised |-> "summary"]
-----------------------------------------------------------------------------
\* What an adapter reads in a message that is sent.
Role(h, m) ==
    CASE m.as = "marker" -> "system"
      [] m.as = "note"   -> "assistant"
      [] m.as = "errors" -> "user"
      [] OTHER -> IF h[m.from].role = "protected" THEN "assistant" ELSE h[m.from].role
CallsOf(h, m) == IF m.as = "itself" THEN h[m.from].calls ELSE <<>>

\* provider_state carries the one call of the reply it was made for, and only
\* to the provider that made it.
SameCalls(calls) == Len(calls) = 1 /\ calls[1].complete
Carried(h, m) ==
    CallsOf(h, m) # <<>> => h[m.from].state = "own" /\ SameCalls(CallsOf(h, m))

\* Each call is followed at once by its one result, and nothing else is.
After(h, sent, k) ==
    {j \in k + 1 .. Len(sent) : \A i \in k + 1 .. j : Role(h, sent[i]) = "tool"}
Continued(h, sent) ==
    /\ sent # <<>> => Role(h, sent[1]) # "tool"
    /\ \A k \in DOMAIN sent : Role(h, sent[k]) # "tool" =>
          LET calls == CallsOf(h, sent[k])
              answers == {h[sent[j].from].answers : j \in After(h, sent, k)} IN
          /\ answers = {calls[a].id : a \in DOMAIN calls}
          /\ Cardinality(After(h, sent, k)) = Len(calls)

\* _input_items of OpenAI, _wire_history of Anthropic, which takes system
\* messages out of the conversation and must have one left.
OpenAITakes(h, sent) == Continued(h, sent) /\ \A k \in DOMAIN sent : Carried(h, sent[k])
AnthropicTakes(h, sent) ==
    LET spoken == {k \in DOMAIN sent : Role(h, sent[k]) # "system"} IN
    /\ Continued(h, sent) /\ \A k \in DOMAIN sent : Carried(h, sent[k])
    /\ spoken # {}
    /\ \A k \in spoken : \A j \in DOMAIN sent \ spoken : j < k
Taken(api, h, sent) == IF api = "openai" THEN OpenAITakes(h, sent) ELSE AnthropicTakes(h, sent)
-----------------------------------------------------------------------------
Init ==
    /\ history \in Histories /\ budget \in Budgets /\ found \in Found
    /\ prompt = None /\ projection = None /\ call = None

Recall ==
    /\ prompt = None /\ prompt' = Recalled(history, budget, found)
    /\ UNCHANGED <<history, budget, found, projection, call>>

Compact ==
    /\ prompt # None /\ projection = None
    /\ projection' = Project(prompt, budget)
    /\ UNCHANGED <<history, budget, found, prompt, call>>

Summarise ==
    /\ prompt # None /\ projection = None
    /\ LET p == Project(prompt, budget) IN
       /\ Compacted(prompt, p)
       /\ \E units \in SummaryUnits : projection' = WithSummary(prompt, p, units, budget)
    /\ UNCHANGED <<history, budget, found, prompt, call>>

Send(api) ==
    /\ projection # None /\ "sent" \in DOMAIN projection /\ call = None
    /\ call' = [api |-> api,
                taken |-> Taken(api, prompt, projection.sent)]
    /\ UNCHANGED <<history, budget, found, prompt, projection>>

Next == Recall \/ Compact \/ Summarise \/ \E api \in {"openai", "anthropic"} : Send(api)
Spec == Init /\ [][Next]_vars
-----------------------------------------------------------------------------
\* Nothing of the protected prefix or of the kept turns is lost, no hot turn
\* is dropped, and no turn there was room for.
Maximal(h, p) ==
    /\ \A i \in DOMAIN h : (i <= PrefixLength(h) \/ i >= p.from) =>
          \E k \in DOMAIN p.sent :
             LET m == p.sent[k] IN
             m.from = i \/ (m.as = "errors" /\ i \in Results(h, m.from))
    /\ TurnStarts(h) # {} => p.from <= HotStart(h)
    /\ \A i \in TurnStarts(h) : Fits(h, i, budget) => p.from <= i

\* A turn with a call of another provider cannot be continued as long as it is
\* kept ("does not claim that a run can switch providers while such a turn is
\* retained").
Switched(h, p) ==
    \E i \in AtomStarts(h) : /\ i >= p.from /\ h[i].calls # <<>> /\ ~Normalized(h, i)
                             /\ h[i].state # "own" \/ Len(h[i].calls) > 1

\* The marker of the structural projection is a system message after the
\* protected data, which Anthropic's adapter reads as part of the conversation.
Interrupted(h, p) ==
    \E k \in DOMAIN p.sent : p.sent[k].as = "marker" /\ k > Leading(h) + 1
SystemFirst(h, p) == \A i \in DOMAIN h : h[i].role = "system" => i <= Leading(h) \/ i < p.from

\* A projection that is returned fits the budget and drops no more than it has
\* to; it is refused only when not even the hot turns fit.  Whatever it
\* dropped, an adapter can translate it: a call is never parted from its
\* result and a call the Harness rejected is never replayed.  The exceptions
\* are a kept turn of another provider, and for Anthropic a conversation
\* interrupted by a system message, which is what the projection's own marker
\* is when Memory's records come before it.
ProjectionIsMaximal ==
    /\ projection # None =>
         IF "sent" \in DOMAIN projection
         THEN Units(projection.sent) <= budget /\ Maximal(prompt, projection)
         ELSE projection.raised = "budget" =>
                  \A i \in TurnStarts(prompt) : i <= HotStart(prompt) => ~Fits(prompt, i, budget)
    /\ call # None =>
         (call.taken <=>
            /\ ~Switched(prompt, projection)
            /\ call.api = "anthropic" =>
                  /\ ~Interrupted(prompt, projection) /\ SystemFirst(prompt, projection)
                  /\ \E i \in DOMAIN prompt : prompt[i].role # "system")
=============================================================================
