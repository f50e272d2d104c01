------------------------------ MODULE MCParts -------------------------------
(***************************************************************************)
(* The streams and conversations that Parts is checked with.               *)
(***************************************************************************)
EXTENDS Parts, SequencesExt

Reply == INSTANCE ProviderReply
-----------------------------------------------------------------------------
\* What a provider sends: whole messages, with or without pings, and streams
\* in which an event is missing, repeated or foreign, two neighbours have
\* changed places, or the end of the message comes early.

Text(parts) == [kind |-> "text", parts |-> parts]
Thought     == [kind |-> "thinking", parts |-> <<"signature">>]
Call(parts) == [kind |-> "tool", parts |-> parts]

Longest == [blocks |-> <<Text(<<"text">>), Call(<<"json1", "json2">>)>>, stop |-> "tool"]
Messages == {[blocks |-> <<Text(<<"text">>)>>, stop |-> "end"],
             [blocks |-> <<Text(<<"text", "text">>)>>, stop |-> "max_tokens"],
             [blocks |-> <<Thought, Text(<<"text">>)>>, stop |-> "end"],
             [blocks |-> <<Call(<<>>)>>, stop |-> "tool"], Longest}

Whole == {[api |-> "anthropic", events |-> Reply!AnthropicStream(m), meant |-> m] : m \in Messages}
   \cup {[api |-> "openai", events |-> Reply!OpenAIStream(m), meant |-> m] : m \in Messages}
   \cup {[api |-> "json", events |-> <<Reply!E("body", 0, m)>>, meant |-> m] : m \in Messages}

Moved(s, i, j) == InsertAt(RemoveAt(s, i), j, s[i])
Altered(s) ==
    {RemoveAt(s, i) : i \in DOMAIN s} \cup {InsertAt(s, i, s[i]) : i \in DOMAIN s}
    \cup {Moved(s, i + 1, i) : i \in 1 .. Len(s) - 1}
    \cup {Moved(s, i, j) : i \in Len(s) - 1 .. Len(s), j \in 1 .. Len(s) - 2}
    \cup {InsertAt(s, i, Reply!E("error", 0, None)) : i \in DOMAIN s}
    \cup {Append(s, Reply!E("ping", 0, None))}

Spoiled == UNION {{[api |-> w.api, events |-> s, meant |-> None] :
                        s \in Altered(w.events) \ {<<>>}} :
                     w \in {x \in Whole : x.api # "json" /\ x.meant = Longest}}
Pinged == UNION {{[w EXCEPT !.events = InsertAt(@, i, Reply!E("ping", 0, None))] :
                        i \in DOMAIN w.events} :
                     w \in {x \in Whole : x.api = "anthropic" /\ x.meant = Longest}}
Sendable == Whole \cup Spoiled \cup Pinged
-----------------------------------------------------------------------------
\* Conversations: up to three sound groups of messages, and any three messages.

Says(role, units) ==
    [role |-> role, units |-> units, calls |-> <<>>, state |-> None, answers |-> None, code |-> None]
Asks(called) == [Says("assistant", 1) EXCEPT !.calls = called, !.state = "own"]
Tells(id, error) == [Says("tool", 1) EXCEPT !.answers = id, !.code = error]
Asked(id, complete) == [id |-> id, complete |-> complete]

Lookup   == Asks(<<Asked("a", TRUE)>>)
Halved   == Asks(<<Asked("a", TRUE), Asked("b", FALSE)>>)
Nameless == Asks(<<Asked(None, TRUE)>>)
Foreign  == [Lookup EXCEPT !.state = "other"]

Groups == {<<Says("user", 1)>>, <<Says("user", 2)>>, <<Says("assistant", 1)>>,
           <<Lookup, Tells("a", "none")>>, <<Foreign, Tells("a", "none")>>,
           <<Halved, Tells("b", "incomplete"), Tells("a", "none")>>}
Starts == {<<>>, <<Says("system", 1)>>}
Single == {Says("system", 1), Says("protected", 1), Says("user", 1), Lookup, Halved, Nameless,
           Tells("a", "none"), Tells("b", "incomplete"), Tells(None, "malformed")}

Conversations ==
    UNION {{start \o FlattenSeq(g) : g \in [1 .. n -> Groups]} : n \in 0 .. 3, start \in Starts}
    \cup UNION {[1 .. n -> Single] : n \in 1 .. 3}
-----------------------------------------------------------------------------
\* The other inputs that a configuration cannot write.

HostIdsDef  == {<<"note", 1>>}
ContentsDef == {<<"text", 1>>, <<"text", 2>>}
EventsDef   == [r1 |-> 3, r2 |-> 0]
RoomDef     == [k1 |-> 1, k2 |-> 1]
=============================================================================
