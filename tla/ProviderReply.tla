--------------------------- MODULE ProviderReply ----------------------------
(***************************************************************************)
(* What a model provider answers and what the adapters make of it: the     *)
(* event streams of the Anthropic Messages and OpenAI Responses APIs, the  *)
(* decoders _stream_payload, _text_and_calls and _reply_from_payload, and  *)
(* the message a stream was meant to carry.                                *)
(*                                                                         *)
(* A message is [blocks, stop]: a block is [kind, parts], its text, its    *)
(* signature or the two halves of a tool call's JSON arguments.            *)
(***************************************************************************)
EXTENDS Naturals, Sequences, SequencesExt

CONSTANT None

E(type, n, x) == [type |-> type, n |-> n, x |-> x]

Normal == {"end", "tool"}      \* end_turn and stop_sequence, tool_use
Pauses == {"max_tokens"}       \* the stops of an incomplete response

Calls(blocks) == SelectSeq(blocks, LAMBDA b : b.kind = "tool")
HasText(blocks) == \E i \in DOMAIN blocks : blocks[i].kind = "text" /\ blocks[i].parts # <<>>
-----------------------------------------------------------------------------
\* The Anthropic stream of a message.

BlockEvents(n, b) ==
    <<E("block", n, b.kind)>> \o [i \in DOMAIN b.parts |-> E("delta", n, b.parts[i])]
    \o <<E("block_stop", n, None)>>

AnthropicStream(m) ==
    <<E("start", 0, None)>>
    \o FlattenSeq([i \in DOMAIN m.blocks |-> BlockEvents(i, m.blocks[i])])
    \o <<E("message_delta", 0, m.stop), E("message_stop", 0, None)>>

\* The events that are not pings.
NoPings(events) ==
    FlattenSeq([i \in DOMAIN events |->
        IF events[i].type = "ping" THEN <<>> ELSE <<events[i]>>])

\* The OpenAI stream: numbered events, the last of which has the response.
OpenAIStream(m) ==
    <<E("created", 0, None), E("output", 1, None),
      E(IF m.stop \in Pauses THEN "incomplete" ELSE "completed", 2, m)>>

\* What the events of the APIs are: an event of Anthropic has the place of its
\* block and what its type says, one of OpenAI the number of its type.
AnthropicEvent(e) ==
    /\ e = E(e.type, e.n, e.x) /\ e.n \in Nat
    /\ e.type = "block" => e.x \in {"text", "thinking", "tool"}
    /\ e.type = "message_delta" => e.n = 0 /\ e.x # None
    /\ e.type \in {"start", "message_stop"} => e.n = 0 /\ e.x = None
    /\ e.type = "block_stop" => e.x = None
OpenAIEvent(e) ==
    CASE e.type = "created" -> e = E("created", 0, None)
      [] e.type = "output" -> e = E("output", 1, None)
      [] e.type = "incomplete" -> e = E("incomplete", 2, e.x) /\ e.x.stop \in Pauses
      [] e.type = "completed" -> e = E("completed", 2, e.x) /\ e.x.stop \in Normal
      [] OTHER -> e.type \in {"failed", "error", "ping"}

AnthropicTerminals == {"message_stop", "error"}
OpenAITerminals == {"completed", "incomplete", "failed", "error"}
-----------------------------------------------------------------------------
\* Anthropic's _stream_payload, event by event.

Decoder == [started |-> FALSE, active |-> None, blocks |-> <<>>,
            stop |-> None, stopped |-> FALSE, verdict |-> "reply"]

\* Deltas a block of a kind may get.
DeltaFits(block, x) ==
    CASE block.kind = "text" -> x = "text"
      [] block.kind = "thinking" -> x = "signature" /\ block.parts = <<>>
      [] OTHER -> x \in {"json1", "json2"}

\* A block that may be closed: signed, or with arguments that parse.
Complete(block) ==
    CASE block.kind = "text" -> TRUE
      [] block.kind = "thinking" -> block.parts # <<>>
      [] OTHER -> block.parts \in {<<>>, <<"json1", "json2">>}

InOrder_BlockAfterDelta(d, e) ==
    CASE e.type = "start" -> ~d.started
      [] e.type = "block" -> /\ d.started /\ d.active = None
                             /\ e.n = Len(d.blocks) + 1
      [] e.type = "delta" -> /\ d.active # None /\ e.n = Len(d.blocks) + 1
                             /\ DeltaFits(d.active, e.x)
      [] e.type = "block_stop" -> /\ d.active # None /\ e.n = Len(d.blocks) + 1
                                  /\ Complete(d.active)
      [] e.type = "message_delta" -> d.started /\ d.active = None /\ d.stop = None
      [] e.type = "message_stop" -> /\ d.started /\ d.active = None
                                    /\ d.stop # None /\ ~d.stopped
      [] OTHER -> e.type = "ping"
InOrder(d, e) ==
    CASE e.type = "start" -> ~d.started
      [] e.type = "block" -> /\ d.started /\ d.stop = None /\ d.active = None
                             /\ e.n = Len(d.blocks) + 1
      [] e.type = "delta" -> /\ d.active # None /\ e.n = Len(d.blocks) + 1
                             /\ DeltaFits(d.active, e.x)
      [] e.type = "block_stop" -> /\ d.active # None /\ e.n = Len(d.blocks) + 1
                                  /\ Complete(d.active)
      [] e.type = "message_delta" -> d.started /\ d.active = None /\ d.stop = None
      [] e.type = "message_stop" -> /\ d.started /\ d.active = None
                                    /\ d.stop # None /\ ~d.stopped
      [] OTHER -> e.type = "ping"

Decode(d, e) ==
    IF d.verdict # "reply" THEN d
    ELSE IF e.type = "error" THEN [d EXCEPT !.verdict = "response"]
    ELSE IF ~InOrder(d, e) THEN [d EXCEPT !.verdict = "protocol"]
    ELSE
    CASE e.type = "start" -> [d EXCEPT !.started = TRUE]
      [] e.type = "block" -> [d EXCEPT !.active = [kind |-> e.x, parts |-> <<>>]]
      [] e.type = "delta" -> [d EXCEPT !.active = [kind |-> d.active.kind, parts |-> Append(d.active.parts, e.x)]]
      [] e.type = "block_stop" -> [d EXCEPT !.blocks = Append(@, d.active), !.active = None]
      [] e.type = "message_delta" -> [d EXCEPT !.stop = e.x]
      [] e.type = "message_stop" -> [d EXCEPT !.stopped = TRUE]
      [] OTHER -> d

\* _reply_from_payload: the payload's stop decides before its content.
Verdict(blocks, stop) ==
    IF stop \in Pauses THEN "incomplete"
    ELSE IF stop = "refusal" THEN "refusal"
    ELSE IF \/ stop \notin Normal
            \/ Len(Calls(blocks)) > 1
            \/ (stop = "tool") # (Calls(blocks) # <<>>)
            \/ ~HasText(blocks) /\ Calls(blocks) = <<>>
         THEN "protocol" ELSE "reply"

Answer(verdict, m) == [verdict |-> verdict, message |-> IF verdict = "reply" THEN m ELSE None]

Decoded(events) ==
    LET after[n \in 0 .. Len(events)] ==
            IF n = 0 THEN Decoder ELSE Decode(after[n - 1], events[n])
    IN  after[Len(events)]

AnthropicReply(events) ==
    LET d == Decoded(events)
        m == [blocks |-> d.blocks, stop |-> d.stop]
    IN  IF d.verdict # "reply" THEN Answer(d.verdict, None)
        ELSE IF ~d.stopped THEN Answer("protocol", None)
        ELSE Answer(Verdict(m.blocks, m.stop), m)

\* A message that an API carries: its blocks are complete, and unless it was
\* cut short it is a reply.
Whole(m) ==
    /\ m = [blocks |-> m.blocks, stop |-> m.stop]
    /\ m.blocks \in Seq({m.blocks[i] : i \in DOMAIN m.blocks})
    /\ \A i \in DOMAIN m.blocks : LET b == m.blocks[i] IN
          /\ b = [kind |-> b.kind, parts |-> b.parts]
          /\ CASE b.kind = "text" -> b.parts \in Seq({"text"})
               [] b.kind = "thinking" -> b.parts = <<"signature">>
               [] OTHER -> b.kind = "tool" /\ b.parts \in {<<>>, <<"json1", "json2">>}
    /\ IF m.stop \in Normal THEN Verdict(m.blocks, m.stop) = "reply" ELSE m.stop \in Pauses

\* OpenAI's _stream_payload and _reply_from_payload; its status "completed"
\* stands for both normal stops.
OpenAIVerdict(m) ==
    IF \/ Len(Calls(m.blocks)) > 1
       \/ ~HasText(m.blocks) /\ Calls(m.blocks) = <<>>
    THEN "protocol" ELSE "reply"

OpenAIReply(events) ==
    LET last == events[Len(events)] IN
    IF \E i \in DOMAIN events : events[i].n # i - 1 \/ events[i].type = "ping"
    THEN Answer("protocol", None)
    ELSE
    CASE last.type = "error" -> Answer("response", None)
      [] last.type = "failed" -> Answer("response", None)
      [] last.type = "incomplete" -> Answer("incomplete", None)
      [] last.type = "completed" -> Answer(OpenAIVerdict(last.x), last.x)
      [] OTHER -> Answer("protocol", None)
=============================================================================
