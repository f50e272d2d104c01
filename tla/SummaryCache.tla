---------------------------- MODULE SummaryCache ----------------------------
(***************************************************************************)
(* Semantic compaction (sasori_context/semantic.py): the callers of        *)
(* SemanticCompactionModel.complete that share a SemanticSummaryCache, and *)
(* the summarizer they wait for, which may be slow, wrong, or go on after  *)
(* it was cancelled.  A key stands for one request to the letter, so the   *)
(* room its projection leaves for a summary goes with it.                  *)
(***************************************************************************)
EXTENDS Naturals, Sequences, FiniteSets, SequencesExt

CONSTANTS
    Callers,
    Keys,
    Room,        \* of each key: the units a summary may take
    Sizes,       \* units of the summaries the summarizer makes up
    MaxEntries,  \* max_entries of the cache
    MaxCalls,    \* bound: calls of the summarizer
    None

VARIABLES
    caller,      \* each caller: where it is, its key, ticket and summary
    items,       \* the resident summaries, least recently used first
    races,       \* the overlapping first misses of each key: active, winner
    calls        \* calls of the summarizer so far

vars == <<caller, items, races, calls>>

Idle == [at |-> "idle", key |-> None, ticket |-> FALSE, summary |-> None, asked |-> FALSE]
NoRace == [active |-> 0, winner |-> None]

Init ==
    /\ caller = [c \in Callers |-> Idle]
    /\ items = <<>>
    /\ races = [k \in Keys |-> NoRace]
    /\ calls = 0

Resident(k) == {i \in DOMAIN items : items[i].key = k}
Without(k)  ==
    IF Resident(k) = {} THEN items ELSE RemoveAt(items, CHOOSE i \in Resident(k) : TRUE)
Go(c, r)    == caller' = [caller EXCEPT ![c] = r]

\* move_to_end, then eviction from the front.
Use(item) ==
    LET all == Append(Without(item.key), item) IN
    IF Len(all) > MaxEntries THEN Tail(all) ELSE all
-----------------------------------------------------------------------------
\* _begin on a resident key.
Hit(c, k) ==
    /\ caller[c].at = "idle" /\ Resident(k) # {}
    /\ LET item == items[CHOOSE i \in Resident(k) : TRUE] IN
       /\ items' = Use(item)
       /\ Go(c, [Idle EXCEPT !.at = "have", !.key = k, !.summary = item.summary])
    /\ UNCHANGED <<races, calls>>

\* _begin otherwise: the caller joins the race of its key, whose winner, if
\* there is one, it takes even after the eviction of the entry.
Join(c, k) ==
    /\ caller[c].at = "idle" /\ Resident(k) = {}
    /\ races' = [races EXCEPT ![k].active = @ + 1]
    /\ LET winner == races[k].winner IN
       Go(c, [Idle EXCEPT !.at = IF winner = None THEN "miss" ELSE "have",
                          !.key = k, !.ticket = TRUE, !.summary = winner])
    /\ UNCHANGED <<items, calls>>

\* The finally clause of complete.
Finish(k) ==
    races' = [races EXCEPT ![k] = IF races[k].active = 1 THEN NoRace
                                  ELSE [races[k] EXCEPT !.active = @ - 1]]

Leave(c, outcome) ==
    /\ Go(c, [caller[c] EXCEPT !.at = outcome, !.ticket = FALSE])
    /\ IF caller[c].ticket THEN Finish(caller[c].key) ELSE UNCHANGED races

Ask(c) ==
    /\ caller[c].at = "miss" /\ calls < MaxCalls /\ calls' = calls + 1
    /\ Go(c, [caller[c] EXCEPT !.at = "asked", !.asked = TRUE])
    /\ UNCHANGED <<items, races>>

\* A valid answer in time; the summary is this call's own.
Answer(c, size) ==
    /\ caller[c].at = "asked"
    /\ Go(c, [caller[c] EXCEPT !.at = "have", !.summary = [by |-> c, size |-> size]])
    /\ UNCHANGED <<items, races, calls>>

\* The deadline, a provider error, an answer that is refused, or the caller's
\* own cancellation: a late answer is thrown away.
AnswerFails(c) ==
    /\ caller[c].at = "asked" /\ Leave(c, "failed")
    /\ UNCHANGED <<items, calls>>

Fits(k, summary) == summary.size <= Room[k]

\* The projection with the summary in it is over the budget.
TooLarge(c) ==
    /\ caller[c].at = "have" /\ ~Fits(caller[c].key, caller[c].summary)
    /\ Leave(c, "failed")
    /\ UNCHANGED <<items, calls>>

\* _publish: the first of the race to finish decides for all of them, even if
\* the entry has since been evicted.
Settled_Resident(k) == Resident(k) # {}
Settled(k) == races[k].winner # None

Publish(c) ==
    LET k == caller[c].key IN
    /\ caller[c].at = "have" /\ Fits(k, caller[c].summary)
    /\ caller[c].ticket /\ caller[c].asked
    /\ IF Settled(k)
       THEN Go(c, [caller[c] EXCEPT !.at = "agreed", !.summary = races[k].winner])
            /\ UNCHANGED <<items, races>>
       ELSE /\ races' = [races EXCEPT ![k].winner = caller[c].summary]
            /\ items' = Use([key |-> k, summary |-> caller[c].summary])
            /\ Go(c, [caller[c] EXCEPT !.at = "agreed"])
    /\ UNCHANGED calls

\* The model is called with the summary.
Succeed(c) ==
    /\ \/ caller[c].at = "agreed"
       \/ caller[c].at = "have" /\ Fits(caller[c].key, caller[c].summary) /\ ~caller[c].asked
    /\ Leave(c, "ok")
    /\ UNCHANGED <<items, calls>>

Return(c) ==
    /\ caller[c].at \in {"ok", "failed"} /\ Go(c, Idle)
    /\ UNCHANGED <<items, races, calls>>

Next == \E c \in Callers :
    \/ \E k \in Keys : Hit(c, k) \/ Join(c, k)
    \/ Ask(c) \/ (\E s \in Sizes : Answer(c, s)) \/ AnswerFails(c)
    \/ TooLarge(c) \/ Publish(c) \/ Succeed(c) \/ Return(c)

Spec == Init /\ [][Next]_vars
-----------------------------------------------------------------------------
\* Callers whose calls overlap on a missing key all end up with one summary,
\* which fits the budget; the race is remembered just as long as one of them
\* is under way, and the cache stays within its size.
OverlapAgrees ==
    /\ \A c, d \in Callers :
          /\ caller[c].at = "agreed" /\ caller[d].at = "agreed" /\ caller[c].key = caller[d].key
          => caller[c].summary = caller[d].summary
    /\ \A c \in Callers : caller[c].at \in {"agreed", "ok"} =>
          Fits(caller[c].key, caller[c].summary)
    /\ \A k \in Keys : races[k].active = Cardinality({c \in Callers :
                          caller[c].ticket /\ caller[c].key = k})
    /\ Len(items) <= MaxEntries
=============================================================================
