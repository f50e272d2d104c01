---------------------------- MODULE DocumentIndex ----------------------------
(***************************************************************************)
(* The SQLite document index of sasori_plugins/rag_sqlite.py: index_text,  *)
(* an idempotent tool, and search_documents.  Every call opens the file,   *)
(* makes sure of its schema and works in one transaction; calls come from  *)
(* several threads and processes, also from threads whose caller has given *)
(* up and repeats the call.  The key of a call is a digest of its source   *)
(* and text.                                                               *)
(*                                                                         *)
(* One collection, because every statement is about one.  A text is the    *)
(* number of its chunks.                                                   *)
(***************************************************************************)
EXTENDS Naturals, FiniteSets

CONSTANTS Attempts, Sources, Texts, None

VARIABLES
    indexer,  \* each attempt to index: where it is, what it was asked, its answer
    writer,   \* the attempt whose transaction may write
    index     \* the committed database

indexVars == <<indexer, writer, index>>

Blank == [identity |-> "blank", revision |-> 0, sources |-> [s \in Sources |-> None],
          chunks |-> {}, fts |-> {}, records |-> {}]
Idle == [at |-> "idle", source |-> None, text |-> None, answer |-> None]

\* The file may be absent, or another program's.
Init ==
    /\ indexer = [a \in Attempts |-> Idle]
    /\ writer = None
    /\ index \in {Blank, [Blank EXCEPT !.identity = "other"]}

Start(a, source, text) ==
    /\ indexer[a] = Idle
    /\ indexer' = [indexer EXCEPT ![a] = [Idle EXCEPT !.at = "connect", !.source = source,
                                                      !.text = text]]
    /\ UNCHANGED <<writer, index>>

\* The schema and the identity are one transaction.
Open(a) ==
    /\ indexer[a].at = "connect" /\ writer = None /\ index.identity # "other"
    /\ index' = [index EXCEPT !.identity = "rag"]
    /\ indexer' = [indexer EXCEPT ![a].at = "open"]
    /\ UNCHANGED writer

\* BEGIN IMMEDIATE.
Begin(a) ==
    /\ indexer[a].at = "open" /\ writer = None
    /\ writer' = a
    /\ indexer' = [indexer EXCEPT ![a].at = "begun"]
    /\ UNCHANGED index

Return(a, at, answer) ==
    /\ writer' = None
    /\ indexer' = [indexer EXCEPT ![a].at = at, ![a].answer = answer]

Recorded_Current(r) ==
    {e \in index.records : /\ e.source = r.source /\ e.text = r.text
                           /\ index.sources[r.source].text = r.text}
\* The idempotency record of a request, if there is one.
Recorded(r) == {e \in index.records : e.source = r.source /\ e.text = r.text}

Chunks(source, text) ==
    {[source |-> source, text |-> text, ordinal |-> n] : n \in 0 .. text - 1}

\* A new generation of the source takes the place of the old one.
Replaced(r) ==
    LET old  == index.sources[r.source]
        next == [revision |-> IF old = None THEN 1 ELSE old.revision + 1, text |-> r.text]
        Rows(rows) == {c \in rows : c.source # r.source} \cup Chunks(r.source, r.text)
        answer == [source |-> r.source, text |-> r.text, revision |-> next.revision,
                   collection |-> index.revision + 1]
    IN  [index EXCEPT !.revision = @ + 1, !.sources[r.source] = next,
                      !.chunks = Rows(@), !.fts = Rows(@), !.records = @ \cup {answer}]

Replace(a) ==
    /\ writer = a /\ Recorded(indexer[a]) = {}
    /\ index' = Replaced(indexer[a])
    /\ \E answer \in index'.records \ index.records : Return(a, "answered", answer)

\* A recorded request is answered again while its generation is the current
\* one, and refused when it is not.
Replay(a) ==
    /\ writer = a
    /\ \E e \in Recorded(indexer[a]) :
          IF index.sources[e.source].text = e.text
          THEN Return(a, "answered", e) ELSE Return(a, "superseded", None)
    /\ UNCHANGED index

\* A lock that is not given, an error, the death of the process: the
\* transaction is rolled back, and the call may be repeated.
Fail(a) ==
    /\ indexer[a].at \in {"connect", "open", "begun"}
    /\ indexer' = [indexer EXCEPT ![a] = Idle]
    /\ writer' = IF writer = a THEN None ELSE writer
    /\ UNCHANGED index

Next == \E a \in Attempts :
    \/ \E source \in Sources, text \in Texts : Start(a, source, text)
    \/ Open(a) \/ Begin(a) \/ Replace(a) \/ Replay(a) \/ Fail(a)

Spec == Init /\ [][Next]_indexVars
-----------------------------------------------------------------------------
\* What a search that matches everything shows.
Matches ==
    {[chunk |-> c, revision |-> index.sources[c.source].revision] :
        c \in {d \in index.chunks : d \in index.fts /\ index.sources[d.source] # None}}

\* The generations of a source follow one another and none comes back: each
\* was indexed by one request, a search shows the last of them and nothing of
\* the others, and whoever was answered was told of the one generation his
\* request made, however many attempts of it and of others ran at once.
Of(source) == {e \in index.records : e.source = source}
Newest(source) == {e \in Of(source) : e.revision = Cardinality(Of(source))}
GenerationsAreLinear ==
    /\ {e.collection : e \in index.records} = 1 .. Cardinality(index.records)
    /\ \A s \in Sources : {e.revision : e \in Of(s)} = 1 .. Cardinality(Of(s))
    /\ \A d, e \in index.records : d.source = e.source /\ d.text = e.text => d = e
    /\ Matches = UNION {{[chunk |-> c, revision |-> e.revision] : c \in Chunks(e.source, e.text)} :
                           e \in UNION {Newest(s) : s \in Sources}}
    /\ \A a \in Attempts :
          LET r == indexer[a] IN
          /\ r.at = "answered" => r.answer \in Recorded(r)
          /\ r.at = "superseded" => Recorded(r) # {} /\ Recorded(r) \cap Newest(r.source) = {}
=============================================================================
