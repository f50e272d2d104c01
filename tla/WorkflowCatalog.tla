-------------------------- MODULE WorkflowCatalog --------------------------
(***************************************************************************)
(* The catalog of saved workflows: the two tables of sasori_flow/catalog,  *)
(* the conditional PUT of sasori/server that creates a workflow or appends *)
(* a revision, and the studio page that edits, saves, reconciles and lists *)
(* them over a network that delays, repeats and loses requests.            *)
(*                                                                         *)
(* One transaction of the store is one step: it runs on the owner's loop   *)
(* without an await.  A definition stands for its canonical document and   *)
(* its digest.  The epochs of the page are only ever compared for equality *)
(* with the value a request captured, so a request carries what the        *)
(* comparison will say: whether its selection is still the current one and *)
(* whether the editor was touched since.                                   *)
(***************************************************************************)
EXTENDS Naturals, Sequences, FiniteSets

CONSTANTS
    Ids,          \* catalog ids
    Definitions,  \* workflow documents that may be in the editor
    Template,     \* the document the editor is reset to
    MaxTools,     \* bound: versions of the tools a deployment goes through
    Contract,     \* the manifest preflight computes, Nothing if it refuses
    MaxSaves,     \* bound: presses of the save button
    MaxOthers,    \* bound: revisions other clients write
    MaxReads,     \* bound: GET requests in flight
    Nothing

\* An etag, what a reader is told of a head, and what a writer is answered.
Etags   == [id : Ids, revision : Nat, definition : Definitions \cup {Nothing}]
Records == [etag : Etags, compatible : BOOLEAN]
Replies == [status : {"invalid", "rejected", "mismatch", "missing", "accepted"},
            record : Records \cup {Nothing}]

ASSUME CatalogAssumption ==
    /\ Template \in Definitions
    /\ Nothing \notin Ids \cup Definitions
    /\ Nothing \notin Etags \cup Records \cup Replies
    /\ MaxTools \in Nat \ {0}
    /\ Contract \in [Definitions \X (1 .. MaxTools) -> Nat \cup {Nothing}]
    /\ MaxSaves \in Nat /\ MaxOthers \in Nat /\ MaxReads \in Nat

VARIABLES
    revisions,        \* workflow_revisions: the chain of each workflow
    heads,            \* workflow_heads
    next_catalog_seq, \* workflow_catalog_meta
    tools,            \* the tools of the running process
    page,             \* the studio: selection, etag, editor, ledger
    recoveries,       \* the drafts whose save has no known outcome
    net,              \* requests under way
    presses           \* saves pressed so far

store == <<revisions, heads, next_catalog_seq>>
vars  == <<store, tools, page, recoveries, net, presses>>

NoHead == [seq |-> 0, revision |-> 0, definition |-> Nothing]

Init ==
    /\ revisions = [id \in Ids |-> <<>>]
    /\ heads = [id \in Ids |-> NoHead]
    /\ next_catalog_seq = 1
    /\ tools = 1
    /\ page = [selected |-> Nothing, etag |-> Nothing, saved |-> Nothing,
               editor |-> Template, ledger |-> "idle", action |-> "none",
               offer |-> Nothing, enabled |-> TRUE]
    /\ recoveries = [id \in Ids |-> Nothing]
    /\ net = {}
    /\ presses = 0

-----------------------------------------------------------------------------
(* The store.                                                              *)

Exists(id) == heads[id] # NoHead
Fits(definition) == Contract[<<definition, tools>>] # Nothing

\* catalog_etag: the workflow, the revision and the digest of its definition.
Etag(id) == [id |-> id, revision |-> heads[id].revision, definition |-> heads[id].definition]

Snapshot(id, definition, by, base) ==
    [parent |-> heads[id].revision, definition |-> definition,
     contract |-> Contract[<<definition, tools>>], by |-> by, base |-> base]

\* A new workflow takes the next sequence number; it is never renumbered.
Create(id, definition, by) ==
    /\ ~Exists(id)
    /\ revisions' = [revisions EXCEPT ![id] = <<Snapshot(id, definition, by, Nothing)>>]
    /\ heads' = [heads EXCEPT ![id] = [seq |-> next_catalog_seq, revision |-> 1,
                                       definition |-> definition]]
    /\ next_catalog_seq' = next_catalog_seq + 1

\* The writer's precondition against the head, in the transaction that appends.
IsHead(id, etag) ==
    /\ Exists(id)
    /\ etag.revision = heads[id].revision
    /\ etag.definition = heads[id].definition

\* The same definition under the same manifest is not a new revision.
NoOp(id, definition) ==
    LET current == revisions[id][heads[id].revision] IN
    /\ definition = heads[id].definition
    /\ Contract[<<definition, tools>>] = current.contract

Append1(id, definition, by, base) ==
    /\ revisions' = [revisions EXCEPT ![id] = Append(@, Snapshot(id, definition, by, base))]
    /\ heads' = [heads EXCEPT ![id].revision = @ + 1, ![id].definition = definition]
    /\ UNCHANGED next_catalog_seq

\* What a reader is told of the head, with the verdict of today's tools.
Record(id) ==
    [etag |-> Etag(id),
     compatible |-> Contract[<<heads[id].definition, tools>>]
                        = revisions[id][heads[id].revision].contract]

\* _workflow_precondition: an If-Match must name the workflow of the path.
NamesPath_Any(r) == r.create \/ r.etag # Nothing
NamesPath(r) == r.create \/ (r.etag # Nothing /\ r.etag.id = r.id)

\* What the server decides about a PUT, in the order of its checks.
Verdict_Unconditional(r) ==
    IF ~NamesPath(r) THEN "invalid"
    ELSE IF ~Fits(r.draft) THEN "rejected"
    ELSE IF r.create /\ Exists(r.id) THEN "mismatch"
    ELSE "accepted"
Verdict(r) ==
    IF ~NamesPath(r) THEN "invalid"
    ELSE IF ~Fits(r.draft) THEN "rejected"
    ELSE IF r.create THEN IF Exists(r.id) THEN "mismatch" ELSE "accepted"
    ELSE IF ~Exists(r.id) THEN "missing"
    ELSE IF ~IsHead(r.id, r.etag) THEN "mismatch"
    ELSE "accepted"

Apply(r) ==
    IF Verdict(r) # "accepted" THEN UNCHANGED store
    ELSE IF r.create THEN Create(r.id, r.draft, r.press)
    ELSE IF NoOp(r.id, r.draft) THEN UNCHANGED store
    ELSE Append1(r.id, r.draft, r.press, r.etag)

\* The answer: a PUT that is accepted is told of its own revision.
Reply(r) ==
    [status |-> Verdict(r),
     record |-> IF Verdict(r) = "accepted"
                THEN [etag |-> Etag(r.id)', compatible |-> TRUE] ELSE Nothing]

-----------------------------------------------------------------------------
(* The studio page.                                                        *)

\* C: what the ledger says and which button it offers.
Ledger(p, state, action) == [p EXCEPT !.ledger = state, !.action = action]

\* x: the save button, computed only where the page calls it.
Enable(p) ==
    [p EXCEPT !.enabled =
        /\ p.ledger \notin {"saving", "unknown", "conflict", "rejected"}
        /\ p.selected = Nothing \/ p.etag # Nothing]

\* T: a record becomes the base of the editor.
Adopted(p, record, preserve) ==
    Enable(Ledger([p EXCEPT !.selected = record.etag.id, !.etag = record.etag,
                            !.saved = record.etag.definition, !.offer = Nothing,
                            !.editor = IF preserve THEN @ ELSE record.etag.definition],
                  IF record.compatible THEN "saved" ELSE "incompatible", "none"))

Requests == {r \in net : r.waited}
Reads == {r \in Requests : r.op # "put"}
Get(op, id, draft) ==
    [op |-> op, id |-> id, draft |-> draft, here |-> TRUE, waited |-> TRUE,
     answer |-> Nothing]

\* q: the read that decides whether a draft became durable.
Recover(p, id) == IF p.selected = id THEN Ledger(p, "saving", "none") ELSE p

\* A new selection: the answers captured under the old one lose their place.
Leave1(requests) ==
    {IF r.op = "put" THEN [r EXCEPT !.here = FALSE, !.edited = TRUE]
     ELSE [r EXCEPT !.here = FALSE] : r \in {q \in requests : q.op # "open"}}

Touched(requests) == {IF r.op = "put" /\ r.waited THEN [r EXCEPT !.edited = TRUE] ELSE r :
                          r \in requests}

\* W: the editor changed, by hand or from a tool chip.
Edited(p) ==
    IF p.ledger \in {"unknown", "saving", "conflict"} THEN p
    ELSE IF p.selected # Nothing /\ p.editor = p.saved THEN p
    ELSE Ledger(p, "idle", "none")

Edit(definition) ==
    /\ page' = Enable(Edited([page EXCEPT !.editor = definition]))
    /\ net' = Touched(net)
    /\ UNCHANGED <<store, tools, recoveries, presses>>

\* The reset button writes the template without an input event: the edit
\* epoch stays, but the text is compared as well.
Reset ==
    /\ page' = [page EXCEPT !.editor = Template]
    /\ UNCHANGED <<store, tools, recoveries, net, presses>>

New ==
    /\ page' = Enable(Ledger([page EXCEPT !.selected = Nothing, !.etag = Nothing,
                                          !.saved = Nothing, !.offer = Nothing,
                                          !.editor = Template], "idle", "none"))
    /\ net' = Leave1(net)
    /\ UNCHANGED <<store, tools, recoveries, presses>>

\* A press of the save button: one conditional PUT, never repeated by the page.
Save ==
    /\ page.enabled /\ presses < MaxSaves
    /\ \E id \in Ids :
         /\ IF page.selected = Nothing
            THEN /\ ~Exists(id) /\ recoveries[id] = Nothing
                 /\ \A r \in net : r.id # id
            ELSE id = page.selected
         /\ presses' = presses + 1
         /\ net' = net \cup {[op |-> "put", id |-> id, draft |-> page.editor,
                              create |-> page.selected = Nothing, etag |-> page.etag,
                              press |-> presses + 1, here |-> TRUE, edited |-> FALSE,
                              waited |-> TRUE, answer |-> Nothing]}
         /\ page' = Enable(Ledger([page EXCEPT !.selected = id, !.offer = Nothing],
                                  "saving", "none"))
         /\ recoveries' = [recoveries EXCEPT ![id] = Nothing]
    /\ UNCHANGED <<store, tools>>

\* A card of the list opens a workflow, or first settles its unknown draft.
Open(id) ==
    /\ Cardinality(Reads) < MaxReads
    /\ Exists(id)
    /\ page' = Ledger([page EXCEPT !.selected = id], "saving", "none")
    /\ net' = Leave1(net) \cup {IF recoveries[id] = Nothing
                                THEN Get("open", id, Nothing)
                                ELSE Get("recover", id, recoveries[id])}
    /\ UNCHANGED <<store, tools, recoveries, presses>>

\* The button of the ledger: take the offered head as the new base, or read
\* again what became of the draft.
Adopt ==
    /\ page.action = "conflict" /\ page.offer # Nothing
    /\ page' = Enable(Ledger([page EXCEPT !.etag = page.offer.etag, !.offer = Nothing],
                             "idle", "none"))
    /\ UNCHANGED <<store, tools, recoveries, net, presses>>

Reconcile ==
    /\ page.action = "unknown" /\ page.selected # Nothing
    /\ recoveries[page.selected] # Nothing /\ Cardinality(Reads) < MaxReads
    /\ page' = Recover(page, page.selected)
    /\ net' = net \cup {Get("recover", page.selected, recoveries[page.selected])}
    /\ UNCHANGED <<store, tools, recoveries, presses>>

-----------------------------------------------------------------------------
(* The answers of the server.                                              *)

\* A request nobody waits for matters as long as its precondition may hold.
Live(requests, table) ==
    {r \in requests :
        r.waited \/ IF r.create THEN table[r.id] = NoHead
                    ELSE r.etag # Nothing /\ r.etag.id = r.id
                         /\ r.etag.revision = table[r.id].revision}

Current_AnyRecord(r) == TRUE
Current(r) == r.here /\ page.selected = r.id

\* PUT answered with a revision: the base of the page, if it is still there.
SaveAccepted(r) ==
    LET record == r.answer.record IN
    /\ r.answer.status = "accepted"
    /\ IF ~Current(r) THEN page' = Enable(page) /\ UNCHANGED recoveries
       ELSE IF r.edited \/ page.editor # r.draft
       THEN /\ page' = Enable(Ledger([page EXCEPT !.etag = record.etag,
                                                 !.saved = record.etag.definition],
                                     "saved", "none"))
            /\ UNCHANGED recoveries
       ELSE /\ page' = Adopted(page, record, TRUE)
            /\ recoveries' = [recoveries EXCEPT ![r.id] = Nothing]
    /\ net' = net \ {r}

\* 412: read the head that won, and offer it.
SaveConflicts(r) ==
    /\ r.answer.status = "mismatch"
    /\ page' = Enable(page)
    /\ net' = (net \ {r}) \cup IF Current(r) THEN {Get("conflict", r.id, Nothing)} ELSE {}
    /\ UNCHANGED recoveries

\* 422 with a reason: the definition does not compile here.
SaveRejected(r) ==
    /\ r.answer.status = "rejected"
    /\ page' = Enable(IF r.here /\ page.editor = r.draft
                      THEN Ledger([page EXCEPT !.selected = IF r.create THEN Nothing ELSE @],
                                  "rejected", "none")
                      ELSE page)
    /\ net' = net \ {r}
    /\ UNCHANGED recoveries

\* The request whose answer never came.
Forsaken(r) ==
    IF r.answer # Nothing THEN {}
    ELSE {[r EXCEPT !.waited = FALSE, !.here = FALSE, !.edited = TRUE]}

\* No answer, a timeout, or a failure that decides nothing: the request may
\* still be carried out.  The draft is kept, and read back if it is on screen.
SaveUnknown(r) ==
    /\ r.answer # Nothing => r.answer.status \in {"invalid", "missing", "accepted"}
    /\ recoveries' = [recoveries EXCEPT ![r.id] = r.draft]
    /\ page' = Enable(IF Current(r) THEN Ledger(page, "saving", "none") ELSE page)
    /\ net' = (net \ {r}) \cup Live(Forsaken(r), heads)
              \cup (IF Current(r) THEN {Get("recover", r.id, r.draft)} ELSE {})

SaveAnswered ==
    \E r \in Requests :
      /\ r.op = "put"
      /\ \/ r.answer # Nothing /\ (SaveAccepted(r) \/ SaveConflicts(r) \/ SaveRejected(r))
         \/ SaveUnknown(r)
      /\ UNCHANGED <<store, tools, presses>>

Opened(r) ==
    /\ r.answer # Nothing
    /\ page' = Adopted(page, r.answer, FALSE)
    /\ net' = Touched(net \ {r})
    /\ recoveries' = [recoveries EXCEPT ![r.id] = Nothing]

OpenFails(r) ==
    /\ page' = Ledger(page, "unknown", "none")
    /\ net' = net \ {r}
    /\ UNCHANGED recoveries

OpenAnswered ==
    \E r \in Requests :
      /\ r.op = "open"
      /\ Opened(r) \/ OpenFails(r)
      /\ UNCHANGED <<store, tools, presses>>

\* The head is read back: the draft is durable, or another content is there.
Recovered(r) == r.answer.etag.definition = r.draft

RecoverDecides(r) ==
    /\ r.answer # Nothing
    /\ net' = net \ {r}
    /\ IF Recovered(r)
       THEN /\ recoveries' = [recoveries EXCEPT ![r.id] = Nothing]
            /\ page' = IF page.selected = r.id THEN Adopted(page, r.answer, TRUE) ELSE page
       ELSE IF page.selected = r.id
       THEN /\ recoveries' = [recoveries EXCEPT ![r.id] = Nothing]
            /\ page' = Ledger([page EXCEPT !.offer = r.answer], "conflict", "conflict")
       ELSE UNCHANGED <<page, recoveries>>

RecoverFails(r) ==
    /\ net' = net \ {r}
    /\ page' = IF page.selected = r.id THEN Ledger(page, "unknown", "unknown") ELSE page
    /\ UNCHANGED recoveries

RecoverAnswered ==
    \E r \in Requests :
      /\ r.op = "recover"
      /\ RecoverDecides(r) \/ RecoverFails(r)
      /\ UNCHANGED <<store, tools, presses>>

\* The head that won is offered.  The failure of this read is the only answer
\* that reaches the page without asking whose it is.
ConflictAnswered ==
    \E r \in Requests :
      /\ r.op = "conflict"
      /\ net' = net \ {r}
      /\ \/ /\ r.answer # Nothing
            /\ page' = IF Current(r)
                       THEN Ledger([page EXCEPT !.offer = r.answer], "conflict", "conflict")
                       ELSE page
         \/ page' = Ledger(page, "conflict", "none")
      /\ UNCHANGED <<store, tools, presses, recoveries>>

-----------------------------------------------------------------------------
(* The server and the network.                                             *)

WithReply(r) == [r EXCEPT !.answer = Reply(r), !.etag = Nothing, !.press = 0,
                          !.edited = @ \/ ~r.here]

\* A PUT reaches the server, perhaps again, perhaps after the page gave it up;
\* whether its answer comes back is up to the network.
ServePut ==
    \E r \in net :
      /\ r.op = "put" /\ r.answer = Nothing
      /\ Apply(r)
      /\ \/ r.waited /\ net' = Live((net \ {r}) \cup {WithReply(r)}, heads')
         \/ net' = Live(net, heads')
      /\ UNCHANGED <<tools, page, recoveries, presses>>

ServeGet ==
    /\ \E r \in Reads :
         /\ r.answer = Nothing /\ Exists(r.id)
         /\ net' = (net \ {r}) \cup {[r EXCEPT !.answer = Record(r.id)]}
    /\ UNCHANGED <<store, tools, page, recoveries, presses>>

\* Another client of the API creates a workflow or appends to one.
Length == [id \in Ids |-> Len(revisions[id])]
Revisions == {<<id, n>> : id \in Ids, n \in 1 .. MaxSaves + MaxOthers}
Others == {v \in Revisions : v[2] <= Length[v[1]] /\ revisions[v[1]][v[2]].by = 0}
OtherClient ==
    /\ Cardinality(Others) < MaxOthers
    /\ \E id \in Ids, definition \in Definitions :
         /\ Fits(definition)
         /\ \A r \in net : r.op = "put" /\ r.create => r.id # id
         /\ \/ page.selected # id /\ recoveries[id] = Nothing /\ Create(id, definition, 0)
            \/ Exists(id) /\ ~NoOp(id, definition) /\ Append1(id, definition, 0, Etag(id))
    /\ net' = Live(net, heads')
    /\ UNCHANGED <<tools, page, recoveries, presses>>

Redeploy ==
    /\ tools < MaxTools /\ tools' = tools + 1
    /\ UNCHANGED <<store, page, recoveries, net, presses>>

User == (\E definition \in Definitions : Edit(definition)) \/ Reset \/ New \/ Save
        \/ (\E id \in Ids : Open(id)) \/ Adopt \/ Reconcile
Server == ServePut \/ ServeGet
Answers == SaveAnswered \/ OpenAnswered \/ RecoverAnswered \/ ConflictAnswered
Next == User \/ Answers \/ Server \/ OtherClient \/ Redeploy

Spec == Init /\ [][Next]_vars

-----------------------------------------------------------------------------
(* Properties.                                                             *)

\* A revision the page appends replaces exactly the one the page had as its
\* base when save was pressed, of that workflow, however late, however often
\* and after whatever else its PUT is carried out.
NoSilentOverwrite ==
    \A id \in Ids : \A n \in 2 .. Len(revisions[id]) :
      LET base == revisions[id][n].base IN
      /\ base.id = id /\ base.revision = n - 1
      /\ base.definition = revisions[id][n - 1].definition
      /\ revisions[id][n].parent = n - 1

\* One press of the save button appends at most one revision, although the
\* request may be delivered again and the page reads back an unknown outcome.
OneRevisionPerSave ==
    \A v, w \in Revisions :
      LET by(x) == revisions[x[1]][x[2]].by IN
      v[2] <= Length[v[1]] /\ w[2] <= Length[w[1]] /\ by(v) = by(w) /\ by(v) # 0
        => v = w

\* While the ledger says saved, the selected workflow durably has the
\* revision the page names, with the content the page believes it has: an
\* answer that comes late or belongs to another record never says so.
SavedIsDurable ==
    page.ledger = "saved" =>
      LET etag == page.etag IN
      /\ etag # Nothing /\ etag.id = page.selected /\ etag.definition = page.saved
      /\ etag.revision <= Len(revisions[etag.id])
      /\ revisions[etag.id][etag.revision].definition = page.saved
=============================================================================
