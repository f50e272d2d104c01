----------------------- MODULE WorkflowCatalog_proofs -----------------------
(***************************************************************************)
(* Safety of the catalog and of the studio page, for any workflows,        *)
(* documents, tools and other clients: no edit is overwritten unseen, a    *)
(* save appends one revision at most, and what is called saved is durable. *)
(***************************************************************************)
EXTENDS WorkflowCatalog, TLAPS

\* Types.
Revision  == [parent : Nat, definition : Definitions, contract : Nat \cup {Nothing},
              by : Nat, base : Etags \cup {Nothing}]
HeadRow   == [seq : Nat, revision : Nat, definition : Definitions \cup {Nothing}]
Ledgers   == {"idle", "saving", "saved", "incompatible", "unknown", "conflict", "rejected"}
Actions   == {"none", "conflict", "unknown"}
PageRow   == [selected : Ids \cup {Nothing}, etag : Etags \cup {Nothing},
              saved : Definitions \cup {Nothing}, editor : Definitions, ledger : Ledgers,
              action : Actions, offer : Records \cup {Nothing}, enabled : BOOLEAN]
Put       == [op : {"put"}, id : Ids, draft : Definitions, create : BOOLEAN,
              etag : Etags \cup {Nothing}, press : Nat, here : BOOLEAN, edited : BOOLEAN,
              waited : BOOLEAN, answer : {Nothing} \cup Replies]
Read      == [op : {"open", "recover", "conflict"}, id : Ids,
              draft : Definitions \cup {Nothing}, here : BOOLEAN, waited : BOOLEAN,
              answer : {Nothing} \cup Records]

TypeOK ==
    /\ revisions \in [Ids -> Seq(Revision)]
    /\ heads \in [Ids -> HeadRow]
    /\ next_catalog_seq \in Nat
    /\ tools \in 1 .. MaxTools
    /\ page \in PageRow
    /\ recoveries \in [Ids -> Definitions \cup {Nothing}]
    /\ net \subseteq Put \cup Read
    /\ presses \in Nat

\* The head of a workflow is its last revision.
HeadInv ==
    \A id \in Ids :
        /\ heads[id].revision = Len(revisions[id])
        /\ Len(revisions[id]) = 0 => ~Exists(id)
        /\ Len(revisions[id]) > 0 =>
              heads[id].definition = revisions[id][Len(revisions[id])].definition

\* No two revisions are of one press.
ByInv ==
    \A id, jd \in Ids : \A n \in DOMAIN revisions[id], m \in DOMAIN revisions[jd] :
        /\ revisions[id][n].by <= presses
        /\ revisions[id][n].by = revisions[jd][m].by /\ revisions[id][n].by # 0
              => id = jd /\ n = m

\* A PUT the server may still carry out.
Pending(r) == r.op = "put" /\ r.answer = Nothing

\* What was pressed once is one request, however often it is delivered.
PressInv ==
    \A r \in net : Pending(r) =>
        /\ r.press \in 1 .. presses
        /\ \A s \in net : Pending(s) /\ s.press = r.press =>
              s.id = r.id /\ s.create = r.create /\ s.etag = r.etag

\* A request that appended its revision already finds another head.
SpentInv ==
    \A r \in net : Pending(r) =>
        \A id \in Ids : \A n \in DOMAIN revisions[id] :
            revisions[id][n].by = r.press =>
                /\ id = r.id
                /\ ~r.create => r.etag \in Etags /\ n = r.etag.revision + 1

\* The catalog has the revision an etag names.
Durable(etag) ==
    /\ etag \in Etags
    /\ etag.revision \in DOMAIN revisions[etag.id]
    /\ revisions[etag.id][etag.revision].definition = etag.definition

\* What the server has answered it has on disk.
Told(r) ==
    /\ r.op # "put" /\ r.answer # Nothing =>
          r.answer.etag.id = r.id /\ Durable(r.answer.etag)
    /\ r.op = "put" /\ r.answer # Nothing /\ r.answer.status = "accepted" =>
          /\ r.answer.record \in Records
          /\ r.answer.record.etag.id = r.id /\ Durable(r.answer.record.etag)
AnswerInv == \A r \in net : Told(r)

\* A page that says saved has a durable base.
Sound(p) ==
    p.ledger = "saved" =>
        p.etag.id = p.selected /\ p.etag.definition = p.saved /\ Durable(p.etag)

IInv ==
    /\ TypeOK /\ HeadInv /\ NoSilentOverwrite /\ ByInv /\ PressInv /\ SpentInv
    /\ AnswerInv /\ Sound(page)
-----------------------------------------------------------------------------
\* The page.

\* The ledger of a page.
LEMMA LedgerFacts ==
    ASSUME NEW p \in PageRow, NEW s \in Ledgers, NEW a \in Actions
    PROVE  LET q == Ledger(p, s, a)
           IN  /\ q \in PageRow /\ q.ledger = s /\ q.selected = p.selected /\ q.etag = p.etag
               /\ q.saved = p.saved
BY DEF Ledger, PageRow

\* The save button changes nothing else.
LEMMA EnableFacts ==
    ASSUME NEW p \in PageRow
    PROVE  LET q == Enable(p)
           IN  /\ q \in PageRow /\ q.ledger = p.ledger /\ q.selected = p.selected
               /\ q.etag = p.etag /\ q.saved = p.saved
<1> DEFINE on == /\ p.ledger \notin {"saving", "unknown", "conflict", "rejected"}
                 /\ p.selected = Nothing \/ p.etag # Nothing
<1>1. PICK e \in BOOLEAN : e = on
    OBVIOUS
<1>2. Enable(p) = [p EXCEPT !.enabled = e]
    BY <1>1 DEF Enable
<1> QED BY <1>2 DEF PageRow

\* A page is sound when its ledger does not say saved, or its base is durable.
LEMMA EnabledSound ==
    ASSUME NEW p \in PageRow, Sound(p)
    PROVE  Enable(p) \in PageRow /\ Sound(Enable(p))
BY EnableFacts DEF Sound

\* A page that does not say saved is sound with any buttons.
LEMMA UnsavedSound ==
    ASSUME NEW p \in PageRow, NEW s \in Ledgers, s # "saved", NEW a \in Actions
    PROVE  /\ Ledger(p, s, a) \in PageRow /\ Sound(Ledger(p, s, a))
           /\ Enable(Ledger(p, s, a)) \in PageRow /\ Sound(Enable(Ledger(p, s, a)))
<1>1. Ledger(p, s, a) \in PageRow /\ Ledger(p, s, a).ledger = s
    BY LedgerFacts
<1>2. Sound(Ledger(p, s, a))
    BY <1>1 DEF Sound
<1> QED BY <1>1, <1>2, EnabledSound

\* A page that adopts a durable record is sound.
LEMMA AdoptedSound ==
    ASSUME NEW p \in PageRow, NEW record \in Records, NEW preserve \in BOOLEAN,
           Durable(record.etag), record.etag.definition \in Definitions
    PROVE  Adopted(p, record, preserve) \in PageRow /\ Sound(Adopted(p, record, preserve))
<1>1. /\ record.etag \in Etags /\ record.etag.id \in Ids
    BY DEF Records, Etags
<1>2. PICK x, i, d : x = record.etag /\ i = record.etag.id /\ d = record.etag.definition
    OBVIOUS
<1>3. PICK e \in Definitions : e = IF preserve THEN p.editor ELSE d
    BY <1>2 DEF PageRow
<1> DEFINE q == [p EXCEPT !.selected = i, !.etag = x, !.saved = d, !.offer = Nothing,
                          !.editor = e]
<1>4. q \in PageRow /\ q.selected = i /\ q.etag = x /\ q.saved = d
    BY <1>1, <1>2 DEF PageRow
<1>5. q = [p EXCEPT !.selected = record.etag.id, !.etag = record.etag,
                    !.saved = record.etag.definition, !.offer = Nothing,
                    !.editor = IF preserve THEN @ ELSE record.etag.definition]
    BY <1>2, <1>3
<1>6. PICK s \in Ledgers : s = IF record.compatible THEN "saved" ELSE "incompatible"
    BY DEF Ledgers
<1>7. Adopted(p, record, preserve) = Enable(Ledger(q, s, "none"))
    BY <1>5, <1>6 DEF Adopted
<1> HIDE DEF q
<1>8. /\ Ledger(q, s, "none") \in PageRow
      /\ Ledger(q, s, "none").selected = i /\ Ledger(q, s, "none").etag = x
      /\ Ledger(q, s, "none").saved = d
    BY <1>4, LedgerFacts DEF Actions
<1>9. Sound(Ledger(q, s, "none"))
    BY <1>2, <1>8 DEF Sound
<1> QED BY <1>7, <1>8, <1>9, EnabledSound

\* A durable etag names a document, and what is durable stays.
LEMMA DurableFacts ==
    ASSUME TypeOK, NEW x, Durable(x)
    PROVE  x \in Etags /\ x.id \in Ids /\ x.revision \in Nat /\ x.definition \in Definitions
<1>1. x \in Etags /\ x.revision \in DOMAIN revisions[x.id] /\ x.id \in Ids
    BY DEF Durable, Etags
<1>2. revisions[x.id] \in Seq(Revision)
    BY <1>1 DEF TypeOK
<1>3. revisions[x.id][x.revision] \in Revision
    BY <1>1, <1>2
<1> QED BY <1>1, <1>3 DEF Durable, Revision, Etags

\* The head is durable.
LEMMA HeadIsDurable ==
    ASSUME TypeOK, HeadInv, NEW id \in Ids, Exists(id)
    PROVE  Durable(Etag(id)) /\ Etag(id).id = id /\ Record(id) \in Records
<1>1. PICK s \in Seq(Revision) : s = revisions[id]
    BY DEF TypeOK
<1>2. heads[id] \in HeadRow /\ heads[id].revision = Len(s) /\ Len(s) # 0
      /\ (Len(s) > 0 => heads[id].definition = s[Len(s)].definition)
    BY <1>1 DEF TypeOK, HeadInv
<1>3. Len(s) \in Nat /\ DOMAIN s = 1 .. Len(s)
    OBVIOUS
<1>4. Etag(id) \in Etags /\ Etag(id).id = id /\ Etag(id).revision = Len(s)
      /\ Etag(id).definition = s[Len(s)].definition
    BY <1>2, <1>3 DEF Etag, Etags, HeadRow
<1>5. Durable(Etag(id))
    BY <1>1, <1>2, <1>3, <1>4 DEF Durable
<1>6. Record(id) \in Records
    BY <1>4 DEF Record, Records
<1> QED BY <1>4, <1>5, <1>6
-----------------------------------------------------------------------------
\* Requests.

\* Two stages of one request.
Same(a, b) ==
    /\ a.op = b.op /\ a.id = b.id /\ a.answer = b.answer
    /\ a.op = "put" => a.create = b.create /\ a.etag = b.etag /\ a.press = b.press

\* Requests that were under way, or reads the page has just sent.
Carried(N) ==
    \A a \in N : /\ a \in Put \cup Read
                 /\ \/ \E b \in net : Same(a, b)
                    \/ a \in Read /\ a.answer = Nothing

\* Carrying is kept by smaller sets and by unions.
LEMMA CarriedFacts ==
    ASSUME TypeOK
    PROVE  /\ \A N \in SUBSET net : Carried(N)
           /\ \A N, M : Carried(N) /\ Carried(M) => Carried(N \cup M)
           /\ \A N : \A M \in SUBSET N : Carried(N) => Carried(M)
<1>1. \A r : Same(r, r)
    BY DEF Same
<1>2. \A N \in SUBSET net : Carried(N)
    BY <1>1 DEF Carried, TypeOK
<1> QED BY <1>2 DEF Carried

\* Selections and edits change flags only.
LEMMA FlagFacts ==
    /\ \A r \in Put :
          /\ [r EXCEPT !.here = FALSE, !.edited = TRUE] \in Put
          /\ Same([r EXCEPT !.here = FALSE, !.edited = TRUE], r)
          /\ [r EXCEPT !.edited = TRUE] \in Put /\ Same([r EXCEPT !.edited = TRUE], r)
          /\ [r EXCEPT !.waited = FALSE, !.here = FALSE, !.edited = TRUE] \in Put
          /\ Same([r EXCEPT !.waited = FALSE, !.here = FALSE, !.edited = TRUE], r)
    /\ \A r \in Read : [r EXCEPT !.here = FALSE] \in Read /\ Same([r EXCEPT !.here = FALSE], r)
    /\ \A r \in Put : r.op = "put"
    /\ \A r \in Read : r.op # "put"
BY DEF Put, Read, Same

\* The page leaves its requests, which stay what they were.
LEMMA LeaveCarries ==
    ASSUME TypeOK
    PROVE  Carried(Leave1(net))
<1> SUFFICES ASSUME NEW a \in Leave1(net)
             PROVE  a \in Put \cup Read /\ \E b \in net : Same(a, b)
    BY DEF Carried
<1>1. PICK r \in net : a = IF r.op = "put" THEN [r EXCEPT !.here = FALSE, !.edited = TRUE]
                           ELSE [r EXCEPT !.here = FALSE]
    BY DEF Leave1
<1>2. r \in Put \cup Read
    BY DEF TypeOK
<1> QED BY <1>1, <1>2, FlagFacts

\* So it does when the text is edited,
LEMMA TouchCarries ==
    ASSUME TypeOK, NEW N \in SUBSET net
    PROVE  Carried(Touched(N))
<1> SUFFICES ASSUME NEW a \in Touched(N)
             PROVE  a \in Put \cup Read /\ \E b \in net : Same(a, b)
    BY DEF Carried
<1>1. PICK r \in N : a = IF r.op = "put" /\ r.waited THEN [r EXCEPT !.edited = TRUE] ELSE r
    BY DEF Touched
<1>2. r \in Put \cup Read /\ Same(r, r)
    BY DEF TypeOK, Same
<1> QED BY <1>1, <1>2, FlagFacts

\* when it gives up a request that may still be served,
LEMMA ForsakeCarries ==
    ASSUME TypeOK, NEW r \in net, r.op = "put"
    PROVE  Carried(Forsaken(r)) /\ \A table : Carried(Live(Forsaken(r), table))
<1>1. r \in Put
    BY FlagFacts DEF TypeOK
<1>2. Carried(Forsaken(r))
    <2>1. PICK x \in Put : /\ x = [r EXCEPT !.waited = FALSE, !.here = FALSE, !.edited = TRUE]
                           /\ Same(x, r)
        BY <1>1, FlagFacts
    <2>2. Forsaken(r) \subseteq {x}
        BY <2>1 DEF Forsaken
    <2> QED BY <2>1, <2>2 DEF Carried
<1>3. \A table : Live(Forsaken(r), table) \subseteq Forsaken(r)
    BY DEF Live
<1> HIDE DEF Carried
<1> QED BY <1>2, <1>3, CarriedFacts

\* and a read is new but has no answer yet.
LEMMA GetCarries ==
    ASSUME TypeOK, NEW op \in {"open", "recover", "conflict"}, NEW id \in Ids,
           NEW draft \in Definitions \cup {Nothing}
    PROVE  Carried({Get(op, id, draft)})
<1>1. Get(op, id, draft) \in Read /\ Get(op, id, draft).answer = Nothing
    BY DEF Get, Read
<1>2. PICK a : a = Get(op, id, draft)
    OBVIOUS
<1> QED BY <1>1, <1>2 DEF Carried

\* What is known of requests stays known while the store rests.
LEMMA NetFollows ==
    ASSUME TypeOK, PressInv, SpentInv, AnswerInv, UNCHANGED <<revisions, presses>>,
           Carried(net')
    PROVE  PressInv' /\ SpentInv' /\ AnswerInv' /\ net' \subseteq Put \cup Read
<1>1. net' \subseteq Put \cup Read
    BY DEF Carried
<1>2. \A a \in net' : Pending(a) => \E b \in net : Pending(b) /\ Same(a, b)
    <2> SUFFICES ASSUME NEW a \in net', Pending(a)
                 PROVE  \E b \in net : Pending(b) /\ Same(a, b)
        OBVIOUS
    <2>1. a.op = "put" /\ a.answer = Nothing /\ a \notin Read
        BY FlagFacts DEF Pending
    <2>2. PICK b \in net : Same(a, b)
        BY <2>1 DEF Carried
    <2> QED BY <2>1, <2>2 DEF Pending, Same
<1>3. PressInv'
    <2> SUFFICES ASSUME NEW a \in net', Pending(a)
                 PROVE  /\ a.press \in 1 .. presses
                        /\ \A s \in net' : Pending(s) /\ s.press = a.press =>
                              s.id = a.id /\ s.create = a.create /\ s.etag = a.etag
        BY DEF PressInv, Pending
    <2>1. PICK b \in net : Pending(b) /\ Same(a, b)
        BY <1>2
    <2>2. a.id = b.id /\ a.create = b.create /\ a.etag = b.etag /\ a.press = b.press
        BY <2>1 DEF Same, Pending
    <2>3. ASSUME NEW s \in net', Pending(s), s.press = a.press
          PROVE  s.id = a.id /\ s.create = a.create /\ s.etag = a.etag
        <3>1. PICK t \in net : Pending(t) /\ Same(s, t)
            BY <1>2, <2>3
        <3>2. s.id = t.id /\ s.create = t.create /\ s.etag = t.etag /\ s.press = t.press
            BY <3>1 DEF Same, Pending
        <3>3. t.id = b.id /\ t.create = b.create /\ t.etag = b.etag
            BY <2>1, <2>2, <2>3, <3>1, <3>2 DEF PressInv
        <3> QED BY <2>2, <3>2, <3>3
    <2> QED BY <2>1, <2>2, <2>3 DEF PressInv
<1>4. SpentInv'
    <2> SUFFICES ASSUME NEW a \in net', Pending(a), NEW id \in Ids,
                        NEW n \in DOMAIN revisions[id], revisions[id][n].by = a.press
                 PROVE  id = a.id /\ (~a.create => a.etag \in Etags /\ n = a.etag.revision + 1)
        BY DEF SpentInv, Pending
    <2>1. PICK b \in net : Pending(b) /\ Same(a, b)
        BY <1>2
    <2>2. a.id = b.id /\ a.create = b.create /\ a.etag = b.etag /\ a.press = b.press
        BY <2>1 DEF Same, Pending
    <2> QED BY <2>1, <2>2 DEF SpentInv
<1>5. AnswerInv'
    <2> SUFFICES ASSUME NEW a \in net'
                 PROVE  Told(a)
        BY DEF AnswerInv, Told, Durable
    <2>1. CASE a \in Read /\ a.answer = Nothing
        BY <2>1, FlagFacts DEF Told
    <2>2. ASSUME NEW b \in net, Same(a, b)
          PROVE  Told(a)
        BY <2>2 DEF AnswerInv, Told, Same
    <2> QED BY <2>1, <2>2 DEF Carried
<1> QED BY <1>1, <1>3, <1>4, <1>5
-----------------------------------------------------------------------------
\* Steps that leave the catalog alone.

Quiet ==
    /\ UNCHANGED <<store, tools, presses>>
    /\ page' \in PageRow /\ Sound(page')
    /\ recoveries' \in [Ids -> Definitions \cup {Nothing}]
    /\ Carried(net')

\* A step that leaves the catalog alone keeps the invariant.
LEMMA QuietKeeps ==
    ASSUME IInv, Quiet
    PROVE  IInv'
<1>0. /\ TypeOK /\ HeadInv /\ NoSilentOverwrite /\ ByInv /\ PressInv /\ SpentInv
      /\ AnswerInv /\ Sound(page)
    BY DEF IInv
<1>1. UNCHANGED <<revisions, heads, next_catalog_seq, tools, presses>>
    BY DEF Quiet, store
<1>2. PressInv' /\ SpentInv' /\ AnswerInv' /\ net' \subseteq Put \cup Read
    BY <1>0, <1>1, NetFollows DEF Quiet
<1>3. TypeOK'
    BY <1>0, <1>1, <1>2 DEF Quiet, TypeOK
<1>4. HeadInv' /\ NoSilentOverwrite' /\ ByInv'
    BY <1>0, <1>1 DEF HeadInv, Exists, NoSilentOverwrite, ByInv
<1>5. Sound(page)'
    BY <1>1 DEF Quiet, Sound, Durable
<1> QED BY <1>2, <1>3, <1>4, <1>5 DEF IInv

\* Fields of the page.
LEMMA PageFacts ==
    ASSUME NEW p \in PageRow
    PROVE  /\ p.selected \in Ids \cup {Nothing} /\ p.etag \in Etags \cup {Nothing}
           /\ p.offer \in Records \cup {Nothing} /\ p.editor \in Definitions
           /\ \A i \in Ids \cup {Nothing} : [p EXCEPT !.selected = i] \in PageRow
           /\ \A i \in Ids : [p EXCEPT !.selected = i, !.offer = Nothing] \in PageRow
           /\ \A e \in Etags : [p EXCEPT !.etag = e, !.offer = Nothing] \in PageRow
           /\ \A r \in Records : [p EXCEPT !.offer = r] \in PageRow
           /\ [p EXCEPT !.selected = Nothing, !.etag = Nothing, !.saved = Nothing,
                        !.offer = Nothing, !.editor = Template] \in PageRow
BY CatalogAssumption DEF PageRow

\* What the user does but to save.
LEMMA UserQuiet ==
    ASSUME IInv, User, ~Save
    PROVE  Quiet
<1>0. TypeOK /\ Sound(page) /\ page \in PageRow
      /\ recoveries \in [Ids -> Definitions \cup {Nothing}]
    BY DEF IInv, TypeOK
<1>1. Carried(net)
    BY <1>0, CarriedFacts
<1>2. ASSUME NEW p \in PageRow, Sound(p), page' = p, Carried(net'),
             UNCHANGED <<store, tools, presses>>,
             recoveries' \in [Ids -> Definitions \cup {Nothing}]
      PROVE  Quiet
    BY <1>2 DEF Quiet
<1>3. ASSUME NEW d \in Definitions, Edit(d) PROVE Quiet
    <2>1. PICK q \in PageRow : q = [page EXCEPT !.editor = d] /\ Sound(q)
        <3>1. PICK q : q = [page EXCEPT !.editor = d]
            OBVIOUS
        <3>2. q \in PageRow /\ q.ledger = page.ledger /\ q.selected = page.selected
              /\ q.etag = page.etag /\ q.saved = page.saved
            BY <1>0, <3>1, CatalogAssumption DEF PageRow
        <3> QED BY <1>0, <3>1, <3>2 DEF Sound
    <2>2. Edited(q) \in PageRow /\ Sound(Edited(q))
        BY <2>1, UnsavedSound DEF Edited, Ledgers, Actions
    <2>3. PICK p \in PageRow : p = Enable(Edited(q)) /\ Sound(p)
        BY <2>2, EnabledSound
    <2>4. page' = p /\ net' = Touched(net) /\ UNCHANGED <<store, tools, recoveries, presses>>
        BY <1>3, <2>1, <2>3 DEF Edit
    <2>5. Carried(net')
        BY <1>0, <2>4, TouchCarries
    <2> QED BY <1>0, <1>2, <2>3, <2>4, <2>5
<1>4. CASE Reset
    <2>1. PICK q \in PageRow : q = [page EXCEPT !.editor = Template] /\ Sound(q)
        <3>1. PICK q : q = [page EXCEPT !.editor = Template]
            OBVIOUS
        <3>2. q \in PageRow /\ q.ledger = page.ledger /\ q.selected = page.selected
              /\ q.etag = page.etag /\ q.saved = page.saved
            BY <1>0, <3>1, CatalogAssumption DEF PageRow
        <3> QED BY <1>0, <3>1, <3>2 DEF Sound
    <2>2. page' = q /\ net' = net /\ UNCHANGED <<store, tools, recoveries, presses>>
        BY <1>4, <2>1 DEF Reset
    <2> QED BY <1>0, <1>1, <1>2, <2>1, <2>2
<1>5. CASE New
    <2>1. PICK q \in PageRow :
             q = [page EXCEPT !.selected = Nothing, !.etag = Nothing,
                              !.saved = Nothing, !.offer = Nothing, !.editor = Template]
        BY <1>0, PageFacts
    <2>2. PICK p \in PageRow : p = Enable(Ledger(q, "idle", "none")) /\ Sound(p)
        BY UnsavedSound DEF Ledgers, Actions
    <2>3. page' = p /\ net' = Leave1(net) /\ UNCHANGED <<store, tools, recoveries, presses>>
        BY <1>5, <2>1, <2>2 DEF New
    <2>4. Carried(net')
        BY <1>0, <2>3, LeaveCarries
    <2> QED BY <1>0, <1>2, <2>2, <2>3, <2>4
<1>6. ASSUME NEW id \in Ids, Open(id) PROVE Quiet
    <2>1. PICK q \in PageRow : q = [page EXCEPT !.selected = id]
        BY <1>0, PageFacts
    <2>2. PICK p \in PageRow : p = Ledger(q, "saving", "none") /\ Sound(p)
        BY UnsavedSound DEF Ledgers, Actions
    <2>3. page' = p /\ UNCHANGED <<store, tools, recoveries, presses>>
          /\ \E op \in {"open", "recover", "conflict"}, d \in Definitions \cup {Nothing} :
                net' = Leave1(net) \cup {Get(op, id, d)}
        BY <1>0, <1>6, <2>1, <2>2 DEF Open
    <2>4. Carried(net')
        BY <1>0, <2>3, LeaveCarries, GetCarries, CarriedFacts
    <2> QED BY <1>0, <1>2, <2>2, <2>3, <2>4
<1>7. CASE Adopt
    <2>1. page.offer # Nothing /\ page.offer \in Records
        BY <1>0, <1>7, PageFacts DEF Adopt
    <2>2. PICK q \in PageRow : q = [page EXCEPT !.etag = page.offer.etag, !.offer = Nothing]
        BY <1>0, <2>1, PageFacts DEF Records
    <2>3. PICK p \in PageRow : p = Enable(Ledger(q, "idle", "none")) /\ Sound(p)
        BY UnsavedSound DEF Ledgers, Actions
    <2>4. page' = p /\ net' = net /\ UNCHANGED <<store, tools, recoveries, presses>>
        BY <1>7, <2>2, <2>3 DEF Adopt
    <2> QED BY <1>0, <1>1, <1>2, <2>3, <2>4
<1>8. CASE Reconcile
    <2>1. PICK id \in Ids : id = page.selected
        BY <1>0, <1>8, PageFacts DEF Reconcile
    <2>2. PICK p \in PageRow : p = Ledger(page, "saving", "none") /\ Sound(p)
        BY <1>0, UnsavedSound DEF Ledgers, Actions
    <2>3. page' = p /\ UNCHANGED <<store, tools, recoveries, presses>>
          /\ net' = net \cup {Get("recover", id, recoveries[id])}
        BY <1>8, <2>1, <2>2 DEF Reconcile, Recover
    <2>4. Carried(net')
        BY <1>0, <1>1, <2>3, GetCarries, CarriedFacts
    <2> QED BY <1>0, <1>2, <2>2, <2>3, <2>4
<1> QED BY <1>3, <1>4, <1>5, <1>6, <1>7, <1>8 DEF User

\* What a request under way carries.
LEMMA RequestFacts ==
    ASSUME TypeOK, AnswerInv, NEW r \in net
    PROVE  /\ r.id \in Ids /\ r.draft \in Definitions \cup {Nothing}
           /\ r.op = "put" => r \in Put /\ r.draft \in Definitions
           /\ r.op \in {"open", "recover", "conflict"} /\ r.answer # Nothing =>
                 /\ r.answer \in Records /\ r.answer.etag.id = r.id
                 /\ Durable(r.answer.etag) /\ r.answer.etag.definition \in Definitions
           /\ r.op = "put" /\ r.answer # Nothing /\ r.answer.status = "accepted" =>
                 /\ r.answer.record \in Records /\ r.answer.record.etag.id = r.id
                 /\ Durable(r.answer.record.etag) /\ r.answer.record.etag \in Etags
                 /\ r.answer.record.etag.definition \in Definitions
<1>1. r \in Put \cup Read
    BY DEF TypeOK
<1>2. r.id \in Ids /\ r.draft \in Definitions \cup {Nothing}
      /\ (r.op = "put" => r \in Put /\ r.draft \in Definitions)
      /\ (r.op # "put" /\ r.answer # Nothing => r.answer \in Records)
    BY <1>1 DEF Put, Read
<1> QED BY <1>2, DurableFacts DEF AnswerInv, Told

\* The page hears of its save.
LEMMA SaveQuiet ==
    ASSUME IInv, SaveAnswered
    PROVE  Quiet
<1>0. TypeOK /\ AnswerInv /\ Sound(page) /\ page \in PageRow
      /\ recoveries \in [Ids -> Definitions \cup {Nothing}]
    BY DEF IInv, TypeOK
<1>1. PICK r \in net : /\ r.op = "put" /\ UNCHANGED <<store, tools, presses>>
                       /\ \/ /\ r.answer # Nothing
                             /\ SaveAccepted(r) \/ SaveConflicts(r) \/ SaveRejected(r)
                          \/ SaveUnknown(r)
    BY DEF SaveAnswered, Requests
<1>2. r.id \in Ids /\ r \in Put /\ r.draft \in Definitions
    BY <1>0, <1>1, RequestFacts
<1>3. Carried(net \ {r})
    BY <1>0, CarriedFacts
<1>4. ASSUME NEW p \in PageRow, Sound(p), page' = p, Carried(net'),
             recoveries' \in [Ids -> Definitions \cup {Nothing}]
      PROVE  Quiet
    BY <1>1, <1>4 DEF Quiet
<1>5. PICK e \in PageRow : e = Enable(page) /\ Sound(e)
    BY <1>0, EnabledSound
<1>6. ASSUME r.answer # Nothing, SaveAccepted(r) PROVE Quiet
    <2>1. PICK record \in Records :
             /\ record = r.answer.record /\ record.etag.id = r.id
             /\ Durable(record.etag) /\ record.etag \in Etags
             /\ record.etag.definition \in Definitions
        BY <1>0, <1>1, <1>6, RequestFacts DEF SaveAccepted
    <2>2. net' = net \ {r} /\ recoveries' \in [Ids -> Definitions \cup {Nothing}]
        BY <1>0, <1>2, <1>6 DEF SaveAccepted
    <2>3. CASE ~Current(r)
        BY <1>3, <1>4, <1>5, <1>6, <2>2, <2>3 DEF SaveAccepted
    <2>4. CASE Current(r) /\ (r.edited \/ page.editor # r.draft)
        <3>1. PICK q \in PageRow :
                 /\ q = [page EXCEPT !.etag = record.etag, !.saved = record.etag.definition]
                 /\ q.etag = record.etag /\ q.saved = record.etag.definition
                 /\ q.selected = page.selected
            <4>1. PICK x, d : x = record.etag /\ d = record.etag.definition
                OBVIOUS
            <4>2. PICK q : q = [page EXCEPT !.etag = x, !.saved = d]
                OBVIOUS
            <4>3. q \in PageRow /\ q.etag = x /\ q.saved = d /\ q.selected = page.selected
                BY <1>0, <2>1, <4>1, <4>2 DEF PageRow
            <4> QED BY <4>1, <4>2, <4>3
        <3>2. PICK l \in PageRow :
                 /\ l = Ledger(q, "saved", "none") /\ l.etag = record.etag
                 /\ l.saved = record.etag.definition /\ l.selected = page.selected
            <4>1. "saved" \in Ledgers /\ "none" \in Actions
                BY DEF Ledgers, Actions
            <4>2. /\ Ledger(q, "saved", "none") \in PageRow
                  /\ Ledger(q, "saved", "none").etag = q.etag
                  /\ Ledger(q, "saved", "none").saved = q.saved
                  /\ Ledger(q, "saved", "none").selected = q.selected
                BY <4>1, LedgerFacts
            <4> QED BY <3>1, <4>2
        <3>3. Sound(l)
            BY <2>1, <2>4, <3>2 DEF Sound, Current
        <3>4. PICK p \in PageRow : p = Enable(l) /\ Sound(p)
            BY <3>3, EnabledSound
        <3>5. page' = p
            BY <1>6, <2>1, <2>4, <3>1, <3>2, <3>4 DEF SaveAccepted
        <3> QED BY <1>3, <1>4, <2>2, <3>4, <3>5
    <2>5. CASE Current(r) /\ ~(r.edited \/ page.editor # r.draft)
        <3>1. PICK p \in PageRow : p = Adopted(page, record, TRUE) /\ Sound(p)
            BY <1>0, <2>1, AdoptedSound
        <3>2. page' = p
            BY <1>6, <2>1, <2>5, <3>1 DEF SaveAccepted
        <3> QED BY <1>3, <1>4, <2>2, <3>1, <3>2
    <2> QED BY <2>3, <2>4, <2>5
<1>7. ASSUME SaveConflicts(r) PROVE Quiet
    <2>1. page' = e /\ UNCHANGED recoveries
          /\ net' = (net \ {r}) \cup (IF Current(r) THEN {Get("conflict", r.id, Nothing)} ELSE {})
        BY <1>5, <1>7 DEF SaveConflicts
    <2>2. Carried({Get("conflict", r.id, Nothing)}) /\ Carried({})
        BY <1>0, <1>2, GetCarries, CarriedFacts
    <2>3. Carried(net')
        BY <1>0, <1>3, <2>1, <2>2, CarriedFacts
    <2> QED BY <1>0, <1>4, <1>5, <2>1, <2>3
<1>8. ASSUME SaveRejected(r) PROVE Quiet
    <2>1. PICK i \in Ids \cup {Nothing} : i = IF r.create THEN Nothing ELSE page.selected
        BY <1>0, PageFacts
    <2>2. PICK q \in PageRow : q = [page EXCEPT !.selected = IF r.create THEN Nothing ELSE @]
        BY <1>0, <2>1, PageFacts
    <2>3. PICK p \in PageRow : p = Enable(Ledger(q, "rejected", "none")) /\ Sound(p)
        BY UnsavedSound DEF Ledgers, Actions
    <2>4. page' \in {e, p} /\ net' = net \ {r} /\ UNCHANGED recoveries
        BY <1>5, <1>8, <2>2, <2>3 DEF SaveRejected
    <2> QED BY <1>0, <1>3, <1>4, <1>5, <2>3, <2>4
<1>9. ASSUME SaveUnknown(r) PROVE Quiet
    <2>1. PICK p \in PageRow : p = Enable(Ledger(page, "saving", "none")) /\ Sound(p)
        BY <1>0, UnsavedSound DEF Ledgers, Actions
    <2>2. page' \in {e, p} /\ recoveries' \in [Ids -> Definitions \cup {Nothing}]
          /\ net' = (net \ {r}) \cup Live(Forsaken(r), heads)
                    \cup (IF Current(r) THEN {Get("recover", r.id, r.draft)} ELSE {})
        BY <1>0, <1>2, <1>5, <1>9, <2>1 DEF SaveUnknown
    <2>3. Carried({Get("recover", r.id, r.draft)}) /\ Carried({})
        BY <1>0, <1>2, GetCarries, CarriedFacts
    <2>4. Carried((net \ {r}) \cup Live(Forsaken(r), heads))
        BY <1>0, <1>1, <1>3, ForsakeCarries, CarriedFacts
    <2>5. Carried(net')
        BY <1>0, <2>2, <2>3, <2>4, CarriedFacts
    <2> QED BY <1>4, <1>5, <2>1, <2>2, <2>5
<1> QED BY <1>1, <1>6, <1>7, <1>8, <1>9

\* The page hears of what it read.
LEMMA ReadQuiet ==
    ASSUME IInv, OpenAnswered \/ RecoverAnswered \/ ConflictAnswered
    PROVE  Quiet
<1>0. TypeOK /\ AnswerInv /\ Sound(page) /\ page \in PageRow
      /\ recoveries \in [Ids -> Definitions \cup {Nothing}]
    BY DEF IInv, TypeOK
<1>1. PICK r \in net :
         /\ r.op \in {"open", "recover", "conflict"} /\ UNCHANGED <<store, tools, presses>>
         /\ \/ r.op = "open" /\ (Opened(r) \/ OpenFails(r))
            \/ r.op = "recover" /\ (RecoverDecides(r) \/ RecoverFails(r))
            \/ /\ r.op = "conflict" /\ net' = net \ {r} /\ UNCHANGED recoveries
               /\ \/ /\ r.answer # Nothing
                     /\ page' = IF Current(r)
                                THEN Ledger([page EXCEPT !.offer = r.answer],
                                            "conflict", "conflict")
                                ELSE page
                  \/ page' = Ledger(page, "conflict", "none")
    BY DEF OpenAnswered, RecoverAnswered, ConflictAnswered, Requests
<1>2. r.id \in Ids
    BY <1>0, RequestFacts
<1>3. Carried(net \ {r}) /\ Carried(Touched(net \ {r}))
    BY <1>0, CarriedFacts, TouchCarries
<1>4. ASSUME NEW p \in PageRow, Sound(p), page' = p, Carried(net'),
             recoveries' \in [Ids -> Definitions \cup {Nothing}]
      PROVE  Quiet
    BY <1>1, <1>4 DEF Quiet
<1>5. ASSUME NEW s \in Ledgers, s # "saved", NEW a \in Actions, page' = Ledger(page, s, a),
             net' = net \ {r}, UNCHANGED recoveries
      PROVE  Quiet
    <2>1. PICK p \in PageRow : p = Ledger(page, s, a) /\ Sound(p)
        BY <1>0, <1>5, UnsavedSound
    <2> QED BY <1>0, <1>3, <1>4, <1>5, <2>1
<1>6. ASSUME r.answer # Nothing, NEW preserve \in BOOLEAN,
             page' = Adopted(page, r.answer, preserve), Carried(net'),
             recoveries' \in [Ids -> Definitions \cup {Nothing}]
      PROVE  Quiet
    <2>1. PICK record \in Records :
             record = r.answer /\ Durable(record.etag) /\ record.etag.definition \in Definitions
        BY <1>0, <1>1, <1>6, RequestFacts
    <2>2. PICK p \in PageRow : p = Adopted(page, record, preserve) /\ Sound(p)
        BY <1>0, <2>1, AdoptedSound
    <2> QED BY <1>4, <1>6, <2>1, <2>2
<1>7. ASSUME r.answer # Nothing,
             page' = Ledger([page EXCEPT !.offer = r.answer], "conflict", "conflict"),
             net' = net \ {r}, recoveries' \in [Ids -> Definitions \cup {Nothing}]
      PROVE  Quiet
    <2>1. PICK q \in PageRow : q = [page EXCEPT !.offer = r.answer]
        BY <1>0, <1>1, <1>7, RequestFacts, PageFacts
    <2>2. PICK p \in PageRow : p = Ledger(q, "conflict", "conflict") /\ Sound(p)
        BY UnsavedSound DEF Ledgers, Actions
    <2> QED BY <1>3, <1>4, <1>7, <2>1, <2>2, SMTT(30)
<1>8. ASSUME page' = page, net' = net \ {r},
             recoveries' \in [Ids -> Definitions \cup {Nothing}]
      PROVE  Quiet
    BY <1>0, <1>3, <1>4, <1>8
<1>9. [recoveries EXCEPT ![r.id] = Nothing] \in [Ids -> Definitions \cup {Nothing}]
    BY <1>0, <1>2
<1>10. CASE r.op = "open" /\ (Opened(r) \/ OpenFails(r))
    <2>1. CASE Opened(r)
        BY <1>3, <1>6, <1>9, <2>1 DEF Opened
    <2>2. CASE OpenFails(r)
        BY <1>5, <2>2 DEF OpenFails, Ledgers, Actions
    <2> QED BY <1>10, <2>1, <2>2
<1>11. CASE r.op = "recover" /\ (RecoverDecides(r) \/ RecoverFails(r))
    <2>1. CASE RecoverDecides(r)
        <3>1. r.answer # Nothing /\ net' = net \ {r}
            BY <2>1 DEF RecoverDecides
        <3>2. CASE Recovered(r)
            BY <1>3, <1>6, <1>8, <1>9, <2>1, <3>1, <3>2 DEF RecoverDecides
        <3>3. CASE ~Recovered(r)
            BY <1>0, <1>7, <1>8, <1>9, <2>1, <3>1, <3>3 DEF RecoverDecides
        <3> QED BY <3>2, <3>3
    <2>2. CASE RecoverFails(r)
        BY <1>0, <1>5, <1>8, <2>2 DEF RecoverFails, Ledgers, Actions
    <2> QED BY <1>11, <2>1, <2>2
<1>12. CASE /\ r.op = "conflict" /\ net' = net \ {r} /\ UNCHANGED recoveries
            /\ \/ /\ r.answer # Nothing
                  /\ page' = IF Current(r)
                             THEN Ledger([page EXCEPT !.offer = r.answer],
                                         "conflict", "conflict")
                             ELSE page
               \/ page' = Ledger(page, "conflict", "none")
    BY <1>0, <1>5, <1>7, <1>8, <1>12 DEF Ledgers, Actions
<1> QED BY <1>1, <1>10, <1>11, <1>12
-----------------------------------------------------------------------------
\* A press of the save button sends a request no revision can be of yet.
LEMMA SaveStep ==
    ASSUME IInv, Save
    PROVE  IInv'
<1>0. /\ TypeOK /\ HeadInv /\ NoSilentOverwrite /\ ByInv /\ PressInv /\ SpentInv
      /\ AnswerInv /\ Sound(page) /\ page \in PageRow /\ presses \in Nat
      /\ net \subseteq Put \cup Read /\ recoveries \in [Ids -> Definitions \cup {Nothing}]
    BY DEF IInv, TypeOK
<1>1. PICK id, new :
         /\ id \in Ids
         /\ new = [op |-> "put", id |-> id, draft |-> page.editor,
                   create |-> page.selected = Nothing, etag |-> page.etag,
                   press |-> presses + 1, here |-> TRUE, edited |-> FALSE,
                   waited |-> TRUE, answer |-> Nothing]
         /\ net' = net \cup {new}
         /\ page' = Enable(Ledger([page EXCEPT !.selected = id, !.offer = Nothing],
                                  "saving", "none"))
         /\ recoveries' = [recoveries EXCEPT ![id] = Nothing]
         /\ presses' = presses + 1 /\ UNCHANGED <<store, tools>>
    BY DEF Save
<1>2. UNCHANGED <<revisions, heads, next_catalog_seq, tools>>
    BY <1>1 DEF store
<1>3. new \in Put /\ Pending(new) /\ new.press = presses + 1
    <2>1. PICK s \in BOOLEAN : s = (page.selected = Nothing)
        OBVIOUS
    <2>2. page.editor \in Definitions /\ page.etag \in Etags \cup {Nothing}
          /\ presses + 1 \in Nat
        BY <1>0 DEF PageRow
    <2>3. new = [op |-> "put", id |-> id, draft |-> page.editor, create |-> s,
                 etag |-> page.etag, press |-> presses + 1, here |-> TRUE,
                 edited |-> FALSE, waited |-> TRUE, answer |-> Nothing]
        BY <1>1, <2>1
    <2> QED BY <1>1, <2>2, <2>3 DEF Put, Pending
<1>4. page' \in PageRow /\ Sound(page)'
    <2>1. PICK q \in PageRow : q = [page EXCEPT !.selected = id, !.offer = Nothing]
        BY <1>0, <1>1, PageFacts
    <2>2. PICK p \in PageRow : p = Enable(Ledger(q, "saving", "none")) /\ p.ledger # "saved"
        <3>1. Ledger(q, "saving", "none") \in PageRow
              /\ Ledger(q, "saving", "none").ledger = "saving"
            BY LedgerFacts DEF Ledgers, Actions
        <3> QED BY <3>1, EnableFacts
    <2> QED BY <1>1, <2>1, <2>2 DEF Sound
<1>5. TypeOK'
    <2>1. /\ revisions \in [Ids -> Seq(Revision)] /\ heads \in [Ids -> HeadRow]
          /\ next_catalog_seq \in Nat /\ tools \in 1 .. MaxTools
        BY <1>0 DEF TypeOK
    <2>2. recoveries' \in [Ids -> Definitions \cup {Nothing}]
        BY <1>0, <1>1
    <2>3. net' \subseteq Put \cup Read
        BY <1>0, <1>1, <1>3
    <2>4. presses' \in Nat
        BY <1>0, <1>1
    <2>5. page' \in PageRow
        BY <1>4
    <2> QED BY <1>2, <2>1, <2>2, <2>3, <2>4, <2>5 DEF TypeOK
<1>6. HeadInv' /\ NoSilentOverwrite'
    BY <1>0, <1>2 DEF HeadInv, Exists, NoSilentOverwrite
<1>7. \A i \in Ids : \A n \in DOMAIN revisions[i] :
         revisions[i][n].by \in Nat /\ revisions[i][n].by <= presses
    <2> SUFFICES ASSUME NEW i \in Ids, NEW n \in DOMAIN revisions[i]
                 PROVE  revisions[i][n].by \in Nat /\ revisions[i][n].by <= presses
        OBVIOUS
    <2>1. revisions[i][n] \in Revision
        BY <1>0 DEF TypeOK
    <2> QED BY <1>0, <2>1 DEF ByInv, Revision
<1>8. ByInv'
    <2>1. \A i \in Ids : \A n \in DOMAIN revisions[i] : revisions[i][n].by <= presses + 1
        BY <1>0, <1>7
    <2> QED BY <1>0, <1>1, <1>2, <2>1 DEF ByInv
<1>9. PressInv'
    <2>1. \A r \in net : Pending(r) => r.press \in 1 .. presses
        BY <1>0 DEF PressInv
    <2>2. \A r \in net : Pending(r) => r.press \in 1 .. presses' /\ r.press # new.press
        BY <1>0, <1>1, <1>3, <2>1
    <2>3. new.press \in 1 .. presses'
        BY <1>0, <1>1, <1>3
    <2>4. ASSUME NEW r \in net', Pending(r), NEW s \in net', Pending(s), s.press = r.press
          PROVE  s.id = r.id /\ s.create = r.create /\ s.etag = r.etag
        BY <1>0, <1>1, <2>2, <2>4 DEF PressInv
    <2>5. \A r \in net' : Pending(r) => r.press \in 1 .. presses'
        BY <1>1, <2>2, <2>3
    <2> QED BY <2>4, <2>5 DEF PressInv, Pending
<1>10. SpentInv'
    <2>1. \A i \in Ids : \A n \in DOMAIN revisions[i] : revisions[i][n].by # new.press
        BY <1>0, <1>3, <1>7, SMTT(30)
    <2> QED BY <1>0, <1>1, <1>2, <2>1 DEF SpentInv, Pending
<1>11. AnswerInv'
    <2>1. new.answer = Nothing
        BY <1>3 DEF Pending
    <2> QED BY <1>0, <1>1, <1>2, <2>1 DEF AnswerInv, Told, Durable
<1> QED BY <1>4, <1>5, <1>6, <1>8, <1>9, <1>10, <1>11 DEF IInv
-----------------------------------------------------------------------------
\* The catalog grows.

\* A sequence that gets one more revision.
LEMMA Appended ==
    ASSUME NEW s \in Seq(Revision), NEW v \in Revision
    PROVE  /\ Append(s, v) \in Seq(Revision) /\ Len(s) \in Nat
           /\ Len(Append(s, v)) = Len(s) + 1
           /\ DOMAIN s = 1 .. Len(s) /\ DOMAIN Append(s, v) = 1 .. Len(s) + 1
           /\ Append(s, v)[Len(s) + 1] = v
           /\ \A i \in DOMAIN s : i \in DOMAIN Append(s, v) /\ Append(s, v)[i] = s[i]
OBVIOUS

\* A workflow gets the revision v, which says what it replaces.
Grows(id, v) ==
    /\ v \in Revision
    /\ revisions' = [revisions EXCEPT ![id] = Append(@, v)]
    /\ heads' \in [Ids -> HeadRow]
    /\ heads'[id].revision = Len(revisions[id]) + 1 /\ heads'[id].definition = v.definition
    /\ \A jd \in Ids \ {id} : heads'[jd] = heads[jd]
    /\ next_catalog_seq' \in Nat
    /\ v.parent = Len(revisions[id])
    /\ Len(revisions[id]) > 0 =>
          /\ v.base \in Etags /\ v.base.id = id /\ v.base.revision = Len(revisions[id])
          /\ v.base.definition = revisions[id][Len(revisions[id])].definition

\* The contract of what fits.
LEMMA ContractFacts ==
    ASSUME TypeOK, NEW d \in Definitions
    PROVE  Contract[<<d, tools>>] \in Nat \cup {Nothing}
<1>1. PICK t \in 1 .. MaxTools : t = tools
    BY DEF TypeOK
<1>2. Contract \in [Definitions \X (1 .. MaxTools) -> Nat \cup {Nothing}]
    BY CatalogAssumption
<1>3. <<d, t>> \in Definitions \X (1 .. MaxTools)
    OBVIOUS
<1>4. Contract[<<d, t>>] \in Nat \cup {Nothing}
    BY <1>2, <1>3
<1> QED BY <1>1, <1>4

\* A creation is the first revision of a chain.
LEMMA CreateGrows ==
    ASSUME TypeOK, HeadInv, NEW id \in Ids, NEW d \in Definitions, NEW by \in Nat,
           Create(id, d, by)
    PROVE  Grows(id, Snapshot(id, d, by, Nothing))
<1>1. PICK v : v = Snapshot(id, d, by, Nothing)
    OBVIOUS
<1>2. /\ ~Exists(id) /\ revisions' = [revisions EXCEPT ![id] = <<v>>]
      /\ heads' = [heads EXCEPT ![id] = [seq |-> next_catalog_seq, revision |-> 1,
                                         definition |-> d]]
      /\ next_catalog_seq' = next_catalog_seq + 1
    BY <1>1 DEF Create
<1>3. heads[id] = NoHead /\ heads[id].revision = 0 /\ heads[id].revision = Len(revisions[id])
    BY <1>2 DEF Exists, HeadInv, NoHead
<1>4. revisions \in [Ids -> Seq(Revision)] /\ heads \in [Ids -> HeadRow]
      /\ next_catalog_seq \in Nat
    BY DEF TypeOK
<1>5. Len(revisions[id]) = 0 /\ revisions[id] = <<>>
    BY <1>3, <1>4
<1>6. <<v>> = Append(revisions[id], v)
    BY <1>5
<1>7. v \in Revision /\ v.parent = 0 /\ v.definition = d
    <2>1. PICK c \in Nat \cup {Nothing} : c = Contract[<<d, tools>>]
        BY ContractFacts
    <2>2. v = [parent |-> 0, definition |-> d, contract |-> c, by |-> by, base |-> Nothing]
        BY <1>1, <1>3, <2>1 DEF Snapshot
    <2> QED BY <2>2 DEF Revision
<1>8. revisions' = [revisions EXCEPT ![id] = Append(@, v)]
    BY <1>2, <1>4, <1>6
<1>9. [seq |-> next_catalog_seq, revision |-> 1, definition |-> d] \in HeadRow
    BY <1>4 DEF HeadRow
<1>10. /\ heads' \in [Ids -> HeadRow]
       /\ heads'[id].revision = 1 /\ heads'[id].definition = d
       /\ \A jd \in Ids \ {id} : heads'[jd] = heads[jd]
    BY <1>2, <1>4, <1>9
<1>11. Grows(id, v)
    BY <1>2, <1>4, <1>5, <1>7, <1>8, <1>10 DEF Grows
<1> QED BY <1>1, <1>11

\* An append is the next revision of a chain.
LEMMA AppendGrows ==
    ASSUME TypeOK, HeadInv, NEW id \in Ids, NEW d \in Definitions, NEW by \in Nat,
           NEW base \in Etags, base.id = id, IsHead(id, base), Append1(id, d, by, base)
    PROVE  Grows(id, Snapshot(id, d, by, base))
<1>1. PICK v : v = Snapshot(id, d, by, base)
    OBVIOUS
<1>2. /\ revisions' = [revisions EXCEPT ![id] = Append(@, v)]
      /\ heads' = [heads EXCEPT ![id].revision = @ + 1, ![id].definition = d]
      /\ UNCHANGED next_catalog_seq
    BY <1>1 DEF Append1
<1>3. revisions \in [Ids -> Seq(Revision)] /\ heads \in [Ids -> HeadRow]
      /\ next_catalog_seq \in Nat
    BY DEF TypeOK
<1>4. heads[id].revision = Len(revisions[id]) /\ heads[id].revision \in Nat
      /\ base.revision = Len(revisions[id]) /\ base.definition = heads[id].definition
    BY <1>3 DEF HeadInv, IsHead, HeadRow
<1>5. v \in Revision /\ v.parent = Len(revisions[id]) /\ v.definition = d /\ v.base = base
    <2>1. PICK c \in Nat \cup {Nothing} : c = Contract[<<d, tools>>]
        BY ContractFacts
    <2>2. PICK n \in Nat : n = heads[id].revision
        BY <1>4
    <2>3. v = [parent |-> n, definition |-> d, contract |-> c, by |-> by, base |-> base]
        BY <1>1, <2>1, <2>2 DEF Snapshot
    <2> QED BY <1>4, <2>2, <2>3 DEF Revision
<1>6. /\ heads' \in [Ids -> HeadRow]
      /\ heads'[id].revision = Len(revisions[id]) + 1 /\ heads'[id].definition = d
      /\ \A jd \in Ids \ {id} : heads'[jd] = heads[jd]
    <2>1. PICK n \in Nat : n = heads[id].revision + 1
        BY <1>4
    <2>2. PICK h : h = [heads[id] EXCEPT !.revision = n, !.definition = d]
        OBVIOUS
    <2>3. h \in HeadRow /\ h.revision = n /\ h.definition = d
        BY <1>3, <2>1, <2>2 DEF HeadRow
    <2>4. heads' = [heads EXCEPT ![id] = h]
        <3>1. heads' = [heads EXCEPT ![id].revision = n, ![id].definition = d]
            BY <1>2, <2>1
        <3> QED BY <1>3, <2>2, <3>1
    <2> QED BY <1>3, <1>4, <2>1, <2>3, <2>4
<1>7. Len(revisions[id]) > 0 =>
         base.definition = revisions[id][Len(revisions[id])].definition
    BY <1>4 DEF HeadInv
<1>8. Grows(id, v)
    BY <1>2, <1>3, <1>4, <1>5, <1>6, <1>7 DEF Grows
<1> QED BY <1>1, <1>8

\* What growing leaves and what it adds.
LEMMA GrownRevisions ==
    ASSUME TypeOK, NEW id \in Ids, NEW v, Grows(id, v)
    PROVE  /\ revisions' \in [Ids -> Seq(Revision)]
           /\ \A jd \in Ids : \A n \in DOMAIN revisions[jd] :
                 n \in DOMAIN revisions'[jd] /\ revisions'[jd][n] = revisions[jd][n]
           /\ \A jd \in Ids : \A n \in DOMAIN revisions'[jd] :
                 \/ n \in DOMAIN revisions[jd] /\ revisions'[jd][n] = revisions[jd][n]
                 \/ jd = id /\ n = Len(revisions[id]) + 1 /\ revisions'[jd][n] = v
           /\ Len(revisions'[id]) = Len(revisions[id]) + 1
           /\ Len(revisions[id]) + 1 \in DOMAIN revisions'[id]
           /\ revisions'[id][Len(revisions[id]) + 1] = v
           /\ \A jd \in Ids \ {id} : revisions'[jd] = revisions[jd]
<1>1. revisions \in [Ids -> Seq(Revision)] /\ v \in Revision
      /\ revisions' = [revisions EXCEPT ![id] = Append(@, v)]
    BY DEF TypeOK, Grows
<1>2. PICK s \in Seq(Revision) : s = revisions[id]
    BY <1>1
<1>3. /\ Append(s, v) \in Seq(Revision) /\ Len(s) \in Nat
      /\ Len(Append(s, v)) = Len(s) + 1
      /\ DOMAIN s = 1 .. Len(s) /\ DOMAIN Append(s, v) = 1 .. Len(s) + 1
      /\ Append(s, v)[Len(s) + 1] = v
      /\ \A i \in DOMAIN s : i \in DOMAIN Append(s, v) /\ Append(s, v)[i] = s[i]
    BY <1>1, Appended
<1>4. revisions'[id] = Append(s, v) /\ \A jd \in Ids \ {id} : revisions'[jd] = revisions[jd]
    BY <1>1, <1>2
<1>5. revisions' \in [Ids -> Seq(Revision)]
    BY <1>1, <1>2, <1>3
<1>6. \A n \in DOMAIN Append(s, v) : n \in DOMAIN s \/ n = Len(s) + 1
    BY <1>3
<1>7. Len(s) + 1 \in DOMAIN Append(s, v)
    BY <1>3
<1> QED BY <1>2, <1>3, <1>4, <1>5, <1>6, <1>7

\* A workflow that grows keeps head, bases and what was durable.
LEMMA GrowsKeeps ==
    ASSUME TypeOK, HeadInv, NoSilentOverwrite, NEW id \in Ids, NEW v, Grows(id, v)
    PROVE  HeadInv' /\ NoSilentOverwrite' /\ \A x : Durable(x) => Durable(x)'
<1>1. /\ revisions' \in [Ids -> Seq(Revision)]
      /\ \A jd \in Ids : \A n \in DOMAIN revisions[jd] :
            n \in DOMAIN revisions'[jd] /\ revisions'[jd][n] = revisions[jd][n]
      /\ \A jd \in Ids : \A n \in DOMAIN revisions'[jd] :
            \/ n \in DOMAIN revisions[jd] /\ revisions'[jd][n] = revisions[jd][n]
            \/ jd = id /\ n = Len(revisions[id]) + 1 /\ revisions'[jd][n] = v
      /\ Len(revisions'[id]) = Len(revisions[id]) + 1
      /\ revisions'[id][Len(revisions[id]) + 1] = v
      /\ \A jd \in Ids \ {id} : revisions'[jd] = revisions[jd]
    BY GrownRevisions
<1>2. \A jd \in Ids : Len(revisions[jd]) \in Nat /\ DOMAIN revisions[jd] = 1 .. Len(revisions[jd])
                      /\ DOMAIN revisions'[jd] = 1 .. Len(revisions'[jd])
                      /\ Len(revisions'[jd]) \in Nat
    BY <1>1 DEF TypeOK
<1>3. HeadInv'
    <2> SUFFICES ASSUME NEW jd \in Ids
                 PROVE  /\ heads'[jd].revision = Len(revisions'[jd])
                        /\ Len(revisions'[jd]) = 0 => heads'[jd] = NoHead
                        /\ Len(revisions'[jd]) > 0 =>
                              heads'[jd].definition = revisions'[jd][Len(revisions'[jd])].definition
        BY DEF HeadInv, Exists
    <2>1. CASE jd = id
        BY <1>1, <1>2, <2>1 DEF Grows
    <2>2. CASE jd # id
        BY <1>1, <2>2 DEF Grows, HeadInv, Exists
    <2> QED BY <2>1, <2>2
<1>4. NoSilentOverwrite'
    <2> SUFFICES ASSUME NEW jd \in Ids, NEW n \in 2 .. Len(revisions'[jd])
                 PROVE  /\ revisions'[jd][n].base.id = jd
                        /\ revisions'[jd][n].base.revision = n - 1
                        /\ revisions'[jd][n].base.definition = revisions'[jd][n - 1].definition
                        /\ revisions'[jd][n].parent = n - 1
        BY DEF NoSilentOverwrite
    <2>1. n \in DOMAIN revisions'[jd] /\ n - 1 \in DOMAIN revisions'[jd] /\ n \in Nat
        BY <1>2
    <2>2. CASE n \in DOMAIN revisions[jd] /\ revisions'[jd][n] = revisions[jd][n]
        <3>1. n \in 2 .. Len(revisions[jd]) /\ n - 1 \in DOMAIN revisions[jd]
            BY <1>2, <2>1, <2>2
        <3>2. revisions'[jd][n - 1] = revisions[jd][n - 1]
            BY <1>1, <3>1
        <3> QED BY <2>2, <3>1, <3>2 DEF NoSilentOverwrite
    <2>3. CASE jd = id /\ n = Len(revisions[id]) + 1 /\ revisions'[jd][n] = v
        <3>1. Len(revisions[id]) > 0 /\ n - 1 = Len(revisions[id])
              /\ Len(revisions[id]) \in DOMAIN revisions[id]
            BY <1>2, <2>3
        <3>2. revisions'[id][n - 1] = revisions[id][n - 1]
            BY <1>1, <3>1
        <3> QED BY <2>3, <3>1, <3>2 DEF Grows
    <2> QED BY <1>1, <2>1, <2>2, <2>3
<1>5. ASSUME NEW x, Durable(x) PROVE Durable(x)'
    <2>1. x.id \in Ids
        BY <1>5 DEF Durable, Etags
    <2> QED BY <1>1, <1>5, <2>1 DEF Durable
<1> QED BY <1>3, <1>4, <1>5

\* The presses of a workflow that grows by a press that had no revision yet,
\* or by another client.
LEMMA GrowsByOne ==
    ASSUME TypeOK, ByInv, NEW id \in Ids, NEW v, Grows(id, v), v.by <= presses,
           UNCHANGED presses,
           v.by = 0 \/ \A jd \in Ids : \A n \in DOMAIN revisions[jd] : revisions[jd][n].by # v.by
    PROVE  ByInv'
<1>1. \A jd \in Ids : \A n \in DOMAIN revisions'[jd] :
            \/ n \in DOMAIN revisions[jd] /\ revisions'[jd][n] = revisions[jd][n]
            \/ jd = id /\ n = Len(revisions[id]) + 1 /\ revisions'[jd][n] = v
    BY GrownRevisions
<1> SUFFICES ASSUME NEW i \in Ids, NEW j \in Ids,
                    NEW n \in DOMAIN revisions'[i], NEW m \in DOMAIN revisions'[j]
             PROVE  /\ revisions'[i][n].by <= presses
                    /\ revisions'[i][n].by = revisions'[j][m].by /\ revisions'[i][n].by # 0
                          => i = j /\ n = m
    BY DEF ByInv
<1>2. revisions'[i][n].by <= presses
    BY <1>1 DEF ByInv
<1>3. ASSUME revisions'[i][n].by = revisions'[j][m].by, revisions'[i][n].by # 0
      PROVE  i = j /\ n = m
    BY <1>1, <1>3 DEF ByInv
<1> QED BY <1>2, <1>3
-----------------------------------------------------------------------------
\* Requests while the catalog grows.

\* The requests after a step of the server: those of before, and answers.
Served ==
    /\ UNCHANGED <<tools, page, recoveries, presses>>
    /\ \A a \in net' : a \in net \/ (a \in Put \cup Read /\ ~Pending(a) /\ Told(a)')

\* Serving a request makes no new ones.
LEMMA PendingStays ==
    ASSUME PressInv, Served
    PROVE  PressInv' /\ \A a \in net' : Pending(a) => a \in net
<1>1. \A a \in net' : Pending(a) => a \in net
    BY DEF Served
<1>2. PressInv'
    BY <1>1 DEF PressInv, Pending, Served
<1> QED BY <1>1, <1>2

\* A catalog that rests keeps everything.
LEMMA Rests ==
    ASSUME IInv, Served, UNCHANGED store
    PROVE  IInv'
<1>0. /\ TypeOK /\ HeadInv /\ NoSilentOverwrite /\ ByInv /\ PressInv /\ SpentInv
      /\ AnswerInv /\ Sound(page)
    BY DEF IInv
<1>1. UNCHANGED <<revisions, heads, next_catalog_seq, tools, page, recoveries, presses>>
    BY DEF Served, store
<1>2. PressInv' /\ \A a \in net' : Pending(a) => a \in net
    BY <1>0, PendingStays
<1>3. TypeOK'
    BY <1>0, <1>1 DEF TypeOK, Served
<1>4. HeadInv' /\ NoSilentOverwrite' /\ ByInv' /\ Sound(page)'
    BY <1>0, <1>1 DEF HeadInv, Exists, NoSilentOverwrite, ByInv, Sound, Durable
<1>5. SpentInv'
    <2> SUFFICES ASSUME NEW a \in net', Pending(a), NEW id \in Ids,
                        NEW n \in DOMAIN revisions[id], revisions[id][n].by = a.press
                 PROVE  id = a.id /\ (~a.create => a.etag \in Etags /\ n = a.etag.revision + 1)
        BY <1>1 DEF SpentInv, Pending
    <2> QED BY <1>0, <1>2 DEF SpentInv
<1>6. AnswerInv'
    <2> SUFFICES ASSUME NEW a \in net' PROVE Told(a)'
        BY DEF AnswerInv
    <2>1. Told(a) => Told(a)'
        BY <1>1 DEF Told, Durable
    <2> QED BY <1>0, <2>1 DEF AnswerInv, Served
<1> QED BY <1>2, <1>3, <1>4, <1>5, <1>6 DEF IInv

\* A revision of another client, or of a press whose every PUT is for the head
\* that is replaced, and which has no revision yet.
Fresh(id, v) ==
    /\ v.by \in 0 .. presses
    /\ \A a \in net : Pending(a) /\ a.press = v.by =>
          /\ a.id = id
          /\ ~a.create => a.etag \in Etags /\ a.etag.revision = Len(revisions[id])
    /\ v.by = 0 \/ \A jd \in Ids : \A n \in DOMAIN revisions[jd] : revisions[jd][n].by # v.by

\* A new revision of a request not served before keeps the invariant.
LEMMA GrowsSafely ==
    ASSUME IInv, NEW id \in Ids, NEW v, Grows(id, v), Fresh(id, v), Served
    PROVE  IInv'
<1>0. /\ TypeOK /\ HeadInv /\ NoSilentOverwrite /\ ByInv /\ PressInv /\ SpentInv
      /\ AnswerInv /\ Sound(page)
    BY DEF IInv
<1>1. UNCHANGED <<tools, page, recoveries, presses>> /\ presses \in Nat
    BY <1>0 DEF Served, TypeOK
<1>2. PressInv' /\ \A a \in net' : Pending(a) => a \in net
    BY <1>0, PendingStays
<1>3. HeadInv' /\ NoSilentOverwrite' /\ \A x : Durable(x) => Durable(x)'
    BY <1>0, GrowsKeeps
<1>4. /\ revisions' \in [Ids -> Seq(Revision)]
      /\ \A jd \in Ids : \A n \in DOMAIN revisions'[jd] :
            \/ n \in DOMAIN revisions[jd] /\ revisions'[jd][n] = revisions[jd][n]
            \/ jd = id /\ n = Len(revisions[id]) + 1 /\ revisions'[jd][n] = v
    BY <1>0, GrownRevisions
<1>5. v.by <= presses
    BY <1>1 DEF Fresh
<1>6. ByInv'
    BY <1>0, <1>1, <1>5, GrowsByOne DEF Fresh
<1>7. TypeOK'
    BY <1>0, <1>1, <1>4 DEF TypeOK, Grows, Served
<1>8. SpentInv'
    <2> SUFFICES ASSUME NEW a \in net', Pending(a), NEW jd \in Ids,
                        NEW n \in DOMAIN revisions'[jd], revisions'[jd][n].by = a.press
                 PROVE  jd = a.id /\ (~a.create => a.etag \in Etags /\ n = a.etag.revision + 1)
        BY DEF SpentInv, Pending
    <2>1. a \in net
        BY <1>2
    <2>2. CASE n \in DOMAIN revisions[jd] /\ revisions'[jd][n] = revisions[jd][n]
        BY <1>0, <2>1, <2>2 DEF SpentInv
    <2>3. CASE jd = id /\ n = Len(revisions[id]) + 1 /\ revisions'[jd][n] = v
        BY <2>1, <2>3 DEF Fresh
    <2> QED BY <1>4, <2>2, <2>3
<1>9. AnswerInv'
    <2> SUFFICES ASSUME NEW a \in net' PROVE Told(a)'
        BY DEF AnswerInv
    <2>1. Told(a) => Told(a)'
        BY <1>3 DEF Told
    <2> QED BY <1>0, <2>1 DEF AnswerInv, Served
<1>10. Sound(page)'
    <2>1. page' = page
        BY <1>1
    <2> QED BY <1>0, <1>3, <2>1 DEF Sound
<1> QED BY <1>2, <1>3, <1>6, <1>7, <1>8, <1>9, <1>10 DEF IInv

\* The new head is durable.
LEMMA NewHeadIsDurable ==
    ASSUME TypeOK, HeadInv, NEW id \in Ids, NEW v, Grows(id, v)
    PROVE  /\ Etag(id)' \in Etags /\ Etag(id)'.id = id /\ heads'[id] # NoHead
           /\ \A x : x = Etag(id)' => Durable(x)'
<1>1. /\ Len(revisions[id]) + 1 \in DOMAIN revisions'[id]
      /\ revisions'[id][Len(revisions[id]) + 1] = v
    BY GrownRevisions
<1>2. heads' \in [Ids -> HeadRow] /\ heads'[id].revision = Len(revisions[id]) + 1
      /\ heads'[id].definition = v.definition
    BY DEF Grows
<1>3. PICK h \in HeadRow : h = heads'[id]
    BY <1>2
<1>4. PICK x : x = Etag(id)'
    OBVIOUS
<1>5. x = [id |-> id, revision |-> h.revision, definition |-> h.definition]
    BY <1>3, <1>4 DEF Etag
<1>6. x \in Etags /\ x.id = id /\ x.revision = Len(revisions[id]) + 1
      /\ x.definition = v.definition
    BY <1>2, <1>3, <1>5 DEF Etags, HeadRow
<1>7. Durable(x)'
    BY <1>1, <1>6 DEF Durable
<1>8. Len(revisions[id]) \in Nat
    BY DEF TypeOK
<1>9. heads'[id] # NoHead
    BY <1>2, <1>8 DEF NoHead
<1> QED BY <1>4, <1>6, <1>7, <1>9
-----------------------------------------------------------------------------
\* The server.

\* An accepted PUT is told of a head that is durable by then.
LEMMA RepliedTold ==
    ASSUME TypeOK, NEW r \in net, Pending(r),
           Verdict(r) = "accepted" =>
              /\ Etag(r.id)' \in Etags /\ Etag(r.id)'.id = r.id
              /\ \A x : x = Etag(r.id)' => Durable(x)',
           NEW w, w = WithReply(r)
    PROVE  w \in Put \cup Read /\ ~Pending(w) /\ Told(w)'
<1>1. r \in Put
    BY FlagFacts DEF TypeOK, Pending
<1>2. Verdict(r) \in {"invalid", "rejected", "mismatch", "missing", "accepted"}
    BY DEF Verdict
<1>3. PICK x : x = Etag(r.id)'
    OBVIOUS
<1>4. PICK a \in Replies :
         /\ a = Reply(r)
         /\ a.status = "accepted" =>
               a.record \in Records /\ a.record.etag.id = r.id /\ Durable(a.record.etag)'
    <2>1. CASE Verdict(r) = "accepted"
        <3>1. x \in Etags /\ x.id = r.id /\ Durable(x)'
            BY <1>3, <2>1
        <3>2. PICK c : c = [etag |-> x, compatible |-> TRUE]
            OBVIOUS
        <3>3. c \in Records /\ c.etag = x
            BY <3>1, <3>2 DEF Records
        <3>4. Reply(r) = [status |-> "accepted", record |-> c]
            BY <1>3, <2>1, <3>2 DEF Reply
        <3>5. PICK a : a = [status |-> "accepted", record |-> c]
            OBVIOUS
        <3>6. a \in Replies /\ a.record = c
            BY <3>3, <3>5 DEF Replies
        <3> QED BY <3>1, <3>3, <3>4, <3>5, <3>6
    <2>2. CASE Verdict(r) # "accepted"
        <3>1. PICK s \in {"invalid", "rejected", "mismatch", "missing"} : s = Verdict(r)
            BY <1>2, <2>2
        <3>2. Reply(r) = [status |-> s, record |-> Nothing]
            BY <2>2, <3>1 DEF Reply
        <3> QED BY <3>2 DEF Replies
    <2> QED BY <2>1, <2>2
<1>5. PICK e \in BOOLEAN : e = (r.edited \/ ~r.here)
    OBVIOUS
<1>6. w = [r EXCEPT !.answer = a, !.etag = Nothing, !.press = 0, !.edited = e]
    BY <1>4, <1>5 DEF WithReply
<1>7. w \in Put /\ w.op = "put" /\ w.id = r.id /\ w.answer = a
    <2>1. PICK z \in Nat : z = 0
        OBVIOUS
    <2>2. PICK y \in Put : y = [r EXCEPT !.answer = a, !.edited = e]
        BY <1>1 DEF Put
    <2>3. w = [y EXCEPT !.etag = Nothing, !.press = z]
        BY <1>6, <2>1, <2>2
    <2>4. w \in Put
        BY <2>2, <2>3 DEF Put
    <2>5. w.op = r.op /\ w.id = r.id /\ w.answer = a
        BY <1>1, <1>6 DEF Put
    <2> QED BY <1>1, <2>4, <2>5, FlagFacts
<1>8. a # Nothing
    BY CatalogAssumption
<1>9. Told(w)'
    BY <1>4, <1>7 DEF Told
<1> QED BY <1>7, <1>8, <1>9 DEF Pending

\* Requests nobody waits for are dropped, never added.
LEMMA LiveIsLess == \A N, table : Live(N, table) \subseteq N
BY DEF Live

\* A PUT is carried out.
LEMMA ServePutKeeps ==
    ASSUME IInv, ServePut
    PROVE  IInv'
<1>0. TypeOK /\ HeadInv /\ ByInv /\ PressInv /\ SpentInv
    BY DEF IInv
<1>1. PICK r \in net :
         /\ r.op = "put" /\ r.answer = Nothing /\ Apply(r)
         /\ \/ net' = Live((net \ {r}) \cup {WithReply(r)}, heads')
            \/ net' = Live(net, heads')
         /\ UNCHANGED <<tools, page, recoveries, presses>>
    BY DEF ServePut
<1>2. Pending(r) /\ r \in Put /\ r.id \in Ids /\ r.draft \in Definitions
      /\ r.create \in BOOLEAN /\ r.etag \in Etags \cup {Nothing} /\ r.press \in Nat
    <2>1. Pending(r)
        BY <1>1 DEF Pending
    <2>2. r \in Put
        BY <1>0, <1>1, FlagFacts DEF TypeOK
    <2> QED BY <2>1, <2>2 DEF Put
<1>3. PICK w : w = WithReply(r)
    OBVIOUS
<1>4. \A a \in net' : a \in net \/ a = w
    BY <1>1, <1>3, LiveIsLess
<1>5. ASSUME Verdict(r) = "accepted" =>
                /\ Etag(r.id)' \in Etags /\ Etag(r.id)'.id = r.id
                /\ \A x : x = Etag(r.id)' => Durable(x)'
      PROVE  Served
    <2>1. w \in Put \cup Read /\ ~Pending(w) /\ Told(w)'
        BY <1>0, <1>2, <1>3, <1>5, RepliedTold
    <2> QED BY <1>1, <1>4, <2>1 DEF Served
<1>6. r.press \in 1 .. presses
    BY <1>0, <1>2 DEF PressInv
<1>7. CASE UNCHANGED store /\ (Verdict(r) = "accepted" => Exists(r.id))
    <2>1. UNCHANGED <<revisions, heads>>
        BY <1>7 DEF store
    <2>2. Etag(r.id)' = Etag(r.id)
        BY <2>1 DEF Etag
    <2>3. ASSUME Verdict(r) = "accepted"
          PROVE  /\ Etag(r.id)' \in Etags /\ Etag(r.id)'.id = r.id
                 /\ \A x : x = Etag(r.id)' => Durable(x)'
        <3>1. PICK x : x = Etag(r.id)
            OBVIOUS
        <3>2. Durable(x) /\ x.id = r.id
            BY <1>0, <1>2, <1>7, <2>3, <3>1, HeadIsDurable
        <3>3. x \in Etags /\ Durable(x)'
            BY <2>1, <3>2 DEF Durable
        <3> QED BY <2>2, <3>1, <3>2, <3>3
    <2> QED BY <1>5, <1>7, <2>3, Rests
<1>8. CASE Verdict(r) = "accepted" /\ r.create /\ Create(r.id, r.draft, r.press)
    <2>1. PICK v : v = Snapshot(r.id, r.draft, r.press, Nothing)
        OBVIOUS
    <2>2. Grows(r.id, v)
        BY <1>0, <1>2, <1>8, <2>1, CreateGrows
    <2>3. v.by = r.press
        BY <2>1 DEF Snapshot
    <2>4. Len(revisions[r.id]) = 0
        <3>1. heads[r.id] = NoHead
            BY <1>8 DEF Create, Exists
        <3> QED BY <1>0, <1>2, <3>1 DEF HeadInv, NoHead
    <2>5. \A jd \in Ids : \A n \in DOMAIN revisions[jd] : revisions[jd][n].by # v.by
        <3>1. DOMAIN revisions[r.id] = {}
            <4>1. revisions[r.id] \in Seq(Revision)
                BY <1>0, <1>2 DEF TypeOK
            <4> QED BY <2>4, <4>1
        <3>2. ASSUME NEW jd \in Ids, NEW n \in DOMAIN revisions[jd], revisions[jd][n].by = v.by
              PROVE  FALSE
            <4>1. jd = r.id
                BY <1>0, <1>2, <2>3, <3>2 DEF SpentInv
            <4> QED BY <3>1, <3>2, <4>1
        <3> QED BY <3>2
    <2>6. Fresh(r.id, v)
        <3>1. \A a \in net : Pending(a) /\ a.press = v.by => a.id = r.id /\ a.create = r.create
            BY <1>0, <1>2, <2>3 DEF PressInv
        <3>2. v.by \in 0 .. presses
            BY <1>6, <2>3
        <3> QED BY <1>8, <2>5, <3>1, <3>2 DEF Fresh
    <2>7. Served
        BY <1>0, <1>2, <1>5, <2>2, NewHeadIsDurable
    <2> QED BY <1>2, <2>2, <2>6, <2>7, GrowsSafely
<1>9. CASE /\ Verdict(r) = "accepted" /\ ~r.create
           /\ Append1(r.id, r.draft, r.press, r.etag)
    <2>1. r.etag \in Etags /\ r.etag.id = r.id /\ IsHead(r.id, r.etag)
        BY <1>2, <1>9 DEF Verdict, NamesPath
    <2>2. PICK v : v = Snapshot(r.id, r.draft, r.press, r.etag)
        OBVIOUS
    <2>3. Grows(r.id, v)
        BY <1>0, <1>2, <1>9, <2>1, <2>2, AppendGrows
    <2>4. v.by = r.press
        BY <2>2 DEF Snapshot
    <2>5. r.etag.revision = Len(revisions[r.id])
        BY <1>0, <1>2, <2>1 DEF IsHead, HeadInv
    <2>6. \A jd \in Ids : \A n \in DOMAIN revisions[jd] : revisions[jd][n].by # v.by
        <3> SUFFICES ASSUME NEW jd \in Ids, NEW n \in DOMAIN revisions[jd],
                            revisions[jd][n].by = v.by
                     PROVE  FALSE
            OBVIOUS
        <3>1. jd = r.id /\ n = r.etag.revision + 1
            BY <1>0, <1>2, <1>9, <2>4 DEF SpentInv
        <3>2. revisions[r.id] \in Seq(Revision)
            BY <1>0, <1>2 DEF TypeOK
        <3>3. n \in 1 .. Len(revisions[r.id]) /\ Len(revisions[r.id]) \in Nat
            BY <3>1, <3>2
        <3> QED BY <2>5, <3>1, <3>3
    <2>7. Fresh(r.id, v)
        <3>1. \A a \in net : Pending(a) /\ a.press = v.by => a.id = r.id /\ a.etag = r.etag
            BY <1>0, <1>2, <2>4 DEF PressInv
        <3>2. v.by \in 0 .. presses
            BY <1>6, <2>4
        <3> QED BY <2>1, <2>5, <2>6, <3>1, <3>2 DEF Fresh
    <2>8. Served
        BY <1>0, <1>2, <1>5, <2>3, NewHeadIsDurable
    <2> QED BY <1>2, <2>3, <2>7, <2>8, GrowsSafely
<1>10. CASE Verdict(r) = "accepted" /\ ~r.create /\ UNCHANGED store
    <2>1. Exists(r.id)
        BY <1>10 DEF Verdict
    <2> QED BY <1>7, <1>10, <2>1
<1>11. CASE Verdict(r) # "accepted"
    BY <1>1, <1>7, <1>11 DEF Apply
<1> QED BY <1>1, <1>8, <1>9, <1>10, <1>11 DEF Apply

\* A head is read.
LEMMA ServeGetKeeps ==
    ASSUME IInv, ServeGet
    PROVE  IInv'
<1>0. TypeOK /\ HeadInv
    BY DEF IInv
<1>1. PICK r \in net :
         /\ r.op # "put" /\ Exists(r.id)
         /\ net' = (net \ {r}) \cup {[r EXCEPT !.answer = Record(r.id)]}
         /\ UNCHANGED <<store, tools, page, recoveries, presses>>
    BY DEF ServeGet, Reads, Requests
<1>2. r \in Read /\ r.id \in Ids
    <2>1. r \in Read
        BY <1>0, <1>1, FlagFacts DEF TypeOK
    <2> QED BY <2>1, SMTT(30) DEF Read
<1>3. PICK c \in Records : c = Record(r.id) /\ c.etag.id = r.id /\ Durable(c.etag)
    BY <1>0, <1>1, <1>2, HeadIsDurable DEF Record
<1>4. PICK w : w = [r EXCEPT !.answer = c]
    OBVIOUS
<1>5. w \in Read /\ w.op # "put" /\ w.answer = c /\ w.id = r.id
    BY <1>1, <1>2, <1>4 DEF Read
<1>6. Told(w)'
    <2>1. Durable(c.etag)'
        BY <1>1, <1>3 DEF Durable, store
    <2> QED BY <1>3, <1>5, <2>1 DEF Told
<1>7. \A a \in net' : a \in net \/ a = w
    BY <1>1, <1>3, <1>4
<1>8. Served
    BY <1>1, <1>5, <1>6, <1>7 DEF Served, Pending
<1> QED BY <1>1, <1>8, Rests

\* Another client writes.
LEMMA OtherKeeps ==
    ASSUME IInv, OtherClient
    PROVE  IInv'
<1>0. TypeOK /\ HeadInv /\ PressInv
    BY DEF IInv
<1>1. Served
    BY LiveIsLess DEF OtherClient, Served
<1>2. PICK id \in Ids, d \in Definitions :
         \/ Create(id, d, 0)
         \/ Exists(id) /\ Append1(id, d, 0, Etag(id))
    BY DEF OtherClient
<1>3. ASSUME NEW v, Grows(id, v), v.by = 0
      PROVE  IInv'
    <2>1. \A a \in net : Pending(a) => a.press # 0
        BY <1>0 DEF PressInv, TypeOK
    <2>2. Fresh(id, v)
        BY <1>0, <1>3, <2>1 DEF Fresh, TypeOK
    <2> QED BY <1>1, <1>3, <2>2, GrowsSafely
<1>4. CASE Create(id, d, 0)
    <2>1. PICK v : v = Snapshot(id, d, 0, Nothing)
        OBVIOUS
    <2>2. Grows(id, v)
        BY <1>0, <1>4, <2>1, CreateGrows
    <2>3. v.by = 0
        BY <2>1 DEF Snapshot
    <2> QED BY <1>3, <2>2, <2>3
<1>5. CASE Exists(id) /\ Append1(id, d, 0, Etag(id))
    <2>1. PICK x : x = Etag(id)
        OBVIOUS
    <2>2. x \in Etags /\ x.id = id
        BY <1>0, <1>5, <2>1, HeadIsDurable DEF Durable
    <2>3. IsHead(id, x)
        BY <1>5, <2>1 DEF IsHead, Etag
    <2>4. Append1(id, d, 0, x)
        BY <1>5, <2>1
    <2>5. PICK v : v = Snapshot(id, d, 0, x)
        OBVIOUS
    <2>6. Grows(id, v)
        BY <1>0, <2>2, <2>3, <2>4, <2>5, AppendGrows
    <2>7. v.by = 0
        BY <2>5 DEF Snapshot
    <2> QED BY <1>3, <2>6, <2>7
<1> QED BY <1>2, <1>4, <1>5

\* The tools are replaced.
LEMMA RedeployKeeps ==
    ASSUME IInv, Redeploy
    PROVE  IInv'
<1>1. UNCHANGED <<revisions, heads, next_catalog_seq, page, recoveries, net, presses>>
      /\ tools < MaxTools /\ tools' = tools + 1
    BY DEF Redeploy, store
<1>2. TypeOK /\ tools \in 1 .. MaxTools
    BY DEF IInv, TypeOK
<1>3. tools' \in 1 .. MaxTools
    BY <1>1, <1>2, CatalogAssumption
<1>4. TypeOK'
    BY <1>1, <1>2, <1>3 DEF TypeOK
<1>5. HeadInv' /\ NoSilentOverwrite' /\ ByInv'
    BY <1>1 DEF IInv, HeadInv, Exists, NoSilentOverwrite, ByInv
<1>6. PressInv' /\ SpentInv'
    BY <1>1 DEF IInv, PressInv, Pending, SpentInv
<1>7. AnswerInv' /\ Sound(page)'
    BY <1>1 DEF IInv, AnswerInv, Told, Sound, Durable
<1> QED BY <1>4, <1>5, <1>6, <1>7 DEF IInv
-----------------------------------------------------------------------------
\* The invariant.

\* An empty catalog and an empty page.
LEMMA InitInv ==
    ASSUME Init
    PROVE  IInv
<1>1. /\ revisions = [id \in Ids |-> <<>>] /\ heads = [id \in Ids |-> NoHead]
      /\ next_catalog_seq = 1 /\ tools = 1 /\ net = {} /\ presses = 0
      /\ recoveries = [id \in Ids |-> Nothing]
    BY DEF Init
<1>2. \A id \in Ids : revisions[id] = <<>> /\ revisions[id] \in Seq(Revision)
                      /\ Len(revisions[id]) = 0 /\ DOMAIN revisions[id] = {}
    BY <1>1
<1>3. NoHead \in HeadRow /\ NoHead.revision = 0
    BY DEF NoHead, HeadRow
<1>4. page \in PageRow /\ page.ledger = "idle"
    BY CatalogAssumption DEF Init, PageRow, Ledgers, Actions
<1>5. TypeOK
    <2>1. tools \in 1 .. MaxTools
        BY <1>1, CatalogAssumption
    <2>2. revisions \in [Ids -> Seq(Revision)]
        BY <1>1, <1>2
    <2>3. heads \in [Ids -> HeadRow]
        BY <1>1, <1>3
    <2> QED BY <1>1, <1>4, <2>1, <2>2, <2>3 DEF TypeOK
<1>6. HeadInv
    BY <1>1, <1>2, <1>3 DEF HeadInv, Exists
<1>7. NoSilentOverwrite
    BY <1>2 DEF NoSilentOverwrite
<1>8. ByInv
    BY <1>2 DEF ByInv
<1>9. PressInv /\ SpentInv /\ AnswerInv
    BY <1>1 DEF PressInv, SpentInv, AnswerInv
<1>10. Sound(page)
    BY <1>4 DEF Sound
<1> QED BY <1>5, <1>6, <1>7, <1>8, <1>9, <1>10 DEF IInv

\* Every step keeps the invariant.
LEMMA NextInv ==
    ASSUME IInv, [Next]_vars
    PROVE  IInv'
<1>1. CASE Save
    BY <1>1, SaveStep
<1>2. CASE User /\ ~Save
    BY <1>2, UserQuiet, QuietKeeps
<1>3. CASE Answers
    BY <1>3, SaveQuiet, ReadQuiet, QuietKeeps DEF Answers
<1>4. CASE Server
    BY <1>4, ServePutKeeps, ServeGetKeeps DEF Server
<1>5. CASE OtherClient
    BY <1>5, OtherKeeps
<1>6. CASE Redeploy
    BY <1>6, RedeployKeeps
<1>7. CASE UNCHANGED vars
    <2>1. Served /\ UNCHANGED store
        BY <1>7 DEF vars, Served
    <2> QED BY <2>1, Rests
<1> QED BY <1>1, <1>2, <1>3, <1>4, <1>5, <1>6, <1>7 DEF Next

\* The invariant holds of every run of the catalog and the page, whatever the
\* network loses, repeats or delays and whatever other clients write.
THEOREM Inductive == Spec => []IInv
BY InitInv, NextInv, PTL DEF Spec

\* A revision replaces the one its writer had as the base (append_revision and
\* the precondition of the PUT), for any number of clients and requests.
THEOREM NothingIsOverwrittenUnseen == Spec => []NoSilentOverwrite
<1>1. IInv => NoSilentOverwrite
    BY DEF IInv
<1> QED BY <1>1, Inductive, PTL

\* A press of the save button appends one revision at most, however often its
\* request is delivered (the conditional PUT is the only guard against it).
THEOREM OnePressOneRevision == Spec => []OneRevisionPerSave
<1>1. IInv => OneRevisionPerSave
    <2> SUFFICES ASSUME IInv, NEW v \in Revisions, NEW w \in Revisions,
                        v[2] <= Length[v[1]], w[2] <= Length[w[1]],
                        revisions[v[1]][v[2]].by = revisions[w[1]][w[2]].by,
                        revisions[v[1]][v[2]].by # 0
                 PROVE  v = w
        BY DEF OneRevisionPerSave
    <2>1. PICK i, n : i \in Ids /\ n \in 1 .. MaxSaves + MaxOthers /\ v = <<i, n>>
        BY DEF Revisions
    <2>2. PICK j, m : j \in Ids /\ m \in 1 .. MaxSaves + MaxOthers /\ w = <<j, m>>
        BY DEF Revisions
    <2>3. \A id \in Ids : /\ Len(revisions[id]) \in Nat
                          /\ DOMAIN revisions[id] = 1 .. Len(revisions[id])
                          /\ Length[id] = Len(revisions[id])
        BY DEF IInv, TypeOK, Length
    <2>4. n \in Nat /\ n >= 1 /\ m \in Nat /\ m >= 1
        BY <2>1, <2>2, CatalogAssumption
    <2>5. n <= Len(revisions[i]) /\ m <= Len(revisions[j])
          /\ revisions[i][n].by = revisions[j][m].by /\ revisions[i][n].by # 0
        BY <2>1, <2>2, <2>3
    <2>6. n \in DOMAIN revisions[i] /\ m \in DOMAIN revisions[j]
        BY <2>1, <2>2, <2>3, <2>4, <2>5
    <2>7. i = j /\ n = m
        BY <2>1, <2>2, <2>5, <2>6 DEF IInv, ByInv
    <2> QED BY <2>1, <2>2, <2>7
<1> QED BY <1>1, Inductive, PTL

\* A page whose ledger says saved names a revision the catalog has, whichever
\* answers came late (the studio's T and q decide what the ledger says).
THEOREM SavedMeansDurable == Spec => []SavedIsDurable
<1>1. IInv => SavedIsDurable
    <2> SUFFICES ASSUME IInv, page.ledger = "saved"
                 PROVE  /\ page.etag # Nothing /\ page.etag.id = page.selected
                        /\ page.etag.definition = page.saved
                        /\ page.etag.revision <= Len(revisions[page.etag.id])
                        /\ revisions[page.etag.id][page.etag.revision].definition = page.saved
        BY DEF SavedIsDurable
    <2>1. PICK x : x = page.etag
        OBVIOUS
    <2>2. x.id = page.selected /\ x.definition = page.saved /\ Durable(x)
        BY <2>1 DEF IInv, Sound
    <2>3. x \in Etags /\ x.id \in Ids /\ x.revision \in DOMAIN revisions[x.id]
        BY <2>2 DEF Durable, Etags
    <2>4. x # Nothing
        BY <2>3, CatalogAssumption
    <2>5. DOMAIN revisions[x.id] = 1 .. Len(revisions[x.id]) /\ Len(revisions[x.id]) \in Nat
        BY <2>3 DEF IInv, TypeOK
    <2>6. x.revision <= Len(revisions[x.id])
        BY <2>3, <2>5
    <2> QED BY <2>1, <2>2, <2>4, <2>6 DEF Durable
<1> QED BY <1>1, Inductive, PTL
=============================================================================
