------------------------- MODULE MemoryStore_proofs -------------------------
(***************************************************************************)
(* Safety of MemoryStore for any bindings, runs, calls and requests: the   *)
(* index is exact, a call has one effect, an accepted call has one answer, *)
(* and no change of a recall goes unnoticed.                               *)
(***************************************************************************)
EXTENDS MemoryStore, FiniteSetTheorems, TLAPS

\* Types.
Key == Bindings \X Runs \X Nat \X Request
Result ==
    [kind : {"remember"}, memory : Memories, revision : Nat, collection : Int, sequence : Int]
    \cup [kind : {"exact"}, memory : Memories, revision : Nat, collection : Int,
          already : BOOLEAN]
    \cup [kind : {"source"}, source : Calls, count : Nat, collection : Int]
    \cup [kind : {"scope"}, count : Nat, collection : Int]
ScopeRow == [revision : Int, generation : Int, sequence : Int, suppressed : BOOLEAN]
HeadRow  == [revision : Nat, sequence : Int, status : {"absent", "active", "tombstone"}]
Version  == [status : {"active", "tombstone"}, source : Calls, collection : Int,
             sequence : Int]
Thread   == [at : {"none", "ready", "claimed", "ended"},
             lease : {"none", "open", "claimed", "revoked"},
             out : {Nothing} \cup [ok : BOOLEAN, value : Result \cup {Nothing}]]

TypeOK ==
    /\ config \in Bindings
    /\ bound \in [Runs -> Bindings \cup {Nothing}]
    /\ scopes \in [Bindings -> ScopeRow]
    /\ versions \in [Memories -> Seq(Version)]
    /\ heads \in [Memories -> HeadRow]
    /\ terms \subseteq Bindings \X Int \X Memories \X Nat
    /\ observations \in [Memories \X Calls ->
            {Nothing} \cup [call : Calls, request : Request, result : Result]]
    /\ operations \in [DOMAIN operations -> [source : Calls, result : Result]]
    /\ erased \in [Memories -> Key \cup {Nothing}]
    /\ asked \in [Calls -> Request \cup {Nothing}]
    /\ threads \in [Calls -> [Attempts -> Thread]]
    /\ answers \in [Calls -> {Nothing} \cup [ok : BOOLEAN, value : Result \cup {Nothing}]]

\* The head of a memory is its last revision.
HeadInv ==
    \A m \in Memories :
        /\ heads[m].revision = Len(versions[m])
        /\ heads[m].status = "absent" <=> Len(versions[m]) = 0
        /\ Len(versions[m]) > 0 => heads[m].status = versions[m][Len(versions[m])].status

\* The terms of a binding are its own, under the generations it had.
TermInv ==
    \A t \in terms : t[3][1] = t[1] /\ t[2] <= scopes[t[1]].generation

IndexInv ==
    \A b \in Bindings :
        /\ \A t \in terms :
              t[1] = b /\ t[2] = scopes[b].generation =>
                 t[3] \in Active(b) /\ t[4] = heads[t[3]].revision
        /\ \A m \in Active(b) : Term(m, heads[m].revision) \in terms

\* What was forgotten is not active.
ForgetInv ==
    \A b \in Bindings :
        /\ scopes[b].suppressed => Active(b) = {}
        /\ \A m \in Active(b) :
               /\ erased[m] = Nothing
               /\ <<b, versions[m][heads[m].revision].source>> \notin shunned

\* A handler that may use the store does so for a run bound to the binding
\* the process runs under, with the arguments of its call.
Claimed(c) == \E n \in Attempts : threads[c][n].at = "claimed"
ThreadInv ==
    \A c \in Calls :
        /\ Claimed(c) => bound[c[1]] = config
        /\ asked[c] \in Requests[c] \cup {Nothing}
        /\ (\E n \in Attempts : threads[c][n].at # "none") => asked[c] # Nothing

\* The key under which the one operation of a call is recorded.
KeyOf(c) == <<bound[c[1]], c[1], c[2], asked[c]>>

\* Every revision was written for a run of its binding, by a call whose
\* operation is recorded, and no call wrote two of them that are not tombstones.
WrittenInv ==
    \A m \in Memories : \A i \in DOMAIN versions[m] :
        LET c == versions[m][i].source IN
        /\ bound[c[1]] = m[1]
        /\ KeyOf(c) \in DOMAIN operations
        /\ asked[c] \in Requests[c]
        /\ versions[m][i].status = "active" =>
              \A o \in Memories : \A j \in DOMAIN versions[o] :
                 versions[o][j].source = c /\ versions[o][j].status = "active" =>
                    o = m /\ j = i

\* The result of an operation stands in the binding it was recorded for.
StandsIn(b, c, key, r) ==
    \/ r.kind = "remember" /\ r.memory \in Memories /\ RememberStands(c, r)
    \/ r.kind = "exact" /\ r.memory \in Memories /\ ExactStands(key, r)
    \/ r.kind = "source" /\ <<b, r.source>> \in shunned
    \/ r.kind = "scope" /\ scopes[b].suppressed /\ scopes[b].revision = r.collection

\* What was recorded was recorded for one call, and stands.
OperationInv ==
    \A k \in DOMAIN operations : \E c \in Calls, r \in Result, b \in Bindings :
        /\ operations[k] = [source |-> c, result |-> r]
        /\ bound[c[1]] = b /\ asked[c] \in Requests[c]
        /\ k = KeyOf(c)
        /\ StandsIn(b, c, k, r)

\* An accepted call was told what is recorded.
AnswerInv ==
    \A c \in Calls :
        answers[c] # Nothing /\ answers[c].ok =>
            /\ KeyOf(c) \in DOMAIN operations
            /\ operations[KeyOf(c)].source = c
            /\ answers[c] = Ok(operations[KeyOf(c)].result)

IInv ==
    /\ TypeOK /\ HeadInv /\ TermInv /\ IndexInv /\ ForgetInv
    /\ ThreadInv /\ WrittenInv /\ OperationInv /\ AnswerInv
-----------------------------------------------------------------------------
\* The operators of the store.

\* A call names its run, and its arguments are a request.
LEMMA CallFacts ==
    ASSUME NEW c \in Calls
    PROVE  c[1] \in Runs /\ c[2] \in Nat /\ (asked[c] \in Requests[c] => asked[c] \in Request)
BY MemoryAssumption

\* A request tells its mode, and what goes with it.
LEMMA RequestFacts ==
    ASSUME NEW q \in Request
    PROVE  /\ q.mode \in {"remember", "exact", "source", "scope"}
           /\ q.mode \in {"remember", "exact"} => q.key \in Keys
           /\ q.mode = "source" => q.source \in Calls
BY DEF Request

\* The memories of one binding are finitely many.
LEMMA OfBinding ==
    ASSUME NEW b, NEW M \in SUBSET {m \in Memories : m[1] = b}
    PROVE  IsFiniteSet(M) /\ Cardinality(M) \in Nat /\ (Cardinality(M) = 0 => M = {})
<1> DEFINE f == [m \in M |-> m[2]]
<1>1. f \in [M -> Keys]
    BY DEF Memories
<1>2. \A x, y \in M : f[x] = f[y] => x = y
    BY DEF Memories
<1>3. f \in Injection(M, Keys)
    BY <1>1, <1>2 DEF Injection, IsInjective
<1>4. IsFiniteSet(M)
    BY <1>3, MemoryAssumption, FS_Injection
<1> QED BY <1>4, FS_CardinalityType, FS_EmptySet

\* A place in an order of ids is a number.
LEMMA PlaceType ==
    ASSUME NEW b, NEW M \in SUBSET {m \in Memories : m[1] = b}, NEW m
    PROVE  Place(M, m) \in Nat
<1>1. {x \in M : x[2] <= m[2]} \in SUBSET {x \in Memories : x[1] = b}
    OBVIOUS
<1> QED BY <1>1, OfBinding DEF Place

\* The row of a scope that advances.
LEMMA AdvanceType ==
    ASSUME TypeOK, NEW n \in Nat
    PROVE  /\ Scope \in ScopeRow
           /\ Advance(n) \in ScopeRow
           /\ Advance(n).revision = Scope.revision + n
           /\ Advance(n).generation = Scope.generation
           /\ Advance(n).suppressed = Scope.suppressed
<1>1. Scope \in ScopeRow
    BY DEF TypeOK, Scope
<1>2. PICK s \in ScopeRow : s = Scope
    BY <1>1
<1>3. s.revision + n \in Int /\ s.sequence + n \in Int
    BY DEF ScopeRow
<1>4. PICK x \in Int : x = s.revision + n
    BY <1>3
<1>5. PICK y \in Int : y = s.sequence + n
    BY <1>3
<1>6. PICK t : t = Advance(n)
    OBVIOUS
<1>7. t = [s EXCEPT !.revision = x, !.sequence = y]
    BY <1>2, <1>4, <1>5, <1>6 DEF Advance
<1>8. /\ t \in ScopeRow /\ t.revision = x
      /\ t.generation = s.generation /\ t.suppressed = s.suppressed
    BY <1>7 DEF ScopeRow
<1> QED BY <1>2, <1>4, <1>6, <1>8

\* The row of a scope that is forgotten.
LEMMA SuppressType ==
    ASSUME TypeOK, NEW n \in Nat
    PROVE  LET t == [Advance(n) EXCEPT !.suppressed = TRUE]
           IN  /\ t \in ScopeRow /\ t.revision = Scope.revision + n
               /\ t.generation = Scope.generation /\ t.suppressed
<1>1. ASSUME NEW s \in ScopeRow
      PROVE  LET t == [s EXCEPT !.suppressed = TRUE]
             IN  /\ t \in ScopeRow /\ t.revision = s.revision
                 /\ t.generation = s.generation /\ t.suppressed
    BY <1>1 DEF ScopeRow
<1> QED BY <1>1, AdvanceType

\* The scope after one revision.
LEMMA ScopeRemembers ==
    ASSUME TypeOK,
           scopes' = [scopes EXCEPT ![config].revision = @ + 1, ![config].sequence = @ + 1]
    PROVE  /\ scopes' \in [Bindings -> ScopeRow]
           /\ scopes'[config].revision = scopes[config].revision + 1
           /\ scopes'[config].generation = scopes[config].generation
           /\ scopes'[config].suppressed = scopes[config].suppressed
           /\ \A b \in Bindings \ {config} : scopes'[b] = scopes[b]
<1>1. scopes \in [Bindings -> ScopeRow] /\ config \in Bindings
    BY DEF TypeOK
<1> QED BY <1>1 DEF ScopeRow

\* The scope after a rebuild.
LEMMA ScopeRebuilds ==
    ASSUME TypeOK, NEW b \in Bindings, NEW g \in Int,
           scopes' = [scopes EXCEPT ![b].generation = g, ![b].revision = @ + 1]
    PROVE  /\ scopes' \in [Bindings -> ScopeRow]
           /\ scopes'[b].revision = scopes[b].revision + 1
           /\ scopes'[b].generation = g
           /\ scopes'[b].suppressed = scopes[b].suppressed
           /\ \A d \in Bindings \ {b} : scopes'[d] = scopes[d]
<1>1. scopes \in [Bindings -> ScopeRow]
    BY DEF TypeOK
<1> QED BY <1>1 DEF ScopeRow

\* The generation of a rebuild is one above all there are.
LEMMA FreshIsNext ==
    ASSUME TypeOK, TermInv, NEW b \in Bindings
    PROVE  Fresh(b) = scopes[b].generation + 1 /\ Fresh(b) \in Int
<1>1. scopes[b].generation \in Int
    BY DEF TypeOK, ScopeRow
<1>2. \A g \in Generations(b) : g \in Int /\ g <= scopes[b].generation
    BY <1>1 DEF TypeOK, TermInv, Generations
<1>3. scopes[b].generation \in Generations(b)
    BY DEF Generations
<1>4. (CHOOSE g \in Generations(b) : \A h \in Generations(b) : h <= g) = scopes[b].generation
    <2>1. \A g \in Generations(b) :
             (\A h \in Generations(b) : h <= g) => g = scopes[b].generation
        BY <1>1, <1>2, <1>3
    <2>2. \A h \in Generations(b) : h <= scopes[b].generation
        BY <1>2
    <2> QED BY <1>3, <2>1, <2>2
<1> DEFINE top == CHOOSE g \in Generations(b) : \A h \in Generations(b) : h <= g
<1>5. Fresh(b) = 1 + top
    BY DEF Fresh
<1>6. top = scopes[b].generation
    BY <1>4
<1> HIDE DEF top
<1> QED BY <1>1, <1>5, <1>6
-----------------------------------------------------------------------------
\* What the operations do to the tables.

\* The source of the current revision of a memory.
Source(m) == versions[m][heads[m].revision].source

\* A call erases the memories of M in the binding of the process.
Erases(c, M) ==
    /\ M \subseteq Active(config) /\ Tombstone(M, c)
    /\ scopes' \in [Bindings -> ScopeRow]
    /\ scopes'[config].revision = scopes[config].revision + Cardinality(M)
    /\ scopes'[config].generation = scopes[config].generation
    /\ scopes'[config].suppressed => scopes[config].suppressed \/ M = Active(config)
    /\ scopes[config].suppressed => scopes'[config].suppressed
    /\ \A b \in Bindings \ {config} : scopes'[b] = scopes[b]
    /\ erased' \in [Memories -> Key \cup {Nothing}]
    /\ \A m \in Memories : erased[m] # Nothing \/ m \notin M => erased'[m] = erased[m]
    /\ shunned \subseteq shunned'
    /\ \A b \in Bindings : \A m \in Active(b) \ M :
          <<b, Source(m)>> \in shunned' => <<b, Source(m)>> \in shunned

\* The key of a call that may use the store.
LEMMA KeyFacts ==
    ASSUME TypeOK, NEW c \in Calls, bound[c[1]] = config, asked[c] \in Requests[c]
    PROVE  OperationKey(c) = KeyOf(c) /\ KeyOf(c) \in Key /\ KeyOf(c) # Nothing
<1>1. OperationKey(c) = KeyOf(c)
    BY DEF OperationKey, KeyOf
<1>2. config \in Bindings /\ c[1] \in Runs /\ c[2] \in Nat /\ asked[c] \in Request
    BY CallFacts DEF TypeOK
<1>3. OperationKey(c) \in Key
    BY <1>2 DEF OperationKey, Key
<1>4. Nothing \notin Key
    BY MemoryAssumption DEF Key
<1> QED BY <1>1, <1>3, <1>4

\* A memory an operation names.
LEMMA ItemFacts ==
    ASSUME TypeOK, NEW c \in Calls, asked[c] \in Requests[c],
           asked[c].mode \in {"remember", "exact"}
    PROVE  Item(c) \in Memories /\ Item(c)[1] = config
<1>1. asked[c].key \in Keys /\ config \in Bindings
    BY CallFacts, RequestFacts DEF TypeOK
<1> QED BY <1>1 DEF Item, Memories

\* To forget one memory, one source or the scope is to erase.
LEMMA Erasures ==
    ASSUME TypeOK, ForgetInv, NEW c \in Calls, bound[c[1]] = config, asked[c] \in Requests[c],
           ForgetExact(c) \/ ForgetSource(c) \/ ForgetScope(c)
    PROVE  \E M : Erases(c, M)
<1>0. /\ config \in Bindings /\ scopes \in [Bindings -> ScopeRow] /\ Scope = scopes[config]
      /\ erased \in [Memories -> Key \cup {Nothing}]
    BY DEF TypeOK, Scope
<1>1. CASE ForgetExact(c)
    <2> DEFINE m == Item(c)
    <2>1. /\ asked[c].mode = "exact" /\ erased[m] = Nothing /\ heads[m].status = "active"
          /\ Tombstone({m}, c) /\ erased' = [erased EXCEPT ![m] = OperationKey(c)]
          /\ scopes' = [scopes EXCEPT ![config] = Advance(1)] /\ UNCHANGED shunned
        BY <1>1 DEF ForgetExact
    <2>2. m \in Memories /\ m[1] = config
        BY <2>1, ItemFacts
    <2>3. {m} \subseteq Active(config) /\ Cardinality({m}) = 1
        BY <2>1, <2>2, FS_Singleton DEF Active
    <2>4. OperationKey(c) \in Key
        BY KeyFacts
    <2>5. /\ erased' \in [Memories -> Key \cup {Nothing}]
          /\ \A o \in Memories : erased[o] # Nothing \/ o \notin {m} => erased'[o] = erased[o]
        BY <2>1, <2>2, <2>4, <1>0
    <2>6. /\ Advance(1) \in ScopeRow /\ Advance(1).revision = Scope.revision + 1
          /\ Advance(1).generation = Scope.generation
          /\ Advance(1).suppressed = Scope.suppressed
        BY AdvanceType
    <2>7. /\ scopes' \in [Bindings -> ScopeRow] /\ scopes'[config] = Advance(1)
          /\ \A b \in Bindings \ {config} : scopes'[b] = scopes[b]
        BY <2>1, <2>6, <1>0
    <2> HIDE DEF m
    <2> QED BY <2>1, <2>3, <2>5, <2>6, <2>7, <1>0 DEF Erases
<1>2. CASE ForgetSource(c)
    <2> DEFINE source == asked[c].source
               M == ActiveOf(source)
               n == Cardinality(M)
    <2>1. /\ Tombstone(M, c) /\ shunned' = shunned \cup {<<config, source>>}
          /\ scopes' = [scopes EXCEPT ![config] = Advance(n)] /\ UNCHANGED erased
        BY <1>2 DEF ForgetSource
    <2>2. M \subseteq Active(config) /\ M \in SUBSET {m \in Memories : m[1] = config}
        BY DEF ActiveOf, Active
    <2>3. n \in Nat
        BY <2>2, OfBinding
    <2>4. \A b \in Bindings : \A m \in Active(b) \ M :
             <<b, Source(m)>> \in shunned' => <<b, Source(m)>> \in shunned
        BY <2>1 DEF ActiveOf, Active, Source
    <2> HIDE DEF M, source
    <2>6. /\ Advance(n) \in ScopeRow /\ Advance(n).revision = Scope.revision + n
          /\ Advance(n).generation = Scope.generation
          /\ Advance(n).suppressed = Scope.suppressed
        BY <2>3, AdvanceType
    <2> HIDE DEF n
    <2>7. /\ scopes' \in [Bindings -> ScopeRow] /\ scopes'[config] = Advance(n)
          /\ \A b \in Bindings \ {config} : scopes'[b] = scopes[b]
        BY <2>1, <2>6, <1>0
    <2>8. scopes'[config].revision = scopes[config].revision + Cardinality(M)
        BY <2>6, <2>7, <1>0 DEF n
    <2> QED BY <2>1, <2>2, <2>4, <2>6, <2>7, <2>8, <1>0 DEF Erases
<1>3. CASE ForgetScope(c)
    <2> DEFINE M == {m \in Memories : m[1] = config /\ heads[m].status = "active"}
               n == Cardinality(M)
               row == [Advance(n) EXCEPT !.suppressed = TRUE]
    <2>1. /\ Tombstone(M, c) /\ UNCHANGED <<erased, shunned>>
          /\ scopes' = [scopes EXCEPT ![config] = row]
        BY <1>3 DEF ForgetScope
    <2>2. M = Active(config) /\ M \in SUBSET {m \in Memories : m[1] = config}
        BY DEF Active
    <2>3. n \in Nat
        BY <2>2, OfBinding
    <2> HIDE DEF M
    <2>6. /\ row \in ScopeRow /\ row.revision = Scope.revision + n
          /\ row.generation = Scope.generation /\ row.suppressed
        BY <2>3, SuppressType
    <2> HIDE DEF n, row
    <2>7. /\ scopes' \in [Bindings -> ScopeRow] /\ scopes'[config] = row
          /\ \A b \in Bindings \ {config} : scopes'[b] = scopes[b]
        BY <2>1, <2>6, <1>0
    <2>8. scopes'[config].revision = scopes[config].revision + Cardinality(M)
        BY <2>6, <2>7, <1>0 DEF n
    <2> QED BY <2>1, <2>2, <2>6, <2>7, <2>8, <1>0 DEF Erases
<1> QED BY <1>1, <1>2, <1>3

\* What a revision that is appended leaves of the others.
LEMMA Appended ==
    ASSUME NEW s \in Seq(Version), NEW v \in Version
    PROVE  /\ Append(s, v) \in Seq(Version) /\ Len(Append(s, v)) = Len(s) + 1
           /\ Len(s) \in Nat /\ DOMAIN s = 1 .. Len(s)
           /\ Append(s, v)[Len(s) + 1] = v
           /\ \A i \in DOMAIN Append(s, v) :
                 \/ i \in DOMAIN s /\ Append(s, v)[i] = s[i]
                 \/ i = Len(s) + 1
           /\ \A i \in DOMAIN s : i \in DOMAIN Append(s, v) /\ Append(s, v)[i] = s[i]
OBVIOUS

\* A memory gets a revision, which becomes its head.
Revised(m, v) ==
    /\ versions'[m] = Append(versions[m], v)
    /\ heads'[m].revision = heads[m].revision + 1
    /\ heads'[m].status = v.status

\* Erasing gives the erased memories a tombstone and the others nothing.
LEMMA Tombstones ==
    ASSUME TypeOK, NEW c \in Calls, NEW M, Erases(c, M)
    PROVE  /\ M \subseteq Memories /\ \A m \in M : m[1] = config /\ heads[m].status = "active"
           /\ versions' \in [Memories -> Seq(Version)] /\ heads' \in [Memories -> HeadRow]
           /\ \A m \in Memories \ M : versions'[m] = versions[m] /\ heads'[m] = heads[m]
           /\ \A m \in M : \E v \in Version :
                 v.status = "tombstone" /\ v.source = c /\ Revised(m, v)
           /\ terms' = {t \in terms : ~(/\ t[3] \in M /\ t[1] = t[3][1]
                                         /\ t[2] = scopes[t[1]].generation)}
<1>0. /\ Scope.revision \in Int /\ Scope.sequence \in Int
      /\ versions \in [Memories -> Seq(Version)] /\ heads \in [Memories -> HeadRow]
    BY DEF TypeOK, Scope, ScopeRow
<1>1. M \subseteq Memories /\ \A m \in M : m[1] = config /\ heads[m].status = "active"
    BY DEF Erases, Active
<1>2. \A m : Place(M, m) \in Nat
    BY <1>1, PlaceType
<1> DEFINE stone(m) == [status |-> "tombstone", source |-> c,
                        collection |-> Scope.revision + Place(M, m),
                        sequence |-> Scope.sequence + Place(M, m) - 1]
           head(m) == [revision |-> heads[m].revision + 1, status |-> "tombstone",
                       sequence |-> Scope.sequence + Place(M, m) - 1]
<1>3. \A m : stone(m) \in Version /\ stone(m).status = "tombstone" /\ stone(m).source = c
    BY <1>0, <1>2 DEF Version
<1>4. \A m \in Memories : head(m) \in HeadRow /\ head(m).status = "tombstone"
                          /\ head(m).revision = heads[m].revision + 1
    BY <1>0, <1>2 DEF HeadRow
<1>5. /\ versions' = [m \in Memories |-> IF m \notin M THEN versions[m]
                                        ELSE Append(versions[m], stone(m))]
      /\ heads' = [m \in Memories |-> IF m \notin M THEN heads[m] ELSE head(m)]
      /\ terms' = terms \ UNION {TermsOf(m) : m \in M}
    BY DEF Erases, Tombstone
<1>6. terms' = {t \in terms : ~(/\ t[3] \in M /\ t[1] = t[3][1]
                                /\ t[2] = scopes[t[1]].generation)}
    <2>1. \A t \in terms : t \in UNION {TermsOf(m) : m \in M} <=>
             t[3] \in M /\ t[1] = t[3][1] /\ t[2] = scopes[t[1]].generation
        BY DEF TermsOf, ActiveTerms
    <2> QED BY <1>5, <2>1
<1> HIDE DEF stone, head
<1>7. \A m \in M : versions'[m] = Append(versions[m], stone(m)) /\ heads'[m] = head(m)
    BY <1>1, <1>5
<1>8. \A m \in Memories \ M : versions'[m] = versions[m] /\ heads'[m] = heads[m]
    BY <1>5
<1>9. versions' \in [Memories -> Seq(Version)]
    BY <1>0, <1>3, <1>5, Appended
<1>10. heads' \in [Memories -> HeadRow]
    BY <1>0, <1>4, <1>5
<1>11. \A m \in M : \E v \in Version :
          v.status = "tombstone" /\ v.source = c /\ Revised(m, v)
    BY <1>1, <1>3, <1>4, <1>7 DEF Revised
<1> QED BY <1>1, <1>6, <1>8, <1>9, <1>10, <1>11
-----------------------------------------------------------------------------
\* The index, and what is active.

\* A memory is kept as it is.
Kept(m) == versions'[m] = versions[m] /\ heads'[m] = heads[m]

\* Heads stay the last revisions when memories are kept or revised.
LEMMA HeadsFollow ==
    ASSUME TypeOK, HeadInv,
           \A m \in Memories : Kept(m) \/ \E v \in Version : Revised(m, v)
    PROVE  HeadInv'
<1> SUFFICES ASSUME NEW m \in Memories
             PROVE  /\ heads'[m].revision = Len(versions'[m])
                    /\ heads'[m].status = "absent" <=> Len(versions'[m]) = 0
                    /\ Len(versions'[m]) > 0 =>
                          heads'[m].status = versions'[m][Len(versions'[m])].status
    BY DEF HeadInv
<1>1. CASE Kept(m)
    BY <1>1 DEF Kept, HeadInv
<1>2. CASE \E v \in Version : Revised(m, v)
    <2>1. PICK v \in Version : Revised(m, v)
        BY <1>2
    <2>2. versions[m] \in Seq(Version) /\ heads[m].revision = Len(versions[m])
        BY DEF TypeOK, HeadInv
    <2>3. /\ Len(versions'[m]) = Len(versions[m]) + 1 /\ Len(versions[m]) \in Nat
          /\ versions'[m][Len(versions[m]) + 1] = v
        BY <2>1, <2>2, Appended DEF Revised
    <2>4. heads'[m].revision = Len(versions[m]) + 1 /\ heads'[m].status = v.status
        BY <2>1, <2>2 DEF Revised
    <2>5. v.status # "absent"
        BY DEF Version
    <2> QED BY <2>3, <2>4, <2>5
<1> QED BY <1>1, <1>2

\* The current revision of an active memory is one it has.
LEMMA CurrentRevision ==
    ASSUME TypeOK, HeadInv, NEW m \in Memories, heads[m].status = "active"
    PROVE  /\ heads[m].revision \in DOMAIN versions[m]
           /\ versions[m][heads[m].revision] \in Version
           /\ versions[m][heads[m].revision].status = "active"
<1>1. PICK s \in Seq(Version) : s = versions[m]
    BY DEF TypeOK
<1>2. /\ heads[m].revision = Len(s) /\ Len(s) # 0
      /\ Len(s) > 0 => s[Len(s)].status = "active"
    BY <1>1 DEF HeadInv
<1>3. Len(s) \in Nat /\ DOMAIN s = 1 .. Len(s)
    OBVIOUS
<1>4. Len(s) \in DOMAIN s
    BY <1>2, <1>3
<1>5. s[Len(s)] \in Version
    BY <1>4
<1> QED BY <1>1, <1>2, <1>3, <1>4, <1>5

\* Erasing keeps heads, index and what was forgotten in order.
LEMMA EraseKeepsIndex ==
    ASSUME TypeOK, HeadInv, TermInv, IndexInv, ForgetInv,
           NEW c \in Calls, NEW M, Erases(c, M)
    PROVE  HeadInv' /\ TermInv' /\ IndexInv' /\ ForgetInv'
<1>1. /\ M \subseteq Memories /\ \A m \in M : m[1] = config /\ heads[m].status = "active"
      /\ \A m \in Memories \ M : versions'[m] = versions[m] /\ heads'[m] = heads[m]
      /\ \A m \in M : \E v \in Version :
            v.status = "tombstone" /\ v.source = c /\ Revised(m, v)
      /\ terms' = {t \in terms : ~(/\ t[3] \in M /\ t[1] = t[3][1]
                                    /\ t[2] = scopes[t[1]].generation)}
    BY Tombstones
<1>2. HeadInv'
    <2>1. \A m \in Memories : Kept(m) \/ \E v \in Version : Revised(m, v)
        BY <1>1 DEF Kept
    <2> QED BY <2>1, HeadsFollow
<1>3. \A b \in Bindings : scopes'[b].generation = scopes[b].generation
    BY DEF Erases
<1>4. \A m \in Memories : heads'[m].status = "active" <=> heads[m].status = "active" /\ m \notin M
    <2>1. \A m \in M : heads'[m].status = "tombstone"
        BY <1>1 DEF Revised
    <2> QED BY <1>1, <2>1
<1>5. \A b \in Bindings : Active(b)' = Active(b) \ M
    BY <1>4 DEF Active
<1>6. TermInv'
    <2>1. \A t \in terms' : t \in terms /\ t[1] \in Bindings
        BY <1>1 DEF TypeOK
    <2> QED BY <1>3, <2>1 DEF TermInv
<1>7. \A b \in Bindings : \A m \in Active(b)' : heads'[m] = heads[m] /\ versions'[m] = versions[m]
    BY <1>1, <1>5 DEF Active
<1>8. IndexInv'
    <2> SUFFICES ASSUME NEW b \in Bindings
                 PROVE  /\ \A t \in terms' :
                              t[1] = b /\ t[2] = scopes'[b].generation =>
                                 t[3] \in Active(b)' /\ t[4] = heads'[t[3]].revision
                        /\ \A m \in Active(b)' : Term(m, heads[m].revision)' \in terms'
        BY DEF IndexInv
    <2>1. ASSUME NEW t \in terms', t[1] = b, t[2] = scopes'[b].generation
          PROVE  t[3] \in Active(b)' /\ t[4] = heads'[t[3]].revision
        <3>1. t \in terms /\ t[2] = scopes[b].generation /\ t[3][1] = t[1]
            BY <1>1, <1>3, <2>1 DEF TermInv
        <3>2. t[3] \in Active(b) /\ t[4] = heads[t[3]].revision
            BY <2>1, <3>1 DEF IndexInv
        <3>3. t[3] \notin M
            BY <1>1, <2>1, <3>1
        <3> QED BY <1>5, <1>7, <3>2, <3>3
    <2>2. ASSUME NEW m \in Active(b)'
          PROVE  Term(m, heads[m].revision)' \in terms'
        <3>1. m \in Active(b) /\ m \notin M /\ m \in Memories /\ m[1] = b
            BY <1>5 DEF Active
        <3>2. Term(m, heads[m].revision) \in terms
            BY <3>1 DEF IndexInv
        <3>3. Term(m, heads[m].revision)' = Term(m, heads[m].revision)
            BY <1>3, <1>7, <3>1 DEF Term
        <3>4. Term(m, heads[m].revision)[3] = m
            BY DEF Term
        <3> QED BY <1>1, <3>1, <3>2, <3>3, <3>4
    <2> QED BY <2>1, <2>2
<1>9. ForgetInv'
    <2> SUFFICES ASSUME NEW b \in Bindings
                 PROVE  /\ scopes'[b].suppressed => Active(b)' = {}
                        /\ \A m \in Active(b)' :
                              /\ erased'[m] = Nothing
                              /\ <<b, Source(m)'>> \notin shunned'
        BY DEF ForgetInv, Source
    <2>1. scopes'[b].suppressed => Active(b)' = {}
        <3>1. CASE b = config
            BY <1>5, <3>1 DEF Erases, ForgetInv
        <3>2. CASE b # config
            BY <1>5, <3>2 DEF Erases, ForgetInv
        <3> QED BY <3>1, <3>2
    <2>2. ASSUME NEW m \in Active(b)'
          PROVE  erased'[m] = Nothing /\ <<b, Source(m)'>> \notin shunned'
        <3>1. m \in Active(b) \ M /\ m \in Memories
            BY <1>5 DEF Active
        <3>2. Source(m)' = Source(m)
            BY <1>7 DEF Source
        <3>3. erased[m] = Nothing /\ <<b, Source(m)>> \notin shunned
            BY <3>1 DEF ForgetInv, Source
        <3> QED BY <3>1, <3>2, <3>3 DEF Erases
    <2> QED BY <2>1, <2>2
<1> QED BY <1>2, <1>6, <1>8, <1>9

\* What remembering does to the tables of its memory.
LEMMA Remembering ==
    ASSUME TypeOK, HeadInv, NEW c \in Calls, asked[c] \in Requests[c], Remember(c)
    PROVE  LET m == Item(c)
               r == Remembered(m, heads[m].revision + 1, Scope.revision + 1, Scope.sequence)
               v == [status |-> "active", source |-> c, collection |-> r.collection,
                     sequence |-> r.sequence]
               o == [call |-> c, request |-> asked[c], result |-> r]
           IN  /\ m \in Memories /\ m[1] = config
               /\ ~scopes[config].suppressed /\ erased[m] = Nothing
               /\ <<config, c>> \notin shunned
               /\ r \in Result /\ r.kind = "remember" /\ r.memory = m
               /\ r.revision = heads[m].revision + 1
               /\ v \in Version
               /\ o \in [call : Calls, request : Request, result : Result]
               /\ versions' = [versions EXCEPT ![m] = Append(@, v)]
               /\ versions'[m] = Append(versions[m], v)
               /\ heads' \in [Memories -> HeadRow]
               /\ Revised(m, v)
               /\ \A x \in Memories \ {m} : Kept(x)
               /\ terms' = (terms \ TermsOf(m)) \cup {Term(m, r.revision)}
               /\ observations[<<m, c>>] = Nothing
               /\ observations' = [observations EXCEPT ![<<m, c>>] = o]
               /\ scopes' = [scopes EXCEPT ![config].revision = @ + 1,
                                           ![config].sequence = @ + 1]
               /\ Recorded(c, r) /\ Hears(c, Ok(r))
               /\ UNCHANGED <<erased, shunned>>
<1> DEFINE m == Item(c)
           r == Remembered(m, heads[m].revision + 1, Scope.revision + 1, Scope.sequence)
           v == [status |-> "active", source |-> c, collection |-> r.collection,
                 sequence |-> r.sequence]
           o == [call |-> c, request |-> asked[c], result |-> r]
           head == [revision |-> r.revision, sequence |-> r.sequence, status |-> "active"]
<1>1. /\ asked[c].mode = "remember" /\ CanRemember(c) /\ observations[<<m, c>>] = Nothing
      /\ versions' = [versions EXCEPT ![m] = Append(@, v)]
      /\ heads' = [heads EXCEPT ![m] = head]
      /\ terms' = (terms \ TermsOf(m)) \cup {Term(m, r.revision)}
      /\ scopes' = [scopes EXCEPT ![config].revision = @ + 1, ![config].sequence = @ + 1]
      /\ observations' = [observations EXCEPT ![<<m, c>>] = o]
      /\ Recorded(c, r) /\ Hears(c, Ok(r)) /\ UNCHANGED <<erased, shunned>>
    BY DEF Remember
<1>2. m \in Memories /\ m[1] = config
    BY <1>1, ItemFacts
<1>3. ~scopes[config].suppressed /\ erased[m] = Nothing /\ <<config, c>> \notin shunned
    BY <1>1 DEF CanRemember, Scope
<1>4. PICK s \in ScopeRow : s = Scope
    BY DEF TypeOK, Scope
<1>5. /\ versions \in [Memories -> Seq(Version)] /\ heads \in [Memories -> HeadRow]
      /\ heads[m] \in HeadRow /\ asked[c] \in Request
    BY <1>2, CallFacts DEF TypeOK
<1>6. heads[m].revision + 1 \in Nat /\ Scope.revision + 1 \in Int /\ Scope.sequence \in Int
    BY <1>4, <1>5 DEF ScopeRow, HeadRow
<1>7. /\ r \in Result /\ r.kind = "remember" /\ r.memory = m
      /\ r.revision = heads[m].revision + 1
      /\ r.collection \in Int /\ r.sequence \in Int
    BY <1>2, <1>6 DEF Remembered, Result
<1> HIDE DEF r
<1>8. v \in Version /\ v.status = "active"
    BY <1>7 DEF Version
<1>9. o \in [call : Calls, request : Request, result : Result]
    BY <1>5, <1>7
<1>10. head \in HeadRow /\ head.revision = heads[m].revision + 1 /\ head.status = "active"
    BY <1>6, <1>7 DEF HeadRow
<1> HIDE DEF m, v, o, head
<1>11. /\ heads' \in [Memories -> HeadRow] /\ heads'[m] = head
       /\ versions'[m] = Append(versions[m], v)
       /\ \A x \in Memories \ {m} : heads'[x] = heads[x] /\ versions'[x] = versions[x]
    BY <1>1, <1>2, <1>5, <1>10
<1>12. Revised(m, v)
    BY <1>8, <1>10, <1>11 DEF Revised
<1>13. \A x \in Memories \ {m} : Kept(x)
    BY <1>11 DEF Kept
<1> QED BY <1>1, <1>2, <1>3, <1>7, <1>8, <1>9, <1>11, <1>12, <1>13 DEF m, r, v, o

\* Remembering keeps heads, index and what was forgotten in order.
LEMMA RememberKeepsIndex ==
    ASSUME TypeOK, HeadInv, TermInv, IndexInv, ForgetInv,
           NEW c \in Calls, asked[c] \in Requests[c], Remember(c)
    PROVE  HeadInv' /\ TermInv' /\ IndexInv' /\ ForgetInv'
<1> DEFINE m0 == Item(c)
           r0 == Remembered(m0, heads[m0].revision + 1, Scope.revision + 1, Scope.sequence)
           v0 == [status |-> "active", source |-> c, collection |-> r0.collection,
                  sequence |-> r0.sequence]
<1>0. /\ m0 \in Memories /\ m0[1] = config
      /\ ~scopes[config].suppressed /\ erased[m0] = Nothing
      /\ <<config, c>> \notin shunned
      /\ r0.revision = heads[m0].revision + 1
      /\ v0 \in Version /\ v0.source = c /\ v0.status = "active"
      /\ Revised(m0, v0)
      /\ \A x \in Memories \ {m0} : Kept(x)
      /\ terms' = (terms \ TermsOf(m0)) \cup {Term(m0, r0.revision)}
      /\ scopes' = [scopes EXCEPT ![config].revision = @ + 1, ![config].sequence = @ + 1]
      /\ UNCHANGED <<erased, shunned>>
    BY Remembering
<1> HIDE DEF m0, r0, v0
<1>1. PICK m, r, v :
         /\ m \in Memories /\ m[1] = config
         /\ ~scopes[config].suppressed /\ erased[m] = Nothing
         /\ <<config, c>> \notin shunned
         /\ r.revision = heads[m].revision + 1
         /\ v \in Version /\ v.source = c /\ v.status = "active"
         /\ Revised(m, v)
         /\ \A x \in Memories \ {m} : Kept(x)
         /\ terms' = (terms \ TermsOf(m)) \cup {Term(m, r.revision)}
         /\ scopes' = [scopes EXCEPT ![config].revision = @ + 1, ![config].sequence = @ + 1]
         /\ UNCHANGED <<erased, shunned>>
    BY <1>0
<1>2. HeadInv'
    BY <1>1, HeadsFollow
<1>3. \A b \in Bindings : /\ scopes'[b].generation = scopes[b].generation
                          /\ scopes'[b].suppressed = scopes[b].suppressed
    BY <1>1, ScopeRemembers
<1>4. /\ heads'[m].status = "active" /\ heads'[m].revision = r.revision
      /\ Source(m)' = c
    <2>1. /\ heads'[m].status = "active" /\ heads'[m].revision = r.revision
          /\ versions'[m] = Append(versions[m], v)
        BY <1>1 DEF Revised
    <2>2. versions[m] \in Seq(Version) /\ heads[m].revision = Len(versions[m])
        BY <1>1 DEF TypeOK, HeadInv
    <2>3. versions'[m][r.revision] = v
        BY <1>1, <2>1, <2>2, Appended
    <2> QED BY <1>1, <2>1, <2>3 DEF Source
<1>5. \A b \in Bindings : Active(b)' = IF b = config THEN Active(b) \cup {m} ELSE Active(b)
    BY <1>1, <1>4 DEF Active, Kept
<1>6. /\ Term(m, r.revision) = <<config, scopes[config].generation, m, r.revision>>
      /\ TermsOf(m) = {t \in terms : t[1] = config /\ t[2] = scopes[config].generation /\ t[3] = m}
    BY <1>1 DEF Term, TermsOf, ActiveTerms
<1>7. config \in Bindings /\ scopes[config].generation \in Int
    BY DEF TypeOK, ScopeRow
<1>8. TermInv'
    <2> SUFFICES ASSUME NEW t \in terms'
                 PROVE  t[3][1] = t[1] /\ t[2] <= scopes'[t[1]].generation
        BY DEF TermInv
    <2>1. CASE t \in terms
        <3>1. t[1] \in Bindings
            BY <2>1 DEF TypeOK
        <3> QED BY <1>3, <2>1, <3>1 DEF TermInv
    <2>2. CASE t = Term(m, r.revision)
        <3>1. t[3] = m /\ t[1] = config /\ t[2] = scopes[config].generation
            BY <1>6, <2>2
        <3>2. scopes'[config].generation = scopes[config].generation
            BY <1>3, <1>7
        <3> QED BY <1>1, <1>7, <3>1, <3>2
    <2> QED BY <1>1, <2>1, <2>2
<1>9. IndexInv'
    <2> SUFFICES ASSUME NEW b \in Bindings
                 PROVE  /\ \A t \in terms' :
                              t[1] = b /\ t[2] = scopes'[b].generation =>
                                 t[3] \in Active(b)' /\ t[4] = heads'[t[3]].revision
                        /\ \A x \in Active(b)' : Term(x, heads[x].revision)' \in terms'
        BY DEF IndexInv
    <2>1. ASSUME NEW t \in terms', t[1] = b, t[2] = scopes'[b].generation
          PROVE  t[3] \in Active(b)' /\ t[4] = heads'[t[3]].revision
        <3>1. CASE t = Term(m, r.revision)
            BY <1>4, <1>5, <1>6, <2>1, <3>1
        <3>2. CASE t \in terms /\ t \notin TermsOf(m)
            <4>1. t[3][1] = b /\ t[2] = scopes[b].generation
                BY <1>3, <2>1, <3>2 DEF TermInv
            <4>2. t[3] \in Active(b) /\ t[4] = heads[t[3]].revision
                BY <2>1, <3>2, <4>1 DEF IndexInv
            <4>3. t[3] # m
                BY <1>1, <1>6, <2>1, <3>2, <4>1
            <4>4. t[3] \in Memories \ {m}
                BY <4>2, <4>3 DEF Active
            <4> QED BY <1>1, <1>5, <4>2, <4>4 DEF Kept
        <3> QED BY <1>1, <3>1, <3>2
    <2>2. ASSUME NEW x \in Active(b)'
          PROVE  Term(x, heads[x].revision)' \in terms'
        <3>1. Term(x, heads[x].revision)' = Term(x, heads'[x].revision)
            <4>1. x \in Memories /\ x[1] = b
                BY <1>1, <1>5, <2>2 DEF Active
            <4> QED BY <1>3, <4>1 DEF Term
        <3>2. CASE x = m
            BY <1>1, <1>4, <3>1, <3>2
        <3>3. CASE x # m
            <4>1. x \in Active(b) /\ heads'[x].revision = heads[x].revision
                BY <1>1, <1>5, <2>2, <3>3 DEF Kept, Active
            <4>2. Term(x, heads[x].revision) \in terms
                BY <4>1 DEF IndexInv
            <4>3. Term(x, heads[x].revision) \notin TermsOf(m)
                BY <1>6, <3>3 DEF Term
            <4> QED BY <1>1, <3>1, <4>1, <4>2, <4>3
        <3> QED BY <3>2, <3>3
    <2> QED BY <2>1, <2>2
<1>10. ForgetInv'
    <2> SUFFICES ASSUME NEW b \in Bindings
                 PROVE  /\ scopes'[b].suppressed => Active(b)' = {}
                        /\ \A x \in Active(b)' :
                              /\ erased'[x] = Nothing
                              /\ <<b, Source(x)'>> \notin shunned'
        BY DEF ForgetInv, Source
    <2>1. scopes'[b].suppressed => Active(b)' = {}
        BY <1>1, <1>3, <1>5 DEF ForgetInv
    <2>2. ASSUME NEW x \in Active(b)'
          PROVE  erased'[x] = Nothing /\ <<b, Source(x)'>> \notin shunned'
        <3>1. CASE x = m
            <4>1. b = config
                BY <1>1, <2>2, <3>1 DEF Active
            <4> QED BY <1>1, <1>4, <3>1, <4>1
        <3>2. CASE x # m
            <4>1. x \in Active(b) /\ Source(x)' = Source(x)
                BY <1>1, <1>5, <2>2, <3>2 DEF Kept, Active, Source
            <4> QED BY <1>1, <4>1 DEF ForgetInv, Source
        <3> QED BY <3>1, <3>2
    <2> QED BY <2>1, <2>2
<1> QED BY <1>2, <1>8, <1>9, <1>10

\* A rebuild keeps heads, index and what was forgotten in order.
LEMMA RebuildKeepsIndex ==
    ASSUME TypeOK, HeadInv, TermInv, IndexInv, ForgetInv, NEW d \in Bindings, Rebuild(d)
    PROVE  /\ HeadInv' /\ TermInv' /\ IndexInv' /\ ForgetInv'
           /\ scopes' \in [Bindings -> ScopeRow]
           /\ scopes'[d].revision = scopes[d].revision + 1
           /\ \A b \in Bindings : scopes'[b].suppressed = scopes[b].suppressed
           /\ \A b \in Bindings \ {d} : scopes'[b] = scopes[b]
           /\ ~scopes[d].suppressed
           /\ terms' \subseteq Bindings \X Int \X Memories \X Nat
<1>1. PICK g \in Int : g = Fresh(d) /\ g = scopes[d].generation + 1
    BY FreshIsNext
<1>2. /\ terms' = terms \cup {<<d, g, m, heads[m].revision>> : m \in Active(d)}
      /\ scopes' = [scopes EXCEPT ![d].generation = g, ![d].revision = @ + 1]
      /\ UNCHANGED <<versions, heads, erased, shunned>> /\ ~scopes[d].suppressed
    BY <1>1 DEF Rebuild
<1>3. /\ scopes' \in [Bindings -> ScopeRow]
      /\ scopes'[d].revision = scopes[d].revision + 1
      /\ scopes'[d].generation = g
      /\ scopes'[d].suppressed = scopes[d].suppressed
      /\ \A b \in Bindings \ {d} : scopes'[b] = scopes[b]
    BY <1>2, ScopeRebuilds
<1>4. \A b \in Bindings : Active(b)' = Active(b) /\ scopes'[b].suppressed = scopes[b].suppressed
    BY <1>2, <1>3 DEF Active
<1>5. HeadInv' /\ ForgetInv'
    BY <1>2, <1>4 DEF HeadInv, ForgetInv
<1>6. scopes[d].generation \in Int /\ scopes[d].generation < g
    BY <1>1 DEF TypeOK, ScopeRow
<1>7. \A t \in terms : t[3][1] = t[1] /\ t[1] \in Bindings /\ t[2] \in Int
                       /\ t[2] <= scopes[t[1]].generation
    BY DEF TypeOK, TermInv
<1>8. TermInv'
    <2> SUFFICES ASSUME NEW t \in terms'
                 PROVE  t[3][1] = t[1] /\ t[2] <= scopes'[t[1]].generation
        BY DEF TermInv
    <2>1. CASE t \in terms
        <3>1. CASE t[1] = d
            BY <1>3, <1>6, <1>7, <2>1, <3>1
        <3>2. CASE t[1] # d
            BY <1>3, <1>7, <2>1, <3>2
        <3> QED BY <3>1, <3>2
    <2>2. CASE t \in {<<d, g, m, heads[m].revision>> : m \in Active(d)}
        BY <1>3, <2>2 DEF Active
    <2> QED BY <1>2, <2>1, <2>2
<1>9. IndexInv'
    <2> SUFFICES ASSUME NEW b \in Bindings
                 PROVE  /\ \A t \in terms' :
                              t[1] = b /\ t[2] = scopes'[b].generation =>
                                 t[3] \in Active(b)' /\ t[4] = heads'[t[3]].revision
                        /\ \A m \in Active(b)' : Term(m, heads[m].revision)' \in terms'
        BY DEF IndexInv
    <2>1. \A m \in Active(b) : Term(m, heads[m].revision)'
                                  = <<b, scopes'[b].generation, m, heads[m].revision>>
        BY <1>2 DEF Term, Active
    <2>2. CASE b = d
        <3>1. ASSUME NEW t \in terms', t[1] = b, t[2] = scopes'[b].generation
              PROVE  t[3] \in Active(b)' /\ t[4] = heads'[t[3]].revision
            <4>1. t \notin terms
                BY <1>3, <1>6, <1>7, <2>2, <3>1
            <4>2. PICK m \in Active(d) : t = <<d, g, m, heads[m].revision>>
                BY <1>2, <4>1
            <4> QED BY <1>2, <1>4, <2>2, <4>2
        <3>2. \A m \in Active(b)' : Term(m, heads[m].revision)' \in terms'
            BY <1>2, <1>3, <1>4, <2>1, <2>2
        <3> QED BY <3>1, <3>2
    <2>3. CASE b # d
        <3>1. scopes'[b] = scopes[b]
            BY <1>3, <2>3
        <3>2. ASSUME NEW t \in terms', t[1] = b, t[2] = scopes'[b].generation
              PROVE  t[3] \in Active(b)' /\ t[4] = heads'[t[3]].revision
            <4>1. t \in terms
                BY <1>2, <2>3, <3>2
            <4> QED BY <1>2, <1>4, <3>1, <3>2, <4>1 DEF IndexInv
        <3>3. ASSUME NEW m \in Active(b)'
              PROVE  Term(m, heads[m].revision)' \in terms'
            <4>1. m \in Active(b) /\ m[1] = b
                BY <1>4 DEF Active
            <4>2. Term(m, heads[m].revision) \in terms
                BY <4>1 DEF IndexInv
            <4>3. Term(m, heads[m].revision)' = Term(m, heads[m].revision)
                BY <1>2, <3>1, <4>1 DEF Term
            <4> QED BY <1>2, <4>2, <4>3
        <3> QED BY <3>2, <3>3
    <2> QED BY <2>2, <2>3
<1>10. terms' \subseteq Bindings \X Int \X Memories \X Nat
    <2>1. \A m \in Active(d) : m \in Memories /\ heads[m].revision \in Nat
        BY DEF Active, TypeOK, HeadRow
    <2>2. {<<d, g, m, heads[m].revision>> : m \in Active(d)}
             \subseteq Bindings \X Int \X Memories \X Nat
        BY <2>1
    <2> QED BY <1>2, <2>2 DEF TypeOK
<1> QED BY <1>2, <1>3, <1>4, <1>5, <1>8, <1>9, <1>10
-----------------------------------------------------------------------------
\* What a commit does, whatever it was asked for.

\* A call that has no operation yet records one, with a result that stands,
\* writes only in its own binding and under its own name, at most one active
\* revision, and takes back nothing that was forgotten.
Effect(c, r) ==
    /\ KeyOf(c) \notin DOMAIN operations
    /\ r \in Result
    /\ operations' = [k \in DOMAIN operations \cup {KeyOf(c)} |->
                         IF k = KeyOf(c) THEN [source |-> c, result |-> r] ELSE operations[k]]
    /\ Hears(c, Ok(r))
    /\ StandsIn(config, c, KeyOf(c), r)'
    /\ \A m \in Memories :
          \/ Kept(m)
          \/ /\ m[1] = config
             /\ \E v \in Version : /\ Revised(m, v) /\ v.source = c
                                   /\ v.status = "active" => m = r.memory
    /\ \A m \in Memories : erased[m] # Nothing => erased'[m] = erased[m] /\ Kept(m)
    /\ shunned \subseteq shunned'
    /\ \A m \in Memories : \A d \in Calls \ {c} : observations'[<<m, d>>] = observations[<<m, d>>]
    /\ \A b \in Bindings : scopes[b].suppressed =>
          scopes'[b].suppressed /\ scopes'[b].revision = scopes[b].revision
    /\ UNCHANGED <<bound, config, asked>>

\* To record a result is to add an operation.
LEMMA Recording ==
    ASSUME TypeOK, NEW c \in Calls, bound[c[1]] = config, asked[c] \in Requests[c],
           NEW r, Recorded(c, r), ~Known(c)
    PROVE  /\ KeyOf(c) \notin DOMAIN operations
           /\ operations' = [k \in DOMAIN operations \cup {KeyOf(c)} |->
                     IF k = KeyOf(c) THEN [source |-> c, result |-> r] ELSE operations[k]]
BY KeyFacts DEF Recorded, Known

\* To remember has such an effect.
LEMMA RememberEffect ==
    ASSUME TypeOK, HeadInv, NEW c \in Calls, bound[c[1]] = config,
           asked[c] \in Requests[c], ~Known(c), Remember(c), UNCHANGED <<bound, config, asked>>
    PROVE  \E r : Effect(c, r)
<1> DEFINE m0 == Item(c)
           r0 == Remembered(m0, heads[m0].revision + 1, Scope.revision + 1, Scope.sequence)
           v0 == [status |-> "active", source |-> c, collection |-> r0.collection,
                  sequence |-> r0.sequence]
           o0 == [call |-> c, request |-> asked[c], result |-> r0]
<1>0. /\ m0 \in Memories /\ m0[1] = config
      /\ ~scopes[config].suppressed /\ erased[m0] = Nothing
      /\ r0 \in Result /\ r0.kind = "remember" /\ r0.memory = m0
      /\ r0.revision = heads[m0].revision + 1
      /\ v0 \in Version
      /\ v0 = [status |-> "active", source |-> c, collection |-> r0.collection,
               sequence |-> r0.sequence]
      /\ o0 = [call |-> c, request |-> asked[c], result |-> r0]
      /\ versions'[m0] = Append(versions[m0], v0)
      /\ Revised(m0, v0)
      /\ \A x \in Memories \ {m0} : Kept(x)
      /\ observations' = [observations EXCEPT ![<<m0, c>>] = o0]
      /\ scopes' = [scopes EXCEPT ![config].revision = @ + 1, ![config].sequence = @ + 1]
      /\ Recorded(c, r0) /\ Hears(c, Ok(r0)) /\ UNCHANGED <<erased, shunned>>
    BY Remembering
<1> HIDE DEF m0, r0, v0, o0
<1>1. PICK m, r, v, o :
         /\ m \in Memories /\ m[1] = config
         /\ ~scopes[config].suppressed /\ erased[m] = Nothing
         /\ r \in Result /\ r.kind = "remember" /\ r.memory = m
         /\ r.revision = heads[m].revision + 1
         /\ v \in Version
         /\ v = [status |-> "active", source |-> c, collection |-> r.collection,
                 sequence |-> r.sequence]
         /\ o = [call |-> c, request |-> asked[c], result |-> r]
         /\ versions'[m] = Append(versions[m], v)
         /\ Revised(m, v)
         /\ \A x \in Memories \ {m} : Kept(x)
         /\ observations' = [observations EXCEPT ![<<m, c>>] = o]
         /\ scopes' = [scopes EXCEPT ![config].revision = @ + 1, ![config].sequence = @ + 1]
         /\ Recorded(c, r) /\ Hears(c, Ok(r)) /\ UNCHANGED <<erased, shunned>>
    BY <1>0
<1>2. /\ KeyOf(c) \notin DOMAIN operations
      /\ operations' = [k \in DOMAIN operations \cup {KeyOf(c)} |->
                     IF k = KeyOf(c) THEN [source |-> c, result |-> r] ELSE operations[k]]
    BY <1>1, Recording
<1>3. /\ observations'[<<m, c>>] = o
      /\ \A x \in Memories : \A d \in Calls \ {c} : observations'[<<x, d>>] = observations[<<x, d>>]
    BY <1>1 DEF TypeOK
<1>4. r.revision \in DOMAIN versions'[m] /\ versions'[m][r.revision] = v
    <2>1. versions[m] \in Seq(Version) /\ heads[m].revision = Len(versions[m])
        BY <1>1 DEF TypeOK, HeadInv
    <2>2. /\ Append(versions[m], v) \in Seq(Version) /\ Len(versions[m]) \in Nat
          /\ Len(Append(versions[m], v)) = Len(versions[m]) + 1
          /\ Append(versions[m], v)[Len(versions[m]) + 1] = v
        BY <1>1, <2>1, Appended
    <2>3. DOMAIN Append(versions[m], v) = 1 .. Len(versions[m]) + 1
        BY <2>2
    <2> QED BY <1>1, <2>1, <2>2, <2>3
<1>5. StandsIn(config, c, KeyOf(c), r)'
    <2>1. v.source = c /\ observations'[<<m, c>>]
                            = [call |-> c, request |-> asked'[c], result |-> r]
        BY <1>1, <1>3
    <2>2. v = [status |-> "active", source |-> c, collection |-> r.collection,
               sequence |-> r.sequence]
        BY <1>1
    <2>3. RememberStands(c, r)'
        BY <1>1, <1>4, <2>1, <2>2 DEF RememberStands
    <2> QED BY <1>1, <2>3 DEF StandsIn
<1>6. \A x \in Memories : Kept(x) \/ (/\ x[1] = config
             /\ \E w \in Version : /\ Revised(x, w) /\ w.source = c
                                   /\ w.status = "active" => x = r.memory)
    BY <1>1
<1>7. \A x \in Memories : erased[x] # Nothing => erased'[x] = erased[x] /\ Kept(x)
    BY <1>1
<1>8. \A b \in Bindings : scopes[b].suppressed =>
          scopes'[b].suppressed /\ scopes'[b].revision = scopes[b].revision
    BY <1>1, ScopeRemembers
<1>9. Effect(c, r)
    BY <1>1, <1>2, <1>3, <1>5, <1>6, <1>7, <1>8 DEF Effect
<1> QED BY <1>9

\* To erase, with a result that stands, has such an effect.
LEMMA EraseEffect ==
    ASSUME TypeOK, ForgetInv, NEW c \in Calls, bound[c[1]] = config,
           asked[c] \in Requests[c], ~Known(c), UNCHANGED <<bound, config, asked>>,
           NEW M, Erases(c, M), UNCHANGED observations,
           NEW r \in Result, Recorded(c, r), Hears(c, Ok(r)),
           StandsIn(config, c, KeyOf(c), r)'
    PROVE  Effect(c, r)
<1>1. /\ M \subseteq Memories /\ \A m \in M : m[1] = config /\ heads[m].status = "active"
      /\ \A m \in Memories \ M : versions'[m] = versions[m] /\ heads'[m] = heads[m]
      /\ \A m \in M : \E v \in Version :
            v.status = "tombstone" /\ v.source = c /\ Revised(m, v)
    BY Tombstones
<1>2. \A m \in Memories : Kept(m) \/ (/\ m[1] = config
             /\ \E v \in Version : /\ Revised(m, v) /\ v.source = c
                                   /\ v.status = "active" => m = r.memory)
    BY <1>1 DEF Kept
<1>3. \A m \in Memories : erased[m] # Nothing => erased'[m] = erased[m] /\ Kept(m)
    <2> SUFFICES ASSUME NEW m \in Memories, erased[m] # Nothing
                 PROVE  erased'[m] = erased[m] /\ Kept(m)
        OBVIOUS
    <2>1. erased'[m] = erased[m]
        BY DEF Erases
    <2>2. m \notin M
        BY <1>1 DEF TypeOK, ForgetInv, Active
    <2> QED BY <1>1, <2>1, <2>2 DEF Kept
<1>4. \A b \in Bindings : scopes[b].suppressed =>
          scopes'[b].suppressed /\ scopes'[b].revision = scopes[b].revision
    <2>1. CASE scopes[config].suppressed
        <3>1. M = {}
            BY <2>1 DEF Erases, ForgetInv, TypeOK
        <3>2. Cardinality(M) = 0 /\ scopes[config].revision \in Int
            BY <3>1, FS_EmptySet DEF TypeOK, ScopeRow
        <3> QED BY <2>1, <3>2 DEF Erases
    <2>2. CASE ~scopes[config].suppressed
        BY <2>2 DEF Erases
    <2> QED BY <2>1, <2>2
<1>5. shunned \subseteq shunned'
    BY DEF Erases
<1> QED BY <1>2, <1>3, <1>4, <1>5, Recording DEF Effect

\* So has every commit.
LEMMA CommitEffect ==
    ASSUME TypeOK, HeadInv, ForgetInv, NEW c \in Calls, bound[c[1]] = config,
           asked[c] \in Requests[c], Commit(c), UNCHANGED <<config, asked>>
    PROVE  \E r : Effect(c, r)
<1>0. /\ ~Known(c) /\ UNCHANGED <<bound, config, asked>>
      /\ config \in Bindings /\ scopes \in [Bindings -> ScopeRow] /\ Scope = scopes[config]
      /\ Scope.revision \in Int
      /\ erased \in [Memories -> Key \cup {Nothing}] /\ heads \in [Memories -> HeadRow]
    BY DEF Commit, TypeOK, Scope, ScopeRow
<1>1. CASE Remember(c)
    BY <1>0, <1>1, RememberEffect
<1>2. CASE ForgetExact(c)
    <2>1. PICK M : Erases(c, M)
        BY <1>2, Erasures
    <2>2. asked[c].mode = "exact" /\ Tombstone({Item(c)}, c)
          /\ erased' = [erased EXCEPT ![Item(c)] = OperationKey(c)] /\ UNCHANGED observations
        BY <1>2 DEF ForgetExact
    <2>3. PICK m \in Memories : m = Item(c)
        BY <2>2, ItemFacts
    <2>4. PICK r : /\ r = Forgotten(m, heads[m].revision + 1, Scope.revision + 1, FALSE)
                   /\ Recorded(c, r) /\ Hears(c, Ok(r))
        BY <1>2, <2>3 DEF ForgetExact
    <2>5. heads[m] \in HeadRow /\ heads[m].revision + 1 \in Nat /\ Scope.revision + 1 \in Int
        BY <1>0 DEF HeadRow
    <2>6. /\ r \in Result /\ r.kind = "exact" /\ r.memory = m
          /\ r.revision = heads[m].revision + 1 /\ r.already = FALSE
        BY <2>4, <2>5 DEF Forgotten, Result
    <2>7. heads'[m].revision = heads[m].revision + 1 /\ heads'[m].status = "tombstone"
        BY <2>2, <2>3 DEF Tombstone
    <2>8. erased'[m] = KeyOf(c) /\ KeyOf(c) # Nothing
        BY <1>0, <2>2, <2>3, KeyFacts
    <2>9. StandsIn(config, c, KeyOf(c), r)'
        <3>1. KeyOf(c)' = KeyOf(c)
            BY <1>0 DEF KeyOf
        <3> QED BY <2>6, <2>7, <2>8, <3>1 DEF StandsIn, ExactStands
    <2> QED BY <1>0, <2>1, <2>2, <2>4, <2>6, <2>9, EraseEffect
<1>3. CASE ForgetAgain(c)
    <2>1. /\ asked[c].mode = "exact"
          /\ erased[Item(c)] # Nothing
          /\ UNCHANGED <<scopes, versions, heads, terms, observations, erased, shunned>>
        BY <1>3 DEF ForgetAgain
    <2>2. PICK m \in Memories : m = Item(c) /\ m[1] = config
        BY <2>1, ItemFacts
    <2>3. PICK r : /\ r = Forgotten(m, heads[m].revision, Scope.revision, TRUE)
                   /\ Recorded(c, r) /\ Hears(c, Ok(r))
        BY <1>3, <2>2 DEF ForgetAgain
    <2>4. heads[m] \in HeadRow /\ heads[m].revision \in Nat
        BY <1>0 DEF HeadRow
    <2>5. /\ r \in Result /\ r.kind = "exact" /\ r.memory = m
          /\ r.revision = heads[m].revision /\ r.already = TRUE
        BY <1>0, <2>3, <2>4 DEF Forgotten, Result
    <2>6. heads[m].status \in {"absent", "tombstone"}
        BY <1>0, <2>1, <2>2, <2>4 DEF ForgetInv, Active, HeadRow
    <2>7. StandsIn(config, c, KeyOf(c), r)'
        BY <2>1, <2>2, <2>5, <2>6 DEF StandsIn, ExactStands
    <2>8. \A x \in Memories : Kept(x)
        BY <2>1 DEF Kept
    <2>9. Effect(c, r)
        <3>1. /\ KeyOf(c) \notin DOMAIN operations
              /\ operations' = [k \in DOMAIN operations \cup {KeyOf(c)} |->
                     IF k = KeyOf(c) THEN [source |-> c, result |-> r] ELSE operations[k]]
            <4>1. ~Known(c) /\ Recorded(c, r)
                BY <1>0, <2>3
            <4> QED BY <4>1, Recording
        <3>2. /\ \A x \in Memories : erased[x] # Nothing => erased'[x] = erased[x] /\ Kept(x)
              /\ \A b \in Bindings : scopes[b].suppressed =>
                    scopes'[b].suppressed /\ scopes'[b].revision = scopes[b].revision
              /\ shunned \subseteq shunned'
              /\ \A x \in Memories : \A d \in Calls \ {c} :
                    observations'[<<x, d>>] = observations[<<x, d>>]
            BY <2>1, <2>8
        <3> QED BY <1>0, <2>3, <2>5, <2>7, <2>8, <3>1, <3>2 DEF Effect
    <2> QED BY <2>9
<1>4. CASE ForgetSource(c)
    <2>1. PICK M : Erases(c, M)
        BY <1>4, Erasures
    <2> DEFINE N == ActiveOf(asked[c].source)
    <2>2. /\ asked[c].mode = "source" /\ UNCHANGED observations
          /\ shunned' = shunned \cup {<<config, asked[c].source>>}
        BY <1>4 DEF ForgetSource
    <2>3. PICK r : /\ r = SourceForgotten(asked[c].source, Cardinality(N),
                                          Scope.revision + Cardinality(N))
                   /\ Recorded(c, r) /\ Hears(c, Ok(r))
        BY <1>4 DEF ForgetSource
    <2>4. N \in SUBSET {m \in Memories : m[1] = config}
        BY DEF ActiveOf
    <2>5. Cardinality(N) \in Nat
        BY <2>4, OfBinding
    <2>6. asked[c].source \in Calls
        BY <2>2, CallFacts, RequestFacts
    <2> HIDE DEF N
    <2>7. r \in Result /\ r.kind = "source" /\ r.source = asked[c].source
        BY <1>0, <2>3, <2>5, <2>6 DEF SourceForgotten, Result
    <2>8. StandsIn(config, c, KeyOf(c), r)'
        BY <1>0, <2>2, <2>7 DEF StandsIn
    <2> QED BY <1>0, <2>1, <2>2, <2>3, <2>7, <2>8, EraseEffect
<1>5. CASE ForgetScope(c)
    <2>1. PICK M : Erases(c, M)
        BY <1>5, Erasures
    <2> DEFINE N == {m \in Memories : m[1] = config /\ heads[m].status = "active"}
               row == [Advance(Cardinality(N)) EXCEPT !.suppressed = TRUE]
    <2>2. UNCHANGED observations /\ scopes' = [scopes EXCEPT ![config] = row]
        BY <1>5 DEF ForgetScope
    <2>3. PICK r : /\ r = ScopeForgotten(Cardinality(N), Scope.revision + Cardinality(N))
                   /\ Recorded(c, r) /\ Hears(c, Ok(r))
        BY <1>5 DEF ForgetScope
    <2>4. N \in SUBSET {m \in Memories : m[1] = config}
        OBVIOUS
    <2>5. Cardinality(N) \in Nat
        BY <2>4, OfBinding
    <2> HIDE DEF N
    <2>6. row.revision = Scope.revision + Cardinality(N) /\ row.suppressed
        BY <2>5, SuppressType
    <2> HIDE DEF row
    <2>7. r \in Result /\ r.kind = "scope" /\ r.collection = Scope.revision + Cardinality(N)
        BY <1>0, <2>3, <2>5 DEF ScopeForgotten, Result
    <2>8. scopes'[config] = row
        BY <1>0, <2>2
    <2>9. StandsIn(config, c, KeyOf(c), r)'
        BY <1>0, <2>6, <2>7, <2>8 DEF StandsIn
    <2> QED BY <1>0, <2>1, <2>2, <2>3, <2>7, <2>9, EraseEffect
<1> QED BY <1>1, <1>2, <1>3, <1>4, <1>5 DEF Commit

\* A revision after a commit is one there was, or the call's.
LEMMA NewOrOld ==
    ASSUME TypeOK, NEW c \in Calls, NEW r, Effect(c, r),
           NEW m \in Memories, NEW i \in DOMAIN versions'[m]
    PROVE  \/ i \in DOMAIN versions[m] /\ versions'[m][i] = versions[m][i]
           \/ /\ i = Len(versions[m]) + 1 /\ m[1] = config
              /\ versions'[m][i].source = c
              /\ versions'[m][i].status = "active" => m = r.memory
<1>1. CASE Kept(m)
    BY <1>1 DEF Kept
<1>2. CASE ~Kept(m)
    <2>1. PICK v \in Version : /\ Revised(m, v) /\ v.source = c /\ m[1] = config
                               /\ v.status = "active" => m = r.memory
        BY <1>2 DEF Effect
    <2>2. versions[m] \in Seq(Version) /\ versions'[m] = Append(versions[m], v)
        BY <2>1 DEF TypeOK, Revised
    <2>3. \/ i \in DOMAIN versions[m] /\ versions'[m][i] = versions[m][i]
          \/ i = Len(versions[m]) + 1 /\ versions'[m][i] = v
        BY <2>2, Appended
    <2> QED BY <2>1, <2>3
<1> QED BY <1>1, <1>2

\* And what there was is kept.
LEMMA OldIsKept ==
    ASSUME TypeOK, NEW c \in Calls, NEW r, Effect(c, r),
           NEW m \in Memories, NEW i \in DOMAIN versions[m]
    PROVE  i \in DOMAIN versions'[m] /\ versions'[m][i] = versions[m][i]
<1>1. CASE Kept(m)
    BY <1>1 DEF Kept
<1>2. CASE ~Kept(m)
    <2>1. PICK v \in Version : Revised(m, v)
        BY <1>2 DEF Effect
    <2>2. versions[m] \in Seq(Version) /\ versions'[m] = Append(versions[m], v)
        BY <2>1 DEF TypeOK, Revised
    <2> QED BY <2>2, Appended
<1> QED BY <1>1, <1>2

\* The operations after a commit.
LEMMA OperationsGrow ==
    ASSUME NEW c \in Calls, NEW r, Effect(c, r)
    PROVE  /\ KeyOf(c) \notin DOMAIN operations
           /\ DOMAIN operations' = DOMAIN operations \cup {KeyOf(c)}
           /\ operations'[KeyOf(c)] = [source |-> c, result |-> r]
           /\ \A k \in DOMAIN operations : operations'[k] = operations[k]
           /\ \A d \in Calls : KeyOf(d)' = KeyOf(d)
<1>1. \A d \in Calls : KeyOf(d)' = KeyOf(d)
    BY DEF Effect, KeyOf
<1> QED BY <1>1 DEF Effect

\* A commit keeps one operation per call, and one active revision per call.
LEMMA EffectKeepsWritten ==
    ASSUME TypeOK, WrittenInv, NEW c \in Calls, NEW r, Effect(c, r),
           bound[c[1]] = config, asked[c] \in Requests[c]
    PROVE  WrittenInv'
<1>1. /\ KeyOf(c) \notin DOMAIN operations
      /\ DOMAIN operations' = DOMAIN operations \cup {KeyOf(c)}
      /\ \A d \in Calls : KeyOf(d)' = KeyOf(d)
      /\ UNCHANGED <<bound, asked>>
    <2>1. UNCHANGED <<bound, asked, config>>
        BY DEF Effect
    <2> QED BY <2>1, OperationsGrow
<1>2. \A m \in Memories : \A i \in DOMAIN versions[m] :
         versions[m][i].source \in Calls /\ versions[m][i].source # c
    <2> SUFFICES ASSUME NEW m \in Memories, NEW i \in DOMAIN versions[m]
                 PROVE  versions[m][i].source \in Calls /\ versions[m][i].source # c
        OBVIOUS
    <2>1. versions[m][i] \in Version
        BY DEF TypeOK
    <2>2. KeyOf(versions[m][i].source) \in DOMAIN operations
        BY DEF WrittenInv
    <2>3. ASSUME versions[m][i].source = c PROVE FALSE
        BY <1>1, <2>2, <2>3 DEF KeyOf
    <2> QED BY <2>1, <2>3 DEF Version
<1>3. \A m \in Memories : \A i \in DOMAIN versions'[m] :
         \/ i \in DOMAIN versions[m] /\ versions'[m][i] = versions[m][i]
         \/ /\ i = Len(versions[m]) + 1 /\ m[1] = config
            /\ versions'[m][i].source = c
            /\ versions'[m][i].status = "active" => m = r.memory
    BY NewOrOld
<1> SUFFICES ASSUME NEW m \in Memories, NEW i \in DOMAIN versions'[m], NEW d,
                    d = versions'[m][i].source
             PROVE  /\ bound'[d[1]] = m[1] /\ KeyOf(d)' \in DOMAIN operations'
                    /\ asked'[d] \in Requests[d]
                    /\ versions'[m][i].status = "active" =>
                          \A o \in Memories : \A j \in DOMAIN versions'[o] :
                             versions'[o][j].source = d /\ versions'[o][j].status = "active" =>
                                o = m /\ j = i
    BY DEF WrittenInv
<1>4. CASE i \in DOMAIN versions[m] /\ versions'[m][i] = versions[m][i]
    <2>1. /\ d \in Calls /\ d # c /\ d = versions[m][i].source
          /\ bound[d[1]] = m[1] /\ KeyOf(d) \in DOMAIN operations
          /\ asked[d] \in Requests[d]
        BY <1>2, <1>4 DEF WrittenInv
    <2>2. ASSUME versions'[m][i].status = "active",
                 NEW o \in Memories, NEW j \in DOMAIN versions'[o],
                 versions'[o][j].source = d, versions'[o][j].status = "active"
          PROVE  o = m /\ j = i
        <3>1. j \in DOMAIN versions[o] /\ versions'[o][j] = versions[o][j]
            BY <1>3, <2>1, <2>2
        <3> QED BY <1>4, <2>1, <2>2, <3>1 DEF WrittenInv
    <2> QED BY <1>1, <2>1, <2>2
<1>5. CASE /\ i = Len(versions[m]) + 1 /\ m[1] = config /\ versions'[m][i].source = c
           /\ versions'[m][i].status = "active" => m = r.memory
    <2>1. d = c
        BY <1>5
    <2>2. ASSUME versions'[m][i].status = "active",
                 NEW o \in Memories, NEW j \in DOMAIN versions'[o],
                 versions'[o][j].source = d, versions'[o][j].status = "active"
          PROVE  o = m /\ j = i
        <3>1. j = Len(versions[o]) + 1 /\ o = r.memory
            BY <1>2, <1>3, <2>1, <2>2
        <3> QED BY <1>5, <2>2, <3>1
    <2> QED BY <1>1, <1>5, <2>1, <2>2
<1> QED BY <1>3, <1>4, <1>5

\* A commit leaves every recorded result standing.
LEMMA EffectKeepsOperations ==
    ASSUME TypeOK, OperationInv, NEW c \in Calls, NEW r, Effect(c, r),
           bound[c[1]] = config, asked[c] \in Requests[c]
    PROVE  OperationInv'
<1>1. /\ KeyOf(c) \notin DOMAIN operations
      /\ DOMAIN operations' = DOMAIN operations \cup {KeyOf(c)}
      /\ operations'[KeyOf(c)] = [source |-> c, result |-> r]
      /\ \A k \in DOMAIN operations : operations'[k] = operations[k]
      /\ \A d \in Calls : KeyOf(d)' = KeyOf(d)
      /\ UNCHANGED <<bound, asked, config>>
    <2>1. UNCHANGED <<bound, asked, config>>
        BY DEF Effect
    <2> QED BY <2>1, OperationsGrow
<1> SUFFICES ASSUME NEW k \in DOMAIN operations'
             PROVE  \E d \in Calls, s \in Result, b \in Bindings :
                       /\ operations'[k] = [source |-> d, result |-> s]
                       /\ bound'[d[1]] = b /\ asked'[d] \in Requests[d]
                       /\ k = KeyOf(d)'
                       /\ StandsIn(b, d, k, s)'
    BY DEF OperationInv
<1>2. CASE k = KeyOf(c)
    <2>1. PICK b \in Bindings : b = config
        BY DEF TypeOK
    <2>2. StandsIn(config, c, KeyOf(c), r)' /\ r \in Result
        BY DEF Effect
    <2>3. StandsIn(b, c, k, r)'
        BY <1>1, <1>2, <2>1, <2>2 DEF StandsIn, RememberStands, ExactStands
    <2> QED BY <1>1, <1>2, <2>1, <2>2, <2>3
<1>3. CASE k \in DOMAIN operations
    <2>1. PICK d \in Calls, s \in Result, b \in Bindings :
             /\ operations[k] = [source |-> d, result |-> s]
             /\ bound[d[1]] = b /\ asked[d] \in Requests[d]
             /\ k = KeyOf(d)
             /\ StandsIn(b, d, k, s)
        BY <1>3 DEF OperationInv
    <2>3. d # c
        BY <1>1, <1>3, <2>1
    <2>6. StandsIn(b, d, k, s)'
        <3>1. CASE s.kind = "remember" /\ s.memory \in Memories /\ RememberStands(d, s)
            <4>1. PICK m, v :
                     /\ m \in Memories /\ m = s.memory /\ s.revision \in DOMAIN versions[m]
                     /\ v = versions[m][s.revision]
                     /\ v = [status |-> "active", source |-> d, collection |-> s.collection,
                             sequence |-> s.sequence]
                     /\ observations[<<m, v.source>>]
                           = [call |-> d, request |-> asked[d], result |-> s]
                BY <3>1 DEF RememberStands
            <4>2. v.source = d
                BY <4>1
            <4>3. s.revision \in DOMAIN versions'[m] /\ versions'[m][s.revision] = v
                BY <4>1, OldIsKept
            <4>4. observations'[<<m, d>>] = [call |-> d, request |-> asked'[d], result |-> s]
                BY <1>1, <2>3, <4>1, <4>2 DEF Effect
            <4>5. RememberStands(d, s)'
                BY <4>1, <4>2, <4>3, <4>4 DEF RememberStands
            <4> QED BY <3>1, <4>5 DEF StandsIn
        <3>2. CASE s.kind = "exact" /\ s.memory \in Memories /\ ExactStands(k, s)
            <4>1. erased[s.memory] # Nothing
                BY <3>2 DEF ExactStands
            <4>2. erased'[s.memory] = erased[s.memory] /\ heads'[s.memory] = heads[s.memory]
                BY <3>2, <4>1 DEF Effect, Kept
            <4> QED BY <3>2, <4>2 DEF StandsIn, ExactStands
        <3>3. CASE s.kind = "source" /\ <<b, s.source>> \in shunned
            BY <3>3 DEF StandsIn, Effect
        <3>4. CASE s.kind = "scope" /\ scopes[b].suppressed /\ scopes[b].revision = s.collection
            BY <3>4 DEF StandsIn, Effect
        <3> QED BY <2>1, <3>1, <3>2, <3>3, <3>4 DEF StandsIn
    <2>8. k = KeyOf(d)' /\ operations'[k] = operations[k]
        BY <1>1, <1>3, <2>1
    <2> QED BY <1>1, <2>1, <2>6, <2>8
<1> QED BY <1>1, <1>2, <1>3

\* A call that was accepted was told its operation.
LEMMA EffectKeepsAnswers ==
    ASSUME TypeOK, AnswerInv, NEW c \in Calls, NEW r, Effect(c, r)
    PROVE  /\ AnswerInv'
           /\ \A d \in Calls : answers[d] # Nothing /\ answers[d].ok => answers'[d] = answers[d]
<1>1. /\ KeyOf(c) \notin DOMAIN operations
      /\ DOMAIN operations' = DOMAIN operations \cup {KeyOf(c)}
      /\ operations'[KeyOf(c)] = [source |-> c, result |-> r]
      /\ \A k \in DOMAIN operations : operations'[k] = operations[k]
      /\ \A d \in Calls : KeyOf(d)' = KeyOf(d)
    BY OperationsGrow
<1>2. Ok(r).ok
    BY DEF Ok
<1>3. answers'[c] = Ok(r) /\ \A d \in Calls \ {c} : answers'[d] = answers[d]
    BY <1>2 DEF Effect, Hears, TypeOK
<1>4. \A d \in Calls : answers[d] # Nothing /\ answers[d].ok => d # c
    BY <1>1 DEF AnswerInv
<1>5. ASSUME NEW d \in Calls, answers'[d] # Nothing, answers'[d].ok
      PROVE  /\ KeyOf(d)' \in DOMAIN operations'
             /\ operations'[KeyOf(d)'].source = d
             /\ answers'[d] = Ok(operations'[KeyOf(d)'].result)
    <2>1. CASE d = c
        BY <1>1, <1>3, <2>1
    <2>2. CASE d # c
        <3>1. /\ KeyOf(d) \in DOMAIN operations /\ operations[KeyOf(d)].source = d
              /\ answers'[d] = Ok(operations[KeyOf(d)].result)
            BY <1>3, <1>5, <2>2 DEF AnswerInv
        <3>2. KeyOf(d)' = KeyOf(d) /\ operations'[KeyOf(d)] = operations[KeyOf(d)]
            BY <1>1, <3>1
        <3> QED BY <1>1, <3>1, <3>2
    <2> QED BY <2>1, <2>2
<1>6. AnswerInv'
    BY <1>5 DEF AnswerInv, Ok
<1> QED BY <1>3, <1>4, <1>6
-----------------------------------------------------------------------------
\* The types of a commit.

\* A caller that hears an answer.
LEMMA Hearing ==
    ASSUME TypeOK, NEW c \in Calls, NEW a \in [ok : BOOLEAN, value : Result \cup {Nothing}],
           Hears(c, a)
    PROVE  /\ answers' \in [Calls -> {Nothing} \cup [ok : BOOLEAN, value : Result \cup {Nothing}]]
           /\ \A d \in Calls \ {c} : answers'[d] = answers[d]
           /\ answers'[c] = IF a.ok \/ answers[c] # Nothing THEN a ELSE answers[c]
BY DEF TypeOK, Hears

\* The tables keep their types.
LEMMA CommitTypes ==
    ASSUME TypeOK, HeadInv, ForgetInv, NEW c \in Calls, bound[c[1]] = config,
           asked[c] \in Requests[c], Commit(c), UNCHANGED <<config, asked>>
    PROVE  /\ scopes' \in [Bindings -> ScopeRow]
           /\ versions' \in [Memories -> Seq(Version)]
           /\ heads' \in [Memories -> HeadRow]
           /\ terms' \subseteq Bindings \X Int \X Memories \X Nat
           /\ observations' \in [Memories \X Calls ->
                 {Nothing} \cup [call : Calls, request : Request, result : Result]]
           /\ operations' \in [DOMAIN operations' -> [source : Calls, result : Result]]
           /\ erased' \in [Memories -> Key \cup {Nothing}]
           /\ answers' \in [Calls -> {Nothing} \cup [ok : BOOLEAN, value : Result \cup {Nothing}]]
           /\ UNCHANGED bound
<1>1. PICK r : Effect(c, r)
    BY CommitEffect
<1>2. answers' \in [Calls -> {Nothing} \cup [ok : BOOLEAN, value : Result \cup {Nothing}]]
    <2>1. r \in Result /\ Hears(c, Ok(r))
        BY <1>1 DEF Effect
    <2>2. Ok(r) \in [ok : BOOLEAN, value : Result \cup {Nothing}]
        BY <2>1 DEF Ok
    <2> QED BY <2>1, <2>2, Hearing
<1>3. operations' \in [DOMAIN operations' -> [source : Calls, result : Result]]
    <2>1. /\ r \in Result
          /\ operations' = [k \in DOMAIN operations \cup {KeyOf(c)} |->
                IF k = KeyOf(c) THEN [source |-> c, result |-> r] ELSE operations[k]]
        BY <1>1 DEF Effect
    <2>2. [source |-> c, result |-> r] \in [source : Calls, result : Result]
        BY <2>1
    <2>3. \A k \in DOMAIN operations : operations[k] \in [source : Calls, result : Result]
        BY DEF TypeOK
    <2> QED BY <2>1, <2>2, <2>3
<1>4. UNCHANGED bound
    BY DEF Commit
<1>5. CASE Remember(c)
    <2> DEFINE m == Item(c)
               r0 == Remembered(m, heads[m].revision + 1, Scope.revision + 1, Scope.sequence)
               v == [status |-> "active", source |-> c, collection |-> r0.collection,
                     sequence |-> r0.sequence]
               o == [call |-> c, request |-> asked[c], result |-> r0]
    <2>1. /\ m \in Memories /\ r0 \in Result /\ r0.revision = heads[m].revision + 1
          /\ v \in Version
          /\ o \in [call : Calls, request : Request, result : Result]
          /\ versions' = [versions EXCEPT ![m] = Append(@, v)]
          /\ heads' \in [Memories -> HeadRow]
          /\ terms' = (terms \ TermsOf(m)) \cup {Term(m, r0.revision)}
          /\ observations' = [observations EXCEPT ![<<m, c>>] = o]
          /\ scopes' = [scopes EXCEPT ![config].revision = @ + 1, ![config].sequence = @ + 1]
          /\ UNCHANGED <<erased, shunned>>
        BY <1>5, Remembering
    <2> HIDE DEF m, r0, v, o
    <2>2. scopes' \in [Bindings -> ScopeRow]
        BY <2>1, ScopeRemembers
    <2>3. versions' \in [Memories -> Seq(Version)]
        BY <2>1, Appended DEF TypeOK
    <2>4. terms' \subseteq Bindings \X Int \X Memories \X Nat
        <3>1. heads[m] \in HeadRow /\ m[1] \in Bindings /\ scopes[m[1]] \in ScopeRow
            BY <2>1 DEF TypeOK, Memories
        <3>2. Term(m, r0.revision) \in Bindings \X Int \X Memories \X Nat
            BY <2>1, <3>1, SMTT(30) DEF Term, HeadRow, ScopeRow
        <3> QED BY <2>1, <3>2 DEF TypeOK
    <2>5. observations' \in [Memories \X Calls ->
                 {Nothing} \cup [call : Calls, request : Request, result : Result]]
        BY <2>1 DEF TypeOK
    <2>6. erased' \in [Memories -> Key \cup {Nothing}]
        BY <2>1 DEF TypeOK
    <2> QED BY <1>2, <1>3, <1>4, <2>1, <2>2, <2>3, <2>4, <2>5, <2>6
<1>6. CASE ForgetExact(c) \/ ForgetSource(c) \/ ForgetScope(c)
    <2>1. PICK M : Erases(c, M)
        BY <1>6, Erasures
    <2>2. /\ versions' \in [Memories -> Seq(Version)] /\ heads' \in [Memories -> HeadRow]
          /\ terms' \subseteq terms
        BY <2>1, Tombstones
    <2>3. scopes' \in [Bindings -> ScopeRow] /\ erased' \in [Memories -> Key \cup {Nothing}]
        BY <2>1 DEF Erases
    <2>4. UNCHANGED observations
        BY <1>6 DEF ForgetExact, ForgetSource, ForgetScope
    <2>5. /\ terms' \subseteq Bindings \X Int \X Memories \X Nat
          /\ observations' \in [Memories \X Calls ->
                 {Nothing} \cup [call : Calls, request : Request, result : Result]]
        BY <2>2, <2>4 DEF TypeOK
    <2> QED BY <1>2, <1>3, <1>4, <2>2, <2>3, <2>5
<1>7. CASE ForgetAgain(c)
    <2>1. UNCHANGED <<scopes, versions, heads, terms, observations, erased, shunned>>
        BY <1>7 DEF ForgetAgain
    <2>2. /\ scopes' \in [Bindings -> ScopeRow]
          /\ versions' \in [Memories -> Seq(Version)]
          /\ heads' \in [Memories -> HeadRow]
          /\ terms' \subseteq Bindings \X Int \X Memories \X Nat
          /\ observations' \in [Memories \X Calls ->
                 {Nothing} \cup [call : Calls, request : Request, result : Result]]
          /\ erased' \in [Memories -> Key \cup {Nothing}]
        BY <2>1 DEF TypeOK
    <2> QED BY <1>2, <1>3, <1>4, <2>2
<1> QED BY <1>5, <1>6, <1>7 DEF Commit

\* A commit keeps the index and what was forgotten.
LEMMA CommitKeepsIndex ==
    ASSUME TypeOK, HeadInv, TermInv, IndexInv, ForgetInv, NEW c \in Calls,
           bound[c[1]] = config, asked[c] \in Requests[c], Commit(c)
    PROVE  HeadInv' /\ TermInv' /\ IndexInv' /\ ForgetInv'
<1>1. CASE Remember(c)
    BY <1>1, RememberKeepsIndex
<1>2. CASE ForgetExact(c) \/ ForgetSource(c) \/ ForgetScope(c)
    <2>1. PICK M : Erases(c, M)
        BY <1>2, Erasures
    <2> QED BY <2>1, EraseKeepsIndex
<1>3. CASE ForgetAgain(c)
    <2>1. UNCHANGED <<scopes, versions, heads, terms, observations, erased, shunned>>
        BY <1>3 DEF ForgetAgain
    <2> QED BY <2>1 DEF HeadInv, TermInv, IndexInv, ForgetInv, Active, Term
<1> QED BY <1>1, <1>2, <1>3 DEF Commit
-----------------------------------------------------------------------------
\* The steps.

\* What the tables say stays true while bindings and arguments, once given,
\* are kept.
LEMMA TablesKept ==
    ASSUME TypeOK, HeadInv, TermInv, IndexInv, ForgetInv, WrittenInv, OperationInv,
           UNCHANGED tables,
           \A x \in Runs : bound[x] \in Bindings => bound'[x] = bound[x],
           \A d \in Calls : asked[d] \in Requests[d] => asked'[d] = asked[d]
    PROVE  /\ HeadInv' /\ TermInv' /\ IndexInv' /\ ForgetInv' /\ WrittenInv' /\ OperationInv'
           /\ (AnswerInv /\ UNCHANGED answers) => AnswerInv'
<1>0. UNCHANGED <<scopes, versions, heads, terms, observations, operations, erased, shunned>>
    BY DEF tables
<1>1. HeadInv' /\ TermInv' /\ IndexInv' /\ ForgetInv'
    BY <1>0 DEF HeadInv, TermInv, IndexInv, ForgetInv, Active, Term
<1>2. \A d \in Calls : bound[d[1]] \in Bindings /\ asked[d] \in Requests[d] =>
         KeyOf(d)' = KeyOf(d) /\ bound'[d[1]] = bound[d[1]] /\ asked'[d] = asked[d]
    BY CallFacts DEF KeyOf
<1>3. WrittenInv'
    <2> SUFFICES ASSUME NEW m \in Memories, NEW i \in DOMAIN versions[m], NEW d,
                        d = versions[m][i].source
                 PROVE  /\ bound'[d[1]] = m[1] /\ KeyOf(d)' \in DOMAIN operations
                        /\ asked'[d] \in Requests[d]
                        /\ versions[m][i].status = "active" =>
                              \A o \in Memories : \A j \in DOMAIN versions[o] :
                                 versions[o][j].source = d /\ versions[o][j].status = "active" =>
                                    o = m /\ j = i
        BY <1>0 DEF WrittenInv
    <2>1. versions[m][i] \in Version /\ m[1] \in Bindings
        BY DEF TypeOK, Memories
    <2>2. d \in Calls
        BY <2>1 DEF Version
    <2>3. /\ bound[d[1]] = m[1] /\ asked[d] \in Requests[d]
          /\ KeyOf(d) \in DOMAIN operations
        BY DEF WrittenInv, KeyOf
    <2>4. KeyOf(d)' = KeyOf(d) /\ bound'[d[1]] = bound[d[1]] /\ asked'[d] = asked[d]
        BY <1>2, <2>1, <2>2, <2>3
    <2>5. versions[m][i].status = "active" =>
              \A o \in Memories : \A j \in DOMAIN versions[o] :
                 versions[o][j].source = d /\ versions[o][j].status = "active" => o = m /\ j = i
        BY DEF WrittenInv
    <2> QED BY <2>3, <2>4, <2>5
<1>4. OperationInv'
    <2> SUFFICES ASSUME NEW k \in DOMAIN operations
                 PROVE  \E d \in Calls, s \in Result, b \in Bindings :
                           /\ operations'[k] = [source |-> d, result |-> s]
                           /\ bound'[d[1]] = b /\ asked'[d] \in Requests[d]
                           /\ k = KeyOf(d)'
                           /\ StandsIn(b, d, k, s)'
        BY <1>0 DEF OperationInv
    <2>1. PICK d \in Calls, s \in Result, b \in Bindings :
             /\ operations[k] = [source |-> d, result |-> s]
             /\ bound[d[1]] = b /\ asked[d] \in Requests[d]
             /\ k = KeyOf(d)
             /\ StandsIn(b, d, k, s)
        BY DEF OperationInv
    <2>2. KeyOf(d)' = KeyOf(d) /\ bound'[d[1]] = bound[d[1]] /\ asked'[d] = asked[d]
        BY <1>2, <2>1
    <2>3. StandsIn(b, d, k, s)'
        BY <1>0, <2>1, <2>2 DEF StandsIn, RememberStands, ExactStands
    <2> QED BY <1>0, <2>1, <2>2, <2>3
<1>5. ASSUME AnswerInv, UNCHANGED answers PROVE AnswerInv'
    <2> SUFFICES ASSUME NEW d \in Calls, answers[d] # Nothing, answers[d].ok
                 PROVE  /\ KeyOf(d)' \in DOMAIN operations
                        /\ operations[KeyOf(d)'].source = d
                        /\ answers[d] = Ok(operations[KeyOf(d)'].result)
        BY <1>0, <1>5 DEF AnswerInv, Ok
    <2>1. PICK k : k = KeyOf(d) /\ k \in DOMAIN operations /\ operations[k].source = d
                   /\ answers[d] = Ok(operations[k].result)
        BY <1>5 DEF AnswerInv, Ok
    <2>2. bound[d[1]] \in Bindings /\ asked[d] \in Requests[d]
        BY <2>1 DEF OperationInv
    <2> QED BY <1>2, <2>1, <2>2
<1> QED BY <1>1, <1>3, <1>4, <1>5

\* A handler that moves.
LEMMA ThreadMoves ==
    ASSUME TypeOK, NEW c \in Calls, NEW n, NEW t, n \in Attempts => t \in Thread,
           threads' = [threads EXCEPT ![c][n] = t]
    PROVE  /\ threads' \in [Calls -> [Attempts -> Thread]]
           /\ \A d \in Calls : \A i \in Attempts :
                 threads'[d][i] = IF d = c /\ i = n THEN t ELSE threads[d][i]
<1>1. threads \in [Calls -> [Attempts -> Thread]]
    BY DEF TypeOK
<1>2. threads[c] \in [Attempts -> Thread]
    BY <1>1
<1>3. [threads[c] EXCEPT ![n] = t] \in [Attempts -> Thread]
    BY <1>2
<1>4. \A i \in Attempts : [threads[c] EXCEPT ![n] = t][i] = IF i = n THEN t ELSE threads[c][i]
    BY <1>2
<1>5. threads'[c] = [threads[c] EXCEPT ![n] = t] /\ \A d \in Calls \ {c} : threads'[d] = threads[d]
    BY <1>1
<1>6. threads' \in [Calls -> [Attempts -> Thread]]
    BY <1>1, <1>3
<1> QED BY <1>4, <1>5, <1>6

\* Handlers that start, end or are revoked.
LEMMA ThreadTypes ==
    /\ \A x : x = Nothing \/ x \in [ok : BOOLEAN, value : Result \cup {Nothing}]
              => Ended(x) \in Thread /\ Ended(x).at = "ended"
    /\ Refused \in [ok : BOOLEAN, value : Result \cup {Nothing}] /\ Refused.ok = FALSE
    /\ NoThread \in Thread /\ NoThread.at = "none"
    /\ \A t \in Thread : Revoked(t) \in Thread /\ Revoked(t).at = t.at
BY DEF Ended, Refused, NoThread, Revoked, Thread

\* A reply tells an accepted call what it was told before.
LEMMA ReplyAgrees ==
    ASSUME IInv, NEW c \in Calls, bound[c[1]] = config, asked[c] \in Requests[c],
           Reply(c), UNCHANGED <<config, asked>>
    PROVE  /\ UNCHANGED store /\ AnswerInv'
           /\ answers' \in [Calls -> {Nothing} \cup [ok : BOOLEAN, value : Result \cup {Nothing}]]
           /\ \A d \in Calls : answers[d] # Nothing /\ answers[d].ok => answers'[d] = answers[d]
<1>0. TypeOK /\ OperationInv /\ AnswerInv
    BY DEF IInv
<1>1. UNCHANGED store
    BY DEF Reply
<1>2. PICK key : key = KeyOf(c) /\ key = OperationKey(c)
    BY <1>0, KeyFacts
<1>3. \A d \in Calls : KeyOf(d)' = KeyOf(d)
    BY <1>1 DEF KeyOf, store
<1>4. UNCHANGED operations
    BY <1>1 DEF store
\* Given the answer, the rest is the same in both cases.
<1>5. ASSUME NEW a \in [ok : BOOLEAN, value : Result \cup {Nothing}], Hears(c, a),
             a.ok => /\ key \in DOMAIN operations /\ operations[key].source = c
                     /\ a = Ok(operations[key].result),
             answers[c] # Nothing /\ answers[c].ok => a = answers[c]
      PROVE  /\ AnswerInv'
             /\ answers' \in [Calls -> {Nothing} \cup [ok : BOOLEAN, value : Result \cup {Nothing}]]
             /\ \A d \in Calls : answers[d] # Nothing /\ answers[d].ok => answers'[d] = answers[d]
    <2>1. /\ answers' \in [Calls -> {Nothing} \cup [ok : BOOLEAN, value : Result \cup {Nothing}]]
          /\ \A d \in Calls \ {c} : answers'[d] = answers[d]
          /\ answers'[c] = IF a.ok \/ answers[c] # Nothing THEN a ELSE answers[c]
        BY <1>0, <1>5, Hearing
    <2>2. ASSUME NEW d \in Calls, answers'[d] # Nothing, answers'[d].ok
          PROVE  /\ KeyOf(d) \in DOMAIN operations
                 /\ operations[KeyOf(d)].source = d
                 /\ answers'[d] = Ok(operations[KeyOf(d)].result)
        <3>1. CASE d = c
            <4>1. answers'[c] = a /\ a.ok
                BY <2>1, <2>2, <3>1
            <4>2. key \in DOMAIN operations /\ operations[key].source = c
                  /\ a = Ok(operations[key].result)
                BY <1>5, <4>1
            <4> QED BY <1>2, <3>1, <4>1, <4>2
        <3>2. CASE d # c
            <4>1. answers[d] # Nothing /\ answers[d].ok
                BY <2>1, <2>2, <3>2
            <4> QED BY <1>0, <2>1, <3>2, <4>1 DEF AnswerInv
        <3> QED BY <3>1, <3>2
    <2>3. AnswerInv'
        BY <1>3, <1>4, <2>2 DEF AnswerInv, Ok
    <2>4. \A d \in Calls : answers[d] # Nothing /\ answers[d].ok => answers'[d] = answers[d]
        BY <1>5, <2>1
    <2> QED BY <2>1, <2>3, <2>4
<1>6. CASE key \notin DOMAIN operations
    <2>1. Hears(c, Refused)
        BY <1>2, <1>6 DEF Reply, Known
    <2>2. ~(answers[c] # Nothing /\ answers[c].ok)
        BY <1>0, <1>2, <1>6 DEF AnswerInv
    <2> QED BY <1>1, <1>5, <2>1, <2>2, ThreadTypes
<1>7. CASE key \in DOMAIN operations
    <2>1. PICK d \in Calls, r \in Result, b \in Bindings :
             /\ operations[key] = [source |-> d, result |-> r]
             /\ bound[d[1]] = b /\ key = KeyOf(d) /\ StandsIn(b, d, key, r)
        BY <1>0, <1>7 DEF OperationInv
    <2>2. Hears(c, IF d # c THEN Refused ELSE IF Stands(c, key, r) THEN Ok(r) ELSE Refused)
        <3>1. Hears(c, Replay(c))
            BY <1>2, <1>7 DEF Reply, Known
        <3> QED BY <1>2, <2>1, <3>1 DEF Replay
    <2>3. operations[key].source = d /\ operations[key].result = r
        BY <2>1
    <2>4. CASE d # c
        <3>1. ~(answers[c] # Nothing /\ answers[c].ok)
            BY <1>0, <1>2, <2>3, <2>4 DEF AnswerInv
        <3> QED BY <1>1, <1>5, <2>2, <2>4, <3>1, ThreadTypes
    <2>5. CASE d = c
        <3>1. Stands(c, key, r)
            BY <2>1, <2>5 DEF StandsIn, Stands, SourceStands, ScopeStands
        <3>2. Hears(c, Ok(r))
            BY <2>2, <2>5, <3>1
        <3>3. Ok(r) \in [ok : BOOLEAN, value : Result \cup {Nothing}] /\ Ok(r).ok
            BY DEF Ok
        <3>4. answers[c] # Nothing /\ answers[c].ok => answers[c] = Ok(r)
            BY <1>0, <1>2, <2>3 DEF AnswerInv, Ok
        <3>5. Ok(operations[key].result) = Ok(r)
            BY <2>3 DEF Ok
        <3> QED BY <1>1, <1>5, <1>7, <2>3, <2>5, <3>2, <3>3, <3>4, <3>5
    <2> QED BY <2>4, <2>5
<1> QED BY <1>6, <1>7

\* A call whose handler may use the store is bound to the process's binding.
LEMMA ClaimedIsBound ==
    ASSUME IInv, NEW c \in Calls, NEW n \in Attempts, threads[c][n].at = "claimed"
    PROVE  bound[c[1]] = config /\ asked[c] \in Requests[c]
BY DEF IInv, ThreadInv, Claimed

\* A dispatch binds a run that was not bound and gives a call its arguments.
LEMMA DispatchStep ==
    ASSUME IInv, NEW c \in Calls, Dispatch(c)
    PROVE  IInv'
<1>0. /\ TypeOK /\ HeadInv /\ TermInv /\ IndexInv /\ ForgetInv /\ WrittenInv
      /\ OperationInv /\ AnswerInv /\ ThreadInv
    BY DEF IInv
<1>1. /\ Bind(c[1]) /\ UNCHANGED <<tables, config, answers>>
      /\ \E q \in IF asked[c] = Nothing THEN Requests[c] ELSE {asked[c]} :
            asked' = [asked EXCEPT ![c] = q]
    BY DEF Dispatch
<1>2. PICK q : /\ asked' = [asked EXCEPT ![c] = q]
               /\ IF asked[c] = Nothing THEN q \in Requests[c] ELSE q = asked[c]
    BY <1>1
<1>3. asked[c] \in Requests[c] \cup {Nothing} /\ Requests[c] \subseteq Request
      /\ Nothing \notin Request /\ Nothing \notin Bindings /\ c[1] \in Runs
    BY <1>0, MemoryAssumption, CallFacts DEF ThreadInv
<1>4. q \in Requests[c] /\ q \in Request /\ q # Nothing
    BY <1>2, <1>3
<1>5. /\ asked' \in [Calls -> Request \cup {Nothing}]
      /\ asked'[c] = q /\ \A d \in Calls \ {c} : asked'[d] = asked[d]
    BY <1>0, <1>2, <1>4 DEF TypeOK
<1>6. \A d \in Calls : asked[d] \in Requests[d] => asked'[d] = asked[d]
    BY <1>2, <1>3, <1>5
<1>7. bound' \in [Runs -> Bindings \cup {Nothing}]
      /\ \A x \in Runs : bound[x] \in Bindings => bound'[x] = bound[x]
    <2>1. CASE Binds(c[1])
        <3>1. bound' = [bound EXCEPT ![c[1]] = config] /\ bound[c[1]] \in {Nothing, config}
            BY <1>1, <2>1 DEF Bind, Binds
        <3> QED BY <1>0, <1>3, <3>1 DEF TypeOK
    <2>2. CASE ~Binds(c[1])
        BY <1>0, <1>1, <2>2 DEF Bind, TypeOK
    <2> QED BY <2>1, <2>2
<1>8. HeadInv' /\ TermInv' /\ IndexInv' /\ ForgetInv' /\ WrittenInv' /\ OperationInv' /\ AnswerInv'
    BY <1>0, <1>1, <1>6, <1>7, TablesKept
<1> DEFINE n0 == Next1(Unused(c))
           t0 == [at |-> "ready", out |-> Nothing,
                  lease |-> IF Binds(c[1]) THEN "open" ELSE "none"]
<1>9. t0 \in Thread /\ t0.at = "ready"
    BY DEF Thread
<1>10. threads' = [threads EXCEPT ![c][n0] = t0]
    BY DEF Dispatch
<1> HIDE DEF n0, t0
<1>11. /\ threads' \in [Calls -> [Attempts -> Thread]]
       /\ \A d \in Calls : \A i \in Attempts :
             threads'[d][i] = IF d = c /\ i = n0 THEN t0 ELSE threads[d][i]
    BY <1>0, <1>9, <1>10, ThreadMoves
<1>12. ThreadInv'
    <2> SUFFICES ASSUME NEW d \in Calls
                 PROVE  /\ (\E i \in Attempts : threads'[d][i].at = "claimed") =>
                              bound'[d[1]] = config'
                        /\ asked'[d] \in Requests[d] \cup {Nothing}
                        /\ (\E i \in Attempts : threads'[d][i].at # "none") => asked'[d] # Nothing
        BY DEF ThreadInv, Claimed
    <2>1. ASSUME NEW i \in Attempts, threads'[d][i].at = "claimed" PROVE bound'[d[1]] = config'
        <3>1. threads[d][i].at = "claimed"
            BY <1>9, <1>11, <2>1
        <3>2. bound[d[1]] = config /\ config \in Bindings /\ d[1] \in Runs
            BY <1>0, <3>1, CallFacts DEF ThreadInv, Claimed, TypeOK
        <3> QED BY <1>1, <1>7, <3>2
    <2>2. asked'[d] \in Requests[d] \cup {Nothing}
        BY <1>0, <1>4, <1>5 DEF ThreadInv
    <2>3. ASSUME NEW i \in Attempts, threads'[d][i].at # "none" PROVE asked'[d] # Nothing
        <3>1. CASE d = c
            BY <1>4, <1>5, <3>1
        <3>2. CASE d # c
            BY <1>0, <1>5, <1>11, <2>3, <3>2 DEF ThreadInv
        <3> QED BY <3>1, <3>2
    <2> QED BY <2>1, <2>2, <2>3
<1>13. TypeOK'
    BY <1>0, <1>1, <1>5, <1>7, <1>11 DEF TypeOK, tables
<1> QED BY <1>8, <1>12, <1>13 DEF IInv

\* What the handlers and the harness do around the store.
LEMMA ThreadSteps ==
    ASSUME IInv, NEW c \in Calls,
           Return(c) \/ Abandon(c) \/ \E n \in Attempts : Claim(c, n) \/ Fault(c, n)
    PROVE  IInv' /\ UNCHANGED <<store, answers>>
<1>0. /\ TypeOK /\ HeadInv /\ TermInv /\ IndexInv /\ ForgetInv /\ WrittenInv
      /\ OperationInv /\ AnswerInv /\ ThreadInv
    BY SMTT(30) DEF IInv
<1>1. UNCHANGED <<store, config, asked, answers>>
    BY DEF Return, Abandon, Claim, Fault
<1>2. UNCHANGED <<tables, bound>>
    BY <1>1 DEF store, tables
<1>3. HeadInv' /\ TermInv' /\ IndexInv' /\ ForgetInv' /\ WrittenInv' /\ OperationInv' /\ AnswerInv'
    BY <1>0, <1>1, <1>2, TablesKept
<1>4. ASSUME threads' \in [Calls -> [Attempts -> Thread]],
             \A d \in Calls : \A i \in Attempts :
                /\ threads'[d][i].at = "claimed" =>
                      threads[d][i].at = "claimed" \/ bound[d[1]] = config
                /\ threads'[d][i].at # "none" => threads[d][i].at # "none"
      PROVE  IInv'
    <2>1. TypeOK'
        BY <1>0, <1>1, <1>2, <1>4 DEF TypeOK, tables
    <2>2. ThreadInv'
        BY <1>0, <1>1, <1>2, <1>4 DEF ThreadInv, Claimed
    <2> QED BY <1>3, <2>1, <2>2 DEF IInv
<1>5. CASE Return(c)
    <2>1. UNCHANGED threads
        BY <1>5 DEF Return
    <2> QED BY <1>0, <1>1, <1>4, <2>1 DEF TypeOK
<1>6. CASE Abandon(c)
    <2>1. PICK n : n = waiting[c]
        OBVIOUS
    <2>2. threads' = [threads EXCEPT ![c][n] = Revoked(threads[c][n])]
        BY <1>0, <1>6, <2>1 DEF Abandon, TypeOK
    <2> DEFINE t == Revoked(threads[c][n])
    <2>3. n \in Attempts => t \in Thread /\ t.at = threads[c][n].at
        BY <1>0, ThreadTypes DEF TypeOK
    <2> HIDE DEF t
    <2>4. /\ threads' \in [Calls -> [Attempts -> Thread]]
          /\ \A d \in Calls : \A i \in Attempts :
                threads'[d][i] = IF d = c /\ i = n THEN t ELSE threads[d][i]
        BY <1>0, <2>2, <2>3, ThreadMoves DEF t
    <2> QED BY <1>1, <1>4, <2>3, <2>4
<1>7. ASSUME NEW n \in Attempts, Claim(c, n) PROVE IInv'
    <2>1. threads[c][n] \in Thread /\ threads[c][n].at = "ready"
        BY <1>0, <1>7 DEF TypeOK, Claim
    <2> DEFINE t == IF threads[c][n].lease = "open" /\ bound[c[1]] = config
                    THEN [threads[c][n] EXCEPT !.at = "claimed", !.lease = "claimed"]
                    ELSE Ended(Refused)
    <2>2. t \in Thread /\ (t.at = "claimed" => bound[c[1]] = config)
        <3>1. \A x \in Thread : LET y == [x EXCEPT !.at = "claimed", !.lease = "claimed"]
                                IN  y \in Thread
            BY DEF Thread
        <3> QED BY <2>1, <3>1, ThreadTypes
    <2>3. threads' = [threads EXCEPT ![c][n] = t]
        BY <1>0, <1>7 DEF Claim, TypeOK
    <2> HIDE DEF t
    <2>4. /\ threads' \in [Calls -> [Attempts -> Thread]]
          /\ \A d \in Calls : \A i \in Attempts :
                threads'[d][i] = IF d = c /\ i = n THEN t ELSE threads[d][i]
        BY <1>0, <2>2, <2>3, ThreadMoves
    <2> QED BY <1>4, <2>1, <2>2, <2>4
<1>8. ASSUME NEW n \in Attempts, Fault(c, n) PROVE IInv'
    <2>1. threads[c][n].at = "claimed" /\ threads' = [threads EXCEPT ![c][n] = Ended(Refused)]
        BY <1>8 DEF Fault
    <2>2. Ended(Refused) \in Thread /\ Ended(Refused).at = "ended"
        BY ThreadTypes
    <2>3. /\ threads' \in [Calls -> [Attempts -> Thread]]
          /\ \A d \in Calls : \A i \in Attempts :
                threads'[d][i] = IF d = c /\ i = n THEN Ended(Refused) ELSE threads[d][i]
        BY <1>0, <2>1, <2>2, ThreadMoves
    <2> QED BY <1>4, <2>1, <2>2, <2>3
<1> QED BY <1>1, <1>5, <1>6, <1>7, <1>8

\* The store operation of a handler.
LEMMA OperateStep ==
    ASSUME IInv, NEW c \in Calls, NEW n \in Attempts, Operate(c, n)
    PROVE  /\ IInv'
           /\ \A d \in Calls : answers[d] # Nothing /\ answers[d].ok => answers'[d] = answers[d]
<1>0. /\ TypeOK /\ HeadInv /\ TermInv /\ IndexInv /\ ForgetInv /\ WrittenInv
      /\ OperationInv /\ AnswerInv /\ ThreadInv
    BY DEF IInv
<1>1. /\ threads[c][n].at = "claimed" /\ UNCHANGED <<config, asked>>
      /\ Commit(c) \/ Reply(c)
    BY DEF Operate
<1>2. bound[c[1]] = config /\ asked[c] \in Requests[c]
    BY <1>1, ClaimedIsBound
<1>3. /\ HeadInv' /\ TermInv' /\ IndexInv' /\ ForgetInv' /\ WrittenInv' /\ OperationInv'
      /\ AnswerInv' /\ UNCHANGED bound
      /\ scopes' \in [Bindings -> ScopeRow]
      /\ versions' \in [Memories -> Seq(Version)]
      /\ heads' \in [Memories -> HeadRow]
      /\ terms' \subseteq Bindings \X Int \X Memories \X Nat
      /\ observations' \in [Memories \X Calls ->
            {Nothing} \cup [call : Calls, request : Request, result : Result]]
      /\ operations' \in [DOMAIN operations' -> [source : Calls, result : Result]]
      /\ erased' \in [Memories -> Key \cup {Nothing}]
      /\ answers' \in [Calls -> {Nothing} \cup [ok : BOOLEAN, value : Result \cup {Nothing}]]
      /\ \A d \in Calls : answers[d] # Nothing /\ answers[d].ok => answers'[d] = answers[d]
    <2>1. CASE Commit(c)
        <3>1. PICK r : Effect(c, r)
            BY <1>0, <1>1, <1>2, <2>1, CommitEffect
        <3>2. HeadInv' /\ TermInv' /\ IndexInv' /\ ForgetInv'
            BY <1>0, <1>2, <2>1, CommitKeepsIndex
        <3>3. WrittenInv'
            BY <1>0, <1>2, <3>1, EffectKeepsWritten
        <3>4. OperationInv'
            BY <1>0, <1>2, <3>1, EffectKeepsOperations
        <3>5. AnswerInv' /\ \A d \in Calls : answers[d] # Nothing /\ answers[d].ok =>
                                                 answers'[d] = answers[d]
            BY <1>0, <3>1, EffectKeepsAnswers
        <3> QED BY <1>0, <1>1, <1>2, <2>1, <3>2, <3>3, <3>4, <3>5, CommitTypes
    <2>2. CASE Reply(c)
        <3>1. UNCHANGED store /\ AnswerInv'
              /\ answers' \in [Calls -> {Nothing} \cup [ok : BOOLEAN, value : Result \cup {Nothing}]]
              /\ \A d \in Calls : answers[d] # Nothing /\ answers[d].ok => answers'[d] = answers[d]
            BY <1>1, <1>2, <2>2, ReplyAgrees
        <3>2. UNCHANGED <<tables, bound, asked>>
            BY <1>1, <3>1 DEF store, tables
        <3>3. HeadInv' /\ TermInv' /\ IndexInv' /\ ForgetInv' /\ WrittenInv' /\ OperationInv'
            BY <1>0, <3>2, TablesKept
        <3> QED BY <1>0, <3>1, <3>2, <3>3 DEF TypeOK, tables
    <2> QED BY <1>1, <2>1, <2>2
<1> DEFINE t == Ended(IF waiting[c] = n /\ answers'[c] # Nothing THEN answers'[c] ELSE Refused)
<1>4. t \in Thread /\ t.at = "ended"
    BY <1>3, ThreadTypes
<1>5. threads' = [threads EXCEPT ![c][n] = t]
    BY DEF Operate
<1> HIDE DEF t
<1>6. /\ threads' \in [Calls -> [Attempts -> Thread]]
      /\ \A d \in Calls : \A i \in Attempts :
            threads'[d][i] = IF d = c /\ i = n THEN t ELSE threads[d][i]
    BY <1>0, <1>4, <1>5, ThreadMoves
<1>7. ThreadInv'
    <2>1. \A d \in Calls : \A i \in Attempts :
             /\ threads'[d][i].at = "claimed" => threads[d][i].at = "claimed"
             /\ threads'[d][i].at # "none" => threads[d][i].at # "none"
        BY <1>1, <1>4, <1>6
    <2> QED BY <1>0, <1>1, <1>3, <2>1 DEF ThreadInv, Claimed
<1>8. TypeOK'
    BY <1>0, <1>1, <1>3, <1>6 DEF TypeOK
<1> QED BY <1>3, <1>7, <1>8 DEF IInv

\* A restart ends every handler.
LEMMA RestartStep ==
    ASSUME IInv, Restart
    PROVE  IInv' /\ UNCHANGED <<store, answers>>
<1>0. /\ TypeOK /\ HeadInv /\ TermInv /\ IndexInv /\ ForgetInv /\ WrittenInv
      /\ OperationInv /\ AnswerInv /\ ThreadInv
    BY DEF IInv
<1>1. /\ UNCHANGED <<store, asked, answers>> /\ config' \in Bindings
      /\ threads' = [c \in Calls |-> [n \in Attempts |->
            IF threads[c][n].at = "none" THEN NoThread ELSE Ended(Refused)]]
    BY DEF Restart
<1>2. UNCHANGED <<tables, bound>>
    BY <1>1 DEF store, tables
<1>3. HeadInv' /\ TermInv' /\ IndexInv' /\ ForgetInv' /\ WrittenInv' /\ OperationInv' /\ AnswerInv'
    BY <1>0, <1>1, <1>2, TablesKept
<1>4. /\ threads' \in [Calls -> [Attempts -> Thread]]
      /\ \A c \in Calls : \A n \in Attempts :
            /\ threads'[c][n].at # "claimed"
            /\ threads'[c][n].at # "none" => threads[c][n].at # "none"
    BY <1>1, ThreadTypes
<1>5. TypeOK'
    BY <1>0, <1>1, <1>2, <1>4 DEF TypeOK, tables
<1>6. ThreadInv'
    BY <1>0, <1>1, <1>4 DEF ThreadInv, Claimed
<1> QED BY <1>1, <1>3, <1>5, <1>6 DEF IInv

\* A rebuild changes the index and its scope only.
LEMMA RebuildStep ==
    ASSUME IInv, NEW d \in Bindings, Rebuild(d)
    PROVE  IInv' /\ UNCHANGED answers
<1>0. /\ TypeOK /\ HeadInv /\ TermInv /\ IndexInv /\ ForgetInv /\ WrittenInv
      /\ OperationInv /\ AnswerInv /\ ThreadInv
    BY DEF IInv
<1>1. /\ HeadInv' /\ TermInv' /\ IndexInv' /\ ForgetInv'
      /\ scopes' \in [Bindings -> ScopeRow]
      /\ \A b \in Bindings : scopes'[b].suppressed = scopes[b].suppressed
      /\ \A b \in Bindings \ {d} : scopes'[b] = scopes[b]
      /\ ~scopes[d].suppressed
      /\ terms' \subseteq Bindings \X Int \X Memories \X Nat
    BY <1>0, RebuildKeepsIndex
<1>2. UNCHANGED <<bound, versions, heads, observations, operations, erased, shunned,
                  config, asked, threads, answers>>
    BY DEF Rebuild
<1>3. \A c \in Calls : KeyOf(c)' = KeyOf(c)
    BY <1>2 DEF KeyOf
<1>4. TypeOK'
    BY <1>0, <1>1, <1>2 DEF TypeOK
<1>5. ThreadInv' /\ AnswerInv'
    BY <1>0, <1>2, <1>3 DEF ThreadInv, Claimed, AnswerInv, Ok
<1>6. WrittenInv'
    BY <1>0, <1>2 DEF WrittenInv, KeyOf
<1>7. OperationInv'
    <2> SUFFICES ASSUME NEW k \in DOMAIN operations
                 PROVE  \E c \in Calls, s \in Result, b \in Bindings :
                           /\ operations'[k] = [source |-> c, result |-> s]
                           /\ bound'[c[1]] = b /\ asked'[c] \in Requests[c]
                           /\ k = KeyOf(c)'
                           /\ StandsIn(b, c, k, s)'
        BY <1>2 DEF OperationInv
    <2>1. PICK c \in Calls, s \in Result, b \in Bindings :
             /\ operations[k] = [source |-> c, result |-> s]
             /\ bound[c[1]] = b /\ asked[c] \in Requests[c]
             /\ k = KeyOf(c)
             /\ StandsIn(b, c, k, s)
        BY <1>0 DEF OperationInv
    <2>2. scopes[b].suppressed => scopes'[b] = scopes[b]
        BY <1>1
    <2>3. StandsIn(b, c, k, s)'
        BY <1>2, <2>1, <2>2 DEF StandsIn, RememberStands, ExactStands
    <2> QED BY <1>2, <1>3, <2>1, <2>3
<1> QED BY <1>1, <1>2, <1>4, <1>5, <1>6, <1>7 DEF IInv

\* At first the tables are empty.
LEMMA InitInv == Init => IInv
<1> SUFFICES ASSUME Init PROVE IInv
    OBVIOUS
<1>1. \A r \in Runs : bound[r] = Nothing
    BY DEF Init
<1>2. \A m \in Memories : versions[m] = <<>> /\ heads[m] = NoHead /\ erased[m] = Nothing
    BY DEF Init
<1>3. terms = {} /\ operations = <<>> /\ DOMAIN operations = {} /\ Len(<<>>) = 0
    BY DEF Init
<1>4. \A c \in Calls : answers[c] = Nothing /\ asked[c] = Nothing
                       /\ \A n \in Attempts : threads[c][n] = NoThread
    BY DEF Init
<1>5. TypeOK
    <2>1. config \in Bindings /\ bound \in [Runs -> Bindings \cup {Nothing}]
          /\ asked \in [Calls -> Request \cup {Nothing}]
          /\ answers \in [Calls -> {Nothing} \cup [ok : BOOLEAN, value : Result \cup {Nothing}]]
          /\ erased \in [Memories -> Key \cup {Nothing}]
          /\ observations \in [Memories \X Calls ->
                {Nothing} \cup [call : Calls, request : Request, result : Result]]
        BY DEF Init
    <2>2. scopes \in [Bindings -> ScopeRow] /\ heads \in [Memories -> HeadRow]
        BY DEF Init, NoScope, NoHead, ScopeRow, HeadRow
    <2>3. versions \in [Memories -> Seq(Version)]
        BY DEF Init
    <2>4. threads \in [Calls -> [Attempts -> Thread]]
        BY ThreadTypes DEF Init
    <2>5. operations \in [DOMAIN operations -> [source : Calls, result : Result]]
        BY <1>3
    <2> QED BY <1>3, <2>1, <2>2, <2>3, <2>4, <2>5 DEF TypeOK
<1>6. \A b \in Bindings : Active(b) = {}
    BY <1>2 DEF Active, NoHead
<1>7. HeadInv
    BY <1>2, <1>3 DEF HeadInv, NoHead
<1>8. TermInv /\ IndexInv /\ ForgetInv
    BY <1>3, <1>6 DEF TermInv, IndexInv, ForgetInv
<1>9. ThreadInv
    BY <1>4, ThreadTypes DEF ThreadInv, Claimed
<1>10. WrittenInv
    <2>1. \A m \in Memories : DOMAIN versions[m] = {}
        BY <1>2
    <2> QED BY <2>1 DEF WrittenInv
<1>11. OperationInv /\ AnswerInv
    BY <1>3, <1>4 DEF OperationInv, AnswerInv
<1> QED BY <1>5, <1>7, <1>8, <1>9, <1>10, <1>11 DEF IInv

\* Every step keeps the invariant, and the answer to an accepted call.
LEMMA NextInv ==
    ASSUME IInv, [Next]_vars
    PROVE  /\ IInv'
           /\ \A d \in Calls : answers[d] # Nothing /\ answers[d].ok => answers'[d] = answers[d]
<1>0. config \in Bindings
    BY DEF IInv, TypeOK
<1>1. ASSUME NEW c \in Calls, Dispatch(c) PROVE IInv' /\ UNCHANGED answers
    BY <1>1, DispatchStep DEF Dispatch
<1>2. ASSUME NEW c \in Calls,
             Return(c) \/ Abandon(c) \/ \E n \in Attempts : Claim(c, n) \/ Fault(c, n)
      PROVE  IInv' /\ UNCHANGED answers
    BY <1>2, ThreadSteps
<1>3. ASSUME NEW c \in Calls, NEW n \in Attempts, Operate(c, n)
      PROVE  IInv' /\ \A d \in Calls : answers[d] # Nothing /\ answers[d].ok
                                          => answers'[d] = answers[d]
    BY <1>3, OperateStep
<1>4. CASE Rebuild(config)
    <2>1. PICK b \in Bindings : b = config
        BY <1>0
    <2>2. Rebuild(b)
        BY <1>4, <2>1
    <2> QED BY <2>2, RebuildStep
<1>5. CASE Restart
    BY <1>5, RestartStep
<1>6. CASE UNCHANGED vars
    <2>1. UNCHANGED <<bound, scopes, versions, heads, terms, observations, operations,
                      erased, shunned, config, asked, threads, answers>>
        BY <1>6 DEF vars, store
    <2>2. UNCHANGED tables
        BY <2>1 DEF tables
    <2>3. /\ HeadInv' /\ TermInv' /\ IndexInv' /\ ForgetInv' /\ WrittenInv' /\ OperationInv'
          /\ AnswerInv'
        BY <2>1, <2>2, TablesKept DEF IInv
    <2>4. TypeOK' /\ ThreadInv'
        BY <2>1 DEF IInv, TypeOK, ThreadInv, Claimed
    <2> QED BY <2>1, <2>3, <2>4 DEF IInv
<1> QED BY <1>1, <1>2, <1>3, <1>4, <1>5, <1>6 DEF Next

\* The invariant: heads, index, operations, answers and handlers agree.
THEOREM Inductive == Spec => []IInv
<1>1. IInv /\ [Next]_vars => IInv'
    BY NextInv
<1> QED BY <1>1, InitInv, PTL DEF Spec

\* The index of every binding holds exactly the current revision of each of
\* its active memories, and nothing an operator has forgotten is active,
\* whatever was replayed, remembered again or rebuilt in between.
THEOREM ForgottenStaysForgotten == Spec => []IndexIsExact
<1>1. IInv => IndexIsExact
    <2> SUFFICES ASSUME IInv, NEW b \in Bindings
                 PROVE  /\ {<<t[3], t[4]>> : t \in ActiveTerms(b)}
                              = {<<m, heads[m].revision>> : m \in Active(b)}
                        /\ scopes[b].suppressed => Active(b) = {}
                        /\ \A m \in Active(b) :
                              /\ erased[m] = Nothing
                              /\ <<b, versions[m][heads[m].revision].source>> \notin shunned
        BY DEF IndexIsExact
    <2>1. ASSUME NEW t \in ActiveTerms(b)
          PROVE  t[3] \in Active(b) /\ t[4] = heads[t[3]].revision
        BY DEF IInv, IndexInv, ActiveTerms
    <2>2. ASSUME NEW m \in Active(b)
          PROVE  \E t \in ActiveTerms(b) : t[3] = m /\ t[4] = heads[m].revision
        <3>1. Term(m, heads[m].revision) \in terms /\ m[1] = b
            BY DEF IInv, IndexInv, Active
        <3>2. Term(m, heads[m].revision)
                 = <<b, scopes[b].generation, m, heads[m].revision>>
            BY <3>1 DEF Term
        <3> QED BY <3>1, <3>2 DEF ActiveTerms
    <2>3. {<<t[3], t[4]>> : t \in ActiveTerms(b)}
             = {<<m, heads[m].revision>> : m \in Active(b)}
        BY <2>1, <2>2
    <2> QED BY <2>3 DEF IInv, ForgetInv
<1> QED BY <1>1, Inductive, PTL

\* However often, in however many threads and under whatever binding of the
\* process a call is dispatched, it writes only where its run was bound to
\* first, and at most one revision that stays.
THEOREM OneEffect == Spec => []OneEffectPerCall
<1>1. IInv => OneEffectPerCall
    <2> SUFFICES ASSUME IInv, NEW c \in Calls
                 PROVE  LET written == {w \in Memories \X (1 .. Cardinality(Calls)) :
                                           /\ w[2] \in DOMAIN versions[w[1]]
                                           /\ versions[w[1]][w[2]].source = c}
                        IN  /\ \A w \in written : w[1][1] = bound[c[1]]
                            /\ Cardinality({w \in written :
                                              versions[w[1]][w[2]].status = "active"}) <= 1
        BY DEF OneEffectPerCall
    <2> DEFINE written == {w \in Memories \X (1 .. Cardinality(Calls)) :
                              /\ w[2] \in DOMAIN versions[w[1]]
                              /\ versions[w[1]][w[2]].source = c}
               active == {w \in written : versions[w[1]][w[2]].status = "active"}
    <2>1. \A w \in written : w[1][1] = bound[c[1]]
        BY DEF IInv, WrittenInv
    <2>2. \A w, x \in active : w = x
        <3> SUFFICES ASSUME NEW w \in active, NEW x \in active PROVE w = x
            OBVIOUS
        <3>1. /\ w \in Memories \X (1 .. Cardinality(Calls))
              /\ x \in Memories \X (1 .. Cardinality(Calls))
              /\ w[2] \in DOMAIN versions[w[1]] /\ x[2] \in DOMAIN versions[x[1]]
              /\ versions[w[1]][w[2]].source = c /\ versions[w[1]][w[2]].status = "active"
              /\ versions[x[1]][x[2]].source = c /\ versions[x[1]][x[2]].status = "active"
            OBVIOUS
        <3>2. x[1] = w[1] /\ x[2] = w[2]
            BY <3>1 DEF IInv, WrittenInv
        <3> QED BY <3>1, <3>2
    <2> HIDE DEF active
    <2>3. Cardinality(active) <= 1
        <3>1. CASE active = {}
            BY <3>1, FS_EmptySet
        <3>2. CASE active # {}
            <4>1. PICK w : active = {w}
                BY <2>2, <3>2
            <4>2. Cardinality({w}) = 1
                BY FS_Singleton
            <4> QED BY <4>1, <4>2
        <3> QED BY <3>1, <3>2
    <2> QED BY <2>1, <2>3 DEF active
<1> QED BY <1>1, Inductive, PTL

\* A call the store has accepted is given the same answer for ever.
THEOREM SameAnswerForEver == Spec => RepeatedRequestsAgree
<1>1. IInv /\ [Next]_vars =>
         [\A c \in Calls : answers[c] # Nothing /\ answers[c].ok => answers'[c] = answers[c]]_vars
    BY NextInv
<1> QED BY <1>1, Inductive, PTL DEF Spec, RepeatedRequestsAgree

\* What a search returns is what is active.
RecallsActive == \A b \in Bindings : Recall(b) = Active(b)

\* With its index in step, a search finds the active memories and no other.
LEMMA RecallIsActive == IInv => RecallsActive
<1> SUFFICES ASSUME IInv, NEW b \in Bindings PROVE Recall(b) = Active(b)
    BY DEF RecallsActive
<1>1. CASE scopes[b].suppressed
    BY <1>1 DEF Recall, IInv, ForgetInv
<1>2. CASE ~scopes[b].suppressed
    <2> DEFINE found == {t \in ActiveTerms(b) :
                            /\ heads[t[3]].status = "active"
                            /\ heads[t[3]].revision = t[4]
                            /\ erased[t[3]] = Nothing
                            /\ <<b, versions[t[3]][t[4]].source>> \notin shunned}
    <2>1. \A t \in found : t[3] \in Active(b)
        BY DEF IInv, IndexInv, ActiveTerms
    <2>2. ASSUME NEW m \in Active(b) PROVE \E t \in found : t[3] = m
        <3>1. Term(m, heads[m].revision) \in terms /\ m[1] = b /\ heads[m].status = "active"
              /\ erased[m] = Nothing
              /\ <<b, versions[m][heads[m].revision].source>> \notin shunned
            BY DEF IInv, IndexInv, ForgetInv, Active
        <3>2. Term(m, heads[m].revision)
                 = <<b, scopes[b].generation, m, heads[m].revision>>
            BY <3>1 DEF Term
        <3>3. PICK t : t = <<b, scopes[b].generation, m, heads[m].revision>>
            OBVIOUS
        <3>4. t[1] = b /\ t[2] = scopes[b].generation /\ t[3] = m /\ t[4] = heads[m].revision
            BY <3>3
        <3>5. t \in ActiveTerms(b)
            BY <3>1, <3>2, <3>3, <3>4 DEF ActiveTerms
        <3>6. t \in found
            BY <3>1, <3>4, <3>5
        <3> QED BY <3>4, <3>6
    <2>3. Recall(b) = {t[3] : t \in found}
        BY <1>2 DEF Recall
    <2> HIDE DEF found
    <2> QED BY <2>1, <2>2, <2>3
<1> QED BY <1>1, <1>2

\* A step that changes what is active advances the scope's revision.
Advances ==
    \A b \in Bindings :
        /\ scopes'[b].revision >= scopes[b].revision
        /\ Active(b)' # Active(b) => scopes'[b].revision > scopes[b].revision

\* No step changes what a search finds without a new revision of its scope.
LEMMA StepAdvances ==
    ASSUME IInv, [Next]_vars
    PROVE  Advances
<1>0. /\ TypeOK /\ HeadInv /\ TermInv /\ IndexInv /\ ForgetInv
    BY DEF IInv
<1>1. config \in Bindings /\ \A b \in Bindings : scopes[b].revision \in Int
    BY <1>0 DEF TypeOK, ScopeRow
<1>2. ASSUME UNCHANGED <<scopes, heads>> PROVE Advances
    BY <1>1, <1>2 DEF Advances, Active
<1>3. ASSUME NEW c \in Calls, NEW n \in Attempts, Operate(c, n) PROVE Advances
    <2>1. bound[c[1]] = config /\ asked[c] \in Requests[c]
        BY <1>3, ClaimedIsBound DEF Operate
    <2>2. CASE Reply(c)
        BY <1>2, <2>2 DEF Reply, store
    <2>3. CASE Remember(c)
        <3>1. PICK m \in Memories :
                 /\ m[1] = config /\ \A x \in Memories \ {m} : Kept(x)
                 /\ scopes' = [scopes EXCEPT ![config].revision = @ + 1,
                                             ![config].sequence = @ + 1]
            <4>1. /\ Item(c) \in Memories /\ Item(c)[1] = config
                  /\ \A x \in Memories \ {Item(c)} : Kept(x)
                  /\ scopes' = [scopes EXCEPT ![config].revision = @ + 1,
                                              ![config].sequence = @ + 1]
                BY <1>0, <2>1, <2>3, Remembering
            <4> QED BY <4>1
        <3>2. scopes'[config].revision = scopes[config].revision + 1
              /\ \A b \in Bindings \ {config} : scopes'[b] = scopes[b]
            BY <1>0, <3>1, ScopeRemembers
        <3>3. \A b \in Bindings \ {config} : Active(b)' = Active(b)
            BY <3>1 DEF Active, Kept
        <3> QED BY <1>1, <3>2, <3>3 DEF Advances
    <2>4. CASE ForgetExact(c) \/ ForgetSource(c) \/ ForgetScope(c)
        <3>1. PICK M : Erases(c, M)
            BY <1>0, <2>1, <2>4, Erasures
        <3>2. /\ M \subseteq Memories /\ \A m \in M : m[1] = config
              /\ \A m \in Memories \ M : heads'[m] = heads[m]
            BY <1>0, <3>1, Tombstones
        <3>3. /\ scopes'[config].revision = scopes[config].revision + Cardinality(M)
              /\ \A b \in Bindings \ {config} : scopes'[b] = scopes[b]
            BY <3>1 DEF Erases
        <3>4. Cardinality(M) \in Nat /\ (Cardinality(M) = 0 => M = {})
            BY <3>2, OfBinding
        <3>5. \A b \in Bindings : b # config \/ M = {} => Active(b)' = Active(b)
            BY <3>2 DEF Active
        <3> QED BY <1>1, <3>3, <3>4, <3>5 DEF Advances
    <2>5. CASE ForgetAgain(c)
        BY <1>2, <2>5 DEF ForgetAgain
    <2> QED BY <1>3, <2>2, <2>3, <2>4, <2>5 DEF Operate, Commit
<1>4. CASE Rebuild(config)
    <2>1. PICK d \in Bindings : d = config /\ Rebuild(d)
        BY <1>1, <1>4
    <2>2. scopes'[d].revision = scopes[d].revision + 1
          /\ \A b \in Bindings \ {d} : scopes'[b] = scopes[b]
        BY <1>0, <2>1, RebuildKeepsIndex
    <2>3. \A b \in Bindings : Active(b)' = Active(b)
        BY <2>1, SMTT(30) DEF Rebuild, Active
    <2> QED BY <1>1, <2>2, <2>3 DEF Advances
<1>5. ASSUME NEW c \in Calls,
             Dispatch(c) \/ Return(c) \/ Abandon(c)
             \/ \E n \in Attempts : Claim(c, n) \/ Fault(c, n)
      PROVE  Advances
    BY <1>2, <1>5 DEF Dispatch, Return, Abandon, Claim, Fault, store, tables
<1>6. CASE Restart
    BY <1>2, <1>6 DEF Restart, store
<1>7. CASE UNCHANGED vars
    BY <1>2, <1>7 DEF vars, store
<1> QED BY <1>3, <1>4, <1>5, <1>6, <1>7 DEF Next

\* No change of what a search returns goes unnoticed by somebody who compares
\* collection revisions, which never go back.
THEOREM EveryChangeIsVisible == Spec => RecallChangesAreVisible
<1>1. IInv /\ RecallsActive /\ RecallsActive' /\ [Next]_vars =>
         [\A b \in Bindings :
             /\ scopes'[b].revision >= scopes[b].revision
             /\ Recall(b)' # Recall(b) => scopes'[b].revision > scopes[b].revision]_vars
    <2> SUFFICES ASSUME IInv, RecallsActive, RecallsActive', [Next]_vars
                 PROVE  \A b \in Bindings :
                           /\ scopes'[b].revision >= scopes[b].revision
                           /\ Recall(b)' # Recall(b) => scopes'[b].revision > scopes[b].revision
        OBVIOUS
    <2>1. Advances
        BY StepAdvances
    <2>2. \A b \in Bindings : Recall(b) = Active(b) /\ Recall(b)' = Active(b)'
        BY DEF RecallsActive
    <2> QED BY <2>1, <2>2 DEF Advances
<1>2. Spec => []RecallsActive
    BY RecallIsActive, Inductive, PTL
<1> QED BY <1>1, <1>2, Inductive, PTL DEF Spec, RecallChangesAreVisible
=============================================================================
