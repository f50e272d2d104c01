------------------------- MODULE PartsContext_proofs -------------------------
(***************************************************************************)
(* Proof about the context budget of Parts: that what Project and the      *)
(* compaction send keeps all it can.  Atoms, turns and the loop of Project *)
(* are recursive functions over a history of any length; what they compute *)
(* is shown by induction, from the least element of a set of naturals.     *)
(* Everything that is ever sent has one Form: the leading system messages, *)
(* an optional marker, the rest of the prefix, an optional marker or       *)
(* summary, and the atoms from some turn on; the lemmas are about forms.   *)
(***************************************************************************)
EXTENDS PartsCalls_proofs

\* What conversations are made of, and what is sent.
Messages ==
    (UNION {{h[i] : i \in DOMAIN h} : h \in Histories})
    \cup {Context!Message("system", 1)} \cup {Context!Message("protected", 1 + n) : n \in Nat}
Sent == [from : Nat, as : {"itself", "note", "errors", "marker"}, units : Nat]

\* A message has some units and a sequence of calls, a result no calls.
LEMMA MessageFacts ==
    ASSUME NEW m \in Messages
    PROVE  /\ m.units \in Nat /\ Len(m.calls) \in Nat /\ DOMAIN m.calls = 1 .. Len(m.calls)
           /\ m.role = "tool" => m.calls = <<>>
           /\ m.calls = <<>> <=> Len(m.calls) = 0
<1>1. CASE m \in UNION {{h[i] : i \in DOMAIN h} : h \in Histories}
    <2>0. PICK h \in Histories : m \in {h[i] : i \in DOMAIN h}
        BY <1>1
    <2>1. PICK i \in DOMAIN h : m = h[i]
        BY <2>0
    <2>2. /\ m.units \in Nat
          /\ m.calls \in Seq({m.calls[a] : a \in DOMAIN m.calls})
          /\ m.role = "tool" => m.calls = <<>>
        BY <2>1, ConversationsAssumption
    <2> DEFINE S == {m.calls[a] : a \in DOMAIN m.calls}
               c == m.calls
    <2>3. c \in Seq(S)
        BY <2>2
    <2> HIDE DEF S, c
    <2>4. Len(c) \in Nat /\ DOMAIN c = 1 .. Len(c) /\ (c # <<>> => Len(c) # 0)
        BY <2>3, LenProperties, EmptySeq
    <2> QED BY <2>2, <2>4 DEF c
<1>2. CASE m \notin UNION {{h[i] : i \in DOMAIN h} : h \in Histories}
    <2>0. m = Context!Message("system", 1) \/ m \in {Context!Message("protected", 1 + n) : n \in Nat}
        <3> DEFINE A == UNION {{h[i] : i \in DOMAIN h} : h \in Histories}
                   C == {Context!Message("protected", 1 + n) : n \in Nat}
        <3>1. m \in (A \cup {Context!Message("system", 1)}) \cup C
            BY DEF Messages
        <3>2. m \notin A
            BY <1>2
        <3> HIDE DEF A, C
        <3>3. m = Context!Message("system", 1) \/ m \in C
            BY <3>1, <3>2
        <3> QED BY <3>3 DEF C
    <2>1. m.units \in Nat /\ m.calls = <<>>
        <3>1. CASE m = Context!Message("system", 1)
            BY <3>1 DEF Context!Message
        <3>2. CASE m \in {Context!Message("protected", 1 + n) : n \in Nat}
            <4>1. PICK n \in Nat : m = Context!Message("protected", 1 + n)
                BY <3>2
            <4> QED BY <4>1 DEF Context!Message
        <3> QED BY <2>0, <3>1, <3>2
    <2>2. DOMAIN <<>> = 1 .. Len(<<>>) /\ Len(<<>>) = 0
        OBVIOUS
    <2> QED BY <2>1, <2>2
<1> QED BY <1>1, <1>2

\* A conversation has a length and places.
LEMMA Places ==
    ASSUME NEW h \in Seq(Messages)
    PROVE  /\ Len(h) \in Nat /\ DOMAIN h = 1 .. Len(h)
           /\ \A i \in 1 .. Len(h) : h[i] \in Messages
BY LenProperties, ElementOfSeq

-----------------------------------------------------------------------------
\* The instance counts as FiniteSets does.
LEMMA ContextCounting ==
    /\ \A S : Context!Cardinality(S) = Cardinality(S)
    /\ \A S : Context!IsFiniteSet(S) <=> IsFiniteSet(S)
BY DEF Cardinality, Context!Cardinality, IsFiniteSet, Context!IsFiniteSet

-----------------------------------------------------------------------------
\* Atoms.

\* The results after a message are the tool messages up to the next message
\* of another role.
LEMMA ResultsFacts ==
    ASSUME NEW h \in Seq(Messages), NEW i \in 1 .. Len(h)
    PROVE  /\ Context!ResultsEnd(h, i) \in i .. Len(h)
           /\ \A k \in i + 1 .. Context!ResultsEnd(h, i) : h[k].role = "tool"
           /\ Context!ResultsEnd(h, i) < Len(h) => h[Context!ResultsEnd(h, i) + 1].role # "tool"
<1> DEFINE R == {j \in i .. Len(h) : \A k \in i + 1 .. j : h[k].role = "tool"}
           e == Context!ResultsEnd(h, i)
<1>0. Len(h) \in Nat
    BY Places
<1>1. i \in R
    BY <1>0
<1>2. \E j \in R : \A k \in R : k <= j
    <2>1. R \subseteq i .. Len(h) /\ R # {}
        BY <1>1
    <2>2. i \in Int /\ Len(h) \in Int
        BY <1>0
    <2> HIDE DEF R
    <2> QED BY <2>1, <2>2, GreatestOf, Zenon
<1>3. e \in R /\ \A k \in R : k <= e
    <2>1. e = CHOOSE j \in R : \A k \in R : k <= j
        BY DEF Context!ResultsEnd
    <2> HIDE DEF R, e
    <2> QED BY <2>1, <1>2
<1> HIDE DEF e
<1>4. ASSUME e < Len(h), h[e + 1].role = "tool" PROVE FALSE
    <2>1. e + 1 \in i .. Len(h)
        BY <1>3, <1>4, <1>0
    <2>2. \A k \in i + 1 .. e + 1 : k \in i + 1 .. e \/ k = e + 1
        BY <1>3, <1>0
    <2>3. e + 1 \in R
        BY <2>1, <2>2, <1>3, <1>4
    <2> QED BY <2>3, <1>3, <1>0
<1> QED BY <1>3, <1>4 DEF e

\* Every message is an atom's first or one of its results, when the first
\* message is no result.
LEMMA AtomOf ==
    ASSUME NEW h \in Seq(Messages), NEW a \in Context!AtomStarts(h), NEW j \in a .. Len(h)
    PROVE  \E i \in Context!AtomStarts(h) : a <= i /\ (j = i \/ j \in Context!Results(h, i))
<1> DEFINE A == {i \in a .. j : h[i].role # "tool"}
<1>0. Len(h) \in Nat /\ DOMAIN h = 1 .. Len(h) /\ a \in 1 .. Len(h) /\ h[a].role # "tool"
    BY Places DEF Context!AtomStarts
<1>1. A \subseteq a .. j /\ A # {}
    BY <1>0
<1> HIDE DEF A
<1>2. PICK i \in A : \A k \in A : k <= i
    <2>1. a \in Int /\ j \in Int
        BY <1>0
    <2> QED BY <1>1, <2>1, GreatestOf, Zenon
<1>3. i \in a .. j /\ i \in Context!AtomStarts(h) /\ a <= i
    BY <1>0, <1>2 DEF A, Context!AtomStarts
<1>4. CASE j # i
    <2>1. i \in 1 .. Len(h)
        BY <1>0, <1>3
    <2>2. ASSUME ~(j <= Context!ResultsEnd(h, i)) PROVE FALSE
        <3> DEFINE e == Context!ResultsEnd(h, i)
        <3>1. e \in i .. Len(h) /\ (e < Len(h) => h[e + 1].role # "tool")
            BY <2>1, ResultsFacts
        <3> HIDE DEF e
        <3>2. e + 1 \in a .. j /\ e < Len(h) /\ ~(e + 1 <= i)
            BY <3>1, <2>2, <1>3, <1>0 DEF e
        <3>3. e + 1 \in A
            BY <3>1, <3>2 DEF A
        <3> QED BY <3>2, <3>3, <1>2
    <2>3. Context!ResultsEnd(h, i) \in Int
        BY <2>1, <1>0, ResultsFacts
    <2>4. j \in i + 1 .. Context!ResultsEnd(h, i)
        BY <2>2, <2>3, <1>3, <1>4, <1>0
    <2> QED BY <2>4, <1>3 DEF Context!Results
<1> QED BY <1>3, <1>4

\* What an atom becomes: a sequence of messages to be sent.
LEMMA AtomType ==
    ASSUME NEW h \in Seq(Messages), NEW i \in 1 .. Len(h)
    PROVE  /\ Cardinality(Context!Results(h, i)) = Context!ResultsEnd(h, i) - i
           /\ Context!Normalized(h, i) => Len(Context!WireAtom(h, i)) = 2
           /\ ~Context!Normalized(h, i) =>
                 /\ Len(Context!WireAtom(h, i)) = 1 + Context!ResultsEnd(h, i) - i
                 /\ \A k \in 1 .. 1 + Context!ResultsEnd(h, i) - i :
                       Context!WireAtom(h, i)[k] = Context!Plain(h, i + k - 1)
           /\ Context!WireAtom(h, i) \in Seq(Sent)
<1> DEFINE e == Context!ResultsEnd(h, i)
<1>0. Len(h) \in Nat /\ e \in i .. Len(h)
    BY Places, ResultsFacts
<1>1. Cardinality(Context!Results(h, i)) = e - i
    <2> HIDE DEF e
    <2>1. Cardinality(i + 1 .. e) = IF i + 1 > e THEN 0 ELSE e - (i + 1) + 1
        BY <1>0, FS_Interval
    <2>2. (IF i + 1 > e THEN 0 ELSE e - (i + 1) + 1) = e - i
        BY <1>0
    <2> QED BY <2>1, <2>2 DEF Context!Results, e
<1>2. CASE Context!Normalized(h, i)
    <2>1. Context!WireAtom(h, i) = <<Context!Note(i), Context!Error(i)>>
        BY <1>2 DEF Context!WireAtom
    <2>2. Context!Note(i) \in Sent /\ Context!Error(i) \in Sent
        BY DEF Context!Note, Context!Error, Sent
    <2> HIDE DEF e
    <2>3. <<Context!Note(i), Context!Error(i)>> \in Seq(Sent)
            /\ Len(<<Context!Note(i), Context!Error(i)>>) = 2
        BY <2>2
    <2> QED BY <1>1, <1>2, <2>1, <2>3 DEF e
<1>3. CASE ~Context!Normalized(h, i)
    <2> DEFINE n == 1 + e - i
               s == [k \in 1 .. n |-> Context!Plain(h, i + k - 1)]
    <2>1. Context!WireAtom(h, i) = s
        <3>1. 1 + Context!Cardinality(Context!Results(h, i)) = n
            BY <1>1, <1>0, ContextCounting
        <3> QED BY <3>1, <1>3 DEF Context!WireAtom
    <2>2. n \in Nat
        BY <1>0
    <2>3. ASSUME NEW k \in 1 .. n PROVE Context!Plain(h, i + k - 1) \in Sent
        <3>1. i + k - 1 \in 1 .. Len(h) /\ i + k - 1 \in Nat
            BY <1>0
        <3>2. h[i + k - 1].units \in Nat
            BY <3>1, Places, MessageFacts
        <3> QED BY <3>1, <3>2 DEF Context!Plain, Sent
    <2> HIDE DEF n, e
    <2>4. s \in Seq(Sent)
        BY <2>2, <2>3
    <2>5. Len(s) = n
        BY <2>2
    <2> QED BY <1>1, <1>3, <2>1, <2>4, <2>5 DEF n, e
<1> QED BY <1>2, <1>3

-----------------------------------------------------------------------------
\* Units.

\* The sum of a sequence of units.
LEMMA UnitsFacts ==
    ASSUME NEW s \in Seq(Sent)
    PROVE  \E f \in [0 .. Len(s) -> Nat] :
              /\ f[0] = 0 /\ \A n \in 1 .. Len(s) : f[n] = f[n - 1] + s[n].units
              /\ Context!Units(s) = f[Len(s)]
<1> DEFINE L == Len(s)
           D == (0 + 1 .. L) \X Nat
           step == [p \in D |-> p[2] + s[p[1]].units]
           Is(f) == f = [n \in 0 .. L |-> IF n = 0 THEN 0 ELSE f[n - 1] + s[n].units]
<1>0. L \in Nat /\ \A n \in 1 .. L : s[n] \in Sent /\ s[n].units \in Nat
    <2>1. L \in Nat /\ \A n \in 1 .. L : s[n] \in Sent
        BY LenProperties, ElementOfSeq
    <2> QED BY <2>1 DEF Sent
<1>1. step \in [D -> Nat]
    BY <1>0
<1>2. \A n \in 1 .. L, v \in Nat : step[<<n, v>>] = v + s[n].units
    BY <1>0
<1> HIDE DEF step, L
<1>r. PICK f \in [0 .. L -> Nat] : Recursive(f, 0, L, 0, step)
    <2>1. 0 \in Int /\ L \in Int /\ 0 <= L /\ 0 \in Nat
        BY <1>0
    <2> QED BY <1>1, <2>1, Recursion
<1>3. f[0] = 0 /\ \A n \in 1 .. L : f[n] = step[<<n, f[n - 1]>>]
    BY <1>r DEF Recursive
<1>4. \A n \in 1 .. L : f[n] = f[n - 1] + s[n].units
    <2> TAKE n \in 1 .. L
    <2>1. n - 1 \in 0 .. L /\ f[n - 1] \in Nat
        BY <1>0
    <2> QED BY <2>1, <1>2, <1>3
<1>5. Is(f)
    BY <1>0, <1>3, <1>4
<1> DEFINE g == CHOOSE x : Is(x)
<1>6. Is(g)
    BY <1>5
<1>7. Context!Units(s) = g[L]
    BY Zenon DEF Context!Units, L
<1>8. g[0] = 0 /\ \A n \in 1 .. L : g[n] = g[n - 1] + s[n].units
    <2> HIDE DEF g
    <2> QED BY <1>6, <1>0
<1>9. \A n \in 0 .. L : g[n] = f[n]
    <2> HIDE DEF g
    <2>1. StayAlike(g, f, 0, L)
        BY <1>8, <1>4 DEF StayAlike
    <2>3. 0 \in Int /\ L \in Int /\ g[0] = f[0]
        BY <1>0, <1>3, <1>8
    <2>2. Alike(g, f, 0, L)
        BY <2>1, <2>3, SameRecursion
    <2> QED BY <2>2 DEF Alike
<1>10. Context!Units(s) = f[L]
    BY <1>7, <1>9, <1>0
<1> QED BY <1>3, <1>4, <1>10 DEF L

\* Of nothing, of one message and of one sequence after another.
LEMMA UnitsEmpty == Context!Units(<<>>) = 0
<1>1. <<>> \in Seq(Sent) /\ Len(<<>>) = 0
    OBVIOUS
<1> QED BY <1>1, UnitsFacts

\* What a longer sequence costs is what its parts cost.
LEMMA UnitsConcat ==
    ASSUME NEW s \in Seq(Sent), NEW t \in Seq(Sent)
    PROVE  Context!Units(s) \in Nat /\ Context!Units(s \o t) = Context!Units(s) + Context!Units(t)
<1> DEFINE L == Len(s)
           M == Len(t)
           u == s \o t
<1>1. /\ L \in Nat /\ M \in Nat /\ u \in Seq(Sent) /\ Len(u) = L + M
      /\ \A i \in 1 .. L + M : u[i] = IF i <= L THEN s[i] ELSE t[i - L]
    BY LenProperties, ConcatProperties
<1>2. PICK f \in [0 .. L -> Nat] : /\ f[0] = 0 /\ \A n \in 1 .. L : f[n] = f[n - 1] + s[n].units
                                   /\ Context!Units(s) = f[L]
    BY UnitsFacts
<1>3. PICK g \in [0 .. M -> Nat] : /\ g[0] = 0 /\ \A n \in 1 .. M : g[n] = g[n - 1] + t[n].units
                                   /\ Context!Units(t) = g[M]
    BY UnitsFacts
<1> HIDE DEF u
<1>4. PICK k \in [0 .. Len(u) -> Nat] : /\ k[0] = 0 /\ \A n \in 1 .. Len(u) : k[n] = k[n - 1] + u[n].units
                                        /\ Context!Units(u) = k[Len(u)]
    BY <1>1, UnitsFacts
<1> HIDE DEF L, M
<1>5. \A n \in 0 .. L : k[n] = f[n]
    <2>1. \A n \in 0 + 1 .. L : k[n - 1] = f[n - 1] => k[n] = f[n]
        <3> TAKE n \in 0 + 1 .. L
        <3>1. n \in 1 .. L + M /\ n <= L
            BY <1>1
        <3>2. u[n] = s[n] /\ k[n] = k[n - 1] + u[n].units
            BY <3>1, <1>1, <1>4
        <3> QED BY <3>1, <3>2, <1>2
    <2>2. StayAlike(k, f, 0, L) /\ k[0] = f[0]
        BY <2>1, <1>2, <1>4 DEF StayAlike
    <2>4. 0 \in Int /\ L \in Int
        BY <1>1
    <2>3. Alike(k, f, 0, L)
        BY <2>2, <2>4, SameRecursion
    <2> QED BY <2>3 DEF Alike
<1>6. \A n \in 0 .. M : k[L + n] = f[L] + g[n]
    <2> DEFINE a == [n \in 0 .. M |-> k[L + n]]
               b == [n \in 0 .. M |-> f[L] + g[n]]
    <2>1. a[0] = b[0]
        BY <1>1, <1>2, <1>3, <1>5
    <2>2. ASSUME NEW n \in 0 + 1 .. M, a[n - 1] = b[n - 1] PROVE a[n] = b[n]
        <3>1. L + n \in 1 .. L + M /\ ~(L + n <= L) /\ (L + n) - L = n /\ (L + n) - 1 = L + (n - 1)
              /\ n \in 0 .. M /\ n - 1 \in 0 .. M /\ n \in 1 .. M
            BY <1>1
        <3>a. u[L + n] = IF L + n <= L THEN s[L + n] ELSE t[(L + n) - L]
            <4> DEFINE i == L + n
            <4>1. i \in 1 .. L + M
                BY <3>1
            <4> HIDE DEF i
            <4>2. u[i] = IF i <= L THEN s[i] ELSE t[i - L]
                BY <4>1, <1>1
            <4> QED BY <4>2 DEF i
        <3>2. u[L + n] = t[n]
            BY <3>1, <3>a
        <3>b. k[L + n] = k[(L + n) - 1] + u[L + n].units
            BY <3>1, <1>1, <1>4
        <3>3. k[L + n] = k[L + (n - 1)] + t[n].units
            BY <3>1, <3>2, <3>b
        <3>4. k[L + (n - 1)] = f[L] + g[n - 1]
            BY <3>1, <2>2
        <3>5. f[L] \in Nat /\ g[n - 1] \in Nat /\ g[n] = g[n - 1] + t[n].units
            <4>1. L \in 0 .. L
                BY <1>1
            <4> QED BY <4>1, <3>1, <1>2, <1>3
        <3>6. t[n].units \in Nat
            <4>1. t[n] \in Sent
                BY <3>1, ElementOfSeq DEF M
            <4> QED BY <4>1 DEF Sent
        <3>7. k[L + n] = f[L] + g[n]
            BY <3>3, <3>4, <3>5, <3>6
        <3> QED BY <3>7, <3>1
    <2> HIDE DEF a, b
    <2>3. StayAlike(a, b, 0, M)
        BY <2>2 DEF StayAlike
    <2>5. 0 \in Int /\ M \in Int
        BY <1>1
    <2>4. Alike(a, b, 0, M)
        BY <2>1, <2>3, <2>5, SameRecursion
    <2> QED BY <2>4 DEF a, b, Alike
<1>7. k[L + M] = f[L] + g[M]
    BY <1>6, <1>1
<1> QED BY <1>1, <1>2, <1>3, <1>4, <1>7 DEF u

-----------------------------------------------------------------------------
\* The wire history.

Piece(h, n) == IF n \in Context!AtomStarts(h) THEN Context!WireAtom(h, n) ELSE <<>>

\* A piece is a sequence of sent messages.
LEMMA PieceType ==
    ASSUME NEW h \in Seq(Messages), NEW n \in 1 .. Len(h)
    PROVE  Piece(h, n) \in Seq(Sent)
BY AtomType DEF Piece

\* A function that grows as the wire history does.
Grows(h, a, b, f) == f[a - 1] = <<>> /\ \A n \in a .. b : f[n] = f[n - 1] \o Piece(h, n)

\* It grows message by message.
LEMMA WireFacts ==
    ASSUME NEW h \in Seq(Messages), NEW a \in 1 .. Len(h) + 1, NEW b \in a - 1 .. Len(h)
    PROVE  \E f \in [a - 1 .. b -> Seq(Sent)] :
              Grows(h, a, b, f) /\ Context!Wire(h, a, b) = f[b]
<1> DEFINE S == Seq(Sent)
           z == a - 1
           D == (z + 1 .. b) \X S
           step == [p \in D |-> p[2] \o Piece(h, p[1])]
           Is(f) == f = [n \in z .. b |->
                           IF n = z THEN <<>>
                           ELSE IF n \in Context!AtomStarts(h)
                              THEN f[n - 1] \o Context!WireAtom(h, n)
                              ELSE f[n - 1]]
<1>0. /\ Len(h) \in Nat /\ z \in Int /\ b \in Int /\ z <= b /\ z + 1 = a
      /\ z \in z .. b /\ b \in z .. b
      /\ \A n \in z .. b : n = z \/ n \in a .. b
      /\ \A n \in a .. b : n \in 1 .. Len(h) /\ n # z /\ n \in z .. b /\ n - 1 \in z .. b
    BY Places
<1>1. \A n \in a .. b : Piece(h, n) \in S
    BY <1>0, PieceType
<1>2. step \in [D -> S]
    <2>1. ASSUME NEW p \in D PROVE p[2] \o Piece(h, p[1]) \in S
        <3>1. p[2] \in S /\ p[1] \in a .. b
            BY <1>0
        <3>2. Piece(h, p[1]) \in S
            BY <3>1, <1>1
        <3> QED BY <3>1, <3>2, ConcatProperties
    <2> HIDE DEF D, S
    <2> QED BY <2>1
<1>3. \A n \in a .. b, v \in S : step[<<n, v>>] = v \o Piece(h, n)
    BY <1>0
<1>4. <<>> \in S
    OBVIOUS
<1> HIDE DEF step, S, z
<1>i. z \in Int /\ b \in Int /\ z <= b
    BY <1>0
<1>r. PICK f \in [z .. b -> S] : Recursive(f, z, b, <<>>, step)
    BY <1>i, <1>2, <1>4, Recursion
<1>5. f[z] = <<>> /\ \A n \in z + 1 .. b : f[n] = step[<<n, f[n - 1]>>]
    BY <1>r DEF Recursive
<1>6. \A n \in a .. b : f[n] = f[n - 1] \o Piece(h, n)
    <2> TAKE n \in a .. b
    <2>1. n - 1 \in z .. b /\ f[n - 1] \in S
        BY <1>0
    <2> QED BY <2>1, <1>0, <1>3, <1>5
<1>7. ASSUME NEW v \in S PROVE v \o <<>> = v
    BY ConcatEmptySeq DEF S
<1>8. \A n \in a .. b :
         f[n] = IF n \in Context!AtomStarts(h) THEN f[n - 1] \o Context!WireAtom(h, n) ELSE f[n - 1]
    BY <1>0, <1>6, <1>7 DEF Piece
<1>9. Is(f)
    <2>1. ASSUME NEW n \in z .. b
          PROVE f[n] = IF n = z THEN <<>>
                       ELSE IF n \in Context!AtomStarts(h)
                          THEN f[n - 1] \o Context!WireAtom(h, n)
                          ELSE f[n - 1]
        <3>1. n = z \/ n \in a .. b
            BY <1>0
        <3> QED BY <3>1, <1>0, <1>5, <1>8
    <2> QED BY <2>1
<1> DEFINE g == CHOOSE x : Is(x)
<1>10. Is(g)
    BY <1>9, Zenon
<1>11. Context!Wire(h, a, b) = g[b]
    BY Zenon DEF Context!Wire, z
<1>12. \A n \in z .. b : g[n] = IF n = z THEN <<>>
          ELSE IF n \in Context!AtomStarts(h) THEN g[n - 1] \o Context!WireAtom(h, n) ELSE g[n - 1]
    <2> HIDE DEF g
    <2> QED BY <1>10
<1>13. \A n \in z .. b : g[n] = f[n]
    <2>1. ASSUME NEW n \in z + 1 .. b, g[n - 1] = f[n - 1] PROVE g[n] = f[n]
        <3>1. n \in a .. b /\ n \in z .. b /\ n # z
            BY <1>0
        <3> HIDE DEF g
        <3> QED BY <3>1, <2>1, <1>8, <1>12
    <2>2. g[z] = f[z]
        <3> HIDE DEF g
        <3> QED BY <1>0, <1>5, <1>12
    <2> HIDE DEF g
    <2>3. StayAlike(g, f, z, b)
        BY <2>1 DEF StayAlike
    <2>4. Alike(g, f, z, b)
        BY <2>2, <2>3, <1>i, SameRecursion
    <2> QED BY <2>4 DEF Alike
<1>14. Context!Wire(h, a, b) = f[b]
    <2> HIDE DEF g
    <2> QED BY <1>11, <1>13, <1>0
<1>15. Grows(h, a, b, f)
    BY <1>5, <1>6 DEF Grows, z
<1> QED BY <1>14, <1>15 DEF S, z

\* Between no places nothing is sent.
LEMMA WireEmpty ==
    ASSUME NEW h \in Seq(Messages), NEW a \in 1 .. Len(h) + 1
    PROVE  Context!Wire(h, a, a - 1) = <<>>
<1>1. Len(h) \in Nat /\ a - 1 \in a - 1 .. Len(h)
    BY Places
<1>2. PICK f \in [a - 1 .. a - 1 -> Seq(Sent)] :
         Grows(h, a, a - 1, f) /\ Context!Wire(h, a, a - 1) = f[a - 1]
    BY <1>1, WireFacts
<1> QED BY <1>2 DEF Grows

\* Up to b is sent what is sent up to b - 1, and the piece of b.
LEMMA WireStep ==
    ASSUME NEW h \in Seq(Messages), NEW a \in 1 .. Len(h), NEW b \in a .. Len(h)
    PROVE  Context!Wire(h, a, b) = Context!Wire(h, a, b - 1) \o Piece(h, b)
<1> DEFINE z == a - 1
           y == b - 1
<1>0. /\ Len(h) \in Nat /\ a \in 1 .. Len(h) + 1 /\ b \in a - 1 .. Len(h) /\ b - 1 \in a - 1 .. Len(h)
      /\ z \in Int /\ y \in Int /\ z + 1 = a /\ y \in z .. y /\ z \in z .. b /\ b \in a .. b
      /\ \A n \in a .. y : n \in a .. b
    BY Places
<1>a. PICK f : Grows(h, a, b, f) /\ Context!Wire(h, a, b) = f[b]
    BY <1>0, WireFacts
<1>b. PICK g : Grows(h, a, y, g) /\ Context!Wire(h, a, y) = g[y]
    BY <1>0, WireFacts
<1>1. /\ f[z] = <<>> /\ \A n \in a .. b : f[n] = f[n - 1] \o Piece(h, n)
      /\ Context!Wire(h, a, b) = f[b]
    BY <1>a DEF Grows
<1>2. /\ g[z] = <<>> /\ \A n \in a .. y : g[n] = g[n - 1] \o Piece(h, n)
      /\ Context!Wire(h, a, y) = g[y]
    BY <1>b DEF Grows
<1>5. f[b] = f[y] \o Piece(h, b)
    BY <1>0, <1>1
<1>i. z \in Int /\ y \in Int /\ f[z] = g[z]
    BY <1>0, <1>1, <1>2
<1> HIDE DEF z, y
<1>3. \A n \in z .. y : f[n] = g[n]
    <2>1. ASSUME NEW n \in z + 1 .. y, f[n - 1] = g[n - 1] PROVE f[n] = g[n]
        <3>1. n \in a .. b /\ n \in a .. y
            BY <1>0
        <3> QED BY <3>1, <2>1, <1>1, <1>2
    <2>2. StayAlike(f, g, z, y)
        BY <2>1 DEF StayAlike
    <2>3. Alike(f, g, z, y)
        BY <2>2, <1>i, SameRecursion
    <2> QED BY <2>3 DEF Alike
<1>4. f[y] = g[y]
    BY <1>3, <1>0
<1> QED BY <1>1, <1>2, <1>4, <1>5 DEF y

\* What is sent, in three parts: how they are grouped does not matter.
LEMMA SentJoins ==
    ASSUME NEW x \in Seq(Sent), NEW y \in Seq(Sent), NEW w \in Seq(Sent)
    PROVE  (x \o y) \o w = x \o (y \o w)
BY ConcatAssociative

\* What is sent, in two parts: its length and its messages.
LEMMA SentLength ==
    ASSUME NEW x \in Seq(Sent), NEW y \in Seq(Sent)
    PROVE  /\ x \o y \in Seq(Sent) /\ Len(x \o y) = Len(x) + Len(y)
           /\ \A i \in 1 .. Len(x) + Len(y) : (x \o y)[i] = IF i <= Len(x) THEN x[i] ELSE y[i - Len(x)]
BY ConcatProperties

\* What is sent is a sequence of sent messages.
LEMMA WireType ==
    ASSUME NEW h \in Seq(Messages), NEW a \in 1 .. Len(h) + 1, NEW b \in a - 1 .. Len(h)
    PROVE  Context!Wire(h, a, b) \in Seq(Sent)
<1>1. b \in a - 1 .. b
    BY Places
<1>2. PICK f \in [a - 1 .. b -> Seq(Sent)] : Context!Wire(h, a, b) = f[b]
    BY WireFacts
<1> QED BY <1>1, <1>2, Zenon

\* The wire history of one message, and of some messages after others.
LEMMA WireOne ==
    ASSUME NEW h \in Seq(Messages), NEW a \in 1 .. Len(h)
    PROVE  Context!Wire(h, a, a) = Piece(h, a)
<1>1. Len(h) \in Nat /\ a \in 1 .. Len(h) + 1 /\ a \in a .. Len(h)
    BY Places
<1>2. Context!Wire(h, a, a) = <<>> \o Piece(h, a)
    BY <1>1, WireStep, WireEmpty
<1> QED BY <1>2, PieceType, ConcatEmptySeq

\* What is sent from a to b is what is sent to m, and from there.
LEMMA WireSplit ==
    ASSUME NEW h \in Seq(Messages), NEW a \in 1 .. Len(h) + 1,
           NEW m \in a - 1 .. Len(h), NEW b \in m .. Len(h)
    PROVE  Context!Wire(h, a, b) = Context!Wire(h, a, m) \o Context!Wire(h, m + 1, b)
<1> DEFINE S == {n \in m .. b : Context!Wire(h, a, n) = Context!Wire(h, a, m) \o Context!Wire(h, m + 1, n)}
<1>0. Len(h) \in Nat /\ m + 1 \in 1 .. Len(h) + 1 /\ m \in m .. b /\ b \in m .. b
    BY Places
<1>1. m \in S
    <2>1. Context!Wire(h, m + 1, m + 1 - 1) = <<>> /\ m + 1 - 1 = m
        BY <1>0, WireEmpty
    <2>2. Context!Wire(h, a, m) \in Seq(Sent)
        BY WireType
    <2> QED BY <2>1, <2>2, <1>0, ConcatEmptySeq
<1>2. ASSUME NEW n \in m + 1 .. b, n - 1 \in S PROVE n \in S
    <2>0. /\ n \in m .. b /\ a \in 1 .. Len(h) /\ n \in a .. Len(h) /\ m + 1 \in 1 .. Len(h)
          /\ n \in m + 1 .. Len(h) /\ n \in 1 .. Len(h) /\ n - 1 \in m + 1 - 1 .. Len(h)
        BY <1>0
    <2>1. Context!Wire(h, a, n) = Context!Wire(h, a, n - 1) \o Piece(h, n)
        BY <2>0, WireStep
    <2>2. Context!Wire(h, m + 1, n) = Context!Wire(h, m + 1, n - 1) \o Piece(h, n)
        BY <2>0, WireStep
    <2>3. Context!Wire(h, a, n - 1) = Context!Wire(h, a, m) \o Context!Wire(h, m + 1, n - 1)
        BY <1>2
    <2>4. Context!Wire(h, a, m) \in Seq(Sent)
        BY WireType
    <2>5. m + 1 \in 1 .. Len(h) + 1 /\ n - 1 \in m + 1 - 1 .. Len(h)
        BY <2>0, <1>0
    <2>6. Context!Wire(h, m + 1, n - 1) \in Seq(Sent)
        <3> DEFINE x == m + 1
                   y == n - 1
        <3>1. x \in 1 .. Len(h) + 1 /\ y \in x - 1 .. Len(h)
            BY <2>5
        <3> HIDE DEF x, y
        <3>2. Context!Wire(h, x, y) \in Seq(Sent)
            BY <3>1, WireType
        <3> QED BY <3>2 DEF x, y
    <2>7. Piece(h, n) \in Seq(Sent)
        BY <2>0, PieceType
    <2> DEFINE x == Context!Wire(h, a, m)
               y == Context!Wire(h, m + 1, n - 1)
               w == Piece(h, n)
    <2>8. x \in Seq(Sent) /\ y \in Seq(Sent) /\ w \in Seq(Sent)
        BY <2>4, <2>6, <2>7
    <2>9. Context!Wire(h, a, n) = (x \o y) \o w /\ Context!Wire(h, m + 1, n) = y \o w
        BY <2>1, <2>2, <2>3
    <2> HIDE DEF x, y, w
    <2>10. (x \o y) \o w = x \o (y \o w)
        BY <2>8, SentJoins
    <2>11. Context!Wire(h, a, n) = Context!Wire(h, a, m) \o Context!Wire(h, m + 1, n)
        BY <2>9, <2>10 DEF x
    <2> QED BY <2>0, <2>11
<1> HIDE DEF S
<1>i. m \in Int /\ b \in Int
    BY <1>0
<1>3. m .. b \subseteq S
    BY <1>i, <1>1, <1>2, RangeInduction
<1> QED BY <1>3, <1>0 DEF S

-----------------------------------------------------------------------------
\* A sequence all of whose parts have a property has it.  All is the set of
\* sequences that have it.
LEMMA WireInduction ==
    ASSUME NEW h \in Seq(Messages), NEW a \in 1 .. Len(h) + 1, NEW b \in a - 1 .. Len(h), NEW All,
           <<>> \in All, \A s, t \in All \cap Seq(Sent) : s \o t \in All,
           \A i \in Context!AtomStarts(h) \cap (a .. b) : Context!WireAtom(h, i) \in All
    PROVE  Context!Wire(h, a, b) \in All
<1> DEFINE z == a - 1
           S == {n \in z .. b : Context!Wire(h, a, n) \in All}
<1>0. Len(h) \in Nat /\ b \in z .. b /\ z \in z .. b /\ z + 1 = a /\ z \in Int /\ b \in Int
    BY Places
<1>1. z \in S
    BY <1>0, WireEmpty
<1>2. ASSUME NEW n \in z + 1 .. b, n - 1 \in S PROVE n \in S
    <2>0. /\ n \in a .. b /\ a \in 1 .. Len(h) /\ n \in a .. Len(h) /\ n \in z .. b
          /\ n \in 1 .. Len(h) /\ n - 1 \in a - 1 .. Len(h)
        BY <1>0
    <2>1. Context!Wire(h, a, n) = Context!Wire(h, a, n - 1) \o Piece(h, n)
        BY <2>0, WireStep
    <2>2. Context!Wire(h, a, n - 1) \in All \cap Seq(Sent)
        BY <1>2, <2>0, WireType
    <2>3. Piece(h, n) \in All \cap Seq(Sent)
        BY <2>0, PieceType DEF Piece
    <2> QED BY <2>0, <2>1, <2>2, <2>3
<1> HIDE DEF S, z
<1>i. z \in Int /\ b \in Int
    BY <1>0
<1>3. z .. b \subseteq S
    BY <1>i, <1>1, <1>2, RangeInduction
<1> QED BY <1>3, <1>0 DEF S

-----------------------------------------------------------------------------
\* The protected prefix.

\* The leading system messages.
LEMMA LeadingFacts ==
    ASSUME NEW h \in Seq(Messages)
    PROVE  /\ Context!Leading(h) \in 0 .. Len(h)
           /\ \A k \in 1 .. Context!Leading(h) : h[k].role = "system"
           /\ Context!Leading(h) < Len(h) => h[Context!Leading(h) + 1].role # "system"
<1> DEFINE P == {n \in 0 .. Len(h) : \A k \in 1 .. n : h[k].role = "system"}
           l == Context!Leading(h)
<1>0. Len(h) \in Nat /\ 0 \in Int /\ Len(h) \in Int
    BY Places
<1>1. P \subseteq 0 .. Len(h) /\ P # {}
    <2>1. 0 \in P
        BY <1>0
    <2> QED BY <2>1
<1>2. \E n \in P : \A k \in P : k <= n
    <2> HIDE DEF P
    <2> QED BY <1>0, <1>1, GreatestOf, Zenon
<1>3. l \in P /\ \A k \in P : k <= l
    <2>1. l = CHOOSE n \in P : \A k \in P : k <= n
        BY DEF Context!Leading
    <2> HIDE DEF P, l
    <2> QED BY <2>1, <1>2
<1> HIDE DEF l
<1>4. ASSUME l < Len(h), h[l + 1].role = "system" PROVE FALSE
    <2>1. l + 1 \in 0 .. Len(h) /\ ~(l + 1 <= l) /\ \A k \in 1 .. l + 1 : k \in 1 .. l \/ k = l + 1
        BY <1>0, <1>3, <1>4
    <2>2. l + 1 \in P
        BY <2>1, <1>3, <1>4
    <2> QED BY <2>1, <2>2, <1>3
<1> QED BY <1>3, <1>4 DEF l

\* After them the protected data, up to the end of the prefix.
LEMMA PrefixFacts ==
    ASSUME NEW h \in Seq(Messages)
    PROVE  /\ Context!PrefixLength(h) \in 0 .. Len(h)
           /\ Context!Leading(h) <= Context!PrefixLength(h)
           /\ \A k \in Context!Leading(h) + 1 .. Context!PrefixLength(h) : h[k].role = "protected"
<1> DEFINE Good(n, s) == /\ \A k \in 1 .. s : h[k].role = "system"
                         /\ \A k \in s + 1 .. n : h[k].role = "protected"
           P == {n \in 0 .. Len(h) : \E s \in 0 .. n : Good(n, s)}
           p == Context!PrefixLength(h)
           l == Context!Leading(h)
<1>0. Len(h) \in Nat /\ 0 \in Int /\ Len(h) \in Int
    BY Places
<1>l. /\ l \in 0 .. Len(h) /\ \A k \in 1 .. l : h[k].role = "system"
      /\ l < Len(h) => h[l + 1].role # "system"
    BY LeadingFacts
<1> HIDE DEF l
<1>1. l \in P
    <2>1. l \in 0 .. l /\ \A k \in l + 1 .. l : FALSE
        BY <1>0, <1>l
    <2>2. Good(l, l)
        BY <2>1, <1>l
    <2> QED BY <2>1, <2>2, <1>l
<1>2. \E n \in P : \A k \in P : k <= n
    <2>1. P \subseteq 0 .. Len(h) /\ P # {}
        BY <1>1
    <2> HIDE DEF P
    <2> QED BY <1>0, <2>1, GreatestOf, Zenon
<1>3. p \in P /\ \A k \in P : k <= p
    <2>1. p = CHOOSE n \in P : \A k \in P : k <= n
        BY DEF Context!PrefixLength
    <2> HIDE DEF P, p
    <2> QED BY <2>1, <1>2
<1> HIDE DEF p
<1>4. p \in 0 .. Len(h) /\ l <= p
    BY <1>1, <1>3
<1>5. PICK s \in 0 .. p : Good(p, s)
    BY <1>3
<1>6. ASSUME NEW k \in l + 1 .. p PROVE h[k].role = "protected"
    <2>1. CASE s < k
        <3>1. k \in s + 1 .. p
            BY <2>1, <1>4, <1>5, <1>l
        <3> QED BY <3>1, <1>5
    <2>2. CASE ~(s < k)
        <3>1. l + 1 \in 1 .. s /\ l < Len(h)
            BY <2>2, <1>0, <1>4, <1>5, <1>l
        <3> QED BY <3>1, <1>5, <1>l
    <2> QED BY <2>1, <2>2
<1> QED BY <1>4, <1>6 DEF p, l

\* A message of the prefix is an atom, and is sent as it is.
LEMMA PrefixAtoms ==
    ASSUME NEW h \in Seq(Messages), Context!SoundAtoms(h), NEW i \in 1 .. Context!PrefixLength(h)
    PROVE  /\ i \in Context!AtomStarts(h) /\ ~Context!Normalized(h, i) /\ h[i].calls = <<>>
           /\ Context!ResultsEnd(h, i) = i
           /\ h[i].role \in {"system", "protected"}
<1>0. Len(h) \in Nat /\ DOMAIN h = 1 .. Len(h) /\ i \in 1 .. Len(h)
    BY Places, PrefixFacts
<1>1. h[i].role \in {"system", "protected"}
    <2>1. i \in 1 .. Context!Leading(h) \/ i \in Context!Leading(h) + 1 .. Context!PrefixLength(h)
        BY LeadingFacts, PrefixFacts, <1>0
    <2> QED BY <2>1, LeadingFacts, PrefixFacts
<1>2. i \in Context!AtomStarts(h)
    BY <1>0, <1>1 DEF Context!AtomStarts
<1>3. ~Context!Normalized(h, i) /\ ~Context!Complete(h, i)
    BY <1>1 DEF Context!Normalized, Context!Complete
<1>4. Context!SoundAtom(h, i)
    BY <1>2 DEF Context!SoundAtoms
<1>5. h[i].calls = <<>> /\ Context!Results(h, i) = {}
    BY <1>3, <1>4 DEF Context!SoundAtom
<1>6. Context!ResultsEnd(h, i) \in i .. Len(h) /\ i + 1 .. Context!ResultsEnd(h, i) = {}
    BY <1>0, <1>5, ResultsFacts DEF Context!Results
<1>7. ASSUME Context!ResultsEnd(h, i) # i PROVE FALSE
    <2>1. i + 1 \in i + 1 .. Context!ResultsEnd(h, i)
        BY <1>0, <1>6, <1>7
    <2> QED BY <2>1, <1>6
<1> QED BY <1>1, <1>2, <1>3, <1>5, <1>7

\* What comes after the prefix begins with an atom.
LEMMA FirstAtom ==
    ASSUME NEW h \in Seq(Messages), Context!SoundAtoms(h), Context!PrefixLength(h) < Len(h)
    PROVE  Context!PrefixLength(h) + 1 \in Context!AtomStarts(h)
<1> DEFINE p == Context!PrefixLength(h)
<1>0. Len(h) \in Nat /\ DOMAIN h = 1 .. Len(h) /\ p \in 0 .. Len(h) /\ p + 1 \in 1 .. Len(h)
    BY Places, PrefixFacts
<1>1. CASE p = 0
    <2>1. h # <<>>
        BY <1>0, EmptySeq
    <2>2. h[1].role # "tool"
        BY <2>1 DEF Context!SoundAtoms
    <2> QED BY <1>0, <1>1, <2>2 DEF Context!AtomStarts
<1>2. CASE p # 0
    <2>1. p \in 1 .. Context!PrefixLength(h) /\ p \in 1 .. Len(h)
        BY <1>0, <1>2
    <2>2. Context!ResultsEnd(h, p) = p
        BY <2>1, PrefixAtoms
    <2>3. h[p + 1].role # "tool"
        BY <2>1, <2>2, ResultsFacts
    <2> QED BY <1>0, <2>3 DEF Context!AtomStarts
<1> QED BY <1>1, <1>2

\* A sequence of one message.
LEMMA OneMessage ==
    ASSUME NEW m \in Sent
    PROVE  <<m>> \in Seq(Sent) /\ Len(<<m>>) = 1 /\ <<m>>[1] = m
OBVIOUS

\* A message sent as itself is a sent message.
LEMMA PlainType ==
    ASSUME NEW h \in Seq(Messages), NEW i \in 1 .. Len(h)
    PROVE  Context!Plain(h, i) \in Sent
<1>1. h[i].units \in Nat /\ i \in Nat
    BY Places, MessageFacts
<1> QED BY <1>1 DEF Context!Plain, Sent

\* The wire history of messages of the prefix are these messages.
LEMMA PrefixPiece ==
    ASSUME NEW h \in Seq(Messages), Context!SoundAtoms(h), NEW i \in 1 .. Context!PrefixLength(h)
    PROVE  Piece(h, i) = <<Context!Plain(h, i)>>
<1>0. i \in 1 .. Len(h) /\ Len(h) \in Nat
    BY Places, PrefixFacts
<1>1. i \in Context!AtomStarts(h) /\ ~Context!Normalized(h, i) /\ Context!ResultsEnd(h, i) = i
    BY PrefixAtoms
<1> DEFINE w == Context!WireAtom(h, i)
           v == <<Context!Plain(h, i)>>
<1>2. 1 + Context!ResultsEnd(h, i) - i = 1 /\ i + 1 - 1 = i
    BY <1>0, <1>1
<1>3. Len(w) = 1 /\ w[1] = Context!Plain(h, i) /\ w \in Seq(Sent)
    <2>1. /\ Len(w) = 1 + Context!ResultsEnd(h, i) - i
          /\ \A k \in 1 .. 1 + Context!ResultsEnd(h, i) - i : w[k] = Context!Plain(h, i + k - 1)
          /\ w \in Seq(Sent)
        BY <1>0, <1>1, AtomType
    <2>2. 1 \in 1 .. 1 + Context!ResultsEnd(h, i) - i
        BY <1>2
    <2>3. w[1] = Context!Plain(h, i + 1 - 1)
        BY <2>1, <2>2
    <2> QED BY <2>1, <2>3, <1>2
<1>4. v \in Seq(Sent) /\ Len(v) = 1 /\ v[1] = Context!Plain(h, i)
    BY <1>0, PlainType, OneMessage
<1> HIDE DEF w, v
<1>5. w = v
    BY <1>3, <1>4, SeqEqual
<1> QED BY <1>1, <1>5 DEF w, v, Piece

\* In the prefix every message is sent as itself.
LEMMA PrefixWire ==
    ASSUME NEW h \in Seq(Messages), Context!SoundAtoms(h),
           NEW a \in 1 .. Context!PrefixLength(h) + 1, NEW b \in a - 1 .. Context!PrefixLength(h)
    PROVE  /\ Context!Wire(h, a, b) \in Seq(Sent)
           /\ Len(Context!Wire(h, a, b)) = b - (a - 1)
           /\ \A k \in 1 .. b - (a - 1) : Context!Wire(h, a, b)[k] = Context!Plain(h, (a - 1) + k)
<1> DEFINE z == a - 1
           Good(n) == /\ Len(Context!Wire(h, a, n)) = n - z
                      /\ \A k \in 1 .. n - z : Context!Wire(h, a, n)[k] = Context!Plain(h, z + k)
           S == {n \in z .. b : Good(n)}
<1>0. /\ Len(h) \in Nat /\ Context!PrefixLength(h) \in 0 .. Len(h) /\ z \in Int /\ b \in Int
      /\ z \in Nat /\ z + 1 = a /\ b \in z .. b /\ z \in z .. b /\ z \in z .. Context!PrefixLength(h)
      /\ a \in 1 .. Len(h) + 1 /\ b \in a - 1 .. Len(h)
    BY Places, PrefixFacts
<1>1. z \in S
    <2>1. Context!Wire(h, a, z) = <<>>
        BY <1>0, WireEmpty
    <2>2. Len(<<>>) = 0 /\ z - z = 0 /\ 1 .. 0 = {}
        BY <1>0
    <2>3. Good(z)
        BY <2>1, <2>2
    <2> QED BY <2>3, <1>0
<1>2. ASSUME NEW n \in z + 1 .. b, n - 1 \in S PROVE n \in S
    <2>0. /\ n \in Int /\ a \in 1 .. Len(h) /\ n \in a .. Len(h) /\ n \in 1 .. Context!PrefixLength(h)
          /\ n \in 1 .. Len(h) /\ n - 1 \in a - 1 .. Len(h) /\ n \in z .. b
        BY <1>0
    <2> DEFINE s == Context!Wire(h, a, n - 1)
               t == Context!Wire(h, a, n)
    <2>1. t = s \o <<Context!Plain(h, n)>>
        BY <2>0, WireStep, PrefixPiece
    <2>2. s \in Seq(Sent) /\ Len(s) = n - 1 - z /\ \A k \in 1 .. n - 1 - z : s[k] = Context!Plain(h, z + k)
        <3>1. s \in Seq(Sent)
            BY <1>0, <2>0, WireType
        <3>2. (n - 1) - z = n - 1 - z
            BY <2>0, <1>0
        <3> QED BY <1>2, <3>1, <3>2
    <2>3. Context!Plain(h, n) \in Sent
        BY <2>0, PlainType
    <2> HIDE DEF s, t
    <2>4. /\ Len(t) = Len(s) + 1
          /\ \A k \in 1 .. Len(s) + 1 : t[k] = IF k <= Len(s) THEN s[k]
               ELSE <<Context!Plain(h, n)>>[k - Len(s)]
        <3>1. <<Context!Plain(h, n)>> \in Seq(Sent) /\ Len(<<Context!Plain(h, n)>>) = 1
            BY <2>3, OneMessage
        <3> QED BY <3>1, <2>1, <2>2, ConcatProperties
    <2>5. Len(s) = (n - 1) - z /\ Len(s) + 1 = n - z /\ Len(t) = n - z
        BY <2>2, <2>4, <2>0, <1>0
    <2>6. ASSUME NEW k \in 1 .. n - z PROVE t[k] = Context!Plain(h, z + k)
        <3>1. CASE k <= Len(s)
            <4>1. k \in 1 .. n - 1 - z
                BY <3>1, <2>5, <2>0, <1>0
            <4> QED BY <4>1, <3>1, <2>2, <2>4, <2>5
        <3>2. CASE ~(k <= Len(s))
            <4>1. k - Len(s) = 1 /\ z + k = n
                BY <3>2, <2>5, <2>0, <1>0
            <4>2. t[k] = <<Context!Plain(h, n)>>[k - Len(s)]
                BY <3>2, <2>4, <2>5
            <4>3. t[k] = <<Context!Plain(h, n)>>[1]
                BY <4>1, <4>2
            <4> QED BY <4>1, <4>3
        <3> QED BY <3>1, <3>2
    <2>7. Good(n)
        BY <2>5, <2>6 DEF t
    <2> QED BY <2>7, <2>0
<1> HIDE DEF S, z
<1>i. z \in Int /\ b \in Int
    BY <1>0
<1>3. z .. b \subseteq S
    BY <1>i, <1>1, <1>2, RangeInduction
<1>4. Good(b)
    BY <1>3, <1>0 DEF S
<1> QED BY <1>4, <1>0, WireType DEF z

-----------------------------------------------------------------------------
\* Turns.

\* Turns begin after the prefix, with an atom, all but the first with a user
\* message; the first begins right there.
LEMMA TurnFacts ==
    ASSUME NEW h \in Seq(Messages)
    PROVE  /\ Context!TurnStarts(h) \subseteq Context!PrefixLength(h) + 1 .. Len(h)
           /\ \A i \in Context!TurnStarts(h) : /\ i \in Context!AtomStarts(h) /\ i \in 1 .. Len(h)
                                                  /\ i \in Int
                                               /\ i # Context!PrefixLength(h) + 1 => h[i].role = "user"
           /\ IsFiniteSet(Context!TurnStarts(h))
           /\ Context!SoundAtoms(h) /\ Context!PrefixLength(h) < Len(h)
                => Context!PrefixLength(h) + 1 \in Context!TurnStarts(h)
<1>0. Len(h) \in Nat /\ DOMAIN h = 1 .. Len(h) /\ Context!PrefixLength(h) \in 0 .. Len(h)
    BY Places, PrefixFacts
<1>1. \A i \in Context!TurnStarts(h) : /\ i \in Context!AtomStarts(h) /\ i \in 1 .. Len(h) /\ i \in Int
                                       /\ i # Context!PrefixLength(h) + 1 => h[i].role = "user"
                                       /\ i \in Context!PrefixLength(h) + 1 .. Len(h)
    BY <1>0 DEF Context!TurnStarts, Context!AtomStarts
<1>2. IsFiniteSet(Context!TurnStarts(h))
    <2>1. Context!TurnStarts(h) \subseteq 1 .. Len(h) /\ 1 \in Int /\ Len(h) \in Int
        BY <1>0, <1>1
    <2>2. IsFiniteSet(1 .. Len(h))
        BY <2>1, FS_Interval
    <2> QED BY <2>1, <2>2, FS_Subset
<1>3. Context!SoundAtoms(h)
        /\ Context!PrefixLength(h) < Len(h) => Context!PrefixLength(h) + 1 \in Context!TurnStarts(h)
    BY FirstAtom DEF Context!TurnStarts
<1> QED BY <1>1, <1>2, <1>3

\* The hot turns begin with a turn.
LEMMA HotFacts ==
    ASSUME NEW h \in Seq(Messages), Context!TurnStarts(h) # {}
    PROVE  Context!HotStart(h) \in Context!TurnStarts(h)
<1> DEFINE T == Context!TurnStarts(h)
           after(i) == Context!Cardinality({j \in T : j >= i})
           hot == {i \in T : after(i) <= HotTurns}
           x == Context!HotStart(h)
<1>0. /\ T \subseteq 1 .. Len(h) /\ 1 \in Int /\ Len(h) \in Int /\ HotTurns >= 1
      /\ \A i \in T : i \in Int
    BY TurnFacts, Places, ConversationsAssumption
<1>1. \E i \in T : \A j \in T : j <= i
    <2>1. T \subseteq 1 .. Len(h) /\ T # {}
        BY <1>0
    <2>2. 1 \in Int /\ Len(h) \in Int
        BY <1>0
    <2> HIDE DEF T
    <2> QED BY <2>1, <2>2, GreatestOf, Zenon
<1>2. PICK i \in T : \A j \in T : j <= i
    BY <1>1
<1>3. {j \in T : j >= i} = {i}
    BY <1>0, <1>2
<1>4. after(i) = 1
    BY <1>3, FS_Singleton, ContextCounting
<1>5. i \in hot
    BY <1>0, <1>2, <1>4
<1>6. \E k \in hot : \A j \in hot : k <= j
    <2>1. hot \subseteq 1 .. Len(h) /\ hot # {}
        BY <1>0, <1>5
    <2>2. 1 \in Int /\ Len(h) \in Int
        BY <1>0
    <2> HIDE DEF hot
    <2> QED BY <2>1, <2>2, LeastOf, Zenon
<1>7. x = CHOOSE k \in hot : \A j \in hot : k <= j
    BY Zenon DEF Context!HotStart
<1>8. x \in hot
    <2> HIDE DEF hot, x
    <2> QED BY <1>6, <1>7
<1> QED BY <1>8

\* What is kept.
LEMMA KeepingType ==
    ASSUME NEW h \in Seq(Messages), NEW i \in 1 .. Len(h)
    PROVE  /\ Context!Wire(h, 1, Context!PrefixLength(h)) \in Seq(Sent)
                /\ Context!Wire(h, i, Len(h)) \in Seq(Sent)
           /\ <<Context!Marker>> \in Seq(Sent) /\ Context!Keeping(h, i) \in Seq(Sent)
           /\ Context!Units(Context!Keeping(h, i)) =
                 (Context!Units(Context!Wire(h, 1, Context!PrefixLength(h)))
                  + (IF i = Context!PrefixLength(h) + 1 THEN 0 ELSE Context!Units(<<Context!Marker>>)))
                 + Context!Units(Context!Wire(h, i, Len(h)))
<1> DEFINE p == Context!PrefixLength(h)
           A == Context!Wire(h, 1, p)
           B == IF i = p + 1 THEN <<>> ELSE <<Context!Marker>>
           C == Context!Wire(h, i, Len(h))
<1>0. /\ Len(h) \in Nat /\ p \in 0 .. Len(h) /\ 1 \in 1 .. Len(h) + 1 /\ i \in 1 .. Len(h) + 1
      /\ p \in 1 - 1 .. Len(h) /\ Len(h) \in i - 1 .. Len(h)
    BY Places, PrefixFacts
<1>1. A \in Seq(Sent) /\ C \in Seq(Sent)
    BY <1>0, WireType
<1>2. Context!Marker \in Sent
    BY DEF Context!Marker, Sent
<1>3. B \in Seq(Sent) /\ <<Context!Marker>> \in Seq(Sent)
    BY <1>2
<1>4. Context!Units(B) = IF i = p + 1 THEN 0 ELSE Context!Units(<<Context!Marker>>)
    BY UnitsEmpty
<1>5. Context!Keeping(h, i) = (A \o B) \o C
    <2> HIDE DEF p
    <2>1. Context!Keeping(h, i) = A \o B \o C
        BY DEF Context!Keeping, p
    <2>2. A \o (B \o C) = (A \o B) \o C
        <3>1. A \in Seq(Sent)
            BY <1>1
        <3>2. B \in Seq(Sent)
            BY <1>3
        <3>3. C \in Seq(Sent)
            BY <1>1
        <3> HIDE DEF A, B, C
        <3> QED BY <3>1, <3>2, <3>3, SentJoins
    <2> QED BY <2>1, <2>2
<1> HIDE DEF A, B, C
<1>6. A \o B \in Seq(Sent) /\ Context!Units(A \o B) = Context!Units(A) + Context!Units(B)
    BY <1>1, <1>3, ConcatProperties, UnitsConcat
<1>7. (A \o B) \o C \in Seq(Sent) /\ Context!Units((A \o B) \o C) = Context!Units(A \o B) + Context!Units(C)
    BY <1>1, <1>6, ConcatProperties, UnitsConcat
<1>8. Context!Units(Context!Keeping(h, i)) = (Context!Units(A) + Context!Units(B)) + Context!Units(C)
    BY <1>5, <1>6, <1>7
<1> QED BY <1>1, <1>3, <1>4, <1>5, <1>7, <1>8 DEF A, C

\* The wire history of the whole is what is kept from its first turn.
LEMMA WholeWire ==
    ASSUME NEW h \in Seq(Messages)
    PROVE  /\ Context!Wire(h, 1, Len(h)) \in Seq(Sent)
           /\ Context!Wire(h, 1, Len(h)) = Context!Wire(h, 1, Context!PrefixLength(h))
                \o Context!Wire(h, Context!PrefixLength(h) + 1, Len(h))
<1> DEFINE p == Context!PrefixLength(h)
<1>0. /\ Len(h) \in Nat /\ p \in 0 .. Len(h) /\ 1 \in 1 .. Len(h) + 1
      /\ p \in 1 - 1 .. Len(h) /\ Len(h) \in p .. Len(h) /\ Len(h) \in 1 - 1 .. Len(h)
    BY Places, PrefixFacts
<1> QED BY <1>0, WireType, WireSplit

\* A turn more costs: when the turns from i on fit, so do those from a later
\* one on, unless i is the first, which needs no marker.
LEMMA FitsLater ==
    ASSUME NEW h \in Seq(Messages), NEW b \in Int,
           NEW i \in Context!TurnStarts(h), NEW j \in Context!TurnStarts(h), i < j,
           i # Context!PrefixLength(h) + 1, Context!Fits(h, i, b)
    PROVE  Context!Fits(h, j, b)
<1> DEFINE p == Context!PrefixLength(h)
           n == j - 1
<1>0. /\ Len(h) \in Nat /\ i \in 1 .. Len(h) /\ j \in 1 .. Len(h) /\ p \in 0 .. Len(h)
      /\ i >= p + 1 /\ j # p + 1 /\ n + 1 = j
      /\ i \in 1 .. Len(h) + 1 /\ n \in i - 1 .. Len(h) /\ Len(h) \in n .. Len(h)
    BY Places, TurnFacts, PrefixFacts
<1>1. Context!Wire(h, i, Len(h)) = Context!Wire(h, i, n) \o Context!Wire(h, j, Len(h))
    <2>1. Context!Wire(h, i, Len(h)) = Context!Wire(h, i, n) \o Context!Wire(h, n + 1, Len(h))
        BY <1>0, WireSplit
    <2> QED BY <2>1, <1>0
<1>2. Context!Wire(h, i, n) \in Seq(Sent) /\ Context!Wire(h, j, Len(h)) \in Seq(Sent)
    BY <1>0, WireType, KeepingType
<1>3. /\ Context!Units(Context!Wire(h, i, n)) \in Nat /\ Context!Units(Context!Wire(h, j, Len(h))) \in Nat
      /\ Context!Units(Context!Wire(h, i, Len(h)))
           = Context!Units(Context!Wire(h, i, n)) + Context!Units(Context!Wire(h, j, Len(h)))
    BY <1>0, <1>1, <1>2, UnitsConcat
<1> DEFINE K == Context!Units(Context!Wire(h, 1, p)) + Context!Units(<<Context!Marker>>)
<1>4. /\ Context!Units(Context!Keeping(h, i)) = K + Context!Units(Context!Wire(h, i, Len(h)))
      /\ Context!Units(Context!Keeping(h, j)) = K + Context!Units(Context!Wire(h, j, Len(h)))
    BY <1>0, KeepingType
<1>5. K \in Nat
    <2>1. Context!Wire(h, 1, p) \in Seq(Sent) /\ <<Context!Marker>> \in Seq(Sent)
        BY <1>0, KeepingType
    <2>2. Context!Units(Context!Wire(h, 1, p)) \in Nat /\ Context!Units(<<Context!Marker>>) \in Nat
        BY <2>1, UnitsConcat
    <2> QED BY <2>2
<1>6. Context!Units(Context!Keeping(h, i)) <= b
    BY DEF Context!Fits
<1> HIDE DEF K
<1>7. Context!Units(Context!Keeping(h, j)) <= b
    BY <1>3, <1>4, <1>5, <1>6
<1> QED BY <1>7 DEF Context!Fits

\* Nothing is kept from the first turn on when the whole does not fit.
LEMMA FirstNeverFits ==
    ASSUME NEW h \in Seq(Messages), NEW b \in Int, ~(Context!Units(Context!Wire(h, 1, Len(h))) <= b),
           Context!PrefixLength(h) < Len(h)
    PROVE  ~Context!Fits(h, Context!PrefixLength(h) + 1, b)
<1> DEFINE i == Context!PrefixLength(h) + 1
           W == Context!Wire(h, 1, Context!PrefixLength(h))
           V == Context!Wire(h, i, Len(h))
<1>0. i \in 1 .. Len(h)
    BY Places, PrefixFacts
<1>1. Context!Units(Context!Keeping(h, i)) = (Context!Units(W) + 0) + Context!Units(V) /\ W \in Seq(Sent)
        /\ V \in Seq(Sent)
    BY <1>0, KeepingType
<1>2. Context!Wire(h, 1, Len(h)) = W \o V
    BY WholeWire
<1> HIDE DEF W, V
<1>3. Context!Units(W) \in Nat /\ Context!Units(W \o V) = Context!Units(W) + Context!Units(V)
    BY <1>1, UnitsConcat
<1>4. Context!Units(Context!Keeping(h, i)) = Context!Units(Context!Wire(h, 1, Len(h)))
    <2>1. Context!Units(W) + 0 = Context!Units(W)
        BY <1>3
    <2> QED BY <1>1, <1>2, <1>3, <2>1
<1> QED BY <1>4 DEF Context!Fits

-----------------------------------------------------------------------------
\* The loop of project.

\* The turn before one that is not the first.
LEMMA PreviousFacts ==
    ASSUME NEW h \in Seq(Messages), NEW i \in Context!TurnStarts(h), \E j \in Context!TurnStarts(h) : j < i
    PROVE  /\ Context!Previous(h, i) \in Context!TurnStarts(h) /\ Context!Previous(h, i) < i
           /\ \A k \in Context!TurnStarts(h) : k < i => k <= Context!Previous(h, i)
<1> DEFINE B == {j \in Context!TurnStarts(h) : j < i}
           x == Context!Previous(h, i)
<1>1. B \subseteq 1 .. Len(h) /\ B # {}
    BY TurnFacts
<1>2. 1 \in Int /\ Len(h) \in Int
    BY Places
<1>3. x = CHOOSE j \in B : \A k \in B : k <= j
    BY DEF Context!Previous
<1>4. \E j \in B : \A k \in B : k <= j
    <2> HIDE DEF B
    <2> QED BY <1>1, <1>2, GreatestOf, Zenon
<1>5. x \in B /\ \A k \in B : k <= x
    <2> HIDE DEF B, x
    <2> QED BY <1>3, <1>4
<1> HIDE DEF x
<1> QED BY <1>5 DEF x

\* A turn the loop may come to: it fits, and it is hot or comes before.
Reached(h, b) == {i \in Context!TurnStarts(h) : i <= Context!HotStart(h) /\ Context!Fits(h, i, b)}
\* The loop's step.
Further(h, i, b) ==
    IF (\E j \in Context!TurnStarts(h) : j < i) /\ Context!Fits(h, Context!Previous(h, i), b)
    THEN Context!Previous(h, i) ELSE i

\* A pass of the loop stays, or goes back to an earlier turn that fits.
LEMMA FurtherFacts ==
    ASSUME NEW h \in Seq(Messages), NEW b \in Int, NEW i \in Reached(h, b)
    PROVE  Further(h, i, b) \in Reached(h, b) /\ (Further(h, i, b) < i \/ Further(h, i, b) = i)
<1>0. /\ Context!TurnStarts(h) # {} /\ i \in Context!TurnStarts(h) /\ i <= Context!HotStart(h)
      /\ Context!Fits(h, i, b) /\ i \in Int
    BY TurnFacts DEF Reached
<1>1. Context!HotStart(h) \in Context!TurnStarts(h) /\ Context!HotStart(h) \in Int
    BY <1>0, TurnFacts, HotFacts
<1>2. CASE (\E j \in Context!TurnStarts(h) : j < i) /\ Context!Fits(h, Context!Previous(h, i), b)
    <2>1. Context!Previous(h, i) \in Context!TurnStarts(h) /\ Context!Previous(h, i) < i
            /\ Context!Previous(h, i) \in Int
        BY <1>0, <1>2, PreviousFacts, TurnFacts
    <2>2. Further(h, i, b) = Context!Previous(h, i)
        BY <1>2 DEF Further
    <2> QED BY <1>0, <1>1, <1>2, <2>1, <2>2 DEF Reached
<1>3. CASE ~((\E j \in Context!TurnStarts(h) : j < i) /\ Context!Fits(h, Context!Previous(h, i), b))
    BY <1>3 DEF Further
<1> QED BY <1>2, <1>3

\* The turns from i on.
From(h, i) == {j \in Context!TurnStarts(h) : j >= i}

\* There are fewer turns from a later turn on than from an earlier one.
LEMMA FromFacts ==
    ASSUME NEW h \in Seq(Messages), NEW i \in Context!TurnStarts(h)
    PROVE  /\ IsFiniteSet(From(h, i)) /\ Cardinality(From(h, i)) \in Nat
           /\ Cardinality(From(h, i)) >= 1
           /\ Cardinality(From(h, i)) <= Cardinality(Context!TurnStarts(h))
           /\ \A j \in Context!TurnStarts(h) : i < j => Cardinality(From(h, j)) < Cardinality(From(h, i))
<1>0. IsFiniteSet(Context!TurnStarts(h)) /\ i \in From(h, i) /\ From(h, i) \subseteq Context!TurnStarts(h)
    BY TurnFacts DEF From
<1>1. IsFiniteSet(From(h, i)) /\ Cardinality(From(h, i)) <= Cardinality(Context!TurnStarts(h))
    BY <1>0, FS_Subset
<1>2. Cardinality(From(h, i)) \in Nat
    BY <1>1, FS_CardinalityType
<1>3. Cardinality(From(h, i)) # 0
    BY <1>0, <1>1, FS_EmptySet
<1>4. ASSUME NEW j \in Context!TurnStarts(h), i < j PROVE Cardinality(From(h, j)) < Cardinality(From(h, i))
    <2>1. From(h, j) \subseteq From(h, i) /\ i \notin From(h, j)
        <3>1. \A k \in Context!TurnStarts(h) : k \in Int
            BY TurnFacts
        <3> QED BY <1>4, <3>1 DEF From
    <2>2. From(h, j) # From(h, i)
        BY <1>0, <2>1
    <2>3. IsFiniteSet(From(h, j)) /\ Cardinality(From(h, j)) <= Cardinality(From(h, i))
        BY <1>1, <2>1, FS_Subset
    <2>4. Cardinality(From(h, j)) # Cardinality(From(h, i))
        BY <1>1, <2>1, <2>2, FS_Subset
    <2>5. Cardinality(From(h, j)) \in Nat
        BY <2>3, FS_CardinalityType
    <2> QED BY <1>2, <2>3, <2>4, <2>5
<1> QED BY <1>1, <1>2, <1>3, <1>4

\* The loop ends at a turn it may come to, and from which it goes no further.
LEMMA KeptFacts ==
    ASSUME NEW h \in Seq(Messages), NEW b \in Int, Context!TurnStarts(h) # {},
           Context!Fits(h, Context!HotStart(h), b)
    PROVE  Context!KeptFrom(h, b) \in Reached(h, b)
             /\ Further(h, Context!KeptFrom(h, b), b) = Context!KeptFrom(h, b)
<1> DEFINE c == Context!Cardinality(Context!TurnStarts(h))
           R == Reached(h, b)
           D == (0 + 1 .. c) \X R
           step == [p \in D |-> Further(h, p[2], b)]
           Is(f) == f = [n \in 0 .. c |->
                           IF n = 0 THEN Context!HotStart(h)
                           ELSE LET i == f[n - 1] IN
                                IF (\E j \in Context!TurnStarts(h) : j < i)
                                  /\ Context!Fits(h, Context!Previous(h, i), b)
                                THEN Context!Previous(h, i) ELSE i]
<1>0. c \in Nat
    BY TurnFacts, FS_CardinalityType, ContextCounting
<1>1. Context!HotStart(h) \in R
    <2>1. Context!HotStart(h) \in Context!TurnStarts(h) /\ Context!HotStart(h) \in Int
        BY HotFacts, TurnFacts
    <2> QED BY <2>1 DEF Reached
<1>2. step \in [D -> R]
    BY FurtherFacts
<1>3. \A n \in 1 .. c, v \in R : step[<<n, v>>] = Further(h, v, b)
    BY <1>0
<1> HIDE DEF step, c, R
<1>i. 0 \in Int /\ c \in Int /\ 0 <= c
    BY <1>0
<1>r. PICK f \in [0 .. c -> R] : Recursive(f, 0, c, Context!HotStart(h), step)
    BY <1>i, <1>1, <1>2, Recursion
<1>4. f[0] = Context!HotStart(h) /\ \A n \in 1 .. c : f[n] = step[<<n, f[n - 1]>>]
    BY <1>r DEF Recursive
<1>d. \A n \in 1 .. c : n - 1 \in 0 .. c /\ n \in 0 .. c /\ n # 0
    BY <1>0
<1>5. \A n \in 1 .. c : f[n] = Further(h, f[n - 1], b)
    BY <1>3, <1>4, <1>d
<1>6. Is(f)
    <2>1. ASSUME NEW n \in 0 .. c
          PROVE f[n] = IF n = 0 THEN Context!HotStart(h) ELSE Further(h, f[n - 1], b)
        <3>1. n = 0 \/ n \in 1 .. c
            BY <1>0
        <3> QED BY <3>1, <1>4, <1>5, <1>d
    <2>2. f = [n \in 0 .. c |-> IF n = 0 THEN Context!HotStart(h) ELSE Further(h, f[n - 1], b)]
        BY <2>1, Zenon
    <2> QED BY <2>2 DEF Further
<1> DEFINE g == CHOOSE x : Is(x)
<1>7. Is(g)
    BY <1>6, Zenon
<1>8. Context!KeptFrom(h, b) = g[c]
    BY Zenon DEF Context!KeptFrom, c
<1>9. \A n \in 0 .. c : g[n] = IF n = 0 THEN Context!HotStart(h) ELSE Further(h, g[n - 1], b)
    <2> HIDE DEF g
    <2> QED BY <1>7 DEF Further
<1> HIDE DEF g, Is
<1>10. g[0] = Context!HotStart(h) /\ \A n \in 1 .. c : g[n] = Further(h, g[n - 1], b)
    BY <1>9, <1>d, <1>0
<1> DEFINE Good(i, n) == i \in R /\ (Further(h, i, b) = i \/ Cardinality(From(h, i)) > n)
           S == {n \in 0 .. c : Good(g[n], n)}
<1>k. ASSUME NEW i \in R
      PROVE  i \in Context!TurnStarts(h) /\ Cardinality(From(h, i)) \in Nat
             /\ Cardinality(From(h, i)) >= 1 /\ Cardinality(From(h, i)) <= c
    BY FromFacts, ContextCounting DEF R, Reached, c
<1>11. 0 \in S
    <2>1. Good(Context!HotStart(h), 0)
        <3>1. Cardinality(From(h, Context!HotStart(h))) > 0
            BY <1>1, <1>k
        <3> QED BY <1>1, <3>1
    <2>2. g[0] = Context!HotStart(h) /\ 0 \in 0 .. c
        BY <1>10, <1>0
    <2> QED BY <2>1, <2>2
<1>12. ASSUME NEW n \in 0 + 1 .. c, n - 1 \in S PROVE n \in S
    <2> DEFINE i == g[n - 1]
               j == g[n]
    <2>0. n \in 1 .. c /\ n \in 0 .. c /\ n \in Int
        BY <1>0
    <2>1. Good(i, n - 1)
        BY <1>12
    <2>2. j = Further(h, i, b)
        BY <1>10, <2>0
    <2> HIDE DEF i, j
    <2>3. j \in R /\ (j < i \/ j = i)
        BY <2>1, <2>2, FurtherFacts DEF R
    <2>4. CASE j = i
        <3>1. Further(h, j, b) = j
            BY <2>2, <2>4
        <3>2. Good(j, n)
            BY <3>1, <2>3
        <3> QED BY <3>2, <2>0 DEF j
    <2>5. CASE j < i /\ j # i
        <3>1. Cardinality(From(h, i)) > n - 1
            BY <2>1, <2>2, <2>5
        <3>2. Cardinality(From(h, i)) < Cardinality(From(h, j))
            BY <2>1, <2>3, <2>5, <1>k, FromFacts
        <3>3. Cardinality(From(h, i)) \in Nat /\ Cardinality(From(h, j)) \in Nat
            BY <2>1, <2>3, <1>k
        <3>4. Cardinality(From(h, j)) > n
            BY <3>1, <3>2, <3>3, <2>0
        <3>5. Good(j, n)
            BY <3>4, <2>3
        <3> QED BY <3>5, <2>0 DEF j
    <2> QED BY <2>3, <2>4, <2>5
<1> HIDE DEF S
<1>13. 0 .. c \subseteq S
    <2>1. 0 <= c => 0 \in S
        BY <1>11
    <2> QED BY <1>i, <2>1, <1>12, RangeInduction
<1>14. Good(g[c], c)
    BY <1>13, <1>0 DEF S
<1>15. g[c] \in R /\ Further(h, g[c], b) = g[c]
    BY <1>14, <1>k, <1>0
<1> QED BY <1>8, <1>15 DEF R

\* No turn before the one kept from fits.
LEMMA KeptMaximal ==
    ASSUME NEW h \in Seq(Messages), NEW b \in Int, Context!SoundAtoms(h),
           Context!TurnStarts(h) # {}, Context!Fits(h, Context!HotStart(h), b),
           ~(Context!Units(Context!Wire(h, 1, Len(h))) <= b)
    PROVE  /\ Context!KeptFrom(h, b) \in Context!TurnStarts(h)
                /\ Context!KeptFrom(h, b) <= Context!HotStart(h)
           /\ Context!Fits(h, Context!KeptFrom(h, b), b)
           /\ \A i \in Context!TurnStarts(h) : Context!Fits(h, i, b) => Context!KeptFrom(h, b) <= i
<1> DEFINE r == Context!KeptFrom(h, b)
<1>1. r \in Reached(h, b) /\ Further(h, r, b) = r
    BY KeptFacts
<1> HIDE DEF r
<1>2. r \in Context!TurnStarts(h) /\ r <= Context!HotStart(h) /\ Context!Fits(h, r, b) /\ r \in Int
    BY <1>1, TurnFacts DEF Reached
<1>3. ASSUME NEW i \in Context!TurnStarts(h), Context!Fits(h, i, b), ~(r <= i) PROVE FALSE
    <2>0. i \in Int /\ i \in 1 .. Len(h) /\ i >= Context!PrefixLength(h) + 1 /\ i < r
        BY <1>2, <1>3, TurnFacts, PrefixFacts
    <2> DEFINE q == Context!Previous(h, r)
    <2>1. q \in Context!TurnStarts(h) /\ q < r /\ i <= q
        BY <1>2, <2>0, PreviousFacts
    <2> HIDE DEF q
    <2>2. ~Context!Fits(h, q, b)
        <3>1. (\E j \in Context!TurnStarts(h) : j < r)
            BY <2>0
        <3>2. q \in Int /\ q # r
            BY <2>1, <1>2, TurnFacts
        <3> QED BY <1>1, <3>1, <3>2 DEF Further, q
    <2>3. Context!PrefixLength(h) < Len(h)
        BY <2>0, Places, PrefixFacts
    <2>4. i # Context!PrefixLength(h) + 1
        BY <2>3, <1>3, FirstNeverFits
    <2>5. q \in Int /\ (i = q \/ i < q)
        BY <2>0, <2>1, TurnFacts
    <2> QED BY <2>1, <2>2, <2>4, <2>5, <1>3, FitsLater
<1> QED BY <1>2, <1>3 DEF r

\* When the hot turns do not fit, nothing they are a part of does.
LEMMA NothingFits ==
    ASSUME NEW h \in Seq(Messages), NEW b \in Int, Context!SoundAtoms(h),
           Context!TurnStarts(h) = {} \/ ~Context!Fits(h, Context!HotStart(h), b),
           ~(Context!Units(Context!Wire(h, 1, Len(h))) <= b),
           NEW i \in Context!TurnStarts(h), i <= Context!HotStart(h)
    PROVE  ~Context!Fits(h, i, b)
<1>1. Context!HotStart(h) \in Context!TurnStarts(h) /\ ~Context!Fits(h, Context!HotStart(h), b)
    BY HotFacts
<1>2. Context!PrefixLength(h) < Len(h)
    BY TurnFacts, Places, PrefixFacts
<1>3. i = Context!PrefixLength(h) + 1 => ~Context!Fits(h, i, b)
    BY <1>2, FirstNeverFits
<1>4. i \in Int /\ Context!HotStart(h) \in Int /\ (i = Context!HotStart(h) \/ i < Context!HotStart(h))
    BY <1>1, TurnFacts
<1> QED BY <1>1, <1>3, <1>4, FitsLater

-----------------------------------------------------------------------------
\* The messages of a sequence.

In(s) == {s[k] : k \in DOMAIN s}

\* The messages of two sequences joined.
LEMMA InConcat ==
    ASSUME NEW s \in Seq(Sent), NEW t \in Seq(Sent)
    PROVE  s \o t \in Seq(Sent) /\ In(s \o t) = In(s) \cup In(t)
<1> DEFINE u == s \o t
           L == Len(s)
           M == Len(t)
<1>0. /\ L \in Nat /\ M \in Nat /\ u \in Seq(Sent) /\ Len(u) = L + M
      /\ \A k \in 1 .. L + M : u[k] = IF k <= L THEN s[k] ELSE t[k - L]
    BY LenProperties, ConcatProperties
<1>1. DOMAIN s = 1 .. L /\ DOMAIN t = 1 .. M /\ DOMAIN u = 1 .. L + M
    BY <1>0, LenProperties
<1> HIDE DEF u, L, M
<1>2. ASSUME NEW m \in In(u) PROVE m \in In(s) \cup In(t)
    <2>1. PICK k \in 1 .. L + M : m = u[k]
        BY <1>1 DEF In
    <2>2. CASE k <= L
        <3>1. k \in 1 .. L /\ m = s[k]
            BY <1>0, <2>1, <2>2
        <3> QED BY <3>1, <1>1 DEF In
    <2>3. CASE ~(k <= L)
        <3>1. k - L \in 1 .. M /\ m = t[k - L]
            BY <1>0, <2>1, <2>3
        <3> QED BY <3>1, <1>1 DEF In
    <2> QED BY <2>2, <2>3
<1>3. ASSUME NEW m \in In(s) PROVE m \in In(u)
    <2>1. PICK k \in 1 .. L : m = s[k]
        BY <1>1 DEF In
    <2>2. k \in 1 .. L + M /\ m = u[k]
        BY <1>0, <2>1
    <2> QED BY <2>2, <1>1 DEF In
<1>4. ASSUME NEW m \in In(t) PROVE m \in In(u)
    <2>1. PICK k \in 1 .. M : m = t[k]
        BY <1>1 DEF In
    <2>2. k + L \in 1 .. L + M /\ ~(k + L <= L) /\ (k + L) - L = k
        BY <1>0
    <2>3. m = u[k + L]
        BY <1>0, <2>1, <2>2
    <2> QED BY <2>2, <2>3, <1>1 DEF In
<1>5. In(u) = In(s) \cup In(t)
    BY <1>2, <1>3, <1>4
<1> QED BY <1>0, <1>5 DEF u

\* The messages of the empty sequence and of a sequence of one.
LEMMA InOne ==
    In(<<>>) = {} /\ \A m : In(<<m>>) = {m}
BY DEF In

\* The messages an atom becomes.
LEMMA AtomElements ==
    ASSUME NEW h \in Seq(Messages), NEW i \in 1 .. Len(h)
    PROVE  In(Context!WireAtom(h, i)) =
              IF Context!Normalized(h, i)
              THEN {Context!Note(i), Context!Error(i)}
              ELSE {Context!Plain(h, j) : j \in i .. Context!ResultsEnd(h, i)}
<1> DEFINE e == Context!ResultsEnd(h, i)
           w == Context!WireAtom(h, i)
<1>0. Len(h) \in Nat /\ e \in i .. Len(h) /\ w \in Seq(Sent)
    BY Places, ResultsFacts, AtomType
<1>1. CASE Context!Normalized(h, i)
    BY <1>1 DEF Context!WireAtom, In
<1>2. CASE ~Context!Normalized(h, i)
    <2>1. DOMAIN w = 1 .. 1 + e - i /\ \A k \in 1 .. 1 + e - i : w[k] = Context!Plain(h, i + k - 1)
        BY <1>0, <1>2, AtomType, LenProperties
    <2> HIDE DEF e, w
    <2>2. ASSUME NEW m \in In(w) PROVE m \in {Context!Plain(h, j) : j \in i .. e}
        <3>1. PICK k \in 1 .. 1 + e - i : m = Context!Plain(h, i + k - 1)
            BY <2>1 DEF In
        <3>2. i + k - 1 \in i .. e
            BY <1>0
        <3> QED BY <3>1, <3>2
    <2>3. ASSUME NEW j \in i .. e PROVE Context!Plain(h, j) \in In(w)
        <3>1. (1 + j) - i \in 1 .. 1 + e - i /\ i + ((1 + j) - i) - 1 = j
            BY <1>0
        <3>2. w[(1 + j) - i] = Context!Plain(h, j)
            BY <2>1, <3>1
        <3> QED BY <2>1, <3>1, <3>2 DEF In
    <2> QED BY <1>2, <2>2, <2>3 DEF e, w
<1> QED BY <1>1, <1>2

\* The messages of the wire history are those of its atoms.
LEMMA WireElements ==
    ASSUME NEW h \in Seq(Messages), NEW a \in 1 .. Len(h) + 1, NEW b \in a - 1 .. Len(h),
           NEW m \in In(Context!Wire(h, a, b))
    PROVE  \E i \in Context!AtomStarts(h) \cap (a .. b) : m \in In(Context!WireAtom(h, i))
<1> DEFINE X == UNION {In(Context!WireAtom(h, i)) : i \in Context!AtomStarts(h) \cap (a .. b)}
           All == {s \in Seq(Sent) : In(s) \subseteq X}
<1>0. \A i \in Context!AtomStarts(h) : i \in 1 .. Len(h)
    BY Places DEF Context!AtomStarts
<1>1. <<>> \in All
    BY InOne
<1>2. \A s, t \in All \cap Seq(Sent) : s \o t \in All
    <2>1. ASSUME NEW s \in All, NEW t \in All PROVE s \o t \in All
        BY InConcat
    <2> QED BY <2>1
<1>3. \A i \in Context!AtomStarts(h) \cap (a .. b) : Context!WireAtom(h, i) \in All
    BY <1>0, AtomType
<1> HIDE DEF All
<1>4. Context!Wire(h, a, b) \in All
    BY <1>1, <1>2, <1>3, WireInduction
<1> QED BY <1>4 DEF All

\* An atom past a is sent whole.
LEMMA AtomIn ==
    ASSUME NEW h \in Seq(Messages), NEW a \in 1 .. Len(h), NEW i \in Context!AtomStarts(h), a <= i
    PROVE  In(Context!WireAtom(h, i)) \subseteq In(Context!Wire(h, a, Len(h)))
<1> DEFINE n == Len(h)
           x == i - 1
<1>0. /\ n \in Nat /\ i \in 1 .. n /\ a \in 1 .. n + 1 /\ i \in 1 .. n + 1 /\ x + 1 = i
      /\ x \in a - 1 .. n /\ n \in x .. n /\ i \in i - 1 .. n /\ n \in i .. n /\ n \in i - 1 .. n
      /\ n \in a - 1 .. n /\ i + 1 \in 1 .. n + 1 /\ n \in (i + 1) - 1 .. n
    BY Places DEF Context!AtomStarts
<1>1. Context!Wire(h, a, n) = Context!Wire(h, a, x) \o Context!Wire(h, i, n)
    <2>1. Context!Wire(h, a, n) = Context!Wire(h, a, x) \o Context!Wire(h, x + 1, n)
        BY <1>0, WireSplit
    <2> QED BY <2>1, <1>0
<1>2. Context!Wire(h, i, n) = Context!WireAtom(h, i) \o Context!Wire(h, i + 1, n)
    <2>1. Context!Wire(h, i, n) = Context!Wire(h, i, i) \o Context!Wire(h, i + 1, n)
        BY <1>0, WireSplit
    <2> QED BY <1>0, <2>1, WireOne DEF Piece
<1>3. /\ Context!Wire(h, a, x) \in Seq(Sent) /\ Context!Wire(h, i, n) \in Seq(Sent)
           /\ Context!Wire(h, i + 1, n) \in Seq(Sent)
      /\ Context!WireAtom(h, i) \in Seq(Sent)
    BY <1>0, WireType, AtomType
<1>4. In(Context!Wire(h, i, n)) = In(Context!WireAtom(h, i)) \cup In(Context!Wire(h, i + 1, n))
    BY <1>2, <1>3, InConcat
<1>5. In(Context!Wire(h, a, n)) = In(Context!Wire(h, a, x)) \cup In(Context!Wire(h, i, n))
    BY <1>1, <1>3, InConcat
<1> QED BY <1>4, <1>5

\* What stands for a message.
Answers(h, m, i) == m.from = i \/ (m.as = "errors" /\ i \in Context!Results(h, m.from))

\* Every message from an atom on is sent, or what stands for it.
LEMMA WireCovers ==
    ASSUME NEW h \in Seq(Messages), NEW a \in Context!AtomStarts(h), NEW j \in a .. Len(h)
    PROVE  \E m \in In(Context!Wire(h, a, Len(h))) : Answers(h, m, j)
<1>1. PICK i \in Context!AtomStarts(h) : a <= i /\ (j = i \/ j \in Context!Results(h, i))
    BY AtomOf
<1>2. i \in 1 .. Len(h) /\ a \in 1 .. Len(h) /\ Len(h) \in Nat
    BY Places DEF Context!AtomStarts
<1>3. In(Context!WireAtom(h, i)) \subseteq In(Context!Wire(h, a, Len(h)))
    BY <1>1, <1>2, AtomIn
<1>4. CASE Context!Normalized(h, i)
    <2>1. Context!Error(i) \in In(Context!WireAtom(h, i))
        BY <1>2, <1>4, AtomElements
    <2>2. Answers(h, Context!Error(i), j)
        BY <1>1 DEF Answers, Context!Error
    <2> QED BY <1>3, <2>1, <2>2
<1>5. CASE ~Context!Normalized(h, i)
    <2>1. j \in i .. Context!ResultsEnd(h, i)
        BY <1>1, <1>2, ResultsFacts DEF Context!Results
    <2>2. Context!Plain(h, j) \in In(Context!WireAtom(h, i))
        BY <1>2, <1>5, <2>1, AtomElements
    <2>3. Answers(h, Context!Plain(h, j), j)
        BY DEF Answers, Context!Plain
    <2> QED BY <1>3, <2>2, <2>3
<1> QED BY <1>4, <1>5

-----------------------------------------------------------------------------
\* The forms of what is sent.

\* The middle one of three sequences.
LEMMA Middle ==
    ASSUME NEW s \in Seq(Sent), NEW t \in Seq(Sent), NEW v \in Seq(Sent)
    PROVE  SubSeq((s \o t) \o v, Len(s) + 1, Len(s) + Len(t)) = t
<1> DEFINE u == s \o t
           w == u \o v
           a == Len(s)
           b == Len(t)
           x == SubSeq(w, a + 1, a + b)
<1>1. /\ a \in Nat /\ b \in Nat /\ Len(v) \in Nat /\ u \in Seq(Sent) /\ Len(u) = a + b
      /\ \A k \in 1 .. a + b : u[k] = IF k <= a THEN s[k] ELSE t[k - a]
    BY LenProperties, ConcatProperties
<1>u. u \in Seq(Sent) /\ v \in Seq(Sent)
    BY <1>1
<1> HIDE DEF u
<1>2. /\ w \in Seq(Sent) /\ Len(w) = Len(u) + Len(v)
      /\ \A k \in 1 .. Len(u) + Len(v) : w[k] = IF k <= Len(u) THEN u[k] ELSE v[k - Len(u)]
    BY <1>u, ConcatProperties
<1> HIDE DEF a, b
<1>3. \A k \in a + 1 .. a + b : w[k] = t[k - a]
    BY <1>1, <1>2
<1>4. \A k \in 1 .. b : t[k] \in Sent
    BY ElementOfSeq DEF b
<1>5. \A k \in a + 1 .. a + b : w[k] \in Sent
    <2>1. \A k \in a + 1 .. a + b : k - a \in 1 .. b
        BY <1>1
    <2> QED BY <2>1, <1>3, <1>4
<1> HIDE DEF w
<1>i. a + 1 \in Int /\ a + b \in Int
    BY <1>1
<1>6. /\ x \in Seq(Sent) /\ Len(x) = IF a + 1 <= a + b THEN (a + b) - (a + 1) + 1 ELSE 0
      /\ \A k \in 1 .. (a + b) - (a + 1) + 1 : x[k] = w[(a + 1) + k - 1]
    BY <1>5, <1>i, SubSeqProperties
<1> HIDE DEF x
<1>7. Len(x) = b /\ (a + b) - (a + 1) + 1 = b
    BY <1>1, <1>6
<1>8. ASSUME NEW k \in 1 .. b PROVE x[k] = t[k]
    <2>1. (a + 1) + k - 1 \in a + 1 .. a + b /\ ((a + 1) + k - 1) - a = k
        BY <1>1
    <2>2. w[(a + 1) + k - 1] = t[k]
        BY <2>1, <1>3
    <2> QED BY <2>2, <1>6, <1>7
<1>9. x = t
    BY <1>6, <1>7, <1>8, SeqEqual DEF b
<1> QED BY <1>9 DEF x, w, u, a, b

\* The leading system messages, what follows them, the protected data, what
\* follows these, and the turns from i on.
Form(h, i, m, n) ==
    ((Context!Wire(h, 1, Context!Leading(h)) \o m)
      \o (Context!Wire(h, Context!Leading(h) + 1, Context!PrefixLength(h)) \o n))
    \o Context!Wire(h, i, Len(h))

\* What of it is sent, with nothing in between, a marker, or a marker and a summary.
Shape(h, i, m, n) ==
    \/ i = Context!PrefixLength(h) + 1 /\ m = <<>> /\ n = <<>>
    \/ i \in Context!TurnStarts(h) /\ i # Context!PrefixLength(h) + 1 /\ m = <<>> /\ n = <<Context!Marker>>
    \/ /\ i \in Context!TurnStarts(h) /\ i # Context!PrefixLength(h) + 1
       /\ m = <<Context!Marker>> /\ \E u \in Nat : n = <<Context!Summary(u)>>

\* The places of a form, and the type of what it sends.
LEMMA FormType ==
    ASSUME NEW h \in Seq(Messages), NEW i, NEW m, NEW n, Shape(h, i, m, n)
    PROVE  /\ i \in Context!PrefixLength(h) + 1 .. Len(h) + 1
           /\ i <= Len(h) /\ Context!SoundAtoms(h) => i \in Context!AtomStarts(h)
           /\ m \in Seq(Sent) /\ n \in Seq(Sent)
           /\ Context!Wire(h, 1, Context!Leading(h)) \in Seq(Sent)
           /\ Context!Wire(h, Context!Leading(h) + 1, Context!PrefixLength(h)) \in Seq(Sent)
           /\ Context!Wire(h, i, Len(h)) \in Seq(Sent)
<1>0. /\ Len(h) \in Nat /\ Context!PrefixLength(h) \in 0 .. Len(h) /\ Context!Leading(h) \in 0 .. Len(h)
      /\ Context!Leading(h) <= Context!PrefixLength(h)
    BY Places, PrefixFacts, LeadingFacts
<1>1. i \in Context!PrefixLength(h) + 1 .. Len(h) + 1
    BY <1>0, TurnFacts DEF Shape
<1>2. i <= Len(h) /\ Context!SoundAtoms(h) => i \in Context!AtomStarts(h)
    BY <1>0, TurnFacts, FirstAtom DEF Shape
<1>3. /\ 1 \in 1 .. Len(h) + 1 /\ Context!Leading(h) \in 1 - 1 .. Len(h)
      /\ Context!Leading(h) + 1 \in 1 .. Len(h) + 1
           /\ Context!PrefixLength(h) \in (Context!Leading(h) + 1) - 1 .. Len(h)
      /\ i \in 1 .. Len(h) + 1 /\ Len(h) \in i - 1 .. Len(h)
    BY <1>0, <1>1
<1>4. <<Context!Marker>> \in Seq(Sent) /\ <<>> \in Seq(Sent)
        /\ \A u \in Nat : <<Context!Summary(u)>> \in Seq(Sent)
    BY DEF Context!Marker, Context!Summary, Sent
<1>5. m \in Seq(Sent) /\ n \in Seq(Sent)
    BY <1>4 DEF Shape
<1>6. /\ Context!Wire(h, 1, Context!Leading(h)) \in Seq(Sent)
      /\ Context!Wire(h, Context!Leading(h) + 1, Context!PrefixLength(h)) \in Seq(Sent)
      /\ Context!Wire(h, i, Len(h)) \in Seq(Sent)
    BY <1>3, WireType
<1> QED BY <1>1, <1>2, <1>5, <1>6

\* The messages of what is sent.
LEMMA FormElements ==
    ASSUME NEW h \in Seq(Messages), NEW i, NEW m, NEW n, Shape(h, i, m, n)
    PROVE  /\ Form(h, i, m, n) \in Seq(Sent)
           /\ In(Form(h, i, m, n)) =
                 ((In(Context!Wire(h, 1, Context!Leading(h))) \cup In(m))
                  \cup (In(Context!Wire(h, Context!Leading(h) + 1, Context!PrefixLength(h))) \cup In(n)))
                 \cup In(Context!Wire(h, i, Len(h)))
<1> DEFINE A == Context!Wire(h, 1, Context!Leading(h))
           B == Context!Wire(h, Context!Leading(h) + 1, Context!PrefixLength(h))
           C == Context!Wire(h, i, Len(h))
<1>0. A \in Seq(Sent) /\ B \in Seq(Sent) /\ C \in Seq(Sent) /\ m \in Seq(Sent) /\ n \in Seq(Sent)
    BY FormType
<1> HIDE DEF A, B, C
<1>1. A \o m \in Seq(Sent) /\ In(A \o m) = In(A) \cup In(m)
    BY <1>0, InConcat
<1>2. B \o n \in Seq(Sent) /\ In(B \o n) = In(B) \cup In(n)
    BY <1>0, InConcat
<1>3. (A \o m) \o (B \o n) \in Seq(Sent) /\ In((A \o m) \o (B \o n)) = In(A \o m) \cup In(B \o n)
    BY <1>1, <1>2, InConcat
<1>4. /\ ((A \o m) \o (B \o n)) \o C \in Seq(Sent)
      /\ In(((A \o m) \o (B \o n)) \o C) = In((A \o m) \o (B \o n)) \cup In(C)
    BY <1>0, <1>3, InConcat
<1> QED BY <1>1, <1>2, <1>3, <1>4 DEF Form, A, B, C

\* The prefix is its system messages and its protected data.
LEMMA PrefixForm ==
    ASSUME NEW h \in Seq(Messages)
    PROVE  Context!Wire(h, 1, Context!PrefixLength(h))
              = Context!Wire(h, 1, Context!Leading(h))
                \o Context!Wire(h, Context!Leading(h) + 1, Context!PrefixLength(h))
<1>0. /\ 1 \in 1 .. Len(h) + 1 /\ Context!Leading(h) \in 1 - 1 .. Len(h)
      /\ Context!PrefixLength(h) \in Context!Leading(h) .. Len(h)
    BY Places, PrefixFacts, LeadingFacts
<1> QED BY <1>0, WireSplit

\* All that is sent when it fits is a form: nothing is dropped.
LEMMA WholeForm ==
    ASSUME NEW h \in Seq(Messages)
    PROVE  /\ Context!Wire(h, 1, Len(h)) = Form(h, Context!PrefixLength(h) + 1, <<>>, <<>>)
           /\ Shape(h, Context!PrefixLength(h) + 1, <<>>, <<>>)
<1> DEFINE A == Context!Wire(h, 1, Context!Leading(h))
           B == Context!Wire(h, Context!Leading(h) + 1, Context!PrefixLength(h))
           C == Context!Wire(h, Context!PrefixLength(h) + 1, Len(h))
<1>0. Shape(h, Context!PrefixLength(h) + 1, <<>>, <<>>)
    BY DEF Shape
<1>1. A \in Seq(Sent) /\ B \in Seq(Sent) /\ C \in Seq(Sent)
    BY <1>0, FormType
<1>2. Context!Wire(h, 1, Len(h)) = (A \o B) \o C
    BY WholeWire, PrefixForm
<1>3. A \o <<>> = A /\ B \o <<>> = B
    <2> HIDE DEF A, B
    <2> QED BY <1>1, ConcatEmptySeq
<1>4. Form(h, Context!PrefixLength(h) + 1, <<>>, <<>>) = ((A \o <<>>) \o (B \o <<>>)) \o C
    BY DEF Form
<1> QED BY <1>0, <1>2, <1>3, <1>4

\* So is what is kept from a turn on, with the marker where turns were dropped.
LEMMA KeepingForm ==
    ASSUME NEW h \in Seq(Messages), NEW i \in Context!TurnStarts(h)
    PROVE  LET n == IF i = Context!PrefixLength(h) + 1 THEN <<>> ELSE <<Context!Marker>> IN
           Context!Keeping(h, i) = Form(h, i, <<>>, n) /\ Shape(h, i, <<>>, n)
<1> DEFINE n == IF i = Context!PrefixLength(h) + 1 THEN <<>> ELSE <<Context!Marker>>
           A == Context!Wire(h, 1, Context!Leading(h))
           B == Context!Wire(h, Context!Leading(h) + 1, Context!PrefixLength(h))
           C == Context!Wire(h, i, Len(h))
<1>0. Shape(h, i, <<>>, n)
    BY DEF Shape
<1> DEFINE P == Context!Wire(h, 1, Context!PrefixLength(h))
<1>1. A \in Seq(Sent) /\ B \in Seq(Sent) /\ C \in Seq(Sent) /\ n \in Seq(Sent)
    BY <1>0, FormType
<1>2. P = A \o B
    BY PrefixForm
<1>3. Context!Keeping(h, i) = P \o n \o C
    BY DEF Context!Keeping
<1>4. A \o <<>> = A
    <2> HIDE DEF A
    <2> QED BY <1>1, ConcatEmptySeq
<1>5. Form(h, i, <<>>, n) = ((A \o <<>>) \o (B \o n)) \o C
    BY DEF Form
<1> HIDE DEF A, B, C, P, n
<1>6. (A \o B) \o n = A \o (B \o n)
    <2>1. A \in Seq(Sent) /\ B \in Seq(Sent) /\ n \in Seq(Sent)
        BY <1>1
    <2> QED BY <2>1, SentJoins
<1>7. A \o B \in Seq(Sent)
    BY <1>1, ConcatProperties
<1>8. ASSUME NEW Q \in Seq(Sent) PROVE Q \o (n \o C) = (Q \o n) \o C
    <2>1. n \in Seq(Sent) /\ C \in Seq(Sent)
        BY <1>1
    <2> QED BY <2>1, SentJoins
<1>9. P \o n \o C = ((A \o B) \o n) \o C
    <2>1. P \in Seq(Sent)
        BY <1>2, <1>7
    <2> QED BY <1>2, <1>8, <2>1
<1>10. Context!Keeping(h, i) = Form(h, i, <<>>, n)
    BY <1>3, <1>4, <1>5, <1>6, <1>9
<1> QED BY <1>0, <1>10 DEF n

\* What the compaction sends: the marker moves and the summary takes its place.
LEMMA SummaryForm ==
    ASSUME NEW h \in Seq(Messages), Context!SoundAtoms(h),
           NEW i \in Context!TurnStarts(h), i # Context!PrefixLength(h) + 1,
           NEW u \in Nat
    PROVE  /\ Shape(h, i, <<Context!Marker>>, <<Context!Summary(u)>>)
           /\ SubSeq(Context!Keeping(h, i), 1, Context!Leading(h)) \o <<Context!Marker>>
              \o SubSeq(Context!Keeping(h, i), Context!Leading(h) + 1, Context!PrefixLength(h))
                \o <<Context!Summary(u)>>
              \o SubSeq(Context!Keeping(h, i), Context!PrefixLength(h) + 2, Len(Context!Keeping(h, i)))
                 = Form(h, i, <<Context!Marker>>, <<Context!Summary(u)>>)
<1> DEFINE A == Context!Wire(h, 1, Context!Leading(h))
           B == Context!Wire(h, Context!Leading(h) + 1, Context!PrefixLength(h))
           C == Context!Wire(h, i, Len(h))
           M == <<Context!Marker>>
           N == <<Context!Summary(u)>>
           S == Context!Keeping(h, i)
           l == Context!Leading(h)
           p == Context!PrefixLength(h)
           E == <<>>
<1>0. Shape(h, i, M, N) /\ Shape(h, i, E, M) /\ S = Form(h, i, E, M)
    BY KeepingForm DEF Shape
<1>1. A \in Seq(Sent) /\ B \in Seq(Sent) /\ C \in Seq(Sent) /\ M \in Seq(Sent) /\ N \in Seq(Sent)
    BY <1>0, FormType
<1>2. Len(A) = l /\ Len(B) = p - l /\ l \in Nat /\ p \in Nat
    <2>1. /\ 1 \in 1 .. p + 1 /\ l \in 1 - 1 .. p /\ l + 1 \in 1 .. p + 1 /\ p \in (l + 1) - 1 .. p
          /\ l \in Nat /\ p \in Nat
        BY Places, PrefixFacts, LeadingFacts
    <2>2. Len(A) = l - (1 - 1) /\ Len(B) = p - ((l + 1) - 1)
        BY <2>1, PrefixWire
    <2>3. l - (1 - 1) = l /\ p - ((l + 1) - 1) = p - l
        BY <2>1
    <2> QED BY <2>1, <2>2, <2>3
<1>3. Len(M) = 1 /\ Len(E) = 0 /\ E \in Seq(Sent)
    OBVIOUS
<1>4. S = ((A \o E) \o (B \o M)) \o C
    BY <1>0 DEF Form
<1>5. Form(h, i, M, N) = ((A \o M) \o (B \o N)) \o C
    BY DEF Form
<1>6. A \o E = A /\ E \o A = A /\ \A v \in Seq(Sent) : v \o E = v
    <2> HIDE DEF A
    <2> QED BY <1>1, ConcatEmptySeq
<1> HIDE DEF A, B, C, M, N, S, E, l, p
<1>A. A \in Seq(Sent)
    BY <1>1
<1>B. B \in Seq(Sent)
    BY <1>1
<1>C. C \in Seq(Sent)
    BY <1>1
<1>M. M \in Seq(Sent)
    BY <1>1
<1>N. N \in Seq(Sent)
    BY <1>1
<1>BM. B \o M \in Seq(Sent) /\ Len(B \o M) = Len(B) + Len(M)
    BY <1>B, <1>M, ConcatProperties
<1>MC. M \o C \in Seq(Sent)
    BY <1>M, <1>C, ConcatProperties
<1>AM. A \o M \in Seq(Sent)
    BY <1>A, <1>M, ConcatProperties
<1> DEFINE BM == B \o M
           MC == M \o C
           BN == B \o N
           AM == A \o M
<1> HIDE DEF BM, MC, BN, AM
<1>7. S = (A \o BM) \o C
    BY <1>4, <1>6 DEF BM
<1>8. SubSeq(S, 1, l) = A
    <2> DEFINE v == BM \o C
    <2>0. BM \in Seq(Sent)
        BY <1>BM DEF BM
    <2>1. v \in Seq(Sent)
        BY <2>0, <1>C, ConcatProperties
    <2>2. S = A \o v
        BY <1>7, <1>A, <2>0, <1>C, SentJoins
    <2> HIDE DEF v
    <2>3. SubSeq((E \o A) \o v, Len(E) + 1, Len(E) + Len(A)) = A
        BY <1>A, <1>3, <2>1, Middle
    <2>4. Len(E) + 1 = 1 /\ Len(E) + Len(A) = l
        BY <1>2, <1>3
    <2> QED BY <2>2, <2>3, <2>4, <1>6
<1>9. SubSeq(S, l + 1, p) = B
    <2>0. BM \in Seq(Sent) /\ MC \in Seq(Sent)
        BY <1>BM, <1>MC DEF BM, MC
    <2>1. (A \o BM) \o C = A \o (BM \o C)
        BY <1>A, <2>0, <1>C, SentJoins
    <2>2. BM \o C = B \o MC
        BY <1>B, <1>M, <1>C, SentJoins DEF BM, MC
    <2>3. (A \o B) \o MC = A \o (B \o MC)
        BY <1>A, <1>B, <2>0, SentJoins
    <2>4. S = (A \o B) \o MC
        BY <1>7, <2>1, <2>2, <2>3
    <2>5. SubSeq((A \o B) \o MC, Len(A) + 1, Len(A) + Len(B)) = B
        BY <1>A, <1>B, <2>0, Middle
    <2>6. Len(A) + 1 = l + 1 /\ Len(A) + Len(B) = p
        BY <1>2
    <2> QED BY <2>4, <2>5, <2>6
<1>10. SubSeq(S, p + 2, Len(S)) = C
    <2> DEFINE v == A \o BM
    <2>0. BM \in Seq(Sent) /\ Len(BM) = Len(B) + 1
        BY <1>BM, <1>3 DEF BM
    <2>1. v \in Seq(Sent) /\ Len(v) = Len(A) + Len(BM)
        BY <1>A, <2>0, ConcatProperties
    <2>2. Len(v) + 1 = p + 2
        BY <2>0, <2>1, <1>2
    <2> HIDE DEF v
    <2>3. S = v \o C
        BY <1>7 DEF v
    <2>4. v \o C \in Seq(Sent) /\ Len(v \o C) = Len(v) + Len(C)
        BY <2>1, <1>C, ConcatProperties
    <2>5. S = (v \o C) \o E
        BY <2>3, <2>4, <1>6
    <2>6. SubSeq((v \o C) \o E, Len(v) + 1, Len(v) + Len(C)) = C
        BY <1>C, <1>3, <2>1, Middle
    <2> QED BY <2>2, <2>3, <2>4, <2>5, <2>6
<1> DEFINE R == A \o M \o B \o N \o C
<1>11. R = (AM \o BN) \o C
    <2>1. AM \in Seq(Sent)
        BY <1>AM DEF AM
    <2>2. (AM \o B) \o N = AM \o (B \o N)
        BY <2>1, <1>B, <1>N, SentJoins
    <2> QED BY <2>2 DEF AM, BN
<1>12. SubSeq(S, 1, l) \o M \o SubSeq(S, l + 1, p) \o N \o SubSeq(S, p + 2, Len(S))
          = Form(h, i, M, N)
    BY <1>5, <1>8, <1>9, <1>10, <1>11 DEF AM, BN
<1> QED BY <1>0, <1>12 DEF S, M, N, l, p

-----------------------------------------------------------------------------
\* Nothing of the prefix or of the kept turns is lost.
LEMMA FormCovers ==
    ASSUME NEW h \in Seq(Messages), Context!SoundAtoms(h), NEW i, NEW m, NEW n, Shape(h, i, m, n),
           NEW j \in DOMAIN h, j <= Context!PrefixLength(h) \/ j >= i
    PROVE  \E x \in In(Form(h, i, m, n)) : Answers(h, x, j)
<1> DEFINE l == Context!Leading(h)
           p == Context!PrefixLength(h)
           S == In(Form(h, i, m, n))
<1>0. /\ Len(h) \in Nat /\ j \in 1 .. Len(h) /\ p \in 0 .. Len(h) /\ l \in 0 .. Len(h)
      /\ l <= p /\ i \in p + 1 .. Len(h) + 1
    BY Places, PrefixFacts, LeadingFacts, FormType
<1>1. /\ In(Context!Wire(h, 1, l)) \subseteq S /\ In(Context!Wire(h, l + 1, p)) \subseteq S
      /\ In(Context!Wire(h, i, Len(h))) \subseteq S
    BY FormElements
<1>2. ASSUME NEW a \in 1 .. p + 1, NEW b \in a - 1 .. p, NEW k \in a .. b
      PROVE  \E x \in In(Context!Wire(h, a, b)) : Answers(h, x, k)
    <2>1. k - (a - 1) \in 1 .. b - (a - 1) /\ (a - 1) + (k - (a - 1)) = k
        BY <1>0
    <2>2. Context!Wire(h, a, b)[k - (a - 1)] = Context!Plain(h, k)
        BY <2>1, PrefixWire
    <2>3. DOMAIN Context!Wire(h, a, b) = 1 .. b - (a - 1)
        BY PrefixWire, LenProperties
    <2>4. Context!Plain(h, k) \in In(Context!Wire(h, a, b))
        BY <2>1, <2>2, <2>3 DEF In
    <2>5. Answers(h, Context!Plain(h, k), k)
        BY DEF Answers, Context!Plain
    <2> QED BY <2>4, <2>5
<1>3. CASE j <= l
    <2>1. 1 \in 1 .. p + 1 /\ l \in 1 - 1 .. p /\ j \in 1 .. l
        BY <1>0, <1>3
    <2> QED BY <2>1, <1>1, <1>2
<1>4. CASE ~(j <= l) /\ j <= p
    <2>1. l + 1 \in 1 .. p + 1 /\ p \in (l + 1) - 1 .. p /\ j \in l + 1 .. p
        BY <1>0, <1>4
    <2> QED BY <2>1, <1>1, <1>2
<1>5. CASE j >= i
    <2>1. i \in Context!AtomStarts(h) /\ j \in i .. Len(h)
        BY <1>0, <1>5, FormType
    <2> QED BY <2>1, <1>1, WireCovers
<1> QED BY <1>3, <1>4, <1>5

-----------------------------------------------------------------------------
\* Calls and their results.

\* A message's calls are the ones answered after it.
Answered(h, s, k) ==
    LET asked == Context!CallsOf(h, s[k])
        answers == {h[s[j].from].answers : j \in Context!After(h, s, k)} IN
    /\ answers = {asked[a].id : a \in DOMAIN asked}
    /\ Context!Cardinality(Context!After(h, s, k)) = Len(asked)

\* Continued, message by message.
LEMMA ContinuedIs ==
    ASSUME NEW h, NEW s
    PROVE  Context!Continued(h, s) <=>
              /\ s # <<>> => Context!Role(h, s[1]) # "tool"
              /\ \A k \in DOMAIN s : Context!Role(h, s[k]) # "tool" => Answered(h, s, k)
BY DEF Context!Continued, Answered

\* The messages after one are finite in number and come after it.
LEMMA AfterType ==
    ASSUME NEW h, NEW s \in Seq(Sent), NEW k \in 1 .. Len(s)
    PROVE  Context!After(h, s, k) \subseteq k + 1 .. Len(s) /\ IsFiniteSet(Context!After(h, s, k))
<1>1. Context!After(h, s, k) \subseteq k + 1 .. Len(s)
    BY DEF Context!After
<1>2. Len(s) \in Int /\ k + 1 \in Int
    BY LenProperties
<1>3. IsFiniteSet(k + 1 .. Len(s))
    BY <1>2, FS_Interval
<1> QED BY <1>1, <1>3, FS_Subset

\* A sequence that begins with no result adds none to the one before it.
LEMMA ContinuedConcat ==
    ASSUME NEW h, NEW s \in Seq(Sent), NEW t \in Seq(Sent), Context!Continued(h, s), Context!Continued(h, t)
    PROVE  Context!Continued(h, s \o t)
<1> DEFINE u == s \o t
           L == Len(s)
           M == Len(t)
<1>0. /\ L \in Nat /\ M \in Nat /\ u \in Seq(Sent) /\ Len(u) = L + M
      /\ \A k \in 1 .. L + M : u[k] = IF k <= L THEN s[k] ELSE t[k - L]
    BY LenProperties, ConcatProperties
<1>1. DOMAIN s = 1 .. L /\ DOMAIN t = 1 .. M /\ DOMAIN u = 1 .. L + M
    BY <1>0, LenProperties
<1>e. (s = <<>> <=> L = 0) /\ (t = <<>> <=> M = 0) /\ (u = <<>> <=> L + M = 0)
    BY <1>0, EmptySeq
<1>2. /\ L # 0 => Context!Role(h, s[1]) # "tool"
      /\ \A k \in 1 .. L : Context!Role(h, s[k]) # "tool" => Answered(h, s, k)
    BY <1>1, <1>e, ContinuedIs
<1>3. /\ M # 0 => Context!Role(h, t[1]) # "tool"
      /\ \A k \in 1 .. M : Context!Role(h, t[k]) # "tool" => Answered(h, t, k)
    BY <1>1, <1>e, ContinuedIs
<1>u. u \in Seq(Sent)
    BY <1>0
<1>a. \A k : /\ Context!After(h, u, k)
                = {j \in k + 1 .. L + M : \A i \in k + 1 .. j : Context!Role(h, u[i]) = "tool"}
             /\ Context!After(h, s, k)
                = {j \in k + 1 .. L : \A i \in k + 1 .. j : Context!Role(h, s[i]) = "tool"}
             /\ Context!After(h, t, k)
                = {j \in k + 1 .. M : \A i \in k + 1 .. j : Context!Role(h, t[i]) = "tool"}
    BY <1>0 DEF Context!After
<1>f. \A k \in 1 .. M : IsFiniteSet(Context!After(h, t, k))
    BY AfterType
<1> HIDE DEF u, L, M
<1>4. ASSUME L + M # 0 PROVE Context!Role(h, u[1]) # "tool"
    <2>1. CASE L # 0
        <3>1. u[1] = s[1]
            BY <1>0, <2>1
        <3> QED BY <3>1, <1>2, <2>1
    <2>2. CASE L = 0
        <3>1. M # 0 /\ u[1] = t[1]
            BY <1>0, <2>2, <1>4
        <3> QED BY <3>1, <1>3
    <2> QED BY <2>1, <2>2
<1>5. ASSUME NEW k \in 1 .. L, Context!Role(h, u[k]) # "tool" PROVE Answered(h, u, k)
    <2>0. k \in 1 .. L + M /\ u[k] = s[k]
        BY <1>0
    <2>1. ASSUME NEW j \in Context!After(h, u, k) PROVE j \in Context!After(h, s, k)
        <3>1. j \in k + 1 .. L + M /\ \A i \in k + 1 .. j : Context!Role(h, u[i]) = "tool"
            BY <1>a
        <3>2. j <= L
            <4>1. SUFFICES ASSUME j > L PROVE FALSE
                BY <3>1, <1>0
            <4>2. M # 0 /\ L + 1 \in k + 1 .. j /\ L + 1 \in 1 .. L + M /\ ~(L + 1 <= L) /\ (L + 1) - L = 1
                BY <1>0, <3>1, <4>1
            <4>3. u[L + 1] = t[1]
                BY <1>0, <4>2
            <4> QED BY <1>3, <3>1, <4>2, <4>3
        <3>3. \A i \in k + 1 .. j : u[i] = s[i]
            BY <1>0, <3>1, <3>2
        <3>4. j \in k + 1 .. L
            BY <1>0, <3>1, <3>2
        <3>5. \A i \in k + 1 .. j : Context!Role(h, s[i]) = "tool"
            BY <3>1, <3>3
        <3> QED BY <3>4, <3>5, <1>a
    <2>2. ASSUME NEW j \in Context!After(h, s, k) PROVE j \in Context!After(h, u, k) /\ u[j] = s[j]
        <3>1. j \in k + 1 .. L /\ \A i \in k + 1 .. j : Context!Role(h, s[i]) = "tool"
            BY <1>a
        <3>2. \A i \in k + 1 .. j : u[i] = s[i]
            BY <1>0, <3>1
        <3>3. j \in k + 1 .. L + M /\ j \in k + 1 .. j
            BY <1>0, <3>1
        <3>4. \A i \in k + 1 .. j : Context!Role(h, u[i]) = "tool"
            BY <3>1, <3>2
        <3> QED BY <3>2, <3>3, <3>4, <1>a
    <2>3. Context!After(h, u, k) = Context!After(h, s, k)
        BY <2>1, <2>2
    <2>4. {h[u[j].from].answers : j \in Context!After(h, u, k)}
            = {h[s[j].from].answers : j \in Context!After(h, s, k)}
        BY <2>2, <2>3
    <2>5. Answered(h, s, k)
        BY <1>2, <1>5, <2>0
    <2> QED BY <2>0, <2>3, <2>4, <2>5, ZenonT(60) DEF Answered
<1>6. ASSUME NEW k \in L + 1 .. L + M, Context!Role(h, u[k]) # "tool" PROVE Answered(h, u, k)
    <2> DEFINE q == k - L
               A == Context!After(h, t, q)
               B == Context!After(h, u, k)
    <2>0. q \in 1 .. M /\ u[k] = t[q] /\ k = L + q
        BY <1>0
    <2>1. ASSUME NEW j \in A PROVE L + j \in B /\ u[L + j] = t[j] /\ j \in Int
        <3>1. j \in q + 1 .. M /\ \A i \in q + 1 .. j : Context!Role(h, t[i]) = "tool"
            BY <1>a
        <3>2. L + j \in k + 1 .. L + M /\ j \in Int
            BY <1>0, <2>0, <3>1
        <3>3. ASSUME NEW i \in k + 1 .. L + j PROVE u[i] = t[i - L] /\ i - L \in q + 1 .. j
            <4>1. i \in 1 .. L + M /\ ~(i <= L) /\ i - L \in q + 1 .. j
                BY <1>0, <2>0, <3>1
            <4> QED BY <4>1, <1>0
        <3>4. \A i \in k + 1 .. L + j : Context!Role(h, u[i]) = "tool"
            BY <3>1, <3>3
        <3>5. u[L + j] = t[j]
            <4>1. L + j \in k + 1 .. L + j /\ (L + j) - L = j
                BY <1>0, <3>2
            <4> QED BY <3>3, <4>1
        <3> QED BY <3>2, <3>4, <3>5, <1>a
    <2>2. ASSUME NEW j \in B PROVE j - L \in A /\ L + (j - L) = j /\ j \in Int
        <3>1. j \in k + 1 .. L + M /\ \A i \in k + 1 .. j : Context!Role(h, u[i]) = "tool"
            BY <1>a
        <3>a. j \in Int /\ k + 1 <= j /\ j <= L + M /\ k = L + q
            BY <1>0, <2>0, <3>1
        <3>b. L \in Int /\ M \in Int /\ q \in Int /\ k \in Int
            BY <1>0, <2>0
        <3>2. j - L \in q + 1 .. M /\ L + (j - L) = j /\ j \in Int
            BY <3>a, <3>b
        <3>3. ASSUME NEW i \in q + 1 .. j - L PROVE Context!Role(h, t[i]) = "tool"
            <4>1. L + i \in k + 1 .. j /\ L + i \in 1 .. L + M /\ ~(L + i <= L) /\ (L + i) - L = i
                BY <1>0, <2>0, <3>1
            <4>2. u[L + i] = t[i]
                BY <4>1, <1>0
            <4> QED BY <3>1, <4>1, <4>2
        <3> QED BY <3>2, <3>3, <1>a
    <2>f. IsFiniteSet(A)
        BY <1>f, <2>0
    <2> HIDE DEF A, B, q
    <2>3. Context!Cardinality(B) = Context!Cardinality(A)
        <3> DEFINE f == [j \in A |-> L + j]
        <3>1. f \in [A -> B]
            BY <2>1
        <3>2. \A x, y \in A : f[x] = f[y] => x = y
            BY <2>1, <1>0
        <3>3. \A j \in B : \E x \in A : f[x] = j
            BY <2>2
        <3> HIDE DEF f
        <3>4. f \in Bijection(A, B)
            BY <3>1, <3>2, <3>3 DEF Bijection, Injection, Surjection, IsInjective
        <3>5. ExistsBijection(A, B)
            BY <3>4 DEF ExistsBijection
        <3>6. Cardinality(B) = Cardinality(A)
            BY <2>f, <3>5, FS_Bijection
        <3> QED BY <3>6, ContextCounting
    <2>4. {h[u[j].from].answers : j \in B} = {h[t[j].from].answers : j \in A}
        <3>1. ASSUME NEW j \in B PROVE h[u[j].from].answers \in {h[t[x].from].answers : x \in A}
            <4>1. j - L \in A /\ u[j] = t[j - L]
                BY <2>1, <2>2
            <4> QED BY <4>1
        <3>2. ASSUME NEW x \in A PROVE h[t[x].from].answers \in {h[u[j].from].answers : j \in B}
            <4>1. L + x \in B /\ u[L + x] = t[x]
                BY <2>1
            <4> QED BY <4>1
        <3> QED BY <3>1, <3>2
    <2>5. Answered(h, t, q)
        BY <1>3, <1>6, <2>0
    <2> QED BY <2>0, <2>3, <2>4, <2>5, ZenonT(60) DEF Answered, A, B, q
<1>7. u # <<>> => Context!Role(h, u[1]) # "tool"
    BY <1>4, <1>e
<1>8. \A k \in DOMAIN u : Context!Role(h, u[k]) # "tool" => Answered(h, u, k)
    <2>1. \A k \in 1 .. L + M : k \in 1 .. L \/ k \in L + 1 .. L + M
        BY <1>0
    <2> QED BY <1>1, <1>5, <1>6, <2>1
<1>9. Context!Continued(h, u)
    BY <1>7, <1>8, ContinuedIs
<1> QED BY <1>9 DEF u

\* A message that makes no call and answers none stands alone.
LEMMA ContinuedOne ==
    ASSUME NEW h, NEW m \in Sent, Context!Role(h, m) # "tool", Context!CallsOf(h, m) = <<>>
    PROVE  Context!Continued(h, <<m>>) /\ Context!Continued(h, <<>>)
<1> DEFINE s == <<m>>
<1>1. s \in Seq(Sent) /\ Len(s) = 1 /\ s[1] = m /\ DOMAIN s = {1}
    OBVIOUS
<1> HIDE DEF s
<1>2. Context!After(h, s, 1) = {}
    <2>1. Context!After(h, s, 1) \subseteq 1 + 1 .. 1
        <3>1. 1 \in 1 .. Len(s)
            BY <1>1
        <3>2. Context!After(h, s, 1) \subseteq 1 + 1 .. Len(s)
            BY <1>1, <3>1, AfterType
        <3> QED BY <1>1, <3>2
    <2> QED BY <2>1
<1>3. Context!Cardinality(Context!After(h, s, 1)) = Len(<<>>)
    BY <1>2, FS_EmptySet, ContextCounting
<1>4. Answered(h, s, 1)
    BY <1>1, <1>2, <1>3 DEF Answered
<1>5. Context!Continued(h, s)
    BY <1>1, <1>4, ContinuedIs
<1>6. Context!Continued(h, <<>>)
    BY ContinuedIs
<1> QED BY <1>5, <1>6 DEF s

\* What an adapter reads in what may be sent.
LEMMA Roles ==
    ASSUME NEW h, NEW i
    PROVE  /\ Context!Role(h, Context!Plain(h, i)) = IF h[i].role = "protected" THEN "assistant"
                ELSE h[i].role
           /\ Context!CallsOf(h, Context!Plain(h, i)) = h[i].calls
           /\ Context!Role(h, Context!Note(i)) = "assistant" /\ Context!CallsOf(h, Context!Note(i)) = <<>>
           /\ Context!Role(h, Context!Error(i)) = "user" /\ Context!CallsOf(h, Context!Error(i)) = <<>>
           /\ Context!Role(h, Context!Marker) = "system" /\ Context!CallsOf(h, Context!Marker) = <<>>
           /\ \A u : Context!Role(h, Context!Summary(u)) = "assistant"
                /\ Context!CallsOf(h, Context!Summary(u)) = <<>>
BY DEF Context!Role, Context!CallsOf, Context!Plain, Context!Note, Context!Error,
       Context!Marker, Context!Summary

\* An atom without results, and one of a rejected reply.
LEMMA PlainAtom ==
    ASSUME NEW h \in Seq(Messages), NEW i \in 1 .. Len(h), ~Context!Normalized(h, i),
           Context!ResultsEnd(h, i) = i
    PROVE  Context!WireAtom(h, i) = <<Context!Plain(h, i)>>
<1> DEFINE w == Context!WireAtom(h, i)
           v == <<Context!Plain(h, i)>>
<1>2. 1 + Context!ResultsEnd(h, i) - i = 1 /\ i + 1 - 1 = i
    BY Places
<1>3. Len(w) = 1 /\ w[1] = Context!Plain(h, i) /\ w \in Seq(Sent)
    <2>1. /\ Len(w) = 1 + Context!ResultsEnd(h, i) - i
          /\ \A k \in 1 .. 1 + Context!ResultsEnd(h, i) - i : w[k] = Context!Plain(h, i + k - 1)
          /\ w \in Seq(Sent)
        BY AtomType
    <2> HIDE DEF w
    <2>2. 1 \in 1 .. 1 + Context!ResultsEnd(h, i) - i
        BY <1>2
    <2> QED BY <1>2, <2>1, <2>2
<1>4. v \in Seq(Sent) /\ Len(v) = 1 /\ v[1] = Context!Plain(h, i)
    BY PlainType, OneMessage
<1> HIDE DEF w, v
<1>5. w = v
    BY <1>3, <1>4, SeqEqual
<1> QED BY <1>5 DEF w, v

\* A rejected call is sent as a note and an error, neither of which is a call.
LEMMA RejectedAtom ==
    ASSUME NEW h \in Seq(Messages), NEW i \in 1 .. Len(h), Context!Normalized(h, i)
    PROVE  /\ Context!WireAtom(h, i) = <<Context!Note(i)>> \o <<Context!Error(i)>>
           /\ Context!Note(i) \in Sent /\ Context!Error(i) \in Sent
<1>1. Context!Note(i) \in Sent /\ Context!Error(i) \in Sent
    BY DEF Context!Note, Context!Error, Sent
<1>2. Context!WireAtom(h, i) = <<Context!Note(i), Context!Error(i)>>
    BY DEF Context!WireAtom
<1> DEFINE s == <<Context!Note(i)>>
           t == <<Context!Error(i)>>
           v == <<Context!Note(i), Context!Error(i)>>
<1>3. /\ s \in Seq(Sent) /\ Len(s) = 1 /\ s[1] = Context!Note(i)
      /\ t \in Seq(Sent) /\ Len(t) = 1 /\ t[1] = Context!Error(i)
    BY <1>1, OneMessage
<1>4. v \in Seq(Sent) /\ Len(v) = 2 /\ v[1] = Context!Note(i) /\ v[2] = Context!Error(i)
    BY <1>1
<1> HIDE DEF s, t, v
<1>5. s \o t \in Seq(Sent) /\ Len(s \o t) = 2 /\ (s \o t)[1] = s[1] /\ (s \o t)[2] = t[1]
    BY <1>3, SentLength
<1>6. s \o t = v
    BY <1>3, <1>4, <1>5, SeqEqual
<1> QED BY <1>1, <1>2, <1>6 DEF s, t, v

\* A call message has as many results as calls.
LEMMA OneResultPerCall ==
    ASSUME NEW h \in Seq(Messages), NEW i \in 1 .. Len(h), Context!Complete(h, i)
    PROVE  /\ Len(h[i].calls) = Context!ResultsEnd(h, i) - i
           /\ {h[j].answers : j \in Context!Results(h, i)} = {h[i].calls[a].id : a \in DOMAIN h[i].calls}
<1> DEFINE c == h[i].calls
           R == Context!Results(h, i)
           A == DOMAIN h[i].calls
           Of(a) == Context!AnswersOf(h, i, c[a].id)
<1>0. Len(c) \in Nat /\ A = 1 .. Len(c) /\ Context!ResultsEnd(h, i) \in i .. Len(h) /\ Len(h) \in Nat
    BY Places, MessageFacts, ResultsFacts
<1>1. IsFiniteSet(R) /\ Cardinality(R) = Context!ResultsEnd(h, i) - i
    <2>1. i + 1 \in Int /\ Context!ResultsEnd(h, i) \in Int
        BY <1>0
    <2>2. IsFiniteSet(i + 1 .. Context!ResultsEnd(h, i))
        BY <2>1, FS_Interval
    <2> QED BY <2>2, AtomType DEF Context!Results
<1>2. IsFiniteSet(A) /\ Cardinality(A) = Len(c)
    <2>1. 1 \in Int /\ Len(c) \in Int
        BY <1>0
    <2>2. IsFiniteSet(1 .. Len(c)) /\ Cardinality(1 .. Len(c)) = IF 1 > Len(c) THEN 0 ELSE Len(c) - 1 + 1
        BY <2>1, FS_Interval
    <2> QED BY <1>0, <2>2
<1>3. /\ \A a \in A : c[a].id # None
      /\ \A a, b \in A : a # b => c[a].id # c[b].id
      /\ \A j \in R : \E a \in A : c[a].id = h[j].answers
      /\ \A a \in A : Cardinality(Of(a)) = 1
    BY ContextCounting DEF Context!Complete, Context!DistinctIds
<1>4. \A a \in A : \E j : Of(a) = {j}
    <2>1. ASSUME NEW a \in A PROVE IsFiniteSet(Of(a))
        <3>1. Of(a) \subseteq R
            BY DEF Context!AnswersOf
        <3> QED BY <1>1, <3>1, FS_Subset
    <2> HIDE DEF A, c
    <2> QED BY <2>1, <1>3, FS_Singleton
<1>5. \A a \in A : Of(a) = {j \in R : h[j].answers = c[a].id}
    BY DEF Context!AnswersOf
<1> HIDE DEF R, A, c, Of
<1> DEFINE f == [a \in A |-> CHOOSE j : Of(a) = {j}]
<1>6. \A a \in A : Of(a) = {f[a]}
    BY <1>4
<1>7. \A a \in A : f[a] \in R /\ h[f[a]].answers = c[a].id
    BY <1>5, <1>6
<1>8. f \in [A -> R]
    BY <1>7
<1> HIDE DEF f
<1>9. \A a, b \in A : f[a] = f[b] => a = b
    BY <1>3, <1>7
<1>10. \A j \in R : \E a \in A : f[a] = j
    <2>1. ASSUME NEW j \in R PROVE \E a \in A : f[a] = j
        <3>1. PICK a \in A : c[a].id = h[j].answers
            BY <1>3
        <3>2. j \in Of(a)
            BY <3>1, <1>5
        <3> QED BY <3>2, <1>6
    <2> QED BY <2>1
<1>11. f \in Bijection(A, R)
    BY <1>8, <1>9, <1>10 DEF Bijection, Injection, Surjection, IsInjective
<1>12. ExistsBijection(A, R)
    BY <1>11 DEF ExistsBijection
<1>13. Cardinality(R) = Cardinality(A)
    BY <1>2, <1>12, FS_Bijection
<1>14. {h[j].answers : j \in R} = {c[a].id : a \in A}
    <2>1. \A a \in A : c[a].id \in {h[j].answers : j \in R}
        BY <1>7
    <2> QED BY <1>3, <2>1
<1> QED BY <1>1, <1>2, <1>13, <1>14 DEF R, A, c

\* A sound atom can be translated.
LEMMA ContinuedAtom ==
    ASSUME NEW h \in Seq(Messages), NEW i \in Context!AtomStarts(h), Context!SoundAtom(h, i)
    PROVE  Context!Continued(h, Context!WireAtom(h, i))
<1> DEFINE e == Context!ResultsEnd(h, i)
           w == Context!WireAtom(h, i)
<1>0. /\ i \in 1 .. Len(h) /\ h[i].role # "tool" /\ Len(h) \in Nat /\ e \in i .. Len(h)
      /\ \A k \in i + 1 .. e : h[k].role = "tool"
    BY Places, ResultsFacts DEF Context!AtomStarts
<1>1. CASE Context!Normalized(h, i)
    <2>1. w = <<Context!Note(i)>> \o <<Context!Error(i)>> /\ Context!Note(i) \in Sent
            /\ Context!Error(i) \in Sent
        BY <1>0, <1>1, RejectedAtom
    <2>2. Context!Continued(h, <<Context!Note(i)>>) /\ Context!Continued(h, <<Context!Error(i)>>)
        BY <2>1, Roles, ContinuedOne
    <2>3. <<Context!Note(i)>> \in Seq(Sent) /\ <<Context!Error(i)>> \in Seq(Sent)
        BY <2>1
    <2> QED BY <2>1, <2>2, <2>3, ContinuedConcat
<1>2. CASE ~Context!Normalized(h, i) /\ h[i].calls = <<>>
    <2>1. i + 1 .. e = {}
        BY <1>2 DEF Context!SoundAtom, Context!Results
    <2>2. e = i
        <3>1. SUFFICES ASSUME e # i PROVE FALSE
            OBVIOUS
        <3>2. i + 1 \in i + 1 .. e
            BY <1>0, <3>1
        <3> QED BY <2>1, <3>2
    <2>3. w = <<Context!Plain(h, i)>> /\ Context!Plain(h, i) \in Sent
        BY <1>0, <1>2, <2>2, PlainAtom, PlainType
    <2>4. Context!Role(h, Context!Plain(h, i)) # "tool" /\ Context!CallsOf(h, Context!Plain(h, i)) = <<>>
        BY <1>0, <1>2, Roles
    <2> QED BY <2>3, <2>4, ContinuedOne
<1>3. CASE ~Context!Normalized(h, i) /\ h[i].calls # <<>>
    <2>0. Context!Complete(h, i)
        BY <1>3 DEF Context!SoundAtom
    <2>1. /\ Len(h[i].calls) = e - i
          /\ {h[j].answers : j \in Context!Results(h, i)} = {h[i].calls[a].id : a \in DOMAIN h[i].calls}
        BY <1>0, <2>0, OneResultPerCall
    <2>2. /\ w \in Seq(Sent) /\ Len(w) = 1 + e - i
          /\ \A k \in 1 .. 1 + e - i : w[k] = Context!Plain(h, i + k - 1)
        BY <1>0, <1>3, AtomType
    <2>3. DOMAIN w = 1 .. 1 + e - i
        BY <2>2, LenProperties
    <2>4. h[i].role = "assistant"
        BY <2>0 DEF Context!Complete
    <2>a. \A k : Context!After(h, w, k)
            = {j \in k + 1 .. Len(w) : \A x \in k + 1 .. j : Context!Role(h, w[x]) = "tool"}
        BY DEF Context!After
    <2> HIDE DEF e, w
    <2>5. w[1] = Context!Plain(h, i) /\ 1 \in 1 .. 1 + e - i
        <3>1. 1 \in 1 .. 1 + e - i /\ i + 1 - 1 = i
            BY <1>0
        <3> QED BY <2>2, <3>1
    <2>6. Context!Role(h, w[1]) = "assistant" /\ Context!CallsOf(h, w[1]) = h[i].calls
        BY <2>4, <2>5, Roles
    <2>7. ASSUME NEW k \in 2 .. 1 + e - i
          PROVE w[k] = Context!Plain(h, i + k - 1) /\ i + k - 1 \in i + 1 .. e
                  /\ Context!Role(h, w[k]) = "tool"
        <3>1. k \in 1 .. 1 + e - i /\ i + k - 1 \in i + 1 .. e
            BY <1>0
        <3>2. h[i + k - 1].role = "tool"
            BY <1>0, <3>1
        <3> QED BY <2>2, <3>1, <3>2, Roles
    <2>8. Context!After(h, w, 1) = 2 .. 1 + e - i
        <3>1. 1 + 1 .. Len(w) = 2 .. 1 + e - i
            BY <2>2
        <3>2. ASSUME NEW j \in 2 .. 1 + e - i, NEW x \in 1 + 1 .. j PROVE x \in 2 .. 1 + e - i
            BY <1>0
        <3> QED BY <2>a, <2>7, <3>1, <3>2
    <2>9. Context!Cardinality(Context!After(h, w, 1)) = Len(h[i].calls)
        <3>1. 2 \in Int /\ 1 + e - i \in Int
            BY <1>0
        <3>2. Cardinality(2 .. 1 + e - i) = IF 2 > 1 + e - i THEN 0 ELSE (1 + e - i) - 2 + 1
            BY <3>1, FS_Interval
        <3>3. Cardinality(2 .. 1 + e - i) = e - i
            BY <1>0, <3>2
        <3> QED BY <2>1, <2>8, <3>3, ContextCounting
    <2>10. {h[w[k].from].answers : k \in 2 .. 1 + e - i} = {h[j].answers : j \in i + 1 .. e}
        <3>1. ASSUME NEW k \in 2 .. 1 + e - i
              PROVE h[w[k].from].answers \in {h[j].answers : j \in i + 1 .. e}
            <4>1. w[k].from = i + k - 1
                <5>1. w[k] = Context!Plain(h, i + k - 1)
                    BY <2>7
                <5> QED BY <5>1 DEF Context!Plain
            <4> QED BY <2>7, <4>1
        <3>2. ASSUME NEW j \in i + 1 .. e
              PROVE h[j].answers \in {h[w[k].from].answers : k \in 2 .. 1 + e - i}
            <4>1. (1 + j) - i \in 2 .. 1 + e - i /\ i + ((1 + j) - i) - 1 = j
                BY <1>0
            <4>2. w[(1 + j) - i].from = j
                <5>1. w[(1 + j) - i] = Context!Plain(h, j)
                    BY <2>7, <4>1
                <5> QED BY <5>1 DEF Context!Plain
            <4> QED BY <4>1, <4>2
        <3> QED BY <3>1, <3>2
    <2>11. Answered(h, w, 1)
        BY <2>1, <2>6, <2>8, <2>9, <2>10, ZenonT(60) DEF Answered, Context!Results, e
    <2>12. \A k \in DOMAIN w : Context!Role(h, w[k]) # "tool" => Answered(h, w, k)
        <3>1. \A k \in 1 .. 1 + e - i : k = 1 \/ k \in 2 .. 1 + e - i
            BY <1>0
        <3> QED BY <2>3, <2>7, <2>11, <3>1
    <2>13. Context!Continued(h, w)
        BY <2>6, <2>12, ContinuedIs
    <2> QED BY <2>13 DEF w
<1> QED BY <1>1, <1>2, <1>3

\* So can what is sent, whatever was dropped.
LEMMA FormContinued ==
    ASSUME NEW h \in Seq(Messages), Context!SoundAtoms(h), NEW i, NEW m, NEW n, Shape(h, i, m, n)
    PROVE  Context!Continued(h, Form(h, i, m, n))
<1> DEFINE Z == {s \in Seq(Sent) : Context!Continued(h, s)}
           A == Context!Wire(h, 1, Context!Leading(h))
           B == Context!Wire(h, Context!Leading(h) + 1, Context!PrefixLength(h))
           C == Context!Wire(h, i, Len(h))
<1>1. <<>> \in Z
    <2>1. Context!Continued(h, <<>>)
        BY ContinuedIs
    <2> QED BY <2>1
<1>2. \A s, t \in Z : s \o t \in Z
    <2>1. ASSUME NEW s \in Z, NEW t \in Z PROVE s \o t \in Z
        BY InConcat, ContinuedConcat
    <2> QED BY <2>1
<1>3. \A x \in Context!AtomStarts(h) : Context!WireAtom(h, x) \in Z
    BY Places, AtomType, ContinuedAtom DEF Context!SoundAtoms, Context!AtomStarts
<1>4. \A m1 \in Sent : Context!Role(h, m1) # "tool" /\ Context!CallsOf(h, m1) = <<>> => <<m1>> \in Z
    BY ContinuedOne
<1>5. m \in Z /\ n \in Z
    <2>1. Context!Marker \in Sent /\ \A u \in Nat : Context!Summary(u) \in Sent
        BY DEF Context!Marker, Context!Summary, Sent
    <2>2. <<Context!Marker>> \in Z /\ \A u \in Nat : <<Context!Summary(u)>> \in Z
        BY <1>4, <2>1, Roles
    <2> HIDE DEF Z
    <2> QED BY <1>1, <2>2 DEF Shape
<1> HIDE DEF Z
<1>6. A \in Z /\ B \in Z /\ C \in Z
    <2>1. /\ 1 \in 1 .. Len(h) + 1 /\ Context!Leading(h) \in 1 - 1 .. Len(h)
          /\ Context!Leading(h) + 1 \in 1 .. Len(h) + 1
               /\ Context!PrefixLength(h) \in (Context!Leading(h) + 1) - 1 .. Len(h)
          /\ i \in 1 .. Len(h) + 1 /\ Len(h) \in i - 1 .. Len(h)
        BY Places, PrefixFacts, LeadingFacts, FormType
    <2>2. ASSUME NEW a \in 1 .. Len(h) + 1, NEW b \in a - 1 .. Len(h) PROVE Context!Wire(h, a, b) \in Z
        BY <1>1, <1>2, <1>3, WireInduction
    <2> QED BY <2>1, <2>2
<1> HIDE DEF A, B, C
<1>7. A \o m \in Z /\ B \o n \in Z
    BY <1>2, <1>5, <1>6
<1>8. (A \o m) \o (B \o n) \in Z
    BY <1>2, <1>7
<1>9. ((A \o m) \o (B \o n)) \o C \in Z
    BY <1>2, <1>6, <1>8
<1> QED BY <1>9 DEF Form, A, B, C, Z

\* The message of an atom that makes its calls, or its results, which make none.
LEMMA AtomCalls ==
    ASSUME NEW h \in Seq(Messages), NEW i \in Context!AtomStarts(h), NEW x \in In(Context!WireAtom(h, i)),
           Context!CallsOf(h, x) # <<>>
    PROVE  ~Context!Normalized(h, i) /\ x = Context!Plain(h, i)
<1>0. i \in 1 .. Len(h) /\ Len(h) \in Nat
    BY Places DEF Context!AtomStarts
<1>1. ~Context!Normalized(h, i)
    <2>1. SUFFICES ASSUME Context!Normalized(h, i) PROVE FALSE
        OBVIOUS
    <2>2. x \in {Context!Note(i), Context!Error(i)}
        BY <1>0, <2>1, AtomElements
    <2> QED BY <2>2, Roles
<1>2. PICK j \in i .. Context!ResultsEnd(h, i) : x = Context!Plain(h, j)
    BY <1>0, <1>1, AtomElements
<1>3. ASSUME j # i PROVE FALSE
    <2>1. j \in i + 1 .. Context!ResultsEnd(h, i) /\ j \in 1 .. Len(h)
        BY <1>0, <1>2, <1>3, ResultsFacts
    <2>2. h[j].role = "tool" /\ h[j] \in Messages
        BY <1>0, <2>1, ResultsFacts, Places
    <2>3. h[j].calls = <<>>
        BY <2>2, MessageFacts
    <2> QED BY <1>2, <2>3, Roles
<1> QED BY <1>1, <1>2, <1>3

\* A provider is asked to carry on its own turns only.
LEMMA FormCarried ==
    ASSUME NEW h \in Seq(Messages), Context!SoundAtoms(h), NEW i, NEW m, NEW n, Shape(h, i, m, n),
           NEW p, p.from = i
    PROVE  (\A x \in In(Form(h, i, m, n)) : Context!Carried(h, x)) <=> ~Context!Switched(h, p)
<1> DEFINE A == Context!Wire(h, 1, Context!Leading(h))
           B == Context!Wire(h, Context!Leading(h) + 1, Context!PrefixLength(h))
           C == Context!Wire(h, i, Len(h))
           S == In(Form(h, i, m, n))
<1>0. S = ((In(A) \cup In(m)) \cup (In(B) \cup In(n))) \cup In(C)
    BY FormElements
<1>1. /\ Len(h) \in Nat /\ DOMAIN h = 1 .. Len(h) /\ Context!PrefixLength(h) \in 0 .. Len(h)
      /\ Context!Leading(h) \in 0 .. Context!PrefixLength(h)
           /\ i \in Context!PrefixLength(h) + 1 .. Len(h) + 1
      /\ 1 \in 1 .. Len(h) + 1 /\ Context!Leading(h) \in 1 - 1 .. Len(h)
      /\ Context!Leading(h) + 1 \in 1 .. Len(h) + 1
           /\ Context!PrefixLength(h) \in (Context!Leading(h) + 1) - 1 .. Len(h)
      /\ i \in 1 .. Len(h) + 1 /\ Len(h) \in i - 1 .. Len(h)
    BY Places, PrefixFacts, LeadingFacts, FormType, SMTT(30)
<1>2. ASSUME NEW x \in S, ~Context!Switched(h, p) PROVE Context!Carried(h, x)
    <2>1. SUFFICES ASSUME Context!CallsOf(h, x) # <<>>
                   PROVE  h[x.from].state = "own" /\ Context!SameCalls(Context!CallsOf(h, x))
        BY DEF Context!Carried
    <2>2. x \notin In(m) /\ x \notin In(n)
        <3>1. Context!CallsOf(h, Context!Marker) = <<>>
                /\ \A u : Context!CallsOf(h, Context!Summary(u)) = <<>>
            BY Roles
        <3> QED BY <2>1, <3>1, InOne DEF Shape
    <2>3. ASSUME NEW a \in 1 .. Len(h) + 1, NEW b \in a - 1 .. Len(h), x \in In(Context!Wire(h, a, b))
          PROVE \E y \in Context!AtomStarts(h) \cap (a .. b) : ~Context!Normalized(h, y)
                  /\ x = Context!Plain(h, y)
        <3>1. PICK y \in Context!AtomStarts(h) \cap (a .. b) : x \in In(Context!WireAtom(h, y))
            BY <2>3, WireElements
        <3> QED BY <2>1, <3>1, AtomCalls
    <2>4. ASSUME x \in In(A) \/ x \in In(B) PROVE FALSE
        <3>1. PICK y \in 1 .. Context!PrefixLength(h) : x = Context!Plain(h, y)
            BY <1>1, <2>3, <2>4
        <3>2. h[y].calls = <<>>
            BY PrefixAtoms
        <3> QED BY <2>1, <3>1, <3>2, Roles
    <2>5. x \in In(C)
        BY <1>0, <2>2, <2>4
    <2>6. PICK y \in Context!AtomStarts(h) \cap (i .. Len(h)) : ~Context!Normalized(h, y)
                 /\ x = Context!Plain(h, y)
        BY <1>1, <2>3, <2>5
    <2>7. h[y].calls # <<>> /\ Context!CallsOf(h, x) = h[y].calls /\ x.from = y /\ y >= i
            /\ y \in 1 .. Len(h)
        BY <1>1, <2>1, <2>6, Roles DEF Context!Plain
    <2>8. Context!Complete(h, y)
        BY <2>6, <2>7 DEF Context!SoundAtoms, Context!SoundAtom
    <2>9. h[y].state = "own" /\ ~(Len(h[y].calls) > 1)
        BY <1>2, <2>6, <2>7 DEF Context!Switched
    <2>10. /\ Len(h[y].calls) \in Nat /\ DOMAIN h[y].calls = 1 .. Len(h[y].calls)
           /\ Len(h[y].calls) # 0
        BY <2>7, Places, MessageFacts
    <2>11. Len(h[y].calls) = 1 /\ 1 \in DOMAIN h[y].calls
        <3> DEFINE c == h[y].calls
                   l == Len(c)
        <3>1. l \in Nat /\ l # 0 /\ ~(l > 1) /\ DOMAIN c = 1 .. l
            BY <2>9, <2>10
        <3> HIDE DEF c, l
        <3>2. l = 1 /\ 1 \in DOMAIN c
            BY <3>1
        <3> QED BY <3>2 DEF c, l
    <2>12. h[y].calls[1].complete
        BY <2>8, <2>11 DEF Context!Complete
    <2> QED BY <2>7, <2>9, <2>11, <2>12 DEF Context!SameCalls
<1>3. ASSUME Context!Switched(h, p) PROVE \E x \in S : ~Context!Carried(h, x)
    <2>1. PICK y \in Context!AtomStarts(h) : /\ y >= i /\ h[y].calls # <<>> /\ ~Context!Normalized(h, y)
                                             /\ h[y].state # "own" \/ Len(h[y].calls) > 1
        BY <1>3 DEF Context!Switched
    <2>2. y \in 1 .. Len(h) /\ i \in 1 .. Len(h) /\ i <= y
        BY <1>1, <2>1 DEF Context!AtomStarts
    <2>3. Context!Plain(h, y) \in In(Context!WireAtom(h, y))
        <3>1. y \in y .. Context!ResultsEnd(h, y)
            BY <2>2, ResultsFacts
        <3> QED BY <2>1, <2>2, <3>1, AtomElements
    <2>4. Context!Plain(h, y) \in S
        BY <1>0, <2>2, <2>3, AtomIn
    <2>5. Context!CallsOf(h, Context!Plain(h, y)) = h[y].calls /\ Context!Plain(h, y).from = y
        BY Roles DEF Context!Plain
    <2>6. Len(h[y].calls) \in Nat
        BY <2>2, Places, MessageFacts
    <2>7. ~Context!Carried(h, Context!Plain(h, y))
        <3>1. h[y].state # "own" \/ ~(Len(h[y].calls) = 1)
            <4>1. ASSUME NEW l \in Nat, l > 1 PROVE ~(l = 1)
                BY <4>1
            <4> QED BY <2>1, <2>6, <4>1
        <3> QED BY <2>1, <2>5, <3>1 DEF Context!Carried, Context!SameCalls
    <2> QED BY <2>4, <2>7
<1> QED BY <1>2, <1>3

-----------------------------------------------------------------------------
\* System messages and the conversation.

Spoken(h, s) == \E x \in In(s) : Context!Role(h, x) # "system"
Instructed(h, s) == \E x \in In(s) : Context!Role(h, x) = "system"
Ordered(h, s) ==
    \A k, j \in DOMAIN s : Context!Role(h, s[k]) # "system" /\ Context!Role(h, s[j]) = "system" => j < k

\* What Anthropic's adapter asks for.
LEMMA AnthropicIs ==
    ASSUME NEW h, NEW s
    PROVE  Context!AnthropicTakes(h, s) <=>
              /\ Context!Continued(h, s) /\ \A x \in In(s) : Context!Carried(h, x)
              /\ Spoken(h, s) /\ Ordered(h, s)
<1>1. (\A x \in In(s) : Context!Carried(h, x)) <=> \A k \in DOMAIN s : Context!Carried(h, s[k])
    BY DEF In
<1>2. Spoken(h, s) <=> {k \in DOMAIN s : Context!Role(h, s[k]) # "system"} # {}
    BY DEF In, Spoken
<1> QED BY <1>1, <1>2 DEF Context!AnthropicTakes, Ordered

\* What OpenAI takes, over the set of the messages.
LEMMA OpenAIIs ==
    ASSUME NEW h, NEW s
    PROVE  Context!OpenAITakes(h, s) <=> Context!Continued(h, s) /\ \A x \in In(s) : Context!Carried(h, x)
BY DEF Context!OpenAITakes, In

\* One sequence after another is in order when both are, and no instruction of
\* the second comes after what is said in the first.
LEMMA OrderedConcat ==
    ASSUME NEW h, NEW s \in Seq(Sent), NEW t \in Seq(Sent)
    PROVE  Ordered(h, s \o t) <=>
              Ordered(h, s) /\ Ordered(h, t) /\ ~(Spoken(h, s) /\ Instructed(h, t))
<1> DEFINE u == s \o t
           L == Len(s)
           M == Len(t)
           Says(x) == Context!Role(h, x) # "system"
<1>0. /\ L \in Nat /\ M \in Nat /\ u \in Seq(Sent) /\ Len(u) = L + M
      /\ \A k \in 1 .. L + M : u[k] = IF k <= L THEN s[k] ELSE t[k - L]
    BY LenProperties, ConcatProperties
<1>1. DOMAIN s = 1 .. L /\ DOMAIN t = 1 .. M /\ DOMAIN u = 1 .. L + M
    BY <1>0, LenProperties
<1>2. /\ Ordered(h, s) <=> \A k, j \in 1 .. L : Says(s[k]) /\ ~Says(s[j]) => j < k
      /\ Ordered(h, t) <=> \A k, j \in 1 .. M : Says(t[k]) /\ ~Says(t[j]) => j < k
      /\ Ordered(h, u) <=> \A k, j \in 1 .. L + M : Says(u[k]) /\ ~Says(u[j]) => j < k
      /\ Spoken(h, s) <=> \E k \in 1 .. L : Says(s[k])
      /\ Instructed(h, t) <=> \E k \in 1 .. M : ~Says(t[k])
    BY <1>1 DEF Ordered, Spoken, Instructed, In
<1> HIDE DEF u, L, M, Says
<1>3. \A k \in 1 .. L : k \in 1 .. L + M /\ u[k] = s[k]
    BY <1>0
<1>4. \A k \in 1 .. M : L + k \in 1 .. L + M /\ u[L + k] = t[k]
    <2>1. ASSUME NEW k \in 1 .. M PROVE L + k \in 1 .. L + M /\ ~(L + k <= L) /\ (L + k) - L = k
        BY <1>0
    <2> QED BY <1>0, <2>1
<1>5. \A k \in 1 .. L + M : k \in 1 .. L \/ \E j \in 1 .. M : k = L + j
    <2>1. ASSUME NEW k \in 1 .. L + M, k \notin 1 .. L PROVE k - L \in 1 .. M /\ k = L + (k - L)
        BY <1>0, <2>1
    <2> QED BY <2>1
<1>6. ASSUME Ordered(h, u) PROVE Ordered(h, s) /\ Ordered(h, t) /\ ~(Spoken(h, s) /\ Instructed(h, t))
    <2>1. Ordered(h, s)
        BY <1>2, <1>3, <1>6
    <2>2. Ordered(h, t)
        <3>1. ASSUME NEW k \in 1 .. M, NEW j \in 1 .. M, Says(t[k]), ~Says(t[j]) PROVE j < k
            <4>1. L + j < L + k
                BY <1>2, <1>4, <1>6, <3>1
            <4> QED BY <4>1, <1>0
        <3> QED BY <3>1, <1>2
    <2>3. ASSUME NEW k \in 1 .. L, NEW j \in 1 .. M, Says(s[k]), ~Says(t[j]) PROVE FALSE
        <3>1. L + j < k
            BY <1>2, <1>3, <1>4, <1>6, <2>3
        <3> QED BY <3>1, <1>0
    <2> QED BY <2>1, <2>2, <2>3, <1>2
<1>7. ASSUME Ordered(h, s), Ordered(h, t), ~(Spoken(h, s) /\ Instructed(h, t)) PROVE Ordered(h, u)
    <2>1. ASSUME NEW k \in 1 .. L + M, NEW j \in 1 .. L + M, Says(u[k]), ~Says(u[j]) PROVE j < k
        <3>1. CASE k \in 1 .. L /\ j \in 1 .. L
            BY <1>2, <1>3, <1>7, <2>1, <3>1
        <3>2. ASSUME k \in 1 .. L, NEW y \in 1 .. M, j = L + y PROVE FALSE
            BY <1>2, <1>3, <1>4, <1>7, <2>1, <3>2
        <3>3. ASSUME NEW x \in 1 .. M, k = L + x, j \in 1 .. L PROVE j < k
            BY <1>0, <3>3
        <3>4. ASSUME NEW x \in 1 .. M, k = L + x, NEW y \in 1 .. M, j = L + y PROVE j < k
            <4>1. y < x
                BY <1>2, <1>4, <1>7, <2>1, <3>4
            <4> QED BY <1>0, <3>4, <4>1
        <3> QED BY <1>5, <3>1, <3>2, <3>3, <3>4
    <2> QED BY <2>1, <1>2
<1>8. Ordered(h, u) <=> Ordered(h, s) /\ Ordered(h, t) /\ ~(Spoken(h, s) /\ Instructed(h, t))
    BY <1>6, <1>7
<1> QED BY <1>8 DEF u

\* Two sequences joined speak when one of them does.
LEMMA SpokenConcat ==
    ASSUME NEW h, NEW s \in Seq(Sent), NEW t \in Seq(Sent)
    PROVE  /\ Spoken(h, s \o t) <=> Spoken(h, s) \/ Spoken(h, t)
           /\ Instructed(h, s \o t) <=> Instructed(h, s) \/ Instructed(h, t)
<1>1. In(s \o t) = In(s) \cup In(t)
    BY InConcat
<1> QED BY <1>1 DEF Spoken, Instructed

\* A sequence of no more than one kind is in order.
LEMMA OrderedSimple ==
    ASSUME NEW h, NEW s, ~Spoken(h, s) \/ ~Instructed(h, s)
    PROVE  Ordered(h, s)
BY DEF Ordered, Spoken, Instructed, In

\* The kinds of messages in the prefix and in the kept turns.
LEMMA PrefixKinds ==
    ASSUME NEW h \in Seq(Messages), Context!SoundAtoms(h)
    PROVE  /\ ~Spoken(h, Context!Wire(h, 1, Context!Leading(h)))
           /\ ~Instructed(h, Context!Wire(h, Context!Leading(h) + 1, Context!PrefixLength(h)))
           /\ Spoken(h, Context!Wire(h, Context!Leading(h) + 1, Context!PrefixLength(h)))
                 <=> Context!Leading(h) < Context!PrefixLength(h)
<1> DEFINE l == Context!Leading(h)
           p == Context!PrefixLength(h)
           A == Context!Wire(h, 1, l)
           B == Context!Wire(h, l + 1, p)
<1>0. /\ l \in Nat /\ p \in Nat /\ l <= p
      /\ 1 \in 1 .. p + 1 /\ l \in 1 - 1 .. p /\ l + 1 \in 1 .. p + 1 /\ p \in (l + 1) - 1 .. p
      /\ \A k \in 1 .. l : h[k].role = "system"
      /\ \A k \in l + 1 .. p : h[k].role = "protected"
    BY Places, PrefixFacts, LeadingFacts
<1>1. ASSUME NEW a \in 1 .. p + 1, NEW b \in a - 1 .. p
      PROVE  In(Context!Wire(h, a, b)) = {Context!Plain(h, k) : k \in a .. b}
    <2> DEFINE z == a - 1
               w == Context!Wire(h, a, b)
    <2>1. /\ w \in Seq(Sent) /\ Len(w) = b - z
          /\ \A k \in 1 .. b - z : w[k] = Context!Plain(h, z + k)
        BY PrefixWire
    <2>2. DOMAIN w = 1 .. b - z
        BY <2>1, LenProperties
    <2>3. ASSUME NEW k \in 1 .. b - z PROVE z + k \in a .. b
        BY <1>0
    <2>4. ASSUME NEW k \in a .. b PROVE k - z \in 1 .. b - z /\ z + (k - z) = k
        BY <1>0
    <2> HIDE DEF z, w
    <2>5. In(w) = {Context!Plain(h, k) : k \in a .. b}
        BY <2>1, <2>2, <2>3, <2>4 DEF In
    <2> QED BY <2>5 DEF w
<1>2. In(A) = {Context!Plain(h, k) : k \in 1 .. l}
    BY <1>0, <1>1
<1>3. In(B) = {Context!Plain(h, k) : k \in l + 1 .. p}
    BY <1>0, <1>1
<1>4. ~Spoken(h, A)
    BY <1>0, <1>2, Roles DEF Spoken
<1>5. \A x \in In(B) : Context!Role(h, x) = "assistant"
    BY <1>0, <1>3, Roles
<1>6. ~Instructed(h, B)
    BY <1>5 DEF Instructed
<1>7. Spoken(h, B) => l < p
    BY <1>0, <1>3 DEF Spoken
<1>8. ASSUME l < p PROVE Spoken(h, B)
    <2>1. p \in l + 1 .. p
        BY <1>0, <1>8
    <2>2. Context!Plain(h, p) \in In(B)
        BY <2>1, <1>3
    <2> QED BY <2>2, <1>5 DEF Spoken
<1> QED BY <1>4, <1>6, <1>7, <1>8

\* The system messages sent after the prefix are those of the kept turns.
LEMMA TailInstructed ==
    ASSUME NEW h \in Seq(Messages), NEW i \in 1 .. Len(h) + 1
    PROVE  Instructed(h, Context!Wire(h, i, Len(h))) <=> \E j \in DOMAIN h : h[j].role = "system" /\ j >= i
<1> DEFINE C == Context!Wire(h, i, Len(h))
<1>0. Len(h) \in Nat /\ DOMAIN h = 1 .. Len(h) /\ Len(h) \in i - 1 .. Len(h)
    BY Places
<1>1. ASSUME NEW x \in In(C), Context!Role(h, x) = "system"
      PROVE  \E j \in DOMAIN h : h[j].role = "system" /\ j >= i
    <2>1. PICK y \in Context!AtomStarts(h) \cap (i .. Len(h)) : x \in In(Context!WireAtom(h, y))
        BY <1>0, WireElements
    <2>2. y \in 1 .. Len(h) /\ y >= i
        BY <1>0
    <2>3. CASE Context!Normalized(h, y)
        BY <1>1, <2>1, <2>2, <2>3, AtomElements, Roles
    <2>4. CASE ~Context!Normalized(h, y)
        <3>1. PICK j \in y .. Context!ResultsEnd(h, y) : x = Context!Plain(h, j)
            BY <2>1, <2>2, <2>4, AtomElements
        <3>2. j \in DOMAIN h /\ j >= i
            BY <1>0, <2>2, ResultsFacts
        <3>3. h[j].role = "system"
            BY <1>1, <3>1, Roles
        <3> QED BY <3>2, <3>3
    <2> QED BY <2>3, <2>4
<1>2. ASSUME NEW j \in DOMAIN h, h[j].role = "system", j >= i
      PROVE  \E x \in In(C) : Context!Role(h, x) = "system"
    <2>1. j \in 1 .. Len(h) /\ i \in 1 .. Len(h) /\ i <= j /\ j \in Context!AtomStarts(h)
        BY <1>0, <1>2 DEF Context!AtomStarts
    <2>2. ~Context!Normalized(h, j)
        BY <1>2 DEF Context!Normalized
    <2>3. j \in j .. Context!ResultsEnd(h, j)
        BY <2>1, ResultsFacts
    <2>4. Context!Plain(h, j) \in In(Context!WireAtom(h, j))
        BY <2>1, <2>2, <2>3, AtomElements
    <2>5. Context!Plain(h, j) \in In(C)
        BY <2>1, <2>4, AtomIn
    <2>6. Context!Role(h, Context!Plain(h, j)) = "system"
        BY <1>2, Roles
    <2> QED BY <2>5, <2>6
<1> QED BY <1>1, <1>2 DEF Instructed

\* The kept turns begin with the first message of an atom.
LEMMA TailFirst ==
    ASSUME NEW h \in Seq(Messages), NEW i \in Context!AtomStarts(h)
    PROVE  LET C == Context!Wire(h, i, Len(h)) IN
           1 \in DOMAIN C /\ C[1] = IF Context!Normalized(h, i) THEN Context!Note(i)
             ELSE Context!Plain(h, i)
<1> DEFINE n == Len(h)
           C == Context!Wire(h, i, n)
           w == Context!WireAtom(h, i)
           r == Context!Wire(h, i + 1, n)
<1>0. /\ n \in Nat /\ i \in 1 .. n /\ i \in 1 .. n + 1 /\ i \in i - 1 .. n /\ n \in i .. n
      /\ i + 1 \in 1 .. n + 1 /\ n \in (i + 1) - 1 .. n
    BY Places DEF Context!AtomStarts
<1>1. C = w \o r
    <2>1. C = Context!Wire(h, i, i) \o r
        BY <1>0, WireSplit
    <2> QED BY <1>0, <2>1, WireOne DEF Piece
<1>2. w \in Seq(Sent) /\ r \in Seq(Sent)
    BY <1>0, AtomType, WireType
<1>3. Len(w) >= 1 /\ w[1] = IF Context!Normalized(h, i) THEN Context!Note(i) ELSE Context!Plain(h, i)
    <2>1. CASE Context!Normalized(h, i)
        BY <2>1 DEF Context!WireAtom
    <2>2. CASE ~Context!Normalized(h, i)
        <3>1. /\ Len(w) = 1 + Context!ResultsEnd(h, i) - i
              /\ \A k \in 1 .. 1 + Context!ResultsEnd(h, i) - i : w[k] = Context!Plain(h, i + k - 1)
            BY <1>0, <2>2, AtomType
        <3>2. 1 \in 1 .. 1 + Context!ResultsEnd(h, i) - i /\ i + 1 - 1 = i
                /\ 1 + Context!ResultsEnd(h, i) - i >= 1
            BY <1>0, ResultsFacts
        <3> HIDE DEF w
        <3> QED BY <2>2, <3>1, <3>2
    <2> QED BY <2>1, <2>2
<1> HIDE DEF w, r, C
<1>4. /\ Len(w) \in Nat /\ Len(r) \in Nat /\ C \in Seq(Sent) /\ Len(C) = Len(w) + Len(r)
      /\ \A k \in 1 .. Len(w) + Len(r) : C[k] = IF k <= Len(w) THEN w[k] ELSE r[k - Len(w)]
    BY <1>1, <1>2, LenProperties, ConcatProperties
<1>5. 1 \in 1 .. Len(w) + Len(r) /\ 1 <= Len(w)
    BY <1>3, <1>4
<1>6. DOMAIN C = 1 .. Len(w) + Len(r)
    BY <1>4, LenProperties
<1> QED BY <1>3, <1>4, <1>5, <1>6 DEF C

\* Kept turns that begin in the conversation are out of order with any system
\* message among them.
LEMMA TailOrdered ==
    ASSUME NEW h \in Seq(Messages), NEW i \in Context!AtomStarts(h), h[i].role # "system"
    PROVE  /\ Spoken(h, Context!Wire(h, i, Len(h)))
           /\ Ordered(h, Context!Wire(h, i, Len(h))) => ~Instructed(h, Context!Wire(h, i, Len(h)))
<1> DEFINE C == Context!Wire(h, i, Len(h))
<1>0. /\ Len(h) \in Nat /\ i \in 1 .. Len(h) + 1 /\ Len(h) \in i - 1 .. Len(h)
    BY Places DEF Context!AtomStarts
<1>1. 1 \in DOMAIN C /\ Context!Role(h, C[1]) # "system"
    BY TailFirst, Roles
<1>2. C \in Seq(Sent)
    BY <1>0, WireType
<1>3. DOMAIN C = 1 .. Len(C) /\ Len(C) \in Nat
    BY <1>2, LenProperties
<1> HIDE DEF C
<1>4. Spoken(h, C)
    BY <1>1 DEF Spoken, In
<1>5. ASSUME Ordered(h, C), Instructed(h, C) PROVE FALSE
    <2>1. PICK j \in DOMAIN C : Context!Role(h, C[j]) = "system"
        BY <1>5 DEF Instructed, In
    <2>2. j < 1
        BY <1>1, <1>5, <2>1 DEF Ordered
    <2> QED BY <1>3, <2>2
<1> QED BY <1>4, <1>5 DEF C

\* What is said and instructed, and in which order.
LEMMA FormOrdered ==
    ASSUME NEW h \in Seq(Messages), Context!SoundAtoms(h), NEW i, NEW m, NEW n, Shape(h, i, m, n)
    PROVE  LET B == Context!Wire(h, Context!Leading(h) + 1, Context!PrefixLength(h))
               C == Context!Wire(h, i, Len(h)) IN
           /\ Spoken(h, Form(h, i, m, n)) <=> Spoken(h, B) \/ Spoken(h, n) \/ Spoken(h, C)
           /\ Ordered(h, Form(h, i, m, n)) <=>
                 /\ ~(Spoken(h, B) /\ Instructed(h, n)) /\ Ordered(h, C)
                 /\ ~((Spoken(h, B) \/ Spoken(h, n)) /\ Instructed(h, C))
<1> DEFINE A == Context!Wire(h, 1, Context!Leading(h))
           B == Context!Wire(h, Context!Leading(h) + 1, Context!PrefixLength(h))
           C == Context!Wire(h, i, Len(h))
           F == Form(h, i, m, n)
<1>0. /\ A \in Seq(Sent) /\ B \in Seq(Sent) /\ C \in Seq(Sent)
      /\ m \in Seq(Sent) /\ n \in Seq(Sent)
    BY FormType
<1>1. ~Spoken(h, A) /\ ~Instructed(h, B)
    BY PrefixKinds
<1>2. ~Spoken(h, <<Context!Marker>>) /\ \A u : ~Instructed(h, <<Context!Summary(u)>>)
    BY InOne, Roles DEF Spoken, Instructed
<1>3. ~Spoken(h, <<>>) /\ ~Instructed(h, <<>>)
    BY InOne DEF Spoken, Instructed
<1>4. ~Spoken(h, m) /\ (~Spoken(h, n) \/ ~Instructed(h, n))
    BY <1>2, <1>3 DEF Shape
<1>5. Ordered(h, A) /\ Ordered(h, B) /\ Ordered(h, m) /\ Ordered(h, n)
    BY <1>1, <1>4, OrderedSimple
<1>6. F = ((A \o m) \o (B \o n)) \o C
    BY DEF Form
<1> HIDE DEF A, B, C, F
<1>a. A \in Seq(Sent) /\ m \in Seq(Sent)
    BY <1>0
<1>7. A \o m \in Seq(Sent) /\ Ordered(h, A \o m) /\ ~Spoken(h, A \o m)
    BY <1>a, <1>1, <1>4, <1>5, InConcat, OrderedConcat, SpokenConcat
<1>b. B \in Seq(Sent) /\ n \in Seq(Sent)
    BY <1>0
<1>8. /\ B \o n \in Seq(Sent)
      /\ Ordered(h, B \o n) <=> ~(Spoken(h, B) /\ Instructed(h, n))
      /\ Spoken(h, B \o n) <=> Spoken(h, B) \/ Spoken(h, n)
    BY <1>b, <1>5, InConcat, OrderedConcat, SpokenConcat
<1> DEFINE H == (A \o m) \o (B \o n)
<1>9. /\ H \in Seq(Sent)
      /\ Ordered(h, H) <=> ~(Spoken(h, B) /\ Instructed(h, n))
      /\ Spoken(h, H) <=> Spoken(h, B) \/ Spoken(h, n)
    <2> DEFINE x == A \o m
               y == B \o n
    <2>1. x \in Seq(Sent) /\ y \in Seq(Sent) /\ Ordered(h, x) /\ ~Spoken(h, x)
        BY <1>7, <1>8
    <2> HIDE DEF x, y
    <2>2. /\ x \o y \in Seq(Sent)
          /\ Ordered(h, x \o y) <=> Ordered(h, y)
          /\ Spoken(h, x \o y) <=> Spoken(h, y)
        BY <2>1, InConcat, OrderedConcat, SpokenConcat
    <2> QED BY <2>2, <1>8 DEF x, y
<1> HIDE DEF H
<1>c. C \in Seq(Sent)
    BY <1>0
<1>10. /\ Ordered(h, H \o C) <=> Ordered(h, H) /\ Ordered(h, C) /\ ~(Spoken(h, H) /\ Instructed(h, C))
       /\ Spoken(h, H \o C) <=> Spoken(h, H) \/ Spoken(h, C)
    BY <1>9, <1>c, OrderedConcat, SpokenConcat
<1>11. F = H \o C
    BY <1>6 DEF H
<1> QED BY <1>9, <1>10, <1>11 DEF F, B, C

\* A marker after the first q messages.
Late(s, q) == \E k \in DOMAIN s : s[k].as = "marker" /\ k > q

\* A system message is late in two sequences joined when it is in one of them.
LEMMA LateConcat ==
    ASSUME NEW s \in Seq(Sent), NEW t \in Seq(Sent), NEW q \in Int
    PROVE  Late(s \o t, q) <=> Late(s, q) \/ Late(t, q - Len(s))
<1> DEFINE u == s \o t
           L == Len(s)
           M == Len(t)
<1>0. /\ L \in Nat /\ M \in Nat /\ u \in Seq(Sent) /\ Len(u) = L + M
      /\ \A k \in 1 .. L + M : u[k] = IF k <= L THEN s[k] ELSE t[k - L]
    BY LenProperties, ConcatProperties
<1>1. DOMAIN s = 1 .. L /\ DOMAIN t = 1 .. M /\ DOMAIN u = 1 .. L + M
    BY <1>0, LenProperties
<1> HIDE DEF u, L, M
<1>2. ASSUME NEW k \in DOMAIN u, u[k].as = "marker", k > q
      PROVE Late(s, q) \/ Late(t, q - L)
    <2>1. CASE k <= L
        <3>1. k \in DOMAIN s /\ u[k] = s[k]
            BY <1>0, <1>1, <2>1
        <3> QED BY <1>2, <3>1 DEF Late
    <2>2. CASE ~(k <= L)
        <3>1. k - L \in DOMAIN t /\ u[k] = t[k - L] /\ k - L > q - L
            BY <1>0, <1>1, <1>2, <2>2
        <3> QED BY <1>2, <3>1 DEF Late
    <2> QED BY <2>1, <2>2
<1>3. ASSUME NEW k \in DOMAIN s, s[k].as = "marker", k > q PROVE Late(u, q)
    <2>1. k \in DOMAIN u /\ u[k] = s[k]
        BY <1>0, <1>1
    <2> QED BY <1>3, <2>1 DEF Late
<1>4. ASSUME NEW k \in DOMAIN t, t[k].as = "marker", k > q - L PROVE Late(u, q)
    <2>1. L + k \in DOMAIN u /\ ~(L + k <= L) /\ (L + k) - L = k /\ L + k > q
        BY <1>0, <1>1, <1>4
    <2>2. u[L + k] = t[k]
        BY <1>0, <1>1, <2>1
    <2> QED BY <1>4, <2>1, <2>2 DEF Late
<1>5. Late(u, q) <=> Late(s, q) \/ Late(t, q - L)
    BY <1>2, <1>3, <1>4 DEF Late
<1> QED BY <1>5 DEF u, L

\* The wire history has no marker.
LEMMA NoMarker ==
    ASSUME NEW h \in Seq(Messages), NEW a \in 1 .. Len(h) + 1, NEW b \in a - 1 .. Len(h), NEW q
    PROVE  ~Late(Context!Wire(h, a, b), q)
<1>1. SUFFICES ASSUME NEW x \in In(Context!Wire(h, a, b)), x.as = "marker" PROVE FALSE
    BY DEF Late, In
<1>2. PICK y \in Context!AtomStarts(h) \cap (a .. b) : x \in In(Context!WireAtom(h, y))
    BY WireElements
<1>3. y \in 1 .. Len(h)
    BY Places DEF Context!AtomStarts
<1>4. CASE Context!Normalized(h, y)
    BY <1>1, <1>2, <1>3, <1>4, AtomElements DEF Context!Note, Context!Error
<1>5. CASE ~Context!Normalized(h, y)
    <2>1. PICK j \in y .. Context!ResultsEnd(h, y) : x = Context!Plain(h, j)
        BY <1>2, <1>3, <1>5, AtomElements
    <2> QED BY <1>1, <2>1 DEF Context!Plain
<1> QED BY <1>4, <1>5

\* The marker interrupts the conversation when it comes after protected data.
LEMMA FormInterrupted ==
    ASSUME NEW h \in Seq(Messages), Context!SoundAtoms(h), NEW i, NEW m, NEW n, Shape(h, i, m, n)
    PROVE  Late(Form(h, i, m, n), Context!Leading(h) + 1) <=>
              Spoken(h, Context!Wire(h, Context!Leading(h) + 1, Context!PrefixLength(h)))
                /\ Instructed(h, n)
<1> DEFINE l == Context!Leading(h)
           p == Context!PrefixLength(h)
           A == Context!Wire(h, 1, l)
           B == Context!Wire(h, l + 1, p)
           C == Context!Wire(h, i, Len(h))
           F == Form(h, i, m, n)
<1>0. /\ A \in Seq(Sent) /\ B \in Seq(Sent) /\ C \in Seq(Sent)
      /\ m \in Seq(Sent) /\ n \in Seq(Sent)
    BY FormType
<1>1. /\ l \in Nat /\ p \in Nat /\ l <= p /\ Len(h) \in Nat /\ i \in p + 1 .. Len(h) + 1
      /\ 1 \in 1 .. p + 1 /\ l \in 1 - 1 .. p /\ l + 1 \in 1 .. p + 1 /\ p \in (l + 1) - 1 .. p
      /\ 1 \in 1 .. Len(h) + 1 /\ l \in 1 - 1 .. Len(h)
      /\ l + 1 \in 1 .. Len(h) + 1 /\ p \in (l + 1) - 1 .. Len(h)
      /\ i \in 1 .. Len(h) + 1 /\ Len(h) \in i - 1 .. Len(h)
    BY Places, PrefixFacts, LeadingFacts, FormType
<1>2. Len(A) = l /\ Len(B) = p - l
    <2>1. Len(A) = l - (1 - 1) /\ Len(B) = p - ((l + 1) - 1)
        BY <1>1, PrefixWire
    <2>2. l - (1 - 1) = l /\ p - ((l + 1) - 1) = p - l
        BY <1>1
    <2> QED BY <2>1, <2>2
<1>3. \A q : ~Late(A, q) /\ ~Late(B, q) /\ ~Late(C, q)
    BY <1>1, NoMarker
<1>4. Spoken(h, B) <=> l < p
    BY PrefixKinds
<1>5. F = ((A \o m) \o (B \o n)) \o C
    BY DEF Form
<1>6. /\ Len(m) \in {0, 1} /\ \A q : Late(m, q) => m = <<Context!Marker>> /\ 1 > q
      /\ m = <<>> => Len(m) = 0
    <2>1. m = <<>> \/ m = <<Context!Marker>>
        BY DEF Shape
    <2>2. CASE m = <<>>
        BY <2>2 DEF Late
    <2>3. CASE m = <<Context!Marker>>
        <3>1. Len(m) = 1 /\ DOMAIN m = {1}
            BY <2>3
        <3> QED BY <2>3, <3>1 DEF Late
    <2> QED BY <2>1, <2>2, <2>3
<1>7. \A q \in Int : Late(n, q) <=> n = <<Context!Marker>> /\ 1 > q
    <2>1. n = <<>> \/ n = <<Context!Marker>> \/ \E u \in Nat : n = <<Context!Summary(u)>>
        BY DEF Shape
    <2>2. CASE n = <<>>
        BY <2>2 DEF Late
    <2>3. CASE n = <<Context!Marker>>
        <3>1. DOMAIN n = {1} /\ n[1] = Context!Marker /\ Context!Marker.as = "marker"
            BY <2>3 DEF Context!Marker
        <3> QED BY <2>3, <3>1 DEF Late
    <2>4. ASSUME NEW u \in Nat, n = <<Context!Summary(u)>>
          PROVE  \A q \in Int : ~Late(n, q) /\ n # <<Context!Marker>>
        <3>1. DOMAIN n = {1} /\ n[1] = Context!Summary(u) /\ Context!Summary(u).as = "note"
                /\ Context!Marker.as = "marker"
            BY <2>4 DEF Context!Summary, Context!Marker
        <3>2. n # <<Context!Marker>>
            BY <3>1
        <3> QED BY <3>1, <3>2 DEF Late
    <2> QED BY <2>1, <2>2, <2>3, <2>4
<1>8. Instructed(h, n) <=> n = <<Context!Marker>>
    <2>1. In(<<>>) = {} /\ In(<<Context!Marker>>) = {Context!Marker}
            /\ \A u : In(<<Context!Summary(u)>>) = {Context!Summary(u)}
        BY InOne
    <2>2. ~Instructed(h, <<>>) /\ Instructed(h, <<Context!Marker>>)
            /\ \A u : ~Instructed(h, <<Context!Summary(u)>>)
        BY <2>1, Roles DEF Instructed
    <2> QED BY <2>2 DEF Shape
<1>9. n = <<Context!Marker>> => m = <<>>
    <2>1. n = <<Context!Marker>> => Instructed(h, n)
        BY <1>8
    <2>2. \A u : ~Instructed(h, <<Context!Summary(u)>>)
        BY InOne, Roles DEF Instructed
    <2> QED BY <2>1, <2>2 DEF Shape
<1>10. m = <<Context!Marker>> => ~(1 > l + 1 - Len(A))
    BY <1>1, <1>2
<1> HIDE DEF A, B, C, F, l, p
<1>a. A \in Seq(Sent) /\ m \in Seq(Sent) /\ l + 1 \in Int
    BY <1>0, <1>1
<1>11. ~Late(A \o m, l + 1)
    <2>1. Late(A \o m, l + 1) <=> Late(A, l + 1) \/ Late(m, (l + 1) - Len(A))
        BY <1>a, LateConcat
    <2>2. (l + 1) - Len(A) = 1
        BY <1>1, <1>2
    <2>3. ~Late(m, 1)
        BY <1>6
    <2> QED BY <2>1, <2>2, <2>3, <1>3
<1>12. A \o m \in Seq(Sent) /\ Len(A \o m) = l + Len(m)
    BY <1>a, <1>2, ConcatProperties
<1> DEFINE q == (l + 1) - Len(A \o m)
<1>13. q \in Int /\ (m = <<>> => q = 1)
    BY <1>1, <1>6, <1>12
<1>b. B \in Seq(Sent) /\ n \in Seq(Sent)
    BY <1>0
<1>14. B \o n \in Seq(Sent)
    BY <1>b, ConcatProperties
<1> HIDE DEF q
<1>15. Late(B \o n, q) <=> n = <<Context!Marker>> /\ l < p
    <2>1. Late(B \o n, q) <=> Late(B, q) \/ Late(n, q - Len(B))
        BY <1>b, <1>13, LateConcat
    <2>2. q - Len(B) \in Int
        BY <1>1, <1>2, <1>13
    <2>3. Late(n, q - Len(B)) <=> n = <<Context!Marker>> /\ 1 > q - Len(B)
        BY <2>2, <1>7
    <2>4. n = <<Context!Marker>> => (1 > q - Len(B) <=> l < p)
        BY <1>1, <1>2, <1>9, <1>13
    <2> QED BY <2>1, <2>3, <2>4, <1>3
<1> DEFINE x == A \o m
           y == B \o n
<1>16. x \in Seq(Sent) /\ y \in Seq(Sent) /\ ~Late(x, l + 1) /\ q = (l + 1) - Len(x)
    BY <1>11, <1>12, <1>14 DEF q
<1>17. Late(y, q) <=> n = <<Context!Marker>> /\ l < p
    BY <1>15
<1>18. F = (x \o y) \o C
    BY <1>5
<1> HIDE DEF x, y
<1>c. l + 1 \in Int
    BY <1>1
<1>19. x \o y \in Seq(Sent) /\ (Late(x \o y, l + 1) <=> n = <<Context!Marker>> /\ l < p)
    <2>1. x \o y \in Seq(Sent)
        BY <1>16, ConcatProperties
    <2>2. Late(x \o y, l + 1) <=> Late(x, l + 1) \/ Late(y, (l + 1) - Len(x))
        BY <1>16, <1>c, LateConcat
    <2> QED BY <2>1, <2>2, <1>16, <1>17
<1>d. C \in Seq(Sent)
    BY <1>0
<1>20. Late((x \o y) \o C, l + 1) <=> n = <<Context!Marker>> /\ l < p
    <2> DEFINE z == x \o y
    <2>1. z \in Seq(Sent) /\ (Late(z, l + 1) <=> n = <<Context!Marker>> /\ l < p)
        BY <1>19
    <2> HIDE DEF z
    <2>2. Late(z \o C, l + 1) <=> Late(z, l + 1) \/ Late(C, (l + 1) - Len(z))
        BY <2>1, <1>c, <1>d, LateConcat
    <2> QED BY <2>1, <2>2, <1>3 DEF z
<1> QED BY <1>4, <1>8, <1>18, <1>20 DEF F, B, l, p

\* What an adapter takes.
LEMMA FormTaken ==
    ASSUME NEW h \in Seq(Messages), Context!SoundAtoms(h), NEW i, NEW m, NEW n, Shape(h, i, m, n),
           NEW p, p.from = i, p.sent = Form(h, i, m, n), NEW api \in {"openai", "anthropic"}
    PROVE  Context!Taken(api, h, p.sent) <=>
              /\ ~Context!Switched(h, p)
              /\ api = "anthropic" =>
                    /\ ~Context!Interrupted(h, p) /\ Context!SystemFirst(h, p)
                    /\ \E j \in DOMAIN h : h[j].role # "system"
<1> DEFINE F == Form(h, i, m, n)
           B == Context!Wire(h, Context!Leading(h) + 1, Context!PrefixLength(h))
           C == Context!Wire(h, i, Len(h))
<1>0. /\ Len(h) \in Nat /\ DOMAIN h = 1 .. Len(h) /\ Context!PrefixLength(h) \in 0 .. Len(h)
      /\ Context!Leading(h) \in 0 .. Context!PrefixLength(h)
           /\ i \in Context!PrefixLength(h) + 1 .. Len(h) + 1
      /\ i \in 1 .. Len(h) + 1
      /\ \A k \in 1 .. Context!Leading(h) : h[k].role = "system"
      /\ \A k \in Context!Leading(h) + 1 .. Context!PrefixLength(h) : h[k].role = "protected"
      /\ Context!Leading(h) < Len(h) => h[Context!Leading(h) + 1].role # "system"
      /\ i <= Len(h) => i \in Context!AtomStarts(h)
    BY Places, PrefixFacts, LeadingFacts, FormType
<1>1. Context!Continued(h, F)
    BY FormContinued
<1>2. (\A x \in In(F) : Context!Carried(h, x)) <=> ~Context!Switched(h, p)
    BY FormCarried
<1>3. /\ Spoken(h, F) <=> Spoken(h, B) \/ Spoken(h, n) \/ Spoken(h, C)
      /\ Ordered(h, F) <=>
            /\ ~(Spoken(h, B) /\ Instructed(h, n)) /\ Ordered(h, C)
            /\ ~((Spoken(h, B) \/ Spoken(h, n)) /\ Instructed(h, C))
    BY FormOrdered
<1>4. Context!Interrupted(h, p) <=> Spoken(h, B) /\ Instructed(h, n)
    <2>1. Context!Interrupted(h, p) <=> Late(F, Context!Leading(h) + 1)
        BY DEF Context!Interrupted, Late
    <2> QED BY <2>1, FormInterrupted
<1>5. Spoken(h, B) <=> Context!Leading(h) < Context!PrefixLength(h)
    BY PrefixKinds
<1>6. Instructed(h, C) <=> \E j \in DOMAIN h : h[j].role = "system" /\ j >= i
    BY <1>0, TailInstructed
<1>7. Context!SystemFirst(h, p) <=> ~Instructed(h, C)
    <2>1. ASSUME NEW j \in DOMAIN h PROVE ~(j <= Context!Leading(h) \/ j < i) <=> j >= i
        BY <1>0
    <2> QED BY <2>1, <1>6 DEF Context!SystemFirst
<1>8. ASSUME i <= Len(h), ~Spoken(h, B) \/ i # Context!PrefixLength(h) + 1 PROVE h[i].role # "system"
    <2>1. CASE i = Context!PrefixLength(h) + 1
        BY <1>0, <1>5, <1>8, <2>1
    <2>2. CASE i # Context!PrefixLength(h) + 1
        <3>1. i \in Context!TurnStarts(h)
            BY <2>2 DEF Shape
        <3> QED BY <2>2, <3>1, TurnFacts
    <2> QED BY <2>1, <2>2
<1>9. ASSUME i <= Len(h), ~Spoken(h, B) \/ i # Context!PrefixLength(h) + 1
      PROVE Spoken(h, C) /\ (Ordered(h, C) => ~Instructed(h, C))
    BY <1>0, <1>8, <1>9, TailOrdered
<1>10. ~Instructed(h, C) => Ordered(h, C)
    BY OrderedSimple
<1>11. ASSUME Instructed(h, C), Ordered(h, C), ~(Spoken(h, B) \/ Spoken(h, n)) PROVE FALSE
    <2>1. i <= Len(h)
        <3>1. PICK j \in DOMAIN h : j >= i
            BY <1>6, <1>11
        <3> QED BY <1>0, <3>1
    <2> QED BY <1>9, <1>11, <2>1
<1>12. Ordered(h, F) <=> ~Context!Interrupted(h, p) /\ Context!SystemFirst(h, p)
    BY <1>3, <1>4, <1>7, <1>10, <1>11
<1>13. ASSUME Spoken(h, F) PROVE \E j \in DOMAIN h : h[j].role # "system"
    <2>1. CASE Context!Leading(h) < Len(h)
        <3>1. Context!Leading(h) + 1 \in DOMAIN h
            BY <1>0, <2>1
        <3> QED BY <1>0, <2>1, <3>1
    <2>2. CASE ~(Context!Leading(h) < Len(h))
        <3>1. Context!Leading(h) = Len(h) /\ Context!PrefixLength(h) = Len(h) /\ i = Len(h) + 1
              /\ i = Context!PrefixLength(h) + 1
            BY <1>0, <2>2
        <3>2. Context!TurnStarts(h) = {}
            BY <1>0, <3>1, TurnFacts
        <3>3. n = <<>>
            BY <3>1 DEF Shape
        <3>4. ~Spoken(h, n) /\ ~Spoken(h, B)
            BY <1>5, <3>1, <3>3, InOne, <1>0 DEF Spoken
        <3>5. C = <<>>
            <4>1. C = Context!Wire(h, i, i - 1) /\ i - 1 = Len(h)
                BY <1>0, <3>1
            <4> QED BY <1>0, <4>1, WireEmpty
        <3>6. ~Spoken(h, C)
            BY <3>5, InOne DEF Spoken
        <3> QED BY <1>3, <1>13, <3>4, <3>6
    <2> QED BY <2>1, <2>2
<1>14. ASSUME NEW j \in DOMAIN h, h[j].role # "system" PROVE Spoken(h, F)
    <2>1. Context!Leading(h) < Len(h)
        <3>1. j \notin 1 .. Context!Leading(h)
            BY <1>0, <1>14
        <3> QED BY <1>0, <3>1
    <2>2. CASE Spoken(h, B)
        BY <2>2, <1>3
    <2>3. CASE ~Spoken(h, B)
        <3>1. i <= Len(h)
            <4>1. CASE i = Context!PrefixLength(h) + 1
                BY <1>0, <1>5, <2>1, <2>3, <4>1
            <4>2. CASE i # Context!PrefixLength(h) + 1
                <5>1. i \in Context!TurnStarts(h)
                    BY <4>2 DEF Shape
                <5> QED BY <5>1, TurnFacts, <1>0
            <4> QED BY <4>1, <4>2
        <3> QED BY <1>3, <1>9, <2>3, <3>1
    <2> QED BY <2>2, <2>3
<1>15. Spoken(h, F) <=> \E j \in DOMAIN h : h[j].role # "system"
    BY <1>13, <1>14
<1>16. CASE api = "openai"
    <2>1. Context!Taken(api, h, F) <=> Context!Continued(h, F) /\ \A x \in In(F) : Context!Carried(h, x)
        BY <1>16, OpenAIIs DEF Context!Taken
    <2> QED BY <2>1, <1>1, <1>2, <1>16
<1>17. CASE api = "anthropic"
    <2>1. Context!Taken(api, h, F) <=>
             /\ Context!Continued(h, F) /\ \A x \in In(F) : Context!Carried(h, x)
             /\ Spoken(h, F) /\ Ordered(h, F)
        BY <1>17, AnthropicIs DEF Context!Taken
    <2> QED BY <2>1, <1>1, <1>2, <1>12, <1>15, <1>17
<1> QED BY <1>16, <1>17

-----------------------------------------------------------------------------
\* What a projection returns.

\* No hot turn is dropped and no turn there was room for.
Best(h, i, b) ==
    /\ Context!TurnStarts(h) # {} => i <= Context!HotStart(h)
    /\ \A j \in Context!TurnStarts(h) : Context!Fits(h, j, b) => i <= j

Sound(h, p, b) ==
    IF "sent" \in DOMAIN p
    THEN /\ Context!SoundAtoms(h) /\ Context!Units(p.sent) <= b /\ Best(h, p.from, b)
         /\ \E m, n : Shape(h, p.from, m, n) /\ p.sent = Form(h, p.from, m, n)
    ELSE p.raised = "budget" =>
            \A i \in Context!TurnStarts(h) : i <= Context!HotStart(h) => ~Context!Fits(h, i, b)

\* What Project returns is sound: a form within the budget that keeps all it can,
\* or a refusal of what does not fit.
LEMMA ProjectSound ==
    ASSUME NEW h \in Seq(Messages), NEW b \in Int
    PROVE  /\ Sound(h, Context!Project(h, b), b)
           /\ Context!Compacted(h, Context!Project(h, b)) =>
                 \E i \in Context!TurnStarts(h) :
                    i # Context!PrefixLength(h) + 1
                      /\ Context!Project(h, b) = [sent |-> Context!Keeping(h, i), from |-> i]
<1> DEFINE p == Context!Project(h, b)
           W == Context!Wire(h, 1, Len(h))
           f == Context!PrefixLength(h) + 1
           k == Context!KeptFrom(h, b)
<1>0. /\ Context!PrefixLength(h) \in Nat /\ Len(h) \in Nat
      /\ \A i \in Context!TurnStarts(h) : i \in Int /\ f <= i
    BY Places, PrefixFacts, TurnFacts
<1>1. CASE ~Context!SoundPrefix(h) \/ ~Context!SoundAtoms(h)
    <2>1. p = [raised |-> "structure"]
        BY <1>1 DEF Context!Project
    <2> HIDE DEF p
    <2>2. "sent" \notin DOMAIN p /\ p.raised = "structure"
        BY <2>1
    <2> QED BY <2>2 DEF Sound, Context!Compacted, p
<1>2. CASE ~(~Context!SoundPrefix(h) \/ ~Context!SoundAtoms(h)) /\ Context!Units(W) <= b
    <2>1. p = [sent |-> W, from |-> f]
        BY <1>2 DEF Context!Project
    <2> HIDE DEF p
    <2>2. "sent" \in DOMAIN p /\ p.sent = W /\ p.from = f
        BY <2>1
    <2>3. Best(h, f, b)
        <3>1. Context!TurnStarts(h) # {} => Context!HotStart(h) \in Context!TurnStarts(h)
            BY HotFacts
        <3> QED BY <1>0, <3>1 DEF Best
    <2>4. Shape(h, f, <<>>, <<>>) /\ W = Form(h, f, <<>>, <<>>)
        BY WholeForm
    <2>5. Context!SoundAtoms(h)
        BY <1>2
    <2> HIDE DEF W, f
    <2>6. Sound(h, p, b)
        BY <1>2, <2>2, <2>3, <2>4, <2>5 DEF Sound
    <2>7. ~Context!Compacted(h, p)
        BY <1>0, <2>2 DEF Context!Compacted, f
    <2> QED BY <2>6, <2>7 DEF p
<1>3. CASE /\ ~(~Context!SoundPrefix(h) \/ ~Context!SoundAtoms(h)) /\ ~(Context!Units(W) <= b)
           /\ Context!TurnStarts(h) = {} \/ ~Context!Fits(h, Context!HotStart(h), b)
    <2>1. p = [raised |-> "budget"]
        BY <1>3 DEF Context!Project
    <2> HIDE DEF p
    <2>2. "sent" \notin DOMAIN p
        BY <2>1
    <2>3. \A i \in Context!TurnStarts(h) : i <= Context!HotStart(h) => ~Context!Fits(h, i, b)
        BY <1>3, NothingFits
    <2> QED BY <2>2, <2>3 DEF Sound, Context!Compacted, p
<1>4. CASE /\ ~(~Context!SoundPrefix(h) \/ ~Context!SoundAtoms(h)) /\ ~(Context!Units(W) <= b)
           /\ ~(Context!TurnStarts(h) = {} \/ ~Context!Fits(h, Context!HotStart(h), b))
    <2>1. p = [sent |-> Context!Keeping(h, k), from |-> k]
        BY <1>4 DEF Context!Project
    <2>2. /\ k \in Context!TurnStarts(h) /\ k <= Context!HotStart(h) /\ Context!Fits(h, k, b)
          /\ \A i \in Context!TurnStarts(h) : Context!Fits(h, i, b) => k <= i
        BY <1>4, KeptMaximal
    <2> HIDE DEF p, k
    <2>3. "sent" \in DOMAIN p /\ p.sent = Context!Keeping(h, k) /\ p.from = k
        BY <2>1
    <2>4. \E n : Context!Keeping(h, k) = Form(h, k, <<>>, n) /\ Shape(h, k, <<>>, n)
        BY <2>2, KeepingForm
    <2>5. Context!Units(p.sent) <= b
        BY <2>2, <2>3 DEF Context!Fits
    <2>6. Best(h, k, b)
        BY <2>2 DEF Best
    <2>7. Context!SoundAtoms(h)
        BY <1>4
    <2>8. Sound(h, p, b)
        BY <2>3, <2>4, <2>5, <2>6, <2>7 DEF Sound
    <2>9. Context!Compacted(h, p) => k # Context!PrefixLength(h) + 1
        BY <1>0, <2>3 DEF Context!Compacted
    <2> QED BY <2>1, <2>2, <2>8, <2>9 DEF p
<1> QED BY <1>1, <1>2, <1>3, <1>4

\* So is what is sent with a summary, or the refusal of one that does not fit.
LEMMA SummarySound ==
    ASSUME NEW h \in Seq(Messages), NEW b \in Int, NEW u \in Nat,
           Context!Compacted(h, Context!Project(h, b))
    PROVE  Sound(h, Context!WithSummary(h, Context!Project(h, b), u, b), b)
<1> DEFINE p == Context!Project(h, b)
<1>1. PICK i \in Context!TurnStarts(h) :
         i # Context!PrefixLength(h) + 1 /\ p = [sent |-> Context!Keeping(h, i), from |-> i]
    BY ProjectSound
<1>2. Sound(h, p, b)
    BY ProjectSound
<1>3. Context!SoundAtoms(h) /\ Best(h, i, b)
    BY <1>1, <1>2 DEF Sound
<1> DEFINE S == SubSeq(Context!Keeping(h, i), 1, Context!Leading(h)) \o <<Context!Marker>>
                \o SubSeq(Context!Keeping(h, i), Context!Leading(h) + 1, Context!PrefixLength(h))
                  \o <<Context!Summary(u)>>
                \o SubSeq(Context!Keeping(h, i), Context!PrefixLength(h) + 2, Len(Context!Keeping(h, i)))
           q == Context!WithSummary(h, p, u, b)
<1>4. S = Form(h, i, <<Context!Marker>>, <<Context!Summary(u)>>)
        /\ Shape(h, i, <<Context!Marker>>, <<Context!Summary(u)>>)
    BY <1>1, <1>3, SummaryForm
<1> HIDE DEF p
<1>5. p.sent = Context!Keeping(h, i)
    BY <1>1
<1>6. q = IF Context!Units(S) <= b THEN [p EXCEPT !.sent = S] ELSE [raised |-> "summary"]
    BY <1>5 DEF Context!WithSummary
<1> HIDE DEF q, S
<1>7. CASE Context!Units(S) <= b
    <2>1. q = [sent |-> S, from |-> i]
        BY <1>1, <1>6, <1>7
    <2>2. "sent" \in DOMAIN q /\ q.sent = S /\ q.from = i
        BY <2>1
    <2>3. Sound(h, q, b)
        BY <1>3, <1>4, <1>7, <2>2 DEF Sound
    <2> QED BY <2>3 DEF q, p
<1>8. CASE ~(Context!Units(S) <= b)
    <2>1. q = [raised |-> "summary"]
        BY <1>6, <1>8
    <2>2. "sent" \notin DOMAIN q /\ q.raised = "summary"
        BY <2>1
    <2>3. Sound(h, q, b)
        BY <2>2 DEF Sound
    <2> QED BY <2>3 DEF q, p
<1> QED BY <1>7, <1>8

\* Histories are conversations, and so are those with records put into them.
LEMMA HistoryType ==
    ASSUME NEW h \in Histories
    PROVE  h \in Seq(Messages)
<1> DEFINE T == {h[i] : i \in DOMAIN h}
<1>1. h \in Seq(T)
    BY ConversationsAssumption
<1>2. T \subseteq Messages
    BY DEF Messages
<1> HIDE DEF T
<1>3. Len(h) \in Nat /\ DOMAIN h = 1 .. Len(h) /\ \A i \in 1 .. Len(h) : h[i] \in T
    BY <1>1, LenProperties, ElementOfSeq
<1>4. h = [i \in 1 .. Len(h) |-> h[i]]
    BY <1>1, <1>3
<1>5. [i \in 1 .. Len(h) |-> h[i]] \in Seq(Messages)
    BY <1>2, <1>3
<1> QED BY <1>4, <1>5

\* A history with what was recalled for it is a history.
LEMMA RecalledType ==
    ASSUME NEW h \in Seq(Messages), NEW b \in Int, NEW n \in Nat
    PROVE  Context!Recalled(h, b, n) \in Seq(Messages)
<1>1. ASSUME NEW k \in Nat PROVE Context!Inject(h, k) \in Seq(Messages)
    <2> DEFINE x == SubSeq(h, 1, Context!Leading(h))
               y == <<Context!Message("system", 1), Context!Message("protected", 1 + k)>>
               z == SubSeq(h, Context!Leading(h) + 1, Len(h))
    <2>1. /\ Len(h) \in Nat /\ Context!Leading(h) \in 0 .. Len(h)
          /\ \A i \in 1 .. Context!Leading(h) : h[i] \in Messages
          /\ \A i \in Context!Leading(h) + 1 .. Len(h) : h[i] \in Messages
        BY Places, LeadingFacts
    <2>2. 1 \in Int /\ Context!Leading(h) \in Int /\ Context!Leading(h) + 1 \in Int /\ Len(h) \in Int
        BY <2>1
    <2>3. x \in Seq(Messages)
        BY <2>1, <2>2, SubSeqProperties
    <2>4. z \in Seq(Messages)
        BY <2>1, <2>2, SubSeqProperties
    <2>5. Context!Message("system", 1) \in Messages /\ Context!Message("protected", 1 + k) \in Messages
        BY DEF Messages
    <2>6. y \in Seq(Messages)
        BY <2>5
    <2>7. Context!Inject(h, k) = x \o y \o z
        BY DEF Context!Inject
    <2> HIDE DEF x, y, z
    <2>8. y \o z \in Seq(Messages) /\ x \o y \in Seq(Messages)
        BY <2>3, <2>4, <2>6, ConcatProperties
    <2>9. x \o y \o z \in Seq(Messages)
        BY <2>3, <2>4, <2>8, ConcatProperties
    <2> QED BY <2>7, <2>9
<1> DEFINE F == {0} \cup {k \in 0 .. n : Context!Injectable(h, k, b)}
           g == CHOOSE k \in F : \A j \in F : j <= k
<1>2. F \subseteq 0 .. n /\ F # {}
    OBVIOUS
<1>3. \E k \in F : \A j \in F : j <= k
    <2> HIDE DEF F
    <2>1. 0 \in Int /\ n \in Int
        OBVIOUS
    <2> QED BY <1>2, <2>1, GreatestOf, Zenon
<1>4. g \in F
    <2> HIDE DEF F
    <2> QED BY <1>3
<1>5. g \in Nat
    <2> HIDE DEF F, g
    <2> QED BY <1>2, <1>4
<1>6. Context!Recalled(h, b, n) = IF n = 0 THEN h ELSE Context!Inject(h, g)
    BY DEF Context!Recalled
<1> HIDE DEF g
<1> QED BY <1>1, <1>5, <1>6

-----------------------------------------------------------------------------
\* The invariant.
ContextInv ==
    /\ budget \in Nat /\ found \in Nat /\ history \in Seq(Messages)
    /\ prompt # None => prompt \in Seq(Messages)
    /\ projection # None => prompt # None /\ Sound(prompt, projection, budget)
    /\ call # None =>
          /\ projection # None /\ "sent" \in DOMAIN projection
          /\ call.api \in {"openai", "anthropic"}
          /\ call.taken <=> Context!Taken(call.api, prompt, projection.sent)

\* It holds at the start.
LEMMA ContextInit == Context!Init => ContextInv
BY HistoryType, ConversationsAssumption DEF Context!Init, ContextInv

\* No step of the component breaks it: a recall types the prompt, a compaction
\* and a summary are sound, a send records what the adapter does with a sound form.
LEMMA ContextStep == ContextInv /\ [Context!Next]_contextVars => ContextInv'
<1> SUFFICES ASSUME ContextInv, [Context!Next]_contextVars PROVE ContextInv'
    OBVIOUS
<1>1. CASE Context!Recall
    <2>1. projection = None /\ call = None /\ budget \in Int
        BY <1>1 DEF ContextInv, Context!Recall
    <2>2. prompt' \in Seq(Messages)
        BY <1>1, <2>1, RecalledType DEF ContextInv, Context!Recall
    <2> QED BY <1>1, <2>1, <2>2 DEF ContextInv, Context!Recall
<1>2. CASE Context!Compact
    <2>1. prompt \in Seq(Messages) /\ budget \in Int /\ call = None
        BY <1>2 DEF ContextInv, Context!Compact
    <2>2. Sound(prompt, projection', budget)
        BY <1>2, <2>1, ProjectSound DEF Context!Compact
    <2>3. Sound(prompt', projection', budget')
        BY <1>2, <2>2 DEF Context!Compact
    <2> QED BY <1>2, <2>1, <2>3 DEF ContextInv, Context!Compact
<1>3. CASE Context!Summarise
    <2>1. prompt \in Seq(Messages) /\ budget \in Int /\ call = None
        BY <1>3 DEF ContextInv, Context!Summarise
    <2>2. PICK u \in SummaryUnits :
             /\ Context!Compacted(prompt, Context!Project(prompt, budget))
             /\ projection' = Context!WithSummary(prompt, Context!Project(prompt, budget), u, budget)
        BY <1>3 DEF Context!Summarise
    <2>3. u \in Nat
        BY ConversationsAssumption
    <2>4. Sound(prompt, projection', budget)
        BY <2>1, <2>2, <2>3, SummarySound
    <2>5. Sound(prompt', projection', budget')
        BY <1>3, <2>4 DEF Context!Summarise
    <2> QED BY <1>3, <2>1, <2>5 DEF ContextInv, Context!Summarise
<1>4. ASSUME NEW api \in {"openai", "anthropic"}, Context!Send(api) PROVE ContextInv'
    <2>1. /\ projection # None /\ "sent" \in DOMAIN projection
          /\ prompt' = prompt /\ projection' = projection /\ budget' = budget
          /\ history' = history /\ found' = found
          /\ call' = [api |-> api, taken |-> Context!Taken(api, prompt, projection.sent)]
        BY <1>4 DEF Context!Send
    <2>2. call'.api = api /\ (call'.taken <=> Context!Taken(api, prompt, projection.sent))
        BY <2>1
    <2>3. call'.taken <=> Context!Taken(call'.api, prompt', projection'.sent)
        BY <2>1, <2>2
    <2>4. Sound(prompt', projection', budget')
        BY <2>1 DEF ContextInv
    <2> QED BY <2>1, <2>2, <2>3, <2>4 DEF ContextInv
<1>5. CASE UNCHANGED contextVars
    <2>1. /\ prompt' = prompt /\ projection' = projection /\ budget' = budget
          /\ history' = history /\ found' = found /\ call' = call
        BY <1>5 DEF contextVars
    <2> QED BY <2>1 DEF ContextInv
<1> QED BY <1>1, <1>2, <1>3, <1>4, <1>5 DEF Context!Next

\* It is what the projection promises.
LEMMA ContextSafe == ContextInv => Context!ProjectionIsMaximal
<1> SUFFICES ASSUME ContextInv PROVE Context!ProjectionIsMaximal
    OBVIOUS
<1>1. ASSUME projection # None, "sent" \in DOMAIN projection
      PROVE  /\ Context!Units(projection.sent) <= budget /\ Context!Maximal(prompt, projection)
             /\ call # None =>
                  (call.taken <=>
                     /\ ~Context!Switched(prompt, projection)
                     /\ call.api = "anthropic" =>
                           /\ ~Context!Interrupted(prompt, projection)
                                /\ Context!SystemFirst(prompt, projection)
                           /\ \E i \in DOMAIN prompt : prompt[i].role # "system")
    <2>1. prompt \in Seq(Messages) /\ Sound(prompt, projection, budget)
        BY <1>1 DEF ContextInv
    <2>2. /\ Context!SoundAtoms(prompt) /\ Context!Units(projection.sent) <= budget
          /\ Best(prompt, projection.from, budget)
        BY <1>1, <2>1 DEF Sound
    <2>3. PICK m, n : /\ Shape(prompt, projection.from, m, n)
                      /\ projection.sent = Form(prompt, projection.from, m, n)
        BY <1>1, <2>1 DEF Sound
    <2>4. ASSUME NEW i \in DOMAIN prompt, i <= Context!PrefixLength(prompt) \/ i >= projection.from
          PROVE  \E k \in DOMAIN projection.sent : Answers(prompt, projection.sent[k], i)
        <3>1. PICK x \in In(projection.sent) : Answers(prompt, x, i)
            BY <2>1, <2>2, <2>3, <2>4, FormCovers
        <3> QED BY <3>1 DEF In
    <2>5. Context!Maximal(prompt, projection)
        BY <2>2, <2>4 DEF Context!Maximal, Best, Answers
    <2>6. ASSUME call # None
          PROVE  (call.taken <=>
                     /\ ~Context!Switched(prompt, projection)
                     /\ call.api = "anthropic" =>
                           /\ ~Context!Interrupted(prompt, projection)
                                /\ Context!SystemFirst(prompt, projection)
                           /\ \E i \in DOMAIN prompt : prompt[i].role # "system")
        <3>1. /\ call.api \in {"openai", "anthropic"}
              /\ call.taken <=> Context!Taken(call.api, prompt, projection.sent)
            BY <2>6 DEF ContextInv
        <3>2. PICK i : i = projection.from
            OBVIOUS
        <3> QED BY <2>1, <2>2, <2>3, <3>1, <3>2, FormTaken
    <2> QED BY <2>2, <2>5, <2>6
<1>2. ASSUME projection # None, "sent" \notin DOMAIN projection, projection.raised = "budget"
      PROVE  \A i \in Context!TurnStarts(prompt) : i <= Context!HotStart(prompt)
               => ~Context!Fits(prompt, i, budget)
    BY <1>2 DEF ContextInv, Sound
<1>3. call # None => projection # None /\ "sent" \in DOMAIN projection
    BY DEF ContextInv
<1> QED BY <1>1, <1>2, <1>3 DEF Context!ProjectionIsMaximal

\* When another part of the system takes steps, nothing is projected.
ContextIdle ==
    /\ history = <<>> /\ budget = 0 /\ found = 0
    /\ prompt = None /\ projection = None /\ call = None

\* A step of the system is a step of the component or leaves it alone.
LEMMA ContextSteps == [Next]_vars => [Context!Next]_contextVars
BY DEF Next, ToolNext, StreamNext, ProviderNext, McpNext, StoreNext, PageNext, CacheNext,
       ContextNext, SchemaNext, IndexNext, vars, contextVars

\* What is sent to a model fits its budget, keeps the system prefix and the turns
\* from its first on, and could have begun with no earlier turn; a refusal means that
\* not even the hot turns fit; and an adapter takes it exactly when the provider did
\* not change over a kept call and, for Anthropic, nothing else stands in its way
\* (budget.py, semantic.py and the input of the two adapters), for every history,
\* budget, memory and summary.
THEOREM ProjectionKeepsAllItCan == Spec => []ProjectionIsMaximal
<1>1. Init => ContextInv
    <2>1. ContextIdle => ContextInv
        BY DEF ContextIdle, ContextInv
    <2> QED BY <2>1, ContextInit DEF Init, ContextIdle
<1>2. ContextInv /\ [Next]_vars => ContextInv'
    BY ContextStep, ContextSteps
<1>3. ContextInv => ProjectionIsMaximal
    BY ContextSafe DEF ProjectionIsMaximal
<1> QED BY <1>1, <1>2, <1>3, PTL DEF Spec
=============================================================================
