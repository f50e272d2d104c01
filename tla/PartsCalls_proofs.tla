-------------------------- MODULE PartsCalls_proofs -------------------------
(***************************************************************************)
(* Proofs about the components of Parts that call something and wait for   *)
(* it: a tool and its progress, a model stream, a provider, an MCP server, *)
(* the summarizer that overlapping callers share.  For each an inductive   *)
(* invariant, that it holds at the start and that no step of the component *)
(* breaks it; at the end the theorems.                                     *)
(*                                                                         *)
(* What a provider's decoder makes of a stream of any length is shown by   *)
(* induction, from the least element of a set of naturals: a decoder that  *)
(* has refused nothing holds exactly the events it has read (Rendered),    *)
(* and of the stream of a whole message it holds a beginning (Follows).    *)
(***************************************************************************)
EXTENDS Parts, Integers, FiniteSetTheorems, SequenceTheorems, TLAPS, WellFoundedInduction

-----------------------------------------------------------------------------
\* Induction and recursion over a range of numbers.

\* Induction: every set of naturals that is not empty has a least element.
LEMMA LeastNatural ==
    ASSUME NEW T, T \subseteq Nat, T # {}
    PROVE  \E n \in T : \A m \in T : n <= m
<1>1. PICK n \in T : \A m \in T : ~(<<m, n>> \in OpToRel(<, Nat))
    BY NatLessThanWellFounded, WFMin
<1>2. ASSUME NEW m \in T PROVE n <= m
    <2>1. m \in Nat /\ n \in Nat
        OBVIOUS
    <2>2. <<m, n>> \in OpToRel(<, Nat) <=> m < n
        BY <2>1 DEF OpToRel
    <2>3. ~(m < n)
        BY <1>1, <2>2
    <2> QED BY <2>1, <2>3
<1> QED BY <1>2

\* What holds at a, and at n when it holds before, holds from a to b.
LEMMA RangeInduction ==
    ASSUME NEW a \in Int, NEW b \in Int, NEW S, a <= b => a \in S,
           \A n \in a + 1 .. b : n - 1 \in S => n \in S
    PROVE  a .. b \subseteq S
<1> DEFINE T == {k \in Nat : a + k <= b /\ a + k \notin S}
<1>1. SUFFICES ASSUME T # {} PROVE FALSE
    <2>1. ASSUME NEW n \in a .. b, n \notin S PROVE T # {}
        <3>1. n - a \in Nat /\ a + (n - a) = n
            OBVIOUS
        <3>2. n - a \in T
            BY <2>1, <3>1
        <3> QED BY <3>2
    <2> QED BY <2>1
<1>2. PICK k \in T : \A m \in T : k <= m
    BY <1>1, LeastNatural
<1>3. CASE k = 0
    BY <1>2, <1>3
<1>4. CASE k # 0
    <2>1. k - 1 \in Nat /\ ~(k <= k - 1) /\ a + k \in a + 1 .. b /\ a + (k - 1) = a + k - 1
        BY <1>2, <1>4
    <2>2. a + k - 1 \in S
        BY <1>2, <2>1
    <2> QED BY <1>2, <2>1, <2>2
<1> QED BY <1>3, <1>4

\* A set of integers below a bound has a greatest element.
LEMMA GreatestOf ==
    ASSUME NEW a \in Int, NEW b \in Int, NEW T, T \subseteq a .. b, T # {}
    PROVE  \E n \in T : \A m \in T : m <= n
<1> DEFINE U == {b - m : m \in T}
<1>1. U \subseteq Nat /\ U # {}
    <2>1. ASSUME NEW m \in T PROVE m \in a .. b
        OBVIOUS
    <2>2. ASSUME NEW u \in U PROVE u \in Nat
        <3>1. PICK m \in T : u = b - m
            OBVIOUS
        <3> QED BY <3>1, <2>1
    <2> QED BY <2>2
<1>2. PICK u \in U : \A v \in U : u <= v
    BY <1>1, LeastNatural
<1>3. PICK n \in T : u = b - n
    BY <1>2
<1>4. ASSUME NEW m \in T PROVE m <= n
    <2>1. b - n <= b - m
        BY <1>2, <1>3
    <2>2. m \in Int /\ n \in Int
        OBVIOUS
    <2> QED BY <2>1, <2>2
<1> QED BY <1>4

\* A set of integers above a bound has a least one.
LEMMA LeastOf ==
    ASSUME NEW a \in Int, NEW b \in Int, NEW T, T \subseteq a .. b, T # {}
    PROVE  \E n \in T : \A m \in T : n <= m
<1> DEFINE U == {m - a : m \in T}
<1>1. U \subseteq Nat /\ U # {}
    <2>1. ASSUME NEW m \in T PROVE m \in a .. b
        OBVIOUS
    <2>2. ASSUME NEW u \in U PROVE u \in Nat
        <3>1. PICK m \in T : u = m - a
            OBVIOUS
        <3> QED BY <3>1, <2>1
    <2> QED BY <2>2
<1>2. PICK u \in U : \A v \in U : u <= v
    BY <1>1, LeastNatural
<1>3. PICK n \in T : u = n - a
    BY <1>2
<1>4. ASSUME NEW m \in T PROVE n <= m
    <2>1. n - a <= m - a
        BY <1>2, <1>3
    <2>2. m \in Int /\ n \in Int
        OBVIOUS
    <2> QED BY <2>1, <2>2
<1> QED BY <1>4

\* A function on a .. b that is x at a and then follows from its value before.
Recursive(f, a, b, x, step) ==
    f[a] = x /\ \A n \in a + 1 .. b : f[n] = step[<<n, f[n - 1]>>]

\* Functions that stay alike when they are, and functions that are.
StayAlike(f, g, a, b) == \A n \in a + 1 .. b : f[n - 1] = g[n - 1] => f[n] = g[n]
Alike(f, g, a, b) == \A n \in a .. b : f[n] = g[n]

\* A function defined by recursion exists.
LEMMA Recursion ==
    ASSUME NEW S, NEW a \in Int, NEW b \in Int, a <= b, NEW x \in S,
           NEW step \in [(a + 1 .. b) \X S -> S]
    PROVE  \E f \in [a .. b -> S] : Recursive(f, a, b, x, step)
<1> DEFINE Good(n, f) == f[a] = x /\ \A k \in a + 1 .. n : f[k] = step[<<k, f[k - 1]>>]
           R == {n \in a .. b : \E f \in [a .. n -> S] : Good(n, f)}
<1>1. a \in R
    <2> DEFINE f == [n \in a .. a |-> x]
    <2>1. f \in [a .. a -> S] /\ Good(a, f)
        OBVIOUS
    <2> QED BY <2>1
<1>2. ASSUME NEW n \in a + 1 .. b, n - 1 \in R PROVE n \in R
    <2>1. PICK g \in [a .. n - 1 -> S] : Good(n - 1, g)
        BY <1>2
    <2> DEFINE f == [k \in a .. n |-> IF k = n THEN step[<<n, g[n - 1]>>] ELSE g[k]]
    <2>2. n - 1 \in a .. n - 1 /\ g[n - 1] \in S
        OBVIOUS
    <2>3. <<n, g[n - 1]>> \in (a + 1 .. b) \X S
        BY <2>2
    <2>4. step[<<n, g[n - 1]>>] \in S
        BY <2>3
    <2>5. f \in [a .. n -> S]
        <3>1. ASSUME NEW k \in a .. n PROVE f[k] \in S
            <4>1. CASE k = n
                BY <4>1, <2>4
            <4>2. CASE k # n
                <5>1. k \in a .. n - 1
                    BY <4>2
                <5> QED BY <4>2, <5>1
            <4> QED BY <4>1, <4>2
        <3> QED BY <3>1
    <2>6. ASSUME NEW k \in a + 1 .. n PROVE f[k] = step[<<k, f[k - 1]>>]
        <3>1. k \in a .. n /\ k - 1 \in a .. n /\ k - 1 # n
            OBVIOUS
        <3>2. f[k - 1] = g[k - 1]
            BY <3>1
        <3>3. CASE k = n
            BY <3>1, <3>2, <3>3
        <3>4. CASE k # n
            <4>1. k \in a + 1 .. n - 1
                BY <3>4
            <4>2. f[k] = g[k] /\ g[k] = step[<<k, g[k - 1]>>]
                BY <2>1, <3>1, <3>4, <4>1
            <4> QED BY <3>2, <4>2
        <3> QED BY <3>3, <3>4
    <2>7. f[a] = x
        BY <2>1
    <2>8. Good(n, f)
        BY <2>6, <2>7
    <2> HIDE DEF f
    <2>9. \E w \in [a .. n -> S] : Good(n, w)
        BY <2>5, <2>8
    <2> QED BY <2>9
<1> HIDE DEF R
<1>3. a .. b \subseteq R
    BY <1>1, <1>2, RangeInduction
<1>4. b \in R
    BY <1>3
<1> QED BY <1>4 DEF R, Recursive

\* There is only one.
LEMMA SameRecursion ==
    ASSUME NEW a \in Int, NEW b \in Int, NEW f, NEW g, f[a] = g[a], StayAlike(f, g, a, b)
    PROVE  Alike(f, g, a, b)
<1> DEFINE S == {n \in a .. b : f[n] = g[n]}
<1>1. a <= b => a \in S
    OBVIOUS
<1>2. ASSUME NEW n \in a + 1 .. b, n - 1 \in S PROVE n \in S
    BY <1>2 DEF StayAlike
<1> HIDE DEF S
<1>3. a .. b \subseteq S
    BY <1>1, <1>2, RangeInduction
<1> QED BY <1>3 DEF S, Alike
-----------------------------------------------------------------------------
\* A tool and its progress.

\* RemoveAt of every part.
Drop(s, p) == SubSeq(s, 1, p - 1) \o SubSeq(s, p + 1, Len(s))

\* A sequence without its place p.
LEMMA Shortened ==
    ASSUME NEW S, NEW s \in Seq(S), NEW p \in DOMAIN s
    PROVE  /\ Drop(s, p) \in Seq(S) /\ Len(Drop(s, p)) = Len(s) - 1
           /\ DOMAIN Drop(s, p) = 1 .. Len(s) - 1 /\ DOMAIN s = 1 .. Len(s)
           /\ \A i \in DOMAIN Drop(s, p) : Drop(s, p)[i] = s[IF i < p THEN i ELSE i + 1]
<1> DEFINE W == Drop(s, p)
           L == SubSeq(s, 1, p - 1)
           R == SubSeq(s, p + 1, Len(s))
           n == Len(s)
<1>0. /\ n \in Nat /\ DOMAIN s = 1 .. n /\ p \in 1 .. n
      /\ \A i \in 1 .. n : s[i] \in S
    BY LenProperties
<1>w. W = L \o R
    BY DEF Drop
<1> HIDE DEF n, W
<1>1. L \in Seq(S) /\ Len(L) = p - 1 /\ \A i \in 1 .. p - 1 : L[i] = s[i]
    <2>1. \A i \in 1 .. p - 1 : s[i] \in S
        BY <1>0
    <2> HIDE DEF L
    <2>2. /\ L \in Seq(S) /\ Len(L) = IF 1 <= p - 1 THEN p - 1 - 1 + 1 ELSE 0
          /\ \A i \in 1 .. p - 1 - 1 + 1 : L[i] = s[1 + i - 1]
        BY <1>0, <2>1, SubSeqProperties DEF L
    <2> QED BY <1>0, <2>2
<1>2. /\ R \in Seq(S) /\ Len(R) = n - p
      /\ \A i \in 1 .. n - p : R[i] = s[i + p]
    <2>1. \A i \in p + 1 .. n : s[i] \in S
        BY <1>0
    <2> HIDE DEF R
    <2>2. /\ R \in Seq(S) /\ Len(R) = IF p + 1 <= n THEN n - (p + 1) + 1 ELSE 0
          /\ \A i \in 1 .. n - (p + 1) + 1 : R[i] = s[(p + 1) + i - 1]
        BY <1>0, <2>1, SubSeqProperties DEF R, n
    <2>3. \A i \in 1 .. n - p : (p + 1) + i - 1 = i + p
        BY <1>0
    <2>4. n - (p + 1) + 1 = n - p
        BY <1>0
    <2> QED BY <1>0, <2>2, <2>3, <2>4
<1> HIDE DEF L, R
<1>3. /\ W \in Seq(S) /\ Len(W) = n - 1 /\ DOMAIN W = 1 .. n - 1
      /\ \A i \in 1 .. n - 1 : W[i] = IF i <= p - 1 THEN L[i] ELSE R[i - (p - 1)]
    <2>1. Len(L) + Len(R) = n - 1
        BY <1>0, <1>1, <1>2
    <2>2. /\ W \in Seq(S) /\ Len(W) = Len(L) + Len(R)
          /\ \A i \in 1 .. Len(L) + Len(R) : W[i] = IF i <= Len(L) THEN L[i] ELSE R[i - Len(L)]
        <3>1. L \in Seq(S) /\ R \in Seq(S)
            BY <1>1, <1>2
        <3> QED BY <1>w, <3>1, ConcatProperties
    <2>3. DOMAIN W = 1 .. Len(W)
        BY <2>2, LenProperties
    <2> QED BY <2>1, <2>2, <2>3, <1>1
<1>4. \A i \in 1 .. n - 1 : W[i] = s[IF i < p THEN i ELSE i + 1]
    <2> SUFFICES ASSUME NEW i \in 1 .. n - 1
                 PROVE  W[i] = s[IF i < p THEN i ELSE i + 1]
        OBVIOUS
    <2>1. CASE i < p
        BY <2>1, <1>0, <1>1, <1>3
    <2>2. CASE ~(i < p)
        <3>1. i - (p - 1) \in 1 .. n - p /\ i - (p - 1) + p = i + 1 /\ ~(i <= p - 1)
            BY <2>2, <1>0
        <3>2. W[i] = R[i - (p - 1)]
            BY <3>1, <1>3
        <3>3. R[i - (p - 1)] = s[i + 1]
            BY <3>1, <1>2
        <3> QED BY <2>2, <3>2, <3>3
    <2> QED BY <2>1, <2>2
<1> QED BY <1>0, <1>3, <1>4 DEF n, W
-----------------------------------------------------------------------------
\* The progress of a tool.

ToolStatus == {"none", "posted", "waiting", "observing", "done", "dropped",
               "cancelled", "detached"}

ToolTypes ==
    /\ tool \in {"running", "ended"}
    /\ drive \in {"handling", "yielding", "gathering", "settled", "left"}
    /\ accepting \in BOOLEAN /\ sink \in BOOLEAN
    /\ accepted \in 0 .. MaxProgress
    /\ ready \in Seq((1 .. MaxProgress) \cup {Wake})
    /\ task \in [1 .. MaxProgress -> ToolStatus]

\* The queue holds the posted events, in their order, and the drive at most
\* once: only while it waits for the handler, or last, when it has yielded.
ToolQueue ==
    /\ \A n \in 1 .. MaxProgress :
          /\ task[n] = "none" <=> n > accepted
          /\ task[n] = "posted" <=> \E i \in DOMAIN ready : ready[i] = n
    /\ \A i, j \in DOMAIN ready : i < j =>
          /\ ready[i] # Wake \/ ready[j] # Wake
          /\ ready[i] # Wake /\ ready[j] # Wake => ready[i] < ready[j]
    /\ \A i \in DOMAIN ready : ready[i] = Wake =>
          drive = "handling" \/ (drive = "yielding" /\ i = Len(ready))

\* Who has closed the reporter hears of all its events; who has left it leaves
\* nothing behind that a sink has not begun.
ToolDrive ==
    /\ accepting => drive = "handling"
    /\ drive \in {"gathering", "settled"} => \A n \in 1 .. MaxProgress : task[n] # "posted"
    /\ drive = "gathering" => Tool!Pending \subseteq gathered
    /\ drive = "settled" => Tool!Pending = {}
    /\ ~sink => drive = "left" /\ Tool!Pending = {}
    /\ \A n \in 1 .. MaxProgress :
          /\ task[n] = "dropped" => ~sink
          /\ task[n] \in {"cancelled", "detached"} =>
                /\ drive = "left" /\ Tool!Pending = {}
                /\ sink => \A m \in 1 .. MaxProgress : task[m] # "posted"

\* The sink hears of the events in their order.
ToolOrder ==
    /\ \A n \in 1 .. MaxProgress : task[n] \in {"observing", "done"} =>
          \A m \in 1 .. n - 1 : task[m] \in {"done", "cancelled"}

ToolInv == ToolTypes /\ ToolQueue /\ ToolDrive /\ ToolOrder

\* A tool starts with nothing reported.
LEMMA ToolInit == Tool!Init => ToolInv
<1> SUFFICES ASSUME Tool!Init PROVE ToolInv OBVIOUS
<1> USE PartsAssumption DEF Tool!Init, Tool!Events
<1>1. ToolTypes BY DEF ToolTypes, ToolStatus
<1>2. ToolQueue BY DEF ToolQueue
<1>3. Tool!Pending = {} BY DEF Tool!Pending
<1>4. ToolDrive /\ ToolOrder BY <1>3 DEF ToolDrive, ToolOrder
<1> QED BY <1>1, <1>2, <1>4 DEF ToolInv

\* The property of the run, from the invariant.
LEMMA ToolSafe == ToolInv => Tool!ProgressPrecedesResult
BY PartsAssumption DEF ToolInv, ToolTypes, ToolQueue, ToolDrive, ToolOrder, ToolStatus, Tool!Pending,
       Tool!ProgressPrecedesResult, Tool!Events

\* No step of the tool, of the loop or of time breaks it.
LEMMA ToolStep == ToolInv /\ [Tool!Next]_toolVars => ToolInv'
<1> SUFFICES ASSUME ToolInv, [Tool!Next]_toolVars PROVE ToolInv'
    OBVIOUS
<1> USE PartsAssumption DEF Tool!Events
<1>t. ToolTypes /\ ToolQueue /\ ToolDrive /\ ToolOrder
    BY DEF ToolInv
<1>1. CASE Tool!Report
    <2> USE <1>1 DEF Tool!Report
    <2>1. accepted + 1 \in 1 .. MaxProgress /\ drive = "handling" /\ sink
        BY <1>t DEF ToolTypes, ToolDrive
    <2>2. ToolTypes'
        BY <1>t, <2>1 DEF ToolTypes, ToolStatus
    <2>3. /\ Len(ready') = Len(ready) + 1 /\ DOMAIN ready' = 1 .. Len(ready) + 1
          /\ \A i \in DOMAIN ready : ready'[i] = ready[i]
          /\ ready'[Len(ready) + 1] = accepted + 1
          /\ DOMAIN ready = 1 .. Len(ready) /\ Len(ready) \in Nat
        BY <1>t DEF ToolTypes
    <2>4. ToolQueue'
        <3>1. \A n \in 1 .. MaxProgress : task[n] = "posted" => n < accepted + 1
            BY <1>t DEF ToolQueue, ToolTypes
        <3>2. \A i \in DOMAIN ready : ready[i] # Wake => ready[i] < accepted + 1
            BY <1>t, <3>1 DEF ToolQueue, ToolTypes
        <3>3. \A n \in 1 .. MaxProgress :
                 /\ task'[n] = "none" <=> n > accepted'
                 /\ task'[n] = "posted" <=> \E i \in DOMAIN ready' : ready'[i] = n
            BY <1>t, <2>1, <2>3, SMTT(30) DEF ToolQueue, ToolTypes
        <3>4. \A i, j \in DOMAIN ready' : i < j =>
                 /\ ready'[i] # Wake \/ ready'[j] # Wake
                 /\ ready'[i] # Wake /\ ready'[j] # Wake => ready'[i] < ready'[j]
            BY <1>t, <2>1, <2>3, <3>2 DEF ToolQueue
        <3> QED BY <3>3, <3>4, <1>t, <2>1, <2>3 DEF ToolQueue
    <2>5. Tool!Pending' = Tool!Pending
        BY <1>t, <2>1 DEF Tool!Pending, ToolTypes, ToolQueue
    <2>6. ToolDrive'
        BY <1>t, <2>1, <2>5 DEF ToolDrive, ToolTypes
    <2>7. ToolOrder'
        BY <1>t, <2>1, <2>5 DEF ToolOrder, ToolTypes, ToolQueue
    <2> QED BY <2>2, <2>4, <2>6, <2>7 DEF ToolInv
\* The drive is put in the queue once.
<1>w. ASSUME drive = "handling", Wake \notin {ready[i] : i \in DOMAIN ready},
             ready' = Append(ready, Wake), tool' \in {"running", "ended"},
             UNCHANGED <<drive, accepting, sink, accepted, task, gathered>>
      PROVE  ToolInv'
    <2>1. ToolTypes'
        BY <1>t, <1>w DEF ToolTypes
    <2>2. ToolQueue'
        <3>1. /\ Len(ready') = Len(ready) + 1 /\ DOMAIN ready' = 1 .. Len(ready) + 1
              /\ \A i \in DOMAIN ready : ready'[i] = ready[i]
              /\ ready'[Len(ready) + 1] = Wake
              /\ DOMAIN ready = 1 .. Len(ready) /\ Len(ready) \in Nat
            BY <1>t, <1>w DEF ToolTypes
        <3>2. \A i \in DOMAIN ready : ready[i] # Wake
            BY <1>w
        <3>3. \A n \in 1 .. MaxProgress :
                 task'[n] = "posted" <=> \E i \in DOMAIN ready' : ready'[i] = n
            BY <1>t, <1>w, <3>1, <3>2 DEF ToolQueue, ToolTypes
        <3>4. \A i, j \in DOMAIN ready' : i < j => i \in DOMAIN ready
            BY <3>1
        <3> QED BY <1>t, <1>w, <3>1, <3>2, <3>3, <3>4, SMTT(30) DEF ToolQueue
    <2>3. Tool!Pending' = Tool!Pending
        BY <1>w DEF Tool!Pending
    <2>4. ToolDrive' /\ ToolOrder'
        BY <1>t, <1>w, <2>3 DEF ToolDrive, ToolOrder
    <2> QED BY <2>1, <2>2, <2>4 DEF ToolInv
\* Where neither the queue nor the drive changes.
<1>2. CASE Tool!ToolEnds \/ Tool!Deadline
    <2>1. CASE ready' = Append(ready, Wake)
        <3>1. Append(ready, Wake) # ready
            BY <1>t DEF ToolTypes
        <3>2. drive = "handling" /\ Wake \notin {ready[i] : i \in DOMAIN ready}
            BY <1>2, <2>1, <3>1 DEF Tool!ToolEnds, Tool!Deadline
        <3>3. tool' \in {"running", "ended"}
                /\ UNCHANGED <<drive, accepting, sink, accepted, task, gathered>>
            BY <1>2, <1>t DEF Tool!ToolEnds, Tool!Deadline, ToolTypes
        <3> QED BY <1>w, <2>1, <3>2, <3>3
    <2>2. CASE ready' = ready
        <3>1. tool' \in {"running", "ended"}
                /\ UNCHANGED <<drive, accepting, sink, accepted, ready, task, gathered>>
            BY <1>2, <2>2, <1>t DEF Tool!ToolEnds, Tool!Deadline, ToolTypes
        <3> QED
            BY <1>t, <3>1 DEF ToolInv, ToolTypes, ToolQueue, ToolDrive, ToolOrder, Tool!Pending
    <2> QED BY <1>2, <2>1, <2>2 DEF Tool!ToolEnds, Tool!Deadline
\* The head of the queue.
<1>h. ASSUME ready # <<>>
      PROVE  /\ Len(ready) \in Nat \ {0} /\ Len(Tail(ready)) = Len(ready) - 1
             /\ DOMAIN ready = 1 .. Len(ready) /\ DOMAIN Tail(ready) = 1 .. Len(ready) - 1
             /\ \A i \in 1 .. Len(ready) - 1 : Tail(ready)[i] = ready[i + 1]
             /\ Head(ready) = ready[1]
             /\ Tail(ready) \in Seq((1 .. MaxProgress) \cup {Wake})
    BY <1>h, <1>t DEF ToolTypes
<1>3. CASE Tool!LoopStep /\ Head(ready) # Wake
    <2>0. ready # <<>>
        BY <1>3 DEF Tool!LoopStep
    <2> DEFINE n == ready[1]
    <2>1. Tool!Schedule(n) /\ n # Wake
        BY <1>3, <2>0, <1>h DEF Tool!LoopStep
    <2>2. n \in 1 .. MaxProgress /\ task[n] = "posted"
        BY <1>t, <2>0, <2>1, <1>h DEF ToolTypes, ToolQueue
    <2> HIDE DEF n
    <2>3. /\ task' = [task EXCEPT ![n] = IF sink THEN "waiting" ELSE "dropped"]
          /\ ready' = Tail(ready)
          /\ UNCHANGED <<tool, drive, accepting, sink, accepted, gathered>>
        BY <2>1 DEF Tool!Schedule
    <2>4. ToolTypes'
        BY <1>t, <1>h, <2>0, <2>2, <2>3 DEF ToolTypes, ToolStatus
    <2>5. ToolQueue'
        <3>1. \A i \in DOMAIN ready' : i + 1 \in DOMAIN ready /\ ready'[i] = ready[i + 1] /\ i \in Nat \ {0}
            BY <1>h, <2>0, <2>3
        <3>2. \A i \in DOMAIN ready : i # 1 => ready[i] # n
            <4> SUFFICES ASSUME NEW i \in DOMAIN ready, i # 1, ready[i] = n PROVE FALSE
                OBVIOUS
            <4>1. 1 \in DOMAIN ready /\ i \in Nat /\ 1 < i /\ ready[1] = n
                BY <1>h, <2>0 DEF n
            <4>2. ready[1] < ready[i]
                BY <1>t, <2>1, <4>1 DEF ToolQueue
            <4> QED BY <2>2, <4>1, <4>2
        <3>3. \A m \in 1 .. MaxProgress :
                 task'[m] = "posted" <=> \E i \in DOMAIN ready' : ready'[i] = m
            <4> SUFFICES ASSUME NEW m \in 1 .. MaxProgress
                         PROVE  task'[m] = "posted" <=> \E i \in DOMAIN ready' : ready'[i] = m
                OBVIOUS
            <4>1. task'[m] = "posted" <=> task[m] = "posted" /\ m # n
                BY <1>t, <2>2, <2>3 DEF ToolTypes
            <4>2. ASSUME task[m] = "posted", m # n
                  PROVE  \E i \in DOMAIN ready' : ready'[i] = m
                <5>1. PICK i \in DOMAIN ready : ready[i] = m
                    BY <1>t, <4>2 DEF ToolQueue
                <5>2. i - 1 \in DOMAIN ready' /\ ready'[i - 1] = m
                    BY <5>1, <4>2, <1>h, <2>0, <2>3 DEF n
                <5> QED BY <5>2
            <4>3. ASSUME NEW i \in DOMAIN ready', ready'[i] = m
                  PROVE  task[m] = "posted" /\ m # n
                <5>1. i + 1 # 1
                    BY <3>1
                <5> QED BY <4>3, <5>1, <3>1, <3>2, <1>t DEF ToolQueue
            <4> QED BY <4>1, <4>2, <4>3
        <3>4. \A m \in 1 .. MaxProgress : task'[m] = "none" <=> m > accepted'
            BY <1>t, <2>2, <2>3 DEF ToolQueue, ToolTypes
        <3>5. \A i, j \in DOMAIN ready' : i < j =>
                 /\ ready'[i] # Wake \/ ready'[j] # Wake
                 /\ ready'[i] # Wake /\ ready'[j] # Wake => ready'[i] < ready'[j]
            <4> SUFFICES ASSUME NEW i \in DOMAIN ready', NEW j \in DOMAIN ready', i < j
                         PROVE  /\ ready'[i] # Wake \/ ready'[j] # Wake
                                /\ ready'[i] # Wake /\ ready'[j] # Wake => ready'[i] < ready'[j]
                OBVIOUS
            <4>1. i + 1 < j + 1
                BY <3>1
            <4> QED BY <4>1, <3>1, <1>t DEF ToolQueue
        <3>6. \A i \in DOMAIN ready' : ready'[i] = Wake =>
                 drive' = "handling" \/ (drive' = "yielding" /\ i = Len(ready'))
            <4> SUFFICES ASSUME NEW i \in DOMAIN ready', ready'[i] = Wake
                         PROVE  drive' = "handling" \/ (drive' = "yielding" /\ i = Len(ready'))
                OBVIOUS
            <4>1. drive = "handling" \/ (drive = "yielding" /\ i + 1 = Len(ready))
                BY <3>1, <1>t DEF ToolQueue
            <4> QED BY <4>1, <3>1, <2>0, <2>3, <1>h
        <3> QED BY <3>3, <3>4, <3>5, <3>6 DEF ToolQueue
    <2>6. Tool!Pending' = IF sink THEN Tool!Pending \cup {n} ELSE Tool!Pending
        BY <1>t, <2>2, <2>3 DEF Tool!Pending, ToolTypes
    <2>7. ToolDrive'
        <3>1. drive \notin {"gathering", "settled"}
            BY <1>t, <2>2 DEF ToolDrive
        <3>2. \A m \in 1 .. MaxProgress : task'[m] = "posted" => task[m] = "posted"
            BY <1>t, <2>2, <2>3 DEF ToolTypes
        <3>3. \A m \in 1 .. MaxProgress : task'[m] = "dropped" => ~sink
            BY <1>t, <2>2, <2>3 DEF ToolTypes, ToolDrive
        <3>4. \A m \in 1 .. MaxProgress : task'[m] \in {"cancelled", "detached"} =>
                 task[m] \in {"cancelled", "detached"} /\ ~sink
            BY <1>t, <2>2, <2>3 DEF ToolTypes, ToolDrive
        <3> QED BY <1>t, <2>3, <2>6, <3>1, <3>2, <3>3, <3>4 DEF ToolDrive
    <2>8. ToolOrder'
        <3>1. \A m \in 1 .. MaxProgress : task'[m] \in {"observing", "done"} =>
                 task[m] \in {"observing", "done"} /\ m # n
            BY <1>t, <2>2, <2>3 DEF ToolTypes
        <3>2. \A m \in 1 .. MaxProgress : task[m] \in {"done", "cancelled"} => task'[m] = task[m]
            BY <1>t, <2>2, <2>3 DEF ToolTypes
        <3> QED BY <1>t, <3>1, <3>2 DEF ToolOrder
    <2> QED BY <2>4, <2>5, <2>7, <2>8 DEF ToolInv
\* The drive turns to the events: none is pending, or it waits for all.
<1>a. ASSUME Tool!Await, Tool!Pending = {} \/ Tool!Pending \subseteq Tool!Pending,
             \A n \in 1 .. MaxProgress : task[n] # "posted",
             drive \in {"yielding", "gathering"}, ~accepting,
             UNCHANGED <<tool, accepting, sink, accepted, task>>,
             ready' \in Seq((1 .. MaxProgress) \cup {Wake}),
             \A i \in DOMAIN ready' : FALSE
      PROVE  ToolInv'
    <2>1. Tool!Pending' = Tool!Pending
        BY <1>a DEF Tool!Pending
    <2>2. \/ drive' = "settled" /\ Tool!Pending = {}
          \/ drive' = "gathering" /\ gathered' = Tool!Pending
        BY <1>a DEF Tool!Await
    <2>3. ToolTypes'
        BY <1>a, <1>t, <2>2 DEF ToolTypes
    <2>4. ToolQueue'
        BY <1>a, <1>t DEF ToolQueue
    <2>5. ToolDrive' /\ ToolOrder'
        BY <1>a, <1>t, <2>1, <2>2 DEF ToolDrive, ToolOrder
    <2> QED BY <2>3, <2>4, <2>5 DEF ToolInv
<1>4. CASE Tool!LoopStep /\ Head(ready) = Wake /\ Tool!Drain
    <2>0. ready # <<>> /\ drive = "yielding"
        BY <1>4 DEF Tool!LoopStep, Tool!Drain
    <2>1. Len(ready) = 1 /\ ready[1] = Wake
        BY <1>4, <1>t, <1>h, <2>0 DEF ToolQueue
    <2>2. ready' = Tail(ready) /\ \A i \in DOMAIN ready' : FALSE
        BY <1>4, <2>0, <2>1, <1>h DEF Tool!Drain
    <2>3. \A n \in 1 .. MaxProgress : task[n] # "posted"
        BY <1>t, <1>h, <2>0, <2>1 DEF ToolQueue, ToolTypes
    <2> QED BY <1>a, <1>4, <1>t, <1>h, <2>0, <2>2, <2>3 DEF Tool!Drain, ToolDrive
<1>5. CASE Tool!Gathered
    <2>1. \A i \in DOMAIN ready : ready[i] # Wake
        BY <1>5, <1>t DEF Tool!Gathered, ToolQueue
    <2>2. \A n \in 1 .. MaxProgress : task[n] # "posted"
        BY <1>5, <1>t DEF Tool!Gathered, ToolDrive
    <2>3. \A i \in DOMAIN ready : FALSE
        BY <1>t, <2>1, <2>2 DEF ToolTypes, ToolQueue
    <2> QED BY <1>a, <1>5, <1>t, <2>2, <2>3 DEF Tool!Gathered, ToolDrive, ToolTypes
<1>6. CASE Tool!LoopStep /\ Head(ready) = Wake /\ Tool!Close
    <2>0. /\ ready # <<>> /\ drive = "handling" /\ accepting' = FALSE /\ drive' = "yielding"
          /\ ready' = Append(Tail(ready), Wake)
          /\ UNCHANGED <<tool, sink, accepted, task, gathered>>
        BY <1>6 DEF Tool!LoopStep, Tool!Close
    <2>1. ready[1] = Wake
        BY <1>6, <2>0, <1>h
    <2>2. /\ Len(ready') = Len(ready) /\ DOMAIN ready' = 1 .. Len(ready)
          /\ ready'[Len(ready)] = Wake
          /\ \A i \in 1 .. Len(ready) - 1 : ready'[i] = ready[i + 1]
          /\ ready' \in Seq((1 .. MaxProgress) \cup {Wake})
        BY <1>h, <2>0
    <2>3. \A i \in 1 .. Len(ready) - 1 : ready[i + 1] # Wake /\ i + 1 \in DOMAIN ready
        <3> SUFFICES ASSUME NEW i \in 1 .. Len(ready) - 1 PROVE ready[i + 1] # Wake
                            /\ i + 1 \in DOMAIN ready
            OBVIOUS
        <3>1. 1 \in DOMAIN ready /\ i + 1 \in DOMAIN ready /\ 1 < i + 1
            BY <1>h, <2>0
        <3> QED BY <1>t, <2>1, <3>1 DEF ToolQueue
    <2>4. ToolTypes'
        BY <1>t, <2>0, <2>2 DEF ToolTypes
    <2>5. ToolQueue'
        <3>1. \A n \in 1 .. MaxProgress :
                 (\E i \in DOMAIN ready : ready[i] = n) <=> \E i \in DOMAIN ready' : ready'[i] = n
            <4> SUFFICES ASSUME NEW n \in 1 .. MaxProgress
                         PROVE  (\E i \in DOMAIN ready : ready[i]
                                  = n) <=> \E i \in DOMAIN ready' : ready'[i] = n
                OBVIOUS
            <4>1. ASSUME NEW i \in DOMAIN ready, ready[i] = n PROVE \E j \in DOMAIN ready' : ready'[j] = n
                <5>1. i # 1
                    BY <4>1, <2>1
                <5>2. i - 1 \in 1 .. Len(ready) - 1 /\ (i - 1) + 1 = i /\ i - 1 \in DOMAIN ready'
                    BY <5>1, <1>h, <2>0, <2>2
                <5> QED BY <5>2, <4>1, <2>2
            <4>2. ASSUME NEW i \in DOMAIN ready', ready'[i] = n PROVE \E j \in DOMAIN ready : ready[j] = n
                <5>1. i # Len(ready)
                    BY <4>2, <2>2
                <5>2. i \in 1 .. Len(ready) - 1
                    BY <5>1, <1>h, <2>0, <2>2
                <5> QED BY <5>2, <4>2, <2>2, <2>3
            <4> QED BY <4>1, <4>2
        <3>2. \A i, j \in DOMAIN ready' : i < j =>
                 /\ ready'[i] # Wake
                 /\ ready'[j] # Wake => ready'[i] < ready'[j]
            <4> SUFFICES ASSUME NEW i \in DOMAIN ready', NEW j \in DOMAIN ready', i < j
                         PROVE  ready'[i] # Wake /\ (ready'[j] # Wake => ready'[i] < ready'[j])
                OBVIOUS
            <4>1. i \in 1 .. Len(ready) - 1 /\ i + 1 < j + 1
                BY <1>h, <2>0, <2>2
            <4>2. ready'[i] # Wake
                BY <4>1, <2>2, <2>3
            <4>3. ASSUME ready'[j] # Wake PROVE ready'[i] < ready'[j]
                <5>1. j \in 1 .. Len(ready) - 1
                    BY <4>3, <1>h, <2>0, <2>2
                <5>2. /\ i + 1 \in DOMAIN ready /\ j + 1 \in DOMAIN ready
                      /\ ready[i + 1] # Wake /\ ready[j + 1] # Wake
                    BY <5>1, <4>1, <2>3
                <5>3. ready[i + 1] < ready[j + 1]
                    BY <5>2, <4>1, <1>t DEF ToolQueue
                <5> QED BY <5>3, <5>1, <4>1, <2>2
            <4> QED BY <4>2, <4>3
        <3>3. \A i \in DOMAIN ready' : ready'[i] = Wake => i = Len(ready')
            <4> SUFFICES ASSUME NEW i \in DOMAIN ready', ready'[i] = Wake, i # Len(ready') PROVE FALSE
                OBVIOUS
            <4>1. i \in 1 .. Len(ready) - 1
                BY <1>h, <2>0, <2>2
            <4> QED BY <4>1, <2>2, <2>3
        <3> QED BY <1>t, <2>0, <3>1, <3>2, <3>3 DEF ToolQueue
    <2>6. Tool!Pending' = Tool!Pending
        BY <2>0 DEF Tool!Pending
    <2>7. ToolDrive' /\ ToolOrder'
        BY <1>t, <2>0, <2>6 DEF ToolDrive, ToolOrder
    <2> QED BY <2>4, <2>5, <2>7 DEF ToolInv
\* A task goes on.
<1>7. ASSUME NEW n \in 1 .. MaxProgress, Tool!Observe(n) PROVE ToolInv'
    <2> USE <1>7 DEF Tool!Observe
    <2>1. n \in Tool!Pending /\ Tool!Pending # {}
        BY DEF Tool!Pending
    <2>2. \A m \in 1 .. MaxProgress : task[m] \notin {"dropped", "cancelled", "detached"}
        BY <1>t, <2>1 DEF ToolDrive
    <2>3. n \leq accepted
        BY <1>t DEF ToolQueue, ToolTypes
    <2>4. \A m \in 1 .. n - 1 : task[m] \in {"done", "cancelled"}
        <3>1. CASE n > 1
            <4>1. n - 1 \in 1 .. MaxProgress /\ task[n - 1] = "done"
                BY <3>1, <2>2, <2>3, <1>t DEF ToolTypes, ToolStatus, ToolQueue
            <4> QED BY <4>1, <1>t DEF ToolOrder
        <3> QED BY <3>1
    <2>5. Tool!Pending' = Tool!Pending
        BY <1>t DEF Tool!Pending, ToolTypes
    <2>6. ToolTypes' /\ ToolQueue'
        BY <1>t DEF ToolTypes, ToolQueue, ToolStatus
    <2>7. ToolDrive'
        BY <1>t, <2>5 DEF ToolTypes, ToolDrive
    <2>8. ToolOrder'
        BY <1>t, <2>4 DEF ToolTypes, ToolOrder
    <2> QED BY <2>6, <2>7, <2>8 DEF ToolInv
<1>8. ASSUME NEW n \in 1 .. MaxProgress, Tool!Observed(n) PROVE ToolInv'
    <2> USE <1>8 DEF Tool!Observed
    <2>1. Tool!Pending' = Tool!Pending \ {n}
        BY <1>t DEF Tool!Pending, ToolTypes
    <2>6. ToolTypes' /\ ToolQueue'
        BY <1>t DEF ToolTypes, ToolQueue, ToolStatus
    <2>7. ToolDrive'
        BY <1>t, <2>1 DEF ToolTypes, ToolDrive
    <2>8. ToolOrder'
        BY <1>t DEF ToolTypes, ToolOrder
    <2> QED BY <2>6, <2>7, <2>8 DEF ToolInv
\* The queue without the drive.
<1>r. /\ Tool!WithoutWake \in Seq((1 .. MaxProgress) \cup {Wake})
      /\ \A i \in DOMAIN Tool!WithoutWake : Tool!WithoutWake[i] # Wake
      /\ \A n \in 1 .. MaxProgress :
            (\E i \in DOMAIN ready : ready[i] = n) <=>
            \E i \in DOMAIN Tool!WithoutWake : Tool!WithoutWake[i] = n
      /\ \A i, j \in DOMAIN Tool!WithoutWake : i < j =>
            Tool!WithoutWake[i] < Tool!WithoutWake[j]
    <2> DEFINE W == Tool!WithoutWake
    <2>0. ready \in Seq((1 .. MaxProgress) \cup {Wake})
        BY <1>t DEF ToolTypes
    <2>1. CASE {i \in DOMAIN ready : ready[i] = Wake} = {}
        <3>1. Tool!WithoutWake = ready
            BY <2>1 DEF Tool!WithoutWake
        <3> QED BY <2>0, <2>1, <3>1, <1>t DEF ToolQueue
    <2>2. CASE {i \in DOMAIN ready : ready[i] = Wake} # {}
        <3>1. PICK p \in DOMAIN ready : ready[p] = Wake /\ W = Tool!RemoveAt(ready, p)
            BY <2>2 DEF Tool!WithoutWake
        <3>2. W = Drop(ready, p)
            BY <3>1 DEF Tool!RemoveAt, Drop
        <3> HIDE DEF W
        <3>3. /\ W \in Seq((1 .. MaxProgress) \cup {Wake}) /\ Len(W) = Len(ready) - 1
              /\ DOMAIN W = 1 .. Len(ready) - 1 /\ DOMAIN ready = 1 .. Len(ready)
              /\ \A i \in DOMAIN W : W[i] = ready[IF i < p THEN i ELSE i + 1]
            <4> DEFINE S == (1 .. MaxProgress) \cup {Wake}
            <4>1. ready \in Seq(S) /\ p \in DOMAIN ready
                BY <2>0, <3>1
            <4> HIDE DEF S
            <4>2. /\ W \in Seq(S) /\ Len(W) = Len(ready) - 1
                  /\ DOMAIN W = 1 .. Len(ready) - 1 /\ DOMAIN ready = 1 .. Len(ready)
                  /\ \A i \in DOMAIN W : W[i] = ready[IF i < p THEN i ELSE i + 1]
                BY <4>1, <3>2, Shortened
            <4> QED BY <4>2 DEF S
        <3>4. \A i \in DOMAIN ready : i # p => ready[i] # Wake
            BY <3>1, <3>3, <1>t DEF ToolQueue
        <3>5. \A i \in DOMAIN W : W[i] # Wake
            <4> SUFFICES ASSUME NEW i \in 1 .. Len(ready) - 1 PROVE W[i] # Wake
                BY <3>3
            <4> DEFINE j == IF i < p THEN i ELSE i + 1
            <4>1. Len(ready) \in Nat /\ p \in 1 .. Len(ready)
                BY <2>0, <3>3, LenProperties
            <4>2. j \in 1 .. Len(ready) /\ j # p
                BY <4>1
            <4>3. W[i] = ready[j]
                BY <3>3
            <4> HIDE DEF j
            <4> QED BY <4>2, <4>3, <3>3, <3>4
        <3>6. \A n \in 1 .. MaxProgress : (\E i \in DOMAIN ready : ready[i]
                = n) <=> \E i \in DOMAIN W : W[i] = n
            <4> SUFFICES ASSUME NEW n \in 1 .. MaxProgress
                         PROVE  (\E i \in DOMAIN ready : ready[i] = n) <=> \E i \in DOMAIN W : W[i] = n
                OBVIOUS
            <4>1. ASSUME NEW i \in DOMAIN ready, ready[i] = n PROVE \E j \in DOMAIN W : W[j] = n
                <5>1. i # p
                    BY <4>1, <3>1, PartsAssumption
                <5>2. CASE i < p
                    BY <5>2, <4>1, <3>1, <3>3, SMTT(30)
                <5>3. CASE i > p
                    <6>1. i - 1 \in DOMAIN W /\ ~(i - 1 < p) /\ (i - 1) + 1 = i
                        BY <5>3, <3>1, <3>3
                    <6> QED BY <6>1, <4>1, <3>3
                <5> QED BY <5>1, <5>2, <5>3, <3>1, <3>3
            <4>2. ASSUME NEW i \in DOMAIN W, W[i] = n PROVE \E j \in DOMAIN ready : ready[j] = n
                BY <4>2, <3>1, <3>3, SMTT(30)
            <4> QED BY <4>1, <4>2
        <3>7. \A i, j \in DOMAIN W : i < j => W[i] < W[j]
            <4> SUFFICES ASSUME NEW i \in DOMAIN W, NEW j \in DOMAIN W, i < j PROVE W[i] < W[j]
                OBVIOUS
            <4>1. PICK k \in DOMAIN ready, l \in DOMAIN ready :
                     k < l /\ W[i] = ready[k] /\ W[j] = ready[l]
                <5>1. CASE i < p /\ j < p
                    BY <5>1, <3>1, <3>3
                <5>2. CASE i < p /\ ~(j < p)
                    <6>1. i \in DOMAIN ready /\ j + 1 \in DOMAIN ready /\ i < j + 1
                        BY <5>2, <3>1, <3>3
                    <6> QED BY <5>2, <6>1, <3>3
                <5>3. CASE ~(i < p) /\ ~(j < p)
                    <6>1. i + 1 \in DOMAIN ready /\ j + 1 \in DOMAIN ready /\ i + 1 < j + 1
                        BY <5>3, <3>1, <3>3, SMTT(30)
                    <6> QED BY <5>3, <6>1, <3>3
                <5> QED BY <5>1, <5>2, <5>3, <3>1, <3>3
            <4>2. ready[k] # Wake /\ ready[l] # Wake
                BY <4>1, <3>5
            <4> QED BY <4>1, <4>2, <1>t DEF ToolQueue
        <3> QED BY <3>3, <3>5, <3>6, <3>7 DEF W
    <2> QED BY <2>1, <2>2
\* The drive leaves; of the tasks some are cancelled, and then all that are
\* pending, with nothing to follow.
<1>l. ASSUME drive' = "left", accepting' = FALSE, sink' => sink,
             ready' = Tool!WithoutWake, UNCHANGED <<tool, accepted>>, sink' \in BOOLEAN,
             \/ task' = task /\ sink' /\ drive = "yielding"
             \/ /\ task' = Tool!Cancelled(Tool!Pending)
                /\ \/ ~sink'
                   \/ \A m \in 1 .. MaxProgress : task[m] # "posted"
      PROVE  ToolInv'
    <2>1. CASE task' = task /\ sink' /\ drive = "yielding"
        <3>1. Tool!Pending' = Tool!Pending
            BY <2>1 DEF Tool!Pending
        <3>2. sink /\ \A n \in 1 .. MaxProgress : task[n] \notin {"dropped", "cancelled", "detached"}
            BY <1>t, <2>1 DEF ToolDrive
        <3>3. ToolTypes'
            BY <1>t, <1>l, <1>r, <2>1 DEF ToolTypes
        <3>4. ToolQueue'
            BY <1>t, <1>l, <1>r, <2>1 DEF ToolQueue
        <3>5. ToolDrive' /\ ToolOrder'
            BY <1>t, <1>l, <2>1, <3>1, <3>2 DEF ToolDrive, ToolOrder
        <3> QED BY <3>3, <3>4, <3>5 DEF ToolInv
    <2>2. CASE /\ task' = Tool!Cancelled(Tool!Pending)
               /\ ~sink' \/ \A m \in 1 .. MaxProgress : task[m] # "posted"
        <3>1. \A n \in 1 .. MaxProgress :
                 task'[n] = IF task[n] = "observing" THEN "detached"
                            ELSE IF task[n] = "waiting" THEN "cancelled" ELSE task[n]
            BY <2>2, <1>t DEF Tool!Cancelled, Tool!Pending, ToolTypes
        <3>2. Tool!Pending' = {}
            BY <3>1 DEF Tool!Pending
        <3>3. ToolTypes'
            <4>1. task' \in [1 .. MaxProgress -> ToolStatus]
                BY <2>2, <3>1, <1>t DEF Tool!Cancelled, ToolTypes, ToolStatus
            <4> QED BY <1>t, <1>l, <1>r, <4>1 DEF ToolTypes
        <3>4. ToolQueue'
            <4>1. \A n \in 1 .. MaxProgress :
                     (task'[n] = "none" <=> task[n] = "none")
                       /\ (task'[n] = "posted" <=> task[n] = "posted")
                BY <3>1
            <4> QED BY <1>t, <1>l, <1>r, <4>1 DEF ToolQueue
        <3>5. ToolDrive'
            <4>1. \A n \in 1 .. MaxProgress :
                     /\ task'[n] = "dropped" <=> task[n] = "dropped"
                     /\ task'[n] = "posted" <=> task[n] = "posted"
                BY <3>1
            <4>2. \A n \in 1 .. MaxProgress : task'[n] = "dropped" => ~sink'
                <5> SUFFICES ASSUME NEW n \in 1 .. MaxProgress, task[n] = "dropped" PROVE ~sink'
                    BY <4>1
                <5> QED BY <1>t, <1>l DEF ToolDrive
            <4> QED BY <1>l, <2>2, <3>2, <4>1, <4>2 DEF ToolDrive
        <3>6. ToolOrder'
            <4>1. \A n \in 1 .. MaxProgress : task'[n] \in {"observing", "done"} => task[n] = "done"
                BY <3>1
            <4>2. \A n \in 1 .. MaxProgress : task[n] \in {"done", "cancelled"} => task'[n] = task[n]
                BY <3>1
            <4> QED BY <1>t, <4>1, <4>2 DEF ToolOrder, ToolTypes
        <3> QED BY <3>3, <3>4, <3>5, <3>6 DEF ToolInv
    <2> QED BY <1>l, <2>1, <2>2
<1>9. CASE Tool!Abandon
    BY <1>9, <1>l DEF Tool!Abandon
<1>10. CASE Tool!CancelDrain
    <2>1. ~accepting /\ sink
        BY <1>10, <1>t DEF Tool!CancelDrain, ToolDrive, ToolTypes
    <2>2. CASE drive = "yielding"
        BY <1>10, <1>l, <2>1, <2>2, <1>t DEF Tool!CancelDrain, ToolTypes
    <2>3. CASE drive = "gathering"
        <3>1. Tool!Cancelled(gathered) = Tool!Cancelled(Tool!Pending)
            BY <1>t, <2>3 DEF Tool!Cancelled, ToolDrive
        <3> QED BY <1>10, <1>l, <2>1, <2>3, <3>1, <1>t DEF Tool!CancelDrain, ToolTypes, ToolDrive
    <2> QED BY <1>10, <2>2, <2>3 DEF Tool!CancelDrain
<1>11. CASE UNCHANGED toolVars
    BY <1>t, <1>11 DEF ToolInv, ToolTypes, ToolQueue, ToolDrive, ToolOrder, Tool!Pending, toolVars
<1> QED
    BY <1>1, <1>2, <1>3, <1>4, <1>5, <1>6, <1>7, <1>8, <1>9, <1>10, <1>11
       DEF Tool!Next, Tool!LoopStep

-----------------------------------------------------------------------------
\* The collector of a model stream.

StreamTypes ==
    /\ yielded \in Seq(Stream!StreamEvents)
    /\ started \in BOOLEAN
    /\ terminal \in Stream!Terminals \cup {None}
    /\ outcome \in {"open", "reply", "protocol", "failed", "aborted"}

\* What has been accepted: nothing yet, a start and deltas, or those and a
\* terminal.
Accepted(s) ==
    /\ Len(s) <= MaxStreamed
    /\ started <=> Len(s) > 0
    /\ Len(s) > 0 => s[1].type = "start"
    /\ \A i \in 2 .. Len(s) - 1 : s[i].type = "delta"
    /\ terminal # None <=> Len(s) > 0 /\ s[Len(s)] \in Stream!Terminals
    /\ terminal # None => terminal = s[Len(s)] /\ Len(s) > 1
    /\ terminal = None /\ Len(s) > 1 => s[Len(s)].type = "delta"

StreamInv ==
    /\ StreamTypes
    /\ outcome = "open" => observed = yielded /\ Accepted(yielded)
    /\ Stream!ReplyIsTheStreams

\* A stream starts with nothing yielded.
LEMMA StreamInit == Stream!Init => StreamInv
<1> SUFFICES ASSUME Stream!Init PROVE StreamInv OBVIOUS
<1>1. StreamTypes
    <2>1. yielded = <<>> /\ started = FALSE /\ terminal = None /\ outcome = "open"
        BY DEF Stream!Init
    <2>2. yielded \in Seq(Stream!StreamEvents)
        BY <2>1
    <2> QED BY <2>1, <2>2 DEF StreamTypes
<1>2. Accepted(yielded) /\ observed = yielded /\ outcome = "open"
    BY PartsAssumption DEF Stream!Init, Accepted
<1> QED BY <1>1, <1>2 DEF StreamInv, Stream!ReplyIsTheStreams

\* The kinds of events.
LEMMA StreamKinds ==
    /\ \A e \in Stream!StreamEvents :
          /\ e.type \in {"start", "delta", "other", "done", "error", "aborted"}
          /\ e \in Stream!Terminals <=> e.type \in {"done", "error", "aborted"}
          /\ e \in Stream!Terminals => e # None
    /\ Stream!Terminals \subseteq Stream!StreamEvents
BY PartsAssumption DEF Stream!StreamEvents, Stream!Terminals

\* No event a stream yields breaks it.
LEMMA StreamStep == StreamInv /\ [Stream!Next]_streamVars => StreamInv'
<1> SUFFICES ASSUME StreamInv, [Stream!Next]_streamVars PROVE StreamInv'
    OBVIOUS
<1>t. StreamTypes
    BY DEF StreamInv
<1>1. ASSUME NEW e \in Stream!StreamEvents, Stream!Yield(e) PROVE StreamInv'
    <2> DEFINE s == yielded
               t == Append(yielded, e)
    <2>0. /\ outcome = "open" /\ yielded' = t /\ observed = s /\ Accepted(s)
          /\ s \in Seq(Stream!StreamEvents)
        BY <1>1, <1>t DEF Stream!Yield, StreamInv, StreamTypes
    <2>1. /\ t \in Seq(Stream!StreamEvents) /\ Len(t) = Len(s) + 1 /\ t[Len(s) + 1] = e
          /\ \A i \in 1 .. Len(s) : t[i] = s[i]
          /\ Len(s) \in Nat
        BY <2>0
    <2>k. /\ e.type \in {"start", "delta", "other", "done", "error", "aborted"}
          /\ e \in Stream!Terminals <=> e.type \in {"done", "error", "aborted"}
          /\ e \in Stream!Terminals => e # None
        BY StreamKinds
    <2> HIDE DEF t, s
    <2>2. CASE Stream!Refused(e)
        <3>1. outcome' = "protocol" /\ UNCHANGED <<started, terminal, observed>>
            BY <1>1, <2>2 DEF Stream!Yield
        <3>2. ~Stream!WellFormed(t)
            <4> SUFFICES ASSUME Stream!WellFormed(t) PROVE FALSE
                OBVIOUS
            <4>1. /\ Len(s) + 1 \in 2 .. MaxStreamed /\ t[1].type = "start" /\ e \in Stream!Terminals
                  /\ \A i \in 2 .. Len(s) : t[i].type = "delta"
                BY <2>1 DEF Stream!WellFormed
            <4>2. started /\ s[1].type = "start" /\ e.type \in {"done", "error", "aborted"}
                BY <4>1, <2>0, <2>1, <2>k DEF Accepted
            <4>3. terminal # None
                BY <4>1, <4>2, <2>2, <2>0, <2>1, PartsAssumption DEF Stream!Refused, s
            <4>4. Len(s) > 1 /\ s[Len(s)] \in Stream!Terminals
                BY <4>3, <2>0 DEF Accepted
            <4>5. s[Len(s)].type = "delta"
                BY <4>1, <4>4, <2>1
            <4>6. Len(s) \in 1 .. Len(s) /\ s[Len(s)] \in Stream!StreamEvents
                BY <4>4, <2>0, <2>1
            <4> QED BY <4>4, <4>5, <4>6, StreamKinds
        <3>3. StreamTypes'
            BY <1>t, <2>0, <2>1, <3>1 DEF StreamTypes
        <3>4. Stream!ReplyIsTheStreams'
            BY <2>0, <3>1, <3>2 DEF Stream!ReplyIsTheStreams, Stream!WellFormed
        <3> QED BY <3>1, <3>3, <3>4 DEF StreamInv
    <2>3. CASE ~Stream!Refused(e)
        <3>1. /\ started' = TRUE /\ terminal' = (IF e \in Stream!Terminals THEN e ELSE None)
              /\ observed' = Append(observed, e) /\ outcome' = "open"
            BY <1>1, <2>0, <2>3 DEF Stream!Yield
        <3>2. /\ Len(s) < MaxStreamed /\ terminal = None /\ e.type # "other"
              /\ started => e.type # "start"
              /\ ~started => e.type = "start"
            BY <2>0, <2>1, <2>3, PartsAssumption DEF Stream!Refused, s
        <3>3. StreamTypes'
            BY <1>t, <2>0, <2>1, <3>1 DEF StreamTypes
        <3>4. Accepted(yielded)'
            <4>1. CASE Len(s) = 0
                <5>1. e.type = "start" /\ e \notin Stream!Terminals
                    BY <4>1, <3>2, <2>0, <2>k DEF Accepted
                <5> QED BY <4>1, <5>1, <2>0, <2>1, <3>1, <3>2, PartsAssumption DEF Accepted
            <4>2. CASE Len(s) > 0
                <5>1. /\ e.type # "start" /\ s[1].type = "start"
                      /\ \A i \in 2 .. Len(s) - 1 : s[i].type = "delta"
                      /\ Len(s) > 1 => s[Len(s)].type = "delta"
                    BY <4>2, <3>2, <2>0 DEF Accepted
                <5>2. \A i \in 2 .. Len(s) : t[i].type = "delta"
                    BY <5>1, <2>1
                <5>3. e \notin Stream!Terminals => e.type = "delta"
                    BY <5>1, <3>2, <2>k
                <5> QED BY <4>2, <5>1, <5>2, <5>3, <2>0, <2>1, <2>k, <3>1, <3>2, PartsAssumption DEF Accepted
            <4> QED BY <4>1, <4>2, <2>1
        <3>5. observed' = yielded'
            BY <2>0, <3>1 DEF t, s
        <3> QED BY <3>1, <3>3, <3>4, <3>5 DEF StreamInv, Stream!ReplyIsTheStreams
    <2> QED BY <2>2, <2>3
<1>2. CASE Stream!End
    <2> DEFINE s == yielded
    <2>0. /\ outcome = "open" /\ observed = s /\ Accepted(s) /\ s \in Seq(Stream!StreamEvents)
          /\ UNCHANGED <<yielded, started, terminal, observed>>
        BY <1>2, <1>t DEF Stream!End, StreamInv, StreamTypes
    <2>1. CASE terminal = None
        <3>1. outcome' = "protocol"
            BY <1>2, <2>1 DEF Stream!End
        <3>2. ~Stream!WellFormed(s)
            BY <2>0, <2>1 DEF Accepted, Stream!WellFormed
        <3>3. StreamTypes'
            BY <1>t, <2>0, <3>1 DEF StreamTypes
        <3> QED BY <2>0, <3>1, <3>2, <3>3 DEF StreamInv, Stream!ReplyIsTheStreams, Stream!WellFormed
    <2>2. CASE terminal # None
        <3>1. /\ terminal = s[Len(s)] /\ Len(s) > 1 /\ terminal \in Stream!Terminals
            BY <2>0, <2>2, <1>t DEF Accepted, StreamTypes
        <3>2. terminal.type \in {"done", "error", "aborted"}
            BY <3>1, StreamKinds
        <3>3. outcome' = CASE terminal.type = "done" -> "reply"
                           [] terminal.type = "error" -> "failed"
                           [] OTHER -> "aborted"
            BY <1>2, <2>2 DEF Stream!End
        <3>4. Stream!WellFormed(s)
            BY <2>0, <2>2, <3>1 DEF Accepted, Stream!WellFormed
        <3>5. StreamTypes' /\ outcome' # "open"
            BY <1>t, <2>0, <3>2, <3>3 DEF StreamTypes
        <3> QED BY <2>0, <3>1, <3>3, <3>4, <3>5 DEF StreamInv, Stream!ReplyIsTheStreams, Stream!WellFormed
    <2> QED BY <2>1, <2>2
<1>3. CASE UNCHANGED streamVars
    BY <1>3 DEF streamVars, StreamInv, StreamTypes, Accepted, Stream!ReplyIsTheStreams, Stream!WellFormed
<1> QED BY <1>1, <1>2, <1>3 DEF Stream!Next

-----------------------------------------------------------------------------
\* One request to a provider.

\* Until the caller has given up, the thread blocks on no socket but the one it
\* has registered; a thread that registers one afterwards goes on to abort it
\* and finds out at its next check.
CallInv ==
    /\ stop \in BOOLEAN /\ aborted \in BOOLEAN
    /\ stop <=> caller \in {"stopping", "gone"}
    /\ worker \in {"attach", "wrap"} => sock # "none"
    /\ worker \in {"abort", "attached"} \cup Provider!Blocking /\ caller # "gone" =>
          registered = sock /\ sock # "none"
    /\ Provider!GivenUpIsAborted

\* A request starts with nothing to abort.
LEMMA CallInit == Provider!Init => CallInv
BY DEF Provider!Init, CallInv, Provider!GivenUpIsAborted, Provider!Blocking

\* No step of the thread, of the caller or of time blocks it on an open socket
\* that nobody will close.
LEMMA CallStep == CallInv /\ [Provider!Next]_callVars => CallInv'
<1> SUFFICES ASSUME CallInv, [Provider!Next]_callVars PROVE CallInv'
    OBVIOUS
<1> USE DEF Provider!Blocking
<1>f. ASSUME NEW verdict, NEW m, Provider!Finish(verdict, m) PROVE CallInv'
    BY <1>f DEF CallInv, Provider!Finish, Provider!GivenUpIsAborted
<1>c. ASSUME Provider!CheckFails PROVE CallInv'
    BY <1>c, <1>f DEF Provider!CheckFails
<1>1. CASE Provider!Connect
    BY <1>1, <1>c, <1>f DEF Provider!Connect, Provider!Checked, CallInv, Provider!control, Provider!GivenUpIsAborted
<1>2. CASE Provider!Attach
    BY <1>2 DEF Provider!Attach, CallInv, Provider!GivenUpIsAborted
<1>13. CASE Provider!AbortOwn
    <2>1. aborted' \in BOOLEAN
        BY <1>13 DEF Provider!AbortOwn, Provider!AbortOf, CallInv
    <2> QED BY <1>13, <2>1 DEF Provider!AbortOwn, CallInv, Provider!GivenUpIsAborted
<1>3. CASE Provider!Attached
    BY <1>3, <1>c DEF Provider!Attached, Provider!GoOn, Provider!Checked, CallInv, Provider!control, Provider!GivenUpIsAborted
<1>4. CASE Provider!Wrap
    BY <1>4 DEF Provider!Wrap, CallInv, Provider!control, Provider!GivenUpIsAborted
<1>5. CASE Provider!Handshake
    BY <1>5, <1>c, <1>f DEF Provider!Handshake, Provider!GoOn, Provider!Checked, CallInv, Provider!control, Provider!GivenUpIsAborted
<1>6. CASE Provider!Respond
    BY <1>6, <1>c, <1>f DEF Provider!Respond, Provider!Checked, CallInv, Provider!control, Provider!GivenUpIsAborted
<1>7. CASE Provider!Read
    BY <1>7 DEF Provider!Read, CallInv, Provider!control, Provider!GivenUpIsAborted
<1>8. CASE Provider!EndOfBody
    BY <1>8, <1>f DEF Provider!EndOfBody
<1>9. CASE Provider!ReadFails
    BY <1>9, <1>c, <1>f DEF Provider!ReadFails
<1>10. CASE Provider!Expire \/ Provider!Return
    BY <1>10 DEF Provider!Expire, Provider!Return, CallInv, Provider!control, Provider!GivenUpIsAborted
<1>14. CASE Provider!Stop
    BY <1>14 DEF Provider!Stop, CallInv, Provider!GivenUpIsAborted
<1>11. CASE Provider!Cancel
    BY <1>11 DEF Provider!Cancel, Provider!AbortOf, CallInv, Provider!GivenUpIsAborted
<1>12. CASE UNCHANGED callVars
    BY <1>12 DEF callVars, CallInv, Provider!GivenUpIsAborted
<1> QED BY <1>1, <1>2, <1>3, <1>4, <1>5, <1>6, <1>7, <1>8, <1>9, <1>10, <1>11, <1>12, <1>13, <1>14 DEF Provider!Next

-----------------------------------------------------------------------------
\* What a provider sends: sequences of sequences.

\* What a flattened sequence of sequences is built from, part by part.
Grown(q, f) == f[0] = <<>> /\ \A n \in 1 .. Len(q) : f[n] = f[n - 1] \o q[n]

\* One sequence begins another.
Begins(s, t) == Len(s) <= Len(t) /\ \A i \in 1 .. Len(s) : t[i] = s[i]

\* A sequence of sequences is flattened by joining its parts one after another.
LEMMA FlatFacts ==
    ASSUME NEW S, NEW q \in Seq(Seq(S))
    PROVE  \E f \in [0 .. Len(q) -> Seq(S)] : Grown(q, f) /\ Provider!FlattenSeq(q) = f[Len(q)]
<1> DEFINE L == Len(q)
           D == (0 + 1 .. L) \X Seq(S)
           step == [p \in D |-> p[2] \o q[p[1]]]
           Is(f) == f = [i \in 1 .. L |-> IF i = 1 THEN q[i] ELSE f[i - 1] \o q[i]]
<1>0. L \in Nat /\ \A n \in 1 .. L : q[n] \in Seq(S)
    BY LenProperties, ElementOfSeq
<1>c. ASSUME NEW u \in Seq(S), NEW v \in Seq(S) PROVE u \o v \in Seq(S)
    BY ConcatProperties
<1>1. step \in [D -> Seq(S)]
    BY <1>0, <1>c
<1>2. \A n \in 1 .. L, v \in Seq(S) : step[<<n, v>>] = v \o q[n]
    <2> TAKE n \in 1 .. L, v \in Seq(S)
    <2>1. <<n, v>> \in D
        BY <1>0
    <2> QED BY <2>1
<1> HIDE DEF step
<1>e. <<>> \in Seq(S)
    OBVIOUS
<1>r. PICK f \in [0 .. L -> Seq(S)] : Recursive(f, 0, L, <<>>, step)
    <2>1. 0 \in Int /\ L \in Int /\ 0 <= L
        BY <1>0
    <2> HIDE DEF L
    <2> QED BY <1>1, <1>e, <2>1, Recursion
<1> HIDE DEF L
<1>3. f[0] = <<>> /\ \A n \in 1 .. L : f[n] = step[<<n, f[n - 1]>>]
    BY <1>r DEF Recursive
<1>4. \A n \in 1 .. L : f[n] = f[n - 1] \o q[n]
    <2> TAKE n \in 1 .. L
    <2>1. n - 1 \in 0 .. L /\ f[n - 1] \in Seq(S)
        BY <1>0
    <2> QED BY <2>1, <1>2, <1>3
<1>5. CASE L = 0
    <2>1. q = <<>>
        BY <1>5, EmptySeq DEF L
    <2>2. Provider!FlattenSeq(q) = <<>>
        BY <2>1, SMTT(30) DEF Provider!FlattenSeq
    <2> QED BY <1>3, <1>4, <1>5, <2>2 DEF Grown, L
<1>6. CASE L # 0
    <2>1. 1 \in 1 .. L /\ L \in 1 .. L /\ L \in Int
        BY <1>0, <1>6
    <2>2. f[1] = q[1]
        <3>1. f[1] = <<>> \o q[1] /\ q[1] \in Seq(S)
            <4>1. f[1] = f[1 - 1] \o q[1]
                BY <1>4, <2>1
            <4> QED BY <4>1, <1>0, <1>3, <2>1, SMTT(30)
        <3> QED BY <3>1, ConcatEmptySeq
    <2> DEFINE k == [i \in 1 .. L |-> f[i]]
    <2>3. Is(k)
        <3>1. ASSUME NEW i \in 1 .. L PROVE k[i] = IF i = 1 THEN q[i] ELSE k[i - 1] \o q[i]
            <4>1. CASE i = 1
                BY <4>1, <2>2
            <4>2. CASE i # 1
                <5>1. i - 1 \in 1 .. L
                    BY <1>0, <4>2
                <5> QED BY <5>1, <4>2, <1>4
            <4> QED BY <4>1, <4>2
        <3> QED BY <3>1
    <2> HIDE DEF k
    <2> DEFINE g == CHOOSE x : Is(x)
    <2>4. Is(g)
        BY <2>3, Zenon
    <2>5. Provider!FlattenSeq(q) = g[L]
        <3>1. Len(q) # 0
            BY <1>6 DEF L
        <3> QED BY <3>1, Zenon DEF Provider!FlattenSeq, L
    <2>6. g[1] = f[1] /\ \A n \in 2 .. L : g[n] = g[n - 1] \o q[n]
        <3> HIDE DEF g
        <3>1. \A i \in 1 .. L : g[i] = IF i = 1 THEN q[i] ELSE g[i - 1] \o q[i]
            BY <2>4
        <3>2. \A n \in 2 .. L : n \in 1 .. L /\ n # 1
            BY <1>0
        <3> QED BY <3>1, <3>2, <2>1, <2>2
    <2>7. g[L] = f[L]
        <3> HIDE DEF g
        <3>1. \A n \in 1 + 1 .. L : g[n - 1] = f[n - 1] => g[n] = f[n]
            <4> TAKE n \in 1 + 1 .. L
            <4>1. n \in 2 .. L /\ n \in 1 .. L
                BY <1>0
            <4> QED BY <4>1, <2>6, <1>4
        <3>2. StayAlike(g, f, 1, L)
            BY <3>1 DEF StayAlike
        <3>3. Alike(g, f, 1, L)
            BY <3>2, <2>1, <2>6, SameRecursion
        <3> QED BY <3>3, <2>1 DEF Alike
    <2> QED BY <1>3, <1>4, <2>5, <2>7 DEF Grown, L
<1> QED BY <1>5, <1>6

\* What the first parts make is part of what they all make.
LEMMA FlatPrefix ==
    ASSUME NEW S, NEW q \in Seq(Seq(S)), NEW f \in [0 .. Len(q) -> Seq(S)], Grown(q, f),
           NEW p \in Seq(Seq(S)), Begins(p, q)
    PROVE  Provider!FlattenSeq(p) = f[Len(p)]
<1>0. Len(p) \in Nat /\ Len(q) \in Nat /\ Len(p) <= Len(q) /\ \A i \in 1 .. Len(p) : q[i] = p[i]
    BY LenProperties DEF Begins
<1>1. PICK g \in [0 .. Len(p) -> Seq(S)] : Grown(p, g) /\ Provider!FlattenSeq(p) = g[Len(p)]
    BY FlatFacts
<1>2. g[0] = f[0]
    BY <1>1 DEF Grown
<1>3. \A n \in 0 + 1 .. Len(p) : g[n - 1] = f[n - 1] => g[n] = f[n]
    <2> TAKE n \in 0 + 1 .. Len(p)
    <2>1. n \in 1 .. Len(p) /\ n \in 1 .. Len(q)
        BY <1>0
    <2> QED BY <2>1, <1>0, <1>1 DEF Grown
<1>4. StayAlike(g, f, 0, Len(p)) /\ 0 \in Int /\ Len(p) \in Int
    BY <1>0, <1>3 DEF StayAlike
<1>5. Alike(g, f, 0, Len(p))
    BY <1>2, <1>4, SameRecursion
<1> QED BY <1>0, <1>1, <1>5 DEF Alike

\* One part more.
LEMMA FlatAppend ==
    ASSUME NEW S, NEW q \in Seq(Seq(S)), NEW x \in Seq(S)
    PROVE  /\ Provider!FlattenSeq(q) \in Seq(S)
           /\ Provider!FlattenSeq(Append(q, x)) = Provider!FlattenSeq(q) \o x
<1> DEFINE r == Append(q, x)
<1>0. Len(q) \in Nat /\ r \in Seq(Seq(S)) /\ Len(r) = Len(q) + 1 /\ r[Len(q) + 1] = x
      /\ \A i \in 1 .. Len(q) : r[i] = q[i]
    BY AppendProperties, LenProperties
<1> HIDE DEF r
<1>1. PICK f \in [0 .. Len(r) -> Seq(S)] : Grown(r, f) /\ Provider!FlattenSeq(r) = f[Len(r)]
    BY <1>0, FlatFacts
<1>2. Begins(q, r)
    BY <1>0 DEF Begins
<1>3. Provider!FlattenSeq(q) = f[Len(q)]
    BY <1>0, <1>1, <1>2, FlatPrefix
<1>4. Len(q) + 1 \in 1 .. Len(r) /\ Len(q) \in 0 .. Len(r) /\ (Len(q) + 1) - 1 = Len(q)
    BY <1>0
<1>5. f[Len(q) + 1] = f[Len(q)] \o x
    BY <1>0, <1>1, <1>4 DEF Grown
<1> QED BY <1>0, <1>1, <1>3, <1>4, <1>5 DEF r

\* What begins the parts begins what they make.
LEMMA FlatBegins ==
    ASSUME NEW S, NEW q \in Seq(Seq(S)), NEW p \in Seq(Seq(S)), Begins(p, q)
    PROVE  Begins(Provider!FlattenSeq(p), Provider!FlattenSeq(q))
<1>0. Len(p) \in Nat /\ Len(q) \in Nat /\ Len(p) <= Len(q)
    BY LenProperties DEF Begins
<1>1. PICK f \in [0 .. Len(q) -> Seq(S)] : Grown(q, f) /\ Provider!FlattenSeq(q) = f[Len(q)]
    BY FlatFacts
<1>2. Provider!FlattenSeq(p) = f[Len(p)]
    BY <1>1, FlatPrefix
<1> DEFINE T == {n \in Len(p) .. Len(q) : Begins(f[Len(p)], f[n])}
<1>f. \A n \in 0 .. Len(q) : Len(f[n]) \in Nat
    BY LenProperties
<1>3. Len(p) \in T
    <2>1. Len(p) \in Len(p) .. Len(q) /\ Len(p) \in 0 .. Len(q)
        BY <1>0
    <2> QED BY <2>1, <1>f DEF Begins
<1>4. ASSUME NEW n \in Len(p) + 1 .. Len(q), n - 1 \in T PROVE n \in T
    <2>1. n \in 1 .. Len(q) /\ n - 1 \in 0 .. Len(q) /\ n \in 0 .. Len(q) /\ n \in Len(p) .. Len(q)
          /\ Len(p) \in 0 .. Len(q)
        BY <1>0
    <2> DEFINE u == f[n - 1]
               v == q[n]
               w == f[n]
               z == f[Len(p)]
    <2>2. u \in Seq(S) /\ v \in Seq(S) /\ w = u \o v
        BY <2>1, <1>1, ElementOfSeq DEF Grown
    <2>3. Begins(z, u)
        BY <1>4
    <2>4. Len(z) \in Nat
        BY <2>1, <1>f
    <2> HIDE DEF u, v, w, z
    <2>5. Len(u) \in Nat /\ Len(v) \in Nat /\ Len(w) = Len(u) + Len(v)
          /\ \A i \in 1 .. Len(u) + Len(v) : w[i] = IF i <= Len(u) THEN u[i] ELSE v[i - Len(u)]
        BY <2>2, ConcatProperties, LenProperties
    <2>a. Len(z) <= Len(u) /\ \A i \in 1 .. Len(z) : u[i] = z[i]
        BY <2>3 DEF Begins
    <2>b. ASSUME NEW i \in 1 .. Len(z) PROVE w[i] = z[i]
        <3>1. i \in 1 .. Len(u) + Len(v) /\ i <= Len(u)
            BY <2>a, <2>4, <2>5
        <3>2. w[i] = u[i]
            BY <2>5, <3>1
        <3> QED BY <2>a, <3>2
    <2>c. Len(z) <= Len(w)
        BY <2>a, <2>4, <2>5
    <2>6. Begins(z, w)
        BY <2>b, <2>c DEF Begins
    <2> QED BY <2>1, <2>6 DEF z, w
<1> HIDE DEF T
<1>5. Len(p) .. Len(q) \subseteq T
    <2>1. Len(p) \in Int /\ Len(q) \in Int
        BY <1>0
    <2> QED BY <1>3, <1>4, <2>1, RangeInduction
<1>6. Len(q) \in T
    BY <1>0, <1>5, SMTT(30)
<1> QED BY <1>1, <1>2, <1>6 DEF T

-----------------------------------------------------------------------------
\* Decoding what a provider sends.

\* What a provider sends and a decoder holds.
Parted   == {"text", "signature", "json1", "json2"}
Kinds    == {"text", "thinking", "tool"}
Block    == [kind : Kinds, parts : Seq(Parted)]
Events   == UNION {{s.events[i] : i \in DOMAIN s.events} : s \in Scripts}
Meant    == {s.meant : s \in Scripts} \ {None}
Contents == {None} \cup Kinds \cup Parted \cup {e.x : e \in Events} \cup {m.stop : m \in Meant}
Types    == {"start", "block", "delta", "block_stop", "message_delta", "message_stop"}
Heard    == Events \cup [type : Types, n : Nat, x : Contents]
Wired    == {e \in Heard : Provider!AnthropicEvent(e)}
Decoders == [started : BOOLEAN, active : Block \cup {None}, blocks : Seq(Block), stop : Contents,
             stopped : BOOLEAN, verdict : {"reply", "response", "protocol"}]

\* What an event says is one of the contents.
LEMMA HeardFacts ==
    ASSUME NEW e \in Heard
    PROVE  e.x \in Contents
<1>1. CASE e \in Events
    BY <1>1 DEF Contents
<1>2. CASE e \in [type : Types, n : Nat, x : Contents]
    BY <1>2
<1> QED BY <1>1, <1>2 DEF Heard

\* A block is not None, nor is one without parts.
LEMMA BlockFacts ==
    /\ None \notin Block
    /\ \A k \in Kinds : [kind |-> k, parts |-> <<>>] \in Block
    /\ \A b \in Block, x \in Parted : [kind |-> b.kind, parts |-> Append(b.parts, x)] \in Block
<1>1. None \notin Block
    BY ScriptsAssumption DEF Block, Kinds, Parted
<1>2. ASSUME NEW k \in Kinds PROVE [kind |-> k, parts |-> <<>>] \in Block
    BY DEF Block
<1>3. ASSUME NEW b \in Block, NEW x \in Parted
      PROVE [kind |-> b.kind, parts |-> Append(b.parts, x)] \in Block
    <2>1. b.kind \in Kinds /\ b.parts \in Seq(Parted)
        BY DEF Block
    <2>2. Append(b.parts, x) \in Seq(Parted)
        BY <2>1, AppendProperties
    <2> QED BY <2>1, <2>2 DEF Block
<1> QED BY <1>1, <1>2, <1>3

\* Decoding an event.
LEMMA DecodeType ==
    ASSUME NEW d \in Decoders, NEW e \in Wired
    PROVE  Provider!Decode(d, e) \in Decoders
<1>0. /\ e.x \in Contents /\ (e.type = "block" => e.x \in Kinds)
      /\ d.active \in Block \cup {None} /\ d.blocks \in Seq(Block)
    BY HeardFacts DEF Wired, Provider!AnthropicEvent, Kinds, Decoders
<1>1. CASE d.verdict # "reply"
    BY <1>1 DEF Provider!Decode
<1>2. CASE d.verdict = "reply" /\ e.type = "error"
    BY <1>2 DEF Provider!Decode, Decoders
<1>3. CASE d.verdict = "reply" /\ e.type # "error" /\ ~Provider!InOrder(d, e)
    BY <1>3 DEF Provider!Decode, Decoders
<1>4. CASE d.verdict = "reply" /\ e.type # "error" /\ Provider!InOrder(d, e)
    <2>1. CASE e.type = "start"
        BY <1>4, <2>1 DEF Provider!Decode, Decoders
    <2>2. CASE e.type = "block"
        <3>1. Provider!Decode(d, e) = [d EXCEPT !.active = [kind |-> e.x, parts |-> <<>>]]
            BY <1>4, <2>2 DEF Provider!Decode
        <3>2. [kind |-> e.x, parts |-> <<>>] \in Block
            BY <1>0, <2>2, BlockFacts
        <3> QED BY <3>1, <3>2 DEF Decoders
    <2>3. CASE e.type = "delta"
        <3>1. Provider!Decode(d, e)
                = [d EXCEPT !.active = [kind |-> d.active.kind, parts |-> Append(d.active.parts, e.x)]]
            BY <1>4, <2>3 DEF Provider!Decode
        <3>2. d.active # None /\ Provider!DeltaFits(d.active, e.x)
            BY <1>4, <2>3 DEF Provider!InOrder
        <3>3. e.x \in Parted
            BY <3>2 DEF Provider!DeltaFits, Parted
        <3>4. [kind |-> d.active.kind, parts |-> Append(d.active.parts, e.x)] \in Block
            BY <1>0, <3>2, <3>3, BlockFacts
        <3> QED BY <3>1, <3>4 DEF Decoders
    <2>4. CASE e.type = "block_stop"
        <3>1. Provider!Decode(d, e) = [d EXCEPT !.blocks = Append(d.blocks, d.active), !.active = None]
            BY <1>4, <2>4 DEF Provider!Decode
        <3>2. d.active \in Block
            BY <1>0, <1>4, <2>4 DEF Provider!InOrder
        <3>3. Append(d.blocks, d.active) \in Seq(Block)
            BY <1>0, <3>2, AppendProperties
        <3> QED BY <3>1, <3>3 DEF Decoders
    <2>5. CASE e.type = "message_delta"
        <3>1. Provider!Decode(d, e) = [d EXCEPT !.stop = e.x]
            BY <1>4, <2>5 DEF Provider!Decode
        <3> QED BY <3>1, <1>0 DEF Decoders
    <2>6. CASE e.type = "message_stop"
        BY <1>4, <2>6 DEF Provider!Decode, Decoders
    <2>7. CASE e.type \notin Types
        BY <1>4, <2>7 DEF Provider!Decode, Types
    <2> QED BY <2>1, <2>2, <2>3, <2>4, <2>5, <2>6, <2>7 DEF Types
<1> QED BY <1>1, <1>2, <1>3, <1>4

\* The decoder before any event.
LEMMA DecoderType == Provider!Decoder \in Decoders
<1>1. <<>> \in Seq(Block) /\ None \in Contents
    BY DEF Contents
<1> QED BY <1>1 DEF Provider!Decoder, Decoders

\* Events are decoded one after another.
LEMMA DecodedFacts ==
    ASSUME NEW r \in Seq(Wired)
    PROVE  \E f \in [0 .. Len(r) -> Decoders] :
              /\ f[0] = Provider!Decoder
              /\ \A n \in 1 .. Len(r) : f[n] = Provider!Decode(f[n - 1], r[n])
              /\ Provider!Decoded(r) = f[Len(r)]
<1> DEFINE L == Len(r)
           D == (0 + 1 .. L) \X Decoders
           step == [p \in D |-> Provider!Decode(p[2], r[p[1]])]
           Is(f) == f = [n \in 0 .. L |-> IF n = 0 THEN Provider!Decoder
                                          ELSE Provider!Decode(f[n - 1], r[n])]
<1>0. L \in Nat /\ \A n \in 1 .. L : r[n] \in Wired
    BY LenProperties, ElementOfSeq
<1>1. step \in [D -> Decoders]
    BY <1>0, DecodeType
<1>2. \A n \in 1 .. L, v \in Decoders : step[<<n, v>>] = Provider!Decode(v, r[n])
    <2> TAKE n \in 1 .. L, v \in Decoders
    <2>1. <<n, v>> \in D
        BY <1>0
    <2> QED BY <2>1
<1> HIDE DEF step
<1>r. PICK f \in [0 .. L -> Decoders] : Recursive(f, 0, L, Provider!Decoder, step)
    <2>1. 0 \in Int /\ L \in Int /\ 0 <= L
        BY <1>0
    <2> HIDE DEF L
    <2> QED BY <1>1, <2>1, DecoderType, Recursion
<1> HIDE DEF L
<1>3. f[0] = Provider!Decoder /\ \A n \in 1 .. L : f[n] = step[<<n, f[n - 1]>>]
    BY <1>r DEF Recursive
<1>4. \A n \in 1 .. L : f[n] = Provider!Decode(f[n - 1], r[n])
    <2> TAKE n \in 1 .. L
    <2>1. n - 1 \in 0 .. L /\ f[n - 1] \in Decoders
        BY <1>0
    <2> QED BY <2>1, <1>2, <1>3
<1>5. Is(f)
    BY <1>0, <1>3, <1>4
<1> DEFINE g == CHOOSE x : Is(x)
<1>6. Is(g)
    BY <1>5
<1>7. Provider!Decoded(r) = g[L]
    BY Zenon DEF Provider!Decoded, L
<1>8. g[0] = Provider!Decoder /\ \A n \in 1 .. L : g[n] = Provider!Decode(g[n - 1], r[n])
    <2> HIDE DEF g
    <2> QED BY <1>6, <1>0
<1>9. \A n \in 0 .. L : g[n] = f[n]
    <2> HIDE DEF g
    <2>1. StayAlike(g, f, 0, L)
        BY <1>8, <1>4 DEF StayAlike
    <2>3. 0 \in Int /\ L \in Int /\ g[0] = f[0]
        BY <1>0, <1>3, <1>8
    <2>2. Alike(g, f, 0, L)
        BY <2>1, <2>3, SameRecursion
    <2> QED BY <2>2 DEF Alike
<1>10. Provider!Decoded(r) = f[L]
    BY <1>7, <1>9, <1>0
<1> QED BY <1>3, <1>4, <1>10 DEF L

\* One event more.
LEMMA DecodedAppend ==
    ASSUME NEW r \in Seq(Wired), NEW e \in Wired
    PROVE  /\ Provider!Decoded(r) \in Decoders
           /\ Provider!Decoded(Append(r, e)) = Provider!Decode(Provider!Decoded(r), e)
<1> DEFINE s == Append(r, e)
<1>0. Len(r) \in Nat /\ s \in Seq(Wired) /\ Len(s) = Len(r) + 1 /\ s[Len(r) + 1] = e
      /\ \A i \in 1 .. Len(r) : s[i] = r[i]
    BY AppendProperties, LenProperties
<1> HIDE DEF s
<1>1. PICK f \in [0 .. Len(r) -> Decoders] :
         /\ f[0] = Provider!Decoder
         /\ \A n \in 1 .. Len(r) : f[n] = Provider!Decode(f[n - 1], r[n])
         /\ Provider!Decoded(r) = f[Len(r)]
    BY DecodedFacts
<1>2. PICK g \in [0 .. Len(s) -> Decoders] :
         /\ g[0] = Provider!Decoder
         /\ \A n \in 1 .. Len(s) : g[n] = Provider!Decode(g[n - 1], s[n])
         /\ Provider!Decoded(s) = g[Len(s)]
    BY <1>0, DecodedFacts
<1>3. g[Len(r)] = f[Len(r)]
    <2>1. \A n \in 0 + 1 .. Len(r) : g[n - 1] = f[n - 1] => g[n] = f[n]
        <3> TAKE n \in 0 + 1 .. Len(r)
        <3>1. n \in 1 .. Len(r) /\ n \in 1 .. Len(s)
            BY <1>0
        <3> QED BY <3>1, <1>0, <1>1, <1>2
    <2>2. StayAlike(g, f, 0, Len(r)) /\ 0 \in Int /\ Len(r) \in Int /\ Len(r) \in 0 .. Len(r)
        BY <2>1, <1>0 DEF StayAlike
    <2>3. Alike(g, f, 0, Len(r))
        BY <2>2, <1>1, <1>2, SameRecursion
    <2> QED BY <2>2, <2>3 DEF Alike
<1>4. Len(r) + 1 \in 1 .. Len(s) /\ (Len(r) + 1) - 1 = Len(r) /\ Len(r) \in 0 .. Len(r)
    BY <1>0
<1>5. g[Len(r) + 1] = Provider!Decode(g[Len(r)], e)
    BY <1>0, <1>2, <1>4
<1> QED BY <1>0, <1>1, <1>2, <1>3, <1>4, <1>5 DEF s

\* Of no events.
LEMMA DecodedNone == Provider!Decoded(<<>>) = Provider!Decoder
<1>1. <<>> \in Seq(Wired) /\ Len(<<>>) = 0
    OBVIOUS
<1> QED BY <1>1, DecodedFacts

-----------------------------------------------------------------------------
\* What has been read, as the decoder holds it.

\* Joining and appending.
LEMMA Joins ==
    ASSUME NEW S, NEW s \in Seq(S), NEW t \in Seq(S), NEW e \in S
    PROVE  /\ s \o t \in Seq(S) /\ Append(s, e) \in Seq(S) /\ <<e>> \in Seq(S)
           /\ s \o <<e>> = Append(s, e) /\ s \o Append(t, e) = Append(s \o t, e)
           /\ s \o <<>> = s /\ Append(<<>>, e) = <<e>>
<1>1. \A u \in Seq(S) : u \o <<e>> = Append(u, e)
    <2> TAKE u \in Seq(S)
    <2> DEFINE a == u \o <<e>>
               b == Append(u, e)
    <2>1. <<e>> \in Seq(S) /\ Len(<<e>>) = 1 /\ <<e>>[1] = e /\ Len(u) \in Nat
        BY LenProperties
    <2>2. a \in Seq(S) /\ Len(a) = Len(u) + 1
          /\ \A i \in 1 .. Len(u) + 1 : a[i] = IF i <= Len(u) THEN u[i] ELSE <<e>>[i - Len(u)]
        <3>1. <<e>> \in Seq(S) /\ Len(<<e>>) = 1
            BY <2>1
        <3> QED BY <3>1, ConcatProperties
    <2>3. b \in Seq(S) /\ Len(b) = Len(u) + 1 /\ b[Len(u) + 1] = e
          /\ \A i \in 1 .. Len(u) : b[i] = u[i]
        BY <2>1, AppendProperties
    <2> HIDE DEF a, b
    <2>4. ASSUME NEW i \in 1 .. Len(u) + 1 PROVE a[i] = b[i]
        <3>1. CASE i <= Len(u)
            <4>1. i \in 1 .. Len(u)
                BY <2>1, <3>1
            <4> QED BY <2>2, <2>3, <3>1, <4>1
        <3>2. CASE ~(i <= Len(u))
            <4>1. i = Len(u) + 1 /\ i - Len(u) = 1
                BY <2>1, <3>2
            <4>2. a[i] = <<e>>[i - Len(u)]
                BY <2>2, <3>2
            <4> QED BY <2>1, <2>3, <4>1, <4>2
        <3> QED BY <3>1, <3>2
    <2>5. a = b
        BY <2>2, <2>3, <2>4, SeqEqual
    <2> QED BY <2>5 DEF a, b
<1>2. s \o t \in Seq(S)
    BY ConcatProperties
<1>3. <<e>> \in Seq(S) /\ Append(s, e) \in Seq(S) /\ Append(t, e) \in Seq(S)
    BY AppendProperties
<1>4. (s \o t) \o <<e>> = s \o (t \o <<e>>)
    <2>1. <<e>> \in Seq(S)
        BY <1>3
    <2> QED BY <2>1, ConcatAssociative
<1>5. s \o Append(t, e) = Append(s \o t, e)
    BY <1>1, <1>2, <1>4
<1>6. s \o <<>> = s
    BY ConcatEmptySeq
<1> QED BY <1>1, <1>2, <1>3, <1>5, <1>6

\* What has been read, joined and with one event more.
LEMMA HeardJoins ==
    ASSUME NEW s \in Seq(Heard), NEW t \in Seq(Heard), NEW e \in Heard
    PROVE  /\ s \o t \in Seq(Heard) /\ Append(s, e) \in Seq(Heard) /\ <<e>> \in Seq(Heard)
           /\ s \o <<e>> = Append(s, e) /\ s \o Append(t, e) = Append(s \o t, e)
           /\ s \o <<>> = s /\ Append(<<>>, e) = <<e>>
BY Joins

\* What has been read, in three parts: how they are grouped does not matter.
LEMMA HeardGroups ==
    ASSUME NEW s \in Seq(Heard), NEW t \in Seq(Heard), NEW u \in Seq(Heard)
    PROVE  (s \o t) \o u = s \o (t \o u)
BY ConcatAssociative

\* An event of a type the Anthropic stream has.
LEMMA EventType ==
    ASSUME NEW t \in Types, NEW n \in Nat, NEW x \in Contents
    PROVE  Provider!E(t, n, x) \in Heard
BY DEF Provider!E, Heard

-----------------------------------------------------------------------------
\* What has been read, from what the decoder holds.

Open(n, b) ==
    <<Provider!E("block", n, b.kind)>>
    \o [i \in DOMAIN b.parts |-> Provider!E("delta", n, b.parts[i])]
Pieces(blocks) == [i \in DOMAIN blocks |-> Provider!BlockEvents(i, blocks[i])]
Body(blocks) == Provider!FlattenSeq(Pieces(blocks))
Front(blocks) == <<Provider!E("start", 0, None)>> \o Body(blocks)
Ending(d) ==
    IF d.stop = None THEN <<>>
    ELSE IF ~d.stopped THEN <<Provider!E("message_delta", 0, d.stop)>>
    ELSE <<Provider!E("message_delta", 0, d.stop), Provider!E("message_stop", 0, None)>>
Rendered(d) ==
    IF ~d.started THEN <<>>
    ELSE (Front(d.blocks) \o (IF d.active = None THEN <<>> ELSE Open(Len(d.blocks) + 1, d.active)))
         \o Ending(d)

\* What a block has been sent so far.
LEMMA OpenType ==
    ASSUME NEW n \in Nat, NEW b \in Block
    PROVE  /\ Len(b.parts) \in Nat /\ Open(n, b) \in Seq(Heard) /\ Len(Open(n, b)) = 1 + Len(b.parts)
           /\ Open(n, b)[1] = Provider!E("block", n, b.kind)
           /\ \A i \in 1 .. Len(b.parts) : Open(n, b)[1 + i] = Provider!E("delta", n, b.parts[i])
<1> DEFINE p == b.parts
           L == Len(p)
           u == <<Provider!E("block", n, b.kind)>>
           v == [i \in DOMAIN p |-> Provider!E("delta", n, p[i])]
<1>0. L \in Nat /\ DOMAIN p = 1 .. L /\ b.kind \in Contents /\ \A i \in 1 .. L : p[i] \in Contents
    <2>1. p \in Seq(Parted) /\ b.kind \in Kinds
        BY DEF Block
    <2>2. L \in Nat /\ DOMAIN p = 1 .. L /\ \A i \in 1 .. L : p[i] \in Parted
        BY <2>1, LenProperties, ElementOfSeq
    <2> QED BY <2>1, <2>2 DEF Contents
<1>1. u \in Seq(Heard) /\ Len(u) = 1 /\ u[1] = Provider!E("block", n, b.kind)
    <2>1. Provider!E("block", n, b.kind) \in Heard
        BY <1>0, EventType DEF Types
    <2> QED BY <2>1
<1>2. v \in Seq(Heard) /\ Len(v) = L /\ \A i \in 1 .. L : v[i] = Provider!E("delta", n, p[i])
    <2>1. \A i \in 1 .. L : Provider!E("delta", n, p[i]) \in Heard
        BY <1>0, EventType DEF Types
    <2> HIDE DEF L, p
    <2> QED BY <1>0, <2>1
<1>3. Open(n, b) = u \o v
    BY DEF Open
<1> HIDE DEF u, v, p, L
<1>4. u \o v \in Seq(Heard) /\ Len(u \o v) = 1 + L
      /\ \A i \in 1 .. 1 + L : (u \o v)[i] = IF i <= 1 THEN u[i] ELSE v[i - 1]
    <2>1. u \in Seq(Heard) /\ v \in Seq(Heard)
        BY <1>1, <1>2
    <2>2. /\ u \o v \in Seq(Heard) /\ Len(u \o v) = Len(u) + Len(v)
          /\ \A i \in 1 .. Len(u) + Len(v) : (u \o v)[i] = IF i <= Len(u) THEN u[i] ELSE v[i - Len(u)]
        BY <2>1, ConcatProperties
    <2>3. Len(u) = 1 /\ Len(v) = L
        BY <1>1, <1>2
    <2> QED BY <2>2, <2>3
<1>5. ASSUME NEW i \in 1 .. L PROVE (u \o v)[1 + i] = v[i]
    <2>1. 1 + i \in 1 .. 1 + L /\ ~(1 + i <= 1) /\ (1 + i) - 1 = i
        BY <1>0
    <2> QED BY <2>1, <1>4
<1>6. 1 \in 1 .. 1 + L
    BY <1>0
<1> QED BY <1>0, <1>1, <1>2, <1>3, <1>4, <1>5, <1>6 DEF L, p

\* One part more.
LEMMA OpenAppend ==
    ASSUME NEW n \in Nat, NEW b \in Block, NEW x \in Parted
    PROVE  Open(n, [kind |-> b.kind, parts |-> Append(b.parts, x)])
              = Append(Open(n, b), Provider!E("delta", n, x))
<1> DEFINE c == [kind |-> b.kind, parts |-> Append(b.parts, x)]
           e == Provider!E("delta", n, x)
           u == Open(n, c)
           v == Append(Open(n, b), e)
           L == Len(b.parts)
<1>0. /\ c \in Block /\ e \in Heard /\ L \in Nat /\ c.kind = b.kind
      /\ Len(c.parts) = L + 1 /\ c.parts[L + 1] = x /\ \A i \in 1 .. L : c.parts[i] = b.parts[i]
    <2>1. c \in Block
        BY BlockFacts
    <2>2. x \in Contents
        BY DEF Contents
    <2>3. e \in Heard
        BY <2>2, EventType DEF Types
    <2>4. b.parts \in Seq(Parted)
        BY DEF Block
    <2>5. Len(Append(b.parts, x)) = L + 1 /\ Append(b.parts, x)[L + 1] = x
          /\ \A i \in 1 .. L : Append(b.parts, x)[i] = b.parts[i]
        BY <2>4, AppendProperties
    <2> QED BY <2>1, <2>3, <2>4, <2>5, LenProperties
<1> HIDE DEF c, e, L
<1>1. /\ u \in Seq(Heard) /\ Len(u) = 1 + (L + 1) /\ u[1] = Provider!E("block", n, b.kind)
      /\ \A i \in 1 .. L + 1 : u[1 + i] = Provider!E("delta", n, c.parts[i])
    BY <1>0, OpenType, ZenonT(60)
<1>2. /\ Open(n, b) \in Seq(Heard) /\ Len(Open(n, b)) = 1 + L
      /\ Open(n, b)[1] = Provider!E("block", n, b.kind)
      /\ \A i \in 1 .. L : Open(n, b)[1 + i] = Provider!E("delta", n, b.parts[i])
    BY OpenType DEF L
<1>3. /\ v \in Seq(Heard) /\ Len(v) = (1 + L) + 1 /\ v[(1 + L) + 1] = e
      /\ \A i \in 1 .. 1 + L : v[i] = Open(n, b)[i]
    BY <1>0, <1>2, AppendProperties
<1> HIDE DEF u, v
<1>4. ASSUME NEW i \in 1 .. Len(u) PROVE u[i] = v[i]
    <2>1. i \in 1 .. L + 2
        BY <1>0, <1>1
    <2>2. CASE i = 1
        <3>1. 1 \in 1 .. 1 + L
            BY <1>0
        <3> QED BY <2>2, <3>1, <1>1, <1>2, <1>3
    <2>3. CASE i \in 2 .. L + 1
        <3>1. i - 1 \in 1 .. L /\ i - 1 \in 1 .. L + 1 /\ 1 + (i - 1) = i /\ i \in 1 .. 1 + L
            BY <1>0, <2>3
        <3>2. u[i] = Provider!E("delta", n, c.parts[i - 1])
            BY <1>1, <3>1
        <3>3. v[i] = Provider!E("delta", n, b.parts[i - 1])
            BY <1>2, <1>3, <3>1
        <3> QED BY <1>0, <3>1, <3>2, <3>3
    <2>4. CASE i = L + 2
        <3>1. L + 1 \in 1 .. L + 1 /\ 1 + (L + 1) = i /\ (1 + L) + 1 = i
            BY <1>0, <2>4
        <3>2. u[i] = Provider!E("delta", n, c.parts[L + 1])
            BY <1>1, <3>1
        <3>3. v[i] = e
            BY <1>3, <3>1
        <3> QED BY <1>0, <3>2, <3>3 DEF e
    <2> QED BY <1>0, <2>1, <2>2, <2>3, <2>4
<1>5. Len(u) = Len(v)
    BY <1>0, <1>1, <1>3
<1>6. u = v
    BY <1>1, <1>3, <1>4, <1>5, SeqEqual
<1> QED BY <1>6 DEF u, v, c, e

\* All the events of a block.
LEMMA BlockEventsType ==
    ASSUME NEW n \in Nat, NEW b \in Block
    PROVE  /\ Provider!E("block_stop", n, None) \in Heard
           /\ Provider!BlockEvents(n, b) = Append(Open(n, b), Provider!E("block_stop", n, None))
           /\ Provider!BlockEvents(n, b) \in Seq(Heard)
<1>1. Open(n, b) \in Seq(Heard)
    BY OpenType
<1>2. Provider!E("block_stop", n, None) \in Heard
    <2>1. None \in Contents
        BY DEF Contents
    <2> QED BY <2>1, EventType DEF Types
<1>3. Provider!BlockEvents(n, b) = Open(n, b) \o <<Provider!E("block_stop", n, None)>>
    BY DEF Provider!BlockEvents, Open
<1> QED BY <1>1, <1>2, <1>3, Joins

\* The pieces of the blocks.
LEMMA PiecesType ==
    ASSUME NEW s \in Seq(Block)
    PROVE  /\ Len(s) \in Nat /\ Pieces(s) \in Seq(Seq(Heard)) /\ Len(Pieces(s)) = Len(s)
           /\ \A i \in 1 .. Len(s) : Pieces(s)[i] = Provider!BlockEvents(i, s[i]) /\ s[i] \in Block
<1>1. Len(s) \in Nat /\ DOMAIN s = 1 .. Len(s) /\ \A i \in 1 .. Len(s) : s[i] \in Block /\ i \in Nat
    BY LenProperties, ElementOfSeq
<1>2. \A i \in 1 .. Len(s) : Provider!BlockEvents(i, s[i]) \in Seq(Heard)
    BY <1>1, BlockEventsType
<1> DEFINE T == Seq(Heard)
           L == Len(s)
           g == [i \in 1 .. L |-> Provider!BlockEvents(i, s[i])]
<1>3. Pieces(s) = g
    BY <1>1 DEF Pieces
<1>4. \A i \in 1 .. L : g[i] \in T /\ g[i] = Provider!BlockEvents(i, s[i])
    BY <1>2
<1>5. g \in [1 .. L -> T]
    BY <1>4
<1> HIDE DEF T, g
<1>6. g \in Seq(T) /\ Len(g) = L
    BY <1>1, <1>5
<1> QED BY <1>1, <1>3, <1>4, <1>6 DEF T

\* One block more.
LEMMA BodyAppend ==
    ASSUME NEW s \in Seq(Block), NEW b \in Block
    PROVE  /\ Body(s) \in Seq(Heard)
           /\ Body(Append(s, b)) = Body(s) \o Provider!BlockEvents(Len(s) + 1, b)
<1> DEFINE t == Append(s, b)
           L == Len(s)
           x == Provider!BlockEvents(L + 1, b)
           T == Seq(Heard)
           p == Pieces(s)
           q == Pieces(t)
           r == Append(p, x)
<1>0. L \in Nat /\ L + 1 \in Nat /\ t \in Seq(Block) /\ Len(t) = L + 1 /\ t[L + 1] = b
      /\ \A i \in 1 .. L : t[i] = s[i]
    BY AppendProperties, LenProperties
<1>1. x \in T
    BY <1>0, BlockEventsType
<1>2. p \in Seq(T) /\ Len(p) = L /\ \A i \in 1 .. L : p[i] = Provider!BlockEvents(i, s[i])
    BY PiecesType
<1> HIDE DEF t
<1>3. q \in Seq(T) /\ Len(q) = L + 1 /\ \A i \in 1 .. L + 1 : q[i] = Provider!BlockEvents(i, t[i])
    BY <1>0, PiecesType
<1> HIDE DEF T, x, p, q, L
<1>4. r \in Seq(T) /\ Len(r) = L + 1 /\ r[L + 1] = x /\ \A i \in 1 .. L : r[i] = p[i]
    BY <1>1, <1>2, AppendProperties
<1> HIDE DEF r
<1>5. ASSUME NEW i \in 1 .. L + 1 PROVE q[i] = r[i]
    <2>1. CASE i = L + 1
        BY <1>0, <1>3, <1>4, <2>1 DEF x
    <2>2. CASE i \in 1 .. L
        BY <1>0, <1>2, <1>3, <1>4, <2>2
    <2> QED BY <1>0, <2>1, <2>2
<1>6. q = r
    BY <1>3, <1>4, <1>5, SeqEqual
<1>7. Provider!FlattenSeq(p) \in Seq(Heard) /\ Provider!FlattenSeq(r) = Provider!FlattenSeq(p) \o x
    BY <1>1, <1>2, FlatAppend DEF T, r
<1> QED BY <1>6, <1>7 DEF Body, p, q, t, x, L

\* No blocks.
LEMMA BodyNone == Body(<<>>) = <<>>
<1>1. Pieces(<<>>) = <<>>
    BY DEF Pieces
<1> QED BY <1>1 DEF Body, Provider!FlattenSeq

\* What a decoder holds fits together.
Coherent(d) ==
    /\ ~d.started => d = Provider!Decoder
    /\ d.active # None => d.started /\ d.stop = None
    /\ d.stop # None => d.started
    /\ d.stopped => d.stop # None

\* The fields of a decoder.
LEMMA DecoderFacts ==
    ASSUME NEW d \in Decoders
    PROVE  /\ d.active \in Block \cup {None} /\ d.blocks \in Seq(Block) /\ Len(d.blocks) \in Nat
           /\ Len(d.blocks) + 1 \in Nat /\ d.stop \in Contents
           /\ Front(d.blocks) \in Seq(Heard)
<1>1. d.active \in Block \cup {None} /\ d.blocks \in Seq(Block) /\ d.stop \in Contents
    BY DEF Decoders
<1>2. Len(d.blocks) \in Nat
    BY <1>1, LenProperties
<1>3. Body(d.blocks) \in Seq(Heard)
    <2>1. \E b : b \in Block
        BY BlockFacts DEF Kinds
    <2> QED BY <1>1, <2>1, BodyAppend
<1>4. Provider!E("start", 0, None) \in Heard
    BY EventType DEF Types, Contents
<1>5. Front(d.blocks) \in Seq(Heard)
    BY <1>3, <1>4, Joins DEF Front
<1> QED BY <1>1, <1>2, <1>5

\* An event that the decoder has taken was in order.
LEMMA DecodeIs ==
    ASSUME NEW d \in Decoders, NEW e \in Wired, Provider!Decode(d, e).verdict = "reply"
    PROVE  d.verdict = "reply" /\ e.type # "error" /\ Provider!InOrder(d, e)
<1>1. d.verdict = "reply"
    BY DEF Provider!Decode
<1>2. e.type # "error"
    BY <1>1 DEF Provider!Decode, Decoders
<1>3. Provider!InOrder(d, e)
    BY <1>1, <1>2 DEF Provider!Decode, Decoders
<1> QED BY <1>1, <1>2, <1>3

\* The decoder holds everything it has read: an event that it takes is the next
\* one of what it holds.
LEMMA RenderStep ==
    ASSUME NEW d \in Decoders, Coherent(d), NEW e \in Wired,
           Provider!Decode(d, e).verdict = "reply", e.type # "ping"
    PROVE  /\ Coherent(Provider!Decode(d, e))
           /\ Rendered(Provider!Decode(d, e)) = Append(Rendered(d), e)
<1> DEFINE f == Provider!Decode(d, e)
           F == Front(d.blocks)
           n == Len(d.blocks) + 1
<1>0. d.verdict = "reply" /\ e.type # "error" /\ Provider!InOrder(d, e)
    BY DecodeIs
<1>t. f \in Decoders
    BY DecodeType
<1>d. /\ d.active \in Block \cup {None} /\ d.blocks \in Seq(Block) /\ n \in Nat
      /\ F \in Seq(Heard) /\ d.started \in BOOLEAN
      /\ e = Provider!E(e.type, e.n, e.x) /\ e \in Heard
    BY DecoderFacts DEF Decoders, Wired, Provider!AnthropicEvent
<1>n. None \notin Block /\ <<>> \in Seq(Heard)
    BY BlockFacts
<1>j. /\ F \o <<>> = F /\ (F \o <<>>) \o <<>> = F
      /\ \A u \in Seq(Heard) : F \o u \in Seq(Heard) /\ (F \o u) \o <<>> = F \o u
    BY <1>d, Joins
<1>1. CASE e.type = "start"
    <2>1. ~d.started /\ d = Provider!Decoder
        BY <1>0, <1>1 DEF Provider!InOrder, Coherent
    <2>2. f = [d EXCEPT !.started = TRUE]
        BY <1>0, <1>1 DEF Provider!Decode
    <2>3. e = Provider!E("start", 0, None)
        BY <1>1, <1>d DEF Wired, Provider!AnthropicEvent
    <2>4. f.started /\ f.active = None /\ f.stop = None /\ ~f.stopped /\ f.blocks = <<>>
        BY <2>1, <2>2 DEF Provider!Decoder
    <2>5. Front(<<>>) = <<e>>
        <3>1. Front(<<>>) = <<e>> \o <<>>
            <4>1. Front(<<>>) = <<Provider!E("start", 0, None)>> \o Body(<<>>)
                BY DEF Front
            <4> QED BY <4>1, <2>3, BodyNone
        <3>2. <<e>> \in Seq(Heard)
            BY <1>d
        <3> QED BY <3>1, <3>2, ConcatEmptySeq
    <2>6. Rendered(d) = <<>>
        BY <2>1 DEF Rendered
    <2>7. Rendered(f) = (<<e>> \o <<>>) \o <<>>
        BY <2>4, <2>5 DEF Rendered, Ending
    <2>8. Rendered(f) = <<e>> /\ Append(<<>>, e) = <<e>>
        <3>1. <<e>> \in Seq(Heard)
            BY <1>d
        <3> QED BY <2>7, <3>1, ConcatEmptySeq
    <2>9. Coherent(f)
        BY <2>4 DEF Coherent
    <2> QED BY <2>6, <2>8, <2>9
<1>2. CASE e.type = "block"
    <2>1. d.started /\ d.stop = None /\ d.active = None /\ e.n = n
        BY <1>0, <1>2 DEF Provider!InOrder
    <2>2. f = [d EXCEPT !.active = [kind |-> e.x, parts |-> <<>>]]
        BY <1>0, <1>2 DEF Provider!Decode
    <2>3. e.x \in Kinds /\ e = Provider!E("block", n, e.x)
        BY <1>2, <1>d, <2>1 DEF Wired, Provider!AnthropicEvent, Kinds
    <2> DEFINE b == [kind |-> e.x, parts |-> <<>>]
    <2>4. b \in Block /\ b.kind = e.x /\ b # None
        BY <2>3, BlockFacts
    <2>5. Open(n, b) = <<e>>
        <3>1. Open(n, b) = <<e>> \o <<>> /\ <<e>> \in Seq(Heard)
            BY <1>d, <2>3 DEF Open
        <3> QED BY <3>1, ConcatEmptySeq
    <2>6. /\ f.started = d.started /\ f.active = b /\ f.stop = d.stop /\ f.stopped = d.stopped
          /\ f.blocks = d.blocks
        BY <2>2 DEF Decoders
    <2>7. Rendered(d) = F
        BY <2>1, <1>j DEF Rendered, Ending
    <2>8. Rendered(f) = (F \o <<e>>) \o <<>>
        BY <2>1, <2>4, <2>5, <2>6 DEF Rendered, Ending
    <2>9. Rendered(f) = Append(F, e)
        <3>1. (F \o <<e>>) \o <<>> = F \o <<e>> /\ F \o <<e>> = Append(F, e)
            BY <1>d, <1>j, Joins
        <3> QED BY <2>8, <3>1
    <2>10. Coherent(f)
        BY <2>1, <2>4, <2>6 DEF Coherent
    <2> QED BY <2>7, <2>9, <2>10
<1>3. CASE e.type = "delta"
    <2>1. d.active # None /\ e.n = n /\ Provider!DeltaFits(d.active, e.x)
        BY <1>0, <1>3 DEF Provider!InOrder
    <2> DEFINE b == [kind |-> d.active.kind, parts |-> Append(d.active.parts, e.x)]
    <2>2. f = [d EXCEPT !.active = b]
        BY <1>0, <1>3 DEF Provider!Decode
    <2>3. e.x \in Parted /\ e = Provider!E("delta", n, e.x)
        <3>1. e.x \in Parted
            BY <2>1 DEF Provider!DeltaFits, Parted
        <3> QED BY <3>1, <1>3, <1>d, <2>1
    <2>4. d.started /\ d.stop = None /\ ~d.stopped
        BY <2>1 DEF Coherent
    <2>5. d.active \in Block /\ b \in Block /\ b # None
        BY <2>1, <2>3, <1>d, <1>n, BlockFacts
    <2>6. Open(n, b) = Append(Open(n, d.active), e)
        BY <1>d, <2>3, <2>5, OpenAppend
    <2>7. Open(n, d.active) \in Seq(Heard)
        BY <1>d, <2>5, OpenType
    <2>8. /\ f.started = d.started /\ f.active = b /\ f.stop = d.stop /\ f.stopped = d.stopped
          /\ f.blocks = d.blocks
        BY <2>2 DEF Decoders
    <2> HIDE DEF b
    <2>9. Rendered(d) = F \o Open(n, d.active)
        BY <2>1, <2>4, <2>7, <1>j DEF Rendered, Ending
    <2>10. Rendered(f) = (F \o Open(n, b)) \o <<>>
        BY <2>4, <2>5, <2>8 DEF Rendered, Ending
    <2>11. (F \o Open(n, b)) \o <<>> = F \o Open(n, b)
        <3>1. Open(n, b) \in Seq(Heard)
            BY <1>d, <2>5, OpenType
        <3> QED BY <3>1, <1>j
    <2>12. F \o Append(Open(n, d.active), e) = Append(F \o Open(n, d.active), e)
        BY <1>d, <2>7, HeardJoins
    <2>13. Coherent(f)
        BY <2>4, <2>5, <2>8 DEF Coherent
    <2> QED BY <2>6, <2>9, <2>10, <2>11, <2>12, <2>13
<1>4. CASE e.type = "block_stop"
    <2>1. d.active # None /\ e.n = n
        BY <1>0, <1>4 DEF Provider!InOrder
    <2>2. f = [d EXCEPT !.blocks = Append(d.blocks, d.active), !.active = None]
        BY <1>0, <1>4 DEF Provider!Decode
    <2>3. e = Provider!E("block_stop", n, None)
        BY <1>4, <1>d, <2>1 DEF Wired, Provider!AnthropicEvent
    <2>4. d.started /\ d.stop = None /\ ~d.stopped
        BY <2>1 DEF Coherent
    <2>5. d.active \in Block
        BY <2>1, <1>d
    <2>6. /\ f.started = d.started /\ f.active = None /\ f.stop = d.stop /\ f.stopped = d.stopped
          /\ f.blocks = Append(d.blocks, d.active)
        BY <2>2 DEF Decoders
    <2> DEFINE O == Open(n, d.active)
               B == Body(d.blocks)
               x == <<Provider!E("start", 0, None)>>
    <2>7. O \in Seq(Heard)
        BY <1>d, <2>5, OpenType
    <2>8. B \in Seq(Heard) /\ Body(f.blocks) = B \o Append(O, e)
        BY <1>d, <2>3, <2>5, <2>6, BodyAppend, BlockEventsType
    <2>9. x \in Seq(Heard)
        <3>1. Provider!E("start", 0, None) \in Heard
            BY EventType DEF Types, Contents
        <3> QED BY <3>1
    <2>10. F = x \o B /\ Front(f.blocks) = x \o (B \o Append(O, e))
        BY <2>8 DEF Front
    <2>11. Rendered(d) = F \o O
        BY <2>1, <2>4, <2>7, <1>j DEF Rendered, Ending
    <2>12. Rendered(f) = (Front(f.blocks) \o <<>>) \o <<>>
        BY <2>4, <2>6 DEF Rendered, Ending
    <2> HIDE DEF O, B, x, F
    <2>13. B \o O \in Seq(Heard) /\ B \o Append(O, e) = Append(B \o O, e)
        BY <1>d, <2>7, <2>8, HeardJoins
    <2>14. x \o Append(B \o O, e) = Append(x \o (B \o O), e) /\ Append(B \o O, e) \in Seq(Heard)
        BY <1>d, <2>9, <2>13, HeardJoins
    <2>15. x \o (B \o O) = (x \o B) \o O
        <3>1. B \in Seq(Heard)
            BY <2>8
        <3> QED BY <2>7, <2>9, <3>1, HeardGroups
    <2>16. Front(f.blocks) \in Seq(Heard)
        BY <1>t, DecoderFacts
    <2>17. (Front(f.blocks) \o <<>>) \o <<>> = Front(f.blocks)
        BY <2>16, ConcatEmptySeq
    <2>18. Rendered(f) = Append(F \o O, e)
        BY <2>10, <2>12, <2>13, <2>14, <2>15, <2>17
    <2>19. Coherent(f)
        BY <2>4, <2>6 DEF Coherent
    <2> QED BY <2>11, <2>18, <2>19
<1>5. CASE e.type = "message_delta"
    <2>1. d.started /\ d.active = None /\ d.stop = None
        BY <1>0, <1>5 DEF Provider!InOrder
    <2>2. f = [d EXCEPT !.stop = e.x]
        BY <1>0, <1>5 DEF Provider!Decode
    <2>3. e.x # None /\ e = Provider!E("message_delta", 0, e.x)
        BY <1>5, <1>d DEF Wired, Provider!AnthropicEvent
    <2>4. ~d.stopped
        BY <2>1 DEF Coherent
    <2>5. /\ f.started = d.started /\ f.active = d.active /\ f.stop = e.x /\ f.stopped = d.stopped
          /\ f.blocks = d.blocks
        BY <2>2 DEF Decoders
    <2>6. Rendered(d) = F
        BY <2>1, <1>j DEF Rendered, Ending
    <2>7. Rendered(f) = (F \o <<>>) \o <<e>>
        BY <2>1, <2>3, <2>4, <2>5 DEF Rendered, Ending
    <2>8. F \o <<e>> = Append(F, e)
        BY <1>d, HeardJoins
    <2>9. Coherent(f)
        BY <2>1, <2>4, <2>5 DEF Coherent
    <2> QED BY <2>6, <2>7, <2>8, <2>9, <1>j
<1>6. CASE e.type = "message_stop"
    <2>1. d.started /\ d.active = None /\ d.stop # None /\ ~d.stopped
        BY <1>0, <1>6 DEF Provider!InOrder
    <2>2. f = [d EXCEPT !.stopped = TRUE]
        BY <1>0, <1>6 DEF Provider!Decode
    <2>3. e = Provider!E("message_stop", 0, None)
        BY <1>6, <1>d DEF Wired, Provider!AnthropicEvent
    <2>5. /\ f.started = d.started /\ f.active = d.active /\ f.stop = d.stop /\ f.stopped
          /\ f.blocks = d.blocks
        BY <2>2 DEF Decoders
    <2> DEFINE x == Provider!E("message_delta", 0, d.stop)
    <2>6. x \in Heard
        BY DecoderFacts, EventType DEF Types
    <2>7. Rendered(d) = F \o <<x>>
        BY <2>1, <1>j DEF Rendered, Ending
    <2>8. Rendered(f) = (F \o <<>>) \o <<x, e>>
        BY <2>1, <2>3, <2>5 DEF Rendered, Ending
    <2> HIDE DEF x
    <2>9. <<x, e>> = Append(<<x>>, e) /\ <<x>> \in Seq(Heard)
        BY <2>6, <1>d
    <2>10. F \o Append(<<x>>, e) = Append(F \o <<x>>, e)
        BY <1>d, <2>9, HeardJoins
    <2>11. Coherent(f)
        BY <2>1, <2>5 DEF Coherent
    <2> QED BY <2>7, <2>8, <2>9, <2>10, <2>11, <1>j
<1>7. CASE e.type \notin Types
    BY <1>0, <1>7 DEF Types, Provider!InOrder
<1> QED BY <1>1, <1>2, <1>3, <1>4, <1>5, <1>6, <1>7 DEF Types

-----------------------------------------------------------------------------
\* A message and its stream.

\* What begins a sequence begins a longer one.
LEMMA BeginsMore ==
    ASSUME NEW S, NEW s \in Seq(S), NEW t \in Seq(S), NEW u \in Seq(S)
    PROVE  /\ Begins(s, s \o t)
           /\ Begins(s, t) /\ Begins(t, u) => Begins(s, u)
           /\ Begins(s, t) => Begins(u \o s, u \o t)
           /\ Begins(s \o t, u) => /\ Len(s) + Len(t) <= Len(u)
                                   /\ \A j \in 1 .. Len(t) : u[Len(s) + j] = t[j]
<1>0. Len(s) \in Nat /\ Len(t) \in Nat /\ Len(u) \in Nat
    BY LenProperties
<1>a. /\ Len(s \o t) = Len(s) + Len(t)
      /\ \A i \in 1 .. Len(s) + Len(t) : (s \o t)[i] = IF i <= Len(s) THEN s[i] ELSE t[i - Len(s)]
    BY ConcatProperties
<1>1. Begins(s, s \o t)
    <2>1. ASSUME NEW i \in 1 .. Len(s) PROVE (s \o t)[i] = s[i]
        <3>1. i \in 1 .. Len(s) + Len(t) /\ i <= Len(s)
            BY <1>0
        <3> QED BY <3>1, <1>a
    <2>2. Len(s) <= Len(s) + Len(t)
        BY <1>0
    <2> QED BY <2>1, <2>2, <1>a DEF Begins
<1>2. ASSUME Begins(s, t), Begins(t, u) PROVE Begins(s, u)
    <2>1. Len(s) <= Len(t) /\ Len(t) <= Len(u)
        BY <1>2 DEF Begins
    <2>2. ASSUME NEW i \in 1 .. Len(s) PROVE u[i] = s[i]
        <3>1. i \in 1 .. Len(t)
            BY <1>0, <2>1
        <3> QED BY <3>1, <1>2 DEF Begins
    <2> QED BY <1>0, <2>1, <2>2 DEF Begins
<1>3. ASSUME Begins(s, t) PROVE Begins(u \o s, u \o t)
    <2>1. /\ Len(u \o s) = Len(u) + Len(s)
          /\ \A i \in 1 .. Len(u) + Len(s) : (u \o s)[i] = IF i <= Len(u) THEN u[i] ELSE s[i - Len(u)]
        BY ConcatProperties
    <2>2. /\ Len(u \o t) = Len(u) + Len(t)
          /\ \A i \in 1 .. Len(u) + Len(t) : (u \o t)[i] = IF i <= Len(u) THEN u[i] ELSE t[i - Len(u)]
        BY ConcatProperties
    <2>3. Len(s) <= Len(t) /\ \A i \in 1 .. Len(s) : t[i] = s[i]
        BY <1>3 DEF Begins
    <2>4. ASSUME NEW i \in 1 .. Len(u) + Len(s) PROVE (u \o t)[i] = (u \o s)[i]
        <3>1. i \in 1 .. Len(u) + Len(t) /\ (~(i <= Len(u)) => i - Len(u) \in 1 .. Len(s))
            BY <1>0, <2>3
        <3>2. (u \o t)[i] = IF i <= Len(u) THEN u[i] ELSE t[i - Len(u)]
            BY <2>2, <3>1
        <3>3. (u \o s)[i] = IF i <= Len(u) THEN u[i] ELSE s[i - Len(u)]
            BY <2>1
        <3>4. ~(i <= Len(u)) => t[i - Len(u)] = s[i - Len(u)]
            BY <2>3, <3>1
        <3> QED BY <3>2, <3>3, <3>4
    <2>5. Len(u) + Len(s) <= Len(u) + Len(t)
        BY <1>0, <2>3
    <2> QED BY <2>1, <2>2, <2>4, <2>5 DEF Begins
<1>4. ASSUME Begins(s \o t, u)
      PROVE  Len(s) + Len(t) <= Len(u) /\ \A j \in 1 .. Len(t) : u[Len(s) + j] = t[j]
    <2>1. Len(s) + Len(t) <= Len(u) /\ \A i \in 1 .. Len(s) + Len(t) : u[i] = (s \o t)[i]
        BY <1>4, <1>a DEF Begins
    <2>2. ASSUME NEW j \in 1 .. Len(t) PROVE u[Len(s) + j] = t[j]
        <3>1. Len(s) + j \in 1 .. Len(s) + Len(t) /\ ~(Len(s) + j <= Len(s)) /\ (Len(s) + j) - Len(s) = j
            BY <1>0
        <3>2. u[Len(s) + j] = (s \o t)[Len(s) + j]
            BY <2>1, <3>1
        <3>3. (s \o t)[Len(s) + j] = IF Len(s) + j <= Len(s) THEN s[Len(s) + j]
                ELSE t[(Len(s) + j) - Len(s)]
            BY <1>a, <3>1
        <3> QED BY <3>1, <3>2, <3>3
    <2> QED BY <2>1, <2>2
<1> QED BY <1>1, <1>2, <1>3, <1>4

\* A block of such a message is complete.
LEMMA WholeFacts ==
    ASSUME NEW m \in Meant
    PROVE  /\ m = [blocks |-> m.blocks, stop |-> m.stop]
           /\ m.blocks \in Seq(Block) /\ Len(m.blocks) \in Nat
           /\ m.stop \in Contents /\ m.stop # None
           /\ \A i \in 1 .. Len(m.blocks) :
                 /\ m.blocks[i] = [kind |-> m.blocks[i].kind, parts |-> m.blocks[i].parts]
                 /\ m.blocks[i].kind = "text" => m.blocks[i].parts \in Seq({"text"})
                 /\ m.blocks[i].kind = "thinking" => m.blocks[i].parts = <<"signature">>
                 /\ m.blocks[i].kind = "tool" => m.blocks[i].parts \in {<<>>, <<"json1", "json2">>}
<1>1. PICK s \in Scripts : m = s.meant /\ s.meant # None
    BY DEF Meant
<1>2. Provider!Whole(m)
    BY <1>1, ScriptsAssumption
<1>3. m.stop \in Contents
    BY DEF Contents
<1>4. m.stop # None
    BY <1>2, ScriptsAssumption DEF Provider!Whole
<1>5. m = [blocks |-> m.blocks, stop |-> m.stop] /\ m.blocks \in Seq({m.blocks[i] : i \in DOMAIN m.blocks})
    BY <1>2 DEF Provider!Whole
<1>6. ASSUME NEW i \in DOMAIN m.blocks
      PROVE  /\ m.blocks[i] = [kind |-> m.blocks[i].kind, parts |-> m.blocks[i].parts]
             /\ m.blocks[i].kind \in Kinds
             /\ m.blocks[i].kind = "text" => m.blocks[i].parts \in Seq({"text"})
             /\ m.blocks[i].kind = "thinking" => m.blocks[i].parts = <<"signature">>
             /\ m.blocks[i].kind = "tool" => m.blocks[i].parts \in {<<>>, <<"json1", "json2">>}
    BY <1>2 DEF Provider!Whole, Kinds
<1>7. ASSUME NEW i \in DOMAIN m.blocks PROVE m.blocks[i] \in Block
    <2>1. m.blocks[i].parts \in Seq(Parted)
        <3>1. CASE m.blocks[i].kind = "text"
            <4>1. m.blocks[i].parts \in Seq({"text"}) /\ {"text"} \subseteq Parted
                BY <1>6, <3>1 DEF Parted
            <4> QED BY <4>1, SeqMonotonic
        <3>2. CASE m.blocks[i].kind = "thinking"
            <4>1. m.blocks[i].parts = <<"signature">> /\ "signature" \in Parted
                BY <1>6, <3>2 DEF Parted
            <4> QED BY <4>1
        <3>3. CASE m.blocks[i].kind = "tool"
            <4>1. "json1" \in Parted /\ "json2" \in Parted
                BY DEF Parted
            <4>2. <<>> \in Seq(Parted) /\ <<"json1", "json2">> \in Seq(Parted)
                BY <4>1
            <4>3. m.blocks[i].parts = <<>> \/ m.blocks[i].parts = <<"json1", "json2">>
                BY <1>6, <3>3
            <4> QED BY <4>2, <4>3, Zenon
        <3> QED BY <1>6, <3>1, <3>2, <3>3 DEF Kinds
    <2>2. m.blocks[i] = [kind |-> m.blocks[i].kind, parts |-> m.blocks[i].parts]
            /\ m.blocks[i].kind \in Kinds
        BY <1>6
    <2> QED BY <2>1, <2>2, Zenon DEF Block
<1> DEFINE w == m.blocks
           S == {w[i] : i \in DOMAIN w}
<1>8. w \in Seq(S) /\ S \subseteq Block
    BY <1>5, <1>7
<1> HIDE DEF S
<1>9. w \in Seq(Block) /\ Len(w) \in Nat /\ DOMAIN w = 1 .. Len(w)
    <2> HIDE DEF w
    <2> QED BY <1>8, SeqMonotonic, LenProperties
<1> QED BY <1>3, <1>4, <1>5, <1>6, <1>9

\* The front of a message begins its stream.
LEMMA FrontBegins ==
    ASSUME NEW m \in Meant, NEW s \in Seq(Block), Begins(s, m.blocks)
    PROVE  /\ Front(s) \in Seq(Heard) /\ Provider!AnthropicStream(m) \in Seq(Heard)
           /\ Begins(Front(s), Provider!AnthropicStream(m))
           /\ Provider!AnthropicStream(m) = Front(m.blocks) \o
                 <<Provider!E("message_delta", 0, m.stop), Provider!E("message_stop", 0, None)>>
<1> DEFINE w == m.blocks
           start == <<Provider!E("start", 0, None)>>
           last == <<Provider!E("message_delta", 0, m.stop), Provider!E("message_stop", 0, None)>>
           p == Pieces(s)
           q == Pieces(w)
<1>0. /\ w \in Seq(Block) /\ Len(w) \in Nat /\ Len(s) \in Nat /\ Len(s) <= Len(w)
      /\ \A i \in 1 .. Len(s) : w[i] = s[i]
    BY WholeFacts, LenProperties DEF Begins
<1>1. start \in Seq(Heard) /\ last \in Seq(Heard)
    <2>1. None \in Contents /\ m.stop \in Contents
        BY WholeFacts DEF Contents
    <2>2. /\ Provider!E("start", 0, None) \in Heard /\ Provider!E("message_delta", 0, m.stop) \in Heard
          /\ Provider!E("message_stop", 0, None) \in Heard
        BY <2>1, EventType DEF Types
    <2> QED BY <2>2
<1>2. /\ p \in Seq(Seq(Heard)) /\ Len(p) = Len(s)
      /\ \A i \in 1 .. Len(s) : p[i] = Provider!BlockEvents(i, s[i])
    BY PiecesType
<1>3. /\ q \in Seq(Seq(Heard)) /\ Len(q) = Len(w)
      /\ \A i \in 1 .. Len(w) : q[i] = Provider!BlockEvents(i, w[i])
    BY <1>0, PiecesType
<1>x. Provider!AnthropicStream(m) = Front(w) \o last
    BY DEF Provider!AnthropicStream, Front, Body, Pieces
<1> HIDE DEF w, p, q, start, last
<1>4. Begins(p, q)
    <2>1. ASSUME NEW i \in 1 .. Len(p) PROVE q[i] = p[i]
        <3>1. i \in 1 .. Len(s) /\ i \in 1 .. Len(w)
            BY <1>0, <1>2
        <3> QED BY <3>1, <1>0, <1>2, <1>3
    <2> QED BY <2>1, <1>0, <1>2, <1>3 DEF Begins
<1>5. Begins(Body(s), Body(w))
    BY <1>2, <1>3, <1>4, FlatBegins DEF Body, p, q
<1>6. Body(s) \in Seq(Heard) /\ Body(w) \in Seq(Heard)
    <2>1. \E b : b \in Block
        BY BlockFacts DEF Kinds
    <2> QED BY <1>0, <2>1, BodyAppend
<1>7. Front(s) = start \o Body(s) /\ Front(w) = start \o Body(w)
    BY DEF Front, start
<1> DEFINE A == Body(s)
           B == Body(w)
<1> HIDE DEF A, B
<1>8. A \in Seq(Heard) /\ B \in Seq(Heard) /\ Begins(A, B) /\ Front(s) = start \o A /\ Front(w) = start \o B
    BY <1>5, <1>6, <1>7 DEF A, B
<1>9. start \o A \in Seq(Heard) /\ start \o B \in Seq(Heard)
    BY <1>1, <1>8, ConcatProperties
<1>10. Begins(start \o A, start \o B)
    BY <1>1, <1>8, BeginsMore
<1> DEFINE U == start \o A
           V == start \o B
<1> HIDE DEF U, V
<1>11. U \in Seq(Heard) /\ V \in Seq(Heard) /\ Begins(U, V) /\ Front(s) = U /\ Front(w) = V
    BY <1>8, <1>9, <1>10 DEF U, V
<1>12. V \o last \in Seq(Heard)
    BY <1>1, <1>11, ConcatProperties
<1>13. Begins(V, V \o last)
    BY <1>1, <1>11, BeginsMore
<1>14. Begins(U, V \o last)
    BY <1>11, <1>12, <1>13, BeginsMore
<1> QED BY <1>11, <1>12, <1>14, <1>x DEF w, last

\* After the front come the events of the next block, or the end.
LEMMA StreamPlaces ==
    ASSUME NEW m \in Meant, NEW s \in Seq(Block), Begins(s, m.blocks)
    PROVE  LET w == Provider!AnthropicStream(m)
               F == Len(Front(s))
               n == Len(s) + 1 IN
           /\ Len(s) < Len(m.blocks) =>
                 LET x == Provider!BlockEvents(n, m.blocks[n]) IN
                 /\ m.blocks[n] \in Block /\ F + Len(x) <= Len(w)
                 /\ \A j \in 1 .. Len(x) : w[F + j] = x[j]
           /\ ~(Len(s) < Len(m.blocks)) =>
                 /\ s = m.blocks /\ Len(w) = F + 2
                 /\ w[F + 1] = Provider!E("message_delta", 0, m.stop)
                 /\ w[F + 2] = Provider!E("message_stop", 0, None)
<1> DEFINE w == Provider!AnthropicStream(m)
           W == m.blocks
           L == Len(s)
           n == L + 1
<1>0. /\ W \in Seq(Block) /\ Len(W) \in Nat /\ L \in Nat /\ L <= Len(W)
      /\ \A i \in 1 .. L : W[i] = s[i]
    BY WholeFacts, LenProperties DEF Begins
<1>1. /\ Front(s) \in Seq(Heard) /\ w \in Seq(Heard)
      /\ w = Front(W) \o <<Provider!E("message_delta", 0, m.stop), Provider!E("message_stop", 0, None)>>
    BY FrontBegins
<1> DEFINE b == W[n]
           x == Provider!BlockEvents(n, b)
           t == Append(s, b)
<1>2. ASSUME L < Len(W)
      PROVE  b \in Block /\ Len(Front(s)) + Len(x) <= Len(w)
               /\ \A j \in 1 .. Len(x) : w[Len(Front(s)) + j] = x[j]
    <2>1. n \in 1 .. Len(W) /\ n \in Nat
        BY <1>0, <1>2
    <2>2. b \in Block
        <3> HIDE DEF W
        <3> QED BY <1>0, <2>1, ElementOfSeq
    <2>3. x \in Seq(Heard)
        BY <2>1, <2>2, BlockEventsType
    <2> HIDE DEF b
    <2>4. t \in Seq(Block) /\ Len(t) = n /\ t[n] = b /\ \A i \in 1 .. L : t[i] = s[i]
        BY <2>2, AppendProperties
    <2>5. Begins(t, W)
        <3>1. ASSUME NEW i \in 1 .. n PROVE W[i] = t[i]
            <4>1. CASE i = n
                BY <4>1, <2>4 DEF b
            <4>2. CASE i \in 1 .. L
                BY <4>2, <2>4, <1>0
            <4> QED BY <1>0, <4>1, <4>2
        <3> QED BY <3>1, <2>1, <2>4 DEF Begins
    <2>6. Begins(Front(t), w)
        BY <2>4, <2>5, FrontBegins
    <2>7. Front(t) = Front(s) \o x
        <3>1. Body(t) = Body(s) \o x /\ Body(s) \in Seq(Heard)
            BY <2>2, BodyAppend
        <3>2. Provider!E("start", 0, None) \in Heard
            BY EventType DEF Types, Contents
        <3> DEFINE y == <<Provider!E("start", 0, None)>>
                   B == Body(s)
        <3>3. y \in Seq(Heard)
            BY <3>2
        <3>4. Front(t) = y \o (B \o x) /\ Front(s) = y \o B /\ B \in Seq(Heard)
            BY <3>1 DEF Front
        <3> HIDE DEF y, B, x, t
        <3>5. (y \o B) \o x = y \o (B \o x)
            <4>1. B \in Seq(Heard)
                BY <3>4
            <4> QED BY <4>1, <2>3, <3>3, HeardGroups
        <3> QED BY <3>4, <3>5
    <2>8. Begins(Front(s) \o x, w)
        BY <2>6, <2>7
    <2> DEFINE F == Front(s)
    <2> HIDE DEF w, x, F
    <2>9. Len(F) + Len(x) <= Len(w) /\ \A j \in 1 .. Len(x) : w[Len(F) + j] = x[j]
        <3>1. F \in Seq(Heard)
            BY <1>1 DEF F
        <3>2. w \in Seq(Heard)
            BY <1>1
        <3>3. Begins(F \o x, w)
            BY <2>8 DEF F
        <3>4. Begins(F \o x, w) => Len(F) + Len(x) <= Len(w) /\ \A j \in 1 .. Len(x) : w[Len(F) + j] = x[j]
            BY <2>3, <3>1, <3>2, BeginsMore
        <3> QED BY <3>3, <3>4
    <2> QED BY <2>2, <2>9 DEF F
<1>3. ASSUME ~(L < Len(W))
      PROVE  /\ s = W /\ Len(w) = Len(Front(s)) + 2
             /\ w[Len(Front(s)) + 1] = Provider!E("message_delta", 0, m.stop)
             /\ w[Len(Front(s)) + 2] = Provider!E("message_stop", 0, None)
    <2>1. L = Len(W)
        BY <1>0, <1>3
    <2>2. s = W
        <3> HIDE DEF W
        <3> QED BY <1>0, <2>1, SeqEqual
    <2> DEFINE y == Provider!E("message_delta", 0, m.stop)
               z == Provider!E("message_stop", 0, None)
               F == Front(s)
    <2>3. <<y, z>> \in Seq(Heard)
        <3>1. None \in Contents /\ m.stop \in Contents
            BY WholeFacts DEF Contents
        <3>2. y \in Heard /\ z \in Heard
            BY <3>1, EventType DEF Types
        <3> HIDE DEF y, z
        <3> QED BY <3>2
    <2>4. w = F \o <<y, z>> /\ F \in Seq(Heard)
        BY <1>1, <2>2
    <2> HIDE DEF y, z, F, w
    <2>5. Len(<<y, z>>) = 2 /\ <<y, z>>[1] = y /\ <<y, z>>[2] = z /\ Len(F) \in Nat
        BY <2>4, LenProperties
    <2> DEFINE v == <<y, z>>
    <2> HIDE DEF v
    <2>6. Len(v) = 2 /\ v[1] = y /\ v[2] = z /\ v \in Seq(Heard) /\ w = F \o v
        BY <2>3, <2>4, <2>5 DEF v
    <2>7. /\ Len(F \o v) = Len(F) + Len(v)
          /\ \A i \in 1 .. Len(F) + Len(v) : (F \o v)[i] = IF i <= Len(F) THEN F[i] ELSE v[i - Len(F)]
        BY <2>4, <2>6, ConcatProperties
    <2>8. /\ Len(F) + 1 \in 1 .. Len(F) + 2 /\ ~(Len(F) + 1 <= Len(F)) /\ (Len(F) + 1) - Len(F) = 1
          /\ Len(F) + 2 \in 1 .. Len(F) + 2 /\ ~(Len(F) + 2 <= Len(F)) /\ (Len(F) + 2) - Len(F) = 2
        BY <2>5
    <2>9. w[Len(F) + 1] = v[1] /\ w[Len(F) + 2] = v[2] /\ Len(w) = Len(F) + 2
        BY <2>6, <2>7, <2>8
    <2> QED BY <2>2, <2>6, <2>9 DEF F, y, z
<1> QED BY <1>2, <1>3

\* A decoder holds the beginning of a message.
Follows(d, m) ==
    /\ d.verdict = "reply" /\ Begins(d.blocks, m.blocks)
    /\ d.active # None =>
          /\ Len(d.blocks) < Len(m.blocks)
          /\ d.active.kind = m.blocks[Len(d.blocks) + 1].kind
          /\ Begins(d.active.parts, m.blocks[Len(d.blocks) + 1].parts)
    /\ d.stop # None => d.stop = m.stop /\ d.blocks = m.blocks

\* The first event.
LEMMA FirstEvent ==
    ASSUME NEW m \in Meant
    PROVE  Provider!AnthropicStream(m)[1] = Provider!E("start", 0, None)
<1> DEFINE w == Provider!AnthropicStream(m)
           e == Provider!E("start", 0, None)
<1>1. <<>> \in Seq(Block) /\ Begins(<<>>, m.blocks)
    <2>1. Len(m.blocks) \in Nat
        BY WholeFacts
    <2> QED BY <2>1 DEF Begins
<1>2. Begins(Front(<<>>), w)
    BY <1>1, FrontBegins
<1>3. Front(<<>>) = <<e>>
    <2>1. e \in Heard
        BY EventType DEF Types, Contents
    <2>2. Front(<<>>) = <<e>> \o <<>>
        BY BodyNone DEF Front
    <2>3. <<e>> \in Seq(Heard)
        BY <2>1
    <2> QED BY <2>2, <2>3, ConcatEmptySeq
<1> HIDE DEF w, e
<1>4. Begins(<<e>>, w) /\ Len(<<e>>) = 1 /\ <<e>>[1] = e
    BY <1>2, <1>3
<1>5. w[1] = e
    BY <1>4 DEF Begins
<1> QED BY <1>5 DEF w, e

\* How much a decoder has read.
LEMMA RenderedPlaces ==
    ASSUME NEW d \in Decoders, d.started
    PROVE  LET F == Len(Front(d.blocks)) IN
           /\ F \in Nat
           /\ d.active = None /\ d.stop = None => Len(Rendered(d)) = F
           /\ d.active # None /\ d.stop = None =>
                 Len(d.active.parts) \in Nat /\ Len(Rendered(d)) = F + 1 + Len(d.active.parts)
           /\ d.active = None /\ d.stop # None =>
                 Len(Rendered(d)) = IF d.stopped THEN F + 2 ELSE F + 1
<1> DEFINE F == Front(d.blocks)
           n == Len(d.blocks) + 1
           y == Provider!E("message_delta", 0, d.stop)
           z == Provider!E("message_stop", 0, None)
<1>0. /\ F \in Seq(Heard) /\ n \in Nat /\ Len(F) \in Nat /\ d.active \in Block \cup {None}
      /\ y \in Heard /\ z \in Heard
    <2>1. F \in Seq(Heard) /\ n \in Nat /\ d.active \in Block \cup {None} /\ d.stop \in Contents
        BY DecoderFacts
    <2>2. None \in Contents
        BY DEF Contents
    <2>3. y \in Heard /\ z \in Heard
        BY <2>1, <2>2, EventType DEF Types
    <2> QED BY <2>1, <2>3, LenProperties
<1>1. F \o <<>> = F
    BY <1>0, ConcatEmptySeq
<1>2. ASSUME d.active = None, d.stop = None PROVE Len(Rendered(d)) = Len(F)
    <2>1. Rendered(d) = (F \o <<>>) \o <<>>
        BY <1>2 DEF Rendered, Ending
    <2> QED BY <2>1, <1>1
<1>3. ASSUME d.active # None, d.stop = None
      PROVE  Len(d.active.parts) \in Nat /\ Len(Rendered(d)) = Len(F) + 1 + Len(d.active.parts)
    <2> DEFINE O == Open(n, d.active)
    <2>1. d.active \in Block
        BY <1>0, <1>3
    <2>2. O \in Seq(Heard) /\ Len(O) = 1 + Len(d.active.parts) /\ Len(d.active.parts) \in Nat
        BY <1>0, <2>1, OpenType
    <2>3. Rendered(d) = (F \o O) \o <<>>
        BY <1>3 DEF Rendered, Ending
    <2> HIDE DEF O, F
    <2>4. F \o O \in Seq(Heard) /\ Len(F \o O) = Len(F) + Len(O)
        BY <1>0, <2>2, ConcatProperties
    <2>5. Rendered(d) = F \o O
        BY <2>3, <2>4, ConcatEmptySeq
    <2>6. Len(O) = 1 + Len(d.active.parts) /\ Len(d.active.parts) \in Nat
        BY <2>2
    <2>7. Len(Rendered(d)) = Len(F) + Len(O) /\ Len(F) \in Nat
        BY <1>0, <2>4, <2>5
    <2> DEFINE K == Len(d.active.parts)
               R == Len(Rendered(d))
               A == Len(F)
               B == Len(O)
    <2>8. B = 1 + K /\ K \in Nat /\ R = A + B /\ A \in Nat
        BY <2>6, <2>7
    <2> HIDE DEF K, R, A, B
    <2>9. K \in Nat /\ R = A + 1 + K
        BY <2>8
    <2> QED BY <2>9 DEF K, R, A
<1>4. ASSUME d.active = None, d.stop # None
      PROVE  Len(Rendered(d)) = IF d.stopped THEN Len(F) + 2 ELSE Len(F) + 1
    <2> DEFINE t == IF d.stopped THEN <<y, z>> ELSE <<y>>
    <2>1. Rendered(d) = (F \o <<>>) \o t
        BY <1>4 DEF Rendered, Ending
    <2> HIDE DEF F, y, z
    <2>2. t \in Seq(Heard) /\ Len(t) = IF d.stopped THEN 2 ELSE 1
        BY <1>0
    <2> HIDE DEF t
    <2>3. Len(F \o t) = Len(F) + Len(t)
        <3>1. F \in Seq(Heard)
            BY <1>0
        <3>2. t \in Seq(Heard)
            BY <2>2
        <3> HIDE DEF t
        <3> QED BY <3>1, <3>2, ConcatProperties
    <2> QED BY <1>0, <1>1, <2>1, <2>2, <2>3
<1> QED BY <1>0, <1>2, <1>3, <1>4

\* A decoder that holds the beginning of a message goes on to hold it: the next
\* event is in order, and with the last one the decoder has stopped.
LEMMA FollowStep ==
    ASSUME NEW m \in Meant, NEW d \in Decoders, Coherent(d), Follows(d, m), NEW e,
           Len(Rendered(d)) + 1 <= Len(Provider!AnthropicStream(m)),
           e = Provider!AnthropicStream(m)[Len(Rendered(d)) + 1]
    PROVE  /\ Follows(Provider!Decode(d, e), m)
           /\ e.type \in Provider!AnthropicTerminals => Provider!Decode(d, e).stopped
<1> DEFINE f == Provider!Decode(d, e)
           w == Provider!AnthropicStream(m)
           W == m.blocks
           L == Len(d.blocks)
           n == L + 1
           F == Len(Front(d.blocks))
<1>w. /\ W \in Seq(Block) /\ Len(W) \in Nat /\ m.stop \in Contents /\ m.stop # None
    BY WholeFacts
<1>d. /\ d.active \in Block \cup {None} /\ d.blocks \in Seq(Block) /\ L \in Nat /\ n \in Nat
      /\ d.stop \in Contents /\ d.started \in BOOLEAN /\ d.stopped \in BOOLEAN
    BY DecoderFacts DEF Decoders
<1>v. d.verdict = "reply" /\ Begins(d.blocks, W)
    BY DEF Follows
<1>p. /\ L < Len(W) =>
            LET x == Provider!BlockEvents(n, W[n]) IN
            W[n] \in Block /\ F + Len(x) <= Len(w) /\ \A j \in 1 .. Len(x) : w[F + j] = x[j]
      /\ ~(L < Len(W)) =>
            /\ d.blocks = W /\ Len(w) = F + 2
            /\ w[F + 1] = Provider!E("message_delta", 0, m.stop)
            /\ w[F + 2] = Provider!E("message_stop", 0, None)
    BY <1>d, <1>v, StreamPlaces
<1>n. None \notin Block
    BY BlockFacts
<1>1. CASE ~d.started
    <2>1. d = Provider!Decoder
        BY <1>1 DEF Coherent
    <2>2. Rendered(d) = <<>>
        BY <1>1 DEF Rendered
    <2>3. e = Provider!E("start", 0, None)
        BY <2>2, FirstEvent
    <2>4. e.type = "start"
        BY <2>3 DEF Provider!E
    <2>5. f = [d EXCEPT !.started = TRUE]
        BY <1>1, <1>v, <2>4 DEF Provider!Decode, Provider!InOrder
    <2>6. f.verdict = "reply" /\ f.active = None /\ f.stop = None /\ f.blocks = d.blocks
        BY <2>1, <2>5 DEF Provider!Decoder
    <2> QED BY <1>v, <2>4, <2>6 DEF Follows, Provider!AnthropicTerminals
<1>2. CASE d.started
    <2>r. /\ F \in Nat
          /\ d.active = None /\ d.stop = None => Len(Rendered(d)) = F
          /\ d.active # None /\ d.stop = None =>
                Len(d.active.parts) \in Nat /\ Len(Rendered(d)) = F + 1 + Len(d.active.parts)
          /\ d.active = None /\ d.stop # None =>
                Len(Rendered(d)) = IF d.stopped THEN F + 2 ELSE F + 1
        BY <1>2, RenderedPlaces
    <2>1. CASE d.stop # None
        <3>1. d.active = None /\ d.blocks = W /\ d.stop = m.stop
            BY <2>1 DEF Coherent, Follows
        <3>2. ~(L < Len(W)) /\ Len(w) = F + 2 /\ w[F + 2] = Provider!E("message_stop", 0, None)
            <4>1. L = Len(W)
                BY <3>1
            <4>2. ~(L < Len(W))
                BY <4>1, <1>w
            <4> QED BY <4>2, <1>p
        <3>3. ~d.stopped /\ Len(Rendered(d)) + 1 = F + 2
            <4>1. Len(Rendered(d)) = IF d.stopped THEN F + 2 ELSE F + 1
                BY <2>1, <2>r, <3>1
            <4>2. Len(Rendered(d)) + 1 <= F + 2
                BY <3>2
            <4> QED BY <4>1, <4>2, <2>r
        <3>4. e = Provider!E("message_stop", 0, None)
            BY <3>2, <3>3
        <3>5. e.type = "message_stop"
            BY <3>4 DEF Provider!E
        <3>6. f = [d EXCEPT !.stopped = TRUE]
            BY <1>2, <1>v, <2>1, <3>1, <3>3, <3>5 DEF Provider!Decode, Provider!InOrder
        <3>7. f.verdict = "reply" /\ f.active = None /\ f.stop = d.stop /\ f.blocks = d.blocks /\ f.stopped
            BY <1>v, <3>1, <3>6 DEF Decoders
        <3> QED BY <1>v, <3>1, <3>7 DEF Follows
    <2>2. CASE d.stop = None /\ d.active = None /\ L < Len(W)
        <3> DEFINE b == W[n]
                   x == Provider!BlockEvents(n, b)
        <3>1. b \in Block /\ \A j \in 1 .. Len(x) : w[F + j] = x[j]
            BY <1>p, <2>2
        <3>2. Open(n, b) \in Seq(Heard) /\ Len(Open(n, b)) \in Nat \ {0}
              /\ Open(n, b)[1] = Provider!E("block", n, b.kind)
            <4>1. Open(n, b) \in Seq(Heard) /\ Len(b.parts) \in Nat /\ Len(Open(n, b)) = 1 + Len(b.parts)
                  /\ Open(n, b)[1] = Provider!E("block", n, b.kind)
                BY <1>d, <3>1, OpenType
            <4> QED BY <4>1
        <3>3. x = Append(Open(n, b), Provider!E("block_stop", n, None))
                /\ Provider!E("block_stop", n, None) \in Heard
            BY <1>d, <3>1, BlockEventsType
        <3>4. 1 \in 1 .. Len(x) /\ x[1] = Provider!E("block", n, b.kind)
            <4> DEFINE o == Open(n, b)
                       z == Provider!E("block_stop", n, None)
                       k == Provider!E("block", n, b.kind)
            <4>1. o \in Seq(Heard) /\ z \in Heard /\ x = Append(o, z) /\ o[1] = k /\ Len(o) \in Nat \ {0}
                BY <3>2, <3>3
            <4> HIDE DEF o, z, k, x
            <4>2. Len(Append(o, z)) = Len(o) + 1 /\ \A i \in 1 .. Len(o) : Append(o, z)[i] = o[i]
                BY <4>1, AppendProperties
            <4>3. 1 \in 1 .. Len(o) /\ 1 \in 1 .. Len(o) + 1
                BY <4>1
            <4>4. x[1] = k /\ 1 \in 1 .. Len(x)
                BY <4>1, <4>2, <4>3
            <4> QED BY <4>4 DEF k
        <3>5. e = Provider!E("block", n, b.kind)
            <4>1. w[F + 1] = x[1]
                BY <3>1, <3>4
            <4>2. e = w[F + 1]
                BY <2>2, <2>r
            <4> QED BY <3>4, <4>1, <4>2
        <3>6. e.type = "block" /\ e.n = n /\ e.x = b.kind
            BY <3>5 DEF Provider!E
        <3> DEFINE a == [kind |-> b.kind, parts |-> <<>>]
        <3>7. f = [d EXCEPT !.active = a]
            BY <1>2, <1>v, <2>2, <3>6 DEF Provider!Decode, Provider!InOrder
        <3>8. f.verdict = "reply" /\ f.active = a /\ f.stop = None /\ f.blocks = d.blocks
            BY <1>v, <2>2, <3>7 DEF Decoders
        <3>9. Begins(a.parts, b.parts) /\ a.kind = b.kind
            <4>1. Len(b.parts) \in Nat
                BY <1>d, <3>1, OpenType
            <4> QED BY <4>1 DEF Begins
        <3> HIDE DEF a, f
        <3>10. Follows(f, m)
            BY <1>v, <2>2, <3>8, <3>9 DEF Follows
        <3> QED BY <3>6, <3>10 DEF f, Provider!AnthropicTerminals
    <2>3. CASE d.stop = None /\ d.active = None /\ ~(L < Len(W))
        <3>1. e = Provider!E("message_delta", 0, m.stop) /\ d.blocks = W
            BY <1>p, <2>3, <2>r
        <3>2. e.type = "message_delta" /\ e.x = m.stop
            BY <3>1 DEF Provider!E
        <3>3. f = [d EXCEPT !.stop = m.stop]
            BY <1>2, <1>v, <2>3, <3>2 DEF Provider!Decode, Provider!InOrder
        <3>4. f.verdict = "reply" /\ f.active = None /\ f.stop = m.stop /\ f.blocks = d.blocks
            BY <1>v, <2>3, <3>3 DEF Decoders
        <3> QED BY <1>v, <3>1, <3>2, <3>4 DEF Follows, Provider!AnthropicTerminals
    <2>4. CASE d.stop = None /\ d.active # None
        <3> DEFINE b == W[n]
                   x == Provider!BlockEvents(n, b)
                   A == d.active
                   k == Len(A.parts)
                   N == Len(b.parts)
                   o == Open(n, b)
                   z == Provider!E("block_stop", n, None)
        <3>a. L < Len(W) /\ A.kind = b.kind /\ Begins(A.parts, b.parts) /\ A \in Block /\ n \in 1 .. Len(W)
            <4>1. L < Len(W) /\ A.kind = b.kind /\ Begins(A.parts, b.parts)
                BY <2>4 DEF Follows
            <4> QED BY <4>1, <2>4, <1>d, <1>w
        <3>1. b \in Block /\ \A j \in 1 .. Len(x) : w[F + j] = x[j]
            BY <1>p, <3>a
        <3>b. /\ b = [kind |-> b.kind, parts |-> b.parts]
              /\ b.kind = "text" => b.parts \in Seq({"text"})
              /\ b.kind = "thinking" => b.parts = <<"signature">>
              /\ b.kind = "tool" => b.parts \in {<<>>, <<"json1", "json2">>}
              /\ b.kind \in Kinds
            BY <3>a, <3>1, WholeFacts DEF Block
        <3>2. o \in Seq(Heard) /\ N \in Nat /\ Len(o) = 1 + N
              /\ \A i \in 1 .. N : o[1 + i] = Provider!E("delta", n, b.parts[i])
            BY <1>d, <3>1, OpenType
        <3>3. x = Append(o, z) /\ z \in Heard
            BY <1>d, <3>1, BlockEventsType
        <3>k. k \in Nat /\ k <= N /\ Len(Rendered(d)) + 1 = F + (k + 2)
                /\ \A i \in 1 .. k : b.parts[i] = A.parts[i]
            <4>1. k \in Nat /\ Len(Rendered(d)) = F + 1 + k
                BY <2>4, <2>r
            <4>2. k <= N /\ \A i \in 1 .. k : b.parts[i] = A.parts[i]
                BY <3>a DEF Begins
            <4>3. F \in Nat
                BY <2>r
            <4> DEFINE R == Len(Rendered(d))
            <4> HIDE DEF F, k, N, R
            <4>4. R = F + 1 + k /\ k \in Nat
                BY <4>1 DEF R
            <4>5. R + 1 = F + (k + 2)
                BY <4>3, <4>4
            <4> QED BY <4>1, <4>2, <4>5 DEF R
        <3>4. /\ Len(x) = N + 2 /\ x[N + 2] = z
              /\ \A i \in 1 .. N : x[1 + i] = Provider!E("delta", n, b.parts[i])
            <4> DEFINE D(i) == Provider!E("delta", n, b.parts[i])
            <4> HIDE DEF o, z, x, N, D
            <4>1. Len(Append(o, z)) = Len(o) + 1 /\ Append(o, z)[Len(o) + 1] = z
                  /\ \A i \in 1 .. Len(o) : Append(o, z)[i] = o[i]
                BY <3>2, <3>3, AppendProperties
            <4>2. Len(o) + 1 = N + 2 /\ \A i \in 1 .. N : 1 + i \in 1 .. Len(o)
                BY <3>2
            <4>3. \A i \in 1 .. N : o[1 + i] = D(i)
                BY <3>2 DEF D
            <4>4. Len(x) = N + 2 /\ x[N + 2] = z /\ \A i \in 1 .. N : x[1 + i] = D(i)
                BY <3>3, <4>1, <4>2, <4>3
            <4> QED BY <4>4 DEF D
        <3>5. e = x[k + 2]
            <4>1. k + 2 \in 1 .. Len(x)
                <5>1. k \in Nat /\ k <= N /\ N \in Nat /\ Len(x) = N + 2
                    BY <3>k, <3>4, <3>2
                <5> HIDE DEF k, N, x
                <5> QED BY <5>1, SMTT(30)
            <4>2. w[F + (k + 2)] = x[k + 2]
                BY <3>1, <4>1
            <4>3. e = w[F + (k + 2)]
                BY <3>k
            <4> QED BY <4>2, <4>3
        <3>6. CASE k < N
            <4> DEFINE q == b.parts[k + 1]
                       a == [kind |-> A.kind, parts |-> Append(A.parts, q)]
            <4>1. k + 1 \in 1 .. N /\ 1 + (k + 1) = k + 2
                <5>1. k \in Nat /\ N \in Nat /\ k < N
                    BY <3>k, <3>2, <3>6
                <5> HIDE DEF k, N
                <5> QED BY <5>1
            <4>2. e = Provider!E("delta", n, q)
                BY <4>1, <3>4, <3>5
            <4>3. e.type = "delta" /\ e.n = n /\ e.x = q
                BY <4>2 DEF Provider!E
            <4>4. Provider!DeltaFits(A, q)
                <5>1. CASE b.kind = "text"
                    <6>1. b.parts \in Seq({"text"})
                        BY <5>1, <3>b
                    <6>2. q \in {"text"}
                        BY <6>1, <4>1, ElementOfSeq
                    <6> QED BY <6>2, <5>1, <3>a DEF Provider!DeltaFits
                <5>2. CASE b.kind = "thinking"
                    <6>1. b.parts = <<"signature">>
                        BY <5>2, <3>b
                    <6>2. N = 1
                        BY <6>1
                    <6>3. k = 0
                        BY <6>2, <3>6, <3>k
                    <6>4. q = "signature"
                        BY <6>1, <6>3
                    <6>5. A.parts = <<>>
                        <7>1. A.parts \in Seq(Parted)
                            BY <3>a DEF Block
                        <7> QED BY <7>1, <6>3, EmptySeq
                    <6> QED BY <6>4, <6>5, <5>2, <3>a DEF Provider!DeltaFits
                <5>3. CASE b.kind = "tool"
                    <6>1. b.parts = <<>> \/ b.parts = <<"json1", "json2">>
                        BY <5>3, <3>b
                    <6>2. b.parts = <<"json1", "json2">> /\ N = 2
                        <7>1. N # 0
                            <8>1. k \in Nat /\ N \in Nat /\ k < N
                                BY <3>k, <3>2, <3>6
                            <8> HIDE DEF k, N
                            <8> QED BY <8>1
                        <7>2. b.parts # <<>>
                            BY <7>1
                        <7>3. b.parts = <<"json1", "json2">>
                            BY <6>1, <7>2
                        <7> QED BY <7>3
                    <6>3. k = 0 \/ k = 1
                        <7>1. k \in Nat /\ k < N /\ N = 2
                            BY <6>2, <3>6, <3>k
                        <7> HIDE DEF k, N
                        <7> QED BY <7>1
                    <6>4. q \in {"json1", "json2"}
                        <7> DEFINE t == b.parts
                        <7>1. t[1] = "json1" /\ t[2] = "json2"
                            BY <6>2
                        <7>2. q = t[k + 1]
                            OBVIOUS
                        <7> HIDE DEF k, t, q
                        <7>3. k + 1 = 1 \/ k + 1 = 2
                            BY <6>3
                        <7> QED BY <7>1, <7>2, <7>3
                    <6> QED BY <6>4, <5>3, <3>a DEF Provider!DeltaFits
                <5> QED BY <5>1, <5>2, <5>3, <3>b DEF Kinds
            <4>5. f = [d EXCEPT !.active = a]
                BY <1>v, <2>4, <4>3, <4>4 DEF Provider!Decode, Provider!InOrder
            <4>6. f.verdict = "reply" /\ f.active = a /\ f.stop = None /\ f.blocks = d.blocks
                BY <1>v, <2>4, <4>5 DEF Decoders
            <4>7. Begins(a.parts, b.parts) /\ a.kind = b.kind
                <5> DEFINE s == A.parts
                           t == b.parts
                <5>1. s \in Seq(Parted) /\ t \in Seq(Parted)
                    BY <3>a, <3>1 DEF Block
                <5>2. q \in Parted
                    BY <5>1, <4>1, ElementOfSeq
                <5>3. Len(s) = k /\ Len(t) = N /\ k + 1 <= N /\ k \in Nat
                      /\ (\A i \in 1 .. k : t[i] = s[i]) /\ t[k + 1] = q
                    BY <3>k, <4>1
                <5> HIDE DEF s, t, q, k, N
                <5>4. Len(Append(s, q)) = k + 1 /\ Append(s, q)[k + 1] = q
                      /\ \A i \in 1 .. k : Append(s, q)[i] = s[i]
                    BY <5>1, <5>2, <5>3, AppendProperties
                <5>5. ASSUME NEW i \in 1 .. k + 1 PROVE t[i] = Append(s, q)[i]
                    <6>1. CASE i = k + 1
                        BY <6>1, <5>3, <5>4
                    <6>2. CASE i \in 1 .. k
                        BY <6>2, <5>3, <5>4
                    <6> QED BY <6>1, <6>2, <5>3
                <5>6. Begins(Append(s, q), t)
                    BY <5>3, <5>4, <5>5 DEF Begins
                <5> QED BY <5>6, <3>a DEF s, t
            <4> HIDE DEF a, f
            <4>8. Follows(f, m)
                BY <1>v, <3>a, <4>6, <4>7 DEF Follows
            <4> QED BY <4>3, <4>8 DEF f, Provider!AnthropicTerminals
        <3>7. CASE ~(k < N)
            <4>1. k = N /\ e = z
                <5>1. k = N
                    <6>1. k \in Nat /\ N \in Nat /\ k <= N /\ ~(k < N)
                        BY <3>7, <3>k, <3>2
                    <6> HIDE DEF k, N
                    <6> QED BY <6>1
                <5> QED BY <5>1, <3>4, <3>5
            <4>2. e.type = "block_stop" /\ e.n = n
                BY <4>1 DEF Provider!E
            <4>3. A = b
                <5>1. A.parts \in Seq(Parted) /\ b.parts \in Seq(Parted)
                        /\ A = [kind |-> A.kind, parts |-> A.parts]
                    BY <3>a, <3>1 DEF Block
                <5>2. A.parts = b.parts
                    <6> DEFINE s == A.parts
                               t == b.parts
                    <6>1. s \in Seq(Parted) /\ t \in Seq(Parted) /\ Len(s) = Len(t)
                            /\ \A i \in 1 .. Len(s) : s[i] = t[i]
                        BY <5>1, <4>1, <3>k
                    <6> HIDE DEF s, t
                    <6>2. s = t
                        BY <6>1, SeqEqual
                    <6> QED BY <6>2 DEF s, t
                <5> QED BY <5>1, <5>2, <3>a, <3>b
            <4>4. Provider!Complete(A)
                <5>1. CASE b.kind = "text"
                    BY <5>1, <4>3 DEF Provider!Complete
                <5>2. CASE b.kind = "thinking"
                    <6>1. b.parts = <<"signature">>
                        BY <5>2, <3>b
                    <6>2. b.parts # <<>>
                        BY <6>1
                    <6> QED BY <5>2, <6>2, <4>3 DEF Provider!Complete
                <5>3. CASE b.kind = "tool"
                    <6>1. b.parts \in {<<>>, <<"json1", "json2">>}
                        BY <5>3, <3>b
                    <6> QED BY <5>3, <6>1, <4>3 DEF Provider!Complete
                <5> QED BY <5>1, <5>2, <5>3, <3>b DEF Kinds
            <4>5. f = [d EXCEPT !.blocks = Append(d.blocks, A), !.active = None]
                BY <1>v, <2>4, <4>2, <4>4 DEF Provider!Decode, Provider!InOrder
            <4> DEFINE B == Append(d.blocks, b)
            <4>6. f.verdict = "reply" /\ f.active = None /\ f.stop = None /\ f.blocks = B
                BY <1>v, <2>4, <4>3, <4>5 DEF Decoders
            <4>7. Begins(B, W)
                <5> DEFINE s == d.blocks
                <5>1. s \in Seq(Block) /\ b \in Block /\ Len(s) = L /\ L \in Nat /\ W[n] = b /\ n <= Len(W)
                      /\ \A i \in 1 .. L : W[i] = s[i]
                    BY <1>d, <1>v, <3>1, <3>a DEF Begins
                <5> HIDE DEF s, b, L, W
                <5>2. Len(Append(s, b)) = L + 1 /\ Append(s, b)[L + 1] = b
                      /\ \A i \in 1 .. L : Append(s, b)[i] = s[i]
                    BY <5>1, AppendProperties
                <5>3. ASSUME NEW i \in 1 .. L + 1 PROVE W[i] = Append(s, b)[i]
                    <6>1. CASE i = L + 1
                        BY <6>1, <5>1, <5>2
                    <6>2. CASE i \in 1 .. L
                        BY <6>2, <5>1, <5>2
                    <6> QED BY <6>1, <6>2, <5>1
                <5>4. Begins(Append(s, b), W)
                    BY <5>1, <5>2, <5>3 DEF Begins
                <5> QED BY <5>4 DEF s
            <4> HIDE DEF B, f
            <4>8. Follows(f, m)
                BY <4>6, <4>7 DEF Follows
            <4> QED BY <4>2, <4>8 DEF f, Provider!AnthropicTerminals
        <3> QED BY <3>6, <3>7
    <2> QED BY <2>1, <2>2, <2>3, <2>4
<1> QED BY <1>1, <1>2, <1>d

-----------------------------------------------------------------------------
\* Reading a script.

\* The terminal events of an API.
Terminating(s) ==
    CASE s.api = "anthropic" -> Provider!AnthropicTerminals
      [] s.api = "openai" -> Provider!OpenAITerminals
      [] OTHER -> {"body"}

\* What has been read of a script: its beginning, with no terminal event before
\* the last; the Anthropic decoder holds all of it, and of a stream that carries
\* a message the beginning of that message.
ReadOf(r, s) ==
    /\ s \in Scripts /\ r \in Seq(Events) /\ Begins(r, s.events)
    /\ \A i \in 1 .. Len(r) : i < Len(r) => r[i].type \notin Terminating(s)
    /\ s.api = "anthropic" =>
          /\ r \in Seq(Wired)
          /\ Provider!Decoded(r).verdict = "reply" =>
                /\ Coherent(Provider!Decoded(r))
                /\ Provider!NoPings(r) = Rendered(Provider!Decoded(r))
          /\ s.meant # None =>
                /\ Follows(Provider!Decoded(r), s.meant)
                /\ r # <<>> /\ r[Len(r)].type \in Terminating(s) => Provider!Decoded(r).stopped

\* The events of a script.
LEMMA ScriptFacts ==
    ASSUME NEW s \in Scripts
    PROVE  /\ s.events \in Seq(Events) /\ Len(s.events) \in Nat
           /\ \A i \in 1 .. Len(s.events) : s.events[i] \in Events
           /\ s.api = "anthropic" =>
                 /\ s.events \in Seq(Wired)
                 /\ s.meant # None => /\ s.meant \in Meant
                                      /\ Provider!NoPings(s.events) = Provider!AnthropicStream(s.meant)
<1> DEFINE v == s.events
           S == {v[i] : i \in DOMAIN v}
<1>1. v \in Seq(S)
    BY ScriptsAssumption
<1>2. S \subseteq Events
    BY DEF Events
<1>3. s.api = "anthropic" => S \subseteq Wired
    <2>1. ASSUME s.api = "anthropic", NEW i \in DOMAIN v PROVE v[i] \in Wired
        <3>1. Provider!AnthropicEvent(v[i])
            BY <2>1, ScriptsAssumption
        <3>2. v[i] \in Events
            BY DEF Events
        <3> QED BY <3>1, <3>2 DEF Wired, Heard
    <2> QED BY <2>1
<1>4. s.api = "anthropic" /\ s.meant # None =>
        s.meant \in Meant /\ Provider!NoPings(v) = Provider!AnthropicStream(s.meant)
    BY ScriptsAssumption DEF Meant
<1> HIDE DEF S
<1>5. v \in Seq(Events) /\ Len(v) \in Nat /\ \A i \in 1 .. Len(v) : v[i] \in Events
    <2> HIDE DEF v
    <2>1. v \in Seq(Events)
        BY <1>1, <1>2, SeqMonotonic
    <2> QED BY <2>1, LenProperties, ElementOfSeq
<1>6. s.api = "anthropic" => v \in Seq(Wired)
    <2> HIDE DEF v
    <2> QED BY <1>1, <1>3, SeqMonotonic
<1> QED BY <1>4, <1>5, <1>6

\* The pieces of the events that are not pings.
Kept(r) == [i \in DOMAIN r |-> IF r[i].type = "ping" THEN <<>> ELSE <<r[i]>>]
LEMMA KeptType ==
    ASSUME NEW r \in Seq(Wired)
    PROVE  /\ Kept(r) \in Seq(Seq(Wired)) /\ Len(Kept(r)) = Len(r) /\ Len(r) \in Nat
           /\ \A i \in 1 .. Len(r) : Kept(r)[i] = IF r[i].type = "ping" THEN <<>> ELSE <<r[i]>>
           /\ Provider!NoPings(r) = Provider!FlattenSeq(Kept(r))
<1> DEFINE T == Seq(Wired)
           L == Len(r)
           g == [i \in 1 .. L |-> IF r[i].type = "ping" THEN <<>> ELSE <<r[i]>>]
<1>1. L \in Nat /\ DOMAIN r = 1 .. L /\ \A i \in 1 .. L : r[i] \in Wired
    BY LenProperties, ElementOfSeq
<1>2. Kept(r) = g
    BY <1>1 DEF Kept
<1>3. \A i \in 1 .. L : (IF r[i].type = "ping" THEN <<>> ELSE <<r[i]>>) \in T
    BY <1>1
<1>4. g \in [1 .. L -> T] /\ \A i \in 1 .. L : g[i] = IF r[i].type = "ping" THEN <<>> ELSE <<r[i]>>
    BY <1>3
<1> HIDE DEF T, g
<1>5. g \in Seq(T) /\ Len(g) = L
    BY <1>1, <1>4
<1>6. Provider!NoPings(r) = Provider!FlattenSeq(Kept(r))
    BY DEF Provider!NoPings, Kept
<1> QED BY <1>1, <1>2, <1>4, <1>5, <1>6 DEF T

\* One event more.
LEMMA KeptAppend ==
    ASSUME NEW r \in Seq(Wired), NEW e \in Wired
    PROVE  /\ Provider!NoPings(r) \in Seq(Wired)
           /\ Provider!NoPings(Append(r, e)) =
                 IF e.type = "ping" THEN Provider!NoPings(r) ELSE Append(Provider!NoPings(r), e)
<1> DEFINE t == Append(r, e)
           x == IF e.type = "ping" THEN <<>> ELSE <<e>>
           p == Kept(r)
           q == Kept(t)
           T == Seq(Wired)
           L == Len(r)
<1>1. L \in Nat /\ t \in Seq(Wired) /\ Len(t) = L + 1 /\ t[L + 1] = e /\ \A i \in 1 .. L : t[i] = r[i]
    BY AppendProperties, LenProperties
<1>2. /\ p \in Seq(T) /\ Len(p) = L
      /\ \A i \in 1 .. L : p[i] = IF r[i].type = "ping" THEN <<>> ELSE <<r[i]>>
      /\ Provider!NoPings(r) = Provider!FlattenSeq(p)
    BY KeptType
<1> HIDE DEF t
<1>3. /\ q \in Seq(T) /\ Len(q) = L + 1
      /\ \A i \in 1 .. L + 1 : q[i] = IF t[i].type = "ping" THEN <<>> ELSE <<t[i]>>
      /\ Provider!NoPings(t) = Provider!FlattenSeq(q)
    BY <1>1, KeptType
<1>4. x \in T
    OBVIOUS
<1> HIDE DEF p, q, T, L
<1>5. Append(p, x) \in Seq(T) /\ Len(Append(p, x)) = L + 1 /\ Append(p, x)[L + 1] = x
      /\ \A i \in 1 .. L : Append(p, x)[i] = p[i]
    BY <1>2, <1>4, AppendProperties
<1>6. ASSUME NEW i \in 1 .. L + 1 PROVE q[i] = Append(p, x)[i]
    <2>1. CASE i = L + 1
        BY <2>1, <1>1, <1>3, <1>5
    <2>2. CASE i \in 1 .. L
        BY <2>2, <1>1, <1>2, <1>3, <1>5, ZenonT(60)
    <2>3. L \in Nat
        BY <1>1
    <2>4. i = L + 1 \/ i \in 1 .. L
        BY <2>3
    <2> QED BY <2>1, <2>2, <2>4
<1> HIDE DEF x
<1>7. q = Append(p, x)
    BY <1>3, <1>5, <1>6, SeqEqual
<1>8. Provider!FlattenSeq(p) \in Seq(Wired)
      /\ Provider!FlattenSeq(Append(p, x)) = Provider!FlattenSeq(p) \o x
    BY <1>2, <1>4, FlatAppend DEF T
<1> DEFINE k == Provider!NoPings(r)
<1>9. k \in Seq(Wired) /\ Provider!NoPings(t) = k \o x
    BY <1>2, <1>3, <1>7, <1>8
<1> HIDE DEF k
<1>10. k \o <<>> = k /\ k \o <<e>> = Append(k, e)
    BY <1>9, Joins
<1>11. Provider!NoPings(t) = IF e.type = "ping" THEN k ELSE Append(k, e)
    BY <1>9, <1>10 DEF x
<1> QED BY <1>9, <1>11 DEF k, t

\* What begins the events begins those that are not pings.
LEMMA KeptBegins ==
    ASSUME NEW r \in Seq(Wired), NEW t \in Seq(Wired), Begins(r, t)
    PROVE  Begins(Provider!NoPings(r), Provider!NoPings(t))
<1> DEFINE p == Kept(r)
           q == Kept(t)
<1>1. /\ p \in Seq(Seq(Wired)) /\ Len(p) = Len(r) /\ Len(r) \in Nat
      /\ \A i \in 1 .. Len(r) : p[i] = IF r[i].type = "ping" THEN <<>> ELSE <<r[i]>>
      /\ Provider!NoPings(r) = Provider!FlattenSeq(p)
    BY KeptType
<1>2. /\ q \in Seq(Seq(Wired)) /\ Len(q) = Len(t) /\ Len(t) \in Nat
      /\ \A i \in 1 .. Len(t) : q[i] = IF t[i].type = "ping" THEN <<>> ELSE <<t[i]>>
      /\ Provider!NoPings(t) = Provider!FlattenSeq(q)
    BY KeptType
<1> HIDE DEF p, q
<1>3. Len(r) <= Len(t) /\ \A i \in 1 .. Len(r) : t[i] = r[i] /\ i \in 1 .. Len(t)
    BY <1>1, <1>2 DEF Begins
<1>4. Begins(p, q)
    <2>1. ASSUME NEW i \in 1 .. Len(p) PROVE q[i] = p[i]
        BY <1>1, <1>2, <1>3
    <2>2. Len(p) <= Len(q)
        BY <1>1, <1>2, <1>3
    <2> QED BY <2>1, <2>2 DEF Begins
<1>5. Begins(Provider!FlattenSeq(p), Provider!FlattenSeq(q))
    BY <1>1, <1>2, <1>4, FlatBegins
<1> QED BY <1>1, <1>2, <1>5

\* Nothing has been read.
LEMMA ReadNone == ASSUME NEW s \in Scripts PROVE ReadOf(<<>>, s)
<1>1. Len(s.events) \in Nat /\ (s.api = "anthropic" /\ s.meant # None => s.meant \in Meant)
    BY ScriptFacts
<1>2. <<>> \in Seq(Events) /\ Begins(<<>>, s.events) /\ <<>> \in Seq(Wired) /\ Len(<<>>) = 0
    BY <1>1 DEF Begins
<1>3. Coherent(Provider!Decoder) /\ Rendered(Provider!Decoder) = <<>>
    BY DEF Coherent, Rendered, Provider!Decoder
<1>4. Provider!NoPings(<<>>) = <<>>
    <2>1. Kept(<<>>) = <<>>
        BY DEF Kept
    <2> QED BY <2>1 DEF Provider!NoPings, Kept, Provider!FlattenSeq
<1>5. ASSUME s.meant # None, s.api = "anthropic" PROVE Follows(Provider!Decoder, s.meant)
    <2>1. Len(s.meant.blocks) \in Nat
        BY <1>1, <1>5, WholeFacts
    <2> QED BY <2>1 DEF Follows, Begins, Provider!Decoder
<1>6. \A i \in 1 .. Len(<<>>) : FALSE
    BY <1>2
<1> QED BY <1>2, <1>3, <1>4, <1>5, <1>6, DecodedNone DEF ReadOf

\* Another event is read.
LEMMA ReadStep ==
    ASSUME NEW r, NEW s, ReadOf(r, s), Len(r) < Len(s.events),
           r # <<>> => r[Len(r)].type \notin Terminating(s)
    PROVE  ReadOf(Append(r, s.events[Len(r) + 1]), s)
<1> DEFINE v == s.events
           L == Len(r)
           e == v[L + 1]
           t == Append(r, e)
           d == Provider!Decoded(r)
           f == Provider!Decoded(t)
<1>0. s \in Scripts /\ r \in Seq(Events) /\ Begins(r, v)
      /\ \A i \in 1 .. L : i < L => r[i].type \notin Terminating(s)
    BY DEF ReadOf
<1>1. v \in Seq(Events) /\ Len(v) \in Nat /\ \A i \in 1 .. Len(v) : v[i] \in Events
    BY <1>0, ScriptFacts
<1>2. L \in Nat /\ L + 1 \in 1 .. Len(v) /\ e \in Events
    <2>1. L \in Nat
        BY <1>0, LenProperties
    <2>2. L + 1 \in 1 .. Len(v)
        BY <2>1, <1>1
    <2> QED BY <2>1, <2>2, <1>1
<1>3. t \in Seq(Events) /\ Len(t) = L + 1 /\ t[L + 1] = e /\ \A i \in 1 .. L : t[i] = r[i]
    <2> HIDE DEF e
    <2> QED BY <1>0, <1>2, AppendProperties
<1>4. Begins(t, v)
    <2>1. \A i \in 1 .. L : v[i] = r[i]
        BY <1>0 DEF Begins
    <2> HIDE DEF t, L
    <2>2. ASSUME NEW i \in 1 .. Len(t) PROVE v[i] = t[i]
        <3>1. CASE i = L + 1
            BY <3>1, <1>3
        <3>2. CASE i \in 1 .. L
            BY <3>2, <2>1, <1>3
        <3> QED BY <1>2, <1>3, <3>1, <3>2
    <2>3. Len(t) <= Len(v)
        BY <1>1, <1>2, <1>3
    <2> QED BY <2>2, <2>3 DEF Begins
<1>5. \A i \in 1 .. Len(t) : i < Len(t) => t[i].type \notin Terminating(s)
    <2> TAKE i \in 1 .. Len(t)
    <2> HAVE i < Len(t)
    <2>1. i \in 1 .. L /\ t[i] = r[i]
        BY <1>2, <1>3
    <2>2. CASE i = L
        <3>1. r # <<>>
            BY <2>1, <2>2, <1>2
        <3> QED BY <3>1, <2>1, <2>2
    <2>3. CASE i < L
        BY <2>1, <2>3, <1>0
    <2> QED BY <1>2, <2>1, <2>2, <2>3
<1>6. ASSUME s.api = "anthropic"
      PROVE  /\ t \in Seq(Wired)
             /\ f.verdict = "reply" => Coherent(f) /\ Provider!NoPings(t) = Rendered(f)
             /\ s.meant # None =>
                   /\ Follows(f, s.meant)
                   /\ t # <<>> /\ t[Len(t)].type \in Terminating(s) => f.stopped
    <2>1. r \in Seq(Wired) /\ v \in Seq(Wired)
        BY <1>6, <1>0, ScriptFacts DEF ReadOf
    <2>2. e \in Wired
        <3> HIDE DEF v, L
        <3> QED BY <1>2, <2>1, ElementOfSeq
    <2> HIDE DEF e, L
    <2>3. t \in Seq(Wired) /\ d \in Decoders /\ f = Provider!Decode(d, e)
        BY <2>1, <2>2, AppendProperties, DecodedAppend
    <2>4. Provider!NoPings(r) \in Seq(Wired)
          /\ Provider!NoPings(t) = IF e.type = "ping" THEN Provider!NoPings(r)
               ELSE Append(Provider!NoPings(r), e)
        BY <2>1, <2>2, KeptAppend
    <2>5. d.verdict = "reply" => Coherent(d) /\ Provider!NoPings(r) = Rendered(d)
        BY <1>6 DEF ReadOf
    <2> HIDE DEF t, d, f
    <2>p. e.type = "ping" /\ d.verdict = "reply" => f = d
        BY <2>3 DEF Provider!Decode, Provider!InOrder
    <2>6. ASSUME f.verdict = "reply" PROVE Coherent(f) /\ Provider!NoPings(t) = Rendered(f)
        <3>1. d.verdict = "reply"
            BY <2>2, <2>3, <2>6, DecodeIs
        <3>2. CASE e.type = "ping"
            BY <2>4, <2>5, <2>p, <3>1, <3>2
        <3>3. CASE e.type # "ping"
            BY <2>2, <2>3, <2>4, <2>5, <2>6, <3>1, <3>3, RenderStep
        <3> QED BY <3>2, <3>3
    <2>7. ASSUME s.meant # None
          PROVE  Follows(f, s.meant) /\ (e.type \in Provider!AnthropicTerminals => f.stopped)
        <3> DEFINE m == s.meant
                   w == Provider!AnthropicStream(m)
                   k == Provider!NoPings(t)
        <3>1. m \in Meant /\ Provider!NoPings(v) = w /\ Follows(d, m)
            BY <1>6, <2>7, <1>0, ScriptFacts DEF ReadOf, d
        <3>2. d.verdict = "reply" /\ Coherent(d) /\ Provider!NoPings(r) = Rendered(d)
            BY <2>5, <3>1 DEF Follows
        <3>3. CASE e.type = "ping"
            BY <2>p, <3>1, <3>2, <3>3 DEF Provider!AnthropicTerminals
        <3>4. CASE e.type # "ping"
            <4>1. Begins(k, w)
                BY <2>1, <2>3, <1>4, <3>1, KeptBegins
            <4> DEFINE R == Rendered(d)
            <4>2. R \in Seq(Wired) /\ k = Append(R, e)
                BY <2>4, <3>2, <3>4
            <4> HIDE DEF R, w, k, m
            <4>3. Len(R) \in Nat /\ Len(k) = Len(R) + 1 /\ k[Len(R) + 1] = e
                BY <2>2, <4>2, AppendProperties, LenProperties
            <4>4. Len(R) + 1 <= Len(w) /\ e = w[Len(R) + 1]
                <5>1. Len(R) + 1 \in 1 .. Len(R) + 1
                    BY <4>3
                <5> QED BY <5>1, <4>1, <4>3 DEF Begins
            <4>5. Follows(d, m) /\ m \in Meant
                BY <3>1 DEF m
            <4>6. Len(Rendered(d)) + 1 <= Len(Provider!AnthropicStream(m))
                  /\ e = Provider!AnthropicStream(m)[Len(Rendered(d)) + 1]
                BY <4>4 DEF R, w
            <4>7. Follows(Provider!Decode(d, e), m)
                  /\ (e.type \in Provider!AnthropicTerminals => Provider!Decode(d, e).stopped)
                BY <2>3, <3>2, <4>5, <4>6, FollowStep
            <4> QED BY <2>3, <4>7 DEF m
        <3> QED BY <3>3, <3>4
    <2>8. Terminating(s) = Provider!AnthropicTerminals /\ t[Len(t)] = e
        BY <1>6, <1>3 DEF Terminating, t, L, e
    <2> QED BY <2>3, <2>6, <2>7, <2>8
<1> QED BY <1>0, <1>3, <1>4, <1>5, <1>6 DEF ReadOf

-----------------------------------------------------------------------------
\* The answer.

\* The adapter's answer to what has been read of a script.
ReplyTo(r, s) ==
    CASE s.api = "anthropic" -> Provider!AnthropicReply(r)
      [] s.api = "openai" -> Provider!OpenAIReply(r)
      [] OTHER -> Provider!Answer(Provider!Verdict(r[1].x.blocks, r[1].x.stop), r[1].x)

\* Events that carry a message in the form of an API.
Carried(r, s, m) ==
    CASE s.api = "anthropic" -> Provider!NoPings(r) = Provider!AnthropicStream(m)
      [] s.api = "openai" -> r = Provider!OpenAIStream(m)
      [] OTHER -> r = <<Provider!E("body", 0, m)>>

\* An answer is the whole message, and no whole message is refused.
Right(a, r, s) ==
    /\ a.verdict = "reply" => Carried(r, s, a.message) /\ a.message.stop \in Provider!Normal
    /\ s.meant # None =>
          IF s.meant.stop \in Provider!Normal THEN a = Provider!Answer("reply", s.meant)
          ELSE a.verdict = "incomplete"

\* All of a script's stream has been read.
Through(r, s) == ReadOf(r, s) /\ r # <<>> /\ r[Len(r)].type \in Terminating(s)

\* An accepted payload has a normal stop, a whole message is accepted.
LEMMA VerdictFacts ==
    /\ \A blocks, stops : Provider!Verdict(blocks, stops) = "reply" => stops \in Provider!Normal
    /\ \A s \in Scripts : s.meant # None =>
          IF s.meant.stop \in Provider!Normal
          THEN /\ Provider!Verdict(s.meant.blocks, s.meant.stop) = "reply"
               /\ Provider!OpenAIVerdict(s.meant) = "reply" /\ s.meant.stop \notin Provider!Pauses
          ELSE /\ Provider!Verdict(s.meant.blocks, s.meant.stop) = "incomplete"
               /\ s.meant.stop \in Provider!Pauses
<1>1. ASSUME NEW blocks, NEW stops, Provider!Verdict(blocks, stops) = "reply"
      PROVE  stops \in Provider!Normal
    BY <1>1 DEF Provider!Verdict
<1>2. ASSUME NEW s \in Scripts, s.meant # None, s.meant.stop \in Provider!Normal
      PROVE  /\ Provider!Verdict(s.meant.blocks, s.meant.stop) = "reply"
             /\ Provider!OpenAIVerdict(s.meant) = "reply" /\ s.meant.stop \notin Provider!Pauses
    <2>1. Provider!Verdict(s.meant.blocks, s.meant.stop) = "reply"
        BY <1>2, ScriptsAssumption DEF Provider!Whole
    <2>2. Provider!OpenAIVerdict(s.meant) = "reply"
        BY <2>1 DEF Provider!Verdict, Provider!OpenAIVerdict
    <2>3. s.meant.stop \notin Provider!Pauses
        BY <1>2 DEF Provider!Normal, Provider!Pauses
    <2> QED BY <2>1, <2>2, <2>3
<1>3. ASSUME NEW s \in Scripts, s.meant # None, s.meant.stop \notin Provider!Normal
      PROVE  Provider!Verdict(s.meant.blocks, s.meant.stop) = "incomplete"
               /\ s.meant.stop \in Provider!Pauses
    <2>1. s.meant.stop \in Provider!Pauses
        BY <1>3, ScriptsAssumption DEF Provider!Whole
    <2> QED BY <2>1 DEF Provider!Verdict
<1> QED BY <1>1, <1>2, <1>3

\* What an Anthropic stream is answered with.
LEMMA AnthropicRight ==
    ASSUME NEW r, NEW s, Through(r, s), s.api = "anthropic"
    PROVE  Right(Provider!AnthropicReply(r), r, s)
<1> DEFINE d == Provider!Decoded(r)
           a == Provider!AnthropicReply(r)
           m == [blocks |-> d.blocks, stop |-> d.stop]
<1>0. s \in Scripts /\ r \in Seq(Wired)
    BY DEF Through, ReadOf
<1>1. d \in Decoders
    <2>1. PICK f \in [0 .. Len(r) -> Decoders] : d = f[Len(r)]
        BY <1>0, DecodedFacts
    <2>2. Len(r) \in 0 .. Len(r)
        BY <1>0, LenProperties
    <2> QED BY <2>1, <2>2
<1>2. a = IF d.verdict # "reply" THEN Provider!Answer(d.verdict, None)
          ELSE IF ~d.stopped THEN Provider!Answer("protocol", None)
          ELSE Provider!Answer(Provider!Verdict(m.blocks, m.stop), m)
    BY DEF Provider!AnthropicReply
<1>3. d.verdict = "reply" => Coherent(d) /\ Provider!NoPings(r) = Rendered(d)
    BY DEF Through, ReadOf
<1> HIDE DEF a, d
<1>4. ASSUME a.verdict = "reply" PROVE Carried(r, s, a.message) /\ a.message.stop \in Provider!Normal
    <2>1. d.verdict = "reply" /\ d.stopped
        BY <1>2, <1>4 DEF Provider!Answer
    <2>2. a = Provider!Answer(Provider!Verdict(m.blocks, m.stop), m)
        BY <1>2, <2>1
    <2>3. Provider!Verdict(m.blocks, m.stop) = "reply" /\ a.message = m
        BY <1>4, <2>2 DEF Provider!Answer
    <2>4. m.stop \in Provider!Normal
        BY <2>3, VerdictFacts
    <2>5. d.stop # None /\ d.started /\ d.active = None
        BY <1>3, <2>1 DEF Coherent
    <2> DEFINE w == <<Provider!E("message_delta", 0, d.stop), Provider!E("message_stop", 0, None)>>
    <2>6. Rendered(d) = (Front(d.blocks) \o <<>>) \o w
        BY <2>1, <2>5 DEF Rendered, Ending
    <2>7. Front(d.blocks) \o <<>> = Front(d.blocks)
        <3>1. Front(d.blocks) \in Seq(Heard)
            BY <1>1, DecoderFacts
        <3> QED BY <3>1, ConcatEmptySeq
    <2>8. Provider!AnthropicStream(m) = Front(d.blocks) \o w
        <3>1. m.blocks = d.blocks /\ m.stop = d.stop
            OBVIOUS
        <3> HIDE DEF m
        <3> QED BY <3>1 DEF Provider!AnthropicStream, Front, Body, Pieces
    <2>9. Provider!NoPings(r) = Provider!AnthropicStream(m)
        BY <1>3, <2>1, <2>6, <2>7, <2>8
    <2> QED BY <2>3, <2>4, <2>9 DEF Carried
<1>5. ASSUME s.meant # None
      PROVE  IF s.meant.stop \in Provider!Normal THEN a = Provider!Answer("reply", s.meant)
             ELSE a.verdict = "incomplete"
    <2>1. Follows(d, s.meant) /\ d.stopped
        BY <1>5 DEF Through, ReadOf, d
    <2>2. d.verdict = "reply" /\ Coherent(d)
        BY <1>3, <2>1 DEF Follows
    <2>3. d.blocks = s.meant.blocks /\ d.stop = s.meant.stop
        BY <2>1, <2>2 DEF Follows, Coherent
    <2>4. s.meant = [blocks |-> s.meant.blocks, stop |-> s.meant.stop]
        BY <1>0, <1>5, WholeFacts DEF Meant
    <2>5. m = s.meant
        BY <2>3, <2>4
    <2>6. a = Provider!Answer(Provider!Verdict(s.meant.blocks, s.meant.stop), s.meant)
        BY <1>2, <2>1, <2>2, <2>5
    <2>7. IF s.meant.stop \in Provider!Normal
          THEN Provider!Verdict(s.meant.blocks, s.meant.stop) = "reply"
          ELSE Provider!Verdict(s.meant.blocks, s.meant.stop) = "incomplete"
        BY <1>0, <1>5, VerdictFacts
    <2> QED BY <2>6, <2>7 DEF Provider!Answer
<1> QED BY <1>4, <1>5 DEF Right, a

\* What an OpenAI stream is answered with: its numbers leave each event one place.
LEMMA OpenAIRight ==
    ASSUME NEW r, NEW s, Through(r, s), s.api = "openai"
    PROVE  Right(Provider!OpenAIReply(r), r, s)
<1> DEFINE a == Provider!OpenAIReply(r)
           v == s.events
           L == Len(r)
           last == r[L]
           Bad == \E i \in DOMAIN r : r[i].n # i - 1 \/ r[i].type = "ping"
<1>0. /\ s \in Scripts /\ r \in Seq(Events) /\ Begins(r, v) /\ r # <<>>
      /\ last.type \in Provider!OpenAITerminals
      /\ \A i \in 1 .. L : i < L => r[i].type \notin Provider!OpenAITerminals
    BY DEF Through, ReadOf, Terminating
<1>1. L \in Nat \ {0} /\ DOMAIN r = 1 .. L /\ L <= Len(v) /\ DOMAIN v = 1 .. Len(v) /\ Len(v) \in Nat
    <2>1. L \in Nat /\ DOMAIN r = 1 .. L
        BY <1>0, LenProperties
    <2>2. L # 0
        BY <1>0, EmptySeq
    <2>3. Len(v) \in Nat /\ DOMAIN v = 1 .. Len(v)
        BY <1>0, ScriptFacts, LenProperties
    <2>4. L <= Len(v)
        BY <1>0 DEF Begins
    <2> QED BY <2>1, <2>2, <2>3, <2>4
<1>2. \A i \in 1 .. L : r[i] = v[i] /\ Provider!OpenAIEvent(r[i])
    <2> TAKE i \in 1 .. L
    <2>1. i \in DOMAIN v /\ v[i] = r[i]
        BY <1>0, <1>1 DEF Begins
    <2>2. Provider!OpenAIEvent(v[i])
        BY <1>0, <2>1, ScriptsAssumption
    <2> QED BY <2>1, <2>2
<1>3. a = IF Bad THEN Provider!Answer("protocol", None)
          ELSE CASE last.type = "error" -> Provider!Answer("response", None)
                 [] last.type = "failed" -> Provider!Answer("response", None)
                 [] last.type = "incomplete" -> Provider!Answer("incomplete", None)
                 [] last.type = "completed" -> Provider!Answer(Provider!OpenAIVerdict(last.x), last.x)
                 [] OTHER -> Provider!Answer("protocol", None)
    BY DEF Provider!OpenAIReply
<1>4. L \in 1 .. L
    BY <1>1
<1> HIDE DEF a, L, Bad, v
<1>5. ASSUME a.verdict = "reply" PROVE Carried(r, s, a.message) /\ a.message.stop \in Provider!Normal
    <2>1. ~Bad
        BY <1>3, <1>5 DEF Provider!Answer
    <2>2. last.type = "completed"
        BY <1>0, <1>3, <1>5, <2>1 DEF Provider!Answer, Provider!OpenAITerminals
    <2>3. a = Provider!Answer(Provider!OpenAIVerdict(last.x), last.x)
        BY <1>3, <2>1, <2>2
    <2>4. a.message = last.x
        BY <1>5, <2>3 DEF Provider!Answer
    <2>5. last = Provider!E("completed", 2, last.x) /\ last.x.stop \in Provider!Normal
        <3>1. Provider!OpenAIEvent(last)
            BY <1>2, <1>4
        <3> QED BY <2>2, <3>1 DEF Provider!OpenAIEvent
    <2>6. \A i \in 1 .. L : r[i].n = i - 1 /\ r[i].type # "ping"
        BY <1>1, <2>1 DEF Bad
    <2>7. L = 3
        <3>1. last.n = L - 1 /\ last.n = 2
            BY <1>4, <2>5, <2>6 DEF Provider!E
        <3> QED BY <3>1, <1>1
    <2>8. r[1] = Provider!E("created", 0, None)
        <3>1. r[1].n = 0 /\ r[1].type # "ping" /\ Provider!OpenAIEvent(r[1])
              /\ r[1].type \notin Provider!OpenAITerminals
            <4>1. 1 \in 1 .. L /\ 1 < L /\ 1 - 1 = 0
                BY <2>7
            <4> QED BY <1>0, <1>2, <2>6, <4>1
        <3> QED BY <3>1 DEF Provider!OpenAIEvent, Provider!OpenAITerminals, Provider!E
    <2>9. r[2] = Provider!E("output", 1, None)
        <3>1. r[2].n = 1 /\ r[2].type # "ping" /\ Provider!OpenAIEvent(r[2])
              /\ r[2].type \notin Provider!OpenAITerminals
            <4>1. 2 \in 1 .. L /\ 2 < L /\ 2 - 1 = 1
                BY <2>7
            <4> QED BY <1>0, <1>2, <2>6, <4>1
        <3> QED BY <3>1 DEF Provider!OpenAIEvent, Provider!OpenAITerminals, Provider!E
    <2>10. Provider!OpenAIStream(last.x)
             = <<Provider!E("created", 0, None), Provider!E("output", 1, None), Provider!E("completed", 2, last.x)>>
        <3>1. last.x.stop \notin Provider!Pauses
            BY <2>5 DEF Provider!Normal, Provider!Pauses
        <3> QED BY <3>1 DEF Provider!OpenAIStream
    <2>11. r = <<r[1], r[2], r[3]>>
        <3>1. r \in Seq(Events) /\ Len(r) = 3
            BY <1>0, <2>7 DEF L
        <3> QED BY <3>1
    <2>12. r = Provider!OpenAIStream(last.x)
        BY <2>5, <2>7, <2>8, <2>9, <2>10, <2>11
    <2> QED BY <2>4, <2>5, <2>12 DEF Carried
<1>6. ASSUME s.meant # None
      PROVE  IF s.meant.stop \in Provider!Normal THEN a = Provider!Answer("reply", s.meant)
             ELSE a.verdict = "incomplete"
    <2> DEFINE m == s.meant
               type == IF m.stop \in Provider!Pauses THEN "incomplete" ELSE "completed"
    <2>1. v = <<Provider!E("created", 0, None), Provider!E("output", 1, None), Provider!E(type, 2, m)>>
        BY <1>0, <1>6, ScriptsAssumption DEF Provider!OpenAIStream, v
    <2>2. Len(v) = 3 /\ v[1] = Provider!E("created", 0, None) /\ v[2] = Provider!E("output", 1, None)
          /\ v[3] = Provider!E(type, 2, m)
        BY <2>1
    <2>3. L = 3
        <3>1. last = v[L]
            BY <1>2, <1>4
        <3>2. v[1].type \notin Provider!OpenAITerminals /\ v[2].type \notin Provider!OpenAITerminals
            BY <2>2 DEF Provider!E, Provider!OpenAITerminals
        <3>3. L # 1 /\ L # 2
            BY <1>0, <3>1, <3>2
        <3> QED BY <3>3, <1>1, <2>2
    <2>4. /\ r[1] = Provider!E("created", 0, None) /\ r[2] = Provider!E("output", 1, None)
          /\ r[3] = Provider!E(type, 2, m)
        BY <1>2, <2>2, <2>3
    <2>5. ~Bad
        <3>1. ASSUME NEW i \in 1 .. 3 PROVE r[i].n = i - 1 /\ r[i].type # "ping"
            <4>1. CASE i = 1
                BY <4>1, <2>4 DEF Provider!E
            <4>2. CASE i = 2
                BY <4>2, <2>4 DEF Provider!E
            <4>3. CASE i = 3
                BY <4>3, <2>4 DEF Provider!E
            <4> QED BY <4>1, <4>2, <4>3
        <3> QED BY <3>1, <1>1, <2>3 DEF Bad
    <2>6. last.type = type /\ last.x = m
        BY <2>3, <2>4 DEF Provider!E
    <2>7. CASE m.stop \in Provider!Normal
        <3>1. Provider!OpenAIVerdict(m) = "reply" /\ type = "completed"
            BY <1>0, <1>6, <2>7, VerdictFacts
        <3>2. a = Provider!Answer(Provider!OpenAIVerdict(m), m)
            BY <1>3, <2>5, <2>6, <3>1
        <3> QED BY <2>7, <3>1, <3>2
    <2>8. CASE m.stop \notin Provider!Normal
        <3>1. type = "incomplete"
            BY <1>0, <1>6, <2>8, VerdictFacts
        <3>2. a = Provider!Answer("incomplete", None)
            BY <1>3, <2>5, <2>6, <3>1
        <3> QED BY <2>8, <3>2 DEF Provider!Answer
    <2> QED BY <2>7, <2>8
<1> QED BY <1>5, <1>6 DEF Right, a

\* What a body is answered with.
LEMMA BodyRight ==
    ASSUME NEW r, NEW s, Through(r, s), s.api # "anthropic", s.api # "openai"
    PROVE  Right(Provider!Answer(Provider!Verdict(r[1].x.blocks, r[1].x.stop), r[1].x), r, s)
<1> DEFINE v == s.events
           x == v[1].x
           m == r[1].x
           a == Provider!Answer(Provider!Verdict(m.blocks, m.stop), m)
<1>0. s \in Scripts /\ r \in Seq(Events) /\ Begins(r, v) /\ r # <<>>
    BY DEF Through, ReadOf
<1>1. v = <<Provider!E("body", 0, x)>> /\ (s.meant # None => s.meant = x)
    BY <1>0, ScriptsAssumption
<1> HIDE DEF v, x
<1>2. Len(v) = 1 /\ v[1] = Provider!E("body", 0, x)
    BY <1>1
<1>3. Len(r) = 1 /\ r[1] = Provider!E("body", 0, x)
    <2>1. Len(r) \in Nat /\ Len(r) # 0
        BY <1>0, LenProperties, EmptySeq
    <2>2. Len(r) <= 1 /\ \A i \in 1 .. Len(r) : v[i] = r[i]
        BY <1>0, <1>2 DEF Begins
    <2>3. Len(r) = 1
        <3> DEFINE k == Len(r)
        <3>1. k \in Nat /\ k # 0 /\ k <= 1
            BY <2>1, <2>2
        <3> HIDE DEF k
        <3>2. k = 1
            BY <3>1
        <3> QED BY <3>2 DEF k
    <2> QED BY <1>2, <2>2, <2>3
<1>4. r = <<Provider!E("body", 0, x)>> /\ m = x
    <2>1. r = <<r[1]>>
        BY <1>0, <1>3
    <2> QED BY <2>1, <1>3 DEF Provider!E
<1>5. ASSUME a.verdict = "reply" PROVE Carried(r, s, a.message) /\ a.message.stop \in Provider!Normal
    <2>1. Provider!Verdict(m.blocks, m.stop) = "reply" /\ a.message = m
        BY <1>5 DEF Provider!Answer
    <2>2. m.stop \in Provider!Normal
        BY <2>1, VerdictFacts
    <2> QED BY <1>4, <2>1, <2>2 DEF Carried
<1>6. ASSUME s.meant # None
      PROVE  IF s.meant.stop \in Provider!Normal THEN a = Provider!Answer("reply", s.meant)
             ELSE a.verdict = "incomplete"
    <2>1. m = s.meant
        BY <1>1, <1>4, <1>6
    <2>2. IF m.stop \in Provider!Normal
          THEN Provider!Verdict(m.blocks, m.stop) = "reply"
          ELSE Provider!Verdict(m.blocks, m.stop) = "incomplete"
        BY <1>0, <1>6, <2>1, VerdictFacts
    <2> QED BY <2>1, <2>2 DEF Provider!Answer
<1> QED BY <1>5, <1>6 DEF Right

\* The answer to a stream that was read through.
LEMMA ReplyRight ==
    ASSUME NEW r, NEW s, Through(r, s)
    PROVE  Right(ReplyTo(r, s), r, s)
<1>1. CASE s.api = "anthropic"
    BY <1>1, AnthropicRight DEF ReplyTo
<1>2. CASE s.api = "openai"
    BY <1>2, OpenAIRight DEF ReplyTo
<1>3. CASE s.api # "anthropic" /\ s.api # "openai"
    BY <1>3, BodyRight DEF ReplyTo
<1> QED BY <1>1, <1>2, <1>3
-----------------------------------------------------------------------------
\* What the thread has read is what it has read of a script, and its answer is
\* the adapter's to a stream read through, or none at all.
ReplyInv ==
    /\ caller = "answered" => worker = "ended"
    /\ worker \notin {"reading", "ended"} => received = <<>>
    /\ worker = "reading" \/ received # <<>> => ReadOf(received, response.script)
    /\ worker = "reading" => /\ response.sent \in 0 .. Len(response.script.events)
                             /\ Len(received) <= response.sent
    /\ worker = "ended" =>
          \/ answer.verdict \in {"timeout", "connection", "stopped"}
          \/ ~Provider!Terminal /\ answer.verdict \in {"http", "protocol", "incomplete"}
          \/ /\ Provider!Terminal
             /\ LET a == ReplyTo(received, response.script) IN
                answer = Provider!Answer(a.verdict, a.message)

\* A request starts with nothing read.
LEMMA ReplyInit == Provider!Init => ReplyInv
BY DEF Provider!Init, ReplyInv

\* The invariant says of an answer that was returned what it should.
LEMMA ReplySafe == ReplyInv => Provider!ReplyIsWhole
<1> SUFFICES ASSUME ReplyInv, caller = "answered" PROVE Provider!ReplyIsWhole
    BY DEF Provider!ReplyIsWhole
<1> DEFINE s == response.script
           a == ReplyTo(received, s)
<1>1. worker = "ended"
    BY DEF ReplyInv
<1>2. ASSUME Provider!Terminal PROVE Right(a, received, s)
    <2>1. received # <<>> /\ received[Len(received)].type \in Terminating(s)
        BY <1>2 DEF Provider!Terminal, Provider!Terminals, Terminating
    <2>2. Through(received, s)
        BY <2>1 DEF ReplyInv, Through
    <2> QED BY <2>2, ReplyRight
<1>3. \A m : Carried(received, s, m) <=> Provider!Carry(received, m)
    BY DEF Carried, Provider!Carry
<1> HIDE DEF a, s
<1>4. ASSUME answer.verdict = "reply"
      PROVE  Provider!Carry(received, answer.message) /\ answer.message.stop \in Provider!Normal
    <2>1. Provider!Terminal /\ answer = Provider!Answer(a.verdict, a.message)
        BY <1>1, <1>4 DEF ReplyInv, a, s
    <2>2. a.verdict = "reply" /\ answer.message = a.message
        BY <1>4, <2>1 DEF Provider!Answer
    <2> QED BY <1>2, <1>3, <2>1, <2>2 DEF Right
<1>5. ASSUME Provider!Terminal, s.meant # None, answer.verdict \notin {"timeout", "connection", "stopped"}
      PROVE  IF s.meant.stop \in Provider!Normal THEN answer = Provider!Answer("reply", s.meant)
             ELSE answer.verdict = "incomplete"
    <2>1. answer = Provider!Answer(a.verdict, a.message)
        BY <1>1, <1>5 DEF ReplyInv, a, s
    <2>2. IF s.meant.stop \in Provider!Normal THEN a = Provider!Answer("reply", s.meant)
          ELSE a.verdict = "incomplete"
        BY <1>2, <1>5 DEF Right
    <2> QED BY <2>1, <2>2 DEF Provider!Answer
<1> QED BY <1>4, <1>5 DEF Provider!ReplyIsWhole, s

\* Each step reads on, or answers, or leaves what was read and answered alone.
LEMMA ReplyStep == ReplyInv /\ [Provider!Next]_callVars => ReplyInv'
<1> SUFFICES ASSUME ReplyInv, [Provider!Next]_callVars PROVE ReplyInv'
    OBVIOUS
<1>k. ASSUME UNCHANGED <<worker, response, received, answer>>, caller' = "answered" => worker = "ended"
      PROVE  ReplyInv'
    BY <1>k DEF ReplyInv, Provider!Terminal, Provider!Terminals
<1>g. ASSUME UNCHANGED <<caller, response, received, answer>>, worker \notin {"reading", "ended"},
             worker' \notin {"reading", "ended"}
      PROVE  ReplyInv'
    BY <1>g DEF ReplyInv
<1>f. ASSUME NEW verdict, NEW m, Provider!Finish(verdict, m),
             \/ verdict \in {"timeout", "connection", "stopped"}
             \/ ~Provider!Terminal /\ verdict \in {"http", "protocol", "incomplete"}
             \/ /\ Provider!Terminal
                /\ LET a == ReplyTo(received, response.script) IN
                   Provider!Answer(verdict, m) = Provider!Answer(a.verdict, a.message)
      PROVE  ReplyInv'
    <2>1. /\ worker' = "ended" /\ answer' = Provider!Answer(verdict, m) /\ answer'.verdict = verdict
          /\ caller' = caller /\ response' = response /\ received' = received
        BY <1>f DEF Provider!Finish, Provider!Answer
    <2>2. Provider!Terminal' <=> Provider!Terminal
        BY <2>1 DEF Provider!Terminal, Provider!Terminals
    <2> QED BY <1>f, <2>1, <2>2 DEF ReplyInv
<1>c. ASSUME Provider!CheckFails PROVE ReplyInv'
    BY <1>c, <1>f DEF Provider!CheckFails
<1>n. ASSUME worker \notin {"reading", "ended"} PROVE ~Provider!Terminal
    BY <1>n DEF ReplyInv, Provider!Terminal
<1>1. CASE Provider!Connect
    BY <1>1, <1>c, <1>f, <1>g DEF Provider!Connect
<1>2. CASE Provider!Attach \/ Provider!AbortOwn \/ Provider!Wrap
    BY <1>2, <1>g DEF Provider!Attach, Provider!AbortOwn, Provider!Wrap
<1>3. CASE Provider!Attached
    BY <1>3, <1>c, <1>g DEF Provider!Attached, Provider!GoOn
<1>4. CASE Provider!Handshake
    BY <1>4, <1>c, <1>f, <1>g DEF Provider!Handshake, Provider!GoOn
<1>5. CASE Provider!Respond
    <2>1. CASE Provider!CheckFails
        BY <2>1, <1>c
    <2>2. CASE Provider!Finish("connection", None)
        BY <2>2, <1>f
    <2>3. CASE Provider!Finish("http", None)
        <3>1. ~Provider!Terminal
            BY <1>5, <1>n DEF Provider!Respond
        <3> QED BY <2>3, <3>1, <1>f
    <2>4. ASSUME NEW s \in Scripts, NEW framed \in BOOLEAN, NEW n \in 0 .. Len(s.events),
                 response' = [framed |-> framed, script |-> s, sent |-> n],
                 worker = "sending", worker' = "reading", UNCHANGED <<caller, received, answer>>
          PROVE  ReplyInv'
        <3>1. received' = <<>> /\ caller' # "answered" /\ response'.script = s /\ response'.sent = n
            BY <2>4 DEF ReplyInv
        <3>2. ReadOf(<<>>, s)
            BY ReadNone
        <3>3. Len(<<>>) <= n
            OBVIOUS
        <3> QED BY <2>4, <3>1, <3>2, <3>3 DEF ReplyInv
    <2> QED BY <1>5, <2>1, <2>2, <2>3, <2>4 DEF Provider!Respond
<1>6. CASE Provider!Read
    <2> DEFINE s == response.script
               L == Len(received)
    <2>1. /\ worker = "reading" /\ L # response.sent /\ ~Provider!Terminal
          /\ received' = Append(received, s.events[L + 1])
          /\ worker' = worker /\ response' = response /\ caller' = caller
        BY <1>6 DEF Provider!Read, Provider!ReadOver, Provider!Script
    <2>2. ReadOf(received, s) /\ response.sent \in 0 .. Len(s.events) /\ L <= response.sent
            /\ caller # "answered"
        BY <2>1 DEF ReplyInv
    <2>3. s \in Scripts /\ received \in Seq(Events) /\ L \in Nat /\ Len(s.events) \in Nat
        BY <2>2, ScriptFacts, LenProperties DEF ReadOf
    <2>4. L < Len(s.events) /\ L + 1 <= response.sent /\ L + 1 \in 1 .. Len(s.events)
        BY <2>1, <2>2, <2>3
    <2>5. received # <<>> => received[L].type \notin Terminating(s)
        BY <2>1 DEF Provider!Terminal, Provider!Terminals, Terminating
    <2>6. ReadOf(received', s)
        BY <2>1, <2>2, <2>4, <2>5, ReadStep
    <2>7. Len(received') = L + 1
        <3>1. s.events[L + 1] \in Events
            BY <2>3, <2>4, ScriptFacts
        <3> QED BY <2>1, <2>3, <3>1, AppendProperties
    <2>8. Len(received') <= response.sent
        BY <2>4, <2>7
    <2> QED BY <2>1, <2>2, <2>6, <2>8 DEF ReplyInv
<1>7. CASE Provider!EndOfBody
    <2>1. CASE Provider!Finish("connection", None)
        BY <2>1, <1>f
    <2>2. CASE Provider!Terminal /\ Provider!Finish(Provider!Reply.verdict, Provider!Reply.message)
        <3>1. Provider!Reply = ReplyTo(received, response.script)
            BY DEF Provider!Reply, ReplyTo
        <3> QED BY <2>2, <3>1, <1>f
    <2>3. CASE ~Provider!Terminal
                 /\ (Provider!Finish("protocol", None) \/ Provider!Finish("incomplete", None))
        BY <2>3, <1>f
    <2> QED BY <1>7, <2>1, <2>2, <2>3 DEF Provider!EndOfBody
<1>8. CASE Provider!ReadFails
    BY <1>8, <1>c, <1>f DEF Provider!ReadFails
<1>9. CASE Provider!Expire \/ Provider!Return \/ Provider!Stop \/ Provider!Cancel
    BY <1>9, <1>k DEF Provider!Expire, Provider!Return, Provider!Stop, Provider!Cancel, ReplyInv
<1>10. CASE UNCHANGED callVars
    BY <1>10, <1>k DEF callVars, ReplyInv
<1> QED BY <1>1, <1>2, <1>3, <1>4, <1>5, <1>6, <1>7, <1>8, <1>9, <1>10 DEF Provider!Next

-----------------------------------------------------------------------------
\* One call of an MCP tool.

McpTypes ==
    /\ client \in {"spawn", "talking", "closing", "reaping", "terminated", "killed", "over"}
    /\ sent \in 0 .. 3 /\ served \in 0 .. 3 /\ ran \in Nat
    /\ ended \in {"none", "text", "failed", "cancelled"}
    /\ child \in {"none", "up", "dead"}
    /\ out \in Seq({"good", "bad"})

\* The client is at most one answer behind: while it talks, a good line in the
\* pipe is the only one and answers its last request.
McpAnswers ==
    /\ served <= sent /\ ran = (IF served = 3 THEN 1 ELSE 0)
    /\ client = "talking" =>
          /\ sent > 0 /\ served \in {sent - 1, sent}
          /\ \A i \in DOMAIN out : out[i] = "good" =>
                served = sent /\ \A j \in DOMAIN out : out[j] = "good" => i = j
    /\ client = "spawn" => sent = 0 /\ served = 0 /\ out = <<>> /\ child = "none"
    /\ client = "closing" => sent = 3 /\ served = 3
    /\ client \in {"spawn", "talking", "closing"} => ended = "none"

McpInv == McpTypes /\ McpAnswers /\ Mcp!TextIsTheAnswer

\* A call starts before its process.
LEMMA McpInit == Mcp!Init => McpInv
<1> SUFFICES ASSUME Mcp!Init PROVE McpInv OBVIOUS
<1>1. McpTypes
    <2>1. out = <<>> /\ <<>> \in Seq({"good", "bad"})
        BY DEF Mcp!Init
    <2> QED BY <2>1 DEF Mcp!Init, McpTypes
<1>2. McpAnswers /\ Mcp!TextIsTheAnswer
    BY DEF Mcp!Init, McpAnswers, Mcp!TextIsTheAnswer
<1> QED BY <1>1, <1>2 DEF McpInv

\* No step of the client or of its child breaks it.
LEMMA McpStep == McpInv /\ [Mcp!Next]_mcpVars => McpInv'
<1> SUFFICES ASSUME McpInv, [Mcp!Next]_mcpVars PROVE McpInv'
    OBVIOUS
<1>i. McpTypes /\ McpAnswers /\ Mcp!TextIsTheAnswer
    BY DEF McpInv
<1> USE DEF Mcp!clientVars, Mcp!childVars
\* The steps that leave the child and its pipe alone.
<1>c. ASSUME UNCHANGED <<child, code, served, ran, out>>, McpTypes', sent' = sent,
             \/ client' = client /\ ended' = ended
             \/ /\ client' \in {"reaping", "terminated", "killed", "over"}
                /\ \/ ended' = ended \/ ended' \in {"failed", "cancelled"}
                   \/ ended' = "text" /\ client = "closing" /\ child = "dead" /\ code = 0 /\ out = <<>>
      PROVE  McpInv'
    BY <1>c, <1>i DEF McpInv, McpAnswers, Mcp!TextIsTheAnswer
<1>1. CASE Mcp!Spawn
    <2>1. McpTypes'
        BY <1>1, <1>i DEF Mcp!Spawn, McpTypes
    <2> QED BY <1>1, <2>1, <1>i DEF Mcp!Spawn, McpInv, McpTypes, McpAnswers, Mcp!TextIsTheAnswer
<1>2. CASE Mcp!SpawnFails
    BY <1>2, <1>c, <1>i DEF Mcp!SpawnFails, McpTypes
<1>3. CASE Mcp!Answered
    <2>1. /\ client = "talking" /\ out # <<>> /\ out[1] = "good" /\ out' = Tail(out)
          /\ UNCHANGED <<ended, child, code, served, ran>>
        BY <1>3, <1>i DEF Mcp!Answered, McpTypes
    <2>2. /\ Tail(out) \in Seq({"good", "bad"}) /\ Len(out) \in Nat \ {0}
          /\ DOMAIN out = 1 .. Len(out) /\ DOMAIN Tail(out) = 1 .. Len(out) - 1
          /\ \A i \in 1 .. Len(out) - 1 : Tail(out)[i] = out[i + 1]
        BY <2>1, <1>i DEF McpTypes
    <2>3. 1 \in DOMAIN out /\ \A i \in DOMAIN out : out[i] = "good" => i = 1
        BY <2>1, <2>2, <1>i DEF McpAnswers
    <2>4. \A i \in DOMAIN Tail(out) : Tail(out)[i] # "good"
        <3> SUFFICES ASSUME NEW i \in DOMAIN Tail(out), out[i + 1] = "good" PROVE FALSE
            BY <2>2
        <3>1. i + 1 \in DOMAIN out /\ i + 1 # 1
            BY <2>2
        <3> QED BY <2>3, <3>1
    <2>5. served = sent /\ ended = "none"
        BY <2>1, <2>3, <1>i DEF McpAnswers
    <2>6. CASE sent < 3
        <3>1. sent' = sent + 1 /\ client' = "talking"
            BY <1>3, <2>6 DEF Mcp!Answered
        <3>2. McpTypes'
            BY <1>i, <2>1, <2>2, <2>6, <3>1 DEF McpTypes
        <3> QED BY <1>i, <2>1, <2>4, <2>5, <3>1, <3>2 DEF McpInv, McpTypes, McpAnswers, Mcp!TextIsTheAnswer
    <2>7. CASE ~(sent < 3)
        <3>1. sent' = sent /\ client' = "closing" /\ sent = 3
            BY <1>3, <2>7, <1>i DEF Mcp!Answered, McpTypes
        <3>2. McpTypes'
            BY <1>i, <2>1, <2>2, <3>1 DEF McpTypes
        <3> QED BY <1>i, <2>1, <2>5, <3>1, <3>2 DEF McpInv, McpAnswers, Mcp!TextIsTheAnswer
    <2> QED BY <2>6, <2>7
<1>4. CASE Mcp!Return
    BY <1>4, <1>c, <1>i DEF Mcp!Return, Mcp!Clean, McpTypes
<1>5. CASE Mcp!Broken \/ Mcp!Deadline \/ Mcp!Cancel
    BY <1>5, <1>c, <1>i DEF Mcp!Broken, Mcp!Deadline, Mcp!Cancel, Mcp!Fail, McpTypes
<1>6. CASE Mcp!Reaped \/ Mcp!Terminate
    BY <1>6, <1>c, <1>i DEF Mcp!Reaped, Mcp!Terminate, McpTypes
<1>7. CASE Mcp!Kill
    <2>1. McpTypes'
        BY <1>7, <1>i DEF Mcp!Kill, McpTypes
    <2> QED BY <1>7, <2>1, <1>i DEF Mcp!Kill, McpInv, McpAnswers, Mcp!TextIsTheAnswer
\* The child lives, so nothing has been returned.
<1>8. CASE Mcp!Serve
    <2>1. /\ child = "up" /\ served < sent /\ served' = served + 1
          /\ ran' = (IF served' = 3 THEN ran + 1 ELSE ran)
          /\ UNCHANGED <<client, sent, ended, child, code>>
        BY <1>8 DEF Mcp!Serve, Mcp!Does
    <2>2. PICK kind \in {"good", "bad"} : out' = Append(out, kind)
        BY <1>8 DEF Mcp!Serve, Mcp!Write
    <2>3. /\ out' \in Seq({"good", "bad"}) /\ DOMAIN out' = 1 .. Len(out) + 1 /\ DOMAIN out = 1 .. Len(out)
          /\ \A i \in DOMAIN out : out'[i] = out[i]
          /\ Len(out) \in Nat
        BY <2>2, <1>i DEF McpTypes
    <2>4. McpTypes'
        BY <2>1, <2>3, <1>i DEF McpTypes
    <2>5. client = "talking" => \A i \in DOMAIN out : out[i] # "good"
        BY <2>1, <1>i DEF McpAnswers, McpTypes
    <2>6. McpAnswers'
        <3>1. served' <= sent' /\ ran' = (IF served' = 3 THEN 1 ELSE 0)
            BY <2>1, <1>i DEF McpAnswers, McpTypes
        <3>2. client = "talking" => \A i \in DOMAIN out' : out'[i] = "good" => i = Len(out) + 1
            BY <2>3, <2>5
        <3>3. client = "talking" => sent > 0 /\ served' = sent
            BY <2>1, <1>i DEF McpAnswers, McpTypes
        <3>4. client = "closing" => FALSE
            BY <2>1, <1>i DEF McpAnswers
        <3> QED BY <2>1, <3>1, <3>2, <3>3, <3>4, <1>i DEF McpAnswers
    <2> QED BY <2>1, <2>4, <2>6, <1>i DEF McpInv, Mcp!TextIsTheAnswer
<1>9. CASE Mcp!Chatter
    <2>1. /\ child = "up" /\ out' = Append(out, "bad")
          /\ UNCHANGED <<client, sent, ended, child, code, served, ran>>
        BY <1>9 DEF Mcp!Chatter, Mcp!Does, Mcp!Write
    <2>3. /\ out' \in Seq({"good", "bad"}) /\ DOMAIN out' = 1 .. Len(out) + 1 /\ DOMAIN out = 1 .. Len(out)
          /\ \A i \in DOMAIN out : out'[i] = out[i]
          /\ out'[Len(out) + 1] = "bad" /\ Len(out) \in Nat
        BY <2>1, <1>i DEF McpTypes
    <2>4. McpTypes'
        BY <2>1, <2>3, <1>i DEF McpTypes
    <2>5. \A i \in DOMAIN out' : out'[i] = "good" => i \in DOMAIN out /\ out[i] = "good"
        BY <2>3
    <2>n. client # "spawn"
        BY <2>1, <1>i DEF McpAnswers
    <2>6. McpAnswers'
        BY <2>1, <2>5, <2>n, <1>i DEF McpAnswers
    <2> QED BY <2>1, <2>4, <2>6, <1>i DEF McpInv, Mcp!TextIsTheAnswer
<1>10. CASE Mcp!Flood
    BY <1>10, <1>c, <1>i DEF Mcp!Flood, Mcp!Does, McpTypes
<1>11. CASE Mcp!Exit
    <2>1. /\ child = "up" /\ child' = "dead"
          /\ UNCHANGED <<client, sent, ended, served, ran, out>>
        BY <1>11 DEF Mcp!Exit, Mcp!Does
    <2>2. McpTypes'
        BY <2>1, <1>i DEF McpTypes
    <2>3. ended # "text"
        BY <2>1, <1>i DEF Mcp!TextIsTheAnswer
    <2> QED BY <2>1, <2>2, <2>3, <1>i DEF McpInv, McpAnswers, Mcp!TextIsTheAnswer
<1>12. CASE UNCHANGED mcpVars
    BY <1>12, <1>i DEF mcpVars, McpInv, McpTypes, McpAnswers, Mcp!TextIsTheAnswer
<1> QED BY <1>1, <1>2, <1>3, <1>4, <1>5, <1>6, <1>7, <1>8, <1>9, <1>10, <1>11, <1>12 DEF Mcp!Next

-----------------------------------------------------------------------------
\* The summaries that callers share.

Summary == [by : Callers, size : Sizes]
Item    == [key : Keys, summary : Summary]
Race    == [active : Nat, winner : Summary \cup {None}]
Holder  == [at : {"idle", "miss", "asked", "have", "agreed", "ok", "failed"},
            key : Keys \cup {None}, ticket : BOOLEAN, summary : Summary \cup {None},
            asked : BOOLEAN]

CacheTypes ==
    /\ holder \in [Callers -> Holder]
    /\ races \in [Keys -> Race]
    /\ items \in Seq(Item) /\ Len(items) <= MaxEntries

\* The callers that are in the race of a key.
Racing(k) == {c \in Callers : holder[c].ticket /\ holder[c].key = k}

CacheRaces == \A k \in Keys :
    /\ races[k].active = Cardinality(Racing(k))
    /\ races[k].winner # None => Cache!Fits(k, races[k].winner)

\* What a caller knows, given the winner of the race of its key.
Holds(r, winner) ==
    /\ r.at # "idle" => r.key \in Keys
    /\ r.at \in {"idle", "ok", "failed"} => ~r.ticket
    /\ r.at \in {"miss", "asked", "agreed"} => r.ticket
    /\ r.at = "have" => r.summary # None
    /\ r.at = "agreed" => r.summary = winner /\ winner # None
    /\ r.at = "ok" => Cache!Fits(r.key, r.summary)

CacheHolders == \A c \in Callers : Holds(holder[c], races[holder[c].key].winner)

CacheInv == CacheTypes /\ CacheRaces /\ CacheHolders

\* The cardinalities of the library are those of the part.
LEMMA CacheCounting == \A S : Cache!Cardinality(S) = Cardinality(S)
BY DEF Cardinality, Cache!Cardinality

\* An idle caller holds nothing.
LEMMA IdleHolds == Cache!Idle \in Holder /\ Cache!Idle.at = "idle" /\ ~Cache!Idle.ticket
BY DEF Cache!Idle, Holder

\* The cache starts empty, with no race.
LEMMA CacheInit == Cache!Init => CacheInv
<1> SUFFICES ASSUME Cache!Init PROVE CacheInv OBVIOUS
<1>1. /\ \A c \in Callers : holder[c] = Cache!Idle
      /\ \A k \in Keys : races[k] = Cache!NoRace
      /\ holder \in [Callers -> Holder]
    BY IdleHolds DEF Cache!Init
<1>2. Cache!NoRace \in Race /\ Cache!NoRace.active = 0 /\ Cache!NoRace.winner = None
    BY DEF Cache!NoRace, Race
<1>3. items = <<>> /\ races \in [Keys -> Race] /\ <<>> \in Seq(Item) /\ Len(<<>>) = 0
    BY <1>2 DEF Cache!Init
<1>4. \A k \in Keys : Racing(k) = {}
    BY <1>1, IdleHolds DEF Racing
<1>5. CacheTypes
    BY <1>1, <1>3, PartsAssumption DEF CacheTypes
<1>6. CacheRaces
    BY <1>1, <1>2, <1>4, FS_EmptySet DEF CacheRaces
<1>7. CacheHolders
    BY <1>1, IdleHolds DEF CacheHolders, Holds
<1> QED BY <1>5, <1>6, <1>7 DEF CacheInv

\* The property of the run, from the invariant.
LEMMA CacheSafe == CacheInv => Cache!OverlapAgrees
<1> SUFFICES ASSUME CacheInv PROVE Cache!OverlapAgrees OBVIOUS
<1>i. CacheTypes /\ CacheRaces /\ CacheHolders
    BY DEF CacheInv
<1>1. \A c \in Callers : holder[c].at = "agreed" =>
          holder[c].key \in Keys /\ holder[c].summary = races[holder[c].key].winner
                                 /\ races[holder[c].key].winner # None
    BY <1>i DEF CacheHolders, Holds
<1>2. \A c \in Callers : holder[c].at \in {"agreed", "ok"} => Cache!Fits(holder[c].key, holder[c].summary)
    BY <1>1, <1>i DEF CacheHolders, CacheRaces, Holds
<1>3. \A k \in Keys : races[k].active = Cache!Cardinality(Racing(k))
    BY <1>i, CacheCounting DEF CacheRaces
<1> QED BY <1>1, <1>2, <1>3, <1>i DEF Cache!OverlapAgrees, Racing, CacheTypes

\* A summary that is used goes to the end of the cache, which stays within its
\* size.
LEMMA CacheUse ==
    ASSUME CacheTypes, NEW item \in Item
    PROVE  Cache!Use(item) \in Seq(Item) /\ Len(Cache!Use(item)) <= MaxEntries
<1> DEFINE W == Cache!Without(item.key)
           all == Append(W, item)
<1>1. W \in Seq(Item) /\ Len(W) <= MaxEntries /\ Len(W) \in Nat
    <2>1. CASE Cache!Resident(item.key) = {}
        BY <2>1, LenProperties DEF CacheTypes, Cache!Without
    <2>2. CASE Cache!Resident(item.key) # {}
        <3> DEFINE p == CHOOSE i \in Cache!Resident(item.key) : TRUE
        <3>1. p \in DOMAIN items
            BY <2>2 DEF Cache!Resident
        <3>2. W = Drop(items, p)
            BY <2>2 DEF Cache!Without, Cache!RemoveAt, Drop
        <3> HIDE DEF p, W
        <3>3. W \in Seq(Item) /\ Len(W) = Len(items) - 1
            BY <3>1, <3>2, Shortened DEF CacheTypes
        <3>4. Len(items) \in Nat /\ Len(W) \in Nat
            BY <3>3, LenProperties DEF CacheTypes
        <3> QED BY <3>3, <3>4, PartsAssumption DEF CacheTypes
    <2> QED BY <2>1, <2>2
<1>2. Cache!Use(item) = IF Len(all) > MaxEntries THEN Tail(all) ELSE all
    BY DEF Cache!Use
<1> HIDE DEF W
<1>3. all \in Seq(Item) /\ Len(all) = Len(W) + 1
    BY <1>1, AppendProperties
<1> HIDE DEF all
<1>4. Len(all) > MaxEntries => Tail(all) \in Seq(Item) /\ Len(Tail(all)) = Len(all) - 1
    <2>1. Len(all) > MaxEntries => all # <<>>
        BY <1>1, <1>3, PartsAssumption
    <2> QED BY <2>1, <1>3, HeadTailProperties
<1> QED BY <1>1, <1>2, <1>3, <1>4, PartsAssumption

\* A caller goes on in its race, or out of any, and may decide it.
LEMMA CacheMove ==
    ASSUME CacheInv, NEW c \in Callers, NEW r \in Holder, CacheTypes',
           holder' = [holder EXCEPT ![c] = r],
           r.ticket = holder[c].ticket, r.ticket => r.key = holder[c].key,
           races' = races, Holds(r, races[r.key].winner)
    PROVE  CacheInv'
<1>i. CacheTypes /\ CacheRaces /\ CacheHolders
    BY DEF CacheInv
<1>1. \A d \in Callers : holder'[d] = IF d = c THEN r ELSE holder[d]
    BY <1>i DEF CacheTypes
<1>2. \A k \in Keys : Racing(k)' = Racing(k)
    BY <1>1 DEF Racing
<1>3. CacheRaces'
    BY <1>2, <1>i DEF CacheRaces, Cache!Fits
<1>4. CacheHolders'
    BY <1>1, <1>i DEF CacheHolders, Holds, Cache!Fits
<1> QED BY <1>3, <1>4 DEF CacheInv

\* A caller that is done leaves its race, which is forgotten with the last.
LEMMA CacheLeave ==
    ASSUME CacheInv, NEW c \in Callers, NEW to \in {"ok", "failed"}, Cache!Leave(c, to),
           holder[c].at # "idle", UNCHANGED <<items, calls>>,
           to = "ok" => Cache!Fits(holder[c].key, holder[c].summary)
    PROVE  CacheInv'
<1>i. CacheTypes /\ CacheRaces /\ CacheHolders
    BY DEF CacheInv
<1>0. PICK h \in Holder : h = holder[c]
    BY <1>i DEF CacheTypes
<1> DEFINE r == [h EXCEPT !.at = to, !.ticket = FALSE]
           k == h.key
<1>h. h \in Holder /\ h = holder[c] /\ k \in Keys
    BY <1>0, <1>i DEF CacheHolders, Holds
<1>r. /\ r \in Holder /\ r.at = to /\ ~r.ticket /\ r.key = k /\ r.summary = h.summary
      /\ r.asked = h.asked
    BY <1>h DEF Holder
<1>1. /\ holder' = [holder EXCEPT ![c] = r]
      /\ IF h.ticket THEN Cache!Finish(k) ELSE UNCHANGED races
    BY <1>0 DEF Cache!Leave, Cache!Go
<1> HIDE DEF r
<1>2. \A d \in Callers : holder'[d] = IF d = c THEN r ELSE holder[d]
    BY <1>1, <1>i DEF CacheTypes
<1>3. holder' \in [Callers -> Holder]
    BY <1>1, <1>r, <1>i DEF CacheTypes
<1>4. CASE ~h.ticket
    <2>1. races' = races
        BY <1>1, <1>4
    <2>2. CacheTypes'
        BY <2>1, <1>3, <1>i DEF CacheTypes
    <2>3. Holds(r, races[r.key].winner)
        BY <1>r, <1>h DEF Holds, Cache!Fits
    <2>4. r.ticket = h.ticket
        BY <1>r, <1>h, <1>4 DEF Holder
    <2> QED BY <2>1, <2>2, <2>3, <2>4, <1>1, <1>r, <1>h, CacheMove
<1>5. CASE h.ticket
    <2>1. races' = [races EXCEPT ![k] = IF races[k].active = 1 THEN Cache!NoRace
                                        ELSE [races[k] EXCEPT !.active = @ - 1]]
        BY <1>1, <1>5 DEF Cache!Finish
    <2>2. /\ races[k] \in Race /\ races[k].active \in Nat /\ races[k].active = Cardinality(Racing(k))
        BY <1>i, <1>h DEF CacheTypes, CacheRaces, Race
    <2>3. c \in Racing(k) /\ IsFiniteSet(Racing(k))
        <3>1. Racing(k) \subseteq Callers
            BY DEF Racing
        <3> QED BY <1>5, <1>h, <3>1, PartsAssumption, FS_Subset DEF Racing
    <2>4. Racing(k)' = Racing(k) \ {c}
        BY <1>2, <1>r DEF Racing
    <2>5. Cardinality(Racing(k) \ {c}) = Cardinality(Racing(k)) - 1 /\ Cardinality(Racing(k) \ {c}) \in Nat
        <3> HIDE DEF k
        <3> QED BY <2>3, FS_RemoveElement, FS_CardinalityType
    <2>6. /\ races'[k] \in Race /\ races'[k].active = races[k].active - 1
          /\ races[k].active # 1 => races'[k].winner = races[k].winner
          /\ races[k].active = 1 => races'[k].winner = None
        <3>1. Cache!NoRace \in Race /\ Cache!NoRace.active = 0 /\ Cache!NoRace.winner = None
            BY DEF Cache!NoRace, Race
        <3>2. races[k].active - 1 \in Nat
            BY <2>2, <2>5
        <3> DEFINE one == [races[k] EXCEPT !.active = @ - 1]
        <3>3. one \in Race /\ one.active = races[k].active - 1 /\ one.winner = races[k].winner
            BY <2>2, <3>2 DEF Race
        <3>4. races'[k] = IF races[k].active = 1 THEN Cache!NoRace ELSE one
            BY <2>1, <1>h, <1>i DEF CacheTypes
        <3> HIDE DEF one, k
        <3> QED BY <3>1, <3>3, <3>4, <2>2
    <2>7. /\ races' \in [Keys -> Race] /\ \A j \in Keys : j # k => races'[j] = races[j]
        BY <2>1, <2>6, <1>h, <1>i DEF CacheTypes
    <2>8. CacheTypes'
        BY <2>7, <1>3, <1>i DEF CacheTypes
    <2>9. CacheRaces'
        <3> SUFFICES ASSUME NEW j \in Keys
                     PROVE  /\ races'[j].active = Cardinality(Racing(j)')
                            /\ races'[j].winner # None => Cache!Fits(j, races'[j].winner)
            BY DEF CacheRaces, Cache!Fits
        <3>1. CASE j = k
            <4>1. races[k].winner # None => Cache!Fits(k, races[k].winner)
                BY <1>i, <1>h DEF CacheRaces
            <4> HIDE DEF k
            <4>2. races'[k].active = Cardinality(Racing(k)')
                BY <2>2, <2>4, <2>5, <2>6
            <4>3. races'[k].winner # None => Cache!Fits(k, races'[k].winner)
                BY <2>6, <4>1 DEF Cache!Fits
            <4>4. Racing(j)' = Racing(k)'
                BY <3>1 DEF Racing
            <4> QED BY <3>1, <4>2, <4>3, <4>4
        <3>2. CASE j # k
            <4>1. Racing(j)' = Racing(j)
                BY <1>2, <1>r, <1>h, <3>2 DEF Racing
            <4> QED BY <4>1, <3>2, <2>7, <1>i DEF CacheRaces
        <3> QED BY <3>1, <3>2
    \* With nobody left in the race, nobody has agreed in it.
    <2>10. CacheHolders'
        <3> SUFFICES ASSUME NEW d \in Callers
                     PROVE  Holds(holder'[d], races'[holder'[d].key].winner)
            BY DEF CacheHolders, Holds, Cache!Fits
        <3>1. CASE d = c
            BY <3>1, <1>2, <1>r, <1>h DEF Holds, Cache!Fits
        <3>2. CASE d # c
            <4>1. holder'[d] = holder[d] /\ Holds(holder[d], races[holder[d].key].winner)
                BY <3>2, <1>2, <1>i DEF CacheHolders
            <4>2. CASE holder[d].at # "agreed"
                BY <4>1, <4>2 DEF Holds
            <4>3. CASE holder[d].at = "agreed"
                <5>1. holder[d].key \in Keys /\ holder[d].ticket
                    BY <4>1, <4>3 DEF Holds
                <5>2. CASE holder[d].key # k
                    BY <5>1, <5>2, <4>1, <2>7
                <5>3. CASE holder[d].key = k
                    <6>1. d \in Racing(k) \ {c}
                        BY <3>2, <5>1, <5>3 DEF Racing
                    <6>2. races[k].active # 1
                        <7>1. IsFiniteSet(Racing(k) \ {c})
                            BY <2>3, FS_RemoveElement
                        <7> HIDE DEF k
                        <7>2. Cardinality(Racing(k) \ {c}) # 0
                            BY <7>1, <6>1, FS_EmptySet
                        <7> QED BY <7>2, <2>2, <2>5
                    <6> QED BY <6>2, <2>6, <5>3, <4>1
                <5> QED BY <5>2, <5>3
            <4> QED BY <4>2, <4>3
        <3> QED BY <3>1, <3>2
    <2> QED BY <2>8, <2>9, <2>10 DEF CacheInv
<1> QED BY <1>4, <1>5

\* No step of a caller or of the summarizer breaks the agreement.
LEMMA CacheStep == CacheInv /\ [Cache!Next]_cacheVars => CacheInv'
<1> SUFFICES ASSUME CacheInv, [Cache!Next]_cacheVars PROVE CacheInv'
    OBVIOUS
<1>i. CacheTypes /\ CacheRaces /\ CacheHolders
    BY DEF CacheInv
<1>t. holder \in [Callers -> Holder] /\ races \in [Keys -> Race] /\ items \in Seq(Item)
    BY <1>i DEF CacheTypes
<1>n. None \notin Summary
    BY PartsAssumption DEF Summary
<1>1. ASSUME NEW c \in Callers, NEW k \in Keys, Cache!Hit(c, k) PROVE CacheInv'
    <2> DEFINE j == CHOOSE i \in Cache!Resident(k) : TRUE
               item == items[j]
               r == [Cache!Idle EXCEPT !.at = "have", !.key = k, !.summary = item.summary]
    <2>1. j \in DOMAIN items /\ item.key = k
        BY <1>1 DEF Cache!Hit, Cache!Resident
    <2>2. item \in Item /\ item.summary \in Summary
        <3> HIDE DEF j
        <3>1. DOMAIN items = 1 .. Len(items) /\ \A i \in 1 .. Len(items) : items[i] \in Item
            BY <1>t, LenProperties
        <3>2. item \in Item
            BY <2>1, <3>1
        <3> QED BY <3>2 DEF Item
    <2>3. /\ holder[c].at = "idle" /\ items' = Cache!Use(item) /\ holder' = [holder EXCEPT ![c] = r]
          /\ races' = races
        BY <1>1 DEF Cache!Hit, Cache!Go
    <2> HIDE DEF item
    <2>4. r \in Holder /\ r.at = "have" /\ ~r.ticket /\ r.key = k /\ r.summary = item.summary
        BY <2>2 DEF Cache!Idle, Holder
    <2> HIDE DEF r
    <2>5. CacheTypes'
        <3>1. holder' \in [Callers -> Holder]
            BY <2>3, <2>4, <1>t
        <3>2. items' \in Seq(Item) /\ Len(items') <= MaxEntries
            BY <2>2, <2>3, <1>i, CacheUse
        <3> QED BY <3>1, <3>2, <2>3, <1>t DEF CacheTypes
    <2>6. Holds(r, races[r.key].winner)
        BY <2>2, <2>4, <1>n DEF Holds
    <2>7. r.ticket = holder[c].ticket
        <3>1. ~holder[c].ticket /\ holder[c] \in Holder
            BY <2>3, <1>i, <1>t DEF CacheHolders, Holds
        <3> QED BY <3>1, <2>4 DEF Holder
    <2> QED BY <2>3, <2>4, <2>5, <2>6, <2>7, CacheMove
<1>2. ASSUME NEW c \in Callers, NEW k \in Keys, Cache!Join(c, k) PROVE CacheInv'
    <2> DEFINE one == [races[k] EXCEPT !.active = @ + 1]
               r == [Cache!Idle EXCEPT !.at = IF races[k].winner = None THEN "miss" ELSE "have",
                          !.key = k, !.ticket = TRUE, !.summary = races[k].winner]
    <2>1. /\ holder[c].at = "idle" /\ holder' = [holder EXCEPT ![c] = r]
          /\ races' = [races EXCEPT ![k] = one] /\ items' = items
        BY <1>2 DEF Cache!Join, Cache!Go
    <2>2. races[k] \in Race /\ races[k].active \in Nat /\ races[k].winner \in Summary \cup {None}
        BY <1>t DEF Race
    <2>3. one \in Race /\ one.active = races[k].active + 1 /\ one.winner = races[k].winner
        BY <2>2 DEF Race
    <2>4. /\ r \in Holder /\ r.at = (IF races[k].winner = None THEN "miss" ELSE "have")
          /\ r.ticket /\ r.key = k /\ r.summary = races[k].winner
        <3>1. Cache!Idle \in Holder
            BY IdleHolds
        <3> QED BY <3>1, <2>2 DEF Holder
    <2> HIDE DEF one, r
    <2>5. /\ \A d \in Callers : holder'[d] = IF d = c THEN r ELSE holder[d]
          /\ \A l \in Keys : races'[l] = IF l = k THEN one ELSE races[l]
        BY <2>1, <1>t
    <2>6. CacheTypes'
        BY <2>1, <2>3, <2>4, <1>i DEF CacheTypes
    <2>7. CacheRaces'
        <3> SUFFICES ASSUME NEW l \in Keys
                     PROVE  /\ races'[l].active = Cardinality(Racing(l)')
                            /\ races'[l].winner # None => Cache!Fits(l, races'[l].winner)
            BY DEF CacheRaces, Cache!Fits
        <3>0. /\ races[l].active = Cardinality(Racing(l))
              /\ races[l].winner # None => Cache!Fits(l, races[l].winner)
            BY <1>i DEF CacheRaces
        <3>1. races'[l].winner # None => Cache!Fits(l, races'[l].winner)
            BY <2>3, <2>5, <3>0
        <3>2. ~holder[c].ticket
            BY <2>1, <1>i DEF CacheHolders, Holds
        <3>3. CASE l = k
            <4>1. Racing(l)' = Racing(l) \cup {c} /\ c \notin Racing(l)
                BY <3>2, <3>3, <2>4, <2>5 DEF Racing
            <4>2. IsFiniteSet(Racing(l))
                <5>1. Racing(l) \subseteq Callers
                    BY DEF Racing
                <5> QED BY <5>1, PartsAssumption, FS_Subset
            <4>3. Cardinality(Racing(l) \cup {c}) = Cardinality(Racing(l)) + 1
                BY <4>1, <4>2, FS_AddElement
            <4> QED BY <3>0, <3>1, <3>3, <4>1, <4>3, <2>3, <2>5
        <3>4. CASE l # k
            <4>1. Racing(l)' = Racing(l)
                BY <3>2, <3>4, <2>4, <2>5 DEF Racing
            <4> QED BY <3>0, <3>1, <3>4, <4>1, <2>5
        <3> QED BY <3>3, <3>4
    <2>8. CacheHolders'
        <3> SUFFICES ASSUME NEW d \in Callers
                     PROVE  Holds(holder'[d], races'[holder'[d].key].winner)
            BY DEF CacheHolders, Holds, Cache!Fits
        <3>1. CASE d = c
            BY <3>1, <2>3, <2>4, <2>5 DEF Holds
        <3>2. CASE d # c
            <4>1. holder'[d] = holder[d] /\ Holds(holder[d], races[holder[d].key].winner)
                BY <3>2, <2>5, <1>i DEF CacheHolders
            <4> QED BY <4>1, <2>3, <2>5 DEF Holds
        <3> QED BY <3>1, <3>2
    <2> QED BY <2>6, <2>7, <2>8 DEF CacheInv
\* A caller in the race asks, and takes what it is answered.
<1>3. ASSUME NEW c \in Callers, Cache!Ask(c) PROVE CacheInv'
    <2> DEFINE r == [holder[c] EXCEPT !.at = "asked", !.asked = TRUE]
    <2>1. holder[c] \in Holder /\ holder[c].at = "miss" /\ holder[c].key \in Keys /\ holder[c].ticket
        BY <1>3, <1>i, <1>t DEF Cache!Ask, CacheHolders, Holds
    <2>2. holder' = [holder EXCEPT ![c] = r] /\ UNCHANGED <<items, races>>
        BY <1>3 DEF Cache!Ask, Cache!Go
    <2>3. r \in Holder /\ r.at = "asked" /\ r.key = holder[c].key /\ r.ticket = holder[c].ticket
        BY <2>1 DEF Holder
    <2> HIDE DEF r
    <2>4. Holds(r, races[r.key].winner)
        BY <2>1, <2>3 DEF Holds
    <2>5. CacheTypes'
        BY <2>2, <2>3, <1>i DEF CacheTypes
    <2> QED BY <2>2, <2>3, <2>4, <2>5, CacheMove
<1>4. ASSUME NEW c \in Callers, NEW size \in Sizes, Cache!Answer(c, size) PROVE CacheInv'
    <2> DEFINE s == [by |-> c, size |-> size]
               r == [holder[c] EXCEPT !.at = "have", !.summary = s]
    <2>1. holder[c] \in Holder /\ holder[c].at = "asked" /\ holder[c].key \in Keys /\ holder[c].ticket
        BY <1>4, <1>i, <1>t DEF Cache!Answer, CacheHolders, Holds
    <2>2. holder' = [holder EXCEPT ![c] = r] /\ UNCHANGED <<items, races>>
        BY <1>4 DEF Cache!Answer, Cache!Go
    <2>3. s \in Summary
        BY DEF Summary
    <2> HIDE DEF s
    <2>4. r \in Holder /\ r.at = "have" /\ r.key = holder[c].key /\ r.ticket = holder[c].ticket
            /\ r.summary = s
        BY <2>1, <2>3 DEF Holder
    <2> HIDE DEF r
    <2>5. Holds(r, races[r.key].winner)
        BY <2>1, <2>3, <2>4, <1>n DEF Holds
    <2>6. CacheTypes'
        BY <2>2, <2>4, <1>i DEF CacheTypes
    <2> QED BY <2>2, <2>4, <2>5, <2>6, CacheMove
<1>5. ASSUME NEW c \in Callers, Cache!AnswerFails(c) \/ Cache!TooLarge(c) PROVE CacheInv'
    <2>1. Cache!Leave(c, "failed") /\ holder[c].at # "idle" /\ UNCHANGED <<items, calls>>
        BY <1>5 DEF Cache!AnswerFails, Cache!TooLarge
    <2> QED BY <2>1, CacheLeave
<1>6. ASSUME NEW c \in Callers, Cache!Succeed(c) PROVE CacheInv'
    <2>1. Cache!Leave(c, "ok") /\ holder[c].at # "idle" /\ UNCHANGED <<items, calls>>
        BY <1>6 DEF Cache!Succeed
    <2>2. Cache!Fits(holder[c].key, holder[c].summary)
        BY <1>6, <1>i, CacheSafe DEF Cache!Succeed, Cache!OverlapAgrees
    <2> QED BY <2>1, <2>2, CacheLeave
<1>7. ASSUME NEW c \in Callers, Cache!Return(c) PROVE CacheInv'
    <2>1. /\ holder[c].at \in {"ok", "failed"} /\ holder' = [holder EXCEPT ![c] = Cache!Idle]
          /\ UNCHANGED <<items, races>>
        BY <1>7 DEF Cache!Return, Cache!Go
    <2>2. Cache!Idle.ticket = holder[c].ticket
        <3>1. ~holder[c].ticket /\ holder[c] \in Holder
            BY <2>1, <1>i, <1>t DEF CacheHolders, Holds
        <3> QED BY <3>1, IdleHolds DEF Holder
    <2>3. Holds(Cache!Idle, races[Cache!Idle.key].winner)
        BY IdleHolds DEF Holds
    <2>4. CacheTypes'
        BY <2>1, IdleHolds, <1>i DEF CacheTypes
    <2> QED BY <2>1, <2>2, <2>3, <2>4, IdleHolds, CacheMove
\* The race is decided, or decides.
<1>8. ASSUME NEW c \in Callers, Cache!Publish(c) PROVE CacheInv'
    <2>0. PICK h \in Holder : h = holder[c]
        BY <1>t
    <2> DEFINE k == h.key
    <2>1. /\ h.at = "have" /\ Cache!Fits(k, h.summary) /\ h.ticket /\ k \in Keys
          /\ h.summary \in Summary /\ h.summary # None
        BY <1>8, <2>0, <1>i DEF Cache!Publish, CacheHolders, Holds, Holder
    <2>2. CASE Cache!Settled(k)
        <3> DEFINE r == [h EXCEPT !.at = "agreed", !.summary = races[k].winner]
        <3>1. holder' = [holder EXCEPT ![c] = r] /\ UNCHANGED <<items, races>>
            BY <1>8, <2>0, <2>2 DEF Cache!Publish, Cache!Go
        <3>2. races[k].winner # None /\ races[k].winner \in Summary \cup {None}
            BY <2>1, <2>2, <1>t DEF Cache!Settled, Race
        <3>3. r \in Holder /\ r.at = "agreed" /\ r.key = k /\ r.ticket = h.ticket
                /\ r.summary = races[k].winner
            BY <2>1, <3>2 DEF Holder
        <3> HIDE DEF r
        <3>4. Holds(r, races[r.key].winner)
            BY <2>1, <3>2, <3>3 DEF Holds
        <3>5. CacheTypes'
            BY <3>1, <3>3, <1>i DEF CacheTypes
        <3> QED BY <2>0, <3>1, <3>3, <3>4, <3>5, CacheMove
    <2>3. CASE ~Cache!Settled(k)
        <3> DEFINE r == [h EXCEPT !.at = "agreed"]
                   one == [races[k] EXCEPT !.winner = h.summary]
                   item == [key |-> k, summary |-> h.summary]
        <3>1. /\ holder' = [holder EXCEPT ![c] = r] /\ items' = Cache!Use(item)
              /\ races' = [races EXCEPT ![k] = one]
            BY <1>8, <2>0, <2>3 DEF Cache!Publish, Cache!Go
        <3>2. r \in Holder /\ r.at = "agreed" /\ r.key = k /\ r.ticket = h.ticket /\ r.summary = h.summary
            BY <2>1 DEF Holder
        <3>3. one \in Race /\ one.active = races[k].active /\ one.winner = h.summary
            BY <2>1, <1>t DEF Race
        <3>4. item \in Item
            BY <2>1 DEF Item
        <3>5. races[k].winner = None
            BY <2>3 DEF Cache!Settled
        <3> HIDE DEF r, one, item, k
        <3>6. /\ \A d \in Callers : holder'[d] = IF d = c THEN r ELSE holder[d]
              /\ \A l \in Keys : races'[l] = IF l = k THEN one ELSE races[l]
            BY <3>1, <2>1, <1>t
        <3>7. CacheTypes'
            <4>1. items' \in Seq(Item) /\ Len(items') <= MaxEntries
                BY <3>1, <3>4, <1>i, CacheUse
            <4>2. holder' \in [Callers -> Holder] /\ races' \in [Keys -> Race]
                BY <3>1, <3>2, <3>3, <1>t
            <4> QED BY <4>1, <4>2 DEF CacheTypes
        <3>8. \A l \in Keys : Racing(l)' = Racing(l)
            BY <3>2, <3>6, <2>0 DEF Racing, k
        <3>9. CacheRaces'
            <4> SUFFICES ASSUME NEW l \in Keys
                         PROVE  /\ races'[l].active = Cardinality(Racing(l)')
                                /\ races'[l].winner # None => Cache!Fits(l, races'[l].winner)
                BY DEF CacheRaces, Cache!Fits
            <4> QED BY <3>3, <3>6, <3>8, <2>1, <1>i DEF CacheRaces
        <3>10. CacheHolders'
            <4> SUFFICES ASSUME NEW d \in Callers
                         PROVE  Holds(holder'[d], races'[holder'[d].key].winner)
                BY DEF CacheHolders, Holds, Cache!Fits
            <4>1. CASE d = c
                <5>1. Holds(r, h.summary)
                    BY <2>1, <3>2 DEF Holds, Holder, k
                <5>2. holder'[d] = r /\ r.key = k /\ races'[k].winner = h.summary
                    BY <4>1, <3>2, <3>3, <3>6, <2>1
                <5> QED BY <5>1, <5>2
            <4>2. CASE d # c
                <5>1. holder'[d] = holder[d] /\ Holds(holder[d], races[holder[d].key].winner)
                    BY <4>2, <3>6, <1>i DEF CacheHolders
                <5>2. holder[d].at = "agreed" => holder[d].key \in Keys /\ holder[d].key # k
                    BY <5>1, <3>5 DEF Holds
                <5> QED BY <5>1, <5>2, <3>6 DEF Holds
            <4> QED BY <4>1, <4>2
        <3> QED BY <3>7, <3>9, <3>10 DEF CacheInv
    <2> QED BY <2>2, <2>3
<1>9. CASE UNCHANGED cacheVars
    BY <1>9, <1>i DEF cacheVars, CacheInv, CacheTypes, CacheRaces, CacheHolders, Racing, Holds, Cache!Fits
<1> QED BY <1>1, <1>2, <1>3, <1>4, <1>5, <1>6, <1>7, <1>8, <1>9 DEF Cache!Next
-----------------------------------------------------------------------------
\* The theorems.  A step of the whole is a step of each component or leaves it
\* alone.

\* The steps of the tool component.
LEMMA ToolSteps == [Next]_vars => [Tool!Next]_toolVars
BY DEF Next, ToolNext, StreamNext, ProviderNext, McpNext, StoreNext, PageNext, CacheNext,
       ContextNext, SchemaNext, IndexNext, vars,
       toolVars, streamVars, callVars, mcpVars, storeVars, pageVars,
       cacheVars, contextVars, schemaVars, indexVars

\* The steps of the stream component.
LEMMA StreamSteps == [Next]_vars => [Stream!Next]_streamVars
BY DEF Next, ToolNext, StreamNext, ProviderNext, McpNext, StoreNext, PageNext, CacheNext,
       ContextNext, SchemaNext, IndexNext, vars,
       toolVars, streamVars, callVars, mcpVars, storeVars, pageVars,
       cacheVars, contextVars, schemaVars, indexVars

\* The steps of the provider component.
LEMMA CallSteps == [Next]_vars => [Provider!Next]_callVars
BY DEF Next, ToolNext, StreamNext, ProviderNext, McpNext, StoreNext, PageNext, CacheNext,
       ContextNext, SchemaNext, IndexNext, vars,
       toolVars, streamVars, callVars, mcpVars, storeVars, pageVars,
       cacheVars, contextVars, schemaVars, indexVars

\* The steps of the MCP component.
LEMMA McpSteps == [Next]_vars => [Mcp!Next]_mcpVars
BY DEF Next, ToolNext, StreamNext, ProviderNext, McpNext, StoreNext, PageNext, CacheNext,
       ContextNext, SchemaNext, IndexNext, vars,
       toolVars, streamVars, callVars, mcpVars, storeVars, pageVars,
       cacheVars, contextVars, schemaVars, indexVars

\* The steps of the cache component.
LEMMA CacheSteps == [Next]_vars => [Cache!Next]_cacheVars
BY DEF Next, ToolNext, StreamNext, ProviderNext, McpNext, StoreNext, PageNext, CacheNext,
       ContextNext, SchemaNext, IndexNext, vars,
       toolVars, streamVars, callVars, mcpVars, storeVars, pageVars,
       cacheVars, contextVars, schemaVars, indexVars

\* A tool's result is committed only when each event it reported and was told
\* of has been observed, one after the other (runtime.py).
THEOREM ProgressComesFirst == Spec => []ProgressPrecedesResult
<1>1. Init => ToolInv
    BY ToolInit DEF Init
<1>2. ToolInv /\ [Next]_vars => ToolInv'
    BY ToolStep, ToolSteps
<1>3. ToolInv => ProgressPrecedesResult
    BY ToolSafe DEF ProgressPrecedesResult
<1> QED BY <1>1, <1>2, <1>3, PTL DEF Spec

\* A reply is accepted only from a stream that starts, goes on with deltas and
\* ends with a done, and it is the one that done carries (runtime.py).
THEOREM OnlyWholeStreamsReply == Spec => []ReplyIsTheStreams
<1>1. Init => StreamInv
    BY StreamInit DEF Init
<1>2. StreamInv /\ [Next]_vars => StreamInv'
    BY StreamStep, StreamSteps
<1>3. StreamInv => ReplyIsTheStreams
    BY DEF StreamInv, ReplyIsTheStreams
<1> QED BY <1>1, <1>2, <1>3, PTL DEF Spec

\* A call whose caller has gone keeps no thread blocked on an open socket, for
\* any script a provider sends (_provider_common.py).
THEOREM NoThreadIsLeftBlocked == Spec => []GivenUpIsAborted
<1>1. Init => CallInv
    BY CallInit DEF Init
<1>2. CallInv /\ [Next]_vars => CallInv'
    BY CallStep, CallSteps
<1>3. CallInv => GivenUpIsAborted
    BY DEF CallInv, GivenUpIsAborted
<1> QED BY <1>1, <1>2, <1>3, PTL DEF Spec

\* A reply is returned only when the provider's stream was read to its end, and
\* it is the message that the events carry, with a normal stop; and a message
\* that was sent whole and read to the end is returned and not refused
\* (provider_anthropic.py, provider_openai.py, _provider_common.py).
THEOREM RepliesAreWhole == Spec => []ReplyIsWhole
<1>1. Init => ReplyInv
    BY ReplyInit DEF Init
<1>2. ReplyInv /\ [Next]_vars => ReplyInv'
    BY ReplyStep, CallSteps
<1>3. ReplyInv => ReplyIsWhole
    BY ReplySafe DEF ReplyIsWhole
<1> QED BY <1>1, <1>2, <1>3, PTL DEF Spec

\* A text is returned only when the server has run the tool, once, and its
\* process has ended well with nothing more in its pipes (mcp_stdio.py).
THEOREM TextWasAnswered == Spec => []TextIsTheAnswer
<1>1. Init => McpInv
    BY McpInit DEF Init
<1>2. McpInv /\ [Next]_vars => McpInv'
    BY McpStep, McpSteps
<1>3. McpInv => TextIsTheAnswer
    BY DEF McpInv, TextIsTheAnswer
<1> QED BY <1>1, <1>2, <1>3, PTL DEF Spec

\* Callers that overlap on a missing key end up with one summary, also when the
\* cache is full and evicts it in between.
THEOREM OneSummaryForAll == Spec => []OverlapAgrees
<1>1. Init => CacheInv
    BY CacheInit DEF Init
<1>2. CacheInv /\ [Next]_vars => CacheInv'
    BY CacheStep, CacheSteps
<1>3. CacheInv => OverlapAgrees
    BY CacheSafe DEF OverlapAgrees
<1> QED BY <1>1, <1>2, <1>3, PTL DEF Spec
=============================================================================
