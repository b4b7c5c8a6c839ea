---------------------------- MODULE ReassemblyProofs ---------------------------
(***************************************************************************)
(* Theorems about the reassembly of one direction of a TCP connection, for *)
(* every modulus, limit, sender and order of arrival.                      *)
(***************************************************************************)
EXTENDS Reassembly, BasicLemmas, SequenceTheorems

Size == Len(Sent)

-------------------------------------------------------------------------------
(* Sequence numbers *)

LEMMA SenderConstants ==
    /\ Modulus \in Nat /\ Modulus > 0 /\ MaxDepth \in Nat /\ MaxDepth > 0 /\ MaxChunks \in Nat
    /\ Size \in Nat /\ Modulus > 2 * Size
    /\ Sent \in Seq(Nat) /\ Len(Sent) = Size /\ \A i \in 1..Size : Sent[i] = i
    /\ ISNs \subseteq 0..(Modulus - 1)
    /\ \A s \in Segments : s[1] \in 1..Size /\ s[2] \in 1..Size /\ s[1] <= s[2]
BY LimitsAssumption, SenderAssumption DEF Size

LEMMA SeqAtIs ==
    ASSUME isn \in ISNs, NEW i \in 0..(Size + 1)
    PROVE  /\ isn \in 0..(Modulus - 1) /\ SeqAt(i) \in 0..(Modulus - 1)
           /\ SeqAt(i) = IF isn + i < Modulus THEN isn + i ELSE isn + i - Modulus
<1>1. isn \in 0..(Modulus - 1)
  BY SenderConstants
<1>2. isn \in Int /\ i \in Int /\ Modulus \in Nat /\ Modulus > 0 /\ Modulus > 2 * Size /\ Size \in Nat
  BY <1>1, SenderConstants
<1>3. isn + i \in 0..(2 * Modulus - 1)
  BY <1>1, <1>2
<1>4. CASE isn + i < Modulus
  <2>1. isn + i \in 0..(Modulus - 1)
    BY <1>2, <1>3, <1>4
  <2>2. (isn + i) % Modulus = isn + i
    BY <1>2, <2>1, ModOf
  <2> QED
    BY <1>1, <1>4, <2>1, <2>2 DEF SeqAt
<1>5. CASE ~ (isn + i < Modulus)
  <2>1. isn + i \in Modulus..(2 * Modulus - 1)
    BY <1>2, <1>3, <1>5
  <2>2. (isn + i) % Modulus = isn + i - Modulus
    BY <1>2, <2>1, ModOf
  <2>3. isn + i - Modulus \in 0..(Modulus - 1)
    BY <1>2, <2>1
  <2> QED
    BY <1>1, <1>5, <2>2, <2>3 DEF SeqAt
<1> QED
  BY <1>4, <1>5

\* The difference of two sequence numbers tells that of the offsets, and its sign.
LEMMA DiffIs ==
    ASSUME isn \in ISNs, NEW i \in 1..(Size + 1), NEW j \in 1..(Size + 1)
    PROVE  (SeqAt(i) - SeqAt(j)) % Modulus = IF i >= j THEN i - j ELSE i - j + Modulus
<1>1. /\ SeqAt(i) = IF isn + i < Modulus THEN isn + i ELSE isn + i - Modulus
      /\ SeqAt(j) = IF isn + j < Modulus THEN isn + j ELSE isn + j - Modulus
      /\ isn \in 0..(Modulus - 1)
  BY SeqAtIs, SenderConstants
<1>2. i \in Int /\ j \in Int /\ Modulus \in Nat /\ Modulus > 2 * Size /\ Size \in Nat /\ isn \in Int /\ Modulus > 0
  BY SenderConstants, <1>1
<1> PICK x \in Int : x = SeqAt(i) - SeqAt(j)
  <2>1. i \in 0..(Size + 1) /\ j \in 0..(Size + 1)
    BY <1>2
  <2>2. SeqAt(i) \in 0..(Modulus - 1) /\ SeqAt(j) \in 0..(Modulus - 1)
    BY <2>1, SeqAtIs
  <2> QED
    BY <1>2, <2>2
<1>3. x \in {i - j, i - j + Modulus, i - j - Modulus} /\ x > - Modulus /\ x < Modulus
  BY <1>1, <1>2
<1>4. i - j > - Modulus /\ i - j < Modulus
  BY <1>2
<1>5. CASE x >= 0
  <2>1. x % Modulus = x
    BY <1>2, <1>3, <1>5, ModOf
  <2>2. x = IF i >= j THEN i - j ELSE i - j + Modulus
    BY <1>2, <1>3, <1>4, <1>5
  <2> QED
    BY <2>1, <2>2
<1>6. CASE x < 0
  <2>1. x % Modulus = x + Modulus
    BY <1>2, <1>3, <1>6, ModOf
  <2>2. x + Modulus = IF i >= j THEN i - j ELSE i - j + Modulus
    BY <1>2, <1>3, <1>4, <1>6
  <2> QED
    BY <2>1, <2>2
<1> QED
  BY <1>5, <1>6

LEMMA SeqMoves ==
    ASSUME isn \in ISNs, NEW b \in 0..Size, NEW e \in b..Size
    PROVE  (SeqAt(b + 1) + (e - b)) % Modulus = SeqAt(e + 1)
<1>1. b + 1 \in 0..(Size + 1) /\ e + 1 \in 0..(Size + 1)
  BY SenderConstants
<1>2. /\ SeqAt(b + 1) = IF isn + (b + 1) < Modulus THEN isn + (b + 1) ELSE isn + (b + 1) - Modulus
      /\ SeqAt(e + 1) = IF isn + (e + 1) < Modulus THEN isn + (e + 1) ELSE isn + (e + 1) - Modulus
      /\ SeqAt(e + 1) \in 0..(Modulus - 1) /\ isn \in 0..(Modulus - 1)
  BY <1>1, SeqAtIs
<1>3. b \in Int /\ e \in Int /\ Modulus \in Nat /\ Modulus > 2 * Size /\ Size \in Nat /\ isn \in Int /\ Modulus > 0
  BY SenderConstants, <1>2
<1>4. CASE isn + (b + 1) < Modulus
  <2>1. SeqAt(b + 1) + (e - b) = isn + (e + 1)
    BY <1>2, <1>3, <1>4
  <2> QED
    BY <2>1 DEF SeqAt
<1>5. CASE ~ (isn + (b + 1) < Modulus)
  <2>1. SeqAt(b + 1) + (e - b) = SeqAt(e + 1)
    BY <1>2, <1>3, <1>5
  <2> QED
    BY <1>2, <1>3, <2>1, ModOf
<1> QED
  BY <1>4, <1>5

-------------------------------------------------------------------------------
(* The fold of drainChunks *)

\* The streams after 0, 1, ... of the chunks q, beginning with base.
DrainSteps(h, base, q) == h[0] = base /\ \A i \in 1..Len(q) : h[i] = DrainOne(h[i - 1], q[i])

\* A fold over chunks is what comes of them one by one.
LEMMA DrainIsSteps ==
    ASSUME NEW C, NEW q \in Seq(C), NEW X, NEW base \in X, \A x \in X : \A c \in C : DrainOne(x, c) \in X
    PROVE  \E h \in [0..Len(q) -> X] : DrainSteps(h, base, q) /\ FoldLeft(DrainOne, base, q) = h[Len(q)]
<1> PICK S : S = 1..Len(q)
  OBVIOUS
<1>1. DOMAIN q = S /\ Len(q) \in Nat /\ IsFiniteSet(S) /\ S \subseteq Nat /\ \A i \in S : q[i] \in C
  <2>1. Len(q) \in Nat /\ DOMAIN q = 1..Len(q)
    OBVIOUS
  <2> QED
    BY <2>1, FS_Interval, SMTT(40)
<1> DEFINE pick == [s \in SUBSET S |-> Max(s)]
           step == [i \in S |-> [x \in X |-> DrainOne(x, q[i])]]
<1>2. \A s \in SUBSET S : s # {} => Max(s) \in s /\ \A y \in s : y <= Max(s)
  <2> SUFFICES ASSUME NEW s \in SUBSET S, s # {}
               PROVE  Max(s) \in s /\ \A y \in s : y <= Max(s)
    OBVIOUS
  <2>1. s \subseteq Int /\ Len(q) \in Int /\ \A y \in s : y <= Len(q)
    BY <1>1
  <2> QED
    BY <2>1, MaxOf
<1>3. PicksFrom(pick, S) /\ step \in [S -> [X -> X]]
  BY <1>1, <1>2 DEF PicksFrom
<1> HIDE DEF pick, step
<1>4. PICK f \in [SUBSET S -> X] : Recursion(f, S, base, pick, step)
  BY <1>1, <1>3, RecursionOverSubsets
<1>5. \A s \in SUBSET S : f[s] = IF s = {} THEN base ELSE DrainOne(f[s \ {Max(s)}], q[Max(s)])
  <2> TAKE s \in SUBSET S
  <2>1. CASE s = {}
    BY <1>4, <2>1 DEF Recursion
  <2>2. CASE s # {}
    <3>1. Max(s) \in S /\ pick[s] = Max(s) /\ f[s \ {Max(s)}] \in X
      BY <1>2, <2>2 DEF pick
    <3>2. f[s] = step[pick[s]][f[s \ {pick[s]}]]
      BY <1>4, <2>2 DEF Recursion
    <3> QED
      BY <2>2, <3>1, <3>2 DEF step
  <2> QED
    BY <2>1, <2>2
<1> DEFINE Eq(g) == g = [s \in SUBSET S |-> IF s = {} THEN base ELSE LET x == Max(s) IN DrainOne(g[s \ {x}], q[x])]
           it == CHOOSE g : Eq(g)
<1>6. FoldLeft(DrainOne, base, q) = it[S]
  BY <1>1 DEF FoldLeft, MapThenFoldSet
<1>7. Eq(f)
  <2>1. \A s \in SUBSET S : f[s] = IF s = {} THEN base ELSE LET x == Max(s) IN DrainOne(f[s \ {x}], q[x])
    BY <1>5, Zenon
  <2>2. f = [s \in SUBSET S |-> f[s]]
    OBVIOUS
  <2> QED
    BY <2>1, <2>2, Zenon
<1>8. Eq(it)
  <2> HIDE DEF Eq
  <2> QED
    BY <1>7, Zenon
<1>9. \A s \in SUBSET S : it[s] = IF s = {} THEN base ELSE DrainOne(it[s \ {Max(s)}], q[Max(s)])
  <2>1. \A s \in SUBSET S : it[s] = IF s = {} THEN base ELSE LET x == Max(s) IN DrainOne(it[s \ {x}], q[x])
    BY <1>8, Zenon
  <2> QED
    BY <2>1, Zenon
<1> HIDE DEF Eq, it
<1>10. SUBSET S \subseteq {s \in SUBSET S : it[s] = f[s]}
  <2> DEFINE T == {s \in SUBSET S : it[s] = f[s]}
  <2>1. {} \in T
    BY <1>5, <1>9
  <2>2. \A s \in SUBSET S : s # {} /\ s \ {pick[s]} \in T => s \in T
    BY <1>5, <1>9 DEF pick
  <2>3. SUBSET S \subseteq T
    <3>1. IsFiniteSet(S) /\ PicksFrom(pick, S)
      BY <1>1, <1>3
    <3> HIDE DEF T
    <3> QED
      BY <3>1, <2>1, <2>2, SubsetInduction, Zenon
  <2> QED
    BY <2>3
<1> PICK h : h = [i \in 0..Len(q) |-> f[1..i]]
  OBVIOUS
<1>11. \A i \in 0..Len(q) : 1..i \in SUBSET S /\ h[i] = f[1..i]
  BY <1>1
<1>12. h \in [0..Len(q) -> X]
  BY <1>11
<1>13. h[0] = base
  <2>1. 1..0 = {} /\ 0 \in 0..Len(q)
    BY <1>1
  <2> QED
    BY <1>5, <1>11, <2>1
<1>14. ASSUME NEW i \in 1..Len(q) PROVE h[i] = DrainOne(h[i - 1], q[i])
  <2>1. i \in 0..Len(q) /\ i - 1 \in 0..Len(q) /\ 1..i # {} /\ i \in 1..i
    BY <1>1
  <2>2. Max(1..i) = i
    <3>1. Max(1..i) \in 1..i /\ i <= Max(1..i)
      BY <1>2, <1>11, <2>1
    <3> QED
      BY <1>1, <3>1
  <2>3. (1..i) \ {i} = 1..(i - 1)
    BY <1>1
  <2>4. h[i] = DrainOne(f[(1..i) \ {i}], q[i])
    BY <1>5, <1>11, <2>1, <2>2
  <2> QED
    BY <1>11, <2>1, <2>3, <2>4
<1>15. DrainSteps(h, base, q)
  BY <1>13, <1>14 DEF DrainSteps
<1>16. FoldLeft(DrainOne, base, q) = h[Len(q)]
  <2>1. it[S] = f[S]
    BY <1>10
  <2>2. Len(q) \in 0..Len(q)
    BY <1>1
  <2> QED
    BY <1>6, <1>11, <2>1, <2>2
<1> QED
  BY <1>12, <1>15, <1>16

-------------------------------------------------------------------------------
(* Pieces of what was sent *)

\* d is the bytes i to j of the sender.
IsRun(d, i, j) == d \in Seq(Nat) /\ Len(d) = j - i + 1 /\ \A k \in 1..Len(d) : d[k] = i + k - 1

LEMMA RunOf ==
    ASSUME NEW i \in 1..(Size + 1), NEW j \in (i - 1)..Size
    PROVE  IsRun(SubSeq(Sent, i, j), i, j)
<1>1. i \in Int /\ j \in Int /\ Size \in Nat /\ \A k \in 1..Size : Sent[k] = k
  BY SenderConstants
<1>2. \A k \in i..j : Sent[k] = k /\ Sent[k] \in Nat
  BY <1>1
<1> PICK d : d = SubSeq(Sent, i, j)
  OBVIOUS
<1>3. /\ d \in Seq(Nat) /\ Len(d) = IF i <= j THEN j - i + 1 ELSE 0
      /\ \A k \in 1..(j - i + 1) : d[k] = Sent[i + k - 1]
  BY <1>1, <1>2, SubSeqProperties
<1>4. Len(d) = j - i + 1
  BY <1>1, <1>3
<1>5. \A k \in 1..Len(d) : d[k] = i + k - 1
  BY <1>1, <1>2, <1>3, <1>4
<1> QED
  BY <1>3, <1>4, <1>5 DEF IsRun

LEMMA RunUnique ==
    ASSUME NEW d, NEW e, NEW i \in Int, NEW j \in Int, IsRun(d, i, j), IsRun(e, i, j)
    PROVE  d = e
BY SeqEqual DEF IsRun

LEMMA RunConcat ==
    ASSUME NEW d, NEW e, NEW i \in Int, NEW j \in Int, NEW k \in Int, i - 1 <= j, j <= k,
           IsRun(d, i, j), IsRun(e, j + 1, k)
    PROVE  IsRun(d \o e, i, k)
<1>1. d \in Seq(Nat) /\ e \in Seq(Nat) /\ Len(d) = j - i + 1 /\ Len(e) = k - j
      /\ (\A l \in 1..Len(d) : d[l] = i + l - 1) /\ \A l \in 1..Len(e) : e[l] = j + l
  BY DEF IsRun
<1> PICK f : f = d \o e
  OBVIOUS
<1>2. f \in Seq(Nat) /\ Len(f) = Len(d) + Len(e)
      /\ \A l \in 1..(Len(d) + Len(e)) : f[l] = IF l <= Len(d) THEN d[l] ELSE e[l - Len(d)]
  BY <1>1, ConcatProperties
<1>3. ASSUME NEW l \in 1..Len(f) PROVE f[l] = i + l - 1
  <2>1. CASE l <= Len(d)
    BY <1>1, <1>2, <2>1
  <2>2. CASE ~ (l <= Len(d))
    <3>1. l - Len(d) \in 1..Len(e) /\ f[l] = e[l - Len(d)]
      BY <1>1, <1>2, <2>2, SMTT(40)
    <3>2. f[l] = j + (l - Len(d))
      BY <1>1, <3>1
    <3> QED
      BY <1>1, <3>2
  <2> QED
    BY <2>1, <2>2
<1>4. Len(f) = k - i + 1
  BY <1>1, <1>2
<1> QED
  BY <1>2, <1>3, <1>4 DEF IsRun

LEMMA RunCut ==
    ASSUME NEW d, NEW i \in Int, NEW j \in Int, IsRun(d, i, j),
           NEW m \in 1..(Len(d) + 1), NEW n \in (m - 1)..Len(d)
    PROVE  IsRun(SubSeq(d, m, n), i + m - 1, i + n - 1)
<1>1. d \in Seq(Nat) /\ Len(d) \in Nat /\ m \in Int /\ n \in Int
  BY DEF IsRun
<1> DEFINE e == SubSeq(d, m, n)
<1>2. /\ e \in Seq(Nat) /\ Len(e) = n - m + 1
      /\ \A l \in 1..(n - m + 1) : e[l] = d[m + l - 1]
  BY <1>1, CutOf, Zenon
<1> HIDE DEF e
<1>3. ASSUME NEW l \in 1..Len(e) PROVE e[l] = (i + m - 1) + l - 1
  <2>1. l \in 1..(n - m + 1) /\ m + l - 1 \in 1..Len(d)
    BY <1>1, <1>2
  <2>2. d[m + l - 1] = i + (m + l - 1) - 1
    BY <2>1 DEF IsRun
  <2> QED
    BY <1>1, <1>2, <2>1, <2>2
<1>4. IsRun(e, i + m - 1, i + n - 1)
  BY <1>1, <1>2, <1>3 DEF IsRun
<1> QED
  BY <1>4 DEF e

\* Of the bytes from a on, the last that the limit allows.
Upto(a, b) == IF b <= a + MaxDepth - 1 THEN b ELSE a + MaxDepth - 1

\* What is kept of a run that goes on.
LEMMA RunLimited ==
    ASSUME NEW d, NEW p, NEW a \in Int, NEW b \in Int, NEW e \in Int, a - 1 <= b, b <= e,
           IsRun(d, a, Upto(a, b)), IsRun(p, b + 1, e),
           NEW n, n = IF Len(d \o p) <= MaxDepth THEN Len(d \o p) ELSE MaxDepth
    PROVE  IsRun(SubSeq(d \o p, 1, n), a, Upto(a, e))
<1>1. /\ d \in Seq(Nat) /\ p \in Seq(Nat) /\ Len(d) = Upto(a, b) - a + 1 /\ Len(p) = e - b
      /\ Len(d) \in Nat /\ Len(p) \in Nat /\ \A l \in 1..Len(d) : d[l] = a + l - 1
  BY DEF IsRun
<1>2. MaxDepth \in Nat /\ MaxDepth > 0
  BY SenderConstants
<1> DEFINE all == d \o p
<1>3. /\ all \in Seq(Nat) /\ Len(all) = Len(d) + Len(p)
      /\ \A l \in 1..(Len(d) + Len(p)) : all[l] = IF l <= Len(d) THEN d[l] ELSE p[l - Len(d)]
  BY <1>1, ConcatProperties, Zenon
<1>4. IsRun(d, a, b) => IsRun(all, a, e)
  BY RunConcat
<1>5. n = IF Len(all) <= MaxDepth THEN Len(all) ELSE MaxDepth
  OBVIOUS
<1> HIDE DEF all
<1>6. Len(all) \in Nat /\ n \in Nat /\ n \in (1 - 1)..Len(all) /\ 1 \in 1..(Len(all) + 1)
  BY <1>1, <1>2, <1>3, <1>5, SMTT(40)
<1>7. CASE b <= a + MaxDepth - 1
  <2>1. Upto(a, b) = b
    BY <1>7 DEF Upto
  <2>2. IsRun(all, a, e)
    BY <1>4, <2>1
  <2>3. IsRun(SubSeq(all, 1, n), a + 1 - 1, a + n - 1)
    BY <1>6, <2>2, RunCut
  <2>4. Len(all) = e - a + 1
    BY <2>2 DEF IsRun
  <2>5. a + 1 - 1 = a /\ a + n - 1 = Upto(a, e)
    BY <1>2, <1>5, <2>4 DEF Upto
  <2> QED
    BY <2>3, <2>5 DEF all
<1>8. CASE ~ (b <= a + MaxDepth - 1)
  <2>1. Upto(a, b) = a + MaxDepth - 1 /\ Upto(a, e) = a + MaxDepth - 1
    BY <1>2, <1>8 DEF Upto
  <2>2. Len(d) = MaxDepth /\ n = MaxDepth
    BY <1>1, <1>2, <1>3, <1>5, <2>1
  <2> DEFINE c == SubSeq(all, 1, n)
  <2>3. c \in Seq(Nat) /\ Len(c) = n - 1 + 1 /\ \A l \in 1..(n - 1 + 1) : c[l] = all[1 + l - 1]
    BY <1>3, <1>6, CutOf, SMTT(40)
  <2> HIDE DEF c
  <2>4. ASSUME NEW l \in 1..Len(c) PROVE c[l] = a + l - 1
    <3>1. l \in 1..(n - 1 + 1) /\ l \in 1..Len(d) /\ l \in Int
      <4>1. Len(c) = Len(d) /\ n - 1 + 1 = Len(d)
        BY <1>2, <2>2, <2>3
      <4> QED
        BY <1>1, <4>1
    <3>2. c[l] = all[l]
      BY <2>3, <3>1
    <3>3. l \in 1..(Len(d) + Len(p)) /\ l <= Len(d)
      BY <1>1, <3>1
    <3> QED
      BY <1>1, <1>3, <3>1, <3>2, <3>3
  <2>5. Len(c) = Upto(a, e) - a + 1
    BY <1>2, <2>1, <2>2, <2>3
  <2>6. IsRun(c, a, Upto(a, e))
    BY <2>3, <2>4, <2>5 DEF IsRun
  <2> QED
    BY <2>6 DEF c, all
<1> QED
  BY <1>7, <1>8

-------------------------------------------------------------------------------
(* Streams *)

ChunkOf(s) == [seq |-> SeqAt(s[1]), data |-> SubSeq(Sent, s[1], s[2])]
Chunks == {ChunkOf(s) : s \in Segments}
Streams == [Initialized : BOOLEAN, NextSeq : 0..(Modulus - 1), Data : Seq(Nat), chunks : Seq(Chunks)]

\* The stream has taken the bytes a to b, and kept of them what the limit allows.
Holds(st, a, b) ==
    /\ a \in 1..(Size + 1) /\ b \in (a - 1)..Size
    /\ st.NextSeq = SeqAt(b + 1)
    /\ IsRun(st.Data, a, Upto(a, b))

LEMMA ChunkIs ==
    ASSUME isn \in ISNs, NEW s \in Segments
    PROVE  /\ s[1] \in 1..Size /\ s[2] \in s[1]..Size /\ ChunkOf(s) \in Chunks
           /\ ChunkOf(s).seq = SeqAt(s[1]) /\ ChunkOf(s).seq \in 0..(Modulus - 1)
           /\ IsRun(ChunkOf(s).data, s[1], s[2]) /\ Len(ChunkOf(s).data) = s[2] - s[1] + 1
<1>1. s[1] \in 1..Size /\ s[2] \in 1..Size /\ s[1] <= s[2] /\ Size \in Nat
  BY SenderConstants
<1>2. s[1] \in 0..(Size + 1) /\ s[1] \in 1..(Size + 1) /\ s[2] \in (s[1] - 1)..Size /\ s[2] \in s[1]..Size
  BY <1>1
<1>3. SeqAt(s[1]) \in 0..(Modulus - 1)
  BY <1>2, SeqAtIs
<1>4. IsRun(SubSeq(Sent, s[1], s[2]), s[1], s[2])
  BY <1>2, RunOf
<1> QED
  BY <1>1, <1>2, <1>3, <1>4 DEF ChunkOf, Chunks, IsRun

\* appendData, with NextSeq, takes the bytes that come next.
LEMMA AppendHolds ==
    ASSUME isn \in ISNs, NEW st \in Streams, NEW a, NEW b, Holds(st, a, b),
           NEW e \in b..Size, NEW payload, IsRun(payload, b + 1, e)
    PROVE  /\ AppendData(st, payload) \in Streams
           /\ AppendData(st, payload).Initialized = st.Initialized
           /\ AppendData(st, payload).chunks = st.chunks
           /\ Holds(AppendData(st, payload), a, e)
<1>1. /\ a \in 1..(Size + 1) /\ b \in (a - 1)..Size /\ a \in Int /\ b \in Int /\ e \in Int /\ Size \in Nat
      /\ e \in (a - 1)..Size /\ MaxDepth \in Nat /\ MaxDepth > 0 /\ b \in 0..Size
  BY SenderConstants DEF Holds
<1>2. /\ st.Data \in Seq(Nat) /\ payload \in Seq(Nat) /\ Len(payload) = e - b
      /\ IsRun(st.Data, a, Upto(a, b))
  <2>1. IsRun(st.Data, a, Upto(a, b))
    BY DEF Holds
  <2>2. st.Data \in Seq(Nat)
    BY <2>1 DEF IsRun
  <2>3. payload \in Seq(Nat) /\ Len(payload) = e - (b + 1) + 1
    BY DEF IsRun
  <2>4. e - (b + 1) + 1 = e - b
    BY <1>1
  <2> QED
    BY <2>1, <2>2, <2>3, <2>4, Zenon
<1> DEFINE all == st.Data \o payload
           n == Min({Len(all), MaxDepth})
<1>3. Len(all) \in Int /\ MaxDepth \in Int
  <2>1. Len(st.Data) \in Nat /\ Len(payload) \in Nat
    BY <1>2, LenProperties
  <2>2. Len(all) = Len(st.Data) + Len(payload)
    BY <1>2, ConcatProperties, Zenon
  <2> HIDE DEF all
  <2> QED
    BY <1>1, <2>1, <2>2
<1>4. n = IF Len(all) <= MaxDepth THEN Len(all) ELSE MaxDepth
  <2> HIDE DEF all
  <2> QED
    BY <1>3, MinOfTwo, Zenon
<1>5. IsRun(SubSeq(all, 1, n), a, Upto(a, e))
  <2>1. a - 1 <= b /\ b <= e
    BY <1>1
  <2> HIDE DEF n
  <2> QED
    BY <1>1, <1>2, <1>4, <2>1, RunLimited, Zenon
<1>6. (st.NextSeq + Len(payload)) % Modulus = SeqAt(e + 1)
  <2>1. st.NextSeq = SeqAt(b + 1)
    BY DEF Holds
  <2> QED
    BY <1>1, <1>2, <2>1, SeqMoves
<1>7. SeqAt(e + 1) \in 0..(Modulus - 1)
  <2>1. e + 1 \in 0..(Size + 1)
    BY <1>1
  <2> QED
    BY <2>1, SeqAtIs
<1>8. AppendData(st, payload) = [st EXCEPT !.Data = SubSeq(all, 1, n), !.NextSeq = SeqAt(e + 1)]
  BY <1>6 DEF AppendData
<1>9. SubSeq(all, 1, n) \in Seq(Nat)
  BY <1>5 DEF IsRun
<1> PICK nt : nt = AppendData(st, payload)
  OBVIOUS
<1> PICK data : data = SubSeq(all, 1, n)
  OBVIOUS
<1>10. /\ nt.Data = data /\ nt.NextSeq = SeqAt(e + 1)
       /\ nt.Initialized = st.Initialized /\ nt.chunks = st.chunks /\ nt \in Streams
  BY <1>7, <1>8, <1>9 DEF Streams
<1>11. Holds(nt, a, e)
  BY <1>1, <1>5, <1>10 DEF Holds
<1> QED
  BY <1>10, <1>11

-------------------------------------------------------------------------------
(* drainChunks *)

LEMMA SegmentsOfChunks ==
    ASSUME NEW s \in Segments, NEW t \in Segments, isn \in ISNs, ChunkOf(s) = ChunkOf(t)
    PROVE  s[1] = t[1] /\ s[2] = t[2]
<1> DEFINE d == ChunkOf(s).data
<1>1. IsRun(d, s[1], s[2]) /\ IsRun(d, t[1], t[2])
  BY ChunkIs, Zenon
<1>2. s[1] \in 1..Size /\ s[2] \in s[1]..Size /\ t[1] \in 1..Size /\ t[2] \in t[1]..Size
  BY ChunkIs, Zenon
<1> HIDE DEF d
<1>3. s[1] \in Int /\ s[2] \in Int /\ t[1] \in Int /\ t[2] \in Int /\ s[1] <= s[2] /\ Size \in Nat
  BY <1>2, SenderConstants
<1>4. Len(d) = s[2] - s[1] + 1 /\ Len(d) = t[2] - t[1] + 1
  BY <1>1 DEF IsRun
<1>5. 1 \in 1..Len(d)
  BY <1>3, <1>4
<1>6. d[1] = s[1] + 1 - 1 /\ d[1] = t[1] + 1 - 1
  BY <1>1, <1>5 DEF IsRun
<1> QED
  BY <1>3, <1>4, <1>6

\* A segment that was taken from the queue, or left in it, or dropped from it.
Taken(st, nt, t, b, e) == nt.chunks = st.chunks /\ e = t[2] /\ t[1] <= b + 1 /\ ChunkOf(t).seq <= st.NextSeq
Dropped(st, nt, t, b, e) == nt = st /\ e = b /\ (NoWrap => t[2] <= b)
Kept(st, nt, t, b, e) ==
    /\ nt = [st EXCEPT !.chunks = Append(@, ChunkOf(t))] /\ e = b
    /\ ChunkOf(t).seq > st.NextSeq /\ (NoWrap => t[1] > b + 1 \/ t[2] <= b)

\* What the comparison of plain numbers tells: x is that of byte i, which starts the
\* segment up to byte j, and y that of the byte after b.
LEMMA PlainComparison ==
    ASSUME NEW m \in Int, NEW z \in Int, m > 2 * z, NEW n \in Int, n >= 0, n < m,
           NEW b \in Int, b >= 0, b <= z, NEW i \in Int, NEW j \in Int, 1 <= i, i <= j, j <= z,
           NEW x, x = (IF n + i < m THEN n + i ELSE n + i - m),
           NEW y, y = (IF n + (b + 1) < m THEN n + (b + 1) ELSE n + (b + 1) - m)
    PROVE  /\ x > y => (n + z < m => i > b + 1 \/ j <= b)
           /\ x <= y /\ y - x < j - i + 1 => y - x = b + 1 - i /\ i <= b + 1 /\ b + 1 <= j
           /\ x <= y /\ ~ (y - x < j - i + 1) => (n + z < m => j <= b)
<1>1. x \in Int /\ y \in Int
  OBVIOUS
<1>2. CASE n + i < m /\ n + (b + 1) < m
  BY <1>2
<1>3. CASE n + i < m /\ ~ (n + (b + 1) < m)
  BY <1>3
<1>4. CASE ~ (n + i < m)
  BY <1>4
<1> QED
  BY <1>2, <1>3, <1>4

LEMMA DrainOneHolds ==
    ASSUME isn \in ISNs, NEW st \in Streams, NEW a, NEW b, Holds(st, a, b), NEW t \in Segments,
           NEW nt, nt = DrainOne(st, ChunkOf(t))
    PROVE  /\ nt \in Streams /\ nt.Initialized = st.Initialized
           /\ \E e \in b..Size :
                 /\ Holds(nt, a, e)
                 /\ Taken(st, nt, t, b, e) \/ Dropped(st, nt, t, b, e) \/ Kept(st, nt, t, b, e)
<1> DEFINE c == ChunkOf(t)
<1>1. /\ t[1] \in 1..Size /\ t[2] \in t[1]..Size /\ c \in Chunks
      /\ c.seq = SeqAt(t[1]) /\ c.seq \in 0..(Modulus - 1)
      /\ IsRun(c.data, t[1], t[2]) /\ Len(c.data) = t[2] - t[1] + 1
  BY ChunkIs
<1>2. a \in 1..(Size + 1) /\ b \in (a - 1)..Size /\ st.NextSeq = SeqAt(b + 1)
  BY DEF Holds
<1>3. /\ t[1] \in Int /\ t[2] \in Int /\ t[1] <= t[2] /\ t[1] >= 1 /\ t[2] <= Size
      /\ b \in Int /\ b >= 0 /\ b <= Size /\ b \in b..Size
      /\ Size \in Nat /\ Modulus \in Nat /\ Modulus > 2 * Size
  BY <1>1, <1>2, SenderConstants
<1>4. t[1] \in 0..(Size + 1) /\ b + 1 \in 0..(Size + 1)
  BY <1>3
<1>5. /\ c.seq = IF isn + t[1] < Modulus THEN isn + t[1] ELSE isn + t[1] - Modulus
      /\ st.NextSeq = IF isn + (b + 1) < Modulus THEN isn + (b + 1) ELSE isn + (b + 1) - Modulus
      /\ isn \in Int /\ isn >= 0 /\ isn < Modulus
  <2>1. /\ SeqAt(t[1]) = IF isn + t[1] < Modulus THEN isn + t[1] ELSE isn + t[1] - Modulus
        /\ isn \in 0..(Modulus - 1)
    BY <1>4, SeqAtIs, Zenon
  <2>2. SeqAt(b + 1) = IF isn + (b + 1) < Modulus THEN isn + (b + 1) ELSE isn + (b + 1) - Modulus
    BY <1>4, SeqAtIs, Zenon
  <2>3. isn \in Int /\ isn >= 0 /\ isn < Modulus
    BY <1>3, <2>1
  <2> QED
    BY <1>1, <1>2, <2>1, <2>2, <2>3, Zenon
<1>6. st.NextSeq \in Int /\ c.seq \in Int
  <2>1. SeqAt(b + 1) \in 0..(Modulus - 1)
    BY <1>4, SeqAtIs, Zenon
  <2> QED
    BY <1>1, <1>2, <1>3, <2>1
<1>12. /\ c.seq > st.NextSeq => (NoWrap => t[1] > b + 1 \/ t[2] <= b)
       /\ c.seq <= st.NextSeq /\ st.NextSeq - c.seq < Len(c.data)
             => st.NextSeq - c.seq = b + 1 - t[1] /\ t[1] <= b + 1 /\ b + 1 <= t[2]
       /\ c.seq <= st.NextSeq /\ ~ (st.NextSeq - c.seq < Len(c.data)) => (NoWrap => t[2] <= b)
  <2>1. /\ c.seq > st.NextSeq => (isn + Size < Modulus => t[1] > b + 1 \/ t[2] <= b)
        /\ c.seq <= st.NextSeq /\ st.NextSeq - c.seq < t[2] - t[1] + 1
              => st.NextSeq - c.seq = b + 1 - t[1] /\ t[1] <= b + 1 /\ b + 1 <= t[2]
        /\ c.seq <= st.NextSeq /\ ~ (st.NextSeq - c.seq < t[2] - t[1] + 1)
              => (isn + Size < Modulus => t[2] <= b)
    <3>1. Modulus \in Int /\ Size \in Int /\ 1 <= t[1]
      BY <1>3
    <3> HIDE DEF c
    <3> QED
      BY <1>3, <1>5, <3>1, PlainComparison
  <2> QED
    BY <1>1, <2>1, Zenon DEF NoWrap, Size
<1>7. DrainOne(st, c) = IF c.seq > st.NextSeq THEN [st EXCEPT !.chunks = Append(@, c)]
                        ELSE IF st.NextSeq - c.seq < Len(c.data)
                             THEN AppendData(st, SubSeq(c.data, (st.NextSeq - c.seq) + 1, Len(c.data)))
                             ELSE st
  BY DEF DrainOne
<1> HIDE DEF c
<1>9. CASE c.seq > st.NextSeq
  <2>1. nt = [st EXCEPT !.chunks = Append(@, c)]
    BY <1>7, <1>9 DEF c
  <2>2. st.chunks \in Seq(Chunks) /\ Append(st.chunks, c) \in Seq(Chunks)
    BY <1>1, AppendProperties DEF Streams
  <2>3. nt \in Streams /\ nt.Initialized = st.Initialized /\ nt.NextSeq = st.NextSeq /\ nt.Data = st.Data
    BY <2>1, <2>2 DEF Streams
  <2>4. NoWrap => t[1] > b + 1 \/ t[2] <= b
    BY <1>9, <1>12
  <2>5. Kept(st, nt, t, b, b)
    BY <1>9, <2>1, <2>4 DEF Kept, c
  <2>6. Holds(nt, a, b)
    BY <2>3 DEF Holds
  <2> QED
    BY <1>3, <2>3, <2>5, <2>6
<1>10. CASE ~ (c.seq > st.NextSeq) /\ st.NextSeq - c.seq < Len(c.data)
  <2>1. st.NextSeq - c.seq = b + 1 - t[1] /\ t[1] <= b + 1 /\ b + 1 <= t[2]
    BY <1>6, <1>10, <1>12
  <2> DEFINE m == (st.NextSeq - c.seq) + 1
             p == SubSeq(c.data, m, Len(c.data))
  <2>2. m \in 1..(Len(c.data) + 1) /\ Len(c.data) \in (m - 1)..Len(c.data)
    <3>1. Len(c.data) \in Nat /\ m = (b + 1 - t[1]) + 1 /\ m - 1 = b + 1 - t[1]
      BY <1>1, <1>3, <2>1
    <3>2. m \in Int /\ 1 <= m /\ m - 1 < Len(c.data)
      BY <1>3, <1>10, <2>1, <3>1
    <3> HIDE DEF m
    <3> QED
      BY <3>1, <3>2
  <2>3. t[1] + m - 1 = b + 1 /\ t[1] + Len(c.data) - 1 = t[2]
    BY <1>1, <1>3, <2>1, SMTT(40)
  <2>4. IsRun(p, t[1] + m - 1, t[1] + Len(c.data) - 1)
    <3> HIDE DEF m
    <3> QED
      BY <1>1, <1>3, <2>2, RunCut
  <2>5. IsRun(p, b + 1, t[2])
    BY <2>3, <2>4, Zenon
  <2>6. nt = AppendData(st, p)
    BY <1>7, <1>10 DEF c
  <2>7. t[2] \in b..Size
    BY <1>3, <2>1
  <2> HIDE DEF p, m
  <2>8. nt \in Streams /\ nt.Initialized = st.Initialized /\ nt.chunks = st.chunks /\ Holds(nt, a, t[2])
    BY <2>5, <2>6, <2>7, AppendHolds
  <2>9. Taken(st, nt, t, b, t[2])
    <3>1. c.seq <= st.NextSeq
      BY <1>6, <1>10
    <3> QED
      BY <2>1, <2>8, <3>1 DEF Taken, c
  <2> QED
    BY <2>7, <2>8, <2>9, Zenon
<1>11. CASE ~ (c.seq > st.NextSeq) /\ ~ (st.NextSeq - c.seq < Len(c.data))
  <2>1. nt = st
    BY <1>7, <1>11 DEF c
  <2>2. NoWrap => t[2] <= b
    BY <1>6, <1>11, <1>12
  <2>3. Dropped(st, nt, t, b, b)
    BY <2>1, <2>2 DEF Dropped
  <2> QED
    BY <1>3, <2>1, <2>3, Zenon
<1> QED
  BY <1>9, <1>10, <1>11, Zenon

\* Whatever it finds, a step of the drain makes a stream of a stream.
LEMMA DrainOneTyped ==
    ASSUME isn \in ISNs, NEW st \in Streams, NEW c \in Chunks
    PROVE  DrainOne(st, c) \in Streams
<1>1. PICK t \in Segments : c = ChunkOf(t)
  BY DEF Chunks
<1>2. c.data \in Seq(Nat) /\ c.seq \in 0..(Modulus - 1) /\ Len(c.data) \in Nat
  BY <1>1, ChunkIs DEF IsRun
<1>3. /\ st.NextSeq \in 0..(Modulus - 1) /\ st.Data \in Seq(Nat) /\ st.chunks \in Seq(Chunks)
      /\ Modulus \in Nat /\ Modulus > 0 /\ MaxDepth \in Nat
  BY SenderConstants DEF Streams
<1>4. CASE c.seq > st.NextSeq
  <2>1. Append(st.chunks, c) \in Seq(Chunks)
    BY <1>3, AppendProperties
  <2> QED
    BY <1>4, <2>1 DEF DrainOne, Streams
<1>5. CASE ~ (c.seq > st.NextSeq) /\ ~ (st.NextSeq - c.seq < Len(c.data))
  BY <1>5 DEF DrainOne
<1>6. CASE ~ (c.seq > st.NextSeq) /\ st.NextSeq - c.seq < Len(c.data)
  <2> DEFINE m == (st.NextSeq - c.seq) + 1
             p == SubSeq(c.data, m, Len(c.data))
             all == st.Data \o p
             n == Min({Len(all), MaxDepth})
             next == (st.NextSeq + Len(p)) % Modulus
  <2>1. DrainOne(st, c) = [st EXCEPT !.Data = SubSeq(all, 1, n), !.NextSeq = next]
    BY <1>6 DEF DrainOne, AppendData
  <2>2. m \in 1..(Len(c.data) + 1) /\ Len(c.data) \in (m - 1)..Len(c.data)
    BY <1>2, <1>3, <1>6
  <2>3. p \in Seq(Nat)
    <3> HIDE DEF m
    <3> QED
      BY <1>2, <2>2, CutOf
  <2> HIDE DEF p
  <2>4. all \in Seq(Nat) /\ Len(all) \in Nat /\ Len(p) \in Nat
    BY <1>3, <2>3, ConcatProperties, LenProperties
  <2> HIDE DEF all
  <2>5. n \in 0..Len(all)
    <3>1. Len(all) \in Int /\ MaxDepth \in Int
      BY <1>3, <2>4
    <3>2. n = IF Len(all) <= MaxDepth THEN Len(all) ELSE MaxDepth
      BY <3>1, MinOfTwo, Zenon
    <3> QED
      BY <1>3, <2>4, <3>2
  <2> HIDE DEF n
  <2>6. SubSeq(all, 1, n) \in Seq(Nat)
    <3>1. 1 \in 1..(Len(all) + 1) /\ n \in (1 - 1)..Len(all)
      BY <2>4, <2>5
    <3> QED
      BY <2>4, <3>1, CutOf
  <2>7. next \in 0..(Modulus - 1)
    BY <1>3, <2>4
  <2> HIDE DEF next
  <2> QED
    BY <2>1, <2>6, <2>7 DEF Streams
<1> QED
  BY <1>4, <1>5, <1>6

Ordered(q) == \A i, j \in 1..Len(q) : i < j => q[i].seq <= q[j].seq
Covered(segs, i, j) == \A p \in i..j : \E s \in segs : p \in s[1]..s[2]
Late(st) == \A c \in ToSet(st.chunks) : c.seq > st.NextSeq
From(q, segs) == \A c \in ToSet(q) : \E s \in segs : c = ChunkOf(s)
\* Of the segments segs, none can be delivered.
Settled(st, segs, b) == \A s \in segs : s[2] <= b \/ ChunkOf(s) \in ToSet(st.chunks)

LEMMA ElementsOf ==
    ASSUME NEW q \in Seq(Chunks)
    PROVE  /\ Len(q) \in Nat /\ ToSet(q) \subseteq Chunks
           /\ \A c : c \in ToSet(q) <=> \E k \in 1..Len(q) : q[k] = c
<1>1. Len(q) \in Nat /\ DOMAIN q = 1..Len(q) /\ \A k \in 1..Len(q) : q[k] \in Chunks
  OBVIOUS
<1> QED
  BY <1>1 DEF ToSet

LEMMA SeqOfChunk ==
    ASSUME isn \in ISNs, NEW c \in Chunks
    PROVE  c.seq \in Int
<1>1. PICK t \in Segments : c = ChunkOf(t)
  BY DEF Chunks
<1>2. c.seq \in 0..(Modulus - 1) /\ Modulus \in Nat
  BY <1>1, ChunkIs, SenderConstants
<1> QED
  BY <1>2

LEMMA AppendedChunk ==
    ASSUME NEW q \in Seq(Chunks), NEW c \in Chunks, Ordered(q), \A d \in ToSet(q) : d.seq <= c.seq,
           NEW r, r = Append(q, c)
    PROVE  /\ r \in Seq(Chunks) /\ Len(r) = Len(q) + 1
           /\ ToSet(r) = ToSet(q) \cup {c} /\ Ordered(r)
<1>1. /\ r \in Seq(Chunks) /\ Len(r) = Len(q) + 1 /\ Len(q) \in Nat
      /\ (\A k \in 1..Len(q) : r[k] = q[k]) /\ r[Len(q) + 1] = c
  BY AppendProperties, ElementsOf
<1>2. \A k \in 1..Len(r) : k \in 1..Len(q) \/ k = Len(q) + 1
  BY <1>1
<1>3. \A k \in 1..Len(q) : k \in 1..Len(r) /\ k < Len(q) + 1
  BY <1>1
<1>4. Len(q) + 1 \in 1..Len(r)
  BY <1>1
<1>5. /\ \A d : d \in ToSet(r) <=> \E k \in 1..Len(r) : r[k] = d
      /\ \A d : d \in ToSet(q) <=> \E k \in 1..Len(q) : q[k] = d
  BY <1>1, ElementsOf, Zenon
<1>6. \A d : d \in ToSet(r) <=> d \in ToSet(q) \/ d = c
  <2> TAKE d
  <2>1. d \in ToSet(r) => d \in ToSet(q) \/ d = c
    BY <1>1, <1>2, <1>5
  <2>2. d \in ToSet(q) => d \in ToSet(r)
    BY <1>1, <1>3, <1>5
  <2>3. c \in ToSet(r)
    BY <1>1, <1>4, <1>5
  <2> QED
    BY <2>1, <2>2, <2>3
<1>7. Ordered(r)
  <2> SUFFICES ASSUME NEW i \in 1..Len(r), NEW j \in 1..Len(r), i < j
               PROVE  r[i].seq <= r[j].seq
    BY DEF Ordered
  <2>1. i \in 1..Len(q) /\ r[i] = q[i]
    BY <1>1
  <2>2. CASE j = Len(q) + 1
    BY <1>1, <1>5, <2>1, <2>2
  <2>3. CASE j # Len(q) + 1
    <3>1. j \in 1..Len(q) /\ r[j] = q[j]
      BY <1>1, <2>3
    <3> QED
      BY <2>1, <3>1 DEF Ordered
  <2> QED
    BY <2>2, <2>3
<1>8. ToSet(r) = ToSet(q) \cup {c}
  BY <1>6
<1> QED
  BY <1>1, <1>7, <1>8

\* The stream x after i of the chunks q, when it held the bytes a to b before them.
Drained(x, q, segs, a, b, i, e) ==
    /\ e \in b..Size /\ x \in Streams /\ x.Initialized /\ Holds(x, a, e)
    /\ Covered(segs, b + 1, e)
    /\ Ordered(x.chunks) /\ From(x.chunks, segs) /\ Late(x) /\ Len(x.chunks) <= i
    /\ \A c \in ToSet(x.chunks) : \A j \in (i + 1)..Len(q) : c.seq <= q[j].seq
    /\ NoWrap => \A s \in segs : \A j \in 1..i :
                    q[j] = ChunkOf(s) => s[2] <= e \/ ChunkOf(s) \in ToSet(x.chunks)

LEMMA DrainStep ==
    ASSUME isn \in ISNs, NEW segs \in SUBSET Segments, NEW q \in Seq(Chunks), Ordered(q), From(q, segs),
           NEW a \in 1..(Size + 1), NEW b \in (a - 1)..Size, NEW x, NEW i \in Nat, i < Len(q), NEW e,
           Drained(x, q, segs, a, b, i, e),
           NEW y, y = DrainOne(x, q[i + 1])
    PROVE  \E f : Drained(y, q, segs, a, b, i + 1, f)
<1>1. /\ e \in b..Size /\ x \in Streams /\ x.Initialized /\ Holds(x, a, e) /\ Covered(segs, b + 1, e)
      /\ Ordered(x.chunks) /\ From(x.chunks, segs) /\ Late(x) /\ Len(x.chunks) <= i
      /\ x.chunks \in Seq(Chunks) /\ x.NextSeq \in Int /\ Modulus \in Nat /\ Size \in Nat
      /\ \A c \in ToSet(x.chunks) : \A j \in (i + 1)..Len(q) : c.seq <= q[j].seq
  BY SenderConstants DEF Drained, Streams
<1>2. NoWrap => \A s \in segs : \A j \in 1..i :
                   q[j] = ChunkOf(s) => s[2] <= e \/ ChunkOf(s) \in ToSet(x.chunks)
  BY DEF Drained
<1>3. Len(q) \in Nat /\ i + 1 \in 1..Len(q) /\ i + 1 \in (i + 1)..Len(q)
  OBVIOUS
<1>4. PICK t \in segs : q[i + 1] = ChunkOf(t)
  BY <1>3, ElementsOf DEF From
<1> DEFINE c == ChunkOf(t)
<1>5. PICK f \in e..Size : /\ y \in Streams /\ y.Initialized = x.Initialized /\ Holds(y, a, f)
                           /\ Taken(x, y, t, e, f) \/ Dropped(x, y, t, e, f) \/ Kept(x, y, t, e, f)
  <2>1. y = DrainOne(x, ChunkOf(t)) /\ t \in Segments
    BY <1>4
  <2> QED
    BY <1>1, <2>1, DrainOneHolds, Zenon
<1>6. /\ c \in Chunks /\ c.seq \in Int /\ t[1] \in Int /\ t[2] \in Int /\ t[1] >= 1 /\ t[2] <= Size
      /\ e \in Int /\ f \in Int /\ b \in Int /\ a \in Int /\ e <= f /\ b <= e /\ f \in b..Size
  <2>1. t \in Segments /\ t[1] \in 1..Size /\ t[2] \in t[1]..Size /\ ChunkOf(t) \in Chunks
    BY ChunkIs
  <2>2. c.seq \in Int
    BY <2>1, SeqOfChunk
  <2> HIDE DEF c
  <2>3. t[1] \in Int /\ t[2] \in Int /\ t[1] >= 1 /\ t[2] <= Size
    BY <1>1, <2>1
  <2> QED
    BY <1>1, <1>5, <2>1, <2>2, <2>3 DEF c
<1>7. \A d \in ToSet(x.chunks) : d \in Chunks /\ d.seq \in Int /\ d.seq <= c.seq /\ d.seq > x.NextSeq
  BY <1>1, <1>3, <1>4, ElementsOf, SeqOfChunk DEF Late
<1>8. \A j \in (i + 2)..Len(q) : j \in (i + 1)..Len(q) /\ c.seq <= q[j].seq
  <2> TAKE j \in (i + 2)..Len(q)
  <2>1. j \in (i + 1)..Len(q) /\ j \in 1..Len(q) /\ i + 1 < j
    BY <1>3
  <2> QED
    BY <1>3, <1>4, <2>1 DEF Ordered
<1>9. \A j \in 1..(i + 1) : j \in 1..i \/ j = i + 1
  OBVIOUS
\* A segment is the one that the chunk was made of.
<1>10. \A s \in segs : q[i + 1] = ChunkOf(s) => s[2] = t[2] /\ ChunkOf(s) = c
  BY <1>4, SegmentsOfChunks
<1> HIDE DEF c
<1>11. i + 1 + 1 = i + 2 /\ Len(x.chunks) \in Nat
  BY <1>1, ElementsOf
<1>12. CASE Kept(x, y, t, e, f)
  <2>1. /\ y.chunks = Append(x.chunks, c) /\ f = e /\ c.seq > x.NextSeq /\ y.NextSeq = x.NextSeq
        /\ NoWrap => t[1] > e + 1 \/ t[2] <= e
    BY <1>1, <1>12 DEF Kept, c, Streams
  <2>2. /\ Ordered(y.chunks) /\ ToSet(y.chunks) = ToSet(x.chunks) \cup {c}
        /\ Len(y.chunks) = Len(x.chunks) + 1
    BY <1>1, <1>6, <1>7, <2>1, AppendedChunk
  <2>3. From(y.chunks, segs) /\ Late(y)
    BY <1>1, <1>7, <2>1, <2>2 DEF From, Late, c
  <2>4. \A d \in ToSet(y.chunks) : \A j \in (i + 2)..Len(q) : d.seq <= q[j].seq
    BY <1>1, <1>8, <2>2
  <2>5. NoWrap => \A s \in segs : \A j \in 1..(i + 1) :
                     q[j] = ChunkOf(s) => s[2] <= f \/ ChunkOf(s) \in ToSet(y.chunks)
    BY <1>2, <1>9, <1>10, <2>1, <2>2
  <2>6. Len(y.chunks) <= i + 1
    BY <1>1, <1>11, <2>2
  <2>7. Drained(y, q, segs, a, b, i + 1, f)
    BY <1>1, <1>5, <1>6, <1>11, <2>1, <2>2, <2>3, <2>4, <2>5, <2>6 DEF Drained
  <2> QED
    BY <2>7
<1>13. CASE Dropped(x, y, t, e, f)
  <2>1. y = x /\ f = e /\ (NoWrap => t[2] <= e)
    BY <1>13 DEF Dropped
  <2>2. NoWrap => \A s \in segs : \A j \in 1..(i + 1) :
                     q[j] = ChunkOf(s) => s[2] <= f \/ ChunkOf(s) \in ToSet(y.chunks)
    BY <1>2, <1>9, <1>10, <2>1
  <2>3. \A d \in ToSet(y.chunks) : \A j \in (i + 2)..Len(q) : d.seq <= q[j].seq
    BY <1>1, <1>8, <2>1
  <2>4. Len(y.chunks) <= i + 1
    BY <1>1, <1>11, <2>1
  <2>5. Drained(y, q, segs, a, b, i + 1, f)
    BY <1>1, <1>5, <1>6, <1>11, <2>1, <2>2, <2>3, <2>4 DEF Drained
  <2> QED
    BY <2>5
<1>14. CASE Taken(x, y, t, e, f)
  <2>1. y.chunks = x.chunks /\ f = t[2] /\ t[1] <= e + 1 /\ c.seq <= x.NextSeq
    BY <1>14 DEF Taken, c
  <2>2. ToSet(y.chunks) = {}
    <3> SUFFICES ASSUME NEW d \in ToSet(x.chunks)
                 PROVE  FALSE
      BY <2>1
    <3>1. d.seq \in Int /\ d.seq <= c.seq /\ d.seq > x.NextSeq
      BY <1>7
    <3>2. \A u, v, w \in Int : u <= v /\ v <= w => ~(u > w)
      OBVIOUS
    <3> QED
      BY <1>1, <1>6, <2>1, <3>1, <3>2, Zenon
  <2>3. Covered(segs, b + 1, f)
    <3> SUFFICES ASSUME NEW p \in (b + 1)..f
                 PROVE  \E s \in segs : p \in s[1]..s[2]
      BY DEF Covered
    <3>1. CASE p <= e
      BY <1>1, <1>6, <3>1 DEF Covered
    <3>2. CASE ~ (p <= e)
      <4>1. p \in t[1]..t[2]
        BY <1>6, <2>1, <3>2
      <4> QED
        BY <4>1
    <3> QED
      BY <3>1, <3>2
  <2>4. From(y.chunks, segs) /\ Late(y) /\ Ordered(y.chunks)
    BY <1>1, <2>1, <2>2 DEF From, Late
  <2>5. NoWrap => \A s \in segs : \A j \in 1..(i + 1) :
                     q[j] = ChunkOf(s) => s[2] <= f \/ ChunkOf(s) \in ToSet(y.chunks)
    <3> SUFFICES ASSUME NoWrap, NEW s \in segs, NEW j \in 1..(i + 1), q[j] = ChunkOf(s)
                 PROVE  s[2] <= f
      OBVIOUS
    <3>1. CASE j = i + 1
      <4>1. s[2] = t[2]
        BY <1>10, <3>1
      <4> QED
        BY <1>6, <2>1, <4>1
    <3>2. CASE j # i + 1
      <4>1. s[2] <= e /\ s[2] \in Int
        <5>1. s[2] <= e
          BY <1>2, <1>9, <2>1, <2>2, <3>2
        <5>2. s[2] \in s[1]..Size /\ s[1] \in 1..Size
          BY ChunkIs
        <5> QED
          BY <1>1, <5>1, <5>2
      <4> QED
        BY <1>6, <4>1
    <3> QED
      BY <3>1, <3>2
  <2>6. Len(y.chunks) <= i + 1
    BY <1>1, <1>11, <2>1
  <2>7. Drained(y, q, segs, a, b, i + 1, f)
    BY <1>1, <1>5, <1>6, <1>11, <2>1, <2>2, <2>3, <2>4, <2>5, <2>6 DEF Drained
  <2> QED
    BY <2>7
<1> QED
  BY <1>5, <1>12, <1>13, <1>14

\* The stream has taken the bytes a to b, which arrived in the segments segs, and its
\* queue holds what came too early.
Ready(st, segs, a, b) ==
    /\ st \in Streams /\ st.Initialized /\ Holds(st, a, b) /\ Covered(segs, a, b)
    /\ Ordered(st.chunks) /\ From(st.chunks, segs) /\ Late(st) /\ Len(st.chunks) <= MaxChunks + 1

LEMMA DrainReady ==
    ASSUME isn \in ISNs, NEW segs \in SUBSET Segments, NEW st \in Streams, st.Initialized,
           NEW a, NEW b, Holds(st, a, b), Covered(segs, a, b),
           Ordered(st.chunks), From(st.chunks, segs), Len(st.chunks) <= MaxChunks + 1,
           NEW nt, nt = DrainChunks(st)
    PROVE  \E e \in b..Size : Ready(nt, segs, a, e) /\ (NoWrap /\ Settled(st, segs, b) => Settled(nt, segs, e))
<1> DEFINE q == st.chunks
           base == [st EXCEPT !.chunks = <<>>]
<1>1. /\ q \in Seq(Chunks) /\ Len(q) \in Nat /\ ToSet(q) \subseteq Chunks
      /\ \A c : c \in ToSet(q) <=> \E k \in 1..Len(q) : q[k] = c
      /\ a \in 1..(Size + 1) /\ b \in (a - 1)..Size /\ b \in b..Size /\ a \in Int /\ b \in Int /\ Size \in Nat
  BY ElementsOf, SenderConstants DEF Streams, Holds
<1>2. /\ base \in Streams /\ base.chunks = <<>> /\ base.Initialized
      /\ base.Data = st.Data /\ base.NextSeq = st.NextSeq
  <2>1. <<>> \in Seq(Chunks)
    OBVIOUS
  <2> QED
    BY <2>1 DEF Streams
<1>3. nt = FoldLeft(DrainOne, base, q)
  BY DEF DrainChunks
<1> HIDE DEF base
<1>4. PICK h \in [0..Len(q) -> Streams] : DrainSteps(h, base, q) /\ FoldLeft(DrainOne, base, q) = h[Len(q)]
  <2>1. \A x \in Streams : \A c \in Chunks : DrainOne(x, c) \in Streams
    BY DrainOneTyped
  <2>2. q \in Seq(Chunks) /\ base \in Streams
    BY <1>1, <1>2
  <2> HIDE DEF q
  <2>3. \E h \in [0..Len(q) -> Streams] : DrainSteps(h, base, q) /\ FoldLeft(DrainOne, base, q) = h[Len(q)]
    BY <2>1, <2>2, DrainIsSteps
  <2> QED
    BY <2>3, Zenon
<1> DEFINE T == {i \in Nat : i <= Len(q) => \E e : Drained(h[i], q, segs, a, b, i, e)}
<1>5. 0 \in T
  <2>1. h[0] = base
    BY <1>4 DEF DrainSteps
  <2>2. ToSet(base.chunks) = {} /\ Len(base.chunks) = 0
    BY <1>2 DEF ToSet
  <2>3. Holds(base, a, b)
    BY <1>2 DEF Holds
  <2>4. Covered(segs, b + 1, b)
    BY <1>1 DEF Covered
  <2>5. Ordered(base.chunks) /\ From(base.chunks, segs) /\ Late(base)
    BY <2>2 DEF Ordered, From, Late
  <2>6. NoWrap => \A s \in segs : \A j \in 1..0 :
                     q[j] = ChunkOf(s) => s[2] <= b \/ ChunkOf(s) \in ToSet(base.chunks)
    OBVIOUS
  <2>7. Drained(base, q, segs, a, b, 0, b)
    BY <1>1, <1>2, <2>2, <2>3, <2>4, <2>5, <2>6 DEF Drained
  <2> QED
    BY <2>1, <2>7
<1>6. ASSUME NEW i \in Nat, i \in T PROVE i + 1 \in T
  <2> SUFFICES ASSUME i + 1 <= Len(q)
               PROVE  \E e : Drained(h[i + 1], q, segs, a, b, i + 1, e)
    OBVIOUS
  <2>1. i < Len(q) /\ i + 1 \in 1..Len(q) /\ i + 1 - 1 = i
    BY <1>1
  <2>2. PICK e : Drained(h[i], q, segs, a, b, i, e)
    BY <1>6, <2>1
  <2>3. h[i + 1] = DrainOne(h[i], q[i + 1])
    <3>1. h[i + 1] = DrainOne(h[i + 1 - 1], q[i + 1])
      BY <1>4, <2>1 DEF DrainSteps
    <3> QED
      BY <2>1, <3>1
  <2> HIDE DEF q
  <2> QED
    BY <1>1, <2>1, <2>2, <2>3, DrainStep DEF q
<1>7. Nat \subseteq T
  <2> HIDE DEF T
  <2> QED
    BY <1>5, <1>6, Induction
<1>8. PICK e : Drained(nt, q, segs, a, b, Len(q), e)
  <2>1. Len(q) \in T
    BY <1>1, <1>7
  <2> QED
    BY <1>1, <1>3, <1>4, <2>1
<1> HIDE DEF T
<1>9. /\ e \in b..Size /\ nt \in Streams /\ nt.Initialized /\ Holds(nt, a, e) /\ Covered(segs, b + 1, e)
      /\ Ordered(nt.chunks) /\ From(nt.chunks, segs) /\ Late(nt) /\ Len(nt.chunks) <= Len(q)
      /\ nt.chunks \in Seq(Chunks)
  BY <1>8 DEF Drained, Streams
<1>10. Covered(segs, a, e)
  <2> SUFFICES ASSUME NEW p \in a..e
               PROVE  \E s \in segs : p \in s[1]..s[2]
    BY DEF Covered
  <2>1. p \in a..b \/ p \in (b + 1)..e
    BY <1>1, <1>9
  <2> QED
    BY <1>9, <2>1 DEF Covered
<1>11. Len(nt.chunks) <= MaxChunks + 1
  <2>1. Len(nt.chunks) \in Nat /\ MaxChunks \in Nat
    BY <1>9, ElementsOf, SenderConstants
  <2> QED
    BY <1>1, <1>9, <2>1
<1>12. ASSUME NoWrap, Settled(st, segs, b), NEW s \in segs
       PROVE  s[2] <= e \/ ChunkOf(s) \in ToSet(nt.chunks)
  <2>1. CASE ChunkOf(s) \in ToSet(q)
    <3>1. PICK j \in 1..Len(q) : q[j] = ChunkOf(s)
      BY <1>1, <2>1
    <3> QED
      BY <1>8, <1>12, <3>1 DEF Drained
  <2>2. CASE s[2] <= b
    <3>1. s[2] \in s[1]..Size /\ s[1] \in 1..Size
      BY ChunkIs
    <3> QED
      BY <1>1, <1>9, <2>2, <3>1
  <2> QED
    BY <1>12, <2>1, <2>2 DEF Settled
<1>13. Ready(nt, segs, a, e)
  BY <1>9, <1>10, <1>11 DEF Ready
<1> QED
  BY <1>9, <1>12, <1>13 DEF Settled

-------------------------------------------------------------------------------
(* The queue *)

LEMMA InsertAtIs ==
    ASSUME NEW q, NEW i, NEW c
    PROVE  InsertAt(q, i, c) = SubSeq(q, 1, i - 1) \o <<c>> \o SubSeq(q, i, Len(q))
BY DEF InsertAt

LEMMA QueuedChunk ==
    ASSUME isn \in ISNs, NEW st \in Streams, NEW c \in Chunks, Ordered(st.chunks), NEW nt, nt = Queue(st, c)
    PROVE  /\ nt \in Streams /\ nt.Initialized = st.Initialized /\ nt.Data = st.Data /\ nt.NextSeq = st.NextSeq
           /\ Ordered(nt.chunks) /\ Len(nt.chunks) = Len(st.chunks) + 1
           /\ ToSet(nt.chunks) = ToSet(st.chunks) \cup {c}
<1> DEFINE q == st.chunks
           n == Len(q)
           early == {i \in DOMAIN q : q[i].seq <= c.seq}
           m == Max({0} \cup early)
           front == SubSeq(q, 1, m)
           back == SubSeq(q, m + 1, n)
           r == InsertAt(q, m + 1, c)
<1>1. q \in Seq(Chunks) /\ n \in Nat /\ DOMAIN q = 1..n /\ \A i \in 1..n : q[i] \in Chunks /\ q[i].seq \in Int
  BY SeqOfChunk DEF Streams
<1>2. c.seq \in Int
  BY SeqOfChunk
<1>3. m \in {0} \cup early /\ \A y \in {0} \cup early : y <= m
  <2>1. {0} \cup early \subseteq Int /\ {0} \cup early # {} /\ n \in Int /\ \A y \in {0} \cup early : y <= n
    BY <1>1
  <2> HIDE DEF early, n
  <2> QED
    BY <2>1, MaxOf
<1>4. nt = [st EXCEPT !.chunks = r]
  BY DEF Queue
<1>5. \A i \in 1..n : i \in early <=> q[i].seq <= c.seq
  BY <1>1
<1> HIDE DEF m
<1>6. m \in 0..n /\ \A i \in 1..n : i <= m <=> q[i].seq <= c.seq
  <2>1. m \in 0..n
    BY <1>1, <1>3
  <2>2. ASSUME NEW i \in 1..n, i <= m PROVE q[i].seq <= c.seq
    <3>1. m \in 1..n /\ q[m].seq <= c.seq
      BY <1>1, <1>3, <1>5, <2>1, <2>2
    <3>2. i = m \/ q[i].seq <= q[m].seq
      BY <1>1, <2>2, <3>1 DEF Ordered
    <3> QED
      BY <1>1, <1>2, <3>1, <3>2
  <2>3. ASSUME NEW i \in 1..n, q[i].seq <= c.seq PROVE i <= m
    BY <1>3, <1>5, <2>3
  <2> QED
    BY <2>1, <2>2, <2>3
<1> HIDE DEF early
<1>7. front \in Seq(Chunks) /\ Len(front) = m /\ \A i \in 1..m : front[i] = q[i]
  <2>1. 1 \in 1..(n + 1) /\ m \in (1 - 1)..n /\ m - 1 + 1 = m
    BY <1>1, <1>6
  <2>2. /\ front \in Seq(Chunks) /\ Len(front) = m - 1 + 1
        /\ \A i \in 1..(m - 1 + 1) : front[i] = q[1 + i - 1]
    BY <1>1, <2>1, CutOf
  <2>3. \A i \in 1..m : 1 + i - 1 = i
    BY <1>6
  <2> HIDE DEF front
  <2> QED
    BY <2>1, <2>2, <2>3
<1>8. back \in Seq(Chunks) /\ Len(back) = n - m /\ \A i \in 1..(n - m) : back[i] = q[m + i]
  <2>1. m + 1 \in 1..(n + 1) /\ n \in (m + 1 - 1)..n /\ n - (m + 1) + 1 = n - m
    BY <1>1, <1>6
  <2>2. /\ back \in Seq(Chunks) /\ Len(back) = n - (m + 1) + 1
        /\ \A i \in 1..(n - (m + 1) + 1) : back[i] = q[m + 1 + i - 1]
    BY <1>1, <2>1, CutOf
  <2>3. \A i \in 1..(n - m) : m + 1 + i - 1 = m + i
    BY <1>1, <1>6
  <2> HIDE DEF back
  <2> QED
    BY <2>1, <2>2, <2>3
<1>9. /\ r \in Seq(Chunks) /\ Len(r) = n + 1
      /\ \A i \in 1..(n + 1) : r[i] = IF i <= m THEN q[i] ELSE IF i = m + 1 THEN c ELSE q[i - 1]
  <2> DEFINE u == <<c>>
             v == front \o u
  <2>1. u \in Seq(Chunks) /\ Len(u) = 1 /\ u[1] = c
    OBVIOUS
  <2>2. r = v \o back
    <3>1. (m + 1) - 1 = m
      BY <1>6
    <3>2. r = SubSeq(q, 1, (m + 1) - 1) \o u \o SubSeq(q, m + 1, Len(q))
      BY InsertAtIs
    <3> QED
      BY <3>1, <3>2
  <2> HIDE DEF front, back, u
  <2>3. /\ v \in Seq(Chunks) /\ Len(v) = m + 1
        /\ \A i \in 1..(m + 1) : v[i] = IF i <= m THEN front[i] ELSE u[i - m]
    <3>1. /\ v \in Seq(Chunks) /\ Len(v) = Len(front) + Len(u)
          /\ \A i \in 1..(Len(front) + Len(u)) : v[i] = IF i <= Len(front) THEN front[i] ELSE u[i - Len(front)]
      BY <1>7, <2>1, ConcatProperties, Zenon
    <3> HIDE DEF v
    <3> QED
      BY <1>7, <2>1, <3>1
  <2> HIDE DEF v
  <2>4. /\ v \o back \in Seq(Chunks) /\ Len(v \o back) = (m + 1) + (n - m)
        /\ \A i \in 1..((m + 1) + (n - m)) : (v \o back)[i] = IF i <= m + 1 THEN v[i] ELSE back[i - (m + 1)]
    <3>1. Len(v) = m + 1 /\ Len(back) = n - m /\ v \in Seq(Chunks) /\ back \in Seq(Chunks)
      BY <1>8, <2>3
    <3>2. /\ v \o back \in Seq(Chunks) /\ Len(v \o back) = Len(v) + Len(back)
          /\ \A i \in 1..(Len(v) + Len(back)) : (v \o back)[i] = IF i <= Len(v) THEN v[i] ELSE back[i - Len(v)]
      BY <3>1, ConcatProperties, Zenon
    <3> HIDE DEF n
    <3> QED
      BY <3>1, <3>2, Zenon
  <2> HIDE DEF r
  <2>5. /\ r \in Seq(Chunks) /\ Len(r) = (m + 1) + (n - m)
        /\ \A i \in 1..((m + 1) + (n - m)) : r[i] = IF i <= m + 1 THEN v[i] ELSE back[i - (m + 1)]
    BY <2>2, <2>4
  <2>6. (m + 1) + (n - m) = n + 1
    <3>1. m \in Int /\ n \in Int
      BY <1>1, <1>6
    <3> HIDE DEF n
    <3> QED
      BY <3>1
  <2>7. ASSUME NEW i \in 1..(n + 1)
        PROVE  r[i] = IF i <= m THEN q[i] ELSE IF i = m + 1 THEN c ELSE q[i - 1]
    <3>1. CASE i <= m
      <4>1. i \in 1..(m + 1) /\ i <= m + 1 /\ i \in 1..m
        BY <1>6, <3>1
      <4> QED
        BY <1>7, <2>3, <2>5, <2>6, <3>1, <4>1
    <3>2. CASE i = m + 1
      <4>1. i \in 1..(m + 1) /\ i <= m + 1 /\ ~ (i <= m) /\ i - m = 1
        BY <1>6, <3>2
      <4> QED
        BY <2>1, <2>3, <2>5, <2>6, <3>2, <4>1
    <3>3. CASE ~ (i <= m) /\ i # m + 1
      <4>1. ~ (i <= m + 1) /\ i - (m + 1) \in 1..(n - m) /\ m + (i - (m + 1)) = i - 1
        BY <1>1, <1>6, <3>3
      <4>2. back[i - (m + 1)] = q[m + (i - (m + 1))]
        BY <1>8, <4>1
      <4> QED
        BY <2>5, <2>6, <3>3, <4>1, <4>2
    <3> QED
      BY <3>1, <3>2, <3>3
  <2> QED
    BY <2>5, <2>6, <2>7
<1> HIDE DEF r
<1>10. nt \in Streams /\ nt.chunks = r /\ nt.Initialized = st.Initialized /\ nt.Data = st.Data /\ nt.NextSeq = st.NextSeq
  BY <1>4, <1>9 DEF Streams
<1>11. Ordered(r)
  <2> SUFFICES ASSUME NEW i \in 1..(n + 1), NEW j \in 1..(n + 1), i < j
               PROVE  r[i].seq <= r[j].seq
    BY <1>9 DEF Ordered
  <2>1. CASE j <= m
    <3>1. i \in 1..n /\ j \in 1..n /\ i <= m /\ q[i].seq <= q[j].seq
      <4>1. i \in 1..n /\ j \in 1..n /\ i <= m
        BY <1>1, <1>6, <2>1
      <4> QED
        BY <4>1 DEF Ordered
    <3> QED
      BY <1>9, <2>1, <3>1
  <2>2. CASE j = m + 1
    <3>1. i \in 1..n /\ i <= m /\ ~ (j <= m)
      BY <1>1, <1>6, <2>2
    <3>2. q[i].seq <= c.seq
      BY <1>6, <3>1
    <3> QED
      BY <1>9, <2>2, <3>1, <3>2
  <2>3. CASE ~ (j <= m) /\ j # m + 1
    <3>1. j - 1 \in 1..n /\ ~ (j - 1 <= m) /\ r[j] = q[j - 1]
      <4>1. m \in Int /\ m >= 0 /\ n \in Int
        BY <1>1, <1>6
      <4>2. r[j] = q[j - 1]
        BY <1>9, <2>3
      <4> HIDE DEF n
      <4>3. j - 1 \in 1..n /\ ~ (j - 1 <= m)
        BY <2>3, <4>1
      <4> QED
        BY <4>2, <4>3
    <3>2. c.seq <= q[j - 1].seq
      BY <1>1, <1>2, <1>6, <3>1
    <3>3. CASE i <= m
      <4>1. i \in 1..n /\ i < j - 1 /\ r[i] = q[i]
        BY <1>1, <1>6, <1>9, <2>3, <3>3
      <4> QED
        BY <3>1, <4>1 DEF Ordered
    <3>4. CASE i = m + 1
      <4>1. r[i] = c
        BY <1>6, <1>9, <3>4
      <4> QED
        BY <3>1, <3>2, <4>1
    <3>5. CASE ~ (i <= m) /\ i # m + 1
      <4>1. i - 1 \in 1..n /\ i - 1 < j - 1 /\ r[i] = q[i - 1]
        BY <1>1, <1>6, <1>9, <3>5
      <4> QED
        BY <3>1, <4>1 DEF Ordered
    <3> QED
      BY <3>3, <3>4, <3>5
  <2> QED
    BY <2>1, <2>2, <2>3
<1>12. ToSet(r) = ToSet(q) \cup {c}
  <2>1. /\ \A d : d \in ToSet(r) <=> \E k \in 1..(n + 1) : r[k] = d
        /\ \A d : d \in ToSet(q) <=> \E k \in 1..n : q[k] = d
    BY <1>1, <1>9, ElementsOf
  <2>2. ASSUME NEW k \in 1..(n + 1) PROVE r[k] \in ToSet(q) \cup {c}
    <3>1. k <= m => k \in 1..n
      BY <1>1, <1>6
    <3>2. ~ (k <= m) /\ k # m + 1 => k - 1 \in 1..n
      BY <1>1, <1>6
    <3> QED
      BY <1>9, <2>1, <3>1, <3>2
  <2>3. ASSUME NEW k \in 1..n PROVE \E l \in 1..(n + 1) : r[l] = q[k]
    <3>1. CASE k <= m
      <4>1. k \in 1..(n + 1)
        BY <1>1
      <4> QED
        BY <1>9, <3>1, <4>1
    <3>2. CASE ~ (k <= m)
      <4>1. k + 1 \in 1..(n + 1) /\ ~ (k + 1 <= m) /\ k + 1 # m + 1 /\ k + 1 - 1 = k
        BY <1>1, <1>6, <3>2
      <4>2. r[k + 1] = q[k + 1 - 1]
        BY <1>9, <4>1
      <4> QED
        BY <4>1, <4>2
    <3> QED
      BY <3>1, <3>2
  <2>4. m + 1 \in 1..(n + 1) /\ r[m + 1] = c
    BY <1>1, <1>6, <1>9
  <2> QED
    BY <2>1, <2>2, <2>3, <2>4
<1> QED
  BY <1>9, <1>10, <1>11, <1>12

-------------------------------------------------------------------------------
(* AddSegment *)

AlignedIn(segs) == \A s, t \in segs : s[1] \in t[1]..t[2] => s = t
Begun(segs, a, b) == (a = 1 \/ \E t \in segs : t[1] = a) /\ (b = a - 1 => a = 1)
\* Nothing that can be delivered is withheld, of a sender that cuts what it sends once.
Prompt(st, segs, lost, b) ==
    NoWrap /\ AlignedIn(segs) /\ ~lost => Len(st.Data) >= MaxDepth \/ Settled(st, segs, b)
Running(st, segs, lost, a, b) == Ready(st, segs, a, b) /\ Begun(segs, a, b) /\ Prompt(st, segs, lost, b)

LEMMA ReadyForMore ==
    ASSUME NEW segs, NEW st, NEW a, NEW b, Ready(st, segs, a, b), NEW more, segs \subseteq more
    PROVE  Ready(st, more, a, b)
<1>1. Covered(more, a, b)
  BY DEF Ready, Covered
<1>2. From(st.chunks, more)
  BY DEF Ready, From
<1> QED
  BY <1>1, <1>2 DEF Ready

\* What AddSegment learns of a segment from its number.
LEMMA Comparison ==
    ASSUME isn \in ISNs, NEW b \in 0..Size, NEW s \in Segments, NEW diff, diff = (SeqAt(s[1]) - SeqAt(b + 1)) % Modulus
    PROVE  /\ diff = 0 <=> s[1] = b + 1
           /\ IsBehind(diff) <=> s[1] <= b
           /\ diff # 0 /\ ~ IsBehind(diff) => diff \in 1..(Modulus \div 2 - 1)
<1>1. s[1] \in 1..Size /\ Size \in Nat /\ Modulus \in Nat /\ Modulus > 2 * Size
  BY ChunkIs, SenderConstants
<1>2. s[1] \in 1..(Size + 1) /\ b + 1 \in 1..(Size + 1)
  BY <1>1
<1>3. diff = IF s[1] >= b + 1 THEN s[1] - (b + 1) ELSE s[1] - (b + 1) + Modulus
  BY <1>2, DiffIs
<1> PICK h : h = Modulus \div 2
  OBVIOUS
<1>4. h \in Int /\ h >= Size /\ 2 * h <= Modulus
  BY <1>1
<1> PICK i : i = s[1]
  OBVIOUS
<1>5. i \in Int /\ i >= 1 /\ i <= Size /\ b \in Int /\ b >= 0 /\ b <= Size
      /\ diff = IF i >= b + 1 THEN i - (b + 1) ELSE i - (b + 1) + Modulus
  BY <1>1, <1>3
<1>6. CASE i >= b + 1
  BY <1>1, <1>4, <1>5, <1>6 DEF IsBehind
<1>7. CASE ~ (i >= b + 1)
  <2>1. diff >= h /\ diff # 0
    BY <1>1, <1>4, <1>5, <1>7
  <2> QED
    BY <1>1, <1>4, <1>5, <1>7, <2>1 DEF IsBehind
<1> QED
  BY <1>6, <1>7

\* A segment that starts among what was taken, or before it, holds nothing new.
LEMMA BehindIsOld ==
    ASSUME isn \in ISNs, NEW segs \in SUBSET Segments, NEW st, NEW a, NEW b, Ready(st, segs, a, b),
           NEW s \in Segments, s[1] <= b, NoWrap, AlignedIn(segs \cup {s}),
           a = 1 \/ a = s[1] \/ \E t \in segs : t[1] = a, Settled(st, segs, b)
    PROVE  s[2] <= b
<1>1. /\ s[1] \in 1..Size /\ s[2] \in s[1]..Size /\ ChunkOf(s).seq = SeqAt(s[1])
      /\ a \in 1..(Size + 1) /\ b \in (a - 1)..Size /\ Size \in Nat /\ Modulus \in Nat /\ Modulus > 2 * Size
      /\ st.NextSeq = SeqAt(b + 1)
  BY ChunkIs, SenderConstants DEF Ready, Holds
<1>2. s[1] \in Int /\ s[2] \in Int /\ a \in Int /\ b \in Int /\ b <= Size /\ s[2] <= Size /\ a - 1 <= b /\ s[1] >= 1
  BY <1>1
<1>3. CASE a <= s[1]
  <2>1. s[1] \in a..b
    BY <1>2, <1>3
  <2>2. PICK t \in segs : s[1] \in t[1]..t[2]
    BY <2>1 DEF Ready, Covered
  <2>3. s = t
    BY <2>2 DEF AlignedIn
  <2>4. CASE ChunkOf(s) \in ToSet(st.chunks)
    <3>1. SeqAt(s[1]) > SeqAt(b + 1)
      BY <1>1, <2>4 DEF Ready, Late
    <3>2. s[1] \in 0..(Size + 1) /\ b + 1 \in 0..(Size + 1)
      BY <1>1
    <3>3. /\ SeqAt(s[1]) = IF isn + s[1] < Modulus THEN isn + s[1] ELSE isn + s[1] - Modulus
          /\ isn \in 0..(Modulus - 1)
      BY <3>2, SeqAtIs, Zenon
    <3>4. SeqAt(b + 1) = IF isn + (b + 1) < Modulus THEN isn + (b + 1) ELSE isn + (b + 1) - Modulus
      BY <3>2, SeqAtIs, Zenon
    <3>5. isn \in Int /\ isn + Size < Modulus
      BY <1>1, <3>3 DEF NoWrap, Size
    <3>6. SeqAt(s[1]) = isn + s[1]
      BY <1>1, <1>2, <3>3, <3>5
    <3> HIDE DEF Size
    <3>7. ~ (isn + (b + 1) < Modulus)
      BY <1>2, <3>1, <3>4, <3>5, <3>6
    <3> QED
      BY <1>1, <1>2, <3>5, <3>7
  <2> QED
    BY <2>2, <2>3, <2>4 DEF Settled
<1>4. CASE ~ (a <= s[1])
  <2>1. PICK t \in segs : t[1] = a
    BY <1>2, <1>4
  <2>2. s[2] < a
    <3> SUFFICES ASSUME ~ (s[2] < a)
                 PROVE  FALSE
      OBVIOUS
    <3>1. t[1] \in s[1]..s[2]
      BY <1>2, <1>4, <2>1
    <3>2. t = s
      BY <3>1 DEF AlignedIn
    <3> QED
      BY <1>2, <1>4, <2>1, <3>2
  <2> QED
    BY <1>2, <2>2
<1> QED
  BY <1>3, <1>4

\* What a segment s makes of a stream that had taken the bytes a to b.
Advances(st, nt, segs, s, a, b, e) ==
    /\ Ready(nt, segs \cup {s}, a, e)
    /\ Len(st.Data) >= MaxDepth => nt = st
    /\ Len(st.Data) < MaxDepth /\ s[1] = b + 1 => e > b
    /\ /\ NoWrap /\ AlignedIn(segs \cup {s}) /\ (a = 1 \/ a = s[1] \/ \E t \in segs : t[1] = a)
       /\ Len(st.Data) < MaxDepth /\ ~ Refuses(st, SeqAt(s[1])) /\ Settled(st, segs, b)
       => Settled(nt, segs \cup {s}, e)

LEMMA SegmentReady ==
    ASSUME isn \in ISNs, NEW segs \in SUBSET Segments, NEW st \in Streams, NEW a, NEW b,
           Ready(st, segs, a, b), NEW s \in Segments,
           NEW nt, nt = AddSegment(st, SeqAt(s[1]), SubSeq(Sent, s[1], s[2]))
    PROVE  \E e \in b..Size : Advances(st, nt, segs, s, a, b, e)
<1> DEFINE payload == SubSeq(Sent, s[1], s[2])
           diff == (SeqAt(s[1]) - st.NextSeq) % Modulus
           more == segs \cup {s}
           c == [seq |-> SeqAt(s[1]), data |-> payload]
<1>1. /\ st.Initialized /\ Holds(st, a, b) /\ Covered(segs, a, b) /\ Ordered(st.chunks)
      /\ From(st.chunks, segs) /\ Late(st) /\ Len(st.chunks) <= MaxChunks + 1
  BY DEF Ready
<1>2. /\ s[1] \in 1..Size /\ s[2] \in s[1]..Size /\ c = ChunkOf(s) /\ c \in Chunks
      /\ IsRun(payload, s[1], s[2]) /\ Len(payload) = s[2] - s[1] + 1
      /\ a \in 1..(Size + 1) /\ b \in (a - 1)..Size /\ st.NextSeq = SeqAt(b + 1)
      /\ Size \in Nat /\ MaxDepth \in Nat /\ MaxChunks \in Nat
  BY <1>1, ChunkIs, SenderConstants DEF Holds, ChunkOf
<1>3. /\ s[1] \in Int /\ s[2] \in Int /\ s[1] <= s[2] /\ s[2] <= Size
      /\ a \in Int /\ b \in Int /\ b \in 0..Size /\ b \in b..Size /\ a >= 1 /\ a - 1 <= b
  BY <1>2
<1>4. payload # <<>>
  <2>1. Len(payload) >= 1
    BY <1>2, <1>3
  <2> HIDE DEF payload
  <2> QED
    BY <2>1
<1>5. Len(st.Data) \in Nat /\ Len(st.chunks) \in Nat
  BY LenProperties DEF Streams
<1>6. /\ diff = 0 <=> s[1] = b + 1
      /\ IsBehind(diff) <=> s[1] <= b
      /\ diff # 0 /\ ~ IsBehind(diff) => diff \in 1..(Modulus \div 2 - 1)
  BY <1>2, <1>3, Comparison
<1>7. nt = IF Len(st.Data) >= MaxDepth THEN st
           ELSE IF diff = 0 THEN DrainChunks(AppendData(st, payload))
           ELSE IF IsBehind(diff) \/ QueueFull(st) THEN st
           ELSE DrainChunks(Queue(st, c))
  BY <1>1, <1>4 DEF AddSegment, SetNextSeq
<1>8. Refuses(st, SeqAt(s[1])) <=> QueueFull(st) /\ diff \in 1..(Modulus \div 2 - 1)
  BY DEF Refuses
<1>9. more \in SUBSET Segments /\ segs \subseteq more /\ s \in more
  OBVIOUS
<1>10. Ready(st, more, a, b)
  BY <1>9, ReadyForMore
<1>11. From(st.chunks, more)
  BY <1>10 DEF Ready
<1> HIDE DEF diff, payload, c, more
<1> USE DEF more
<1>12. CASE Len(st.Data) >= MaxDepth
  <2>1. nt = st
    BY <1>7, <1>12
  <2>2. ~ (Len(st.Data) < MaxDepth)
    BY <1>2, <1>5, <1>12
  <2> QED
    BY <1>3, <1>10, <2>1, <2>2, Zenon DEF Advances
<1>13. CASE ~ (Len(st.Data) >= MaxDepth) /\ diff = 0
  <2> DEFINE ap == AppendData(st, payload)
  <2>1. s[1] = b + 1 /\ s[2] \in b..Size /\ s[2] > b
    BY <1>3, <1>6, <1>13
  <2>2. IsRun(payload, b + 1, s[2])
    BY <1>2, <2>1
  <2>3. ap \in Streams /\ ap.Initialized /\ ap.chunks = st.chunks /\ Holds(ap, a, s[2])
    BY <1>1, <2>1, <2>2, AppendHolds
  <2>4. nt = DrainChunks(ap)
    BY <1>7, <1>13
  <2> HIDE DEF ap
  <2>5. Covered(more, a, s[2])
    <3> SUFFICES ASSUME NEW p \in a..s[2]
                 PROVE  \E t \in more : p \in t[1]..t[2]
      BY DEF Covered
    <3>1. p \in a..b \/ p \in s[1]..s[2]
      BY <1>3, <2>1
    <3> QED
      BY <1>1, <3>1 DEF Covered
  <2>6. PICK e \in s[2]..Size : Ready(nt, more, a, e)
                                /\ (NoWrap /\ Settled(ap, more, s[2]) => Settled(nt, more, e))
    <3>1. Ordered(ap.chunks) /\ From(ap.chunks, more) /\ Len(ap.chunks) <= MaxChunks + 1
      BY <1>1, <1>11, <2>3
    <3> QED
      BY <1>9, <2>3, <2>4, <2>5, <3>1, DrainReady
  <2>7. Settled(st, segs, b) => Settled(ap, more, s[2])
    <3> SUFFICES ASSUME Settled(st, segs, b), NEW t \in more
                 PROVE  t[2] <= s[2] \/ ChunkOf(t) \in ToSet(ap.chunks)
      BY DEF Settled
    <3>1. CASE t = s
      BY <1>3, <3>1
    <3>2. CASE t \in segs
      <4>1. t[2] \in t[1]..Size /\ t[1] \in 1..Size
        BY <3>2, ChunkIs
      <4>2. t[2] <= b \/ ChunkOf(t) \in ToSet(st.chunks)
        BY <3>2 DEF Settled
      <4> QED
        BY <1>2, <1>3, <2>1, <2>3, <4>1, <4>2
    <3> QED
      BY <3>1, <3>2
  <2>8. e \in b..Size /\ e > b
    BY <1>3, <2>1
  <2> QED
    BY <1>13, <2>6, <2>7, <2>8, Zenon DEF Advances
<1>14. CASE ~ (Len(st.Data) >= MaxDepth) /\ diff # 0 /\ (IsBehind(diff) \/ QueueFull(st))
  <2>1. nt = st /\ s[1] # b + 1
    BY <1>6, <1>7, <1>14
  <2>2. ASSUME NoWrap, AlignedIn(more), a = 1 \/ a = s[1] \/ \E t \in segs : t[1] = a,
               ~ Refuses(st, SeqAt(s[1])), Settled(st, segs, b)
        PROVE  Settled(st, more, b)
    <3>1. s[1] <= b
      BY <1>6, <1>8, <1>14, <2>2
    <3>2. s[2] <= b
      BY <2>2, <3>1, BehindIsOld
    <3> QED
      BY <2>2, <3>2 DEF Settled
  <2> QED
    BY <1>3, <1>10, <1>14, <2>1, <2>2, Zenon DEF Advances
<1>15. CASE ~ (Len(st.Data) >= MaxDepth) /\ diff # 0 /\ ~ (IsBehind(diff) \/ QueueFull(st))
  <2> DEFINE qd == Queue(st, c)
  <2>1. nt = DrainChunks(qd) /\ s[1] # b + 1
    BY <1>6, <1>7, <1>15
  <2>2. /\ qd \in Streams /\ qd.Initialized = st.Initialized /\ qd.Data = st.Data /\ qd.NextSeq = st.NextSeq
        /\ Ordered(qd.chunks) /\ Len(qd.chunks) = Len(st.chunks) + 1
        /\ ToSet(qd.chunks) = ToSet(st.chunks) \cup {c}
    BY <1>1, <1>2, QueuedChunk, ZenonT(40)
  <2> HIDE DEF qd
  <2>3. Holds(qd, a, b)
    BY <1>1, <2>2 DEF Holds
  <2>4. From(qd.chunks, more)
    BY <1>2, <1>11, <2>2 DEF From
  <2>5. Len(qd.chunks) <= MaxChunks + 1
    BY <1>2, <1>5, <1>15, <2>2 DEF QueueFull
  <2>6. Covered(more, a, b)
    BY <1>10 DEF Ready
  <2>7. PICK e \in b..Size : Ready(nt, more, a, e) /\ (NoWrap /\ Settled(qd, more, b) => Settled(nt, more, e))
    BY <1>1, <1>9, <2>1, <2>2, <2>3, <2>4, <2>5, <2>6, DrainReady
  <2>8. Settled(st, segs, b) => Settled(qd, more, b)
    BY <1>2, <2>2 DEF Settled
  <2> QED
    BY <1>15, <2>1, <2>7, <2>8, Zenon DEF Advances
<1> QED
  BY <1>12, <1>13, <1>14, <1>15, Zenon

\* A segment that comes to a stream that is running, and the first of one that is not.
LEMMA Goes ==
    ASSUME isn \in ISNs, NEW segs \in SUBSET Segments, NEW st, NEW lost, NEW a, NEW b,
           Running(st, segs, lost, a, b), NEW s \in Segments,
           NEW nt, nt = AddSegment(st, SeqAt(s[1]), SubSeq(Sent, s[1], s[2]))
    PROVE  \E e \in b..Size : Running(nt, segs \cup {s}, lost \/ Refuses(st, SeqAt(s[1])), a, e)
<1>1. st \in Streams /\ Ready(st, segs, a, b) /\ Begun(segs, a, b) /\ Prompt(st, segs, lost, b)
  BY DEF Running, Ready
<1>2. PICK e \in b..Size : Advances(st, nt, segs, s, a, b, e)
  BY <1>1, SegmentReady, Zenon
<1>3. a \in Int /\ b \in Int /\ a - 1 <= b
  BY <1>1, SenderConstants DEF Ready, Holds
<1>4. Begun(segs \cup {s}, a, e)
  BY <1>1, <1>3 DEF Begun
<1>5. Len(st.Data) \in Nat /\ MaxDepth \in Nat
  BY <1>1, LenProperties, SenderConstants DEF Streams
<1>6. Prompt(nt, segs \cup {s}, lost \/ Refuses(st, SeqAt(s[1])), e)
  <2> SUFFICES ASSUME NoWrap, AlignedIn(segs \cup {s}), ~ (lost \/ Refuses(st, SeqAt(s[1])))
               PROVE  Len(nt.Data) >= MaxDepth \/ Settled(nt, segs \cup {s}, e)
    BY DEF Prompt
  <2>1. AlignedIn(segs)
    BY DEF AlignedIn
  <2>2. Len(st.Data) >= MaxDepth \/ Settled(st, segs, b)
    BY <1>1, <2>1 DEF Prompt
  <2>3. a = 1 \/ a = s[1] \/ \E t \in segs : t[1] = a
    BY <1>1 DEF Begun
  <2>4. Len(st.Data) >= MaxDepth \/ Len(st.Data) < MaxDepth
    BY <1>5
  <2> QED
    BY <1>2, <2>2, <2>3, <2>4 DEF Advances
<1> QED
  BY <1>2, <1>4, <1>6 DEF Running, Advances

LEMMA StreamStarts ==
    ASSUME isn \in ISNs, NEW st \in Streams, st.Data = <<>>, st.chunks = <<>>,
           NEW a \in 1..(Size + 1), NEW nt, nt = [st EXCEPT !.Initialized = TRUE, !.NextSeq = SeqAt(a)]
    PROVE  Ready(nt, {}, a, a - 1)
<1>1. a \in 0..(Size + 1) /\ a \in Int /\ Size \in Nat /\ MaxDepth \in Nat /\ MaxDepth > 0 /\ MaxChunks \in Nat
  BY SenderConstants
<1>2. SeqAt(a) \in 0..(Modulus - 1)
  BY <1>1, SeqAtIs
<1>3. /\ nt \in Streams /\ nt.Data = <<>> /\ nt.chunks = <<>> /\ nt.Initialized /\ nt.NextSeq = SeqAt(a)
  BY <1>2 DEF Streams
<1>4. Upto(a, a - 1) = a - 1 /\ a - 1 \in (a - 1)..Size /\ (a - 1) + 1 = a /\ (a - 1) - a + 1 = 0
  BY <1>1 DEF Upto
<1>5. IsRun(<<>>, a, a - 1)
  BY <1>4 DEF IsRun
<1>6. Holds(nt, a, a - 1)
  BY <1>3, <1>4, <1>5 DEF Holds
<1>7. Covered({}, a, a - 1)
  BY <1>1 DEF Covered
<1>8. ToSet(nt.chunks) = {} /\ Len(nt.chunks) = 0
  BY <1>3 DEF ToSet
<1>9. Ordered(nt.chunks) /\ From(nt.chunks, {}) /\ Late(nt) /\ Len(nt.chunks) <= MaxChunks + 1
  BY <1>1, <1>8 DEF Ordered, From, Late
<1> QED
  BY <1>3, <1>6, <1>7, <1>9 DEF Ready

LEMMA Starts ==
    ASSUME isn \in ISNs, NEW st \in Streams, ~ st.Initialized, st.Data = <<>>, st.chunks = <<>>,
           NEW lost, NEW s \in Segments,
           NEW nt, nt = AddSegment(st, SeqAt(s[1]), SubSeq(Sent, s[1], s[2]))
    PROVE  \E a, e : Running(nt, {s}, lost \/ Refuses(st, SeqAt(s[1])), a, e)
<1> DEFINE a == s[1]
           mid == [st EXCEPT !.Initialized = TRUE, !.NextSeq = SeqAt(a)]
<1>1. a \in 1..Size /\ a \in 1..(Size + 1) /\ a \in Int /\ a - 1 + 1 = a /\ MaxDepth \in Nat /\ MaxDepth > 0
  BY ChunkIs, SenderConstants
<1>2. mid.Data = <<>> /\ mid.Initialized /\ mid.NextSeq = SeqAt(a) /\ Len(mid.Data) < MaxDepth
      /\ ~ (Len(mid.Data) >= MaxDepth) /\ ~ (Len(st.Data) >= MaxDepth)
  BY <1>1 DEF Streams
<1>3. SetNextSeq(st, SeqAt(a)) = mid /\ SetNextSeq(mid, SeqAt(a)) = mid
  BY <1>2 DEF SetNextSeq
<1>4. Ready(mid, {}, a, a - 1)
  BY <1>1, StreamStarts
<1> HIDE DEF mid
<1>5. nt = AddSegment(mid, SeqAt(a), SubSeq(Sent, s[1], s[2]))
  <2> DEFINE p == SubSeq(Sent, s[1], s[2])
             done(sr) == LET diff == (SeqAt(a) - sr.NextSeq) % Modulus
                         IN  IF diff = 0 THEN DrainChunks(AppendData(sr, p))
                             ELSE IF IsBehind(diff) \/ QueueFull(sr) THEN sr
                             ELSE DrainChunks(Queue(sr, [seq |-> SeqAt(a), data |-> p]))
  <2>1. p # <<>>
    <3>1. IsRun(p, s[1], s[2]) /\ s[2] \in s[1]..Size /\ s[1] \in 1..Size
      BY ChunkIs DEF ChunkOf
    <3>2. Len(p) >= 1
      <4> HIDE DEF p
      <4> QED
        BY <3>1, SenderConstants DEF IsRun
    <3> HIDE DEF p
    <3> QED
      BY <3>2
  <2> HIDE DEF p
  <2>2. AddSegment(mid, SeqAt(a), p) = done(mid)
    BY <1>2, <1>3, <2>1 DEF AddSegment
  <2>3. AddSegment(st, SeqAt(a), p) = done(mid)
    BY <1>2, <1>3, <2>1 DEF AddSegment
  <2> QED
    BY <2>2, <2>3 DEF p
<1>6. mid \in Streams
  BY <1>4 DEF Ready
<1>7. PICK e \in (a - 1)..Size : Advances(mid, nt, {}, s, a, a - 1, e)
  BY <1>4, <1>5, <1>6, SegmentReady
<1>8. /\ {} \cup {s} = {s} /\ Ready(nt, {s}, a, e) /\ e > a - 1
      /\ /\ NoWrap /\ AlignedIn({s}) /\ ~ Refuses(mid, SeqAt(s[1])) /\ Settled(mid, {}, a - 1)
         => Settled(nt, {s}, e)
  <2>1. {} \cup {s} = {s}
    OBVIOUS
  <2> QED
    BY <1>1, <1>2, <1>7, <2>1 DEF Advances
<1>9. Begun({s}, a, e)
  BY <1>1, <1>8 DEF Begun
<1>10. NoWrap => Settled(nt, {s}, e)
  <2>1. {s} \subseteq {s} /\ AlignedIn({s})
    BY DEF AlignedIn
  <2>2. ~ Refuses(mid, SeqAt(s[1]))
    <3>1. (SeqAt(a) - SeqAt(a)) % Modulus = 0
      <4>1. (SeqAt(a) - SeqAt(a)) % Modulus = IF a >= a THEN a - a ELSE a - a + Modulus
        BY <1>1, DiffIs
      <4> QED
        BY <1>1, <4>1
    <3> QED
      BY <1>2, <3>1 DEF Refuses
  <2>3. Settled(mid, {}, a - 1)
    BY DEF Settled
  <2> QED
    BY <1>8, <2>1, <2>2, <2>3
<1>11. Prompt(nt, {s}, lost \/ Refuses(st, SeqAt(s[1])), e)
  BY <1>10 DEF Prompt
<1> QED
  BY <1>8, <1>9, <1>11 DEF Running

-------------------------------------------------------------------------------
(* The inductive invariant *)

StreamInv ==
    /\ isn \in ISNs /\ arrived \in SUBSET Segments /\ refused \in BOOLEAN /\ stream \in Streams
    /\ \/ ~ stream.Initialized /\ stream.Data = <<>> /\ stream.chunks = <<>> /\ arrived = {}
       \/ \E a, b : Running(stream, arrived, refused, a, b)

\* A step of the system takes the stream on from where it was.
GoesOn(st, nt, segs, lost) ==
    \E a, e : Running(nt, segs, lost, a, e) /\ (st.Data = <<>> \/ \E b \in (a - 1)..e : Holds(st, a, b))

LEMMA StreamStep ==
    ASSUME StreamInv, SNext
    PROVE  /\ isn' = isn /\ arrived' \in SUBSET Segments /\ refused' \in BOOLEAN
           /\ GoesOn(stream, stream', arrived', refused')
<1>1. isn \in ISNs /\ arrived \in SUBSET Segments /\ refused \in BOOLEAN /\ stream \in Streams
  BY DEF StreamInv
<1>2. Size \in Nat /\ 1 \in 1..(Size + 1) /\ 1 - 1 = 0
  BY SenderConstants
<1>3. CASE Syn
  <2>1. isn' = isn /\ arrived' = arrived /\ refused' = refused /\ stream' = SetNextSeq(stream, SeqAt(1))
    BY <1>3 DEF Syn
  <2>2. CASE stream.Initialized
    <3>1. stream' = stream
      BY <2>1, <2>2 DEF SetNextSeq
    <3>2. PICK a, b : Running(stream, arrived, refused, a, b)
      BY <2>2 DEF StreamInv
    <3>3. Holds(stream, a, b) /\ b \in (a - 1)..b
      <4>1. Holds(stream, a, b)
        BY <3>2 DEF Running, Ready
      <4>2. a \in Int /\ b \in Int /\ a - 1 <= b
        BY <1>2, <4>1 DEF Holds
      <4> QED
        BY <4>1, <4>2
    <3>4. GoesOn(stream, stream, arrived, refused)
      BY <3>2, <3>3 DEF GoesOn
    <3> QED
      BY <1>1, <2>1, <3>1, <3>4
  <2>3. CASE ~ stream.Initialized
    <3>1. stream.Data = <<>> /\ stream.chunks = <<>> /\ arrived = {}
      BY <2>3 DEF StreamInv, Running, Ready
    <3> PICK nt : nt = [stream EXCEPT !.Initialized = TRUE, !.NextSeq = SeqAt(1)]
      OBVIOUS
    <3>2. stream' = nt
      BY <2>1, <2>3 DEF SetNextSeq
    <3>3. Ready(nt, {}, 1, 1 - 1)
      BY <1>1, <1>2, <3>1, StreamStarts
    <3>4. Begun({}, 1, 1 - 1) /\ Prompt(nt, {}, refused, 1 - 1)
      BY DEF Begun, Prompt, Settled
    <3>5. GoesOn(stream, nt, {}, refused)
      BY <3>1, <3>3, <3>4 DEF GoesOn, Running
    <3> QED
      BY <1>1, <2>1, <3>1, <3>2, <3>5
  <2> QED
    BY <2>2, <2>3
<1>4. ASSUME NEW s \in Segments, Segment(s)
      PROVE  /\ isn' = isn /\ arrived' \in SUBSET Segments /\ refused' \in BOOLEAN
             /\ GoesOn(stream, stream', arrived', refused')
  <2> PICK nt : nt = AddSegment(stream, SeqAt(s[1]), SubSeq(Sent, s[1], s[2]))
    OBVIOUS
  <2> PICK more : more = arrived \cup {s}
    OBVIOUS
  <2>1. stream' = nt /\ arrived' = more /\ isn' = isn
    BY <1>4 DEF Segment
  <2>2. refused' = (refused \/ Refuses(stream, SeqAt(s[1])))
    BY <1>4 DEF Segment
  <2>3. refused' \in BOOLEAN /\ more \in SUBSET Segments
    BY <1>1, <2>2
  <2>4. GoesOn(stream, nt, more, refused \/ Refuses(stream, SeqAt(s[1])))
    <3>1. CASE stream.Initialized
      <4>1. PICK a, b : Running(stream, arrived, refused, a, b)
        BY <3>1 DEF StreamInv
      <4>2. PICK e \in b..Size : Running(nt, more, refused \/ Refuses(stream, SeqAt(s[1])), a, e)
        BY <1>1, <4>1, Goes
      <4>3. Holds(stream, a, b) /\ b \in (a - 1)..e
        <5>1. Holds(stream, a, b)
          BY <4>1 DEF Running, Ready
        <5>2. a \in Int /\ b \in Int /\ a - 1 <= b
          BY <1>2, <5>1 DEF Holds
        <5> QED
          BY <1>2, <5>1, <5>2
      <4> QED
        BY <4>2, <4>3, Zenon DEF GoesOn
    <3>2. CASE ~ stream.Initialized
      <4>1. stream.Data = <<>> /\ stream.chunks = <<>> /\ arrived = {}
        BY <3>2 DEF StreamInv, Running, Ready
      <4>2. more = {s}
        BY <4>1
      <4>3. \E a, e : Running(nt, {s}, refused \/ Refuses(stream, SeqAt(s[1])), a, e)
        BY <1>1, <3>2, <4>1, Starts
      <4> QED
        BY <4>1, <4>2, <4>3, Zenon DEF GoesOn
    <3> QED
      BY <3>1, <3>2
  <2> QED
    BY <2>1, <2>2, <2>3, <2>4, Zenon
<1> QED
  BY <1>3, <1>4 DEF SNext

\* The numbers of a connection stay those of its sender.
LEMMA NumbersStay ==
    ASSUME isn' = isn, NEW st, NEW segs, NEW lost, NEW a, NEW b, Running(st, segs, lost, a, b)
    PROVE  Running(st, segs, lost, a, b)'
<1>1. Chunks' = Chunks
  BY DEF Chunks, ChunkOf, SeqAt
<1>2. Holds(st, a, b)' <=> Holds(st, a, b)
  BY DEF Holds, SeqAt
<1>3. From(st.chunks, segs)' <=> From(st.chunks, segs)
  BY DEF From, ChunkOf, SeqAt
<1>4. Settled(st, segs, b)' <=> Settled(st, segs, b)
  BY DEF Settled, ChunkOf, SeqAt
<1>5. Streams' = Streams
  BY <1>1 DEF Streams
<1> QED
  BY <1>2, <1>3, <1>4, <1>5 DEF Running, Ready, Prompt, NoWrap

LEMMA StreamInvHolds == StreamSpec => []StreamInv
<1>1. SInit => StreamInv
  <2> SUFFICES ASSUME SInit
               PROVE  StreamInv
    OBVIOUS
  <2>1. stream = [Initialized |-> FALSE, NextSeq |-> 0, Data |-> <<>>, chunks |-> <<>>]
    BY DEF SInit, NewStreamReassembler
  <2>2. 0 \in 0..(Modulus - 1) /\ <<>> \in Seq(Nat) /\ <<>> \in Seq(Chunks)
    BY SenderConstants
  <2>3. stream \in Streams
    BY <2>1, <2>2 DEF Streams
  <2>4. ~ stream.Initialized /\ stream.Data = <<>> /\ stream.chunks = <<>>
    BY <2>1
  <2>5. isn \in ISNs /\ arrived = {} /\ refused \in BOOLEAN /\ arrived \in SUBSET Segments
    BY DEF SInit
  <2> QED
    BY <2>3, <2>4, <2>5 DEF StreamInv
<1>2. StreamInv /\ [SNext]_svars => StreamInv'
  <2> SUFFICES ASSUME StreamInv, [SNext]_svars
               PROVE  StreamInv'
    OBVIOUS
  <2>1. CASE SNext
    <3>1. /\ isn' = isn /\ isn \in ISNs /\ arrived' \in SUBSET Segments /\ refused' \in BOOLEAN
          /\ GoesOn(stream, stream', arrived', refused')
      BY <2>1, StreamStep DEF StreamInv
    <3> PICK nt : nt = stream'
      OBVIOUS
    <3> PICK segs : segs = arrived'
      OBVIOUS
    <3> PICK lost : lost = refused'
      OBVIOUS
    <3>2. PICK a, e : Running(nt, segs, lost, a, e)
      BY <3>1 DEF GoesOn
    <3>3. Running(nt, segs, lost, a, e)'
      BY <3>1, <3>2, NumbersStay
    <3>4. (\E x, y : Running(stream, arrived, refused, x, y))'
      BY <3>3
    <3>5. stream' \in Streams'
      BY <3>3 DEF Running, Ready
    <3> QED
      BY <3>1, <3>4, <3>5 DEF StreamInv
  <2>2. CASE UNCHANGED svars
    <3>1. isn' = isn /\ stream' = stream /\ arrived' = arrived /\ refused' = refused
      BY <2>2 DEF svars
    <3>2. Chunks' = Chunks
      BY <3>1 DEF Chunks, ChunkOf, SeqAt
    <3>3. Streams' = Streams
      BY <3>2 DEF Streams
    <3>4. ASSUME NEW a, NEW b, Running(stream, arrived, refused, a, b)
          PROVE  Running(stream, arrived, refused, a, b)'
      BY <3>1, <3>3, <3>4 DEF Running, Ready, Prompt, NoWrap, Holds, SeqAt, From, Settled, ChunkOf
    <3> QED
      BY <3>1, <3>3, <3>4 DEF StreamInv
  <2> QED
    BY <2>1, <2>2
<1> QED
  BY <1>1, <1>2, PTL DEF StreamSpec

-------------------------------------------------------------------------------
(* Theorems *)

LEMMA TypeFollows ==
    ASSUME StreamInv
    PROVE  StreamTypeOK
<1>1. isn \in ISNs /\ arrived \subseteq Segments /\ refused \in BOOLEAN /\ stream \in Streams
  BY DEF StreamInv
<1>2. stream.Initialized \in BOOLEAN /\ stream.NextSeq \in 0..(Modulus - 1)
  BY <1>1 DEF Streams
<1>3. stream.Data \in Seq(Nat) /\ stream.chunks \in Seq(Chunks)
  BY <1>1 DEF Streams
<1>4. DOMAIN stream.chunks = 1..Len(stream.chunks) /\ MaxDepth \in Nat /\ MaxChunks \in Nat /\ Size \in Nat
  BY <1>3, LenProperties, SenderConstants
<1>5. Len(stream.Data) <= MaxDepth /\ Len(stream.chunks) <= MaxChunks + 1 /\ Ordered(stream.chunks)
  <2>1. CASE stream.Data = <<>> /\ stream.chunks = <<>>
    BY <1>4, <2>1 DEF Ordered
  <2>2. ASSUME NEW a, NEW b, Running(stream, arrived, refused, a, b)
        PROVE  Len(stream.Data) <= MaxDepth /\ Len(stream.chunks) <= MaxChunks + 1 /\ Ordered(stream.chunks)
    <3>1. Holds(stream, a, b) /\ Len(stream.chunks) <= MaxChunks + 1 /\ Ordered(stream.chunks)
      BY <2>2 DEF Running, Ready
    <3>2. Len(stream.Data) = Upto(a, b) - a + 1 /\ a \in Int /\ b \in Int
      BY <1>4, <3>1 DEF Holds, IsRun
    <3>3. Upto(a, b) <= a + MaxDepth - 1 /\ Upto(a, b) \in Int
      BY <1>4, <3>2 DEF Upto
    <3> QED
      BY <1>4, <3>1, <3>2, <3>3
  <2> QED
    BY <2>1, <2>2 DEF StreamInv
<1> QED
  BY <1>1, <1>2, <1>4, <1>5 DEF StreamTypeOK, Ordered

\* The reassembler keeps its limits, whatever arrives: the bytes of MAX_REASSEMBLY, a
\* bounded queue, and the queue in the order of the sequence numbers, which drainChunks
\* relies on.
THEOREM StreamBounded == StreamSpec => []StreamTypeOK
<1>1. StreamInv => StreamTypeOK
  BY TypeFollows
<1> QED
  BY <1>1, StreamInvHolds, PTL

\* What a stream that holds the bytes a to b has delivered.
LEMMA Pieces ==
    ASSUME NEW st, NEW a, NEW b, Holds(st, a, b)
    PROVE  /\ a \in 1..(Size + 1) /\ Upto(a, b) \in (a - 1)..Size /\ Upto(a, b) <= a + MaxDepth - 1
           /\ st.Data = SubSeq(Sent, a, Upto(a, b)) /\ Len(st.Data) = Upto(a, b) - a + 1
<1>1. /\ a \in 1..(Size + 1) /\ b \in (a - 1)..Size /\ a \in Int /\ b \in Int /\ Size \in Nat
      /\ MaxDepth \in Nat /\ MaxDepth > 0 /\ IsRun(st.Data, a, Upto(a, b))
  BY SenderConstants DEF Holds
<1>2. Upto(a, b) \in (a - 1)..Size /\ Upto(a, b) <= a + MaxDepth - 1 /\ Upto(a, b) \in Int
  BY <1>1 DEF Upto
<1>3. IsRun(SubSeq(Sent, a, Upto(a, b)), a, Upto(a, b))
  BY <1>1, <1>2, RunOf
<1>4. st.Data = SubSeq(Sent, a, Upto(a, b))
  BY <1>1, <1>2, <1>3, RunUnique
<1> QED
  BY <1>1, <1>2, <1>4 DEF IsRun

LEMMA PiecesGrow ==
    ASSUME NEW st, NEW nt, NEW a, NEW e, NEW b \in (a - 1)..e, Holds(st, a, b), Holds(nt, a, e)
    PROVE  Len(st.Data) <= Len(nt.Data) /\ SubSeq(nt.Data, 1, Len(st.Data)) = st.Data
<1>1. /\ a \in Int /\ b \in Int /\ e \in Int /\ b <= e /\ Size \in Nat /\ MaxDepth \in Nat /\ MaxDepth > 0
      /\ IsRun(st.Data, a, Upto(a, b)) /\ IsRun(nt.Data, a, Upto(a, e))
  BY SenderConstants DEF Holds
<1>2. /\ Upto(a, b) \in (a - 1)..Size /\ Upto(a, e) \in (a - 1)..Size
      /\ Len(st.Data) = Upto(a, b) - a + 1 /\ Len(nt.Data) = Upto(a, e) - a + 1
  BY Pieces
<1>3. Upto(a, b) <= Upto(a, e)
  BY <1>1 DEF Upto
<1>4. /\ Upto(a, b) \in Int /\ Len(st.Data) \in Nat /\ Len(nt.Data) \in Nat /\ Len(st.Data) <= Len(nt.Data)
      /\ 1 \in 1..(Len(nt.Data) + 1) /\ Len(st.Data) \in (1 - 1)..Len(nt.Data)
      /\ a + 1 - 1 = a /\ a + Len(st.Data) - 1 = Upto(a, b)
  <2> PICK x \in Int : x = Upto(a, b)
    BY <1>2
  <2> PICK y \in Int : y = Upto(a, e)
    BY <1>2
  <2> PICK l : l = Len(st.Data)
    OBVIOUS
  <2> PICK m : m = Len(nt.Data)
    OBVIOUS
  <2>1. x >= a - 1 /\ x <= y /\ l = x - a + 1 /\ m = y - a + 1
    BY <1>1, <1>2, <1>3
  <2>2. /\ l \in Nat /\ m \in Nat /\ l <= m /\ 1 \in 1..(m + 1) /\ l \in (1 - 1)..m
        /\ a + 1 - 1 = a /\ a + l - 1 = x
    BY <1>1, <2>1
  <2> QED
    BY <2>2
<1>5. IsRun(SubSeq(nt.Data, 1, Len(st.Data)), a + 1 - 1, a + Len(st.Data) - 1)
  <2>1. Upto(a, e) \in Int
    BY <1>1, <1>2
  <2> QED
    BY <1>1, <1>4, <2>1, RunCut
<1>6. SubSeq(nt.Data, 1, Len(st.Data)) = st.Data
  BY <1>1, <1>4, <1>5, RunUnique
<1> QED
  BY <1>4, <1>6

LEMMA StepDelivers ==
    ASSUME StreamInv, SNext
    PROVE  Delivered!Deliver
<1>1. GoesOn(stream, stream', arrived', refused')
  BY StreamStep
<1> PICK nt : nt = stream'
  OBVIOUS
<1>2. PICK a, e : /\ Holds(nt, a, e)
                  /\ stream.Data = <<>> \/ \E b \in (a - 1)..e : Holds(stream, a, b)
  BY <1>1 DEF GoesOn, Running, Ready
<1>3. /\ a \in 1..(Size + 1) /\ Upto(a, e) \in (a - 1)..Size /\ Upto(a, e) <= a + MaxDepth - 1
      /\ nt.Data = SubSeq(Sent, a, Upto(a, e)) /\ Len(nt.Data) = Upto(a, e) - a + 1
      /\ Size \in Nat /\ MaxDepth \in Nat
  BY <1>2, Pieces, SenderConstants
<1>4. Len(nt.Data) <= MaxDepth /\ Len(nt.Data) \in Nat
  BY <1>3
<1>5. Len(stream.Data) <= Len(nt.Data) /\ SubSeq(nt.Data, 1, Len(stream.Data)) = stream.Data
  <2>1. CASE stream.Data = <<>>
    <3>1. SubSeq(nt.Data, 1, 0) = <<>>
      BY SubSeqEmpty
    <3> QED
      BY <1>4, <2>1, <3>1
  <2>2. CASE \E b \in (a - 1)..e : Holds(stream, a, b)
    BY <1>2, <2>2, PiecesGrow
  <2> QED
    BY <1>2, <2>1, <2>2
<1>6. Delivered!IsPiece(nt.Data)
  BY <1>3 DEF Delivered!IsPiece, Delivered!Piece, Size
<1>7. stream'.Data = nt.Data
  OBVIOUS
<1> QED
  BY <1>4, <1>5, <1>6, <1>7 DEF Delivered!Deliver, Delivered!IsPiece, Delivered!Piece

\* AddSegment, appendData and drainChunks implement the byte stream: whatever segments
\* arrive, in whatever order, repeated, overlapping or with numbers that wrap, what is
\* delivered is a piece of what was sent, within the limit, that only grows at the end.
THEOREM ImplementsByteStream == StreamSpec => DeliversByteStream
<1>1. SInit => Delivered!Init
  BY DEF SInit, NewStreamReassembler, Delivered!Init
<1>2. StreamInv /\ [SNext]_svars => [Delivered!Deliver]_(stream.Data)
  <2>1. UNCHANGED svars => UNCHANGED stream.Data
    BY DEF svars
  <2> QED
    BY <2>1, StepDelivers
<1> QED
  BY <1>1, <1>2, StreamInvHolds, PTL DEF StreamSpec, DeliversByteStream, Delivered!Spec

LEMMA CompleteFollows ==
    ASSUME StreamInv
    PROVE  Complete
<1> SUFFICES ASSUME Aligned, NoWrap, ~ refused
             PROVE  Len(stream.Data) = Min({Cardinality(Reachable), MaxDepth})
  BY DEF Complete
<1>1. /\ Size \in Nat /\ MaxDepth \in Nat /\ MaxDepth > 0 /\ stream \in Streams /\ arrived \in SUBSET Segments
      /\ DOMAIN Sent = 1..Size /\ isn \in ISNs
      /\ \A i \in 1..Size : Sent[i] = i
  BY SenderConstants DEF StreamInv, Size
<1>2. Reachable \subseteq 1..Size /\ IsFiniteSet(Reachable) /\ Cardinality(Reachable) \in Nat
  <2>1. Reachable \subseteq 1..Size
    BY <1>1 DEF Reachable
  <2>2. IsFiniteSet(1..Size)
    BY <1>1, FS_Interval
  <2>3. IsFiniteSet(Reachable)
    BY <2>1, <2>2, FS_Subset
  <2> QED
    BY <2>1, <2>3, FS_CardinalityType
<1>3. Min({Cardinality(Reachable), MaxDepth}) = IF Cardinality(Reachable) <= MaxDepth
                                               THEN Cardinality(Reachable) ELSE MaxDepth
  BY <1>1, <1>2, MinOfTwo
<1>4. CASE stream.Data = <<>> /\ arrived = {}
  <2>1. Reachable = {}
    BY <1>1, <1>4 DEF Reachable, Arrived, Start
  <2>2. Cardinality(Reachable) = 0
    BY <2>1, FS_EmptySet
  <2> QED
    BY <1>1, <1>3, <1>4, <2>2
<1>5. ASSUME NEW a, NEW b, Running(stream, arrived, refused, a, b)
      PROVE  Len(stream.Data) = Min({Cardinality(Reachable), MaxDepth})
  <2>1. /\ Holds(stream, a, b) /\ Covered(arrived, a, b) /\ Late(stream) /\ (b = a - 1 => a = 1)
        /\ Len(stream.Data) >= MaxDepth \/ Settled(stream, arrived, b)
    <3>1. AlignedIn(arrived)
      BY DEF Aligned, AlignedIn
    <3> QED
      BY <1>5, <3>1 DEF Running, Ready, Begun, Prompt
  <2>2. /\ a \in 1..(Size + 1) /\ Upto(a, b) \in (a - 1)..Size /\ Upto(a, b) <= a + MaxDepth - 1
        /\ stream.Data = SubSeq(Sent, a, Upto(a, b)) /\ Len(stream.Data) = Upto(a, b) - a + 1
    BY <2>1, Pieces
  <2>3. b \in (a - 1)..Size /\ a \in Int /\ b \in Int /\ a >= 1 /\ stream.NextSeq = SeqAt(b + 1)
    BY <1>1, <2>1 DEF Holds
  <2>4. Start = a
    <3>1. CASE stream.Data = <<>>
      <4>1. Upto(a, b) = a - 1
        BY <2>2, <2>3, <3>1
      <4>2. b = a - 1
        BY <1>1, <2>3, <4>1 DEF Upto
      <4> QED
        BY <2>1, <3>1, <4>2 DEF Start
    <3>2. CASE stream.Data # <<>>
      <4>1. IsRun(stream.Data, a, Upto(a, b)) /\ Len(stream.Data) \in Nat
        BY <2>1 DEF Holds, IsRun
      <4>2. Len(stream.Data) # 0
        BY <3>2, <4>1, EmptySeq DEF IsRun
      <4>3. 1 \in 1..Len(stream.Data)
        BY <4>1, <4>2
      <4>4. stream.Data[1] = a + 1 - 1
        BY <4>1, <4>3 DEF IsRun
      <4> QED
        BY <2>3, <3>2, <4>4 DEF Start
    <3> QED
      BY <3>1, <3>2
  <2>5. a..b \subseteq Reachable
    <3> SUFFICES ASSUME NEW i \in a..b
                 PROVE  i \in Reachable
      OBVIOUS
    <3>1. \A j \in a..i : j \in a..b
      BY <2>3
    <3>2. \A j \in a..i : Arrived(j)
      BY <2>1, <3>1 DEF Covered, Arrived
    <3>3. i \in 1..Size /\ i >= a
      BY <1>1, <2>3
    <3> QED
      BY <1>1, <2>4, <3>2, <3>3 DEF Reachable
  <2>6. Cardinality(a..b) = b - a + 1 /\ Cardinality(a..b) <= Cardinality(Reachable)
    <3>1. Cardinality(a..b) = IF a > b THEN 0 ELSE b - a + 1
      BY <2>3, FS_Interval
    <3>2. Cardinality(a..b) <= Cardinality(Reachable)
      BY <1>2, <2>5, FS_Subset
    <3> QED
      BY <2>3, <3>1, <3>2
  <2>7. CASE Len(stream.Data) >= MaxDepth
    <3>1. b >= a + MaxDepth - 1 /\ Len(stream.Data) = MaxDepth
      BY <1>1, <2>2, <2>3, <2>7 DEF Upto
    <3> QED
      BY <1>1, <1>2, <1>3, <2>3, <2>6, <3>1
  <2>8. CASE ~ (Len(stream.Data) >= MaxDepth) /\ Settled(stream, arrived, b)
    <3>1. Upto(a, b) = b /\ Len(stream.Data) = b - a + 1
      BY <1>1, <2>2, <2>3, <2>8 DEF Upto
    <3>2. Reachable \subseteq a..b
      <4> SUFFICES ASSUME NEW i \in Reachable, ~ (i <= b)
                   PROVE  FALSE
        <5>1. \A i \in Reachable : i \in Int /\ i >= a
          BY <1>1, <1>2, <2>4 DEF Reachable
        <5> QED
          BY <2>3, <5>1
      <4>1. i \in 1..Size /\ i \in Int /\ b + 1 \in a..i /\ b + 1 <= Size
        BY <1>1, <1>2, <2>3
      <4>2. PICK s \in arrived : b + 1 \in s[1]..s[2]
        BY <2>4, <4>1 DEF Reachable, Arrived
      <4>3. s[1] \in 1..Size /\ s[2] \in s[1]..Size /\ ChunkOf(s).seq = SeqAt(s[1])
        BY <1>1, ChunkIs
      <4>4. s[1] \in Int /\ s[2] \in Int /\ s[1] <= b + 1 /\ ~ (s[2] <= b)
        BY <2>3, <4>2, <4>3
      <4>5. SeqAt(s[1]) > SeqAt(b + 1)
        BY <2>1, <2>3, <2>8, <4>3, <4>4 DEF Settled, Late
      <4>6. s[1] \in 0..(Size + 1) /\ b + 1 \in 0..(Size + 1)
        BY <1>1, <2>3, <4>3
      <4>7. /\ SeqAt(s[1]) = IF isn + s[1] < Modulus THEN isn + s[1] ELSE isn + s[1] - Modulus
            /\ isn \in 0..(Modulus - 1)
        BY <1>1, <4>6, SeqAtIs, Zenon
      <4>8. SeqAt(b + 1) = IF isn + (b + 1) < Modulus THEN isn + (b + 1) ELSE isn + (b + 1) - Modulus
        BY <1>1, <4>6, SeqAtIs, Zenon
      <4>9. isn \in Int /\ isn + Size < Modulus /\ Modulus \in Int
        BY <4>7, SenderConstants DEF NoWrap, Size
      <4> HIDE DEF Size
      <4>10. s[1] <= Size
        BY <1>1, <4>3
      <4>11. SeqAt(s[1]) = isn + s[1] /\ SeqAt(b + 1) = isn + (b + 1)
        BY <1>1, <2>3, <4>1, <4>4, <4>7, <4>8, <4>9, <4>10
      <4> QED
        BY <2>3, <4>4, <4>5, <4>9, <4>11
    <3>3. Reachable = a..b
      BY <2>5, <3>2
    <3> QED
      BY <1>1, <1>3, <2>3, <2>6, <2>8, <3>1, <3>3
  <2> QED
    BY <2>1, <2>7, <2>8
<1> QED
  BY <1>4, <1>5 DEF StreamInv

\* No byte that arrived is withheld: as long as the queue was never full and the numbers
\* do not pass zero, a sender that repeats its segments as they were gets every byte up
\* to the first that is missing delivered, or as many as the limit allows.
THEOREM NothingWithheld == StreamSpec => []Complete
<1>1. StreamInv => Complete
  BY CompleteFollows
<1> QED
  BY <1>1, StreamInvHolds, PTL
================================================================================
