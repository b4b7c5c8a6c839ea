---------------------------- MODULE RateWindowProofs ---------------------------
(***************************************************************************)
(* The windows of the rate heuristics tell the truth: proofs about         *)
(* RateWindow.                                                             *)
(*                                                                         *)
(* A list is compared with the history of what was counted by the number   *)
(* of its stamps in a set of readings: at most as many as were counted,    *)
(* and just as many when the readings are those of live packets.           *)
(***************************************************************************)
EXTENDS RateWindow, BasicLemmas, SequenceTheorems

\* The readings that handlers may still use are not before this one, up to MaxLag.
Frontier == IF LatestUsed >= now - MaxLag THEN LatestUsed ELSE now - MaxLag

\* The stamps of a list that are in V, and the packets that were counted in V.
CountIn(ts, V) == Cardinality({i \in 1..Len(ts) : ts[i] \in V})
Counted(f, V) == SumFunctionOnSet(seen[f], V)

WindowsTyped ==
    /\ now \in Readings
    /\ job \in [Workers -> [kind : Kinds, key : Keys, cur : Readings] \cup {NoPacket}]
    /\ \A w \in Workers : job[w] # NoPacket => job[w].cur <= now /\ now - job[w].cur <= MaxLag
    /\ stamps \in [Families -> Seq(Readings)]
    /\ \A f \in Families : \A i \in 1..Len(stamps[f]) : stamps[f][i] <= now
    /\ touched \in [Maps -> [Keys -> Readings \cup {Never}]]
    /\ seen \in [Families -> [Readings -> Nat]]
    /\ newest \in [Maps -> [Keys -> Readings \cup {Never}]]

\* A stamp is older than one in front of it by the lag of a handler at most.
NearlyInOrder ==
    \A f \in Families : \A i, j \in 1..Len(stamps[f]) :
        i < j => stamps[f][j] >= stamps[f][i] - MaxLag

ListsCount ==
    \A f \in Families : \A V \in SUBSET Readings :
        /\ CountIn(stamps[f], V) <= Counted(f, V)
        /\ (\A v \in V : v >= Frontier - Window) => CountIn(stamps[f], V) = Counted(f, V)

\* The stamp of a key is its newest, up to the lag, or it has left the map because that
\* was long ago.
MapsTell ==
    \A m \in Maps : \A k \in Keys :
        /\ newest[m][k] <= now
        /\ touched[m][k] # Never =>
              touched[m][k] <= newest[m][k] /\ newest[m][k] <= touched[m][k] + MaxLag
        /\ touched[m][k] = Never /\ newest[m][k] # Never =>
              newest[m][k] < Frontier - Width(m) + MaxLag

WindowInv == WindowsTyped /\ NearlyInOrder /\ ListsCount /\ MapsTell

LEMMA ReadingsAreNumbers == Window \in Int /\ \A t \in Readings : t \in Int /\ t \in Nat
BY WindowsAssumption DEF Readings

LEMMA WindowConstants ==
    /\ Window \in Nat /\ KeyWindow \in Nat /\ Retain \in Nat /\ MaxLag \in Nat /\ MaxTime \in Nat
    /\ Window > 0 /\ Window + 2 * MaxLag <= Retain /\ KeyWindow + MaxLag <= Retain
    /\ Readings \subseteq Nat /\ IsFiniteSet(Readings) /\ 0 \in Readings /\ Never \notin Readings /\ Never = -1
    /\ \A V \in SUBSET Readings : IsFiniteSet(V)
<1>1. /\ Window \in Nat /\ KeyWindow \in Nat /\ Retain \in Nat /\ MaxLag \in Nat /\ MaxTime \in Nat
      /\ Window > 0 /\ Window + 2 * MaxLag <= Retain /\ KeyWindow + MaxLag <= Retain
  BY WindowsAssumption
<1>2. Readings \subseteq Nat /\ 0 \in Readings /\ Never \notin Readings /\ Never = -1
  BY <1>1 DEF Readings, Never
<1>3. IsFiniteSet(Readings)
  BY <1>1, FS_Interval DEF Readings
<1>4. \A V \in SUBSET Readings : IsFiniteSet(V)
  BY <1>3, FS_Subset
<1> QED
  BY <1>1, <1>2, <1>3, <1>4

-------------------------------------------------------------------------------
(* Lists of time stamps *)

LEMMA CountType ==
    ASSUME NEW ts, Len(ts) \in Nat, NEW V
    PROVE  CountIn(ts, V) \in Nat /\ IsFiniteSet({i \in 1..Len(ts) : ts[i] \in V})
<1>1. IsFiniteSet(1..Len(ts))
  BY FS_Interval
<1>2. {i \in 1..Len(ts) : ts[i] \in V} \in SUBSET (1..Len(ts))
  OBVIOUS
<1>3. IsFiniteSet({i \in 1..Len(ts) : ts[i] \in V})
  BY <1>1, <1>2, FS_Subset
<1> QED
  BY <1>3, FS_CardinalityType DEF CountIn

\* addTimestamp drops a front of the list, whose stamps have left the window, and puts
\* the new stamp behind the rest, which begins in the window.
Dropped(ts, cur, nt, d) ==
    /\ nt \in Seq(Readings) /\ Len(nt) = Len(ts) - d + 1
    /\ \A j \in 1..(Len(ts) - d) : nt[j] = ts[d + j]
    /\ nt[Len(ts) - d + 1] = cur
    /\ \A i \in 1..d : ts[i] < cur - Window
    /\ d < Len(ts) => ts[d + 1] >= cur - Window

LEMMA AddTimestampDrops ==
    ASSUME NEW ts \in Seq(Readings), NEW cur \in Readings
    PROVE  \E d \in 0..Len(ts) : Dropped(ts, cur, AddTimestamp(ts, cur), d)
<1>1. /\ Len(ts) \in Nat /\ DOMAIN ts = 1..Len(ts) /\ \A i \in 1..Len(ts) : ts[i] \in Readings
      /\ cur \in Int /\ Window \in Int
  BY ReadingsAreNumbers
<1>2. \A i \in 1..Len(ts) : ts[i] \in Int
  BY <1>1, ReadingsAreNumbers
<1> DEFINE live == {i \in DOMAIN ts : cur - ts[i] <= Window}
<1>3. CASE live = {}
  <2>1. AddTimestamp(ts, cur) = Append(<<>>, cur)
    BY <1>3 DEF AddTimestamp
  <2>2. \A i \in 1..Len(ts) : ts[i] < cur - Window
    BY <1>1, <1>2, <1>3
  <2> HIDE DEF live
  <2> PICK nt : nt = <<cur>>
    OBVIOUS
  <2>3. nt \in Seq(Readings) /\ Len(nt) = 1 /\ nt[1] = cur /\ AddTimestamp(ts, cur) = nt
    BY <2>1
  <2>4. Dropped(ts, cur, nt, Len(ts))
    BY <1>1, <2>2, <2>3 DEF Dropped
  <2> QED
    BY <1>1, <2>3, <2>4
<1>4. CASE live # {}
  <2> PICK m : m = Min(live)
    OBVIOUS
  <2>1. m \in live /\ \A i \in live : m <= i
    <3>1. live \subseteq Nat
      BY <1>1
    <3> HIDE DEF live
    <3> QED
      BY <1>4, <3>1, MinOf
  <2>2. m \in 1..Len(ts) /\ m \in Int /\ ts[m] >= cur - Window /\ \A i \in 1..(m - 1) : ts[i] < cur - Window
    <3>1. m \in 1..Len(ts) /\ m \in Int /\ cur - ts[m] <= Window
      BY <1>1, <2>1
    <3>2. ts[m] >= cur - Window
      BY <1>1, <1>2, <3>1
    <3>3. ASSUME NEW i \in 1..(m - 1) PROVE ts[i] < cur - Window
      <4>1. i \in 1..Len(ts) /\ i \notin live /\ ts[i] \in Int
        <5>1. i \in 1..Len(ts) /\ i \in Int /\ ~ (m <= i)
          BY <1>1, <3>1
        <5>2. i \notin live
          BY <2>1, <5>1
        <5> QED
          BY <1>2, <5>1, <5>2
      <4>2. ~ (cur - ts[i] <= Window)
        BY <1>1, <4>1
      <4> QED
        BY <1>1, <4>1, <4>2
    <3> QED
      BY <3>1, <3>2, <3>3
  <2>3. AddTimestamp(ts, cur) = Append(SubSeq(ts, m, Len(ts)), cur)
    BY <1>4 DEF AddTimestamp
  <2> HIDE DEF live
  <2> PICK rest : rest = SubSeq(ts, m, Len(ts))
    OBVIOUS
  <2>4. \A i \in m..Len(ts) : ts[i] \in Readings
    BY <1>1, <2>2
  <2>5. /\ rest \in Seq(Readings) /\ Len(rest) = IF m <= Len(ts) THEN Len(ts) - m + 1 ELSE 0
        /\ \A i \in 1..(Len(ts) - m + 1) : rest[i] = ts[m + i - 1]
    BY <1>1, <2>2, <2>4, SubSeqProperties
  <2> PICK nt : nt = Append(rest, cur)
    OBVIOUS
  <2>6. /\ AddTimestamp(ts, cur) = nt /\ nt \in Seq(Readings) /\ Len(nt) = Len(rest) + 1
        /\ \A i \in 1..Len(rest) : nt[i] = rest[i]
        /\ nt[Len(rest) + 1] = cur
    BY <2>3, <2>5
  <2> PICK d : d = m - 1
    OBVIOUS
  <2>7. d \in 0..Len(ts) /\ d \in Int /\ d + 1 = m /\ Len(rest) = Len(ts) - d
    BY <1>1, <2>2, <2>5
  <2>8. \A j \in 1..(Len(ts) - d) : nt[j] = ts[d + j]
    <3> TAKE j \in 1..(Len(ts) - d)
    <3>1. j \in 1..(Len(ts) - m + 1) /\ m + j - 1 = d + j /\ j \in 1..Len(rest)
      BY <1>1, <2>2, <2>7
    <3> QED
      BY <2>5, <2>6, <3>1
  <2>9. \A i \in 1..d : ts[i] < cur - Window
    BY <2>2
  <2>10. Dropped(ts, cur, nt, d)
    BY <1>1, <2>2, <2>6, <2>7, <2>8, <2>9 DEF Dropped
  <2> QED
    BY <2>6, <2>7, <2>10
<1> QED
  BY <1>3, <1>4

\* What is dropped is missed by no count of stamps in the window.
LEMMA CountAdded ==
    ASSUME NEW ts \in Seq(Readings), NEW cur \in Readings, NEW V \in SUBSET Readings
    PROVE  LET nt == AddTimestamp(ts, cur)
               new == IF cur \in V THEN 1 ELSE 0
           IN  /\ CountIn(nt, V) <= CountIn(ts, V) + new
               /\ (\A v \in V : v >= cur - Window) => CountIn(nt, V) = CountIn(ts, V) + new
<1> PICK nt : nt = AddTimestamp(ts, cur)
  OBVIOUS
<1>1. PICK d \in 0..Len(ts) : Dropped(ts, cur, nt, d)
  BY AddTimestampDrops
<1> PICK n : n = Len(ts) - d
  OBVIOUS
<1>2. /\ Len(ts) \in Nat /\ d \in Nat /\ n \in Nat /\ n + d = Len(ts)
      /\ nt \in Seq(Readings) /\ Len(nt) = n + 1 /\ nt[n + 1] = cur
      /\ \A j \in 1..n : nt[j] = ts[d + j]
      /\ \A i \in 1..d : ts[i] < cur - Window
      /\ \A i \in 1..Len(ts) : ts[i] \in Int
      /\ cur \in Int /\ Window \in Int
  <2>1. \A i \in 1..Len(ts) : ts[i] \in Readings
    OBVIOUS
  <2>2. \A i \in 1..Len(ts) : ts[i] \in Int
    BY <2>1, ReadingsAreNumbers
  <2> QED
    BY <1>1, <2>2, ReadingsAreNumbers DEF Dropped
<1> DEFINE A == {i \in 1..Len(nt) : nt[i] \in V}
           B == {i \in 1..Len(ts) : ts[i] \in V}
           C == {i \in 1..n : nt[i] \in V}
<1>3. IsFiniteSet(A) /\ IsFiniteSet(B) /\ Cardinality(A) \in Nat /\ Cardinality(B) \in Nat
      /\ CountIn(nt, V) = Cardinality(A) /\ CountIn(ts, V) = Cardinality(B)
  <2>1. Len(nt) \in Nat
    BY <1>2
  <2> QED
    BY <1>2, <2>1, CountType, ZenonT(40) DEF CountIn
<1>4. C \in SUBSET A /\ IsFiniteSet(C) /\ Cardinality(C) \in Nat
  <2>1. C \in SUBSET A
    BY <1>2
  <2> QED
    BY <1>3, <2>1, FS_Subset, FS_CardinalityType
<1>5. Cardinality(A) = Cardinality(C) + (IF cur \in V THEN 1 ELSE 0)
  <2>1. n + 1 \notin C
    BY <1>2
  <2>2. CASE cur \in V
    <3>1. A = C \cup {n + 1}
      <4>1. 1..(n + 1) = (1..n) \cup {n + 1}
        BY <1>2
      <4> QED
        BY <1>2, <2>2, <4>1
    <3>2. Cardinality(C \cup {n + 1}) = IF n + 1 \in C THEN Cardinality(C) ELSE Cardinality(C) + 1
      BY <1>4, FS_AddElement
    <3> HIDE DEF A, C
    <3> QED
      BY <2>1, <2>2, <3>1, <3>2
  <2>3. CASE cur \notin V
    <3>1. A = C
      <4>1. 1..(n + 1) = (1..n) \cup {n + 1}
        BY <1>2
      <4> QED
        BY <1>2, <2>3, <4>1
    <3> HIDE DEF A, C
    <3>2. Cardinality(A) = Cardinality(C)
      BY <3>1
    <3> QED
      BY <1>4, <2>3, <3>2
  <2> QED
    BY <2>2, <2>3
<1> PICK f : f = [j \in C |-> d + j]
  OBVIOUS
<1>6. \A j \in C : j \in 1..n /\ nt[j] = ts[d + j] /\ d + j \in B
  BY <1>2
<1>7. f \in Injection(C, B)
  <2>1. f \in [C -> B]
    BY <1>6
  <2>2. \A j, k \in C : f[j] = f[k] => j = k
    BY <1>2, <1>6
  <2> QED
    BY <2>1, <2>2 DEF Injection, IsInjective
<1>8. Cardinality(C) <= Cardinality(B) /\ (Cardinality(C) = Cardinality(B) <=> f \in Surjection(C, B))
  BY <1>3, <1>7, FS_Injection
<1>9. ASSUME \A v \in V : v >= cur - Window PROVE Cardinality(C) = Cardinality(B)
  <2>1. ASSUME NEW i \in B PROVE \E j \in C : f[j] = i
    <3>1. i \in 1..Len(ts) /\ ts[i] \in V /\ i > d
      BY <1>2, <1>9
    <3> PICK j : j = i - d
      OBVIOUS
    <3>2. j \in 1..n /\ d + j = i
      BY <1>2, <3>1
    <3>3. j \in C
      BY <1>2, <3>1, <3>2
    <3> QED
      BY <3>2, <3>3
  <2>2. f \in [C -> B]
    BY <1>6
  <2>3. f \in Surjection(C, B)
    BY <2>1, <2>2 DEF Surjection
  <2> QED
    BY <1>8, <2>3
<1> QED
  BY <1>3, <1>4, <1>5, <1>8, <1>9

-------------------------------------------------------------------------------
(* Sums of what was counted *)

\* One more packet, with the reading c, adds one to the sums over the sets that c is in.
LEMMA SumOfOneMore ==
    ASSUME NEW g \in [Readings -> Nat], NEW c \in Readings, NEW V \in SUBSET Readings
    PROVE  LET h == [g EXCEPT ![c] = @ + 1]
           IN  /\ SumFunctionOnSet(g, V) \in Int
               /\ SumFunctionOnSet(h, V) = SumFunctionOnSet(g, V) + (IF c \in V THEN 1 ELSE 0)
<1> PICK h : h = [g EXCEPT ![c] = @ + 1]
  OBVIOUS
<1>1. IsFiniteSet(V) /\ (\A i \in V : g[i] \in Int) /\ (\A i \in V : h[i] \in Int)
      /\ \A i \in V : h[i] = g[i] + (IF i = c THEN 1 ELSE 0)
  BY WindowConstants
<1>2. PICK p \in [SUBSET V -> Int] : SumFunctionOnSet(g, V) = p[V] /\ SumsUp(p, V, g)
  BY <1>1, SumRecursion
<1>3. PICK q \in [SUBSET V -> Int] : SumFunctionOnSet(h, V) = q[V] /\ SumsUp(q, V, h)
  BY <1>1, SumRecursion
<1> PICK pick : pick = AnElement(V)
  OBVIOUS
<1>4. PicksFrom(pick, V)
  BY AnElementPicks
<1>5. \A s \in SUBSET V : /\ p[s] = IF s = {} THEN 0 ELSE g[pick[s]] + p[s \ {pick[s]}]
                          /\ q[s] = IF s = {} THEN 0 ELSE h[pick[s]] + q[s \ {pick[s]}]
  BY <1>2, <1>3 DEF SumsUp
<1> DEFINE T == {s \in SUBSET V : q[s] = p[s] + (IF c \in s THEN 1 ELSE 0)}
<1>6. {} \in T
  BY <1>5
<1>7. ASSUME NEW s \in SUBSET V, s # {}, s \ {pick[s]} \in T PROVE s \in T
  <2> PICK x : x = pick[s]
    OBVIOUS
  <2> PICK r : r = s \ {x}
    OBVIOUS
  <2>1. x \in s /\ x \in V /\ r \in SUBSET V /\ p[r] \in Int /\ p[s] = g[x] + p[r] /\ q[s] = h[x] + q[r]
    BY <1>4, <1>5, <1>7 DEF PicksFrom
  <2>2. q[r] = p[r] + (IF c \in r THEN 1 ELSE 0)
    BY <1>7
  <2>3. h[x] = g[x] + (IF x = c THEN 1 ELSE 0) /\ g[x] \in Int
    BY <1>1, <2>1
  <2>4. CASE x = c
    <3>1. c \in s /\ c \notin r
      BY <2>1, <2>4
    <3> QED
      BY <2>1, <2>2, <2>3, <2>4, <3>1
  <2>5. CASE x # c
    <3>1. c \in s <=> c \in r
      BY <2>5
    <3> QED
      BY <2>1, <2>2, <2>3, <2>5, <3>1
  <2> QED
    BY <2>4, <2>5
<1>8. V \in T
  <2> HIDE DEF T
  <2> QED
    BY <1>1, <1>4, <1>6, <1>7, SubsetInduction
<1> QED
  BY <1>2, <1>3, <1>8

LEMMA SumType ==
    \A g \in [Readings -> Nat] : \A V \in SUBSET Readings : SumFunctionOnSet(g, V) \in Int
<1> SUFFICES ASSUME NEW g \in [Readings -> Nat], NEW V \in SUBSET Readings
             PROVE  SumFunctionOnSet(g, V) \in Int
  OBVIOUS
<1> QED
  BY WindowConstants, SumOfOneMore

\* Nothing was counted where every number is zero.
LEMMA SumOfNothing ==
    ASSUME NEW g, NEW V \in SUBSET Readings, \A i \in V : g[i] = 0
    PROVE  SumFunctionOnSet(g, V) = 0
<1>1. IsFiniteSet(V) /\ \A i \in V : g[i] \in Int
  BY WindowConstants
<1>2. PICK p \in [SUBSET V -> Int] : SumFunctionOnSet(g, V) = p[V] /\ SumsUp(p, V, g)
  BY <1>1, SumRecursion
<1> PICK pick : pick = AnElement(V)
  OBVIOUS
<1>3. PicksFrom(pick, V)
  BY AnElementPicks
<1>4. \A s \in SUBSET V : p[s] = IF s = {} THEN 0 ELSE g[pick[s]] + p[s \ {pick[s]}]
  BY <1>2 DEF SumsUp
<1> DEFINE T == {s \in SUBSET V : p[s] = 0}
<1>5. {} \in T
  BY <1>4
<1>6. ASSUME NEW s \in SUBSET V, s # {}, s \ {pick[s]} \in T PROVE s \in T
  BY <1>3, <1>4, <1>6 DEF PicksFrom
<1>7. V \in T
  <2> HIDE DEF T
  <2> QED
    BY <1>1, <1>3, <1>5, <1>6, SubsetInduction
<1> QED
  BY <1>2, <1>7

LEMMA SumOfOne ==
    ASSUME NEW g \in [Readings -> Nat], NEW t \in Readings
    PROVE  SumFunctionOnSet(g, {t}) = g[t]
<1>1. IsFiniteSet({t}) /\ (\A i \in {t} : g[i] \in Int) /\ g[t] \in Int
  BY WindowConstants
<1>2. PICK p \in [SUBSET {t} -> Int] : SumFunctionOnSet(g, {t}) = p[{t}] /\ SumsUp(p, {t}, g)
  BY <1>1, SumRecursion
<1> PICK pick : pick = AnElement({t})
  OBVIOUS
<1>3. PicksFrom(pick, {t})
  BY AnElementPicks
<1>4. \A s \in SUBSET {t} : p[s] = IF s = {} THEN 0 ELSE g[pick[s]] + p[s \ {pick[s]}]
  BY <1>2 DEF SumsUp
<1>5. pick[{t}] = t /\ {t} \ {t} = {} /\ {t} \in SUBSET {t} /\ {} \in SUBSET {t} /\ {t} # {}
  BY <1>3 DEF PicksFrom
<1>6. p[{}] = 0 /\ p[{t}] = g[t] + p[{t} \ {t}]
  BY <1>4, <1>5
<1>7. p[{t} \ {t}] = 0
  BY <1>5, <1>6, Zenon
<1>8. SumFunctionOnSet(g, {t}) = g[t] + 0
  BY <1>2, <1>6, <1>7, Zenon
<1> QED
  BY <1>1, <1>8

LEMMA DivMonotone ==
    ASSUME NEW a \in Nat, NEW b \in Nat, a <= b
    PROVE  a \div Window \in Int /\ b \div Window \in Int /\ a \div Window <= b \div Window
<1>1. Window \in Int /\ Window > 0
  BY WindowConstants
<1> QED
  BY <1>1

-------------------------------------------------------------------------------
(* The invariant *)

\* The readings in use move forward: LatestUsed is the latest of those used.
LEMMA LatestIsLatest ==
    /\ LatestUsed \in Readings
    /\ \A u \in Used : u <= LatestUsed
    /\ Used # {} => LatestUsed \in Used
<1>1. Used \subseteq Int /\ MaxTime \in Int /\ \A u \in Used : u \in Readings /\ u <= MaxTime
  BY WindowConstants DEF Used, Readings
<1>2. CASE Used = {}
  BY <1>2, WindowConstants DEF LatestUsed
<1>3. CASE Used # {}
  <2>1. Max(Used) \in Used /\ \A u \in Used : u <= Max(Used)
    BY <1>1, <1>3, MaxOf
  <2>2. LatestUsed = Max(Used)
    BY <1>3 DEF LatestUsed
  <2> QED
    BY <1>1, <2>1, <2>2
<1> QED
  BY <1>2, <1>3

LEMMA LatestIsLatestNext ==
    /\ LatestUsed' \in Readings
    /\ \A u \in Used' : u <= LatestUsed'
    /\ Used' # {} => LatestUsed' \in Used'
<1>1. Used' \subseteq Int /\ MaxTime \in Int /\ \A u \in Used' : u \in Readings /\ u <= MaxTime
  BY WindowConstants DEF Used, Readings
<1>2. CASE Used' = {}
  BY <1>2, WindowConstants DEF LatestUsed
<1>3. CASE Used' # {}
  <2>1. Max(Used') \in Used' /\ \A u \in Used' : u <= Max(Used')
    BY <1>1, <1>3, MaxOf
  <2>2. LatestUsed' = Max(Used')
    BY <1>3 DEF LatestUsed
  <2> QED
    BY <1>1, <2>1, <2>2
<1> QED
  BY <1>2, <1>3

LEMMA FrontierBound ==
    WindowsTyped => Frontier \in Int /\ Frontier >= now - MaxLag /\ Frontier >= LatestUsed /\ now \in Int
BY LatestIsLatest, WindowConstants DEF WindowsTyped, Frontier

LEMMA StampsTyped ==
    WindowsTyped => \A m \in Maps : \A k \in Keys :
                       /\ touched[m][k] \in Readings \cup {Never} /\ touched[m][k] \in Int
                       /\ newest[m][k] \in Readings \cup {Never} /\ newest[m][k] \in Int
<1> SUFFICES ASSUME WindowsTyped, NEW m \in Maps, NEW k \in Keys
             PROVE  /\ touched[m][k] \in Readings \cup {Never} /\ touched[m][k] \in Int
                    /\ newest[m][k] \in Readings \cup {Never} /\ newest[m][k] \in Int
  OBVIOUS
<1>1. touched[m][k] \in Readings \cup {Never} /\ newest[m][k] \in Readings \cup {Never}
  BY DEF WindowsTyped
<1>2. \A t \in Readings \cup {Never} : t \in Int
  BY WindowConstants
<1> QED
  BY <1>1, <1>2

LEMMA JobsTyped ==
    WindowsTyped => \A w \in Workers : job[w] # NoPacket =>
        /\ job[w] \in [kind : Kinds, key : Keys, cur : Readings]
        /\ job[w].kind \in Kinds /\ job[w].key \in Keys
        /\ job[w].cur \in Readings /\ job[w].cur \in Int /\ job[w].cur >= 0
<1> SUFFICES ASSUME WindowsTyped, NEW w \in Workers, job[w] # NoPacket
             PROVE  /\ job[w] \in [kind : Kinds, key : Keys, cur : Readings]
                    /\ job[w].kind \in Kinds /\ job[w].key \in Keys
                    /\ job[w].cur \in Readings /\ job[w].cur \in Int /\ job[w].cur >= 0
  OBVIOUS
<1>1. job[w] \in [kind : Kinds, key : Keys, cur : Readings]
  BY DEF WindowsTyped
<1>2. job[w].kind \in Kinds /\ job[w].key \in Keys /\ job[w].cur \in Readings
  BY <1>1
<1>3. job[w].cur \in Nat
  BY <1>2, WindowConstants
<1>4. job[w].cur \in Int /\ job[w].cur >= 0
  BY <1>3
<1> QED
  BY <1>1, <1>2, <1>4

LEMMA WInitInv == WInit => WindowInv
<1> SUFFICES ASSUME WInit
             PROVE  WindowInv
  OBVIOUS
<1>1. WindowsTyped
  BY WindowConstants DEF WInit, WindowsTyped
<1>2. \A f \in Families : stamps[f] = <<>> /\ Len(stamps[f]) = 0
  BY DEF WInit
<1>3. NearlyInOrder
  BY <1>2 DEF NearlyInOrder
<1>4. ListsCount
  <2> SUFFICES ASSUME NEW f \in Families, NEW V \in SUBSET Readings
               PROVE  CountIn(stamps[f], V) = 0 /\ Counted(f, V) = 0
    BY DEF ListsCount
  <2>1. {i \in 1..Len(stamps[f]) : stamps[f][i] \in V} = {}
    BY <1>2
  <2>2. CountIn(stamps[f], V) = 0
    BY <2>1, FS_EmptySet DEF CountIn
  <2>3. \A t \in V : seen[f][t] = 0
    BY DEF WInit
  <2> QED
    BY <2>2, <2>3, SumOfNothing DEF Counted
<1>5. MapsTell
  BY WindowConstants DEF WInit, MapsTell
<1> QED
  BY <1>1, <1>3, <1>4, <1>5 DEF WindowInv

Later(a, b) == IF a >= b THEN a ELSE b

LEMMA LaterMonotone ==
    ASSUME NEW a \in Int, NEW b \in Int, NEW c \in Int, c >= b
    PROVE  /\ Later(a, b) \in Int /\ Later(a, c) \in Int /\ Later(a, b) >= b
           /\ Later(a, c) >= Later(a, b)
BY DEF Later

LEMMA LessAsMuch ==
    \A a, b, c \in Int : b >= a => a - c \in Int /\ b - c \in Int /\ b - c >= a - c
OBVIOUS

\* The steps that analyse nothing: the frontier moves forward, which asks less of the
\* lists and of the maps.
LEMMA FrontierMoves ==
    ASSUME WindowsTyped, now' \in Int, now' >= now, UNCHANGED seen
    PROVE  Frontier \in Int /\ Frontier' \in Int /\ Frontier' >= Frontier
           /\ LatestUsed' = LatestUsed /\ Frontier >= now - MaxLag
<1>1. Used' = Used
  BY DEF Used
<1>2. LatestUsed' = LatestUsed
  BY <1>1 DEF LatestUsed
<1>3. LatestUsed \in Int /\ now \in Int /\ MaxLag \in Int
  BY LatestIsLatest, WindowConstants DEF WindowsTyped
<1>4. Frontier = Later(LatestUsed, now - MaxLag)
  BY DEF Frontier, Later
<1>5. Frontier' = Later(LatestUsed, now' - MaxLag)
  BY <1>2 DEF Frontier, Later
<1>6. now - MaxLag \in Int /\ now' - MaxLag \in Int /\ now' - MaxLag >= now - MaxLag
  BY <1>3, LessAsMuch, Zenon
<1> QED
  BY <1>2, <1>3, <1>4, <1>5, <1>6, LaterMonotone

LEMMA IdleStep ==
    ASSUME WindowInv, now' \in Readings, now' >= now, UNCHANGED <<stamps, touched, seen, newest>>,
           job' \in [Workers -> [kind : Kinds, key : Keys, cur : Readings] \cup {NoPacket}],
           \A w \in Workers : job'[w] # NoPacket => job'[w].cur <= now' /\ now' - job'[w].cur <= MaxLag
    PROVE  WindowInv'
<1>1. WindowsTyped /\ NearlyInOrder /\ ListsCount /\ MapsTell
  BY DEF WindowInv
<1>2. /\ now \in Int /\ now' \in Int /\ Window \in Int /\ MaxLag \in Int
      /\ \A m \in Maps : Width(m) \in Int
      /\ \A V \in SUBSET Readings : \A v \in V : v \in Int
  BY <1>1, WindowConstants DEF WindowsTyped, Width
<1>3. Frontier \in Int /\ Frontier' \in Int /\ Frontier' >= Frontier
  BY <1>1, <1>2, FrontierMoves
<1>4. WindowsTyped'
  <2>1. \A f \in Families : \A i \in 1..Len(stamps[f]) : stamps[f][i] <= now /\ stamps[f][i] \in Int
    BY <1>1, ReadingsAreNumbers DEF WindowsTyped
  <2>2. \A f \in Families : \A i \in 1..Len(stamps[f]) : stamps[f][i] <= now'
    BY <1>2, <2>1
  <2> QED
    BY <1>1, <2>2 DEF WindowsTyped
<1>5. NearlyInOrder'
  BY <1>1 DEF NearlyInOrder
<1>6. ListsCount'
  <2> SUFFICES ASSUME NEW f \in Families, NEW V \in SUBSET Readings
               PROVE  /\ CountIn(stamps[f], V) <= Counted(f, V)
                      /\ (\A v \in V : v >= Frontier' - Window) => CountIn(stamps[f], V) = Counted(f, V)
    BY DEF ListsCount, Counted
  <2>1. (\A v \in V : v >= Frontier' - Window) => \A v \in V : v >= Frontier - Window
    <3>1. \A v \in V : v \in Int
      BY WindowConstants
    <3>2. PICK a \in Int, b \in Int : a = Frontier - Window /\ b = Frontier' - Window /\ b >= a
      BY <1>2, <1>3, LessAsMuch, Zenon
    <3>3. (\A v \in V : v >= b) => \A v \in V : v >= a
      BY <3>1, <3>2
    <3> QED
      BY <3>2, <3>3
  <2> QED
    BY <1>1, <2>1 DEF ListsCount
<1>7. MapsTell'
  <2> SUFFICES ASSUME NEW m \in Maps, NEW k \in Keys
               PROVE  /\ newest[m][k] <= now'
                      /\ touched[m][k] # Never =>
                            touched[m][k] <= newest[m][k] /\ newest[m][k] <= touched[m][k] + MaxLag
                      /\ touched[m][k] = Never /\ newest[m][k] # Never =>
                            newest[m][k] < Frontier' - Width(m) + MaxLag
    BY DEF MapsTell
  <2>1. newest[m][k] \in Int /\ touched[m][k] \in Int
    BY <1>1, StampsTyped
  <2>2. /\ newest[m][k] <= now
        /\ touched[m][k] # Never =>
              touched[m][k] <= newest[m][k] /\ newest[m][k] <= touched[m][k] + MaxLag
        /\ touched[m][k] = Never /\ newest[m][k] # Never =>
              newest[m][k] < Frontier - Width(m) + MaxLag
    BY <1>1 DEF MapsTell
  <2> QED
    BY <1>2, <1>3, <2>1, <2>2
<1> QED
  BY <1>4, <1>5, <1>6, <1>7 DEF WindowInv

LEMMA ClockKeeps == WindowInv /\ Clock => WindowInv'
<1> SUFFICES ASSUME WindowInv, Clock
             PROVE  WindowInv'
  OBVIOUS
<1>1. WindowsTyped
  BY DEF WindowInv
<1>2. now \in Int /\ now' \in Readings /\ now' = now + 1
  BY <1>1, WindowConstants DEF Clock, Readings, WindowsTyped
<1>3. ASSUME NEW w \in Workers, job[w] # NoPacket
      PROVE  job[w].cur <= now' /\ now' - job[w].cur <= MaxLag
  <2>1. job[w].cur \in Int
    BY <1>1, <1>3, JobsTyped
  <2>2. job[w].cur <= now /\ now - job[w].cur < MaxLag
    BY <1>1, <1>3 DEF Clock, WindowsTyped
  <2> QED
    BY <1>2, <2>1, <2>2, WindowConstants
<1>4. UNCHANGED <<stamps, touched, seen, newest, job>> /\ now' >= now
  BY <1>2 DEF Clock
<1>5. job' \in [Workers -> [kind : Kinds, key : Keys, cur : Readings] \cup {NoPacket}]
  BY <1>1, <1>4 DEF WindowsTyped
<1>6. \A w \in Workers : job'[w] # NoPacket => job'[w].cur <= now' /\ now' - job'[w].cur <= MaxLag
  BY <1>3, <1>4
<1> QED
  BY <1>2, <1>4, <1>5, <1>6, IdleStep

LEMMA ArriveKeeps == \A w \in Workers : WindowInv /\ Arrive(w) => WindowInv'
<1> SUFFICES ASSUME WindowInv, NEW w \in Workers, Arrive(w)
             PROVE  WindowInv'
  OBVIOUS
<1>1. WindowsTyped
  BY DEF WindowInv
<1>2. PICK kind \in Kinds, key \in Keys : job' = [job EXCEPT ![w] = [kind |-> kind, key |-> key, cur |-> now]]
  BY DEF Arrive
<1>3. UNCHANGED <<now, stamps, touched, seen, newest>>
  BY DEF Arrive
<1> PICK p : p = [kind |-> kind, key |-> key, cur |-> now]
  OBVIOUS
<1>4. p \in [kind : Kinds, key : Keys, cur : Readings] /\ p.cur = now /\ now \in Int /\ MaxLag \in Nat
  BY <1>1, WindowConstants DEF WindowsTyped
<1>5. job' = [job EXCEPT ![w] = p]
  BY <1>2
<1>6. job' \in [Workers -> [kind : Kinds, key : Keys, cur : Readings] \cup {NoPacket}]
  BY <1>1, <1>4, <1>5 DEF WindowsTyped
<1>7. ASSUME NEW v \in Workers, job'[v] # NoPacket
      PROVE  job'[v].cur <= now /\ now - job'[v].cur <= MaxLag
  <2>1. CASE v = w
    <3>1. job'[v] = p
      BY <1>1, <1>5, <2>1 DEF WindowsTyped
    <3> QED
      BY <1>4, <3>1
  <2>2. CASE v # w
    <3>1. job'[v] = job[v]
      BY <1>1, <1>5, <2>2 DEF WindowsTyped
    <3> QED
      BY <1>1, <1>7, <3>1 DEF WindowsTyped
  <2> QED
    BY <2>1, <2>2
<1>8. now' \in Readings /\ now' >= now /\ now' = now
  BY <1>1, <1>3, <1>4 DEF WindowsTyped
<1>9. \A v \in Workers : job'[v] # NoPacket => job'[v].cur <= now' /\ now' - job'[v].cur <= MaxLag
  BY <1>7, <1>8
<1> QED
  BY <1>3, <1>6, <1>8, <1>9, IdleStep

LEMMA StampsAreNumbers ==
    WindowsTyped => \A f \in Families :
        /\ stamps[f] \in Seq(Readings) /\ Len(stamps[f]) \in Nat
        /\ \A i \in 1..Len(stamps[f]) : stamps[f][i] \in Readings /\ stamps[f][i] \in Int
BY ReadingsAreNumbers DEF WindowsTyped

\* What is cleaned is behind every window that a handler may still use.
LEMMA OldLists ==
    ASSUME WindowInv, NEW f \in Families, stamps[f] # <<>>, now - Last(stamps[f]) > Retain
    PROVE  \A i \in 1..Len(stamps[f]) : stamps[f][i] < Frontier - Window
<1> SUFFICES ASSUME NEW i \in 1..Len(stamps[f])
             PROVE  stamps[f][i] < Frontier - Window
  OBVIOUS
<1>1. WindowsTyped /\ NearlyInOrder
  BY DEF WindowInv
<1> PICK n : n = Len(stamps[f])
  OBVIOUS
<1>2. n \in Nat /\ i \in 1..n /\ n \in 1..n /\ now - stamps[f][n] > Retain
  BY <1>1, StampsAreNumbers DEF Last
<1>3. stamps[f][n] \in Int /\ stamps[f][i] \in Int
  BY <1>1, <1>2, StampsAreNumbers
<1>4. CASE i = n
  BY <1>1, <1>2, <1>3, <1>4, FrontierBound, WindowConstants
<1>5. CASE i # n
  <2>1. i < n
    BY <1>2, <1>5
  <2>2. stamps[f][n] >= stamps[f][i] - MaxLag
    BY <1>1, <1>2, <2>1 DEF NearlyInOrder
  <2>3. Frontier \in Int /\ Frontier >= now - MaxLag /\ now \in Int
    BY <1>1, FrontierBound
  <2>4. stamps[f][n] < now - Retain /\ stamps[f][i] <= stamps[f][n] + MaxLag
    BY <1>2, <1>3, <2>2, <2>3, WindowConstants, SMTT(40)
  <2>5. stamps[f][i] < now - MaxLag - Window
    BY <1>3, <2>3, <2>4, WindowConstants
  <2> QED
    BY <1>3, <2>3, <2>5, WindowConstants
<1> QED
  BY <1>4, <1>5

LEMMA CleanKeeps == WindowInv /\ Clean => WindowInv'
<1> SUFFICES ASSUME WindowInv, Clean
             PROVE  WindowInv'
  OBVIOUS
<1>1. WindowsTyped /\ NearlyInOrder /\ ListsCount /\ MapsTell
  BY DEF WindowInv
<1>2. UNCHANGED <<now, job, seen, newest>>
  BY DEF Clean
<1>3. Frontier' = Frontier
  BY <1>2 DEF Frontier, LatestUsed, Used
<1>4. \A f \in Families :
         \/ stamps'[f] = stamps[f]
         \/ stamps'[f] = <<>> /\ stamps[f] # <<>> /\ now - Last(stamps[f]) > Retain
  BY DEF Clean
<1>5. \A m \in Maps : \A k \in Keys :
         \/ touched'[m][k] = touched[m][k]
         \/ touched'[m][k] = Never /\ touched[m][k] # Never /\ now - touched[m][k] > Retain
  BY DEF Clean
<1>6. WindowsTyped'
  <2>1. stamps' \in [Families -> Seq(Readings)]
    <3>1. ASSUME NEW f \in Families PROVE stamps'[f] \in Seq(Readings)
      <4>1. <<>> \in Seq(Readings)
        OBVIOUS
      <4>2. stamps[f] \in Seq(Readings)
        BY <1>1, StampsAreNumbers
      <4>3. stamps'[f] = stamps[f] \/ stamps'[f] = <<>>
        BY <1>4
      <4> QED
        BY <4>1, <4>2, <4>3, Zenon
    <3> QED
      BY <3>1 DEF Clean
  <2>2. \A f \in Families : \A i \in 1..Len(stamps'[f]) : stamps'[f][i] <= now
    BY <1>1, <1>4 DEF WindowsTyped
  <2>3. touched' \in [Maps -> [Keys -> Readings \cup {Never}]]
    <3>1. \A m \in Maps : \A k \in Keys : touched'[m][k] \in Readings \cup {Never}
      BY <1>1, <1>5, StampsTyped
    <3> QED
      BY <3>1 DEF Clean
  <2> QED
    BY <1>1, <1>2, <2>1, <2>2, <2>3 DEF WindowsTyped
<1>7. NearlyInOrder'
  BY <1>1, <1>4 DEF NearlyInOrder
<1>8. ListsCount'
  <2> SUFFICES ASSUME NEW f \in Families, NEW V \in SUBSET Readings
               PROVE  /\ CountIn(stamps'[f], V) <= Counted(f, V)
                      /\ (\A v \in V : v >= Frontier - Window) => CountIn(stamps'[f], V) = Counted(f, V)
    BY <1>2, <1>3 DEF ListsCount, Counted
  <2>1. /\ CountIn(stamps[f], V) <= Counted(f, V)
        /\ (\A v \in V : v >= Frontier - Window) => CountIn(stamps[f], V) = Counted(f, V)
    BY <1>1 DEF ListsCount
  <2>2. CASE stamps'[f] = stamps[f]
    BY <2>1, <2>2
  <2>3. CASE stamps'[f] = <<>> /\ stamps[f] # <<>> /\ now - Last(stamps[f]) > Retain
    <3>1. CountIn(stamps'[f], V) = 0
      <4>1. {i \in 1..Len(stamps'[f]) : stamps'[f][i] \in V} = {}
        BY <2>3
      <4> QED
        BY <4>1, FS_EmptySet DEF CountIn
    <3>2. CountIn(stamps[f], V) \in Nat
      BY <1>1, StampsAreNumbers, CountType
    <3>3. ASSUME \A v \in V : v >= Frontier - Window PROVE CountIn(stamps[f], V) = 0
      <4>1. \A i \in 1..Len(stamps[f]) : stamps[f][i] < Frontier - Window /\ stamps[f][i] \in Int
        BY <1>1, <2>3, OldLists, StampsAreNumbers
      <4>2. Frontier \in Int /\ Window \in Int
        BY <1>1, FrontierBound, WindowConstants
      <4>3. \A i \in 1..Len(stamps[f]) : stamps[f][i] \notin V
        BY <3>3, <4>1, <4>2
      <4>4. {i \in 1..Len(stamps[f]) : stamps[f][i] \in V} = {}
        BY <4>3
      <4> QED
        BY <4>4, FS_EmptySet DEF CountIn
    <3>4. Counted(f, V) \in Int
      BY <1>1, SumOfOneMore, WindowConstants DEF Counted, WindowsTyped
    <3> QED
      BY <2>1, <3>1, <3>2, <3>3, <3>4
  <2> QED
    BY <1>4, <2>2, <2>3
<1>9. MapsTell'
  <2> SUFFICES ASSUME NEW m \in Maps, NEW k \in Keys
               PROVE  /\ newest[m][k] <= now
                      /\ touched'[m][k] # Never =>
                            touched'[m][k] <= newest[m][k] /\ newest[m][k] <= touched'[m][k] + MaxLag
                      /\ touched'[m][k] = Never /\ newest[m][k] # Never =>
                            newest[m][k] < Frontier - Width(m) + MaxLag
    BY <1>2, <1>3 DEF MapsTell
  <2>1. /\ newest[m][k] <= now
        /\ touched[m][k] # Never =>
              touched[m][k] <= newest[m][k] /\ newest[m][k] <= touched[m][k] + MaxLag
        /\ touched[m][k] = Never /\ newest[m][k] # Never =>
              newest[m][k] < Frontier - Width(m) + MaxLag
    BY <1>1 DEF MapsTell
  <2>2. CASE touched'[m][k] = touched[m][k]
    BY <2>1, <2>2
  <2>3. CASE touched'[m][k] = Never /\ touched[m][k] # Never /\ now - touched[m][k] > Retain
    <3>1. newest[m][k] \in Int /\ touched[m][k] \in Int
      BY <1>1, StampsTyped
    <3>2. newest[m][k] < Frontier - Width(m) + MaxLag
      BY <1>1, <2>1, <2>3, <3>1, FrontierBound, WindowConstants DEF Width
    <3> QED
      BY <2>1, <2>3, <3>2
  <2> QED
    BY <1>5, <2>2, <2>3
<1> QED
  BY <1>6, <1>7, <1>8, <1>9 DEF WindowInv

-------------------------------------------------------------------------------
(* A packet is analysed *)

LEMMA Order ==
    /\ \A a, b, c \in Int : a >= b /\ b >= c => a >= c
    /\ \A a, b, c \in Int : a >= b /\ b >= c => Later(a, c) = a
    /\ \A a, b, c \in Int : a >= b /\ a >= c => a >= Later(b, c)
BY DEF Later

\* The reading of the packet is used from here on, and it is not before the frontier.
LEMMA AnalyzeMoves ==
    ASSUME WindowsTyped, NEW w \in Workers, Analyze(w)
    PROVE  /\ job[w].kind \in Kinds /\ job[w].key \in Keys /\ "packet" \in Feeds(job[w].kind)
           /\ job[w].cur \in Readings /\ job[w].cur \in Int /\ job[w].cur >= 0
           /\ job[w].cur <= now /\ now - job[w].cur <= MaxLag
           /\ LatestUsed' \in Int /\ LatestUsed' >= job[w].cur
           /\ Frontier' = LatestUsed' /\ Frontier' >= Frontier
<1> PICK p : p = job[w]
  OBVIOUS
<1>1. p # NoPacket /\ now' = now
  BY DEF Analyze
<1>2. /\ p.kind \in Kinds /\ p.key \in Keys /\ p.cur \in Readings /\ p.cur \in Int /\ p.cur >= 0
      /\ p.cur <= now /\ now - p.cur <= MaxLag /\ now \in Int /\ MaxLag \in Int
  <2>1. now \in Int /\ MaxLag \in Int
    BY WindowConstants DEF WindowsTyped
  <2>2. p.cur <= now /\ now - p.cur <= MaxLag
    BY <1>1 DEF WindowsTyped
  <2> QED
    BY <1>1, <2>1, <2>2, JobsTyped
<1>3. "packet" \in Feeds(p.kind) /\ "packet" \in Families
  <2>1. "packet" \in Feeds(p.kind)
    BY DEF Feeds
  <2> QED
    BY <1>2, <2>1 DEF Families
<1>4. seen'["packet"] = [seen["packet"] EXCEPT ![p.cur] = @ + 1] /\ seen["packet"] \in [Readings -> Nat]
  BY <1>3 DEF Analyze, WindowsTyped
<1>5. Used \subseteq Used' /\ p.cur \in Used'
  BY <1>2, <1>4 DEF Used
<1>6. LatestUsed \in Int /\ LatestUsed' \in Int /\ LatestUsed' >= p.cur
  BY <1>5, LatestIsLatest, LatestIsLatestNext, ReadingsAreNumbers
<1>7. LatestUsed' >= LatestUsed
  <2>1. CASE Used = {}
    <3>1. p.cur >= LatestUsed
      BY <1>2, <2>1 DEF LatestUsed
    <3> QED
      BY <1>2, <1>6, <3>1, Order, Zenon
  <2>2. CASE Used # {}
    BY <1>5, <2>2, LatestIsLatest, LatestIsLatestNext
  <2> QED
    BY <2>1, <2>2
<1>8. p.cur >= now - MaxLag /\ now - MaxLag \in Int
  BY <1>2
<1>9. Frontier = Later(LatestUsed, now - MaxLag)
  BY DEF Frontier, Later
<1>10. Frontier' = Later(LatestUsed', now - MaxLag)
  BY <1>1 DEF Frontier, Later
<1>11. Frontier' = LatestUsed'
  BY <1>2, <1>6, <1>8, <1>10, Order, Zenon
<1>12. LatestUsed' >= now - MaxLag
  BY <1>2, <1>6, <1>8, Order, Zenon
<1>13. Frontier' >= Frontier
  BY <1>6, <1>7, <1>8, <1>9, <1>11, <1>12, Order, Zenon
<1> QED
  BY <1>2, <1>3, <1>6, <1>11, <1>13

LEMMA AnalyzeCounts ==
    ASSUME WindowInv, NEW w \in Workers, Analyze(w)
    PROVE  /\ stamps' \in [Families -> Seq(Readings)] /\ seen' \in [Families -> [Readings -> Nat]]
           /\ \A f \in Families : \A i \in 1..Len(stamps'[f]) : stamps'[f][i] <= now
           /\ NearlyInOrder' /\ ListsCount'
           /\ \A f \in Feeds(job[w].kind) : f \in Families /\ stamps'[f] # <<>> /\ stamps'[f][1] >= job[w].cur - Window
<1>1. WindowsTyped /\ NearlyInOrder /\ ListsCount
  BY DEF WindowInv
<1> PICK p : p = job[w]
  OBVIOUS
<1>2. /\ p.kind \in Kinds /\ p.cur \in Readings /\ p.cur \in Int /\ p.cur <= now /\ now - p.cur <= MaxLag
      /\ now \in Int /\ MaxLag \in Nat /\ Window \in Nat /\ Frontier \in Int
  BY <1>1, AnalyzeMoves, FrontierBound, WindowConstants
<1>3. /\ stamps' = [f \in Families |-> IF f \in Feeds(p.kind) THEN AddTimestamp(stamps[f], p.cur) ELSE stamps[f]]
      /\ seen' = [f \in Families |-> IF f \in Feeds(p.kind) THEN [seen[f] EXCEPT ![p.cur] = @ + 1] ELSE seen[f]]
  BY DEF Analyze
<1>4. ASSUME NEW f \in Families, f \in Feeds(p.kind), NEW nt, nt = AddTimestamp(stamps[f], p.cur)
      PROVE  /\ nt \in Seq(Readings) /\ nt # <<>> /\ nt[1] >= p.cur - Window
             /\ \A i \in 1..Len(nt) : nt[i] <= now
             /\ \A i, j \in 1..Len(nt) : i < j => nt[j] >= nt[i] - MaxLag
  <2>1. /\ stamps[f] \in Seq(Readings) /\ Len(stamps[f]) \in Nat
        /\ \A i \in 1..Len(stamps[f]) : stamps[f][i] \in Int /\ stamps[f][i] <= now
        /\ \A i, j \in 1..Len(stamps[f]) : i < j => stamps[f][j] >= stamps[f][i] - MaxLag
    BY <1>1, StampsAreNumbers DEF WindowsTyped, NearlyInOrder
  <2>2. PICK d \in 0..Len(stamps[f]) : Dropped(stamps[f], p.cur, nt, d)
    BY <1>2, <1>4, <2>1, AddTimestampDrops
  <2> PICK n : n = Len(stamps[f]) - d
    OBVIOUS
  <2>3. /\ n \in Nat /\ d \in Nat /\ n + d = Len(stamps[f]) /\ nt \in Seq(Readings) /\ Len(nt) = n + 1
        /\ \A j \in 1..n : nt[j] = stamps[f][d + j]
        /\ nt[n + 1] = p.cur
        /\ n > 0 => stamps[f][d + 1] >= p.cur - Window
    BY <2>1, <2>2 DEF Dropped
  <2>4. nt[1] >= p.cur - Window
    <3>1. CASE n = 0
      <4>1. nt[1] = p.cur
        BY <2>3, <3>1
      <4> QED
        BY <1>2, <4>1
    <3>2. CASE n # 0
      <4>1. n > 0 /\ nt[1] = stamps[f][d + 1]
        BY <2>3, <3>2
      <4> QED
        BY <2>3, <4>1
    <3> QED
      BY <3>1, <3>2
  <2>5. \A i \in 1..Len(nt) : i = n + 1 \/ (i \in 1..n /\ d + i \in 1..Len(stamps[f]))
    <3> PICK k : k = Len(stamps[f])
      OBVIOUS
    <3> SUFFICES ASSUME NEW i \in 1..Len(nt), i # n + 1
                 PROVE  i \in 1..n /\ d + i \in 1..k
      OBVIOUS
    <3>1. n \in Nat /\ d \in Nat /\ n + d = k /\ Len(nt) = n + 1
      BY <2>3
    <3> QED
      BY <3>1
  <2>6. \A i \in 1..Len(nt) : nt[i] <= now
    BY <1>2, <2>1, <2>3, <2>5
  <2>7. ASSUME NEW i \in 1..Len(nt), NEW j \in 1..Len(nt), i < j
        PROVE  nt[j] >= nt[i] - MaxLag
    <3>1. i \in 1..n /\ d + i \in 1..Len(stamps[f]) /\ nt[i] = stamps[f][d + i] /\ nt[i] \in Int
      BY <2>1, <2>3, <2>5, <2>7
    <3>2. CASE j = n + 1
      <4>1. nt[i] <= now /\ nt[j] = p.cur
        BY <2>3, <2>6, <3>2
      <4> QED
        BY <1>2, <3>1, <4>1, SMTT(40)
    <3>3. CASE j # n + 1
      <4>1. d + j \in 1..Len(stamps[f]) /\ nt[j] = stamps[f][d + j] /\ d + i < d + j
        BY <2>1, <2>3, <2>5, <2>7, <3>3, SMTT(40)
      <4> QED
        BY <2>1, <3>1, <4>1
    <3> QED
      BY <3>2, <3>3
  <2>8. nt # <<>>
    BY <2>3
  <2> QED
    BY <2>3, <2>4, <2>6, <2>7, <2>8
<1>5. \A f \in Families : IF f \in Feeds(p.kind) THEN stamps'[f] = AddTimestamp(stamps[f], p.cur)
                                                 ELSE stamps'[f] = stamps[f]
  BY <1>3
<1>6. stamps' \in [Families -> Seq(Readings)]
  <2>1. \A f \in Families : stamps'[f] \in Seq(Readings)
    BY <1>1, <1>4, <1>5, StampsAreNumbers
  <2> QED
    BY <1>3, <2>1
<1>7. seen' \in [Families -> [Readings -> Nat]]
  BY <1>1, <1>2, <1>3 DEF WindowsTyped
<1>8. \A f \in Families : \A i \in 1..Len(stamps'[f]) : stamps'[f][i] <= now
  BY <1>1, <1>4, <1>5 DEF WindowsTyped
<1>9. NearlyInOrder'
  BY <1>1, <1>4, <1>5 DEF NearlyInOrder
<1>10. ListsCount'
  <2> SUFFICES ASSUME NEW f \in Families, NEW V \in SUBSET Readings
               PROVE  /\ CountIn(stamps'[f], V) <= SumFunctionOnSet(seen'[f], V)
                      /\ (\A v \in V : v >= Frontier' - Window) =>
                            CountIn(stamps'[f], V) = SumFunctionOnSet(seen'[f], V)
    BY DEF ListsCount, Counted
  <2>1. /\ CountIn(stamps[f], V) <= SumFunctionOnSet(seen[f], V)
        /\ (\A v \in V : v >= Frontier - Window) => CountIn(stamps[f], V) = SumFunctionOnSet(seen[f], V)
    BY <1>1 DEF ListsCount, Counted
  <2>2. ASSUME \A v \in V : v >= Frontier' - Window
        PROVE  (\A v \in V : v >= Frontier - Window) /\ (\A v \in V : v >= p.cur - Window)
    <3>1. /\ \A v \in V : v \in Int
          /\ \A a, b \in Int : b >= a /\ (\A v \in V : v >= b - Window) => \A v \in V : v >= a - Window
      <4>1. \A v \in V : v \in Int
        BY WindowConstants
      <4> QED
        BY <1>2, <4>1
    <3>2. Frontier' \in Int /\ Frontier' >= Frontier /\ Frontier' >= p.cur
      BY <1>1, AnalyzeMoves
    <3> QED
      BY <1>2, <2>2, <3>1, <3>2, Zenon
  <2>3. CASE f \notin Feeds(p.kind)
    <3>1. stamps'[f] = stamps[f] /\ seen'[f] = seen[f]
      BY <1>3, <2>3
    <3> QED
      BY <2>1, <2>2, <3>1
  <2>4. CASE f \in Feeds(p.kind)
    <3> PICK g : g = seen[f]
      OBVIOUS
    <3> PICK h : h = [g EXCEPT ![p.cur] = @ + 1]
      OBVIOUS
    <3> PICK nt : nt = AddTimestamp(stamps[f], p.cur)
      OBVIOUS
    <3> PICK new : new = IF p.cur \in V THEN 1 ELSE 0
      OBVIOUS
    <3>1. stamps'[f] = nt /\ seen'[f] = h /\ g \in [Readings -> Nat]
      BY <1>1, <1>3, <2>4 DEF WindowsTyped
    <3>2. /\ SumFunctionOnSet(g, V) \in Int /\ SumFunctionOnSet(h, V) = SumFunctionOnSet(g, V) + new
      BY <1>2, <3>1, SumOfOneMore
    <3>3. /\ CountIn(nt, V) <= CountIn(stamps[f], V) + new
          /\ (\A v \in V : v >= p.cur - Window) => CountIn(nt, V) = CountIn(stamps[f], V) + new
      BY <1>1, <1>2, StampsAreNumbers, CountAdded
    <3>4. CountIn(stamps[f], V) \in Nat /\ CountIn(nt, V) \in Nat /\ new \in Int
      <4>1. Len(stamps[f]) \in Nat
        BY <1>1, StampsAreNumbers
      <4>2. nt \in Seq(Readings) /\ new \in Int
        BY <1>4, <2>4
      <4>3. Len(nt) \in Nat
        BY <4>2
      <4> QED
        BY <4>1, <4>2, <4>3, CountType
    <3>5. CountIn(nt, V) <= SumFunctionOnSet(h, V)
      BY <2>1, <3>2, <3>3, <3>4
    <3>6. ASSUME \A v \in V : v >= Frontier' - Window
          PROVE  CountIn(nt, V) = SumFunctionOnSet(h, V)
      <4>1. /\ CountIn(stamps[f], V) = SumFunctionOnSet(g, V)
            /\ CountIn(nt, V) = CountIn(stamps[f], V) + new
        BY <2>1, <2>2, <3>3, <3>6
      <4> QED
        BY <3>2, <4>1
    <3> QED
      BY <3>1, <3>5, <3>6
  <2> QED
    BY <2>3, <2>4
<1>11. \A f \in Feeds(p.kind) : f \in Families
  BY <1>2 DEF Families
<1> QED
  BY <1>4, <1>5, <1>6, <1>7, <1>8, <1>9, <1>10, <1>11

LEMMA LaterReading ==
    \A a, b, n \in Int : a <= n /\ b <= n /\ n - b <= MaxLag
                         /\ a \in Readings \cup {Never} /\ b \in Readings =>
        /\ Later(a, b) \in Readings \cup {Never}
        /\ b <= Later(a, b) /\ Later(a, b) <= n /\ Later(a, b) <= b + MaxLag
<1> SUFFICES ASSUME NEW a \in Int, NEW b \in Int, NEW n \in Int, a <= n, b <= n, n - b <= MaxLag,
                    a \in Readings \cup {Never}, b \in Readings
             PROVE  /\ Later(a, b) \in Readings \cup {Never}
                    /\ b <= Later(a, b) /\ Later(a, b) <= n /\ Later(a, b) <= b + MaxLag
  OBVIOUS
<1>1. MaxLag \in Nat
  BY WindowConstants
<1>2. Later(a, b) = a \/ Later(a, b) = b
  BY DEF Later
<1>3. b <= Later(a, b) /\ Later(a, b) <= n /\ Later(a, b) <= b + MaxLag
  BY <1>1 DEF Later
<1> QED
  BY <1>2, <1>3

LEMMA AnalyzeMaps ==
    ASSUME WindowInv, NEW w \in Workers, Analyze(w)
    PROVE  /\ touched' \in [Maps -> [Keys -> Readings \cup {Never}]]
           /\ newest' \in [Maps -> [Keys -> Readings \cup {Never}]]
           /\ MapsTell'
           /\ \A m \in Names(job[w].kind) : m \in Maps
           /\ \A m \in Names(job[w].kind) : \A k \in Keys :
                 touched'[m][k] # Never => touched'[m][k] >= job[w].cur - Width(m)
<1>1. WindowsTyped /\ MapsTell
  BY DEF WindowInv
<1> PICK p : p = job[w]
  OBVIOUS
<1>2. /\ p.kind \in Kinds /\ p.key \in Keys /\ p.cur \in Readings /\ p.cur \in Int /\ p.cur <= now
      /\ now - p.cur <= MaxLag /\ now \in Int /\ MaxLag \in Nat /\ Frontier \in Int /\ p.cur # Never
      /\ \A m \in Maps : Width(m) \in Nat
  BY <1>1, AnalyzeMoves, FrontierBound, WindowConstants DEF Width
<1>3. /\ touched' = [m \in Maps |-> IF m \in Names(p.kind) THEN Touch(touched[m], p.key, p.cur, Width(m))
                                                           ELSE touched[m]]
      /\ newest' = [m \in Maps |-> IF m \in Names(p.kind) THEN [newest[m] EXCEPT ![p.key] = Max({@, p.cur})]
                                                          ELSE newest[m]]
      /\ UNCHANGED now
  BY DEF Analyze
<1>4. \A m \in Names(p.kind) : m \in Maps
  BY <1>2 DEF Maps
<1>5. ASSUME NEW m \in Maps, NEW k \in Keys
      PROVE  /\ touched[m][k] \in Readings \cup {Never} /\ touched[m][k] \in Int
             /\ newest[m][k] \in Readings \cup {Never} /\ newest[m][k] \in Int
             /\ newest[m][k] <= now
             /\ touched[m][k] # Never =>
                   touched[m][k] <= newest[m][k] /\ newest[m][k] <= touched[m][k] + MaxLag
             /\ touched[m][k] = Never /\ newest[m][k] # Never =>
                   newest[m][k] < Frontier - Width(m) + MaxLag
  BY <1>1, StampsTyped DEF MapsTell
\* What becomes of the stamp a and the newest reading b of a key.
<1>6. ASSUME NEW m \in Names(p.kind), NEW k \in Keys
      PROVE  \E a, b \in Readings \cup {Never} :
               /\ a = touched'[m][k] /\ b = newest'[m][k]
               /\ b <= now
               /\ a # Never => a <= b /\ b <= a + MaxLag /\ a >= p.cur - Width(m)
               /\ a = Never /\ b # Never => b < Frontier - Width(m) + MaxLag \/ b < p.cur - Width(m) + MaxLag
  <2>1. m \in Maps
    BY <1>4
  <2>2. touched'[m][k] = LET t == IF k = p.key THEN p.cur ELSE touched[m][k]
                         IN  IF t # Never /\ p.cur - t > Width(m) THEN Never ELSE t
    BY <1>3, <2>1 DEF Touch
  <2>3. newest'[m] = [newest[m] EXCEPT ![p.key] = Max({newest[m][p.key], p.cur})] /\ newest[m] \in [Keys -> Readings \cup {Never}]
    BY <1>1, <1>3, <2>1 DEF WindowsTyped
  <2>4. CASE k = p.key
    <3> PICK b : b = Max({newest[m][k], p.cur})
      OBVIOUS
    <3>1. b = IF newest[m][k] >= p.cur THEN newest[m][k] ELSE p.cur
      BY <1>2, <1>5, <2>1, MaxOfTwo
    <3>2. newest'[m][k] = b
      BY <2>3, <2>4
    <3>3. touched'[m][k] = p.cur
      BY <1>2, <2>1, <2>2, <2>4
    <3>4. b \in Readings \cup {Never} /\ p.cur <= b /\ b <= now /\ b <= p.cur + MaxLag
      <4> PICK c \in Int : c = newest[m][k] /\ c <= now /\ c \in Readings \cup {Never}
        BY <1>5, <2>1
      <4>1. b = Later(c, p.cur)
        BY <3>1 DEF Later
      <4> QED
        BY <1>2, <4>1, LaterReading, Zenon
    <3>5. p.cur >= p.cur - Width(m)
      BY <1>2, <2>1
    <3> QED
      BY <1>2, <3>2, <3>3, <3>4, <3>5
  <2>5. CASE k # p.key
    <3> PICK a : a = touched[m][k]
      OBVIOUS
    <3> PICK b : b = newest[m][k]
      OBVIOUS
    <3>1. newest'[m][k] = b
      BY <2>3, <2>5
    <3>2. touched'[m][k] = IF a # Never /\ p.cur - a > Width(m) THEN Never ELSE a
      BY <2>2, <2>5
    <3>3. CASE a # Never /\ p.cur - a > Width(m)
      <4>1. b < p.cur - Width(m) + MaxLag
        BY <1>2, <1>5, <2>1, <3>3
      <4>2. touched'[m][k] = Never /\ b \in Readings \cup {Never} /\ b <= now
        BY <1>5, <2>1, <3>2, <3>3
      <4> QED
        BY <3>1, <4>1, <4>2
    <3>4. CASE ~ (a # Never /\ p.cur - a > Width(m))
      <4>1. touched'[m][k] = a
        BY <3>2, <3>4
      <4>2. a # Never => a >= p.cur - Width(m)
        BY <1>2, <1>5, <2>1, <3>4
      <4> QED
        BY <1>5, <2>1, <3>1, <4>1, <4>2
    <3> QED
      BY <3>3, <3>4
  <2> QED
    BY <2>4, <2>5
<1>7. touched' \in [Maps -> [Keys -> Readings \cup {Never}]]
  <2>1. ASSUME NEW m \in Maps PROVE touched'[m] \in [Keys -> Readings \cup {Never}]
    <3>1. CASE m \in Names(p.kind)
      <4>1. \A k \in Keys : touched'[m][k] \in Readings \cup {Never}
        BY <1>6, <3>1
      <4>2. touched'[m] = [k \in Keys |-> touched'[m][k]]
        BY <1>3, <3>1 DEF Touch
      <4> QED
        BY <4>1, <4>2
    <3>2. CASE m \notin Names(p.kind)
      BY <1>1, <1>3, <3>2 DEF WindowsTyped
    <3> QED
      BY <3>1, <3>2
  <2> QED
    BY <1>3, <2>1
<1>8. newest' \in [Maps -> [Keys -> Readings \cup {Never}]]
  <2>1. ASSUME NEW m \in Maps PROVE newest'[m] \in [Keys -> Readings \cup {Never}]
    <3>1. CASE m \in Names(p.kind)
      <4>1. \A k \in Keys : newest'[m][k] \in Readings \cup {Never}
        BY <1>6, <3>1
      <4>2. newest[m] \in [Keys -> Readings \cup {Never}]
        BY <1>1 DEF WindowsTyped
      <4>3. newest'[m] = [k \in Keys |-> newest'[m][k]]
        BY <1>3, <3>1, <4>2
      <4> QED
        BY <4>1, <4>3
    <3>2. CASE m \notin Names(p.kind)
      BY <1>1, <1>3, <3>2 DEF WindowsTyped
    <3> QED
      BY <3>1, <3>2
  <2> QED
    BY <1>3, <2>1
<1>9. \A f, b, c, d, e \in Int : f >= c /\ f >= d /\ (b < c - e + MaxLag \/ b < d - e + MaxLag) => b < f - e + MaxLag
  BY WindowConstants
<1>10. Frontier' \in Int /\ Frontier' >= Frontier /\ Frontier' >= p.cur
  BY <1>1, AnalyzeMoves
<1>11. MapsTell'
  <2> SUFFICES ASSUME NEW m \in Maps, NEW k \in Keys
               PROVE  /\ newest'[m][k] <= now
                      /\ touched'[m][k] # Never =>
                            touched'[m][k] <= newest'[m][k] /\ newest'[m][k] <= touched'[m][k] + MaxLag
                      /\ touched'[m][k] = Never /\ newest'[m][k] # Never =>
                            newest'[m][k] < Frontier' - Width(m) + MaxLag
    BY <1>3 DEF MapsTell
  <2>1. CASE m \in Names(p.kind)
    <3>1. PICK a, b \in Readings \cup {Never} :
               /\ a = touched'[m][k] /\ b = newest'[m][k]
               /\ b <= now
               /\ a # Never => a <= b /\ b <= a + MaxLag /\ a >= p.cur - Width(m)
               /\ a = Never /\ b # Never => b < Frontier - Width(m) + MaxLag \/ b < p.cur - Width(m) + MaxLag
      BY <1>6, <2>1
    <3>2. b \in Int /\ Width(m) \in Int
      BY <1>2, WindowConstants
    <3>3. a = Never /\ b # Never => b < Frontier' - Width(m) + MaxLag
      BY <1>2, <1>9, <1>10, <3>1, <3>2, Zenon
    <3> QED
      BY <3>1, <3>3, Zenon
  <2>2. CASE m \notin Names(p.kind)
    <3>1. touched'[m][k] = touched[m][k] /\ newest'[m][k] = newest[m][k]
      BY <1>3, <2>2
    <3>2. newest[m][k] \in Int /\ Width(m) \in Int
      BY <1>2, <1>5
    <3>3. touched[m][k] = Never /\ newest[m][k] # Never => newest[m][k] < Frontier' - Width(m) + MaxLag
      BY <1>2, <1>5, <1>9, <1>10, <3>2, Zenon
    <3> QED
      BY <1>5, <3>1, <3>3, Zenon
  <2> QED
    BY <2>1, <2>2
<1>12. \A m \in Names(p.kind) : \A k \in Keys : touched'[m][k] # Never => touched'[m][k] >= p.cur - Width(m)
  BY <1>6
<1> QED
  BY <1>4, <1>7, <1>8, <1>11, <1>12

LEMMA AnalyzeKeeps == \A w \in Workers : WindowInv /\ Analyze(w) => WindowInv'
<1> SUFFICES ASSUME WindowInv, NEW w \in Workers, Analyze(w)
             PROVE  WindowInv'
  OBVIOUS
<1>1. WindowsTyped
  BY DEF WindowInv
<1>2. now' = now /\ job' = [job EXCEPT ![w] = NoPacket]
  BY DEF Analyze
<1>3. job' \in [Workers -> [kind : Kinds, key : Keys, cur : Readings] \cup {NoPacket}]
  BY <1>1, <1>2 DEF WindowsTyped
<1>4. \A v \in Workers : job'[v] # NoPacket => job'[v].cur <= now /\ now - job'[v].cur <= MaxLag
  BY <1>1, <1>2 DEF WindowsTyped
<1>5. WindowsTyped'
  BY <1>1, <1>2, <1>3, <1>4, AnalyzeCounts, AnalyzeMaps DEF WindowsTyped
<1> QED
  BY <1>5, AnalyzeCounts, AnalyzeMaps DEF WindowInv

LEMMA WNextInv == WindowInv /\ [WNext]_wvars => WindowInv'
<1> SUFFICES ASSUME WindowInv, [WNext]_wvars
             PROVE  WindowInv'
  OBVIOUS
<1>1. CASE Clock
  BY <1>1, ClockKeeps
<1>2. CASE Clean
  BY <1>2, CleanKeeps
<1>3. CASE \E w \in Workers : Arrive(w)
  BY <1>3, ArriveKeeps
<1>4. CASE \E w \in Workers : Analyze(w)
  BY <1>4, AnalyzeKeeps
<1>5. CASE UNCHANGED wvars
  BY <1>5 DEF wvars, WindowInv, WindowsTyped, NearlyInOrder, ListsCount, MapsTell,
              Counted, Frontier, LatestUsed, Used
<1> QED
  BY <1>1, <1>2, <1>3, <1>4, <1>5 DEF WNext

\* However the readings of the workers overtake each other, and whenever cleanupLoop
\* runs: a packet within a window of every reading still to be used is in its list, once.
THEOREM WindowsExact == WindowSpec => []NothingLiveForgotten
<1>1. WindowInv => NothingLiveForgotten
  <2> SUFFICES ASSUME WindowInv, NEW f \in Families, NEW t \in Readings,
                      t >= Max({LatestUsed, now - MaxLag}) - Window
               PROVE  Occurrences(stamps[f], t) = seen[f][t]
    BY DEF NothingLiveForgotten
  <2>1. WindowsTyped /\ ListsCount
    BY DEF WindowInv
  <2>2. LatestUsed \in Int /\ now - MaxLag \in Int
    BY <2>1, LatestIsLatest, WindowConstants DEF WindowsTyped
  <2>3. Max({LatestUsed, now - MaxLag}) = Frontier
    BY <2>2, MaxOfTwo DEF Frontier
  <2>4. {t} \in SUBSET Readings /\ \A v \in {t} : v >= Frontier - Window
    BY <2>3
  <2>5. CountIn(stamps[f], {t}) = Counted(f, {t})
    BY <2>1, <2>4 DEF ListsCount
  <2>6. Counted(f, {t}) = seen[f][t]
    BY <2>1, SumOfOne DEF Counted, WindowsTyped
  <2>7. CountIn(stamps[f], {t}) = Occurrences(stamps[f], t)
    <3>1. DOMAIN stamps[f] = 1..Len(stamps[f])
      BY <2>1 DEF WindowsTyped
    <3>2. {i \in 1..Len(stamps[f]) : stamps[f][i] \in {t}} = {i \in DOMAIN stamps[f] : stamps[f][i] = t}
      BY <3>1
    <3> QED
      BY <3>2 DEF CountIn, Occurrences
  <2> QED
    BY <2>5, <2>6, <2>7
<1> QED
  BY <1>1, WInitInv, WNextInv, PTL DEF WindowSpec

-------------------------------------------------------------------------------
(* What the alerts tell *)

LEMMA RuleNames ==
    /\ DOMAIN RateRules = {"NET-ARP-002", "NET-ARP-003", "NET-SSH-001", "NET-UDP-001", "NET-DNS-001", "NET-ICMP-001"}
    /\ DOMAIN MapRules = {"NET-ARP-001", "NET-LAT-001", "NET-SCAN-001", "NET-DHCP-001", "NET-SWEEP-001"}
    /\ {"NET-SYN-001", "NET-DOS-001"} \cap DOMAIN RateRules = {}
    /\ {"NET-SYN-001", "NET-DOS-001"} \cap DOMAIN MapRules = {}
    /\ DOMAIN RateRules \cap DOMAIN MapRules = {}
<1>1. DOMAIN RateRules = {"NET-ARP-002", "NET-ARP-003", "NET-SSH-001", "NET-UDP-001", "NET-DNS-001", "NET-ICMP-001"}
  BY DEF RateRules
<1>2. DOMAIN MapRules = {"NET-ARP-001", "NET-LAT-001", "NET-SCAN-001", "NET-DHCP-001", "NET-SWEEP-001"}
  BY DEF MapRules
<1> QED
  BY <1>1, <1>2

LEMMA Limits ==
    /\ \A r \in DOMAIN RateRules : \A kind : Limit(r, kind) \in Int
    /\ \A r \in DOMAIN MapRules \cup {"NET-SYN-001", "NET-DOS-001"} : Threshold[r] \in Nat
<1>1. \A r \in DOMAIN RateRules \cup DOMAIN MapRules \cup {"NET-SYN-001", "NET-DOS-001"} : Threshold[r] \in Nat
  BY ThresholdAssumption
<1>2. ASSUME NEW r \in DOMAIN RateRules, NEW kind PROVE Limit(r, kind) \in Int
  <2> PICK t \in Nat : t = Threshold[r]
    BY <1>1
  <2>1. Limit(r, kind) \in {t \div 2, t * 50, t}
    BY DEF Limit
  <2> QED
    BY <2>1
<1> QED
  BY <1>1, <1>2

LEMMA AlertsAre ==
    ASSUME NEW kind, NEW lists, NEW maps, NEW cur
    PROVE  /\ \A r \in DOMAIN RateRules : r \notin ReplyRules /\ RateRules[r] \in Feeds(kind) =>
                 (r \in Alerts(kind, lists, maps, cur) <=> Rate(lists[RateRules[r]]) > Limit(r, kind))
           /\ \A r \in DOMAIN MapRules : r \notin ReplyRules /\ MapRules[r] \in Names(kind) =>
                 (r \in Alerts(kind, lists, maps, cur) <=> Size(maps[MapRules[r]]) > Threshold[r])
           /\ "NET-SYN-001" \in Alerts(kind, lists, maps, cur) =>
                 "syn" \in Feeds(kind) /\ Len(lists["syn"]) >= Threshold["NET-SYN-001"]
           /\ "NET-DOS-001" \in Alerts(kind, lists, maps, cur) =>
                 Rate(lists["packet"]) > Threshold["NET-DOS-001"]
<1> DEFINE applies(rule) == rule \in ReplyRules => kind = "reply"
           ports == IF "ports" \in Names(kind) THEN Size(maps["ports"]) ELSE 0
           floods == {r \in DOMAIN RateRules :
                        applies(r) /\ RateRules[r] \in Feeds(kind)
                        /\ Rate(lists[RateRules[r]]) > Limit(r, kind)}
           spreads == {r \in DOMAIN MapRules :
                        applies(r) /\ MapRules[r] \in Names(kind)
                        /\ Size(maps[MapRules[r]]) > Threshold[r]}
           synFlood == "syn" \in Feeds(kind) /\ Len(lists["syn"]) >= Threshold["NET-SYN-001"]
                       /\ ports <= FewPorts
           scanning == (lastScan # Never /\ cur - lastScan < ScanMemory) \/ ports > FewPorts
           dos == Rate(lists["packet"]) > Threshold["NET-DOS-001"] /\ ~scanning
           syn == {r \in {"NET-SYN-001"} : synFlood}
           ddos == {r \in {"NET-DOS-001"} : dos}
<1>1. Alerts(kind, lists, maps, cur) = floods \cup spreads \cup syn \cup ddos
  BY Zenon DEF Alerts
<1>2. \A r : r \in floods <=> r \in DOMAIN RateRules /\ applies(r) /\ RateRules[r] \in Feeds(kind)
                              /\ Rate(lists[RateRules[r]]) > Limit(r, kind)
  BY Zenon
<1>3. \A r : r \in spreads <=> r \in DOMAIN MapRules /\ applies(r) /\ MapRules[r] \in Names(kind)
                               /\ Size(maps[MapRules[r]]) > Threshold[r]
  BY Zenon
<1>4. /\ \A r : r \in syn <=> r = "NET-SYN-001" /\ synFlood
      /\ \A r : r \in ddos <=> r = "NET-DOS-001" /\ dos
  BY Zenon
<1>5. /\ \A r \in DOMAIN RateRules : r \notin DOMAIN MapRules /\ r # "NET-SYN-001" /\ r # "NET-DOS-001"
      /\ \A r \in DOMAIN MapRules : r # "NET-SYN-001" /\ r # "NET-DOS-001"
      /\ "NET-SYN-001" # "NET-DOS-001"
  BY RuleNames
<1>6. /\ synFlood => "syn" \in Feeds(kind) /\ Len(lists["syn"]) >= Threshold["NET-SYN-001"]
      /\ dos => Rate(lists["packet"]) > Threshold["NET-DOS-001"]
  OBVIOUS
<1>7. \A r : r \notin ReplyRules => applies(r)
  OBVIOUS
<1> HIDE DEF floods, spreads, synFlood, dos, syn, ddos, applies
<1>8. \A r : r \in Alerts(kind, lists, maps, cur) <=> r \in floods \/ r \in spreads \/ r \in syn \/ r \in ddos
  BY <1>1
<1>9. \A r \in DOMAIN RateRules : r \notin ReplyRules /\ RateRules[r] \in Feeds(kind) =>
         (r \in Alerts(kind, lists, maps, cur) <=> Rate(lists[RateRules[r]]) > Limit(r, kind))
  BY <1>2, <1>3, <1>4, <1>5, <1>7, <1>8, Zenon
<1>10. \A r \in DOMAIN MapRules : r \notin ReplyRules /\ MapRules[r] \in Names(kind) =>
         (r \in Alerts(kind, lists, maps, cur) <=> Size(maps[MapRules[r]]) > Threshold[r])
  BY <1>2, <1>3, <1>4, <1>5, <1>7, <1>8, Zenon
<1>11. "NET-SYN-001" \in Alerts(kind, lists, maps, cur) => synFlood
  BY <1>2, <1>3, <1>4, <1>5, <1>8, Zenon
<1>12. "NET-DOS-001" \in Alerts(kind, lists, maps, cur) => dos
  BY <1>2, <1>3, <1>4, <1>5, <1>8, Zenon
<1> QED
  BY <1>6, <1>9, <1>10, <1>11, <1>12, Zenon

\* The length of a list that has just been entered, between what every worker would count
\* and what some worker could.
LEMMA ListRate ==
    ASSUME WindowInv, NEW w \in Workers, Analyze(w), NEW f \in Feeds(job[w].kind),
           NEW low, low = {u \in Readings : u >= LatestUsed' - Window},
           NEW high, high = {u \in Readings : u >= job[w].cur - Window - MaxLag}
    PROVE  /\ SumFunctionOnSet(seen'[f], low) \in Nat /\ Len(stamps'[f]) \in Nat
           /\ SumFunctionOnSet(seen'[f], high) \in Nat
           /\ SumFunctionOnSet(seen'[f], low) <= Len(stamps'[f])
           /\ Len(stamps'[f]) <= SumFunctionOnSet(seen'[f], high)
<1> PICK nt : nt = stamps'[f]
  OBVIOUS
<1> PICK g : g = seen'[f]
  OBVIOUS
<1>1. /\ f \in Families /\ nt \in Seq(Readings) /\ Len(nt) \in Nat /\ nt # <<>>
      /\ nt[1] >= job[w].cur - Window /\ g \in [Readings -> Nat]
      /\ \A i, j \in 1..Len(nt) : i < j => nt[j] >= nt[i] - MaxLag
  <2>1. f \in Families /\ nt # <<>> /\ nt[1] >= job[w].cur - Window
    BY AnalyzeCounts
  <2>2. nt \in Seq(Readings) /\ g \in [Readings -> Nat]
    BY <2>1, AnalyzeCounts
  <2>3. \A i, j \in 1..Len(nt) : i < j => nt[j] >= nt[i] - MaxLag
    BY <2>1, AnalyzeCounts DEF NearlyInOrder
  <2>4. Len(nt) \in Nat
    BY <2>2
  <2> QED
    BY <2>1, <2>2, <2>3, <2>4
<1>2. \A V \in SUBSET Readings :
         /\ CountIn(nt, V) <= SumFunctionOnSet(g, V)
         /\ (\A v \in V : v >= Frontier' - Window) => CountIn(nt, V) = SumFunctionOnSet(g, V)
  BY <1>1, AnalyzeCounts DEF ListsCount, Counted
<1>3. low \in SUBSET Readings /\ high \in SUBSET Readings
  OBVIOUS
<1>4. /\ WindowsTyped /\ Frontier' = LatestUsed' /\ job[w].cur \in Int /\ job[w].cur \in Readings
      /\ MaxLag \in Nat /\ Window \in Nat
  BY AnalyzeMoves, WindowConstants DEF WindowInv
<1>5. CountIn(nt, low) = SumFunctionOnSet(g, low)
  <2>1. \A v \in low : v >= Frontier' - Window
    BY <1>4
  <2> QED
    BY <1>2, <1>3, <2>1
<1>6. IsFiniteSet(1..Len(nt)) /\ Cardinality(1..Len(nt)) = Len(nt)
  <2>1. \A n \in Nat : IsFiniteSet(1..n) /\ Cardinality(1..n) = n
    BY FS_Interval
  <2> QED
    BY <1>1, <2>1, Zenon
<1>7. CountIn(nt, low) <= Len(nt) /\ CountIn(nt, low) \in Nat
  <2>1. {i \in 1..Len(nt) : nt[i] \in low} \in SUBSET (1..Len(nt))
    OBVIOUS
  <2>2. Cardinality({i \in 1..Len(nt) : nt[i] \in low}) <= Cardinality(1..Len(nt))
    BY <1>6, <2>1, FS_Subset
  <2> QED
    BY <1>1, <1>6, <2>2, CountType DEF CountIn
<1>8. CountIn(nt, high) = Len(nt)
  <2>1. \A i \in 1..Len(nt) : nt[i] \in Readings /\ nt[i] \in Int
    BY <1>1, ReadingsAreNumbers
  <2>2. 1 \in 1..Len(nt)
    BY <1>1
  <2> PICK c \in Int : c = job[w].cur
    BY <1>4
  <2>3. \A i \in 1..Len(nt) : nt[i] >= c - Window - MaxLag
    <3> TAKE i \in 1..Len(nt)
    <3>1. i = 1 \/ 1 < i
      BY <1>1
    <3>2. i = 1 \/ nt[i] >= nt[1] - MaxLag
      BY <1>1, <2>2, <3>1
    <3>3. nt[1] \in Int /\ nt[i] \in Int /\ nt[1] >= c - Window
      BY <1>1, <2>1, <2>2
    <3> QED
      BY <1>4, <3>2, <3>3, SMTT(40)
  <2>4. {i \in 1..Len(nt) : nt[i] \in high} = 1..Len(nt)
    BY <2>1, <2>3
  <2> QED
    BY <1>6, <2>4 DEF CountIn
<1>9. CountIn(nt, high) <= SumFunctionOnSet(g, high) /\ SumFunctionOnSet(g, high) \in Int
  <2>1. CountIn(nt, high) <= SumFunctionOnSet(g, high)
    BY <1>2, <1>3
  <2>2. SumFunctionOnSet(g, high) \in Int
    BY <1>1, <1>3, SumType, Zenon
  <2> QED
    BY <2>1, <2>2
<1>10. SumFunctionOnSet(g, high) \in Nat /\ Len(nt) <= SumFunctionOnSet(g, high)
  BY <1>1, <1>8, <1>9
<1> QED
  BY <1>1, <1>5, <1>7, <1>10

LEMMA FloodsTold ==
    ASSUME WindowInv, NEW w \in Workers, Analyze(w)
    PROVE  FloodsAreReal'
<1> PICK p : p = job[w]
  OBVIOUS
<1> PICK low : low = {u \in Readings : u >= LatestUsed' - Window}
  OBVIOUS
<1> PICK high : high = {u \in Readings : u >= p.cur - Window - MaxLag}
  OBVIOUS
<1> PICK alerts : alerts = verdict'.alerts
  OBVIOUS
<1>1. p = verdict'.packet /\ alerts = Alerts(p.kind, stamps', touched', p.cur)
  BY Zenon DEF Analyze
<1>2. /\ \A r \in DOMAIN RateRules : r \notin ReplyRules /\ RateRules[r] \in Feeds(p.kind) =>
            (r \in alerts <=> Rate(stamps'[RateRules[r]]) > Limit(r, p.kind))
      /\ "NET-SYN-001" \in alerts => "syn" \in Feeds(p.kind) /\ Len(stamps'["syn"]) >= Threshold["NET-SYN-001"]
      /\ "NET-DOS-001" \in alerts => Rate(stamps'["packet"]) > Threshold["NET-DOS-001"]
  BY <1>1, AlertsAre, Zenon
<1>3. \A f \in Feeds(p.kind) :
         \E a, b, c \in Nat : /\ a = SumFunctionOnSet(seen'[f], low) /\ b = Len(stamps'[f])
                              /\ c = SumFunctionOnSet(seen'[f], high) /\ a <= b /\ b <= c
  <2> SUFFICES ASSUME NEW f \in Feeds(p.kind)
               PROVE  \E a, b, c \in Nat :
                         /\ a = SumFunctionOnSet(seen'[f], low) /\ b = Len(stamps'[f])
                         /\ c = SumFunctionOnSet(seen'[f], high) /\ a <= b /\ b <= c
    OBVIOUS
  <2>1. f \in Feeds(job[w].kind) /\ high = {u \in Readings : u >= job[w].cur - Window - MaxLag}
    OBVIOUS
  <2>2. /\ SumFunctionOnSet(seen'[f], low) \in Nat /\ Len(stamps'[f]) \in Nat
        /\ SumFunctionOnSet(seen'[f], high) \in Nat
        /\ SumFunctionOnSet(seen'[f], low) <= Len(stamps'[f])
        /\ Len(stamps'[f]) <= SumFunctionOnSet(seen'[f], high)
    BY <2>1, ListRate, Zenon
  <2> QED
    BY <2>2, Zenon
<1>4. \A a, b \in Nat : a <= b => a \div Window \in Int /\ b \div Window \in Int /\ a \div Window <= b \div Window
  BY DivMonotone
<1>5. "packet" \in Feeds(p.kind)
  BY DEF Feeds
<1> DEFINE sure(f) == SumFunctionOnSet(seen'[f], low)
           atMost(f) == SumFunctionOnSet(seen'[f], high)
<1>6. ASSUME NEW r \in DOMAIN RateRules, RateRules[r] \in Feeds(p.kind), r \notin ReplyRules
      PROVE  /\ sure(RateRules[r]) \div Window > Limit(r, p.kind) => r \in alerts
             /\ r \in alerts => atMost(RateRules[r]) \div Window > Limit(r, p.kind)
  <2> PICK limit \in Int : limit = Limit(r, p.kind)
    BY Limits
  <2>1. PICK a, b, c \in Nat : /\ a = sure(RateRules[r]) /\ b = Len(stamps'[RateRules[r]])
                               /\ c = atMost(RateRules[r]) /\ a <= b /\ b <= c
    BY <1>3, <1>6
  <2>2. r \in alerts <=> b \div Window > limit
    BY <1>2, <1>6, <2>1 DEF Rate
  <2>3. /\ a \div Window \in Int /\ b \div Window \in Int /\ c \div Window \in Int
        /\ a \div Window <= b \div Window /\ b \div Window <= c \div Window
    BY <1>4, <2>1
  <2>4. /\ a \div Window > limit => b \div Window > limit
        /\ b \div Window > limit => c \div Window > limit
    BY <2>3
  <2> QED
    BY <2>1, <2>2, <2>4
<1>7. "NET-SYN-001" \in alerts => atMost("syn") >= Threshold["NET-SYN-001"]
  <2> SUFFICES ASSUME "NET-SYN-001" \in alerts
               PROVE  atMost("syn") >= Threshold["NET-SYN-001"]
    OBVIOUS
  <2> PICK t \in Nat : t = Threshold["NET-SYN-001"]
    BY Limits
  <2>1. "syn" \in Feeds(p.kind) /\ Len(stamps'["syn"]) >= t
    BY <1>2
  <2>2. PICK b, c \in Nat : b = Len(stamps'["syn"]) /\ c = atMost("syn") /\ b <= c
    BY <1>3, <2>1
  <2>3. c >= t
    BY <2>1, <2>2
  <2> QED
    BY <2>2, <2>3
<1>8. "NET-DOS-001" \in alerts => atMost("packet") \div Window > Threshold["NET-DOS-001"]
  <2> SUFFICES ASSUME "NET-DOS-001" \in alerts
               PROVE  atMost("packet") \div Window > Threshold["NET-DOS-001"]
    OBVIOUS
  <2> PICK t \in Nat : t = Threshold["NET-DOS-001"]
    BY Limits
  <2>1. PICK b, c \in Nat : b = Len(stamps'["packet"]) /\ c = atMost("packet") /\ b <= c
    BY <1>3, <1>5
  <2>2. b \div Window > t
    BY <1>2, <2>1 DEF Rate
  <2>3. b \div Window \in Int /\ c \div Window \in Int /\ b \div Window <= c \div Window
    BY <1>4, <2>1
  <2>4. c \div Window > t
    BY <2>2, <2>3
  <2> QED
    BY <2>1, <2>4
<1> HIDE DEF sure, atMost
<1>9. /\ \A f : CountedSince(f, LatestUsed - Window)' = sure(f)
      /\ \A f : CountedSince(f, verdict.packet.cur - Window - MaxLag)' = atMost(f)
  BY <1>1, Zenon DEF CountedSince, sure, atMost
<1>10. verdict'.packet # NoPacket =>
        /\ \A r \in DOMAIN RateRules :
              RateRules[r] \in Feeds(verdict'.packet.kind) /\ r \notin ReplyRules =>
              /\ CountedSince(RateRules[r], LatestUsed - Window)' \div Window > Limit(r, verdict'.packet.kind)
                   => r \in verdict'.alerts
              /\ r \in verdict'.alerts =>
                   CountedSince(RateRules[r], verdict.packet.cur - Window - MaxLag)' \div Window
                     > Limit(r, verdict'.packet.kind)
        /\ "NET-SYN-001" \in verdict'.alerts =>
              CountedSince("syn", verdict.packet.cur - Window - MaxLag)' >= Threshold["NET-SYN-001"]
        /\ "NET-DOS-001" \in verdict'.alerts =>
              CountedSince("packet", verdict.packet.cur - Window - MaxLag)' \div Window > Threshold["NET-DOS-001"]
  BY <1>1, <1>6, <1>7, <1>8, <1>9, Zenon
<1> QED
  BY <1>10, Zenon DEF FloodsAreReal

LEMMA SpreadsTold ==
    ASSUME WindowInv, NEW w \in Workers, Analyze(w)
    PROVE  SpreadsAreReal'
<1> PICK p : p = job[w]
  OBVIOUS
<1> PICK alerts : alerts = verdict'.alerts
  OBVIOUS
<1>1. p = verdict'.packet /\ alerts = Alerts(p.kind, stamps', touched', p.cur)
  BY Zenon DEF Analyze
<1>2. \A r \in DOMAIN MapRules : r \notin ReplyRules /\ MapRules[r] \in Names(p.kind) =>
         (r \in alerts <=> Size(touched'[MapRules[r]]) > Threshold[r])
  BY <1>1, AlertsAre, Zenon
<1> DEFINE met(m, t) == {k \in Keys : newest'[m][k] # Never /\ newest'[m][k] >= t}
<1>3. \A S \in SUBSET Keys : \A T \in SUBSET S :
         Cardinality(S) \in Nat /\ Cardinality(T) \in Nat /\ Cardinality(T) <= Cardinality(S)
  <2> TAKE S \in SUBSET Keys
  <2> TAKE T \in SUBSET S
  <2>1. IsFiniteSet(S)
    BY WindowsAssumption, FS_Subset
  <2> QED
    BY <2>1, FS_Subset, FS_CardinalityType
<1>4. ASSUME NEW m \in Names(p.kind), NEW k \in Keys
      PROVE  /\ touched'[m][k] # Never =>
                   newest'[m][k] # Never /\ newest'[m][k] >= p.cur - Width(m)
             /\ newest'[m][k] # Never /\ newest'[m][k] >= LatestUsed' - Width(m) + MaxLag =>
                   touched'[m][k] # Never
  <2>1. m \in Maps /\ MapsTell' /\ Frontier' = LatestUsed' /\ LatestUsed' \in Int /\ p.cur \in Int
    BY AnalyzeMaps, AnalyzeMoves DEF WindowInv
  <2>2. /\ touched'[m][k] \in Readings \cup {Never} /\ newest'[m][k] \in Readings \cup {Never}
        /\ touched'[m][k] # Never => touched'[m][k] >= p.cur - Width(m)
    BY <2>1, AnalyzeMaps
  <2>3. /\ touched'[m][k] # Never => touched'[m][k] <= newest'[m][k]
        /\ touched'[m][k] = Never /\ newest'[m][k] # Never => newest'[m][k] < LatestUsed' - Width(m) + MaxLag
    BY <2>1 DEF MapsTell
  <2>4. \A a, b \in Readings \cup {Never} : \A c \in Int :
           /\ a # Never /\ a >= c /\ a <= b => b # Never /\ b >= c
           /\ b < c => ~ (b >= c)
    BY WindowConstants
  <2>5. p.cur - Width(m) \in Int /\ LatestUsed' - Width(m) + MaxLag \in Int
    <3>1. \A a \in Int : a - Width(m) \in Int /\ a - Width(m) + MaxLag \in Int
      BY WindowConstants DEF Width
    <3> QED
      BY <2>1, <3>1, Zenon
  <2>6. PICK a \in Readings \cup {Never}, b \in Readings \cup {Never} :
           /\ a = touched'[m][k] /\ b = newest'[m][k]
           /\ a # Never => a >= p.cur - Width(m) /\ a <= b
           /\ a = Never /\ b # Never => b < LatestUsed' - Width(m) + MaxLag
    BY <2>2, <2>3, Zenon
  <2>7. a # Never => b # Never /\ b >= p.cur - Width(m)
    BY <2>4, <2>5, <2>6, ZenonT(40)
  <2>8. b # Never /\ b >= LatestUsed' - Width(m) + MaxLag => a # Never
    BY <2>4, <2>5, <2>6, Zenon
  <2> QED
    BY <2>6, <2>7, <2>8, Zenon
<1>5. ASSUME NEW r \in DOMAIN MapRules, MapRules[r] \in Names(p.kind), r \notin ReplyRules
      PROVE  /\ r \in alerts => Cardinality(met(MapRules[r], p.cur - Width(MapRules[r]))) > Threshold[r]
             /\ Cardinality(met(MapRules[r], LatestUsed' - Width(MapRules[r]) + MaxLag)) > Threshold[r]
                  => r \in alerts
  <2> PICK m : m = MapRules[r]
    OBVIOUS
  <2> PICK inMap : inMap = {k \in Keys : touched'[m][k] # Never}
    OBVIOUS
  <2> PICK many : many = met(m, p.cur - Width(m))
    OBVIOUS
  <2> PICK few : few = met(m, LatestUsed' - Width(m) + MaxLag)
    OBVIOUS
  <2>1. m \in Names(p.kind)
    BY <1>5
  <2>2. inMap \in SUBSET Keys /\ many \in SUBSET Keys /\ inMap \in SUBSET many /\ few \in SUBSET inMap
    BY <1>4, <2>1, Zenon
  <2>3. /\ Cardinality(inMap) \in Nat /\ Cardinality(many) \in Nat /\ Cardinality(few) \in Nat
        /\ Cardinality(inMap) <= Cardinality(many) /\ Cardinality(few) <= Cardinality(inMap)
    BY <1>3, <2>2, Zenon
  <2>4. r \in alerts <=> Cardinality(inMap) > Threshold[r]
    BY <1>2, <1>5 DEF Size
  <2>5. Threshold[r] \in Nat
    BY Limits
  <2>6. \A a, b, t \in Nat : a <= b /\ a > t => b > t
    OBVIOUS
  <2> QED
    BY <2>3, <2>4, <2>5, <2>6, Zenon
<1>6. verdict'.packet # NoPacket =>
        \A r \in DOMAIN MapRules :
            MapRules[r] \in Names(verdict'.packet.kind) /\ r \notin ReplyRules =>
            /\ r \in verdict'.alerts
                 => Cardinality(met(MapRules[r], verdict'.packet.cur - Width(MapRules[r]))) > Threshold[r]
            /\ Cardinality(met(MapRules[r], LatestUsed' - Width(MapRules[r]) + MaxLag)) > Threshold[r]
                 => r \in verdict'.alerts
  BY <1>1, <1>5, Zenon
<1> QED
  BY <1>6, Zenon DEF SpreadsAreReal

\* The verdict, the readings used and the newest readings change only when a packet is
\* analysed.
LEMMA VerdictKept ==
    ASSUME UNCHANGED <<seen, newest, verdict>>
    PROVE  UNCHANGED <<FloodsAreReal, SpreadsAreReal>>
<1>1. LatestUsed' = LatestUsed
  BY DEF LatestUsed, Used
<1>2. FloodsAreReal' = FloodsAreReal
  BY <1>1 DEF FloodsAreReal, CountedSince
<1>3. SpreadsAreReal' = SpreadsAreReal
  BY <1>1 DEF SpreadsAreReal
<1> QED
  BY <1>2, <1>3

LEMMA VerdictInit == WInit => FloodsAreReal /\ SpreadsAreReal
<1> SUFFICES ASSUME WInit
             PROVE  FloodsAreReal /\ SpreadsAreReal
  OBVIOUS
<1>1. verdict.packet = NoPacket
  BY DEF WInit
<1> QED
  BY <1>1, Zenon DEF FloodsAreReal, SpreadsAreReal

LEMMA VerdictNext ==
    WindowInv /\ FloodsAreReal /\ SpreadsAreReal /\ [WNext]_wvars => FloodsAreReal' /\ SpreadsAreReal'
<1> SUFFICES ASSUME WindowInv, FloodsAreReal, SpreadsAreReal, [WNext]_wvars
             PROVE  FloodsAreReal' /\ SpreadsAreReal'
  OBVIOUS
<1>1. CASE \E w \in Workers : Analyze(w)
  BY <1>1, FloodsTold, SpreadsTold
<1>2. CASE UNCHANGED <<seen, newest, verdict>>
  BY <1>2, VerdictKept
<1> QED
  BY <1>1, <1>2 DEF WNext, Clock, Clean, Arrive, wvars

\* A flood alert tells the rate of the last window, up to the lag of a handler: raised if
\* the packets that every worker would count suffice, and only if those that some could do.
THEOREM FloodAlertsSound == WindowSpec => []FloodsAreReal
BY WInitInv, WNextInv, VerdictInit, VerdictNext, PTL DEF WindowSpec

\* An alert on a number of distinct ports, hosts or clients counts those met in its window,
\* up to the lag of a handler.
THEOREM SpreadAlertsSound == WindowSpec => []SpreadsAreReal
BY WInitInv, WNextInv, VerdictInit, VerdictNext, PTL DEF WindowSpec

-------------------------------------------------------------------------------
(* Types *)

\* A packet is of a kind that feeds "packet", so that this family has counted the most, and
\* what it counted and what is in hand is within the bound.
InHand == {w \in Workers : job[w] # NoPacket}
CountedAll(f) == Counted(f, Readings)
BudgetInv ==
    /\ IsFiniteSet(InHand)
    /\ \A f \in Families : "packet" \in Families /\ CountedAll(f) <= CountedAll("packet")
    /\ "packet" \in Families => CountedAll("packet") + Cardinality(InHand) <= MaxPackets

AlertsOK == lastScan \in Readings \cup {Never} /\ verdict.alerts \subseteq DOMAIN Threshold

\* Times not after the clock.
LEMMA UpToNow ==
    WindowsTyped => \A t \in Readings : t <= now => t \in 0..now
<1> SUFFICES ASSUME WindowsTyped, NEW t \in Readings, t <= now
             PROVE  t \in 0..now
  OBVIOUS
<1>1. t \in Nat /\ now \in Nat
  BY ReadingsAreNumbers DEF WindowsTyped
<1> QED
  BY <1>1

\* How many packets a family counted.
LEMMA AllTyped ==
    ASSUME WindowsTyped
    PROVE  /\ \A f \in Families : CountedAll(f) \in Int
           /\ "packet" \in Families => SumFunction(seen["packet"]) = CountedAll("packet")
<1>1. \A f \in Families : seen[f] \in [Readings -> Nat]
  BY DEF WindowsTyped
<1>2. \A f \in Families : CountedAll(f) \in Int
  BY <1>1, SumType DEF CountedAll, Counted
<1>3. "packet" \in Families => DOMAIN seen["packet"] = Readings
  BY <1>1
<1> QED
  BY <1>2, <1>3 DEF CountedAll, Counted, SumFunction

\* Where there are lists, there is the one every packet enters.
LEMMA FamiliesOf ==
    /\ \A k \in Kinds : "packet" \in Families
    /\ \A f \in Families : "packet" \in Families
<1>1. \A k \in Kinds : "packet" \in Feeds(k)
  BY DEF Feeds
<1> QED
  BY <1>1 DEF Families

LEMMA BudgetInit == WInit => BudgetInv /\ AlertsOK
<1> SUFFICES ASSUME WInit
             PROVE  BudgetInv /\ AlertsOK
  OBVIOUS
<1>1. InHand = {}
  BY DEF WInit, InHand
<1>2. IsFiniteSet(InHand) /\ Cardinality(InHand) = 0
  BY <1>1, FS_EmptySet
<1>3. \A f \in Families : CountedAll(f) = 0
  <2> TAKE f \in Families
  <2>1. \A t \in Readings : seen[f][t] = 0
    BY DEF WInit
  <2> QED
    BY <2>1, SumOfNothing DEF CountedAll, Counted
<1>4. BudgetInv
  <2>1. \A f \in Families : "packet" \in Families /\ CountedAll(f) <= CountedAll("packet")
    BY <1>3, FamiliesOf
  <2>2. "packet" \in Families => CountedAll("packet") + Cardinality(InHand) <= MaxPackets
    BY <1>2, <1>3, WindowsAssumption
  <2> QED
    BY <1>2, <2>1, <2>2 DEF BudgetInv
<1>5. AlertsOK
  BY DEF WInit, AlertsOK
<1> QED
  BY <1>4, <1>5

LEMMA BudgetKept ==
    ASSUME BudgetInv, UNCHANGED <<seen, job>>
    PROVE  BudgetInv'
BY DEF BudgetInv, CountedAll, Counted, InHand

\* A packet is taken only within the bound.
LEMMA BudgetArrive ==
    ASSUME WindowsTyped, BudgetInv, NEW w \in Workers, Arrive(w)
    PROVE  BudgetInv'
<1>1. PICK k \in Kinds, key \in Keys : job' = [job EXCEPT ![w] = [kind |-> k, key |-> key, cur |-> now]]
  BY DEF Arrive
<1>2. job[w] = NoPacket /\ Taken < MaxPackets /\ UNCHANGED seen /\ "packet" \in Families
  BY <1>1, FamiliesOf DEF Arrive
<1>3. w \notin InHand /\ InHand' \subseteq InHand \cup {w}
  <2>1. \A v \in Workers : v # w => job'[v] = job[v]
    BY <1>1 DEF WindowsTyped
  <2> QED
    BY <1>2, <2>1 DEF InHand
<1>4. IsFiniteSet(InHand) /\ Cardinality(InHand) \in Nat
  BY FS_CardinalityType DEF BudgetInv
<1>5. IsFiniteSet(InHand \cup {w}) /\ Cardinality(InHand \cup {w}) = Cardinality(InHand) + 1
  BY <1>3, <1>4, FS_AddElement
<1>6. IsFiniteSet(InHand') /\ Cardinality(InHand') <= Cardinality(InHand) + 1 /\ Cardinality(InHand') \in Nat
  BY <1>3, <1>5, FS_Subset, FS_CardinalityType
<1>7. Taken = CountedAll("packet") + Cardinality(InHand) /\ CountedAll("packet") \in Int
  BY <1>2, AllTyped DEF Taken, InHand
<1>8. \A f : CountedAll(f)' = CountedAll(f)
  BY <1>2 DEF CountedAll, Counted
<1>9. CountedAll("packet") + Cardinality(InHand') <= MaxPackets
  BY <1>2, <1>4, <1>6, <1>7, WindowsAssumption
<1> QED
  BY <1>6, <1>8, <1>9 DEF BudgetInv

\* A packet that was in hand is counted, in every family at most as often as in "packet".
LEMMA BudgetAnalyze ==
    ASSUME WindowsTyped, BudgetInv, NEW w \in Workers, Analyze(w)
    PROVE  BudgetInv'
<1> PICK p : p = job[w]
  OBVIOUS
<1>1. p.kind \in Kinds /\ "packet" \in Feeds(p.kind) /\ p.cur \in Readings /\ "packet" \in Families
  BY AnalyzeMoves, FamiliesOf
<1>2. /\ seen' = [f \in Families |-> IF f \in Feeds(p.kind) THEN [seen[f] EXCEPT ![p.cur] = @ + 1] ELSE seen[f]]
      /\ job[w] # NoPacket /\ job' = [job EXCEPT ![w] = NoPacket]
  BY DEF Analyze
<1>3. ASSUME NEW f \in Families
      PROVE  CountedAll(f)' = CountedAll(f) + (IF f \in Feeds(p.kind) THEN 1 ELSE 0)
  <2>1. seen[f] \in [Readings -> Nat] /\ CountedAll(f) \in Int
    BY AllTyped DEF WindowsTyped
  <2>2. CASE f \in Feeds(p.kind)
    <3>1. seen'[f] = [seen[f] EXCEPT ![p.cur] = @ + 1]
      BY <1>2, <2>2
    <3>2. SumFunctionOnSet(seen'[f], Readings) = SumFunctionOnSet(seen[f], Readings) + 1
      BY <1>1, <2>1, <3>1, SumOfOneMore
    <3> QED
      BY <2>2, <3>2 DEF CountedAll, Counted
  <2>3. CASE f \notin Feeds(p.kind)
    <3>1. seen'[f] = seen[f]
      BY <1>2, <2>3
    <3>2. CountedAll(f)' = CountedAll(f)
      BY <3>1 DEF CountedAll, Counted
    <3> QED
      BY <2>1, <2>3, <3>2
  <2> QED
    BY <2>2, <2>3
<1>4. /\ InHand' = InHand \ {w} /\ w \in InHand
  <2>1. job'[w] = NoPacket /\ \A v \in Workers : v # w => job'[v] = job[v]
    BY <1>2 DEF WindowsTyped
  <2> QED
    BY <1>2, <2>1 DEF InHand
<1>5. IsFiniteSet(InHand) /\ Cardinality(InHand) \in Nat
  BY FS_CardinalityType DEF BudgetInv
<1>6. IsFiniteSet(InHand') /\ Cardinality(InHand') = Cardinality(InHand) - 1
  BY <1>4, <1>5, FS_RemoveElement
<1>7. \A f \in Families : CountedAll(f) \in Int /\ CountedAll(f) <= CountedAll("packet")
  BY AllTyped DEF BudgetInv
<1>8. \A f \in Families : CountedAll(f)' <= CountedAll("packet")'
  <2> TAKE f \in Families
  <2>1. CountedAll("packet")' = CountedAll("packet") + 1
    BY <1>1, <1>3
  <2>2. CountedAll(f)' \in {CountedAll(f), CountedAll(f) + 1}
    BY <1>3, <1>7
  <2> QED
    BY <1>1, <1>7, <2>1, <2>2
<1>9. CountedAll("packet")' + Cardinality(InHand') <= MaxPackets
  <2>1. CountedAll("packet") + Cardinality(InHand) <= MaxPackets
    BY <1>1 DEF BudgetInv
  <2>2. CountedAll("packet")' = CountedAll("packet") + 1 /\ CountedAll("packet") \in Int
    BY <1>1, <1>3, <1>7
  <2>3. \A a, b \in Int : (a + 1) + (b - 1) = a + b
    OBVIOUS
  <2> QED
    BY <1>5, <1>6, <2>1, <2>2, <2>3
<1> QED
  BY <1>1, <1>6, <1>8, <1>9 DEF BudgetInv

\* An alert is one of the rules that have a threshold.
LEMMA AlertsNamed ==
    ASSUME NEW kind, NEW lists, NEW maps, NEW cur
    PROVE  Alerts(kind, lists, maps, cur) \subseteq DOMAIN Threshold
<1>1. DOMAIN Threshold = DOMAIN RateRules \cup DOMAIN MapRules \cup {"NET-SYN-001", "NET-DOS-001"}
  BY ThresholdAssumption, Zenon
<1>2. Alerts(kind, lists, maps, cur)
         \subseteq DOMAIN RateRules \cup DOMAIN MapRules \cup {"NET-SYN-001", "NET-DOS-001"}
  BY Zenon DEF Alerts
<1> QED
  BY <1>1, <1>2

LEMMA AlertsStep ==
    ASSUME WindowsTyped, AlertsOK, [WNext]_wvars
    PROVE  AlertsOK'
<1>1. CASE \E w \in Workers : Analyze(w)
  <2> PICK w \in Workers : Analyze(w)
    BY <1>1
  <2>1. job[w].cur \in Readings
    BY AnalyzeMoves
  <2>2. lastScan' \in {job[w].cur, lastScan}
    BY DEF Analyze
  <2>3. verdict'.alerts = Alerts(job[w].kind, stamps', touched', job[w].cur)
    BY Zenon DEF Analyze
  <2> QED
    BY <2>1, <2>2, <2>3, AlertsNamed DEF AlertsOK
<1>2. CASE UNCHANGED verdict /\ lastScan' \in {lastScan, Never}
  BY <1>2 DEF AlertsOK
<1> QED
  BY <1>1, <1>2 DEF WNext, Clock, Clean, Arrive, wvars

LEMMA BudgetNext == WindowInv /\ BudgetInv /\ AlertsOK /\ [WNext]_wvars => BudgetInv' /\ AlertsOK'
<1> SUFFICES ASSUME WindowInv, BudgetInv, AlertsOK, [WNext]_wvars
             PROVE  BudgetInv' /\ AlertsOK'
  OBVIOUS
<1>1. WindowsTyped
  BY DEF WindowInv
<1>2. BudgetInv'
  <2>1. ASSUME NEW w \in Workers, Arrive(w) PROVE BudgetInv'
    BY <1>1, <2>1, BudgetArrive
  <2>2. ASSUME NEW w \in Workers, Analyze(w) PROVE BudgetInv'
    BY <1>1, <2>2, BudgetAnalyze
  <2>3. CASE UNCHANGED <<seen, job>>
    BY <2>3, BudgetKept
  <2> QED
    BY <2>1, <2>2, <2>3 DEF WNext, Clock, Clean, wvars
<1> QED
  BY <1>1, <1>2, AlertsStep

\* A list is no longer than its family was counted.
LEMMA ListsBounded ==
    ASSUME WindowInv, BudgetInv, NEW f \in Families
    PROVE  stamps[f] \in BoundedSeq(0..now, MaxPackets)
<1>1. WindowsTyped /\ ListsCount
  BY DEF WindowInv
<1> PICK s : s = stamps[f]
  OBVIOUS
<1>2. s \in Seq(Readings) /\ Len(s) \in Nat /\ \A i \in 1..Len(s) : s[i] \in Readings /\ s[i] <= now
  BY <1>1, StampsAreNumbers DEF WindowsTyped
<1>3. CountIn(s, Readings) = Len(s)
  <2>1. {i \in 1..Len(s) : s[i] \in Readings} = 1..Len(s)
    BY <1>2
  <2>2. \A n \in Nat : Cardinality(1..n) = n
    BY FS_Interval
  <2> QED
    BY <1>2, <2>1, <2>2, Zenon DEF CountIn
<1>4. CountIn(s, Readings) <= CountedAll(f)
  BY <1>1 DEF ListsCount, CountedAll
<1>5. CountedAll(f) \in Int /\ CountedAll("packet") \in Int /\ Cardinality(InHand) \in Nat /\ MaxPackets \in Nat
  BY <1>1, AllTyped, FS_CardinalityType, WindowsAssumption DEF BudgetInv
<1>6. CountedAll(f) <= CountedAll("packet") /\ CountedAll("packet") + Cardinality(InHand) <= MaxPackets
  BY DEF BudgetInv
<1>7. Len(s) <= MaxPackets
  BY <1>2, <1>3, <1>4, <1>5, <1>6
<1>8. \A i \in 1..Len(s) : s[i] \in 0..now
  BY <1>1, <1>2, UpToNow
<1>9. s \in [1..Len(s) -> 0..now] /\ Len(s) \in 0..MaxPackets
  BY <1>2, <1>5, <1>7, <1>8
<1> QED
  BY <1>9 DEF BoundedSeq, SeqOf

\* No list holds more stamps than packets came, none is later than the clock, and an alert
\* is one of the rules.
THEOREM RatesTypeCorrect == WindowSpec => []RateTypeOK
<1>1. WInit => WindowInv /\ BudgetInv /\ AlertsOK
  BY WInitInv, BudgetInit
<1>2. WindowInv /\ BudgetInv /\ AlertsOK /\ [WNext]_wvars => (WindowInv /\ BudgetInv /\ AlertsOK)'
  BY WNextInv, BudgetNext
<1>3. WindowInv /\ BudgetInv /\ AlertsOK => RateTypeOK
  <2> SUFFICES ASSUME WindowInv, BudgetInv, AlertsOK
               PROVE  RateTypeOK
    OBVIOUS
  <2>1. WindowsTyped
    BY DEF WindowInv
  <2>2. job \in [Workers -> [kind : Kinds, key : Keys, cur : 0..now] \cup {NoPacket}]
    <3>1. ASSUME NEW w \in Workers, job[w] # NoPacket
          PROVE  job[w] \in [kind : Kinds, key : Keys, cur : 0..now]
      <4>1. job[w] \in [kind : Kinds, key : Keys, cur : Readings] /\ job[w].cur <= now /\ job[w].cur >= 0
        BY <2>1, <3>1, JobsTyped DEF WindowsTyped
      <4>2. job[w].cur \in 0..now
        BY <2>1, <4>1, UpToNow
      <4> QED
        BY <4>1, <4>2
    <3>2. DOMAIN job = Workers /\ job = [w \in Workers |-> job[w]]
      BY <2>1 DEF WindowsTyped
    <3> QED
      BY <3>1, <3>2
  <2>3. stamps \in [Families -> BoundedSeq(0..now, MaxPackets)]
    <3>1. stamps = [f \in Families |-> stamps[f]]
      BY <2>1 DEF WindowsTyped
    <3> QED
      BY <3>1, ListsBounded
  <2> QED
    BY <2>1, <2>2, <2>3 DEF RateTypeOK, AlertsOK, WindowsTyped
<1> QED
  BY <1>1, <1>2, <1>3, PTL DEF WindowSpec
================================================================================
