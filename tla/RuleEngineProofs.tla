--------------------------- MODULE RuleEngineProofs ---------------------------
(***************************************************************************)
(* The rule engine reports what the rules say: proofs about RuleEngine.    *)
(*                                                                         *)
(* A node of the trie is a word; a search is in the node of the longest    *)
(* suffix in the trie of what was read: the failure links lead through the *)
(* suffixes, longest first, and the outputs of a node are the patterns that *)
(* end there. The automata are those of the first contents of the rules,   *)
(* which is why the prefilter loses no rule; and the contents of a rule are *)
(* what its options say, which is why the rules it evaluates are right.    *)
(***************************************************************************)
EXTENDS RuleEngine, BasicLemmas, FiniteSetTheorems, SequenceTheorems, TLAPS

-------------------------------------------------------------------------------
(* Words, their suffixes, and the longest one in a trie *)

Words == Seq(Bytes)

\* s is a suffix of t.
EndsWith(t, s) == Len(s) <= Len(t) /\ \A i \in 1..Len(s) : s[i] = t[Len(t) - Len(s) + i]

\* A set of words with the words that lead to them.
IsTrie(W) == W \subseteq Words /\ Root \in W /\ \A w \in W : w # Root => Front(w) \in W

\* The longest suffix of t in W, and the longest that is not t.
IsLongest(W, t, s) == s \in W /\ EndsWith(t, s) /\ \A r \in W : EndsWith(t, r) => Len(r) <= Len(s)
IsFail(W, t, s) ==
    /\ s \in W /\ EndsWith(t, s) /\ Len(s) < Len(t)
    /\ \A r \in W : EndsWith(t, r) /\ Len(r) < Len(t) => Len(r) <= Len(s)

\* What a byte at the end makes of a word.
LEMMA OneByteMore ==
    ASSUME NEW w \in Words, NEW b \in Bytes
    PROVE  /\ Append(w, b) \in Words /\ Len(Append(w, b)) = Len(w) + 1 /\ Append(w, b)[Len(w) + 1] = b
           /\ \A i \in 1..Len(w) : Append(w, b)[i] = w[i]
           /\ Append(w, b) # Root /\ Len(w) \in Nat
BY DEF Words, Root

\* A word is its front and its last byte.
LEMMA WithoutLast ==
    ASSUME NEW w \in Words, w # Root
    PROVE  /\ Front(w) \in Words /\ Last(w) \in Bytes /\ Append(Front(w), Last(w)) = w
           /\ Len(Front(w)) = Len(w) - 1 /\ Len(w) \in Nat /\ Len(w) > 0
           /\ w[Len(w)] = Last(w) /\ \A i \in 1..(Len(w) - 1) : Front(w)[i] = w[i]
<1>1. Len(w) \in Nat /\ Len(w) > 0 /\ \A i \in 1..Len(w) : w[i] \in Bytes
  BY DEF Words, Root
<1>2. /\ Front(w) \in Words /\ Len(Front(w)) = Len(w) - 1
      /\ \A i \in 1..(Len(w) - 1) : Front(w)[i] = w[i]
  <2> PICK n : n = Len(w) - 1
    OBVIOUS
  <2>1. n \in Nat /\ n <= Len(w)
    BY <1>1
  <2>2. /\ SubSeq(w, 1, n) \in Words /\ Len(SubSeq(w, 1, n)) = n
        /\ \A i \in 1..n : SubSeq(w, 1, n)[i] = w[i]
    BY <1>1, <2>1, SubSeqProperties, SMTT(30) DEF Words
  <2> QED
    BY <2>2 DEF Front
<1>3. Last(w) = w[Len(w)] /\ Last(w) \in Bytes
  BY <1>1 DEF Last
<1> PICK v : v = Append(Front(w), Last(w))
  OBVIOUS
<1> PICK f : f = Front(w)
  OBVIOUS
<1> PICK b : b = Last(w)
  OBVIOUS
<1>a. v = Append(f, b) /\ f \in Words /\ b \in Bytes
  BY <1>2, <1>3
<1>b. /\ v \in Words /\ Len(v) = Len(f) + 1 /\ v[Len(f) + 1] = b
      /\ \A i \in 1..Len(f) : v[i] = f[i]
  BY <1>a, OneByteMore
<1>4. v \in Words /\ Len(v) = Len(w) /\ v[Len(w)] = w[Len(w)] /\ \A i \in 1..(Len(w) - 1) : v[i] = w[i]
  BY <1>1, <1>2, <1>3, <1>b
<1>5. \A i \in 1..Len(w) : v[i] = w[i]
  BY <1>1, <1>4
<1>6. v = w
  BY <1>4, <1>5, SeqEqual DEF Words
<1> QED
  BY <1>1, <1>2, <1>3, <1>6

LEMMA SuffixOfItself ==
    ASSUME NEW t \in Words
    PROVE  EndsWith(t, t) /\ EndsWith(t, Root)
<1>1. Len(t) \in Nat /\ Len(Root) = 0
  BY DEF Words, Root
<1> QED
  BY <1>1 DEF EndsWith

\* Of two suffixes of a word the shorter one is a suffix of the other.
LEMMA SuffixesNest ==
    ASSUME NEW t \in Words, NEW s \in Words, NEW r \in Words, EndsWith(t, s), EndsWith(t, r), Len(r) <= Len(s)
    PROVE  EndsWith(s, r)
<1>1. Len(t) \in Nat /\ Len(s) \in Nat /\ Len(r) \in Nat
  BY DEF Words
<1>2. ASSUME NEW i \in 1..Len(r) PROVE r[i] = s[Len(s) - Len(r) + i]
  <2> PICK j : j = Len(s) - Len(r) + i
    OBVIOUS
  <2>1. j \in 1..Len(s) /\ Len(t) - Len(s) + j = Len(t) - Len(r) + i
    BY <1>1
  <2>2. s[j] = t[Len(t) - Len(s) + j] /\ r[i] = t[Len(t) - Len(r) + i]
    BY <2>1 DEF EndsWith
  <2> QED
    BY <2>1, <2>2
<1> QED
  BY <1>2 DEF EndsWith

\* Of two suffixes of a word the shorter one is a suffix of the longer one.
LEMMA SuffixesChain ==
    ASSUME NEW t \in Words, NEW s \in Words, NEW r \in Words, EndsWith(t, s), EndsWith(s, r)
    PROVE  EndsWith(t, r)
<1>1. Len(t) \in Nat /\ Len(s) \in Nat /\ Len(r) \in Nat /\ Len(s) <= Len(t) /\ Len(r) <= Len(s)
  BY DEF Words, EndsWith
<1>2. ASSUME NEW i \in 1..Len(r) PROVE r[i] = t[Len(t) - Len(r) + i]
  <2> PICK j : j = Len(s) - Len(r) + i
    OBVIOUS
  <2>1. j \in 1..Len(s) /\ Len(t) - Len(s) + j = Len(t) - Len(r) + i
    BY <1>1
  <2>2. s[j] = t[Len(t) - Len(s) + j] /\ r[i] = s[j]
    BY <2>1 DEF EndsWith
  <2> QED
    BY <2>1, <2>2
<1> QED
  BY <1>1, <1>2 DEF EndsWith

LEMMA SameLength ==
    ASSUME NEW t \in Words, NEW s \in Words, EndsWith(t, s), Len(s) = Len(t)
    PROVE  s = t
<1>1. Len(t) \in Nat /\ \A i \in 1..Len(t) : s[i] = t[Len(t) - Len(s) + i]
  BY DEF EndsWith, Words
<1>2. \A i \in 1..Len(t) : s[i] = t[i]
  BY <1>1
<1> QED
  BY <1>2, SeqEqual DEF Words

\* The suffixes of a word that grows.
LEMMA SuffixOfMore ==
    ASSUME NEW t \in Words, NEW b \in Bytes, NEW s \in Words
    PROVE  EndsWith(Append(t, b), Append(s, b)) <=> EndsWith(t, s)
<1> PICK u : u = Append(t, b)
  OBVIOUS
<1> PICK v : v = Append(s, b)
  OBVIOUS
<1>1. /\ Len(u) = Len(t) + 1 /\ u[Len(t) + 1] = b /\ Len(t) \in Nat /\ \A i \in 1..Len(t) : u[i] = t[i]
      /\ Len(v) = Len(s) + 1 /\ v[Len(s) + 1] = b /\ Len(s) \in Nat /\ \A i \in 1..Len(s) : v[i] = s[i]
  BY OneByteMore
<1>2. ASSUME EndsWith(t, s) PROVE EndsWith(u, v)
  <2>1. Len(s) <= Len(t) /\ Len(v) <= Len(u)
    BY <1>1, <1>2 DEF EndsWith
  <2>2. ASSUME NEW i \in 1..Len(v) PROVE v[i] = u[Len(u) - Len(v) + i]
    <3>1. CASE i = Len(s) + 1
      <4>1. Len(u) - Len(v) + i = Len(t) + 1
        BY <1>1, <3>1
      <4> QED
        BY <1>1, <3>1, <4>1
    <3>2. CASE i # Len(s) + 1
      <4>1. i \in 1..Len(s) /\ Len(u) - Len(v) + i = Len(t) - Len(s) + i /\ Len(t) - Len(s) + i \in 1..Len(t)
        BY <1>1, <2>1, <3>2
      <4>2. s[i] = t[Len(t) - Len(s) + i]
        BY <1>2, <4>1 DEF EndsWith
      <4> QED
        BY <1>1, <4>1, <4>2
    <3> QED
      BY <3>1, <3>2
  <2> QED
    BY <2>1, <2>2 DEF EndsWith
<1>3. ASSUME EndsWith(u, v) PROVE EndsWith(t, s)
  <2>1. Len(s) <= Len(t)
    BY <1>1, <1>3 DEF EndsWith
  <2>2. ASSUME NEW i \in 1..Len(s) PROVE s[i] = t[Len(t) - Len(s) + i]
    <3>1. /\ i \in 1..Len(v) /\ Len(u) - Len(v) + i = Len(t) - Len(s) + i /\ Len(t) - Len(s) + i \in 1..Len(t)
      BY <1>1, <2>1
    <3>2. v[i] = u[Len(u) - Len(v) + i]
      BY <1>3, <3>1 DEF EndsWith
    <3> QED
      BY <1>1, <3>1, <3>2
  <2> QED
    BY <2>1, <2>2 DEF EndsWith
<1> QED
  BY <1>2, <1>3

LEMMA LastOfSuffix ==
    ASSUME NEW t \in Words, NEW b \in Bytes, NEW s \in Words, s # Root, EndsWith(Append(t, b), s)
    PROVE  s = Append(Front(s), b) /\ EndsWith(t, Front(s)) /\ Front(s) \in Words
<1> PICK u : u = Append(t, b)
  OBVIOUS
<1>1. Len(u) = Len(t) + 1 /\ u[Len(t) + 1] = b /\ Len(t) \in Nat
  BY OneByteMore
<1>2. Front(s) \in Words /\ Append(Front(s), Last(s)) = s /\ Len(s) \in Nat /\ Len(s) > 0 /\ s[Len(s)] = Last(s)
  BY WithoutLast
<1>3. Last(s) = b
  <2>1. s[Len(s)] = u[Len(u) - Len(s) + Len(s)]
    BY <1>2 DEF EndsWith
  <2>2. Len(u) - Len(s) + Len(s) = Len(t) + 1
    BY <1>1, <1>2
  <2> QED
    BY <1>1, <1>2, <2>1, <2>2
<1>4. EndsWith(t, Front(s))
  BY <1>2, <1>3, SuffixOfMore
<1> QED
  BY <1>2, <1>3, <1>4

\* Only one suffix of a word in a trie is the longest.
LEMMA OneLongest ==
    ASSUME NEW W, IsTrie(W), NEW t \in Words, NEW s, NEW r, IsLongest(W, t, s), IsLongest(W, t, r)
    PROVE  s = r
<1>1. s \in Words /\ r \in Words /\ EndsWith(t, s) /\ EndsWith(t, r)
  BY DEF IsTrie, IsLongest
<1>2. Len(s) \in Nat /\ Len(r) \in Nat /\ Len(r) <= Len(s) /\ Len(s) <= Len(r)
  BY <1>1 DEF IsLongest, Words
<1>3. Len(r) = Len(s)
  BY <1>2
<1>4. EndsWith(s, r)
  BY <1>1, <1>2, SuffixesNest
<1> QED
  BY <1>1, <1>3, <1>4, SameLength

LEMMA LongestExists ==
    ASSUME NEW W, IsTrie(W), NEW t \in Words
    PROVE  \E s : IsLongest(W, t, s)
<1> PICK L : L = {Len(r) : r \in {r \in W : EndsWith(t, r)}}
  OBVIOUS
<1>1. W \subseteq Words /\ Root \in W /\ Len(t) \in Int /\ \A r \in Words : Len(r) \in Int
  BY DEF IsTrie, Words
<1>2. L \subseteq Int /\ \A y \in L : y <= Len(t)
  BY <1>1 DEF EndsWith
<1>3. Len(Root) \in L
  BY <1>1, SuffixOfItself
<1>4. Max(L) \in L /\ \A y \in L : y <= Max(L)
  <2>1. L # {}
    BY <1>3
  <2> QED
    BY <1>1, <1>2, <2>1, MaxOf
<1>5. PICK s \in W : EndsWith(t, s) /\ Len(s) = Max(L)
  BY <1>4
<1>6. ASSUME NEW r \in W, EndsWith(t, r) PROVE Len(r) <= Len(s)
  BY <1>4, <1>5, <1>6
<1> QED
  BY <1>5, <1>6 DEF IsLongest

\* Every word but the empty one has a longest shorter suffix in a trie.
LEMMA FailExists ==
    ASSUME NEW W, IsTrie(W), NEW t \in Words, t # Root
    PROVE  \E s : IsFail(W, t, s)
<1> PICK L : L = {Len(r) : r \in {r \in W : EndsWith(t, r) /\ Len(r) < Len(t)}}
  OBVIOUS
<1>1. W \subseteq Words /\ Root \in W /\ Len(t) \in Int /\ \A r \in Words : Len(r) \in Int
  BY DEF IsTrie, Words
<1>2. L \subseteq Int /\ \A y \in L : y <= Len(t)
  BY <1>1 DEF EndsWith
<1>3. Len(Root) \in L
  <2>1. Len(Root) = 0 /\ Len(t) > 0
    BY DEF Root, Words
  <2> QED
    BY <1>1, <2>1, SuffixOfItself
<1>4. Max(L) \in L /\ \A y \in L : y <= Max(L)
  <2>1. L # {}
    BY <1>3
  <2> QED
    BY <1>1, <1>2, <2>1, MaxOf
<1>5. PICK s \in W : EndsWith(t, s) /\ Len(s) < Len(t) /\ Len(s) = Max(L)
  BY <1>4
<1>6. ASSUME NEW r \in W, EndsWith(t, r), Len(r) < Len(t) PROVE Len(r) <= Len(s)
  BY <1>4, <1>5, <1>6
<1> QED
  BY <1>5, <1>6 DEF IsFail

LEMMA OneFail ==
    ASSUME NEW W, IsTrie(W), NEW t \in Words, NEW s, NEW r, IsFail(W, t, s), IsFail(W, t, r)
    PROVE  s = r
<1>1. s \in Words /\ r \in Words /\ EndsWith(t, s) /\ EndsWith(t, r)
  BY DEF IsTrie, IsFail
<1>2. Len(s) \in Nat /\ Len(r) \in Nat /\ Len(r) <= Len(s) /\ Len(s) <= Len(r)
  BY <1>1 DEF IsFail, Words
<1>3. Len(r) = Len(s)
  BY <1>2
<1>4. EndsWith(s, r)
  BY <1>1, <1>2, SuffixesNest
<1> QED
  BY <1>1, <1>3, <1>4, SameLength

\* The longest suffix of a word that grows is found from a suffix of the word that
\* has all the others that matter.
Covers(W, t, f, b) == \A r \in W : EndsWith(t, r) /\ Append(r, b) \in W => EndsWith(f, r)

\* Where a byte leads: the longest suffix of the longer word is the first extension
\* on the way along the suffixes.
LEMMA LongestOfMore ==
    ASSUME NEW W, IsTrie(W), NEW t \in Words, NEW f \in Words, NEW b \in Bytes,
           EndsWith(t, f), Covers(W, t, f, b), NEW s, IsLongest(W, Append(f, b), s)
    PROVE  IsLongest(W, Append(t, b), s)
<1>1. s \in Words /\ s \in W /\ Append(t, b) \in Words /\ Append(f, b) \in Words /\ EndsWith(Append(f, b), s)
  BY OneByteMore DEF IsTrie, IsLongest
<1>2. EndsWith(Append(t, b), s)
  <2>1. EndsWith(Append(t, b), Append(f, b))
    BY SuffixOfMore
  <2> QED
    BY <1>1, <2>1, SuffixesChain
<1>3. ASSUME NEW r \in W, EndsWith(Append(t, b), r) PROVE Len(r) <= Len(s)
  <2>1. r \in Words
    BY DEF IsTrie
  <2>2. CASE r = Root
    <3>1. Len(r) = 0 /\ Len(s) \in Nat
      BY <1>1, <2>2 DEF Root, Words
    <3> QED
      BY <3>1
  <2>3. CASE r # Root
    <3>1. r = Append(Front(r), b) /\ EndsWith(t, Front(r)) /\ Front(r) \in Words
      BY <1>3, <2>1, <2>3, LastOfSuffix
    <3>2. Front(r) \in W
      BY <2>3 DEF IsTrie
    <3>3. EndsWith(f, Front(r))
      BY <3>1, <3>2 DEF Covers
    <3>4. EndsWith(Append(f, b), r)
      <4>1. EndsWith(Append(f, b), Append(Front(r), b))
        BY <3>1, <3>3, SuffixOfMore
      <4> QED
        BY <3>1, <4>1, Zenon
    <3> QED
      BY <3>4 DEF IsLongest
  <2> QED
    BY <2>2, <2>3
<1> QED
  BY <1>1, <1>2, <1>3 DEF IsLongest

-------------------------------------------------------------------------------
(* The automaton *)

\* The failure links of some nodes of the trie W.
LinksOf(W, fail) ==
    /\ fail \in [DOMAIN fail -> DOMAIN fail] /\ DOMAIN fail \subseteq W
    /\ \A n \in DOMAIN fail : n # Root => IsFail(W, n, fail[n])

\* One step of the way along the links.
LEMMA AlongLink ==
    ASSUME NEW W, IsTrie(W), NEW fail, LinksOf(W, fail), NEW b \in Bytes, NEW n \in DOMAIN fail
    PROVE  /\ Append(n, b) \in W => IsLongest(W, Append(n, b), Append(n, b))
           /\ Append(n, b) \notin W /\ n = Root => IsLongest(W, Append(n, b), Root)
           /\ \A s : Append(n, b) \notin W /\ n # Root /\ IsLongest(W, Append(fail[n], b), s)
                       => IsLongest(W, Append(n, b), s)
<1>1. n \in W /\ n \in Words /\ Append(n, b) \in Words
  BY OneByteMore DEF LinksOf, IsTrie
<1>2. ASSUME Append(n, b) \in W PROVE IsLongest(W, Append(n, b), Append(n, b))
  <2>1. EndsWith(Append(n, b), Append(n, b))
    BY <1>1, SuffixOfItself
  <2> QED
    BY <1>2, <2>1 DEF IsLongest, EndsWith
<1>3. ASSUME Append(n, b) \notin W, n = Root PROVE IsLongest(W, Append(n, b), Root)
  <2>1. Root \in W /\ EndsWith(Append(n, b), Root)
    BY <1>1, SuffixOfItself DEF IsTrie
  <2>2. ASSUME NEW r \in W, EndsWith(Append(n, b), r) PROVE Len(r) <= Len(Root)
    <3>1. r \in Words
      BY DEF IsTrie
    <3>2. CASE r = Root
      <4>1. Len(Root) = 0
        BY DEF Root
      <4> QED
        BY <3>2, <4>1
    <3>3. CASE r # Root
      <4>1. r = Append(Front(r), b) /\ EndsWith(n, Front(r)) /\ Front(r) \in Words
        BY <1>1, <2>2, <3>1, <3>3, LastOfSuffix
      <4>2. Front(r) = Root
        BY <1>3, <4>1 DEF EndsWith, Root, Words
      <4> QED
        BY <1>3, <4>1, <4>2
    <3> QED
      BY <3>2, <3>3
  <2> QED
    BY <2>1, <2>2 DEF IsLongest
<1>4. ASSUME NEW s, Append(n, b) \notin W, n # Root, IsLongest(W, Append(fail[n], b), s)
      PROVE  IsLongest(W, Append(n, b), s)
  <2> PICK f : f = fail[n]
    OBVIOUS
  <2>1. IsFail(W, n, f) /\ f \in Words /\ EndsWith(n, f)
    BY <1>4 DEF LinksOf, IsFail, IsTrie
  <2>2. Covers(W, n, f, b)
    <3> SUFFICES ASSUME NEW r \in W, EndsWith(n, r), Append(r, b) \in W PROVE EndsWith(f, r)
      BY DEF Covers
    <3>1. r \in Words
      BY DEF IsTrie
    <3>2. Len(r) # Len(n)
      BY <1>1, <1>4, <3>1, SameLength
    <3>3. Len(r) < Len(n)
      BY <1>1, <3>1, <3>2 DEF EndsWith, Words
    <3>4. Len(r) <= Len(f)
      BY <2>1, <3>3 DEF IsFail
    <3> QED
      BY <1>1, <2>1, <3>1, <3>4, SuffixesNest
  <2>3. IsLongest(W, Append(f, b), s)
    BY <1>4
  <2> QED
    BY <1>1, <2>1, <2>2, <2>3, LongestOfMore
<1> QED
  BY <1>2, <1>3, <1>4

\* What goto is: one function for every node.
GotoIs(W, fail, b, g) ==
    g = [n \in DOMAIN fail |->
           IF Append(n, b) \in W THEN Append(n, b) ELSE IF n = Root THEN Root ELSE g[fail[n]]]

\* The recursion of Goto goes to shorter words, so that it defines a function.
LEMMA GotoExists ==
    ASSUME NEW W, IsTrie(W), NEW fail, LinksOf(W, fail), NEW b \in Bytes
    PROVE  \E g : GotoIs(W, fail, b, g)
<1> DEFINE g == [n \in DOMAIN fail |-> CHOOSE s : IsLongest(W, Append(n, b), s)]
<1>1. \A n \in DOMAIN fail : n \in Words /\ Append(n, b) \in Words
  BY OneByteMore DEF LinksOf, IsTrie
<1>2. ASSUME NEW n \in DOMAIN fail PROVE IsLongest(W, Append(n, b), g[n])
  <2>1. \E s : IsLongest(W, Append(n, b), s)
    BY <1>1, LongestExists
  <2> QED
    BY <2>1
<1> HIDE DEF g
<1>3. ASSUME NEW n \in DOMAIN fail
      PROVE  g[n] = IF Append(n, b) \in W THEN Append(n, b) ELSE IF n = Root THEN Root ELSE g[fail[n]]
  <2> DEFINE v == IF Append(n, b) \in W THEN Append(n, b) ELSE IF n = Root THEN Root ELSE g[fail[n]]
  <2>1. fail[n] \in DOMAIN fail
    BY DEF LinksOf
  <2>2. IsLongest(W, Append(fail[n], b), g[fail[n]])
    BY <1>2, <2>1
  <2>3. IsLongest(W, Append(n, b), v)
    BY <2>2, AlongLink
  <2> HIDE DEF v
  <2>4. g[n] = v
    BY <1>1, <1>2, <2>3, OneLongest
  <2> QED
    BY <2>4 DEF v
<1>4. g = [n \in DOMAIN fail |-> g[n]]
  BY DEF g
<1>5. GotoIs(W, fail, b, g)
  BY <1>3, <1>4, Zenon DEF GotoIs
<1> QED
  BY <1>5

\* From a node of which the links are known, a byte leads to the longest suffix in the
\* trie of the word that is read then.
GoesToLongest(W, fail, b) == \A n \in DOMAIN fail : IsLongest(W, Append(n, b), Goto(W, fail, b)[n])

\* Goto takes a node that stands for the longest suffix of a word to the node of the
\* longer word.
LEMMA GotoLongest ==
    ASSUME NEW W, IsTrie(W), NEW fail, LinksOf(W, fail), NEW b \in Bytes
    PROVE  GoesToLongest(W, fail, b)
<1> DEFINE g == CHOOSE h : GotoIs(W, fail, b, h)
<1>1. Goto(W, fail, b) = g
  BY Zenon DEF Goto, GotoIs
<1>2. GotoIs(W, fail, b, g)
  BY GotoExists, Zenon
<1> HIDE DEF g
<1>3. \A n \in DOMAIN fail :
        g[n] = IF Append(n, b) \in W THEN Append(n, b) ELSE IF n = Root THEN Root ELSE g[fail[n]]
  BY <1>2, Zenon DEF GotoIs
<1>4. \A n \in DOMAIN fail : n \in Words /\ Len(n) \in Nat
  BY DEF LinksOf, IsTrie, Words
<1> DEFINE T == {k \in Nat : \A n \in DOMAIN fail : Len(n) <= k => IsLongest(W, Append(n, b), g[n])}
<1>5. ASSUME NEW n \in DOMAIN fail, n # Root => IsLongest(W, Append(fail[n], b), g[fail[n]])
      PROVE  IsLongest(W, Append(n, b), g[n])
  <2>1. CASE Append(n, b) \in W
    BY <1>3, <2>1, AlongLink
  <2>2. CASE Append(n, b) \notin W /\ n = Root
    BY <1>3, <2>2, AlongLink
  <2>3. CASE Append(n, b) \notin W /\ n # Root
    BY <1>3, <1>5, <2>3, AlongLink
  <2> QED
    BY <2>1, <2>2, <2>3
<1>6. 0 \in T
  <2> SUFFICES ASSUME NEW n \in DOMAIN fail, Len(n) <= 0 PROVE IsLongest(W, Append(n, b), g[n])
    OBVIOUS
  <2>1. n = Root
    BY <1>4 DEF Root, Words
  <2> QED
    BY <1>5, <2>1
<1>7. \A k \in Nat : k \in T => k + 1 \in T
  <2> SUFFICES ASSUME NEW k \in Nat, k \in T, NEW n \in DOMAIN fail, Len(n) <= k + 1
               PROVE  IsLongest(W, Append(n, b), g[n])
    OBVIOUS
  <2>1. ASSUME n # Root PROVE IsLongest(W, Append(fail[n], b), g[fail[n]])
    <3>1. fail[n] \in DOMAIN fail /\ Len(fail[n]) < Len(n)
      BY <2>1 DEF LinksOf, IsFail
    <3>2. Len(fail[n]) <= k
      BY <1>4, <3>1
    <3> QED
      BY <3>1, <3>2
  <2> HIDE DEF T
  <2> QED
    BY <1>5, <2>1
<1>8. Nat \subseteq T
  <2> HIDE DEF T
  <2> QED
    BY <1>6, <1>7, Induction
<1>9. ASSUME NEW n \in DOMAIN fail PROVE IsLongest(W, Append(n, b), g[n])
  <2>1. Len(n) \in T /\ Len(n) <= Len(n)
    BY <1>4, <1>8
  <2> QED
    BY <2>1
<1> QED
  BY <1>1, <1>9 DEF GoesToLongest

LEMMA PrefixOf ==
    ASSUME NEW p \in Words, NEW i \in 0..Len(p)
    PROVE  /\ SubSeq(p, 1, i) \in Words /\ Len(SubSeq(p, 1, i)) = i
           /\ \A j \in 1..i : SubSeq(p, 1, i)[j] = p[j]
<1>1. Len(p) \in Nat /\ i \in Nat /\ i <= Len(p) /\ \A j \in 1..i : p[j] \in Bytes
  BY DEF Words
<1>2. CASE i = 0
  BY <1>1, <1>2, SubSeqProperties DEF Words
<1>3. CASE i # 0
  BY <1>1, <1>3, SubSeqProperties, SMTT(30) DEF Words
<1> QED
  BY <1>2, <1>3

LEMMA NextPrefix ==
    ASSUME NEW p \in Words, NEW i \in 0..Len(p), i # 0
    PROVE  SubSeq(p, 1, i) = Append(SubSeq(p, 1, i - 1), p[i]) /\ Front(SubSeq(p, 1, i)) = SubSeq(p, 1, i - 1)
<1> PICK v : v = SubSeq(p, 1, i)
  OBVIOUS
<1> PICK u : u = SubSeq(p, 1, i - 1)
  OBVIOUS
<1> PICK f : f = Front(v)
  OBVIOUS
<1>1. i \in Nat /\ i - 1 \in 0..Len(p) /\ Len(p) \in Nat /\ i \in 1..Len(p) /\ p[i] \in Bytes
  BY DEF Words
<1>2. v \in Words /\ Len(v) = i /\ \A j \in 1..i : v[j] = p[j]
  BY PrefixOf
<1>3. u \in Words /\ Len(u) = i - 1 /\ \A j \in 1..(i - 1) : u[j] = p[j]
  BY <1>1, PrefixOf
<1>4. v # Root
  BY <1>1, <1>2 DEF Root
<1>5. /\ f \in Words /\ Last(v) \in Bytes /\ Append(f, Last(v)) = v /\ Len(f) = i - 1
      /\ v[i] = Last(v) /\ \A j \in 1..(i - 1) : f[j] = v[j]
  BY <1>2, <1>4, WithoutLast
<1>6. \A j \in 1..(i - 1) : f[j] = u[j]
  BY <1>1, <1>2, <1>3, <1>5
<1>7. f = u
  BY <1>3, <1>5, <1>6, SeqEqual DEF Words
<1>8. Last(v) = p[i]
  BY <1>1, <1>2, <1>5
<1> QED
  BY <1>5, <1>7, <1>8

\* The words of the trie are the prefixes of the patterns.
LEMMA TrieHas ==
    ASSUME NEW patterns
    PROVE  \A w : w \in Trie(patterns)
                   <=> w = Root \/ \E id \in DOMAIN patterns : \E i \in 0..Len(patterns[id]) : w = SubSeq(patterns[id], 1, i)
<1> DEFINE Of(p) == {SubSeq(p, 1, i) : i \in 0..Len(p)}
<1>1. \A w, p : w \in Of(p) <=> \E i \in 0..Len(p) : w = SubSeq(p, 1, i)
  OBVIOUS
<1>2. \A w : w \in Trie(patterns) <=> w = Root \/ w \in UNION {Of(p) : p \in Range(patterns)}
  BY DEF Trie
<1> HIDE DEF Of
<1>3. \A w : w \in UNION {Of(p) : p \in Range(patterns)} <=> \E id \in DOMAIN patterns : w \in Of(patterns[id])
  BY Zenon DEF Range
<1> TAKE w
<1>4. (\E id \in DOMAIN patterns : w \in Of(patterns[id]))
        <=> \E id \in DOMAIN patterns : \E i \in 0..Len(patterns[id]) : w = SubSeq(patterns[id], 1, i)
  BY <1>1
<1>5. w \in Trie(patterns) <=> w = Root \/ \E id \in DOMAIN patterns : w \in Of(patterns[id])
  BY <1>2, <1>3
<1> QED
  BY <1>4, <1>5, Zenon

LEMMA TrieIsTrie ==
    ASSUME NEW patterns \in Seq(Words)
    PROVE  IsTrie(Trie(patterns)) /\ \A id \in DOMAIN patterns : patterns[id] \in Trie(patterns)
<1> PICK W : W = Trie(patterns)
  OBVIOUS
<1>1. \A w : w \in W <=> w = Root \/ \E id \in DOMAIN patterns : \E i \in 0..Len(patterns[id]) : w = SubSeq(patterns[id], 1, i)
  BY TrieHas, Zenon
<1>2. \A id \in DOMAIN patterns : patterns[id] \in Words
  OBVIOUS
<1>3. ASSUME NEW w \in W PROVE w \in Words
  <2>1. CASE w = Root
    BY <2>1 DEF Root, Words
  <2>2. CASE w # Root
    <3>1. PICK id \in DOMAIN patterns : \E i \in 0..Len(patterns[id]) : w = SubSeq(patterns[id], 1, i)
      BY <1>1, <2>2
    <3> QED
      BY <1>2, <3>1, PrefixOf
  <2> QED
    BY <2>1, <2>2
<1>4. ASSUME NEW w \in W, w # Root PROVE Front(w) \in W
  <2>1. PICK id \in DOMAIN patterns : \E i \in 0..Len(patterns[id]) : w = SubSeq(patterns[id], 1, i)
    BY <1>1, <1>4
  <2> PICK p : p = patterns[id]
    OBVIOUS
  <2>2. PICK i \in 0..Len(p) : w = SubSeq(p, 1, i)
    BY <2>1
  <2>3. p \in Words
    BY <1>2
  <2>4. i # 0
    <3> SUFFICES ASSUME i = 0 PROVE FALSE
      OBVIOUS
    <3>1. Len(w) = 0 /\ w \in Words
      BY <2>2, <2>3, PrefixOf
    <3> QED
      BY <1>4, <3>1 DEF Words, Root
  <2>5. Front(w) = SubSeq(p, 1, i - 1) /\ i - 1 \in 0..Len(p)
    BY <2>2, <2>3, <2>4, NextPrefix
  <2> QED
    BY <1>1, <2>5
<1>5. ASSUME NEW id \in DOMAIN patterns PROVE patterns[id] \in W
  <2> PICK p : p = patterns[id]
    OBVIOUS
  <2>1. p \in Words /\ Len(p) \in 0..Len(p)
    BY <1>2 DEF Words
  <2>2. SubSeq(p, 1, Len(p)) = p
    <3>1. /\ SubSeq(p, 1, Len(p)) \in Words /\ Len(SubSeq(p, 1, Len(p))) = Len(p)
          /\ \A j \in 1..Len(p) : SubSeq(p, 1, Len(p))[j] = p[j]
      BY <2>1, PrefixOf
    <3> QED
      BY <2>1, <3>1, SeqEqual DEF Words
  <2> QED
    BY <1>1, <2>1, <2>2
<1>6. Root \in W
  BY <1>1
<1> QED
  BY <1>3, <1>4, <1>5, <1>6 DEF IsTrie

\* The words of a trie have a greatest length.
LEMMA TrieIsShallow ==
    ASSUME NEW patterns \in Seq(Words)
    PROVE  LET depth == Max({Len(n) : n \in Trie(patterns)})
           IN  depth \in Nat /\ \A n \in Trie(patterns) : Len(n) <= depth
<1> PICK W : W = Trie(patterns)
  OBVIOUS
<1> PICK L : L = {Len(n) : n \in W}
  OBVIOUS
<1> DEFINE Bounded(k) == \E m \in Nat : \A id \in 1..k : Len(patterns[id]) <= m
           T == {k \in Nat : k <= Len(patterns) => Bounded(k)}
<1>1. Len(patterns) \in Nat /\ DOMAIN patterns = 1..Len(patterns) /\ \A id \in DOMAIN patterns : patterns[id] \in Words
  OBVIOUS
<1>2. Bounded(0)
  OBVIOUS
<1>3. ASSUME NEW k \in Nat, k + 1 <= Len(patterns), Bounded(k) PROVE Bounded(k + 1)
  <2>1. PICK m \in Nat : \A id \in 1..k : Len(patterns[id]) <= m
    BY <1>3
  <2> PICK l : l = Len(patterns[k + 1])
    OBVIOUS
  <2>2. l \in Nat /\ \A id \in 1..k : Len(patterns[id]) \in Nat
    BY <1>1, <1>3 DEF Words
  <2>3. m + l \in Nat /\ \A id \in 1..(k + 1) : Len(patterns[id]) <= m + l
    <3>1. \A id \in 1..(k + 1) : id \in 1..k \/ id = k + 1
      OBVIOUS
    <3> QED
      BY <2>1, <2>2, <3>1
  <2> QED
    BY <2>3
<1> HIDE DEF Bounded
<1>4. Nat \subseteq T
  <2>1. 0 \in T
    BY <1>2
  <2>2. \A k \in Nat : k \in T => k + 1 \in T
    BY <1>1, <1>3
  <2> HIDE DEF T
  <2> QED
    BY <2>1, <2>2, Induction
<1>5. PICK m \in Nat : \A id \in DOMAIN patterns : Len(patterns[id]) <= m
  <2>1. Bounded(Len(patterns))
    BY <1>1, <1>4
  <2> QED
    BY <1>1, <2>1 DEF Bounded
<1>6. ASSUME NEW w \in W PROVE Len(w) \in Nat /\ Len(w) <= m
  <2>1. w = Root \/ \E id \in DOMAIN patterns : \E i \in 0..Len(patterns[id]) : w = SubSeq(patterns[id], 1, i)
    BY TrieHas, Zenon
  <2>2. CASE w = Root
    BY <2>2 DEF Root
  <2>3. CASE w # Root
    <3>1. PICK id \in DOMAIN patterns : \E i \in 0..Len(patterns[id]) : w = SubSeq(patterns[id], 1, i)
      BY <2>1, <2>3
    <3> PICK p : p = patterns[id]
      OBVIOUS
    <3>2. PICK i \in 0..Len(p) : w = SubSeq(p, 1, i)
      BY <3>1
    <3>3. Len(w) = i
      BY <1>1, <3>2, PrefixOf
    <3>4. Len(p) \in Nat /\ Len(p) <= m
      BY <1>1, <1>5 DEF Words
    <3> QED
      BY <3>2, <3>3, <3>4
  <2> QED
    BY <2>2, <2>3
<1>7. L \subseteq Int /\ L \subseteq Nat /\ m \in Int /\ \A y \in L : y <= m
  BY <1>6
<1>8. L # {}
  BY TrieIsTrie DEF IsTrie
<1>9. Max(L) \in L /\ \A y \in L : y <= Max(L)
  BY <1>7, <1>8, MaxOf
<1> QED
  BY <1>7, <1>9

-------------------------------------------------------------------------------
(* Build *)

\* The automaton down to a depth.
Ends(patterns, n) == {id \in DOMAIN patterns : EndsWith(n, patterns[id])}
UpTo(W, depth) == {n \in W : Len(n) <= depth}
LinkOf(W, n) == IF n = Root THEN Root ELSE CHOOSE s : IsFail(W, n, s)
AutomatonUpTo(patterns, depth) ==
    [patterns |-> patterns,
     fail     |-> [n \in UpTo(Trie(patterns), depth) |-> LinkOf(Trie(patterns), n)],
     outputs  |-> [n \in UpTo(Trie(patterns), depth) |-> Ends(patterns, n)]]

NonEmpty(patterns) == \A id \in DOMAIN patterns : patterns[id] # Root

\* The failure link of a word is its longest shorter suffix in the trie.
LEMMA LinkIsFail ==
    ASSUME NEW W, IsTrie(W), NEW n \in W, n # Root
    PROVE  IsFail(W, n, LinkOf(W, n))
<1>1. n \in Words
  BY DEF IsTrie
<1>2. \E s : IsFail(W, n, s)
  BY <1>1, FailExists
<1> QED
  BY <1>2 DEF LinkOf

\* The links of the words up to some length lead to shorter ones, which have theirs.
LEMMA LinksUpTo ==
    ASSUME NEW W, IsTrie(W), NEW depth \in Nat, NEW fail, fail = [n \in UpTo(W, depth) |-> LinkOf(W, n)]
    PROVE  LinksOf(W, fail) /\ DOMAIN fail = UpTo(W, depth) /\ Root \in DOMAIN fail
<1>1. DOMAIN fail = UpTo(W, depth) /\ \A n \in UpTo(W, depth) : fail[n] = LinkOf(W, n)
  OBVIOUS
<1>2. \A n \in W : n \in Words /\ Len(n) \in Nat
  BY DEF IsTrie, Words
<1>3. Root \in UpTo(W, depth)
  <2>1. Root \in W /\ Len(Root) = 0
    BY DEF IsTrie, Root
  <2> QED
    BY <2>1 DEF UpTo
<1>4. ASSUME NEW n \in UpTo(W, depth), n # Root PROVE IsFail(W, n, fail[n]) /\ fail[n] \in UpTo(W, depth)
  <2>1. n \in W /\ Len(n) <= depth
    BY DEF UpTo
  <2>2. IsFail(W, n, fail[n])
    BY <1>1, <1>4, <2>1, LinkIsFail
  <2>3. fail[n] \in W /\ Len(fail[n]) < Len(n)
    BY <2>2 DEF IsFail
  <2>4. Len(fail[n]) <= depth
    BY <1>2, <2>1, <2>3
  <2> QED
    BY <2>2, <2>3, <2>4 DEF UpTo
<1>5. \A n \in UpTo(W, depth) : fail[n] \in UpTo(W, depth)
  BY <1>1, <1>3, <1>4 DEF LinkOf
<1>6. fail \in [UpTo(W, depth) -> UpTo(W, depth)]
  BY <1>5
<1>7. UpTo(W, depth) \subseteq W
  BY DEF UpTo
<1> QED
  BY <1>1, <1>3, <1>4, <1>6, <1>7 DEF LinksOf

\* The link of a node one level further down.
LEMMA NextLink ==
    ASSUME NEW W, IsTrie(W), NEW fail, LinksOf(W, fail), NEW n \in W, Front(n) \in DOMAIN fail,
           n # Root, Front(n) # Root
    PROVE  IsFail(W, n, Goto(W, fail, Last(n))[fail[Front(n)]])
<1> PICK u : u = Front(n)
  OBVIOUS
<1> PICK b : b = Last(n)
  OBVIOUS
<1> PICK f : f = fail[u]
  OBVIOUS
<1> PICK s : s = Goto(W, fail, b)[f]
  OBVIOUS
<1>1. n \in Words /\ u \in Words /\ b \in Bytes /\ Append(u, b) = n /\ Len(n) \in Nat /\ Len(u) = Len(n) - 1
  BY WithoutLast DEF IsTrie
<1>2. IsFail(W, u, f) /\ f \in DOMAIN fail /\ f \in Words /\ EndsWith(u, f) /\ Len(f) < Len(u) /\ Len(f) \in Nat
  BY DEF LinksOf, IsFail, IsTrie, Words
<1>3. IsLongest(W, Append(f, b), s)
  <2>1. GoesToLongest(W, fail, b)
    BY <1>1, GotoLongest
  <2> QED
    BY <1>2, <2>1 DEF GoesToLongest
<1>4. s \in W /\ s \in Words /\ EndsWith(Append(f, b), s) /\ Append(f, b) \in Words /\ Len(Append(f, b)) = Len(f) + 1
  BY <1>1, <1>2, <1>3, OneByteMore DEF IsLongest, IsTrie
<1>5. EndsWith(n, s)
  <2>1. EndsWith(Append(u, b), Append(f, b))
    BY <1>1, <1>2, SuffixOfMore
  <2>2. EndsWith(n, Append(f, b))
    BY <1>1, <2>1, Zenon
  <2> QED
    BY <1>1, <1>4, <2>2, SuffixesChain
<1>6. Len(s) < Len(n)
  <2>1. Len(s) <= Len(f) + 1 /\ Len(s) \in Nat
    BY <1>4 DEF EndsWith, Words
  <2> QED
    BY <1>1, <1>2, <2>1
<1>7. ASSUME NEW r \in W, EndsWith(n, r), Len(r) < Len(n) PROVE Len(r) <= Len(s)
  <2>1. r \in Words
    BY DEF IsTrie
  <2>2. CASE r = Root
    <3>1. Len(r) = 0 /\ Len(s) \in Nat
      BY <1>4, <2>2 DEF Root, Words
    <3> QED
      BY <3>1
  <2>3. CASE r # Root
    <3> PICK q : q = Front(r)
      OBVIOUS
    <3>1. r = Append(q, b) /\ EndsWith(u, q) /\ q \in Words
      BY <1>1, <1>7, <2>1, <2>3, LastOfSuffix
    <3>2. q \in W
      BY <2>3 DEF IsTrie
    <3>3. Len(r) = Len(q) + 1 /\ Len(q) \in Nat
      BY <1>1, <3>1, OneByteMore
    <3>4. Len(q) < Len(u)
      BY <1>1, <1>7, <3>3
    <3>5. Len(q) <= Len(f)
      BY <1>2, <3>1, <3>2, <3>4 DEF IsFail
    <3>6. EndsWith(f, q)
      BY <1>1, <1>2, <3>1, <3>5, SuffixesNest
    <3>7. EndsWith(Append(f, b), Append(q, b))
      BY <1>1, <1>2, <3>1, <3>6, SuffixOfMore
    <3>8. EndsWith(Append(f, b), r)
      BY <3>1, <3>7, Zenon
    <3> QED
      BY <1>3, <3>8 DEF IsLongest
  <2> QED
    BY <2>2, <2>3
<1> QED
  BY <1>4, <1>5, <1>6, <1>7 DEF IsFail

\* The outputs of a node are its own and those of its link.
LEMMA OutputsMerge ==
    ASSUME NEW patterns \in Seq(Words), NEW W, W = Trie(patterns), NEW n \in W, NEW f, IsFail(W, n, f)
    PROVE  Ends(patterns, n) = Own(patterns, n) \cup Ends(patterns, f)
<1>1. n \in Words /\ f \in Words /\ EndsWith(n, f) /\ Len(n) \in Nat
  BY TrieIsTrie DEF IsTrie, IsFail, Words
<1>2. \A id \in DOMAIN patterns : patterns[id] \in Words /\ patterns[id] \in W /\ Len(patterns[id]) \in Nat
  BY TrieIsTrie DEF Words
<1>3. ASSUME NEW id \in DOMAIN patterns, EndsWith(n, patterns[id]), patterns[id] # n PROVE EndsWith(f, patterns[id])
  <2> PICK p : p = patterns[id]
    OBVIOUS
  <2>1. Len(p) # Len(n) /\ Len(p) <= Len(n)
    BY <1>1, <1>2, <1>3, SameLength DEF EndsWith
  <2>2. Len(p) < Len(n)
    BY <1>1, <1>2, <2>1
  <2>3. Len(p) <= Len(f)
    BY <1>2, <1>3, <2>2 DEF IsFail
  <2> QED
    BY <1>1, <1>2, <1>3, <2>3, SuffixesNest
<1>4. ASSUME NEW id \in DOMAIN patterns, EndsWith(f, patterns[id]) PROVE EndsWith(n, patterns[id])
  BY <1>1, <1>2, <1>4, SuffixesChain
<1>5. EndsWith(n, n)
  BY <1>1, SuffixOfItself
<1> QED
  BY <1>3, <1>4, <1>5 DEF Ends, Own

\* Linking a level.
LEMMA LinkLevelGives ==
    ASSUME NEW patterns \in Seq(Words), NEW depth \in Nat, depth > 0
    PROVE  LinkLevel(AutomatonUpTo(patterns, depth - 1), Trie(patterns), depth) = AutomatonUpTo(patterns, depth)
<1> PICK W : W = Trie(patterns)
  OBVIOUS
<1> PICK ac : ac = AutomatonUpTo(patterns, depth - 1)
  OBVIOUS
<1>1. IsTrie(W) /\ depth - 1 \in Nat /\ \A n \in W : n \in Words /\ Len(n) \in Nat
  BY TrieIsTrie DEF IsTrie, Words
<1>2. /\ ac.patterns = patterns
      /\ ac.fail = [n \in UpTo(W, depth - 1) |-> LinkOf(W, n)]
      /\ ac.outputs = [n \in UpTo(W, depth - 1) |-> Ends(patterns, n)]
  BY DEF AutomatonUpTo
<1> DEFINE level == {n \in W : Len(n) = depth}
           above == DOMAIN ac.fail
           fail == [n \in level |-> IF depth = 1 THEN Root ELSE Goto(W, ac.fail, Last(n))[ac.fail[Front(n)]]]
           nfail == [n \in above \cup level |-> IF n \in above THEN ac.fail[n] ELSE fail[n]]
           noutputs == [n \in above \cup level |->
                          IF n \in above THEN ac.outputs[n] ELSE MergedOutputs(ac, n, fail[n])]
<1>3. LinkLevel(ac, W, depth) = [patterns |-> ac.patterns, fail |-> nfail, outputs |-> noutputs]
  BY DEF LinkLevel
<1>4. LinksOf(W, ac.fail) /\ above = UpTo(W, depth - 1) /\ Root \in above
  BY <1>1, <1>2, LinksUpTo
<1>5. above \cup level = UpTo(W, depth) /\ above \cap level = {}
  BY <1>1, <1>4 DEF UpTo
<1>6. ASSUME NEW n \in level PROVE IsFail(W, n, fail[n]) /\ fail[n] = LinkOf(W, n) /\ fail[n] \in above /\ n # Root
  <2>1. n \in W /\ n \in Words /\ Len(n) = depth
    BY <1>1
  <2>2. n # Root
    BY <2>1 DEF Root
  <2>3. IsFail(W, n, fail[n])
    <3>1. CASE depth = 1
      <4>1. Root \in W /\ EndsWith(n, Root) /\ Len(Root) = 0
        BY <1>1, <2>1, SuffixOfItself DEF IsTrie, Root
      <4>2. ASSUME NEW r \in W, EndsWith(n, r), Len(r) < Len(n) PROVE Len(r) <= Len(Root)
        BY <1>1, <2>1, <3>1, <4>1, <4>2
      <4>3. fail[n] = Root
        BY <3>1
      <4> QED
        BY <2>1, <3>1, <4>1, <4>2, <4>3 DEF IsFail
    <3>2. CASE depth # 1
      <4> PICK u : u = Front(n)
        OBVIOUS
      <4>1. u \in W /\ Len(u) = depth - 1
        BY <1>1, <2>1, <2>2, WithoutLast DEF IsTrie
      <4>2. u \in above /\ u # Root
        BY <1>1, <1>4, <3>2, <4>1 DEF UpTo, Root
      <4>3. IsFail(W, n, Goto(W, ac.fail, Last(n))[ac.fail[Front(n)]])
        BY <1>1, <1>4, <2>1, <2>2, <4>2, NextLink
      <4> QED
        BY <3>2, <4>3
    <3> QED
      BY <3>1, <3>2
  <2>4. IsFail(W, n, LinkOf(W, n))
    BY <1>1, <2>1, <2>2, LinkIsFail
  <2> HIDE DEF fail
  <2>5. fail[n] = LinkOf(W, n)
    BY <1>1, <2>1, <2>3, <2>4, OneFail
  <2>6. fail[n] \in W /\ Len(fail[n]) <= depth - 1
    BY <1>1, <2>1, <2>3 DEF IsFail
  <2>7. fail[n] \in above
    BY <1>4, <2>6 DEF UpTo
  <2> QED
    BY <2>2, <2>3, <2>5, <2>7
<1> HIDE DEF fail
<1>7. nfail = [n \in UpTo(W, depth) |-> LinkOf(W, n)]
  <2>1. \A n \in UpTo(W, depth) : nfail[n] = LinkOf(W, n)
    <3> TAKE n \in UpTo(W, depth)
    <3>1. CASE n \in above
      BY <1>2, <1>4, <1>5, <3>1
    <3>2. CASE n \notin above
      <4>1. n \in level
        BY <1>5, <3>2
      <4> QED
        BY <1>5, <1>6, <3>2, <4>1
    <3> QED
      BY <3>1, <3>2
  <2>2. nfail = [n \in UpTo(W, depth) |-> nfail[n]]
    BY <1>5
  <2> HIDE DEF nfail
  <2> QED
    BY <2>1, <2>2, Zenon
<1>8. noutputs = [n \in UpTo(W, depth) |-> Ends(patterns, n)]
  <2>1. \A n \in UpTo(W, depth) : noutputs[n] = Ends(patterns, n)
    <3> TAKE n \in UpTo(W, depth)
    <3>1. CASE n \in above
      BY <1>2, <1>4, <1>5, <3>1
    <3>2. CASE n \notin above
      <4>1. n \in level /\ n \in W
        BY <1>5, <3>2
      <4>2. IsFail(W, n, fail[n]) /\ fail[n] \in above
        BY <1>6, <4>1
      <4>3. ac.outputs[fail[n]] = Ends(patterns, fail[n])
        BY <1>2, <1>4, <4>2
      <4>4. Ends(patterns, n) = Own(patterns, n) \cup Ends(patterns, fail[n])
        BY <4>1, <4>2, OutputsMerge
      <4>5. noutputs[n] = MergedOutputs(ac, n, fail[n])
        BY <1>5, <3>2
      <4> HIDE DEF noutputs
      <4> QED
        BY <1>2, <4>3, <4>4, <4>5, Zenon DEF MergedOutputs
    <3> QED
      BY <3>1, <3>2
  <2>2. noutputs = [n \in UpTo(W, depth) |-> noutputs[n]]
    BY <1>5
  <2> HIDE DEF noutputs
  <2> QED
    BY <2>1, <2>2, Zenon
<1> HIDE DEF nfail, noutputs
<1>9. LinkLevel(ac, W, depth) = AutomatonUpTo(patterns, depth)
  BY <1>2, <1>3, <1>7, <1>8, Zenon DEF AutomatonUpTo
<1> QED
  BY <1>9, Zenon

LEMMA UnlinkedAutomaton ==
    ASSUME NEW patterns \in Seq(Words), NonEmpty(patterns)
    PROVE  [NewAhoCorasick EXCEPT !.patterns = patterns] = AutomatonUpTo(patterns, 0)
<1> PICK W : W = Trie(patterns)
  OBVIOUS
<1>1. IsTrie(W) /\ Root \in W /\ \A n \in W : n \in Words /\ Len(n) \in Nat
  BY TrieIsTrie DEF IsTrie, Words
<1>2. UpTo(W, 0) = {Root}
  <2>1. Len(Root) = 0
    BY DEF Root
  <2>2. \A n \in W : Len(n) <= 0 => n = Root
    BY <1>1 DEF Root, Words
  <2> QED
    BY <1>1, <2>1, <2>2 DEF UpTo
<1>3. LinkOf(W, Root) = Root
  BY DEF LinkOf
<1>4. Ends(patterns, Root) = {}
  <2> SUFFICES ASSUME NEW id \in DOMAIN patterns, EndsWith(Root, patterns[id]) PROVE FALSE
    BY DEF Ends
  <2>1. patterns[id] \in Words /\ patterns[id] # Root
    BY DEF NonEmpty
  <2> QED
    BY <2>1 DEF EndsWith, Root, Words
<1>5. [n \in {Root} |-> Root] = [n \in UpTo(W, 0) |-> LinkOf(W, n)]
  BY <1>2, <1>3
<1>6. [n \in {Root} |-> {}] = [n \in UpTo(W, 0) |-> Ends(patterns, n)]
  BY <1>2, <1>4
<1>7. [NewAhoCorasick EXCEPT !.patterns = patterns]
        = [patterns |-> patterns, fail |-> [n \in {Root} |-> Root], outputs |-> [n \in {Root} |-> {}]]
  <2>1. PICK f : f = [n \in {Root} |-> Root]
    OBVIOUS
  <2>2. PICK o : o = [n \in {Root} |-> {}]
    OBVIOUS
  <2>3. NewAhoCorasick = [patterns |-> <<>>, fail |-> f, outputs |-> o]
    BY <2>1, <2>2 DEF NewAhoCorasick
  <2>4. [NewAhoCorasick EXCEPT !.patterns = patterns] = [patterns |-> patterns, fail |-> f, outputs |-> o]
    BY <2>3
  <2> QED
    BY <2>1, <2>2, <2>4
<1> QED
  BY <1>5, <1>6, <1>7, Zenon DEF AutomatonUpTo

\* The links and outputs of the whole trie.
Automaton(patterns, ac) ==
    /\ ac.patterns = patterns /\ DOMAIN ac.fail = Trie(patterns)
    /\ LinksOf(Trie(patterns), ac.fail)
    /\ \A n \in Trie(patterns) : ac.outputs[n] = Ends(patterns, n)
    /\ DOMAIN ac.outputs = Trie(patterns)

Linking(patterns, linked) ==
    linked = [depth \in Nat |-> IF depth = 0 THEN [NewAhoCorasick EXCEPT !.patterns = patterns]
                                ELSE LinkLevel(linked[depth - 1], Trie(patterns), depth)]

\* Level by level, Build gives every node its link and the patterns that end there.
LEMMA BuildIsComplete ==
    ASSUME NEW patterns \in Seq(Words), NonEmpty(patterns)
    PROVE  Automaton(patterns, BuildAutomaton(patterns))
<1> PICK W : W = Trie(patterns)
  OBVIOUS
<1> PICK deepest : deepest = Max({Len(n) : n \in W})
  OBVIOUS
<1> DEFINE linked == CHOOSE l : Linking(patterns, l)
<1>1. BuildAutomaton(patterns) = linked[deepest]
  BY Zenon DEF BuildAutomaton, Linking
<1>2. deepest \in Nat /\ \A n \in W : Len(n) <= deepest
  BY TrieIsShallow
<1>3. \E l : Linking(patterns, l)
  <2> DEFINE l == [depth \in Nat |-> AutomatonUpTo(patterns, depth)]
  <2>1. \A depth \in Nat : l[depth] = IF depth = 0 THEN [NewAhoCorasick EXCEPT !.patterns = patterns]
                                      ELSE LinkLevel(l[depth - 1], Trie(patterns), depth)
    <3> TAKE depth \in Nat
    <3>1. CASE depth = 0
      BY <3>1, UnlinkedAutomaton
    <3>2. CASE depth # 0
      <4>1. depth - 1 \in Nat /\ depth > 0
        BY <3>2
      <4>2. l[depth - 1] = AutomatonUpTo(patterns, depth - 1) /\ l[depth] = AutomatonUpTo(patterns, depth)
        BY <4>1
      <4>3. LinkLevel(AutomatonUpTo(patterns, depth - 1), Trie(patterns), depth) = AutomatonUpTo(patterns, depth)
        BY <4>1, LinkLevelGives
      <4> HIDE DEF l
      <4> QED
        BY <3>2, <4>2, <4>3
    <3> QED
      BY <3>1, <3>2
  <2>2. l = [depth \in Nat |-> l[depth]]
    OBVIOUS
  <2> HIDE DEF l
  <2>3. Linking(patterns, l)
    BY <2>1, <2>2, Zenon DEF Linking
  <2> QED
    BY <2>3
<1>4. Linking(patterns, linked)
  BY <1>3, Zenon
<1> HIDE DEF linked
<1>5. \A depth \in Nat : linked[depth] = IF depth = 0 THEN [NewAhoCorasick EXCEPT !.patterns = patterns]
                                         ELSE LinkLevel(linked[depth - 1], Trie(patterns), depth)
  BY <1>4, Zenon DEF Linking
<1> DEFINE T == {depth \in Nat : linked[depth] = AutomatonUpTo(patterns, depth)}
<1>6. 0 \in T
  BY <1>5, UnlinkedAutomaton
<1>7. \A depth \in Nat : depth \in T => depth + 1 \in T
  <2> SUFFICES ASSUME NEW depth \in Nat, linked[depth] = AutomatonUpTo(patterns, depth)
               PROVE  linked[depth + 1] = AutomatonUpTo(patterns, depth + 1)
    OBVIOUS
  <2> PICK d : d = depth + 1
    OBVIOUS
  <2>1. d \in Nat /\ d > 0 /\ d - 1 = depth /\ d # 0
    OBVIOUS
  <2>2. linked[d] = LinkLevel(linked[d - 1], Trie(patterns), d)
    BY <1>5, <2>1
  <2>3. LinkLevel(AutomatonUpTo(patterns, d - 1), Trie(patterns), d) = AutomatonUpTo(patterns, d)
    BY <2>1, LinkLevelGives
  <2> QED
    BY <2>1, <2>2, <2>3
<1>8. Nat \subseteq T
  <2> HIDE DEF T
  <2> QED
    BY <1>6, <1>7, Induction
<1> PICK ac : ac = linked[deepest]
  OBVIOUS
<1>9. ac = AutomatonUpTo(patterns, deepest)
  BY <1>2, <1>8
<1>10. UpTo(W, deepest) = W
  BY <1>2 DEF UpTo
<1>11. /\ ac.patterns = patterns
       /\ ac.fail = [n \in UpTo(W, deepest) |-> LinkOf(W, n)]
       /\ ac.outputs = [n \in W |-> Ends(patterns, n)]
  BY <1>9, <1>10 DEF AutomatonUpTo
<1>12. LinksOf(W, ac.fail) /\ DOMAIN ac.fail = W
  BY <1>2, <1>10, <1>11, TrieIsTrie, LinksUpTo
<1>13. Automaton(patterns, ac)
  BY <1>11, <1>12 DEF Automaton
<1> QED
  BY <1>1, <1>13

-------------------------------------------------------------------------------
(* Folds of sequences, and the elements of a set in a row *)

\* What a fold of a sequence of length n with these steps comes to, prefix by prefix.
LastOf(n) == [s \in SUBSET (1..n) |-> Max(s)]

LEMMA LastOfPicks ==
    ASSUME NEW n \in Nat
    PROVE  PicksFrom(LastOf(n), 1..n) /\ IsFiniteSet(1..n)
<1>1. ASSUME NEW s \in SUBSET (1..n), s # {} PROVE Max(s) \in s
  <2>1. s \subseteq Int /\ n \in Int /\ \A y \in s : y <= n
    OBVIOUS
  <2> QED
    BY <1>1, <2>1, MaxOf
<1> QED
  BY <1>1, FS_Interval DEF PicksFrom, LastOf

LEMMA LastOfPrefix ==
    ASSUME NEW n \in Nat, NEW i \in 1..n
    PROVE  /\ 1..i \in SUBSET (1..n) /\ 1..i # {} /\ Max(1..i) = i /\ (1..i) \ {i} = 1..(i - 1)
           /\ i - 1 \in 0..n /\ 1..(i - 1) \in SUBSET (1..n)
<1>1. 1..i \subseteq Int /\ i \in Int /\ 1..i # {} /\ \A y \in 1..i : y <= i
  OBVIOUS
<1>2. Max(1..i) \in 1..i /\ \A y \in 1..i : y <= Max(1..i)
  BY <1>1, MaxOf
<1>3. Max(1..i) = i
  BY <1>2
<1> QED
  BY <1>3

\* A sequence with the elements of S, each once.
IsRow(q, S) == q \in Seq(S) /\ Len(q) = Cardinality(S) /\ Range(q) = S

\* SetToSeq gives a row of the elements of a finite set, each once.
LEMMA SetToSeqIsRow ==
    ASSUME NEW S, IsFiniteSet(S)
    PROVE  IsRow(SetToSeq(S), S)
<1> PICK n : n = Cardinality(S)
  OBVIOUS
<1> PICK q : q = SetToSeq(S)
  OBVIOUS
<1>1. n \in Nat /\ \E f \in [1..n -> S] : IsInjective(f)
  <2>1. Cardinality(S) \in Nat /\ ExistsBijection(1..Cardinality(S), S)
    BY FS_CardinalityType
  <2>2. PICK f : f \in Bijection(1..n, S)
    BY <2>1 DEF ExistsBijection
  <2>3. f \in Injection(1..n, S)
    BY <2>2 DEF Bijection
  <2> QED
    BY <2>1, <2>3 DEF Injection
<1>2. q \in [1..n -> S] /\ IsInjective(q)
  BY <1>1 DEF SetToSeq
<1>3. q \in Surjection(1..n, S)
  <2>1. q \in Injection(1..n, S)
    BY <1>2 DEF Injection
  <2>2. Cardinality(1..n) = Cardinality(S)
    BY <1>1, FS_Interval
  <2> QED
    BY <2>1, <2>2, FS_Injection
<1>4. q \in Seq(S) /\ Len(q) = n /\ DOMAIN q = 1..n
  BY <1>1, <1>2
<1>5. Range(q) = S
  BY <1>2, <1>3, <1>4 DEF Surjection, Range
<1> QED
  BY <1>4, <1>5 DEF IsRow

\* What is read from a sequence of both parts, side by side.
LEMMA ConcatIs ==
    ASSUME NEW C, NEW q \in Seq(C), NEW r \in Seq(C)
    PROVE  /\ q \o r \in Seq(C) /\ Len(q \o r) = Len(q) + Len(r) /\ Len(q) \in Nat /\ Len(r) \in Nat
           /\ \A i \in 1..(Len(q) + Len(r)) : (q \o r)[i] = IF i <= Len(q) THEN q[i] ELSE r[i - Len(q)]
OBVIOUS

LEMMA SeqOfMore ==
    ASSUME NEW T, NEW S, S \subseteq T, NEW q \in Seq(S)
    PROVE  q \in Seq(T)
<1>1. Len(q) \in Nat /\ q \in [1..Len(q) -> T]
  OBVIOUS
<1> QED
  BY <1>1

\* Two rows, one after the other.
LEMMA RowOfMore ==
    ASSUME NEW q, NEW A, IsRow(q, A), NEW r, NEW B, IsRow(r, B),
           IsFiniteSet(A), IsFiniteSet(B), A \cap B = {}
    PROVE  IsRow(q \o r, A \cup B)
<1> PICK C : C = A \cup B
  OBVIOUS
<1>1. q \in Seq(C) /\ r \in Seq(C) /\ Len(q) = Cardinality(A) /\ Len(r) = Cardinality(B)
      /\ Range(q) = A /\ Range(r) = B
  <2>1. A \subseteq C /\ B \subseteq C
    OBVIOUS
  <2> QED
    BY <2>1, SeqOfMore DEF IsRow
<1>2. /\ q \o r \in Seq(C) /\ Len(q \o r) = Len(q) + Len(r) /\ Len(q) \in Nat /\ Len(r) \in Nat
      /\ \A i \in 1..(Len(q) + Len(r)) : (q \o r)[i] = IF i <= Len(q) THEN q[i] ELSE r[i - Len(q)]
  BY <1>1, ConcatIs
<1>3. Cardinality(C) = Cardinality(A) + Cardinality(B)
  <2>1. Cardinality(C) = Cardinality(A) + Cardinality(B) - Cardinality({})
    BY FS_Union
  <2>2. Cardinality({}) = 0 /\ Cardinality(A) \in Nat /\ Cardinality(B) \in Nat
    BY FS_EmptySet, FS_CardinalityType
  <2> QED
    BY <2>1, <2>2
<1>4. C \subseteq Range(q \o r)
  <2>1. DOMAIN (q \o r) = 1..(Len(q) + Len(r)) /\ DOMAIN q = 1..Len(q) /\ DOMAIN r = 1..Len(r)
    BY <1>1, <1>2
  <2>2. ASSUME NEW c \in A PROVE c \in Range(q \o r)
    <3>1. PICK i \in 1..Len(q) : q[i] = c
      BY <1>1, <2>1 DEF Range
    <3>2. (q \o r)[i] = c /\ i \in DOMAIN (q \o r)
      BY <1>2, <2>1, <3>1
    <3> QED
      BY <3>2 DEF Range
  <2>3. ASSUME NEW c \in B PROVE c \in Range(q \o r)
    <3>1. PICK i \in 1..Len(r) : r[i] = c
      BY <1>1, <2>1 DEF Range
    <3> PICK j : j = Len(q) + i
      OBVIOUS
    <3>2. j \in 1..(Len(q) + Len(r)) /\ ~ (j <= Len(q)) /\ j - Len(q) = i
      BY <1>2, <3>1
    <3>3. (q \o r)[j] = c /\ j \in DOMAIN (q \o r)
      BY <1>2, <2>1, <3>1, <3>2
    <3> QED
      BY <3>3 DEF Range
  <2> QED
    BY <2>2, <2>3
<1>5. Range(q \o r) \subseteq C
  BY <1>2 DEF Range
<1> QED
  BY <1>1, <1>2, <1>3, <1>4, <1>5 DEF IsRow

\* A function on the sets of indexes that goes, last index first, by these steps.
Follows(it, n, base, step, X) ==
    \A s \in SUBSET (1..n) :
        IF s = {} THEN it[s] = base
        ELSE it[s \ {Max(s)}] \in X => it[s] = step[Max(s)][it[s \ {Max(s)}]]
Steps(h, n, base, step) == h[0] = base /\ \A i \in 1..n : h[i] = step[i][h[i - 1]]

\* The recursion of a fold over a set of indexes defines a function.
LEMMA FollowerExists ==
    ASSUME NEW n \in Nat, NEW X, NEW base \in X, NEW step \in [1..n -> [X -> X]]
    PROVE  \E f \in [SUBSET (1..n) -> X] : Follows(f, n, base, step, X)
<1>1. PICK f \in [SUBSET (1..n) -> X] : Recursion(f, 1..n, base, LastOf(n), step)
  BY LastOfPicks, RecursionOverSubsets
<1>2. Follows(f, n, base, step, X)
  BY <1>1 DEF Recursion, Follows, LastOf
<1> QED
  BY <1>2

\* Whatever goes by the steps goes through the prefixes one by one.
LEMMA FoldSteps ==
    ASSUME NEW n \in Nat, NEW X, NEW base \in X, NEW step \in [1..n -> [X -> X]],
           NEW it, Follows(it, n, base, step, X)
    PROVE  \E h \in [0..n -> X] : Steps(h, n, base, step) /\ it[1..n] = h[n]
<1>1. ASSUME NEW i \in 1..n
      PROVE  it[1..(i - 1)] \in X => it[1..i] = step[i][it[1..(i - 1)]]
  BY LastOfPrefix DEF Follows
<1>2. it[1..0] = base
  <2>1. 1..0 = {}
    OBVIOUS
  <2> QED
    BY <2>1 DEF Follows
<1> DEFINE T == {k \in Nat : k <= n => it[1..k] \in X}
<1>3. 0 \in T
  BY <1>2
<1>4. ASSUME NEW k \in Nat, k \in T PROVE k + 1 \in T
  <2>1. CASE k + 1 <= n
    <3>1. k + 1 \in 1..n /\ (k + 1) - 1 = k /\ it[1..k] \in X
      BY <1>4, <2>1
    <3>2. it[1..(k + 1)] = step[k + 1][it[1..k]]
      BY <1>1, <3>1
    <3>3. step[k + 1] \in [X -> X]
      BY <3>1
    <3>4. it[1..(k + 1)] \in X
      BY <3>1, <3>2, <3>3
    <3> QED
      BY <3>4
  <2>2. CASE ~ (k + 1 <= n)
    BY <2>2
  <2> QED
    BY <2>1, <2>2
<1>5. Nat \subseteq T
  <2> HIDE DEF T
  <2> QED
    BY <1>3, <1>4, Induction
<1>6. \A k \in 0..n : it[1..k] \in X
  BY <1>5
<1> PICK h : h = [k \in 0..n |-> it[1..k]]
  OBVIOUS
<1>7. h \in [0..n -> X] /\ h[n] = it[1..n]
  BY <1>6
<1>8. Steps(h, n, base, step)
  <2>1. h[0] = base
    BY <1>2
  <2>2. ASSUME NEW i \in 1..n PROVE h[i] = step[i][h[i - 1]]
    <3>1. i \in 0..n /\ i - 1 \in 0..n
      OBVIOUS
    <3> QED
      BY <1>1, <1>6, <3>1
  <2> QED
    BY <2>1, <2>2 DEF Steps
<1> QED
  BY <1>7, <1>8

-------------------------------------------------------------------------------
(* Search *)

Finds(patterns) == [node : Trie(patterns), at : Nat, results : Seq((DOMAIN patterns) \X Int)]
SearchStart == [node |-> Root, at |-> 0, results |-> <<>>]

\* What a search has found after 0, 1, ... bytes.
SearchSteps(h, ac, payload) ==
    h[0] = SearchStart /\ \A i \in 1..Len(payload) : h[i] = SearchByte(ac, h[i - 1], payload[i])

\* What a byte makes of what has been found.
AfterByte(patterns, s, b, n, new) ==
    /\ n \in Finds(patterns)
    /\ IsLongest(Trie(patterns), Append(s.node, b), n.node)
    /\ n.at = s.at + 1
    /\ IsFiniteSet(new) /\ new \subseteq (DOMAIN patterns) \X Int
    /\ n.results = s.results \o SetToSeq(new)

\* What one byte does to the state of a search.
LEMMA SearchByteFields ==
    ASSUME NEW patterns \in Seq(Words), NEW ac, Automaton(patterns, ac),
           NEW s \in Finds(patterns), NEW b \in Bytes, NEW n, n = SearchByte(ac, s, b),
           NEW new, new = {<<id, s.at - Len(patterns[id]) + 1>> : id \in Ends(patterns, n.node)}
    PROVE  AfterByte(patterns, s, b, n, new)
<1> PICK W : W = Trie(patterns)
  OBVIOUS
<1> PICK node : node = Goto(W, ac.fail, b)[s.node]
  OBVIOUS
<1> DEFINE found == {<<id, s.at - Len(patterns[id]) + 1>> : id \in Ends(patterns, node)}
<1>1. /\ IsTrie(W) /\ LinksOf(W, ac.fail) /\ DOMAIN ac.fail = W /\ ac.patterns = patterns
      /\ \A m \in W : ac.outputs[m] = Ends(patterns, m)
  BY TrieIsTrie DEF Automaton
<1>2. IsLongest(W, Append(s.node, b), node) /\ node \in W
  <2>1. GoesToLongest(W, ac.fail, b) /\ s.node \in W
    BY <1>1, GotoLongest DEF Finds
  <2> QED
    BY <1>1, <2>1 DEF GoesToLongest, IsLongest
<1>3. n = [node |-> node, at |-> s.at + 1, results |-> s.results \o SetToSeq(found)]
  <2>1. {<<id, s.at - Len(ac.patterns[id]) + 1>> : id \in ac.outputs[node]} = found
    BY <1>1, <1>2
  <2> HIDE DEF found
  <2>2. Goto(DOMAIN ac.fail, ac.fail, b)[s.node] = node
    BY <1>1
  <2> QED
    BY <2>1, <2>2, Zenon DEF SearchByte
<1>4. Ends(patterns, node) \subseteq DOMAIN patterns /\ s.at \in Nat /\ s.results \in Seq((DOMAIN patterns) \X Int)
  BY DEF Ends, Finds
<1>5. found \subseteq (DOMAIN patterns) \X Int
  <2>1. ASSUME NEW id \in DOMAIN patterns PROVE <<id, s.at - Len(patterns[id]) + 1>> \in (DOMAIN patterns) \X Int
    <3>1. patterns[id] \in Seq(Bytes)
      BY DEF Words
    <3>2. Len(patterns[id]) \in Int
      BY <3>1
    <3>3. s.at - Len(patterns[id]) + 1 \in Int
      BY <1>4, <3>2
    <3> QED
      BY <3>3
  <2> QED
    BY <1>4, <2>1
<1>6. IsFiniteSet(found)
  <2> DEFINE E == Ends(patterns, node)
             f == [id \in E |-> <<id, s.at - Len(patterns[id]) + 1>>]
  <2>1. IsFiniteSet(E)
    <3>1. IsFiniteSet(DOMAIN patterns)
      <4>1. DOMAIN patterns = 1..Len(patterns) /\ Len(patterns) \in Int
        OBVIOUS
      <4> QED
        BY <4>1, FS_Interval
    <3> QED
      BY <1>4, <3>1, FS_Subset
  <2>2. f \in Surjection(E, found)
    <3>1. f \in [E -> found]
      OBVIOUS
    <3>2. \A y \in found : \E x \in E : f[x] = y
      OBVIOUS
    <3> QED
      BY <3>1, <3>2 DEF Surjection
  <2> HIDE DEF E, f, found
  <2> QED
    BY <2>1, <2>2, FS_Surjection
<1> HIDE DEF found
<1>7. s.results \o SetToSeq(found) \in Seq((DOMAIN patterns) \X Int)
  <2>1. SetToSeq(found) \in Seq((DOMAIN patterns) \X Int)
    <3>1. SetToSeq(found) \in Seq(found)
      BY <1>6, SetToSeqIsRow DEF IsRow
    <3> QED
      BY <1>5, <3>1, SeqOfMore
  <2> QED
    BY <1>4, <2>1
<1>8. n \in Finds(patterns)
  BY <1>2, <1>3, <1>4, <1>7 DEF Finds
<1>9. n.node = node /\ n.at = s.at + 1 /\ n.results = s.results \o SetToSeq(found)
  BY <1>3
<1>10. new = found
  BY <1>9, Zenon DEF found
<1> QED
  BY <1>2, <1>5, <1>6, <1>8, <1>9, <1>10 DEF AfterByte

\* A search goes byte by byte.
LEMMA SearchIsSteps ==
    ASSUME NEW patterns \in Seq(Words), NEW ac, Automaton(patterns, ac), NEW payload \in Words
    PROVE  \E h \in [0..Len(payload) -> Finds(patterns)] :
              SearchSteps(h, ac, payload) /\ Search(ac, payload) = h[Len(payload)].results
<1> PICK X : X = Finds(patterns)
  OBVIOUS
<1> PICK n : n = Len(payload)
  OBVIOUS
<1> DEFINE step == [i \in 1..n |-> [x \in X |-> SearchByte(ac, x, payload[i])]]
<1>1. n \in Nat /\ DOMAIN payload = 1..n /\ \A i \in 1..n : payload[i] \in Bytes
  BY DEF Words
<1>2. SearchStart \in X
  BY TrieIsTrie DEF SearchStart, Finds, IsTrie
<1>3. ASSUME NEW x \in X, NEW b \in Bytes PROVE SearchByte(ac, x, b) \in X
  <2> PICK n1 : n1 = SearchByte(ac, x, b)
    OBVIOUS
  <2> PICK new : new = {<<id, x.at - Len(patterns[id]) + 1>> : id \in Ends(patterns, n1.node)}
    OBVIOUS
  <2>1. AfterByte(patterns, x, b, n1, new)
    BY SearchByteFields
  <2> QED
    BY <2>1 DEF AfterByte
<1>4. step \in [1..n -> [X -> X]]
  BY <1>1, <1>3
<1>5. \A i \in 1..n : \A x \in X : step[i][x] = SearchByte(ac, x, payload[i])
  OBVIOUS
<1> HIDE DEF step
<1> DEFINE Eq(g) == g = [s \in SUBSET (1..n) |->
                           IF s = {} THEN SearchStart
                           ELSE LET x == Max(s) IN SearchByte(ac, g[s \ {x}], payload[x])]
           it == CHOOSE g : Eq(g)
<1>6. Search(ac, payload) = it[1..n].results
  BY <1>1 DEF Search, FoldLeft, MapThenFoldSet, SearchStart
<1>7. PICK f \in [SUBSET (1..n) -> X] : Follows(f, n, SearchStart, step, X)
  BY <1>1, <1>2, <1>4, FollowerExists
<1>8. Eq(f)
  <2>1. ASSUME NEW s \in SUBSET (1..n)
        PROVE  f[s] = IF s = {} THEN SearchStart ELSE LET x == Max(s) IN SearchByte(ac, f[s \ {x}], payload[x])
    <3>1. s # {} => Max(s) \in 1..n
      BY <1>1, LastOfPicks DEF PicksFrom, LastOf
    <3> QED
      BY <1>5, <1>7, <3>1 DEF Follows
  <2>2. f = [s \in SUBSET (1..n) |-> f[s]]
    BY <1>7
  <2> QED
    BY <2>1, <2>2, Zenon
<1>9. Eq(it)
  <2> HIDE DEF Eq
  <2> QED
    BY <1>8, Zenon
<1>10. Follows(it, n, SearchStart, step, X)
  <2>1. ASSUME NEW s \in SUBSET (1..n)
        PROVE  it[s] = IF s = {} THEN SearchStart ELSE LET x == Max(s) IN SearchByte(ac, it[s \ {x}], payload[x])
    BY <1>9, Zenon
  <2> HIDE DEF Eq, it
  <2>2. ASSUME NEW s \in SUBSET (1..n), s # {} PROVE Max(s) \in 1..n
    BY <1>1, <2>2, LastOfPicks DEF PicksFrom, LastOf
  <2> QED
    BY <1>5, <2>1, <2>2 DEF Follows
<1> HIDE DEF Eq, it
<1>11. PICK h \in [0..n -> X] : Steps(h, n, SearchStart, step) /\ it[1..n] = h[n]
  BY <1>1, <1>2, <1>4, <1>10, FoldSteps
<1>12. SearchSteps(h, ac, payload)
  <2>1. \A i \in 1..n : h[i - 1] \in X
    BY <1>1, <1>11
  <2> QED
    BY <1>5, <1>11, <2>1 DEF Steps, SearchSteps
<1> QED
  BY <1>6, <1>11, <1>12

\* A pattern occurs where the payload has its bytes.
LEMMA OccursIs ==
    ASSUME NEW p \in Words, NEW s \in Words, NEW j \in Nat
    PROVE  OccursAt(p, s, j) <=> j + Len(p) <= Len(s) /\ \A k \in 1..Len(p) : s[j + k] = p[k]
<1>1. Len(p) \in Nat /\ Len(s) \in Nat
  BY DEF Words
<1>2. CASE ~ (j + Len(p) <= Len(s))
  BY <1>2 DEF OccursAt
<1>3. CASE j + Len(p) <= Len(s)
  <2> PICK u : u = SubSeq(s, j + 1, j + Len(p))
    OBVIOUS
  <2>1. j + 1 \in 1..(Len(s) + 1) /\ j + Len(p) \in ((j + 1) - 1)..Len(s)
    BY <1>1, <1>3
  <2>2. /\ u \in Words /\ Len(u) = (j + Len(p)) - (j + 1) + 1
        /\ \A k \in 1..((j + Len(p)) - (j + 1) + 1) : u[k] = s[(j + 1) + k - 1]
    BY <2>1, CutOf DEF Words
  <2>3. Len(u) = Len(p) /\ \A k \in 1..Len(p) : u[k] = s[j + k]
    <3>1. (j + Len(p)) - (j + 1) + 1 = Len(p)
      BY <1>1
    <3>2. \A k \in 1..Len(p) : (j + 1) + k - 1 = j + k
      BY <1>1
    <3> QED
      BY <2>2, <3>1, <3>2
  <2>4. u = p <=> \A k \in 1..Len(p) : u[k] = p[k]
    BY <2>2, <2>3, SeqEqual DEF Words
  <2>5. OccursAt(p, s, j) <=> u = p
    BY <1>3 DEF OccursAt
  <2> QED
    BY <1>3, <2>3, <2>4, <2>5
<1> QED
  BY <1>2, <1>3

\* What ends with a pattern is what it occurs at the end of.
LEMMA EndsIsOccurs ==
    ASSUME NEW p \in Words, NEW s \in Words, NEW i \in 0..Len(s)
    PROVE  EndsWith(SubSeq(s, 1, i), p) <=> i - Len(p) \in Nat /\ OccursAt(p, s, i - Len(p))
<1> PICK t : t = SubSeq(s, 1, i)
  OBVIOUS
<1>1. Len(p) \in Nat /\ Len(s) \in Nat /\ i \in Nat /\ i <= Len(s)
  BY DEF Words
<1>2. t \in Words /\ Len(t) = i /\ \A k \in 1..i : t[k] = s[k]
  BY PrefixOf
<1>3. CASE ~ (Len(p) <= i)
  BY <1>1, <1>2, <1>3 DEF EndsWith
<1>4. CASE Len(p) <= i
  <2> PICK j : j = i - Len(p)
    OBVIOUS
  <2>1. j \in Nat /\ j + Len(p) = i
    BY <1>1, <1>4
  <2>2. OccursAt(p, s, j) <=> \A k \in 1..Len(p) : s[j + k] = p[k]
    BY <1>1, <2>1, OccursIs
  <2>3. \A k \in 1..Len(p) : t[Len(t) - Len(p) + k] = s[j + k]
    <3> TAKE k \in 1..Len(p)
    <3>1. Len(t) - Len(p) + k = j + k /\ j + k \in 1..i
      BY <1>1, <1>2, <2>1
    <3> QED
      BY <1>2, <3>1
  <2>4. EndsWith(t, p) <=> \A k \in 1..Len(p) : s[j + k] = p[k]
    BY <1>2, <1>4, <2>3 DEF EndsWith
  <2> QED
    BY <2>1, <2>2, <2>4
<1> QED
  BY <1>3, <1>4

-------------------------------------------------------------------------------
(* What a search has found after i bytes *)

Starts(o, i, patterns) == o[2] + Len(patterns[o[1]]) <= i
FoundBy(patterns, payload, i) == {o \in AllOccurrences(patterns, payload) : Starts(o, i, patterns)}

SearchedUpTo(patterns, payload, s, i) ==
    /\ IsLongest(Trie(patterns), SubSeq(payload, 1, i), s.node)
    /\ s.at = i
    /\ IsRow(s.results, FoundBy(patterns, payload, i))

\* A payload has finitely many occurrences.
LEMMA OccurrencesFinite ==
    ASSUME NEW patterns \in Seq(Words), NEW payload \in Words
    PROVE  /\ IsFiniteSet(AllOccurrences(patterns, payload))
           /\ \A i : IsFiniteSet(FoundBy(patterns, payload, i))
<1>1. /\ DOMAIN patterns = 1..Len(patterns) /\ Len(patterns) \in Int /\ Len(payload) \in Int /\ 0 \in Int
  BY DEF Words
<1>2. IsFiniteSet(1..Len(patterns)) /\ IsFiniteSet(0..Len(payload))
  BY <1>1, FS_Interval
<1> PICK P : P = (DOMAIN patterns) \X (0..Len(payload))
  OBVIOUS
<1>3. IsFiniteSet(P)
  BY <1>1, <1>2, FS_Product
<1>4. AllOccurrences(patterns, payload) \subseteq P
  BY DEF AllOccurrences
<1>5. \A i : FoundBy(patterns, payload, i) \subseteq AllOccurrences(patterns, payload)
  BY DEF FoundBy
<1>6. IsFiniteSet(AllOccurrences(patterns, payload))
  BY <1>3, <1>4, FS_Subset
<1> QED
  BY <1>5, <1>6, FS_Subset

\* The occurrences that end at i.
LEMMA FoundNext ==
    ASSUME NEW patterns \in Seq(Words), NonEmpty(patterns), NEW payload \in Words, NEW i \in 1..Len(payload),
           NEW node, IsLongest(Trie(patterns), SubSeq(payload, 1, i), node),
           NEW new, new = {<<id, (i - 1) - Len(patterns[id]) + 1>> : id \in Ends(patterns, node)}
    PROVE  /\ FoundBy(patterns, payload, i) = FoundBy(patterns, payload, i - 1) \cup new
           /\ FoundBy(patterns, payload, i - 1) \cap new = {}
<1> PICK t : t = SubSeq(payload, 1, i)
  OBVIOUS
<1>1. /\ i \in Nat /\ i \in 0..Len(payload) /\ Len(payload) \in Nat /\ t \in Words /\ Len(t) = i
  <2>1. Len(payload) \in Nat
    BY DEF Words
  <2>2. i \in Nat /\ i \in 0..Len(payload)
    BY <2>1
  <2> QED
    BY <2>1, <2>2, PrefixOf
<1>2. node \in Words /\ EndsWith(t, node)
  BY TrieIsTrie DEF IsLongest, IsTrie
<1>3. ASSUME NEW id \in DOMAIN patterns
      PROVE  /\ patterns[id] \in Words /\ Len(patterns[id]) \in Nat /\ Len(patterns[id]) > 0
             /\ id \in Ends(patterns, node) <=> EndsWith(t, patterns[id])
  <2> PICK p : p = patterns[id]
    OBVIOUS
  <2>1. p \in Words /\ Len(p) \in Nat /\ Len(p) > 0 /\ p \in Trie(patterns)
    BY TrieIsTrie DEF NonEmpty, Words, Root
  <2>2. ASSUME EndsWith(t, p) PROVE EndsWith(node, p)
    <3>1. Len(p) <= Len(node)
      BY <2>1, <2>2 DEF IsLongest
    <3> QED
      BY <1>1, <1>2, <2>1, <2>2, <3>1, SuffixesNest
  <2>3. ASSUME EndsWith(node, p) PROVE EndsWith(t, p)
    BY <1>1, <1>2, <2>1, <2>3, SuffixesChain
  <2>4. id \in Ends(patterns, node) <=> EndsWith(node, p)
    BY DEF Ends
  <2> QED
    BY <2>1, <2>2, <2>3, <2>4
<1>4. ASSUME NEW id \in DOMAIN patterns
      PROVE  id \in Ends(patterns, node) <=> i - Len(patterns[id]) \in Nat /\ OccursAt(patterns[id], payload, i - Len(patterns[id]))
  BY <1>1, <1>3, EndsIsOccurs
<1> DEFINE At(id) == <<id, i - Len(patterns[id])>>
<1>5. new = {At(id) : id \in Ends(patterns, node)}
  <2>1. \A id \in Ends(patterns, node) : (i - 1) - Len(patterns[id]) + 1 = i - Len(patterns[id])
    BY <1>1, <1>3 DEF Ends
  <2> QED
    BY <2>1, Zenon
<1>6. ASSUME NEW o \in AllOccurrences(patterns, payload)
      PROVE  /\ o[1] \in DOMAIN patterns /\ o[2] \in Nat /\ o = <<o[1], o[2]>>
             /\ OccursAt(patterns[o[1]], payload, o[2])
  BY <1>1 DEF AllOccurrences
<1>7. ASSUME NEW o \in new
      PROVE  /\ o[1] \in DOMAIN patterns /\ o[2] = i - Len(patterns[o[1]])
             /\ o \in AllOccurrences(patterns, payload)
             /\ Starts(o, i, patterns) /\ ~ Starts(o, i - 1, patterns)
  <2>1. PICK id \in Ends(patterns, node) : o = At(id)
    BY <1>5
  <2>2. id \in DOMAIN patterns /\ o[1] = id /\ o[2] = i - Len(patterns[id])
    BY <2>1 DEF Ends
  <2>3. o[2] \in Nat /\ OccursAt(patterns[id], payload, o[2]) /\ o[2] <= Len(payload)
    BY <1>1, <1>3, <1>4, <2>2
  <2>4. o \in AllOccurrences(patterns, payload)
    BY <1>1, <2>1, <2>2, <2>3 DEF AllOccurrences
  <2> QED
    BY <1>1, <1>3, <2>2, <2>3, <2>4 DEF Starts
<1>8. ASSUME NEW o \in AllOccurrences(patterns, payload), Starts(o, i, patterns), ~ Starts(o, i - 1, patterns)
      PROVE  o \in new
  <2>1. o[2] = i - Len(patterns[o[1]])
    BY <1>1, <1>3, <1>6, <1>8 DEF Starts
  <2>2. o[1] \in Ends(patterns, node)
    BY <1>4, <1>6, <2>1
  <2>3. o = At(o[1])
    BY <1>6, <2>1
  <2> QED
    BY <1>5, <2>2, <2>3
<1>9. ASSUME NEW o \in AllOccurrences(patterns, payload), Starts(o, i - 1, patterns) PROVE Starts(o, i, patterns)
  BY <1>1, <1>3, <1>6, <1>9 DEF Starts
<1> HIDE DEF At
<1> QED
  BY <1>7, <1>8, <1>9 DEF FoundBy

\* One byte further.
LEMMA OneByteFurther ==
    ASSUME NEW patterns \in Seq(Words), NonEmpty(patterns), NEW ac, Automaton(patterns, ac),
           NEW payload \in Words, NEW i \in 1..Len(payload),
           NEW s \in Finds(patterns), SearchedUpTo(patterns, payload, s, i - 1)
    PROVE  SearchedUpTo(patterns, payload, SearchByte(ac, s, payload[i]), i)
<1> PICK W : W = Trie(patterns)
  OBVIOUS
<1> PICK b : b = payload[i]
  OBVIOUS
<1> PICK n : n = SearchByte(ac, s, b)
  OBVIOUS
<1> PICK t : t = SubSeq(payload, 1, i - 1)
  OBVIOUS
<1> PICK new : new = {<<id, s.at - Len(patterns[id]) + 1>> : id \in Ends(patterns, n.node)}
  OBVIOUS
<1>1. Len(payload) \in Nat /\ i \in Nat /\ i \in 0..Len(payload) /\ i - 1 \in 0..Len(payload) /\ b \in Bytes /\ i # 0
  BY DEF Words
<1>2. /\ IsLongest(W, Append(s.node, b), n.node) /\ n.at = s.at + 1
      /\ IsFiniteSet(new) /\ n.results = s.results \o SetToSeq(new)
  <2>1. b \in Bytes
    BY <1>1
  <2>2. AfterByte(patterns, s, b, n, new)
    BY <2>1, SearchByteFields
  <2> QED
    BY <2>2 DEF AfterByte
<1>3. s.at = i - 1 /\ IsLongest(W, t, s.node) /\ IsRow(s.results, FoundBy(patterns, payload, i - 1))
  BY DEF SearchedUpTo
<1>4. t \in Words /\ Append(t, b) = SubSeq(payload, 1, i) /\ IsTrie(W) /\ s.node \in W /\ s.node \in Words /\ EndsWith(t, s.node)
  BY <1>1, <1>3, PrefixOf, NextPrefix, TrieIsTrie DEF IsLongest, IsTrie
<1>5. Covers(W, t, s.node, b)
  <2> SUFFICES ASSUME NEW r \in W, EndsWith(t, r) PROVE EndsWith(s.node, r)
    BY DEF Covers
  <2>1. r \in Words /\ Len(r) <= Len(s.node)
    BY <1>3, <1>4 DEF IsTrie, IsLongest
  <2> QED
    BY <1>4, <2>1, SuffixesNest
<1>6. IsLongest(W, SubSeq(payload, 1, i), n.node)
  <2>1. IsLongest(W, Append(t, b), n.node)
    BY <1>1, <1>2, <1>4, <1>5, LongestOfMore
  <2> QED
    BY <1>4, <2>1
<1>7. n.at = i
  BY <1>1, <1>2, <1>3
<1>8. new = {<<id, (i - 1) - Len(patterns[id]) + 1>> : id \in Ends(patterns, n.node)}
  BY <1>3, Zenon
<1>9. /\ FoundBy(patterns, payload, i) = FoundBy(patterns, payload, i - 1) \cup new
      /\ FoundBy(patterns, payload, i - 1) \cap new = {}
  BY <1>6, <1>8, FoundNext
<1>10. IsRow(SetToSeq(new), new) /\ IsFiniteSet(FoundBy(patterns, payload, i - 1))
  BY <1>2, SetToSeqIsRow, OccurrencesFinite
<1>11. IsRow(n.results, FoundBy(patterns, payload, i))
  <2> PICK A : A = FoundBy(patterns, payload, i - 1)
    OBVIOUS
  <2> PICK q : q = s.results
    OBVIOUS
  <2> PICK r : r = SetToSeq(new)
    OBVIOUS
  <2>1. IsRow(q, A) /\ IsRow(r, new) /\ IsFiniteSet(A) /\ IsFiniteSet(new) /\ A \cap new = {}
    BY <1>2, <1>3, <1>9, <1>10
  <2>2. IsRow(q \o r, A \cup new)
    BY <2>1, RowOfMore
  <2> QED
    BY <1>2, <1>9, <2>2
<1> QED
  BY <1>6, <1>7, <1>11 DEF SearchedUpTo

\* A search with a finished automaton finds every occurrence of every pattern, each
\* once.
LEMMA SearchIsRight ==
    ASSUME NEW patterns \in Seq(Words), NonEmpty(patterns), NEW ac, Automaton(patterns, ac),
           NEW payload \in Words
    PROVE  IsRow(Search(ac, payload), AllOccurrences(patterns, payload))
<1> PICK n : n = Len(payload)
  OBVIOUS
<1>1. n \in Nat
  BY DEF Words
<1>2. PICK h \in [0..n -> Finds(patterns)] : SearchSteps(h, ac, payload) /\ Search(ac, payload) = h[n].results
  BY SearchIsSteps
<1> DEFINE T == {k \in Nat : k <= n => SearchedUpTo(patterns, payload, h[k], k)}
<1>3. 0 \in T
  <2> PICK t : t = SubSeq(payload, 1, 0)
    OBVIOUS
  <2>1. t \in Words /\ Len(t) = 0
    BY <1>1, PrefixOf
  <2>2. t = Root
    BY <2>1 DEF Root, Words
  <2>3. IsLongest(Trie(patterns), t, Root)
    <3>1. \A r \in Trie(patterns) : EndsWith(t, r) => Len(r) <= Len(Root)
      BY <2>2 DEF EndsWith
    <3> QED
      BY <2>1, <2>2, <3>1, SuffixOfItself, TrieIsTrie DEF IsLongest, IsTrie
  <2>4. IsRow(<<>>, FoundBy(patterns, payload, 0))
    <3>1. \A o \in AllOccurrences(patterns, payload) : ~ Starts(o, 0, patterns)
      <4> TAKE o \in AllOccurrences(patterns, payload)
      <4>1. o[1] \in DOMAIN patterns /\ o[2] \in Nat
        BY <1>1 DEF AllOccurrences
      <4>2. Len(patterns[o[1]]) \in Nat /\ Len(patterns[o[1]]) > 0
        BY <4>1 DEF NonEmpty, Words, Root
      <4> QED
        BY <4>1, <4>2 DEF Starts
    <3>2. FoundBy(patterns, payload, 0) = {}
      BY <3>1 DEF FoundBy
    <3>3. IsRow(<<>>, {})
      <4>1. Cardinality({}) = 0
        BY FS_EmptySet
      <4>2. <<>> \in Seq({}) /\ Len(<<>>) = 0
        OBVIOUS
      <4>3. Range(<<>>) = {}
        BY DEF Range
      <4> QED
        BY <4>1, <4>2, <4>3 DEF IsRow
    <3> QED
      BY <3>2, <3>3
  <2>5. h[0] = SearchStart
    BY <1>2 DEF SearchSteps
  <2> QED
    BY <2>3, <2>4, <2>5 DEF SearchStart, SearchedUpTo
<1>4. ASSUME NEW k \in Nat, k \in T PROVE k + 1 \in T
  <2> SUFFICES ASSUME k + 1 <= n PROVE SearchedUpTo(patterns, payload, h[k + 1], k + 1)
    OBVIOUS
  <2>1. k + 1 \in 1..n /\ (k + 1) - 1 = k /\ k \in 0..n
    BY <1>1
  <2>2. h[k + 1] = SearchByte(ac, h[k], payload[k + 1])
    BY <1>2, <2>1 DEF SearchSteps
  <2>3. SearchedUpTo(patterns, payload, h[k], k) /\ h[k] \in Finds(patterns)
    BY <1>1, <1>2, <1>4, <2>1
  <2> PICK s : s = h[k]
    OBVIOUS
  <2>4. SearchedUpTo(patterns, payload, SearchByte(ac, s, payload[k + 1]), k + 1)
    BY <2>1, <2>3, OneByteFurther
  <2> QED
    BY <2>2, <2>4
<1>5. Nat \subseteq T
  <2> HIDE DEF T
  <2> QED
    BY <1>3, <1>4, Induction
<1>6. SearchedUpTo(patterns, payload, h[n], n)
  BY <1>1, <1>5
<1>7. FoundBy(patterns, payload, n) = AllOccurrences(patterns, payload)
  <2>1. \A o \in AllOccurrences(patterns, payload) : Starts(o, n, patterns)
    BY DEF AllOccurrences, OccursAt, Starts
  <2> QED
    BY <2>1 DEF FoundBy
<1> QED
  BY <1>2, <1>6, <1>7 DEF SearchedUpTo

-------------------------------------------------------------------------------
(* The engine *)

\* Contents as the parser leaves them: a content that ignores case is in lower case.
Content ==
    {c \in [pattern : Words \ {Root}, nocase : BOOLEAN,
            offset : Int, depth : Int, distance : Int, within : Int] :
        c.nocase => Lowered(c.pattern) = c.pattern}

FastIn(contents) == IF Head(contents).nocase THEN "nocase" ELSE "case"
Seen(a, payload) == IF a = "nocase" THEN Lowered(payload) ELSE payload
Unbuilt(patterns) == [NewAhoCorasick EXCEPT !.patterns = patterns]

\* What an automaton has is one pattern for each of its rules, the first of that rule.
Indexed(kept, patterns, rules, a) ==
    /\ patterns \in Seq(Words) /\ NonEmpty(patterns)
    /\ rules \in Seq(DOMAIN kept) /\ Len(rules) = Len(patterns)
    /\ \A id \in DOMAIN patterns :
         /\ kept[rules[id]] # <<>>
         /\ FastIn(kept[rules[id]]) = a /\ Head(kept[rules[id]]).pattern = patterns[id]
    /\ \A i \in DOMAIN kept : kept[i] # <<>> /\ FastIn(kept[i]) = a => \E id \in DOMAIN rules : rules[id] = i

ParsedRules ==
    /\ texts \in Seq(RuleTexts) /\ Len(texts) <= MaxRules
    /\ Rules \in Seq(Seq(Content)) /\ Len(Rules) = Len(texts)
    /\ \A i \in DOMAIN Rules : Rules[i] = ParseRule(texts[i])

Automated ==
    /\ built \in BOOLEAN
    /\ DOMAIN mpse = Automata /\ DOMAIN toRules = Automata
    /\ \A a \in Automata : IF built THEN Automaton(mpse[a].patterns, mpse[a])
                           ELSE mpse[a] = Unbuilt(mpse[a].patterns)

Candidates(found) ==
    {i \in DOMAIN Rules : Rules[i] = <<>>}
    \cup UNION {{toRules[a][r[1]] : r \in Range(found[a])} : a \in Automata}

\* A result is that of the search and of the rules for its payload.
ResultOf(r) ==
    /\ built /\ r.payload \in Payloads
    /\ \A a \in Automata : IsRow(r.found[a], AllOccurrences(mpse[a].patterns, Seen(a, r.payload)))
    /\ r.matched = {i \in Candidates(r.found) : RuleMatch(Rules[i], r.payload)}

RulesInv ==
    /\ ParsedRules /\ Automated
    /\ \A a \in Automata : Indexed(Rules, mpse[a].patterns, toRules[a], a)
    /\ result = NoResult \/ ResultOf(result)

\* What Lowered gives.
LEMMA LoweredIs ==
    ASSUME NEW s \in Words
    PROVE  /\ Lowered(s) \in Words /\ Len(Lowered(s)) = Len(s) /\ DOMAIN Lowered(s) = 1..Len(s)
           /\ \A i \in 1..Len(s) : Lowered(s)[i] = LowerCase[s[i]] /\ s[i] \in Bytes
           /\ Lowered(Lowered(s)) = Lowered(s)
           /\ Lowered(s) = Root <=> s = Root
<1> PICK u : u = Lowered(s)
  OBVIOUS
<1>1. Len(s) \in Nat /\ DOMAIN s = 1..Len(s) /\ \A i \in 1..Len(s) : s[i] \in Bytes
  BY DEF Words
<1>2. \A b \in Bytes : LowerCase[b] \in Bytes /\ LowerCase[LowerCase[b]] = LowerCase[b]
  BY BytesAssumption
<1>3. u = [i \in 1..Len(s) |-> LowerCase[s[i]]]
  BY <1>1 DEF Lowered
<1>4. u \in [1..Len(s) -> Bytes]
  BY <1>1, <1>2, <1>3
<1>5. u \in Words /\ Len(u) = Len(s) /\ DOMAIN u = 1..Len(s) /\ \A i \in 1..Len(s) : u[i] = LowerCase[s[i]]
  BY <1>1, <1>3, <1>4 DEF Words
<1>6. Lowered(u) = u
  <2>1. Lowered(u) = [i \in 1..Len(s) |-> LowerCase[u[i]]]
    BY <1>5 DEF Lowered
  <2>2. \A i \in 1..Len(s) : LowerCase[u[i]] = u[i]
    BY <1>1, <1>2, <1>5
  <2>3. u = [i \in 1..Len(s) |-> u[i]]
    BY <1>4
  <2> QED
    BY <2>1, <2>2, <2>3, Zenon
<1>7. u = Root <=> s = Root
  BY <1>5 DEF Root, Words
<1> QED
  BY <1>1, <1>5, <1>6, <1>7

-------------------------------------------------------------------------------
(* The parser *)

\* An option that a rule may have.
IsOption(option) ==
    \/ option.key = "content" /\ option.value \in Words
    \/ option.key = "nocase"
    \/ option.key \in NumericKeys /\ option.value \in Int

LEMMA ContentOfIsContent ==
    ASSUME NEW p \in Words, p # Root
    PROVE  ContentOf(p) \in Content
BY DEF ContentOf, Content, Absent

\* A modifier leaves a content one.
LEMMA ModifyContent ==
    ASSUME NEW c \in Content, NEW option, IsOption(option), option.key # "content"
    PROVE  Modify(c, option) \in Content
<1>1. /\ c \in [pattern : Words \ {Root}, nocase : BOOLEAN, offset : Int, depth : Int, distance : Int, within : Int]
      /\ c.nocase => Lowered(c.pattern) = c.pattern
  BY DEF Content
<1>2. CASE option.key = "nocase"
  <2> PICK low : low = Lowered(c.pattern)
    OBVIOUS
  <2>1. low \in Words /\ low # Root /\ Lowered(low) = low
    BY <1>1, LoweredIs
  <2>2. Modify(c, option) = [c EXCEPT !.nocase = TRUE, !.pattern = low]
    BY <1>2 DEF Modify
  <2> QED
    BY <1>1, <2>1, <2>2 DEF Content
<1>3. CASE option.key = "offset"
  <2>1. Modify(c, option) = [c EXCEPT !.offset = option.value] /\ option.value \in Int
    BY <1>3 DEF Modify, IsOption
  <2> QED
    BY <1>1, <2>1 DEF Content
<1>4. CASE option.key = "depth"
  <2>1. Modify(c, option) = [c EXCEPT !.depth = option.value] /\ option.value \in Int
    BY <1>4 DEF Modify, IsOption
  <2> QED
    BY <1>1, <2>1 DEF Content
<1>5. CASE option.key = "distance"
  <2>1. Modify(c, option) = [c EXCEPT !.distance = option.value] /\ option.value \in Int
    BY <1>5 DEF Modify, IsOption
  <2> QED
    BY <1>1, <2>1 DEF Content
<1>6. CASE option.key = "within"
  <2>1. Modify(c, option) = [c EXCEPT !.within = option.value] /\ option.value \in Int
    BY <1>6 DEF Modify, IsOption
  <2> QED
    BY <1>1, <2>1 DEF Content
<1> QED
  BY <1>2, <1>3, <1>4, <1>5, <1>6 DEF IsOption, NumericKeys

LEMMA AddOptionContents ==
    ASSUME NEW contents \in Seq(Content), NEW option, IsOption(option)
    PROVE  AddOption(contents, option) \in Seq(Content)
<1>1. CASE option.key = "content" /\ Parses(option)
  <2>1. option.value \in Words /\ option.value # Root
    BY <1>1 DEF IsOption, NumericKeys, Parses, Root
  <2>2. AddOption(contents, option) = Append(contents, ContentOf(option.value))
    BY <1>1 DEF AddOption
  <2>3. ContentOf(option.value) \in Content
    BY <2>1, ContentOfIsContent
  <2> QED
    BY <2>2, <2>3
<1>2. CASE option.key = "content" /\ ~ Parses(option)
  BY <1>2 DEF AddOption
<1>3. CASE option.key # "content" /\ contents = <<>>
  BY <1>3 DEF AddOption
<1>4. CASE option.key # "content" /\ contents # <<>>
  <2>1. Len(contents) \in 1..Len(contents) /\ contents[Len(contents)] \in Content
    BY <1>4
  <2> PICK c : c = Modify(contents[Len(contents)], option)
    OBVIOUS
  <2>2. c \in Content
    BY <1>4, <2>1, ModifyContent
  <2>3. AddOption(contents, option) = [contents EXCEPT ![Len(contents)] = c]
    BY <1>4 DEF AddOption
  <2> QED
    BY <2>1, <2>2, <2>3
<1> QED
  BY <1>1, <1>2, <1>3, <1>4

\* The contents after 0, 1, ... options.
ParseSteps(h, text) == h[0] = <<>> /\ \A i \in 1..Len(text) : h[i] = AddOption(h[i - 1], text[i])

\* A rule is parsed option by option.
LEMMA ParseIsSteps ==
    ASSUME NEW O, \A option \in O : IsOption(option), NEW text \in Seq(O)
    PROVE  \E h \in [0..Len(text) -> Seq(Content)] : ParseSteps(h, text) /\ ParseRule(text) = h[Len(text)]
<1> PICK X : X = Seq(Content)
  OBVIOUS
<1> PICK n : n = Len(text)
  OBVIOUS
<1> DEFINE step == [i \in 1..n |-> [x \in X |-> AddOption(x, text[i])]]
<1>1. n \in Nat /\ DOMAIN text = 1..n /\ \A i \in 1..n : IsOption(text[i])
  OBVIOUS
<1>2. <<>> \in X
  OBVIOUS
<1>3. step \in [1..n -> [X -> X]]
  BY <1>1, AddOptionContents
<1>4. \A i \in 1..n : \A x \in X : step[i][x] = AddOption(x, text[i])
  OBVIOUS
<1> HIDE DEF step
<1> DEFINE Eq(g) == g = [s \in SUBSET (1..n) |->
                           IF s = {} THEN <<>> ELSE LET x == Max(s) IN AddOption(g[s \ {x}], text[x])]
           it == CHOOSE g : Eq(g)
<1>5. ParseRule(text) = it[1..n]
  BY <1>1 DEF ParseRule, FoldLeft, MapThenFoldSet
<1>6. PICK f \in [SUBSET (1..n) -> X] : Follows(f, n, <<>>, step, X)
  BY <1>1, <1>2, <1>3, FollowerExists
<1>7. Eq(f)
  <2>1. ASSUME NEW s \in SUBSET (1..n)
        PROVE  f[s] = IF s = {} THEN <<>> ELSE LET x == Max(s) IN AddOption(f[s \ {x}], text[x])
    <3>1. s # {} => Max(s) \in 1..n
      BY <1>1, LastOfPicks DEF PicksFrom, LastOf
    <3> QED
      BY <1>4, <1>6, <3>1 DEF Follows
  <2>2. f = [s \in SUBSET (1..n) |-> f[s]]
    BY <1>6
  <2> QED
    BY <2>1, <2>2, Zenon
<1>8. Eq(it)
  <2> HIDE DEF Eq
  <2> QED
    BY <1>7, Zenon
<1>9. Follows(it, n, <<>>, step, X)
  <2>1. ASSUME NEW s \in SUBSET (1..n)
        PROVE  it[s] = IF s = {} THEN <<>> ELSE LET x == Max(s) IN AddOption(it[s \ {x}], text[x])
    BY <1>8, Zenon
  <2> HIDE DEF Eq, it
  <2>2. ASSUME NEW s \in SUBSET (1..n), s # {} PROVE Max(s) \in 1..n
    BY <1>1, <2>2, LastOfPicks DEF PicksFrom, LastOf
  <2> QED
    BY <1>4, <2>1, <2>2 DEF Follows
<1> HIDE DEF Eq, it
<1>10. PICK h \in [0..n -> X] : Steps(h, n, <<>>, step) /\ it[1..n] = h[n]
  <2> PICK none : none = <<>>
    OBVIOUS
  <2>1. none \in X /\ Follows(it, n, none, step, X)
    BY <1>2, <1>9
  <2>2. \E h \in [0..n -> X] : Steps(h, n, none, step) /\ it[1..n] = h[n]
    <3>1. n \in Nat
      BY <1>1
    <3> QED
      BY ONLY <3>1, <1>3, <2>1, FoldSteps
  <2> QED
    BY <2>2
<1>11. ParseSteps(h, text)
  <2>1. \A i \in 1..n : h[i - 1] \in X
    BY <1>1, <1>10
  <2> QED
    BY <1>4, <1>10, <2>1 DEF Steps, ParseSteps
<1> QED
  BY <1>5, <1>10, <1>11

LEMMA RuleTextHasOptions ==
    ASSUME NEW text \in RuleTexts
    PROVE  text \in Seq(Range(text)) /\ \A option \in Range(text) : IsOption(option)
BY RuleTextsAssumption DEF IsOption, Words

\* The contents of a rule that is read.
LEMMA ParsedContents ==
    ASSUME NEW text \in RuleTexts
    PROVE  ParseRule(text) \in Seq(Content)
<1>1. text \in Seq(Range(text)) /\ \A option \in Range(text) : IsOption(option)
  BY RuleTextHasOptions
<1> PICK O : O = Range(text)
  OBVIOUS
<1>2. PICK h \in [0..Len(text) -> Seq(Content)] : ParseSteps(h, text) /\ ParseRule(text) = h[Len(text)]
  <2>1. text \in Seq(O) /\ \A option \in O : IsOption(option)
    BY <1>1
  <2> QED
    BY <2>1, ParseIsSteps
<1>3. Len(text) \in 0..Len(text)
  BY <1>1
<1> QED
  BY <1>2, <1>3

LEMMA AppendIs ==
    ASSUME NEW S, NEW q \in Seq(S), NEW e \in S
    PROVE  /\ Append(q, e) \in Seq(S) /\ Len(Append(q, e)) = Len(q) + 1 /\ Len(q) \in Nat
           /\ DOMAIN Append(q, e) = 1..(Len(q) + 1) /\ DOMAIN q = 1..Len(q)
           /\ \A i \in 1..Len(q) : Append(q, e)[i] = q[i]
           /\ Append(q, e)[Len(q) + 1] = e
OBVIOUS

\* A rule that is not for this automaton changes nothing for it.
LEMMA IndexedStill ==
    ASSUME NEW kept \in Seq(Seq(Content)), NEW contents \in Seq(Content), NEW more, more = Append(kept, contents),
           NEW a, NEW patterns, NEW rules, Indexed(kept, patterns, rules, a),
           contents = <<>> \/ FastIn(contents) # a
    PROVE  Indexed(more, patterns, rules, a)
<1> PICK n : n = Len(kept)
  OBVIOUS
<1>1. /\ n \in Nat /\ DOMAIN kept = 1..n /\ DOMAIN more = 1..(n + 1)
      /\ \A i \in 1..n : more[i] = kept[i]
      /\ more[n + 1] = contents
  BY AppendIs
<1>2. /\ patterns \in Seq(Words) /\ NonEmpty(patterns)
      /\ rules \in Seq(1..n) /\ Len(rules) = Len(patterns)
      /\ \A id \in DOMAIN patterns :
           /\ kept[rules[id]] # <<>>
           /\ FastIn(kept[rules[id]]) = a /\ Head(kept[rules[id]]).pattern = patterns[id]
      /\ \A i \in 1..n : kept[i] # <<>> /\ FastIn(kept[i]) = a => \E id \in DOMAIN rules : rules[id] = i
  BY <1>1 DEF Indexed
<1>3. rules \in Seq(1..(n + 1))
  <2>1. 1..n \subseteq 1..(n + 1)
    BY <1>1
  <2> QED
    BY <1>2, <2>1, SeqOfMore
<1>4. \A id \in DOMAIN patterns : rules[id] \in 1..n
  <2>1. DOMAIN patterns = DOMAIN rules
    BY <1>2
  <2> QED
    BY <1>2, <2>1
<1>5. \A id \in DOMAIN patterns :
           /\ more[rules[id]] # <<>>
           /\ FastIn(more[rules[id]]) = a /\ Head(more[rules[id]]).pattern = patterns[id]
  BY <1>1, <1>2, <1>4
<1>6. ASSUME NEW i \in 1..(n + 1), more[i] # <<>>, FastIn(more[i]) = a
      PROVE  \E id \in DOMAIN rules : rules[id] = i
  <2>1. i # n + 1
    BY <1>1, <1>6
  <2>2. i \in 1..n
    BY <1>1, <2>1
  <2> QED
    BY <1>1, <1>2, <1>6, <2>2
<1> QED
  BY <1>1, <1>2, <1>3, <1>5, <1>6 DEF Indexed

\* A rule that is.
LEMMA IndexedMore ==
    ASSUME NEW kept \in Seq(Seq(Content)), NEW contents \in Seq(Content), NEW more, more = Append(kept, contents),
           contents # <<>>, NEW a, FastIn(contents) = a,
           NEW patterns, NEW rules, Indexed(kept, patterns, rules, a)
    PROVE  Indexed(more, Append(patterns, Head(contents).pattern), Append(rules, Len(kept) + 1), a)
<1>n. PICK n : n = Len(kept)
  OBVIOUS
<1>m. PICK m : m = Len(patterns)
  OBVIOUS
<1>key. PICK key : key = Head(contents).pattern
  OBVIOUS
<1>1. /\ n \in Nat /\ DOMAIN kept = 1..n /\ DOMAIN more = 1..(n + 1)
      /\ \A i \in 1..n : more[i] = kept[i]
      /\ more[n + 1] = contents
  BY <1>n, AppendIs
<1>2. /\ patterns \in Seq(Words) /\ NonEmpty(patterns)
      /\ rules \in Seq(1..n) /\ Len(rules) = m
      /\ \A id \in DOMAIN patterns :
           /\ kept[rules[id]] # <<>>
           /\ FastIn(kept[rules[id]]) = a /\ Head(kept[rules[id]]).pattern = patterns[id]
      /\ \A i \in 1..n : kept[i] # <<>> /\ FastIn(kept[i]) = a => \E id \in DOMAIN rules : rules[id] = i
  BY <1>1, <1>m DEF Indexed
<1>3. rules \in Seq(1..(n + 1)) /\ n + 1 \in 1..(n + 1)
  <2>1. 1..n \subseteq 1..(n + 1)
    BY <1>1
  <2> QED
    BY <1>1, <1>2, <2>1, SeqOfMore
<1>4. key \in Words /\ key # Root
  <2>1. Head(contents) \in Content
    OBVIOUS
  <2> QED
    BY <1>key, <2>1 DEF Content
<1>P. PICK P : P = Append(patterns, key)
  OBVIOUS
<1>R. PICK R : R = Append(rules, n + 1)
  OBVIOUS
<1>5. /\ P \in Seq(Words) /\ Len(P) = m + 1 /\ m \in Nat /\ DOMAIN P = 1..(m + 1) /\ DOMAIN patterns = 1..m
      /\ (\A i \in 1..m : P[i] = patterns[i]) /\ P[m + 1] = key
  BY <1>2, <1>4, <1>m, <1>P, AppendIs
<1>6. /\ R \in Seq(1..(n + 1)) /\ Len(R) = m + 1 /\ DOMAIN R = 1..(m + 1) /\ DOMAIN rules = 1..m
      /\ (\A i \in 1..m : R[i] = rules[i]) /\ R[m + 1] = n + 1
  BY <1>2, <1>3, <1>m, <1>R, AppendIs
<1>7. \A id \in 1..m : rules[id] \in 1..n
  <2>1. rules \in Seq(1..n) /\ Len(rules) = m
    BY <1>2
  <2> QED
    BY <2>1, ElementOfSeq
<1>8. NonEmpty(P)
  BY <1>2, <1>4, <1>5 DEF NonEmpty
<1>9. ASSUME NEW id \in 1..(m + 1)
      PROVE  more[R[id]] # <<>> /\ FastIn(more[R[id]]) = a /\ Head(more[R[id]]).pattern = P[id]
  <2>1. CASE id = m + 1
    <3>1. R[id] = n + 1 /\ P[id] = key
      BY <1>5, <1>6, <2>1
    <3>2. more[R[id]] = contents
      BY <1>1, <3>1
    <3> QED
      BY <1>key, <3>1, <3>2, Zenon
  <2>2. CASE id \in 1..m
    <3>1. R[id] = rules[id] /\ P[id] = patterns[id] /\ id \in DOMAIN patterns /\ rules[id] \in 1..n
      BY <1>5, <1>6, <1>7, <2>2
    <3>2. more[R[id]] = kept[rules[id]]
      BY <1>1, <3>1
    <3>3. kept[rules[id]] # <<>> /\ FastIn(kept[rules[id]]) = a /\ Head(kept[rules[id]]).pattern = patterns[id]
      BY <1>2, <3>1
    <3> QED
      BY <3>1, <3>2, <3>3, Zenon
  <2>3. m \in Nat
    BY <1>5
  <2>4. id = m + 1 \/ id \in 1..m
    BY <2>3
  <2> QED
    BY <2>1, <2>2, <2>4
<1>10. ASSUME NEW i \in 1..(n + 1), more[i] # <<>>, FastIn(more[i]) = a
       PROVE  \E id \in 1..(m + 1) : R[id] = i
  <2>1. CASE i = n + 1
    <3>1. m + 1 \in 1..(m + 1)
      BY <1>5
    <3> QED
      BY <1>6, <2>1, <3>1
  <2>2. CASE i \in 1..n
    <3>1. PICK id \in 1..m : rules[id] = i
      BY <1>1, <1>2, <1>6, <1>10, <2>2
    <3>2. id \in 1..(m + 1) /\ R[id] = i
      BY <1>5, <1>6, <3>1
    <3> QED
      BY <3>2
  <2>3. n \in Nat
    BY <1>1
  <2>4. i = n + 1 \/ i \in 1..n
    BY <2>3
  <2> QED
    BY <2>1, <2>2, <2>4
<1>11. Indexed(more, P, R, a)
  BY <1>1, <1>5, <1>6, <1>8, <1>9, <1>10 DEF Indexed
<1> QED
  BY <1>11, <1>n, <1>key, <1>P, <1>R, Zenon

\* The first pattern of a rule is the key, whatever its case.
LEMMA KeyIsPattern ==
    ASSUME NEW contents \in Seq(Content), contents # <<>>
    PROVE  /\ FastIn(contents) \in Automata
           /\ (IF FastIn(contents) = "nocase" THEN Lowered(Head(contents).pattern) ELSE Head(contents).pattern)
              = Head(contents).pattern
<1>1. Head(contents) \in Content
  OBVIOUS
<1> QED
  BY <1>1 DEF Content, FastIn, Automata

-------------------------------------------------------------------------------
(* The invariant of the engine *)

LEMMA UnbuiltIs ==
    ASSUME NEW patterns
    PROVE  /\ Unbuilt(patterns).patterns = patterns
           /\ \A key : [Unbuilt(patterns) EXCEPT !.patterns = Append(@, key)] = Unbuilt(Append(patterns, key))
           /\ DOMAIN Unbuilt(patterns).fail = DOMAIN Unbuilt(patterns).outputs
BY DEF Unbuilt, NewAhoCorasick

\* The invariant holds at the start, and every step keeps it.
LEMMA RulesInvInit == RInit => RulesInv
<1> SUFFICES ASSUME RInit PROVE RulesInv
  OBVIOUS
<1> USE DEF RInit
<1>1. ParsedRules
  BY MaxRulesAssumption DEF ParsedRules
<1>2. Automated
  BY DEF Automated, Unbuilt, NewAhoCorasick
<1>3. ASSUME NEW a \in Automata PROVE Indexed(Rules, mpse[a].patterns, toRules[a], a)
  <2>1. mpse[a].patterns = <<>> /\ toRules[a] = <<>> /\ Rules = <<>>
    BY DEF NewAhoCorasick
  <2>2. Indexed(Rules, <<>>, <<>>, a)
    BY <2>1 DEF Indexed, NonEmpty
  <2> QED
    BY <2>1, <2>2, Zenon
<1> QED
  BY <1>1, <1>2, <1>3 DEF RulesInv

LEMMA RulesInvAdd ==
    ASSUME RulesInv, NEW text \in RuleTexts, AddRule(text)
    PROVE  RulesInv'
<1> PICK contents : contents = ParseRule(text)
  OBVIOUS
<1>1. /\ ~built /\ Len(Rules) < MaxRules /\ texts' = Append(texts, text) /\ Rules' = Append(Rules, contents)
      /\ built' = built /\ result' = result
  BY DEF AddRule
<1>2. ParsedRules /\ Automated /\ (\A a \in Automata : Indexed(Rules, mpse[a].patterns, toRules[a], a))
      /\ (result = NoResult \/ ResultOf(result))
  BY DEF RulesInv
<1>3. contents \in Seq(Content)
  BY ParsedContents
<1>4. ParsedRules'
  <2>1. texts \in Seq(RuleTexts) /\ Rules \in Seq(Seq(Content)) /\ Len(Rules) = Len(texts)
        /\ \A i \in DOMAIN Rules : Rules[i] = ParseRule(texts[i])
    BY <1>2 DEF ParsedRules
  <2> PICK n : n = Len(texts)
    OBVIOUS
  <2>2. /\ texts' \in Seq(RuleTexts) /\ Len(texts') = n + 1 /\ n \in Nat
        /\ (\A i \in 1..n : texts'[i] = texts[i]) /\ texts'[n + 1] = text
    BY <1>1, <2>1, AppendIs
  <2>3. /\ Rules' \in Seq(Seq(Content)) /\ Len(Rules') = n + 1 /\ DOMAIN Rules' = 1..(n + 1) /\ DOMAIN Rules = 1..n
        /\ (\A i \in 1..n : Rules'[i] = Rules[i]) /\ Rules'[n + 1] = contents
    BY <1>1, <1>3, <2>1, AppendIs
  <2>4. ASSUME NEW i \in 1..(n + 1) PROVE Rules'[i] = ParseRule(texts'[i])
    <3>1. CASE i = n + 1
      BY <2>2, <2>3, <3>1
    <3>2. CASE i \in 1..n
      BY <2>1, <2>2, <2>3, <3>2
    <3> QED
      BY <2>2, <3>1, <3>2
  <2>5. n + 1 <= MaxRules
    BY <1>1, <2>1, <2>2, MaxRulesAssumption
  <2> QED
    BY <2>2, <2>3, <2>4, <2>5 DEF ParsedRules
<1>5. Rules \in Seq(Seq(Content)) /\ DOMAIN mpse = Automata /\ DOMAIN toRules = Automata
      /\ \A a \in Automata : mpse[a] = Unbuilt(mpse[a].patterns)
  BY <1>1, <1>2 DEF ParsedRules, Automated
<1>6. result' = NoResult \/ ResultOf(result)'
  <2>1. result = NoResult
    BY <1>1, <1>2 DEF ResultOf
  <2> QED
    BY <1>1, <2>1
<1>7. CASE contents = <<>>
  <2>1. mpse' = mpse /\ toRules' = toRules
    BY <1>7 DEF AddRule
  <2>2. Automated'
    BY <1>1, <1>2, <2>1 DEF Automated
  <2>3. ASSUME NEW a \in Automata PROVE Indexed(Rules, mpse[a].patterns, toRules[a], a)'
    <3> PICK patterns : patterns = mpse[a].patterns
      OBVIOUS
    <3> PICK rules : rules = toRules[a]
      OBVIOUS
    <3>1. Indexed(Rules, patterns, rules, a)
      BY <1>2
    <3>2. Indexed(Rules', patterns, rules, a)
      BY <1>1, <1>3, <1>5, <1>7, <3>1, IndexedStill
    <3> QED
      BY <2>1, <3>2
  <2> QED
    BY <1>4, <1>6, <2>2, <2>3 DEF RulesInv
<1>8. CASE contents # <<>>
  <2> PICK a0 : a0 = FastIn(contents)
    OBVIOUS
  <2> PICK key : key = Head(contents).pattern
    OBVIOUS
  <2>1. a0 \in Automata
    BY <1>3, <1>8, KeyIsPattern
  <2>2. mpse' = [mpse EXCEPT ![a0].patterns = Append(@, key)] /\ toRules' = [toRules EXCEPT ![a0] = Append(@, Len(Rules) + 1)]
    <3>1. (IF a0 = "nocase" THEN Lowered(Head(contents).pattern) ELSE Head(contents).pattern) = key
      BY <1>3, <1>8, KeyIsPattern
    <3> QED
      BY <1>8, <3>1 DEF AddRule, FastIn
  <2>3. /\ mpse'[a0] = Unbuilt(Append(mpse[a0].patterns, key)) /\ toRules'[a0] = Append(toRules[a0], Len(Rules) + 1)
        /\ DOMAIN mpse' = Automata /\ DOMAIN toRules' = Automata
        /\ \A a \in Automata \ {a0} : mpse'[a] = mpse[a] /\ toRules'[a] = toRules[a]
    <3>1. mpse[a0] = Unbuilt(mpse[a0].patterns)
      BY <1>5, <2>1
    <3>3. mpse'[a0] = [mpse[a0] EXCEPT !.patterns = Append(@, key)]
      BY <1>5, <2>1, <2>2
    <3>4. mpse'[a0] = Unbuilt(Append(mpse[a0].patterns, key))
      <4> PICK patterns : patterns = mpse[a0].patterns
        OBVIOUS
      <4>1. mpse[a0] = Unbuilt(patterns) /\ mpse'[a0] = [mpse[a0] EXCEPT !.patterns = Append(patterns, key)]
        BY <3>1, <3>3
      <4>2. mpse'[a0] = [Unbuilt(patterns) EXCEPT !.patterns = Append(patterns, key)]
        BY <4>1
      <4>3. [Unbuilt(patterns) EXCEPT !.patterns = Append(patterns, key)] = Unbuilt(Append(patterns, key))
        BY DEF Unbuilt, NewAhoCorasick
      <4> QED
        BY <4>2, <4>3
    <3> QED
      BY <1>5, <2>1, <2>2, <3>4
  <2>4. Automated'
    <3>1. ASSUME NEW a \in Automata PROVE mpse'[a] = Unbuilt(mpse'[a].patterns)
      <4>1. CASE a = a0
        <5>1. PICK patterns : patterns = Append(mpse[a0].patterns, key)
          OBVIOUS
        <5>2. mpse'[a] = Unbuilt(patterns)
          BY <2>3, <4>1, <5>1
        <5> QED
          BY <5>2, UnbuiltIs
      <4>2. CASE a # a0
        BY <1>5, <2>3, <4>2
      <4> QED
        BY <4>1, <4>2
    <3> QED
      BY <1>1, <1>2, <2>3, <3>1 DEF Automated
  <2>5. ASSUME NEW a \in Automata PROVE Indexed(Rules, mpse[a].patterns, toRules[a], a)'
    <3> PICK patterns : patterns = mpse[a].patterns
      OBVIOUS
    <3> PICK rules : rules = toRules[a]
      OBVIOUS
    <3>1. Indexed(Rules, patterns, rules, a)
      BY <1>2
    <3>2. CASE a # a0
      <4>1. Indexed(Rules', patterns, rules, a)
        BY <1>1, <1>3, <1>5, <3>1, <3>2, IndexedStill
      <4> QED
        BY <2>3, <3>2, <4>1
    <3>3. CASE a = a0
      <4>1. Indexed(Rules', Append(patterns, Head(contents).pattern), Append(rules, Len(Rules) + 1), a)
        BY <1>1, <1>3, <1>5, <1>8, <3>1, <3>3, IndexedMore
      <4>2. mpse'[a].patterns = Append(patterns, Head(contents).pattern) /\ toRules'[a] = Append(rules, Len(Rules) + 1)
        <5>1. PICK more : more = Append(patterns, Head(contents).pattern)
          OBVIOUS
        <5>2. mpse'[a] = Unbuilt(more)
          BY <2>3, <3>3, <5>1
        <5>3. Unbuilt(more).patterns = more
          BY UnbuiltIs
        <5> QED
          BY <2>3, <3>3, <5>1, <5>2, <5>3
      <4> QED
        BY <4>1, <4>2, Zenon
    <3> QED
      BY <3>2, <3>3
  <2> QED
    BY <1>4, <1>6, <2>4, <2>5 DEF RulesInv
<1> QED
  BY <1>7, <1>8

LEMMA RulesInvBuild ==
    ASSUME RulesInv, Build
    PROVE  RulesInv'
<1>1. ParsedRules /\ Automated /\ (\A a \in Automata : Indexed(Rules, mpse[a].patterns, toRules[a], a))
      /\ (result = NoResult \/ ResultOf(result))
  BY DEF RulesInv
<1>2. /\ ~built /\ built' = TRUE /\ texts' = texts /\ Rules' = Rules /\ toRules' = toRules /\ result' = result
      /\ mpse' = [a \in Automata |-> BuildAutomaton(mpse[a].patterns)]
  BY DEF Build
<1>3. ASSUME NEW a \in Automata
      PROVE  /\ mpse'[a].patterns = mpse[a].patterns
             /\ Automaton(mpse'[a].patterns, mpse'[a])
  <2> PICK patterns : patterns = mpse[a].patterns
    OBVIOUS
  <2>1. patterns \in Seq(Words) /\ NonEmpty(patterns)
    BY <1>1 DEF Indexed
  <2> PICK ac : ac = BuildAutomaton(patterns)
    OBVIOUS
  <2>2. Automaton(patterns, ac)
    BY <2>1, BuildIsComplete
  <2>3. ac.patterns = patterns
    BY <2>2 DEF Automaton
  <2>4. mpse'[a] = ac
    BY <1>2
  <2> QED
    BY <2>2, <2>3, <2>4
<1>4. ParsedRules'
  BY <1>1, <1>2 DEF ParsedRules
<1>5. Automated'
  BY <1>1, <1>2, <1>3 DEF Automated
<1>6. ASSUME NEW a \in Automata PROVE Indexed(Rules, mpse[a].patterns, toRules[a], a)'
  BY <1>1, <1>2, <1>3
<1>7. result' = NoResult
  BY <1>1, <1>2 DEF ResultOf
<1> QED
  BY <1>4, <1>5, <1>6, <1>7 DEF RulesInv

\* What an automaton sees of a payload.
LEMMA SeenIsWord ==
    ASSUME NEW payload \in Words, NEW a
    PROVE  Seen(a, payload) \in Words
BY LoweredIs DEF Seen

LEMMA RulesInvMatch ==
    ASSUME RulesInv, NEW payload \in Payloads, Match(payload)
    PROVE  RulesInv'
<1> DEFINE found == [a \in Automata |-> Search(mpse[a], IF a = "nocase" THEN Lowered(payload) ELSE payload)]
<1>1. ParsedRules /\ Automated /\ (\A a \in Automata : Indexed(Rules, mpse[a].patterns, toRules[a], a))
  BY DEF RulesInv
<1>2. /\ built /\ built' = built /\ texts' = texts /\ Rules' = Rules /\ toRules' = toRules /\ mpse' = mpse
      /\ result' = [payload |-> payload, found |-> found,
                    matched |-> {i \in Candidates(found) : RuleMatch(Rules[i], payload)}]
  BY DEF Match, Candidates
<1>3. ASSUME NEW a \in Automata PROVE IsRow(found[a], AllOccurrences(mpse[a].patterns, Seen(a, payload)))
  <2> PICK patterns : patterns = mpse[a].patterns
    OBVIOUS
  <2> PICK ac : ac = mpse[a]
    OBVIOUS
  <2> PICK s : s = Seen(a, payload)
    OBVIOUS
  <2>1. patterns \in Seq(Words) /\ NonEmpty(patterns)
    BY <1>1 DEF Indexed
  <2>2. Automaton(patterns, ac)
    BY <1>1, <1>2 DEF Automated
  <2>3. s \in Words
    BY PayloadsAssumption, SeenIsWord DEF Words
  <2>4. IsRow(Search(ac, s), AllOccurrences(patterns, s))
    BY <2>1, <2>2, <2>3, SearchIsRight
  <2>5. found[a] = Search(ac, s)
    BY DEF Seen
  <2> QED
    BY <2>4, <2>5
<1> HIDE DEF found
<1>4. ParsedRules' /\ Automated' /\ (\A a \in Automata : Indexed(Rules, mpse[a].patterns, toRules[a], a))'
  <2>1. ParsedRules'
    BY <1>1, <1>2 DEF ParsedRules
  <2>2. Automated'
    BY <1>1, <1>2 DEF Automated
  <2>3. (\A a \in Automata : Indexed(Rules, mpse[a].patterns, toRules[a], a))'
    BY <1>1, <1>2
  <2> QED
    BY <2>1, <2>2, <2>3
<1>f. PICK f : f = found
  OBVIOUS
<1>5. ResultOf(result)'
  <2>1. result'.payload = payload /\ result'.found = f
        /\ result'.matched = {i \in Candidates(f) : RuleMatch(Rules[i], payload)}
    BY <1>2, <1>f
  <2>2. Candidates(f)' = Candidates(f)
    BY <1>2 DEF Candidates
  <2>3. \A a \in Automata : IsRow(result'.found[a], AllOccurrences(mpse'[a].patterns, Seen(a, result'.payload)))
    BY <1>2, <1>3, <1>f, <2>1
  <2>4. result'.matched = {i \in Candidates(result.found)' : RuleMatch(Rules'[i], result'.payload)}
    <3>1. Candidates(result.found)' = Candidates(f)
      BY <1>2, <2>1 DEF Candidates
    <3> QED
      BY <1>2, <2>1, <3>1
  <2> QED
    BY <1>2, <2>1, <2>3, <2>4 DEF ResultOf
<1> QED
  BY <1>4, <1>5 DEF RulesInv

LEMMA RulesInvStep == RulesInv /\ [RNext]_rvars => RulesInv'
<1> SUFFICES ASSUME RulesInv, [RNext]_rvars PROVE RulesInv'
  OBVIOUS
<1>1. CASE LoadRulesFromDirectory
  BY <1>1, RulesInvAdd DEF LoadRulesFromDirectory
<1>2. CASE Build
  BY <1>2, RulesInvBuild
<1>3. CASE \E p \in Payloads : Match(p)
  BY <1>3, RulesInvMatch
<1>4. CASE UNCHANGED rvars
  <2>1. texts' = texts /\ Rules' = Rules /\ mpse' = mpse /\ toRules' = toRules /\ built' = built /\ result' = result
    BY <1>4 DEF rvars
  <2>2. ParsedRules' <=> ParsedRules
    BY <2>1 DEF ParsedRules
  <2>3. Automated' <=> Automated
    BY <2>1 DEF Automated
  <2>4. ResultOf(result)' <=> ResultOf(result)
    BY <2>1 DEF ResultOf, Candidates
  <2> QED
    BY <2>1, <2>2, <2>3, <2>4 DEF RulesInv
<1> QED
  BY <1>1, <1>2, <1>3, <1>4 DEF RNext

\* The rules are those of their texts, each automaton is complete for the first
\* patterns of its rules, and a result is what they give for its payload
\* (engine.go, AddRule, Build and Match).
THEOREM EngineInvariant == RuleSpec => []RulesInv
BY RulesInvInit, RulesInvStep, PTL DEF RuleSpec

LEMMA RulesInvSearches == RulesInv => SearchFindsAll
<1> SUFFICES ASSUME RulesInv, built, NEW a \in Automata, result # NoResult
             PROVE  LET s == IF a = "nocase" THEN Lowered(result.payload) ELSE result.payload
                        found == result.found[a]
                        occurrences == AllOccurrences(mpse[a].patterns, s)
                    IN  Range(found) = occurrences /\ Len(found) = Cardinality(occurrences)
  BY DEF SearchFindsAll
<1>1. IsRow(result.found[a], AllOccurrences(mpse[a].patterns, Seen(a, result.payload)))
  BY DEF RulesInv, ResultOf
<1> QED
  BY <1>1 DEF IsRow, Seen

\* A search finds every occurrence of every pattern, each once, whatever patterns were
\* added in whatever order (ahocorasick.go, Build and Search).
THEOREM SearchesFindAll == RuleSpec => []SearchFindsAll
BY EngineInvariant, RulesInvSearches, PTL

LEMMA RulesInvTypes == RulesInv => RulesTypeOK
<1> SUFFICES ASSUME RulesInv PROVE RulesTypeOK
  OBVIOUS
<1>1. ParsedRules /\ Automated /\ (\A a \in Automata : Indexed(Rules, mpse[a].patterns, toRules[a], a))
      /\ (result = NoResult \/ ResultOf(result))
  BY DEF RulesInv
<1>2. texts \in BoundedSeq(RuleTexts, MaxRules) /\ Len(Rules) = Len(texts)
  <2>1. Len(texts) \in 0..MaxRules /\ texts \in [1..Len(texts) -> RuleTexts] /\ Len(Rules) = Len(texts)
    BY <1>1, MaxRulesAssumption DEF ParsedRules
  <2> QED
    BY <2>1 DEF BoundedSeq, SeqOf
<1>3. ASSUME NEW i \in DOMAIN Rules, NEW c \in Range(Rules[i]) PROVE DOMAIN c = DOMAIN ContentOf(<<>>)
  <2>1. Rules[i] \in Seq(Content)
    BY <1>1 DEF ParsedRules
  <2>2. c \in Content
    BY <2>1 DEF Range
  <2> QED
    BY <2>2 DEF Content, ContentOf
<1>4. ASSUME NEW a \in Automata
      PROVE  Range(toRules[a]) \subseteq DOMAIN Rules /\ DOMAIN mpse[a].fail = DOMAIN mpse[a].outputs
  <2>1. toRules[a] \in Seq(DOMAIN Rules)
    BY <1>1 DEF Indexed
  <2>2. Range(toRules[a]) \subseteq DOMAIN Rules
    BY <2>1 DEF Range
  <2>3. CASE built
    BY <1>1, <2>2, <2>3 DEF Automated, Automaton
  <2>4. CASE ~built
    BY <1>1, <2>2, <2>4, UnbuiltIs DEF Automated
  <2> QED
    BY <2>3, <2>4
<1>5. result.payload \in Payloads \cup {<<>>} /\ result.matched \subseteq DOMAIN Rules
  <2>1. CASE result = NoResult
    BY <2>1 DEF NoResult
  <2>2. CASE ResultOf(result)
    <3>1. ASSUME NEW a \in Automata, NEW r \in Range(result.found[a]) PROVE toRules[a][r[1]] \in DOMAIN Rules
      <4>1. r \in AllOccurrences(mpse[a].patterns, Seen(a, result.payload))
        BY <2>2, <3>1 DEF ResultOf, IsRow
      <4>2. r[1] \in DOMAIN mpse[a].patterns
        BY <4>1 DEF AllOccurrences
      <4>3. toRules[a] \in Seq(DOMAIN Rules) /\ Len(toRules[a]) = Len(mpse[a].patterns) /\ mpse[a].patterns \in Seq(Words)
        BY <1>1 DEF Indexed
      <4> QED
        BY <4>2, <4>3
    <3>2. Candidates(result.found) \subseteq DOMAIN Rules
      BY <3>1 DEF Candidates
    <3> QED
      BY <2>2, <3>2 DEF ResultOf
  <2> QED
    BY <1>1, <2>1, <2>2
<1> QED
  BY <1>2, <1>3, <1>4, <1>5 DEF RulesTypeOK

\* The state of the rule engine is well formed.
THEOREM RulesWellFormed == RuleSpec => []RulesTypeOK
BY EngineInvariant, RulesInvTypes, PTL

-------------------------------------------------------------------------------
(* ToLower *)

\* The pieces put together so far.
Pieces(h, n, seqs) == h[0] = <<>> /\ \A i \in 1..n : h[i] = h[i - 1] \o seqs[i]

\* Pieces appended one by one, as a function of their number.
LEMMA PiecesExist ==
    ASSUME NEW B, NEW seqs \in Seq(Seq(B)), NEW n, n = Len(seqs)
    PROVE  \E h \in [0..n -> Seq(B)] : Pieces(h, n, seqs)
<1> PICK X : X = Seq(B)
  OBVIOUS
<1> PICK none : none = <<>>
  OBVIOUS
<1> DEFINE step == [i \in 1..n |-> [x \in X |-> x \o seqs[i]]]
<1>1. n \in Nat /\ none \in X /\ \A i \in 1..n : seqs[i] \in X
  OBVIOUS
<1>2. step \in [1..n -> [X -> X]]
  BY <1>1
<1>3. \A i \in 1..n : \A x \in X : step[i][x] = x \o seqs[i]
  OBVIOUS
<1> HIDE DEF step
<1>4. \E h \in [0..n -> X] : Steps(h, n, none, step)
  <2>1. PICK f \in [SUBSET (1..n) -> X] : Follows(f, n, none, step, X)
    BY ONLY <1>1, <1>2, FollowerExists
  <2>2. n \in Nat /\ none \in X
    BY <1>1
  <2> QED
    BY ONLY <2>2, <1>2, <2>1, FoldSteps
<1>5. PICK h \in [0..n -> X] : Steps(h, n, none, step)
  BY <1>4
<1>6. ASSUME NEW i \in 1..n PROVE h[i - 1] \in X
  <2>1. n \in Nat
    BY <1>1
  <2>2. i - 1 \in 0..n
    BY ONLY <2>1, i \in 1..n
  <2> QED
    BY ONLY <1>5, <2>2
<1>7. Pieces(h, n, seqs)
  BY <1>3, <1>5, <1>6 DEF Steps, Pieces
<1> QED
  BY <1>7

\* FlattenSeq appends the pieces one by one.
LEMMA FlattenIs ==
    ASSUME NEW B, NEW seqs \in Seq(Seq(B)), NEW n, n = Len(seqs), NEW h \in [0..n -> Seq(B)], Pieces(h, n, seqs)
    PROVE  FlattenSeq(seqs) = h[n]
<1>1. n \in Nat /\ h[0] = <<>> /\ \A i \in 1..n : h[i] = h[i - 1] \o seqs[i]
  BY DEF Pieces
<1>2. CASE n = 0
  <2>1. seqs = <<>>
    <3> PICK X : X = Seq(B)
      OBVIOUS
    <3>1. seqs \in Seq(X) /\ Len(seqs) = 0
      BY <1>2
    <3> QED
      BY ONLY <3>1
  <2>2. FlattenSeq(seqs) = seqs
    BY <1>2 DEF FlattenSeq
  <2> QED
    BY <1>1, <1>2, <2>1, <2>2
<1>3. CASE n # 0
  <2> DEFINE Eq(g) == g = [i \in 1..n |-> IF i = 1 THEN seqs[i] ELSE g[i - 1] \o seqs[i]]
             it == CHOOSE g : Eq(g)
  <2>1. FlattenSeq(seqs) = it[n]
    BY <1>3 DEF FlattenSeq
  <2> PICK w : w = [i \in 1..n |-> h[i]]
    OBVIOUS
  <2>2. Eq(w)
    <3>1. ASSUME NEW i \in 1..n PROVE w[i] = IF i = 1 THEN seqs[i] ELSE w[i - 1] \o seqs[i]
      <4>1. CASE i = 1
        <5>1. w[1] = h[0] \o seqs[1] /\ seqs[1] \in Seq(B)
          <6>1. 1 \in 1..n /\ 1 \in 1..Len(seqs) /\ 1 - 1 = 0
            BY <4>1
          <6>2. seqs[1] \in Seq(B)
            BY <6>1, ElementOfSeq, Zenon
          <6>3. w[1] = h[1] /\ h[1] = h[0] \o seqs[1]
            BY <1>1, <6>1
          <6> QED
            BY <6>2, <6>3, Zenon
        <5>2. h[0] \o seqs[1] = seqs[1]
          BY <1>1, <5>1
        <5> QED
          BY <4>1, <5>1, <5>2
      <4>2. CASE i # 1
        <5>1. i - 1 \in 1..n
          BY <1>1, <4>2
        <5>2. w[i] = h[i] /\ w[i - 1] = h[i - 1]
          BY <5>1
        <5>3. h[i] = h[i - 1] \o seqs[i]
          BY <1>1
        <5> QED
          BY <4>2, <5>2, <5>3, Zenon
      <4> QED
        BY <4>1, <4>2
    <3>2. w = [i \in 1..n |-> w[i]]
      OBVIOUS
    <3> QED
      BY <3>1, <3>2, Zenon
  <2>3. Eq(it)
    <3> HIDE DEF Eq
    <3> QED
      BY <2>2, Zenon
  <2>4. ASSUME NEW i \in 1..n PROVE it[i] = IF i = 1 THEN seqs[i] ELSE it[i - 1] \o seqs[i]
    BY <2>3, Zenon
  <2>5. ASSUME NEW i \in 1..n PROVE w[i] = IF i = 1 THEN seqs[i] ELSE w[i - 1] \o seqs[i]
    BY <2>2, Zenon
  <2> HIDE DEF Eq, it
  <2> DEFINE T == {k \in Nat : k + 1 <= n => it[k + 1] = w[k + 1]}
  <2>6. 0 \in T
    <3>1. 1 \in 1..n
      BY <1>1, <1>3
    <3>2. it[1] = seqs[1] /\ w[1] = seqs[1]
      BY <2>4, <2>5, <3>1
    <3> QED
      BY <3>2
  <2>7. ASSUME NEW k \in Nat, k \in T PROVE k + 1 \in T
    <3> SUFFICES ASSUME (k + 1) + 1 <= n PROVE it[(k + 1) + 1] = w[(k + 1) + 1]
      OBVIOUS
    <3>1. it[k + 1] = w[k + 1]
      BY <1>1, <2>7
    <3> PICK i : i = (k + 1) + 1
      OBVIOUS
    <3>2. i \in 1..n /\ i # 1 /\ i - 1 = k + 1
      BY <1>1
    <3>3. it[i] = it[k + 1] \o seqs[i] /\ w[i] = w[k + 1] \o seqs[i]
      BY <2>4, <2>5, <3>2
    <3> QED
      BY <3>1, <3>3
  <2>8. Nat \subseteq T
    <3> HIDE DEF T
    <3> QED
      BY <2>6, <2>7, Induction
  <2>9. n - 1 \in Nat /\ (n - 1) + 1 = n
    BY <1>1, <1>3
  <2>10. it[n] = w[n]
    <3>1. n - 1 \in T
      BY <2>8, <2>9
    <3>2. n - 1 + 1 <= n => it[n - 1 + 1] = w[n - 1 + 1]
      BY <3>1
    <3>3. n - 1 + 1 = n /\ n <= n
      BY <1>1
    <3> QED
      BY ONLY <3>2, <3>3
  <2>11. w[n] = h[n]
    BY <1>1, <1>3
  <2> QED
    BY <2>1, <2>10, <2>11
<1> QED
  BY <1>2, <1>3

Out == Bytes \cup Range(Replacement)
Piece(b) == IF b \in Raw THEN Replacement ELSE <<LowerCase[b]>>

\* The pieces of a lowered word.
LEMMA LowerPieces ==
    ASSUME NEW s \in Words, NEW n, n = Len(s)
    PROVE  \E h \in [0..n -> Seq(Out)] :
              /\ h[0] = <<>> /\ \A i \in 1..n : h[i] = h[i - 1] \o Piece(s[i])
              /\ ToLower(s) = h[n]
<1>1. n \in Nat /\ DOMAIN s = 1..n /\ \A i \in 1..n : s[i] \in Bytes
  BY DEF Words
<1>2. ASSUME NEW b \in Bytes PROVE Piece(b) \in Seq(Out)
  <2>1. CASE b \in Raw
    <3>1. Replacement \in Seq(Range(Replacement)) /\ Range(Replacement) \subseteq Out
      BY BytesAssumption DEF Out
    <3>2. Replacement \in Seq(Out)
      BY <3>1, SeqOfMore
    <3> QED
      BY <2>1, <3>2 DEF Piece
  <2>2. CASE b \notin Raw
    <3>1. LowerCase[b] \in Out
      BY BytesAssumption DEF Out
    <3> QED
      BY <2>2, <3>1 DEF Piece
  <2> QED
    BY <2>1, <2>2
<1> PICK seqs : seqs = [i \in 1..n |-> Piece(s[i])]
  OBVIOUS
<1>3. seqs \in Seq(Seq(Out)) /\ Len(seqs) = n
  <2>1. \A i \in 1..n : Piece(s[i]) \in Seq(Out)
    BY <1>1, <1>2
  <2> PICK X : X = Seq(Out)
    OBVIOUS
  <2>2. seqs \in [1..n -> X]
    BY <2>1
  <2> QED
    BY <1>1, <2>2
<1>4. ToLower(s) = FlattenSeq(seqs)
  <2>1. seqs = [i \in DOMAIN s |-> IF s[i] \in Raw THEN Replacement ELSE <<LowerCase[s[i]]>>]
    BY <1>1 DEF Piece
  <2> QED
    BY <2>1, Zenon DEF ToLower
<1>5. PICK h \in [0..n -> Seq(Out)] : Pieces(h, n, seqs)
  BY <1>3, PiecesExist
<1>6. FlattenSeq(seqs) = h[n]
  <2>1. n = Len(seqs) /\ seqs \in Seq(Seq(Out)) /\ h \in [0..n -> Seq(Out)] /\ Pieces(h, n, seqs)
    BY <1>3, <1>5
  <2> QED
    BY ONLY <2>1, FlattenIs
<1>7. \A i \in 1..n : seqs[i] = Piece(s[i])
  OBVIOUS
<1> QED
  BY <1>4, <1>5, <1>6, <1>7 DEF Pieces

\* A text is lowered byte by byte.
LEMMA TextLowered ==
    ASSUME NEW s \in Words, IsText(s)
    PROVE  ToLower(s) = Lowered(s)
<1> PICK n : n = Len(s)
  OBVIOUS
<1>1. n \in Nat /\ DOMAIN s = 1..n /\ \A i \in 1..n : s[i] \in Bytes /\ s[i] \notin Raw
  BY DEF Words, IsText, Range
<1>2. PICK h \in [0..n -> Seq(Out)] :
         /\ h[0] = <<>> /\ \A i \in 1..n : h[i] = h[i - 1] \o Piece(s[i])
         /\ ToLower(s) = h[n]
  BY LowerPieces
<1> DEFINE T == {k \in Nat : k <= n => Len(h[k]) = k /\ \A j \in 1..k : h[k][j] = LowerCase[s[j]]}
<1>3. 0 \in T
  BY <1>2
<1>4. ASSUME NEW k \in Nat, k \in T PROVE k + 1 \in T
  <2> SUFFICES ASSUME k + 1 <= n PROVE Len(h[k + 1]) = k + 1 /\ \A j \in 1..(k + 1) : h[k + 1][j] = LowerCase[s[j]]
    OBVIOUS
  <2>d. PICK d : d = h[k]
    OBVIOUS
  <2>e. PICK e : e = LowerCase[s[k + 1]]
    OBVIOUS
  <2>1. k + 1 \in 1..n /\ (k + 1) - 1 = k /\ k \in 0..n
    BY <1>1
  <2>2. Len(d) = k /\ (\A j \in 1..k : d[j] = LowerCase[s[j]]) /\ d \in Seq(Out)
    BY <1>1, <1>2, <1>4, <2>d, <2>1
  <2>3. h[k + 1] = d \o <<e>> /\ e \in Out
    BY <1>1, <1>2, <2>d, <2>e, <2>1, BytesAssumption DEF Piece, Out
  <2>4. /\ Len(d \o <<e>>) = k + 1 /\ (\A j \in 1..k : (d \o <<e>>)[j] = d[j]) /\ (d \o <<e>>)[k + 1] = e
    <3>1. d \in Seq(Out) /\ e \in Out /\ Len(d) = k
      BY <2>2, <2>3
    <3> QED
      BY ONLY <3>1, OneMore
  <2>5. ASSUME NEW j \in 1..(k + 1) PROVE h[k + 1][j] = LowerCase[s[j]]
    <3>1. CASE j = k + 1
      BY <2>e, <2>3, <2>4, <3>1, Zenon
    <3>2. CASE j \in 1..k
      BY <2>2, <2>3, <2>4, <3>2, Zenon
    <3> QED
      BY <3>1, <3>2
  <2> QED
    BY <2>3, <2>4, <2>5
<1>5. Nat \subseteq T
  <2> HIDE DEF T
  <2> QED
    BY <1>3, <1>4, Induction
<1>6. Len(h[n]) = n /\ (\A j \in 1..n : h[n][j] = LowerCase[s[j]]) /\ h[n] \in Seq(Out)
  <2>1. n \in 0..n /\ n \in T
    BY <1>1, <1>5
  <2> QED
    BY <1>2, <2>1
<1>7. Lowered(s) \in Words /\ Len(Lowered(s)) = n /\ \A j \in 1..n : Lowered(s)[j] = LowerCase[s[j]]
  BY LoweredIs
<1>8. Lowered(s) \in Seq(Out)
  <2>1. Bytes \subseteq Out
    BY DEF Out
  <2> QED
    BY <1>7, <2>1, SeqOfMore DEF Words
<1>9. h[n] = Lowered(s)
  BY <1>6, <1>7, <1>8, SeqEqual
<1> QED
  BY <1>2, <1>9

\* What is no text shows.
LEMMA RawShows ==
    ASSUME NEW s \in Words, ~ IsText(s)
    PROVE  ToLower(s) \in Seq(Out) /\ \E m \in 1..Len(ToLower(s)) : ToLower(s)[m] \in Range(Replacement)
<1> PICK n : n = Len(s)
  OBVIOUS
<1>1. n \in Nat /\ DOMAIN s = 1..n /\ \A i \in 1..n : s[i] \in Bytes
  BY DEF Words
<1>2. PICK h \in [0..n -> Seq(Out)] :
         /\ h[0] = <<>> /\ \A i \in 1..n : h[i] = h[i - 1] \o Piece(s[i])
         /\ ToLower(s) = h[n]
  BY LowerPieces
<1>3. PICK r \in 1..n : s[r] \in Raw
  BY <1>1 DEF IsText, Range
<1> DEFINE Shows(q) == \E m \in 1..Len(q) : q[m] \in Range(Replacement)
           T == {k \in Nat : k <= n /\ k >= r => Shows(h[k])}
<1>4. 0 \in T
  BY <1>1
<1>5. ASSUME NEW k \in Nat, k \in T PROVE k + 1 \in T
  <2> SUFFICES ASSUME k + 1 <= n, k + 1 >= r PROVE Shows(h[k + 1])
    OBVIOUS
  <2>d. PICK d : d = h[k]
    OBVIOUS
  <2>e. PICK e : e = Piece(s[k + 1])
    OBVIOUS
  <2>1. k + 1 \in 1..n /\ (k + 1) - 1 = k /\ k \in 0..n
    BY <1>1
  <2>2. h[k + 1] = d \o e /\ d \in Seq(Out) /\ k + 1 \in 0..n
    <3>1. d \in Seq(Out) /\ k + 1 \in 0..n
      BY <1>1, <1>2, <2>d, <2>1
    <3>2. h[k + 1] = h[(k + 1) - 1] \o Piece(s[k + 1])
      BY <1>2, <2>1, Zenon
    <3>3. h[k + 1] = d \o e
      BY <2>1, <2>d, <2>e, <3>2, Zenon
    <3> QED
      BY <3>1, <3>3
  <2>3. e \in Seq(Out)
    <3>1. CASE s[k + 1] \in Raw
      <4>1. Replacement \in Seq(Range(Replacement)) /\ Range(Replacement) \subseteq Out
        BY BytesAssumption DEF Out
      <4>2. Replacement \in Seq(Out)
        BY <4>1, SeqOfMore
      <4> QED
        BY <3>1, <4>2, <2>e DEF Piece
    <3>2. CASE s[k + 1] \notin Raw
      <4>1. LowerCase[s[k + 1]] \in Out
        BY <1>1, <2>1, BytesAssumption DEF Out
      <4> QED
        BY <3>2, <4>1, <2>e DEF Piece
    <3> QED
      BY <3>1, <3>2
  <2>4. /\ Len(d \o e) = Len(d) + Len(e) /\ Len(d) \in Nat /\ Len(e) \in Nat
        /\ \A i \in 1..(Len(d) + Len(e)) : (d \o e)[i] = IF i <= Len(d) THEN d[i] ELSE e[i - Len(d)]
    BY ONLY <2>2, <2>3, ConcatIs
  <2>5. CASE k >= r
    <3>1. PICK m \in 1..Len(d) : d[m] \in Range(Replacement)
      BY <1>1, <1>5, <2>1, <2>5, <2>d
    <3>2. m \in 1..(Len(d) + Len(e)) /\ (d \o e)[m] = d[m]
      BY <2>4, <3>1
    <3> QED
      BY <2>2, <2>4, <3>1, <3>2
  <2>6. CASE k + 1 = r
    <3>1. e = Replacement
      BY <1>3, <2>6, <2>e DEF Piece
    <3>2. 1 \in 1..Len(e) /\ e[1] \in Range(Replacement)
      <4>1. Replacement \in Seq(Range(Replacement)) /\ Replacement # <<>>
        BY BytesAssumption
      <4> QED
        BY <3>1, <4>1
    <3> PICK m : m = Len(d) + 1
      OBVIOUS
    <3>3. m \in 1..(Len(d) + Len(e)) /\ ~ (m <= Len(d)) /\ m - Len(d) = 1
      BY <2>4, <3>2
    <3>4. (d \o e)[m] = e[1]
      BY <2>4, <3>3
    <3> QED
      BY <2>2, <2>4, <3>2, <3>3, <3>4
  <2> QED
    BY <1>1, <2>5, <2>6
<1>6. Nat \subseteq T
  <2> HIDE DEF T
  <2> QED
    BY <1>4, <1>5, Induction
<1>7. Shows(h[n]) /\ h[n] \in Seq(Out)
  <2>1. n \in 0..n /\ n \in T
    BY <1>1, <1>6
  <2> QED
    BY <1>1, <1>2, <2>1
<1> QED
  BY <1>2, <1>7

-------------------------------------------------------------------------------
(* One content *)

\* The bytes of the content are at j, in its own sense of the same.
SameByte(c, b) == IF c.nocase THEN LowerCase[b] ELSE b
FitsAt(c, payload, j) ==
    /\ j + Len(c.pattern) <= Len(payload)
    /\ \A k \in 1..Len(c.pattern) : SameByte(c, payload[j + k]) = c.pattern[k]

\* The first place of p in s.
FirstAt(p, s, i) ==
    \/ i = -1 /\ \A j \in 0..Len(s) : ~ OccursAt(p, s, j)
    \/ i \in 0..Len(s) /\ OccursAt(p, s, i) /\ \A j \in 0..Len(s) : OccursAt(p, s, j) => i <= j

\* IndexOf is the first place of a pattern, or -1 if there is none.
LEMMA IndexOfIs ==
    ASSUME NEW p, NEW s, Len(s) \in Nat
    PROVE  FirstAt(p, s, IndexOf(p, s))
<1> DEFINE found == {i \in 0..Len(s) : OccursAt(p, s, i)}
<1>1. CASE found = {}
  <2>1. IndexOf(p, s) = -1
    BY <1>1 DEF IndexOf
  <2>2. \A j \in 0..Len(s) : ~ OccursAt(p, s, j)
    BY <1>1
  <2> QED
    BY <2>1, <2>2 DEF FirstAt
<1>2. CASE found # {}
  <2>1. IndexOf(p, s) = Min(found)
    BY <1>2 DEF IndexOf
  <2>2. found \subseteq Nat
    OBVIOUS
  <2> HIDE DEF found
  <2>3. Min(found) \in found /\ \A i \in found : Min(found) <= i
    BY <1>2, <2>2, MinOf
  <2> QED
    BY <2>1, <2>3 DEF FirstAt, found
<1> QED
  BY <1>1, <1>2

LEMMA TextBytes ==
    ASSUME NEW s \in Words
    PROVE  IsText(s) <=> \A k \in 1..Len(s) : s[k] \notin Raw
<1>1. DOMAIN s = 1..Len(s)
  BY DEF Words
<1> QED
  BY <1>1 DEF IsText, Range

\* What bytes.Index looks for, and in what.
Sought(c) == IF c.nocase THEN ToLower(c.pattern) ELSE c.pattern
SearchedIn(c, buffer) == IF c.nocase THEN ToLower(buffer) ELSE buffer

\* The part of a payload from one place to another.
CutAt(payload, start, end, buffer) ==
    start \in 0..Len(payload) /\ end \in start..Len(payload) /\ buffer = SubSeq(payload, start + 1, end)

\* The buffer is the part of the payload between two places.
LEMMA BufferIs ==
    ASSUME NEW payload \in Words, IsText(payload), NEW start, NEW end, NEW buffer,
           CutAt(payload, start, end, buffer)
    PROVE  /\ buffer \in Words /\ IsText(buffer) /\ Len(buffer) = end - start
           /\ \A k \in 1..(end - start) : buffer[k] = payload[start + k] /\ start + k \in 1..Len(payload)
<1> start \in 0..Len(payload) /\ end \in start..Len(payload) /\ buffer = SubSeq(payload, start + 1, end)
  BY DEF CutAt
<1>1. Len(payload) \in Nat /\ start + 1 \in 1..(Len(payload) + 1) /\ end \in ((start + 1) - 1)..Len(payload)
      /\ start \in Nat /\ end \in Nat
  BY DEF Words
<1>2. /\ buffer \in Words /\ Len(buffer) = end - (start + 1) + 1
      /\ \A k \in 1..(end - (start + 1) + 1) : buffer[k] = payload[(start + 1) + k - 1]
  BY <1>1, CutOf DEF Words
<1>3. end - (start + 1) + 1 = end - start
  BY <1>1
<1>4. ASSUME NEW k \in 1..(end - start) PROVE buffer[k] = payload[start + k] /\ start + k \in 1..Len(payload)
  <2>1. (start + 1) + k - 1 = start + k /\ start + k \in 1..Len(payload)
    BY <1>1
  <2> QED
    BY <1>2, <1>3, <2>1
<1>5. IsText(buffer)
  BY <1>2, <1>3, <1>4, TextBytes
<1> QED
  BY <1>2, <1>3, <1>4, <1>5

\* A pattern that is no text is in no text that is lowered.
LEMMA RawNowhere ==
    ASSUME NEW p \in Words, ~ IsText(p), NEW s \in Words, IsText(s), NEW j \in Nat
    PROVE  ~ OccursAt(ToLower(p), Lowered(s), j)
<1> SUFFICES ASSUME OccursAt(ToLower(p), Lowered(s), j) PROVE FALSE
  OBVIOUS
<1>1. PICK q : q = ToLower(p)
  OBVIOUS
<1>2. PICK low : low = Lowered(s)
  OBVIOUS
<1>3. q \in Seq(Out) /\ \E m \in 1..Len(q) : q[m] \in Range(Replacement)
  BY <1>1, RawShows
<1>4. low \in Words /\ Len(low) = Len(s) /\ \A k \in 1..Len(s) : low[k] = LowerCase[s[k]] /\ s[k] \in Bytes
  BY <1>2, LoweredIs
<1>5. j + Len(q) <= Len(low) /\ SubSeq(low, j + 1, j + Len(q)) = q
  BY <1>1, <1>2 DEF OccursAt
<1>6. Len(q) \in Nat /\ Len(low) \in Nat
  BY <1>3, <1>4 DEF Words
<1>7. PICK m \in 1..Len(q) : q[m] \in Range(Replacement)
  BY <1>3
<1>8. q[m] = low[j + m] /\ j + m \in 1..Len(low)
  <2>1. j + 1 \in 1..(Len(low) + 1) /\ j + Len(q) \in ((j + 1) - 1)..Len(low)
    BY <1>5, <1>6
  <2>2. \A l \in 1..((j + Len(q)) - (j + 1) + 1) : SubSeq(low, j + 1, j + Len(q))[l] = low[(j + 1) + l - 1]
    BY <1>4, <2>1, CutOf DEF Words
  <2>3. m \in 1..((j + Len(q)) - (j + 1) + 1) /\ (j + 1) + m - 1 = j + m /\ j + m \in 1..Len(low)
    BY <1>5, <1>6
  <2> QED
    BY <1>5, <2>2, <2>3
<1>9. low[j + m] \in Bytes \ Raw
  <2>1. s[j + m] \in Bytes \ Raw /\ low[j + m] = LowerCase[s[j + m]]
    BY <1>4, <1>8, TextBytes
  <2> QED
    BY <2>1, BytesAssumption
<1> QED
  BY <1>7, <1>8, <1>9, BytesAssumption

\* bytes.Index finds a content in a stretch of the payload where its bytes are.
LEMMA BufferFits ==
    ASSUME NEW c \in Content, NEW payload \in Words, IsText(payload),
           NEW start, NEW end, NEW buffer, CutAt(payload, start, end, buffer)
    PROVE  /\ Len(SearchedIn(c, buffer)) = end - start
           /\ \A j \in Nat : OccursAt(Sought(c), SearchedIn(c, buffer), j)
                               <=> FitsAt(c, payload, start + j) /\ (start + j) + Len(c.pattern) <= end
<1>1. PICK p : p = c.pattern
  OBVIOUS
<1>2. p \in Words /\ Len(p) \in Nat /\ (c.nocase => Lowered(p) = p) /\ c.nocase \in BOOLEAN
  BY <1>1 DEF Content, Words
<1>3. /\ buffer \in Words /\ IsText(buffer) /\ Len(buffer) = end - start
      /\ \A k \in 1..(end - start) : buffer[k] = payload[start + k] /\ start + k \in 1..Len(payload)
  BY BufferIs
<1> start \in 0..Len(payload) /\ end \in start..Len(payload)
  BY DEF CutAt
<1>4. start \in Nat /\ end \in Nat /\ Len(payload) \in Nat /\ start <= end /\ end <= Len(payload)
  BY DEF Words
<1>5. ToLower(buffer) = Lowered(buffer)
  BY <1>3, TextLowered
<1>6. PICK s : s = IF c.nocase THEN Lowered(buffer) ELSE buffer
  OBVIOUS
<1>7. /\ SearchedIn(c, buffer) = s /\ s \in Words /\ Len(s) = end - start
      /\ \A k \in 1..(end - start) : s[k] = SameByte(c, payload[start + k])
  <2>1. CASE c.nocase
    <3>1. Lowered(buffer) \in Words /\ Len(Lowered(buffer)) = Len(buffer)
          /\ \A k \in 1..Len(buffer) : Lowered(buffer)[k] = LowerCase[buffer[k]]
      BY <1>3, LoweredIs
    <3> QED
      BY <1>3, <1>5, <1>6, <2>1, <3>1 DEF SearchedIn, SameByte
  <2>2. CASE ~ c.nocase
    BY <1>3, <1>6, <2>2 DEF SearchedIn, SameByte
  <2> QED
    BY <2>1, <2>2
<1>8. ASSUME NEW j \in Nat
      PROVE  OccursAt(p, s, j) <=> FitsAt(c, payload, start + j) /\ (start + j) + Len(p) <= end
  <2>1. OccursAt(p, s, j) <=> j + Len(p) <= end - start /\ \A k \in 1..Len(p) : s[j + k] = p[k]
    BY <1>2, <1>7, OccursIs
  <2>2. CASE ~ ((start + j) + Len(p) <= end)
    <3>1. ~ (j + Len(p) <= end - start)
      BY <1>2, <1>4, <2>2
    <3> QED
      BY <2>1, <2>2, <3>1
  <2>3. CASE (start + j) + Len(p) <= end
    <3>1. j + Len(p) <= end - start /\ (start + j) + Len(p) <= Len(payload)
      BY <1>2, <1>4, <2>3
    <3>2. ASSUME NEW k \in 1..Len(p) PROVE s[j + k] = SameByte(c, payload[(start + j) + k])
      <4>1. j + k \in 1..(end - start) /\ start + (j + k) = (start + j) + k
        BY <1>2, <1>4, <3>1
      <4> QED
        BY <1>7, <4>1
    <3>3. FitsAt(c, payload, start + j) <=> \A k \in 1..Len(p) : SameByte(c, payload[(start + j) + k]) = p[k]
      BY <1>1, <3>1 DEF FitsAt
    <3> QED
      BY <2>1, <2>3, <3>1, <3>2, <3>3
  <2> QED
    BY <2>2, <2>3
<1>9. CASE ~ c.nocase
  <2>1. Sought(c) = p
    BY <1>1, <1>9 DEF Sought
  <2> QED
    BY <1>1, <1>7, <1>8, <2>1
<1>10. CASE c.nocase /\ IsText(p)
  <2>1. Sought(c) = p
    BY <1>1, <1>2, <1>10, TextLowered DEF Sought
  <2> QED
    BY <1>1, <1>7, <1>8, <2>1
<1>11. CASE c.nocase /\ ~ IsText(p)
  <2>1. Sought(c) = ToLower(p) /\ s = Lowered(buffer)
    BY <1>1, <1>6, <1>11 DEF Sought
  <2>2. \A j \in Nat : ~ OccursAt(ToLower(p), Lowered(buffer), j)
    BY <1>2, <1>3, <1>11, RawNowhere
  <2>3. ASSUME NEW j \in Nat PROVE ~ FitsAt(c, payload, start + j)
    <3> SUFFICES ASSUME FitsAt(c, payload, start + j) PROVE FALSE
      OBVIOUS
    <3>1. (start + j) + Len(p) <= Len(payload) /\ \A k \in 1..Len(p) : LowerCase[payload[(start + j) + k]] = p[k]
      BY <1>1, <1>11 DEF FitsAt, SameByte
    <3>2. PICK k \in 1..Len(p) : p[k] \in Raw
      BY <1>2, <1>11, TextBytes
    <3>3. (start + j) + k \in 1..Len(payload)
      BY <1>2, <1>4, <3>1
    <3>4. payload[(start + j) + k] \in Bytes \ Raw
      <4>1. \A i \in 1..Len(payload) : payload[i] \in Bytes /\ payload[i] \notin Raw
        BY TextBytes DEF Words
      <4> QED
        BY <3>3, <4>1
    <3>5. LowerCase[payload[(start + j) + k]] = p[k]
      BY <3>1
    <3>6. LowerCase[payload[(start + j) + k]] \notin Raw
      BY <3>4, BytesAssumption
    <3> QED
      BY <3>2, <3>5, <3>6
  <2> QED
    BY <1>7, <2>1, <2>2, <2>3
<1> QED
  BY <1>2, <1>9, <1>10, <1>11

\* Where a content may be: from where the last one ended, within its own limits.
Placed(c, payload, cursor, j) ==
    LET start == From(c, cursor)
    IN  /\ j >= start /\ j + Len(c.pattern) <= Until(c, start, Len(payload))
        /\ FitsAt(c, payload, j)

\* The cursor goes to the end of the first such place, if there is one.
Advances(c, payload, cursor, next) ==
    \/ next = Absent /\ \A j \in Nat : ~ Placed(c, payload, cursor, j)
    \/ \E j \in Nat : /\ Placed(c, payload, cursor, j) /\ next = j + Len(c.pattern)
                      /\ \A i \in Nat : Placed(c, payload, cursor, i) => j <= i

\* The fields of a content.
LEMMA ContentFields ==
    ASSUME NEW c \in Content
    PROVE  /\ c.pattern \in Words /\ Len(c.pattern) \in Nat /\ Len(c.pattern) > 0 /\ c.nocase \in BOOLEAN
           /\ c.offset \in Int /\ c.depth \in Int /\ c.distance \in Int /\ c.within \in Int
           /\ (c.nocase => Lowered(c.pattern) = c.pattern)
BY DEF Content, Words, Root

LEMMA WindowOf ==
    ASSUME NEW c \in Content, NEW cursor \in Nat, NEW length \in Nat
    PROVE  /\ From(c, cursor) \in Nat
           /\ Until(c, From(c, cursor), length) \in Nat /\ Until(c, From(c, cursor), length) <= length
           /\ From(c, cursor) <= length => From(c, cursor) <= Until(c, From(c, cursor), length)
<1>1. c.offset \in Int /\ c.depth \in Int /\ c.distance \in Int /\ c.within \in Int
  BY ContentFields
<1>2. From(c, cursor) \in Nat
  BY <1>1 DEF From
<1>3. PICK start : start = From(c, cursor)
  OBVIOUS
<1>4. Until(c, start, length) \in Nat /\ Until(c, start, length) <= length
      /\ (start <= length => start <= Until(c, start, length))
  BY <1>1, <1>2, <1>3 DEF Until
<1> QED
  BY <1>2, <1>3, <1>4

\* One content: the cursor goes behind the first place that its limits allow.
LEMMA NextCursorIs ==
    ASSUME NEW c \in Content, NEW payload \in Words, IsText(payload), NEW cursor \in Nat
    PROVE  Advances(c, payload, cursor, NextCursor(payload, cursor, c))
<1>1. PICK p : p = c.pattern
  OBVIOUS
<1>2. PICK start : start = From(c, cursor)
  OBVIOUS
<1>3. PICK length : length = Len(payload)
  OBVIOUS
<1>4. PICK end : end = Until(c, start, length)
  OBVIOUS
<1>5. PICK buffer : buffer = SubSeq(payload, start + 1, end)
  OBVIOUS
<1>6. PICK index : index = IndexOf(Sought(c), SearchedIn(c, buffer))
  OBVIOUS
<1>7. NextCursor(payload, cursor, c) =
        IF cursor = Absent \/ start > length \/ index = -1 THEN Absent ELSE start + index + Len(p)
  <2>1. index = IF c.nocase THEN IndexOf(ToLower(c.pattern), ToLower(buffer)) ELSE IndexOf(c.pattern, buffer)
    BY <1>6 DEF Sought, SearchedIn
  <2> QED
    BY <1>1, <1>2, <1>3, <1>4, <1>5, <2>1 DEF NextCursor
<1>8. cursor # Absent /\ length \in Nat
  BY <1>3 DEF Absent, Words
<1>9. start \in Nat /\ end \in Nat /\ end <= length /\ (start <= length => start <= end)
  BY <1>2, <1>4, <1>8, WindowOf
<1>10. Len(p) \in Nat /\ Len(p) > 0
  BY <1>1, ContentFields
<1>11. \A j : Placed(c, payload, cursor, j) <=> j >= start /\ j + Len(p) <= end /\ FitsAt(c, payload, j)
  BY <1>1, <1>2, <1>3, <1>4 DEF Placed
<1>12. CASE start > length
  <2>1. \A j \in Nat : ~ Placed(c, payload, cursor, j)
    BY <1>8, <1>9, <1>10, <1>11, <1>12
  <2> QED
    BY <1>7, <1>12, <2>1 DEF Advances
<1>13. CASE start <= length
  <2>1. start \in 0..length /\ end \in start..length
    BY <1>8, <1>9, <1>13
  <2>2. PICK s : s = SearchedIn(c, buffer)
    OBVIOUS
  <2>3. /\ Len(s) = end - start
        /\ \A j \in Nat : OccursAt(Sought(c), s, j) <=> FitsAt(c, payload, start + j) /\ (start + j) + Len(p) <= end
    <3>1. CutAt(payload, start, end, buffer)
      BY <1>3, <1>5, <2>1 DEF CutAt
    <3>2. /\ Len(SearchedIn(c, buffer)) = end - start
          /\ \A j \in Nat : OccursAt(Sought(c), SearchedIn(c, buffer), j)
                              <=> FitsAt(c, payload, start + j) /\ (start + j) + Len(c.pattern) <= end
      BY <3>1, BufferFits
    <3> QED
      BY <1>1, <2>2, <3>2
  <2>4. Len(s) \in Nat
    BY <1>8, <1>9, <2>1, <2>3
  <2>5. FirstAt(Sought(c), s, index)
    BY <1>6, <2>2, <2>4, IndexOfIs
  <2>6. \A j \in Nat : OccursAt(Sought(c), s, j) <=> Placed(c, payload, cursor, start + j)
    BY <1>9, <1>11, <2>3
  <2>7. ASSUME NEW j \in Nat, Placed(c, payload, cursor, j)
        PROVE  j - start \in 0..Len(s) /\ OccursAt(Sought(c), s, j - start)
    <3>1. j >= start /\ j + Len(p) <= end
      BY <1>11, <2>7
    <3>2. j - start \in Nat /\ start + (j - start) = j /\ j - start <= end - start
      BY <1>9, <1>10, <3>1
    <3>3. OccursAt(Sought(c), s, j - start)
      BY <2>6, <2>7, <3>2
    <3> QED
      BY <2>3, <2>4, <3>2, <3>3
  <2>8. CASE index = -1
    <3>1. \A j \in 0..Len(s) : ~ OccursAt(Sought(c), s, j)
      BY <2>4, <2>5, <2>8 DEF FirstAt
    <3>2. \A j \in Nat : ~ Placed(c, payload, cursor, j)
      BY <2>7, <3>1
    <3> QED
      BY <1>7, <2>8, <3>2 DEF Advances
  <2>9. CASE index # -1
    <3>1. index \in 0..Len(s) /\ OccursAt(Sought(c), s, index)
          /\ \A j \in 0..Len(s) : OccursAt(Sought(c), s, j) => index <= j
      BY <2>5, <2>9 DEF FirstAt
    <3>2. index \in Nat
      BY <2>4, <3>1
    <3>3. PICK j : j = start + index
      OBVIOUS
    <3>4. j \in Nat /\ Placed(c, payload, cursor, j)
      BY <1>9, <2>6, <3>1, <3>2, <3>3
    <3>5. NextCursor(payload, cursor, c) = j + Len(p)
      BY <1>7, <1>8, <1>13, <1>9, <2>9, <3>3
    <3>6. ASSUME NEW i \in Nat, Placed(c, payload, cursor, i) PROVE j <= i
      <4>1. index <= i - start
        BY <2>7, <3>1, <3>6
      <4> QED
        BY <1>9, <3>2, <3>3, <4>1
    <3> QED
      BY <1>1, <3>4, <3>5, <3>6 DEF Advances
  <2> QED
    BY <2>8, <2>9
<1> QED
  BY <1>8, <1>9, <1>12, <1>13

-------------------------------------------------------------------------------
(* One rule *)

Cursors == Nat \cup {Absent}

\* The cursor after 0, 1, ... contents.
MatchSteps(h, payload, contents) ==
    h[0] = 0 /\ \A i \in 1..Len(contents) : h[i] = NextCursor(payload, h[i - 1], contents[i])

LEMMA CursorsClosed ==
    ASSUME NEW payload \in Words, IsText(payload), NEW cursor \in Cursors, NEW c \in Content
    PROVE  NextCursor(payload, cursor, c) \in Cursors /\ (cursor = Absent => NextCursor(payload, cursor, c) = Absent)
<1>1. CASE cursor = Absent
  BY <1>1 DEF NextCursor, Cursors
<1>2. CASE cursor # Absent
  <2>1. cursor \in Nat
    BY <1>2 DEF Cursors
  <2>2. Advances(c, payload, cursor, NextCursor(payload, cursor, c))
    BY <2>1, NextCursorIs
  <2>3. Len(c.pattern) \in Nat
    BY ContentFields
  <2> QED
    BY <1>2, <2>2, <2>3 DEF Advances, Cursors
<1> QED
  BY <1>1, <1>2

\* A rule is matched content by content.
LEMMA MatchIsSteps ==
    ASSUME NEW contents \in Seq(Content), NEW payload \in Words, IsText(payload)
    PROVE  \E h \in [0..Len(contents) -> Cursors] :
              MatchSteps(h, payload, contents) /\ (RuleMatch(contents, payload) <=> h[Len(contents)] # Absent)
<1> PICK X : X = Cursors
  OBVIOUS
<1> PICK n : n = Len(contents)
  OBVIOUS
<1> DEFINE step == [i \in 1..n |-> [x \in X |-> NextCursor(payload, x, contents[i])]]
<1>1. n \in Nat /\ DOMAIN contents = 1..n /\ \A i \in 1..n : contents[i] \in Content
  OBVIOUS
<1>2. 0 \in X
  BY DEF Cursors
<1>3. step \in [1..n -> [X -> X]]
  BY <1>1, CursorsClosed
<1>4. \A i \in 1..n : \A x \in X : step[i][x] = NextCursor(payload, x, contents[i])
  OBVIOUS
<1> HIDE DEF step
<1> DEFINE Eq(g) == g = [s \in SUBSET (1..n) |->
                           IF s = {} THEN 0 ELSE LET x == Max(s) IN NextCursor(payload, g[s \ {x}], contents[x])]
           it == CHOOSE g : Eq(g)
<1>5. RuleMatch(contents, payload) <=> it[1..n] # Absent
  BY <1>1 DEF RuleMatch, FoldLeft, MapThenFoldSet
<1>6. PICK f \in [SUBSET (1..n) -> X] : Follows(f, n, 0, step, X)
  <2>1. n \in Nat
    BY <1>1
  <2> QED
    BY ONLY <2>1, <1>2, <1>3, FollowerExists
<1>7. Eq(f)
  <2>1. ASSUME NEW s \in SUBSET (1..n)
        PROVE  f[s] = IF s = {} THEN 0 ELSE LET x == Max(s) IN NextCursor(payload, f[s \ {x}], contents[x])
    <3>1. s # {} => Max(s) \in 1..n
      BY <1>1, LastOfPicks DEF PicksFrom, LastOf
    <3> QED
      BY <1>4, <1>6, <3>1 DEF Follows
  <2>2. f = [s \in SUBSET (1..n) |-> f[s]]
    BY <1>6
  <2> QED
    BY <2>1, <2>2, Zenon
<1>8. Eq(it)
  <2> HIDE DEF Eq
  <2> QED
    BY <1>7, Zenon
<1>9. Follows(it, n, 0, step, X)
  <2>1. ASSUME NEW s \in SUBSET (1..n)
        PROVE  it[s] = IF s = {} THEN 0 ELSE LET x == Max(s) IN NextCursor(payload, it[s \ {x}], contents[x])
    BY <1>8, Zenon
  <2> HIDE DEF Eq, it
  <2>2. ASSUME NEW s \in SUBSET (1..n), s # {} PROVE Max(s) \in 1..n
    BY <1>1, <2>2, LastOfPicks DEF PicksFrom, LastOf
  <2> QED
    BY <1>4, <2>1, <2>2 DEF Follows
<1> HIDE DEF Eq, it
<1>10. PICK h \in [0..n -> X] : Steps(h, n, 0, step) /\ it[1..n] = h[n]
  <2>1. n \in Nat
    BY <1>1
  <2> QED
    BY ONLY <2>1, <1>2, <1>3, <1>9, FoldSteps
<1>11. MatchSteps(h, payload, contents)
  <2>1. ASSUME NEW i \in 1..n PROVE h[i - 1] \in X
    <3>1. n \in Nat
      BY <1>1
    <3>2. i - 1 \in 0..n
      BY ONLY <3>1, i \in 1..n
    <3> QED
      BY ONLY <1>10, <3>2
  <2> QED
    BY <1>4, <1>10, <2>1 DEF Steps, MatchSteps
<1> QED
  BY <1>5, <1>10, <1>11

\* Once a content was not found, the rule does not match.
LEMMA AbsentForEver ==
    ASSUME NEW contents \in Seq(Content), NEW payload \in Words, IsText(payload),
           NEW h \in [0..Len(contents) -> Cursors], MatchSteps(h, payload, contents),
           NEW i \in 0..Len(contents), h[i] = Absent
    PROVE  h[Len(contents)] = Absent
<1>1. PICK n : n = Len(contents)
  OBVIOUS
<1>2. n \in Nat /\ \A k \in 1..n : contents[k] \in Content
  BY <1>1
<1> DEFINE T == {k \in Nat : i <= k /\ k <= n => h[k] = Absent}
<1>3. 0 \in T
  BY <1>1, <1>2
<1>4. ASSUME NEW k \in Nat, k \in T PROVE k + 1 \in T
  <2> SUFFICES ASSUME i <= k + 1, k + 1 <= n PROVE h[k + 1] = Absent
    OBVIOUS
  <2>1. CASE i = k + 1
    BY <2>1
  <2>2. CASE i <= k
    <3>1. k + 1 \in 1..n /\ (k + 1) - 1 = k /\ k \in 0..n /\ h[k] = Absent
      BY <1>1, <1>2, <1>4, <2>2
    <3>2. h[k + 1] = NextCursor(payload, h[k], contents[k + 1])
      BY <1>1, <3>1 DEF MatchSteps
    <3>3. NextCursor(payload, Absent, contents[k + 1]) = Absent
      BY DEF NextCursor
    <3> QED
      BY <3>1, <3>2, <3>3
  <2>3. i \in Nat
    BY <1>1, <1>2
  <2>4. i = k + 1 \/ i <= k
    BY ONLY <2>3, k \in Nat, i <= k + 1
  <2> QED
    BY <2>1, <2>2, <2>4
<1>5. Nat \subseteq T
  <2> HIDE DEF T
  <2> QED
    BY <1>3, <1>4, Induction
<1>6. n \in T /\ i <= n
  BY <1>1, <1>2, <1>5
<1> QED
  BY <1>1, <1>2, <1>6

-------------------------------------------------------------------------------
(* The prefilter *)

\* A rule that matches has its first content somewhere.
LEMMA FirstContentOccurs ==
    ASSUME NEW contents \in Seq(Content), contents # <<>>, NEW payload \in Words, IsText(payload),
           RuleMatch(contents, payload)
    PROVE  \E j \in 0..Len(payload) : OccursAt(Head(contents).pattern, Seen(FastIn(contents), payload), j)
<1>1. PICK h \in [0..Len(contents) -> Cursors] :
         MatchSteps(h, payload, contents) /\ (RuleMatch(contents, payload) <=> h[Len(contents)] # Absent)
  BY MatchIsSteps
<1>2. PICK c : c = Head(contents)
  OBVIOUS
<1>3. c \in Content /\ c = contents[1] /\ 1 \in 1..Len(contents) /\ 1 \in 0..Len(contents)
  BY <1>2
<1>4. h[1] # Absent
  BY <1>1, <1>3, AbsentForEver
<1>5. h[1] = NextCursor(payload, 0, c)
  BY <1>1, <1>3 DEF MatchSteps
<1>6. PICK j \in Nat : Placed(c, payload, 0, j)
  <2>1. Advances(c, payload, 0, h[1])
    BY <1>3, <1>5, NextCursorIs
  <2> QED
    BY <1>4, <2>1 DEF Advances
<1>7. FitsAt(c, payload, j)
  BY <1>6 DEF Placed
<1>8. PICK p : p = c.pattern
  OBVIOUS
<1>9. p \in Words /\ Len(p) \in Nat /\ Len(payload) \in Nat /\ c.nocase \in BOOLEAN
  BY <1>3, <1>8, ContentFields DEF Words
<1>10. /\ j + Len(p) <= Len(payload)
       /\ \A k \in 1..Len(p) : SameByte(c, payload[j + k]) = p[k]
  BY <1>7, <1>8 DEF FitsAt
<1>11. j \in 0..Len(payload)
  BY <1>9, <1>10
<1>12. PICK s : s = Seen(FastIn(contents), payload)
  OBVIOUS
<1>13. s \in Words /\ Len(s) = Len(payload) /\ \A k \in 1..Len(payload) : s[k] = SameByte(c, payload[k])
  <2>1. CASE c.nocase
    <3>1. s = Lowered(payload)
      BY <1>2, <1>12, <2>1 DEF FastIn, Seen
    <3>2. Lowered(payload) \in Words /\ Len(Lowered(payload)) = Len(payload)
          /\ \A k \in 1..Len(payload) : Lowered(payload)[k] = LowerCase[payload[k]]
      BY LoweredIs
    <3> QED
      BY <2>1, <3>1, <3>2 DEF SameByte
  <2>2. CASE ~ c.nocase
    BY <1>2, <1>12, <2>2 DEF FastIn, Seen, SameByte
  <2> QED
    BY <2>1, <2>2
<1>14. \A k \in 1..Len(p) : s[j + k] = p[k]
  <2> TAKE k \in 1..Len(p)
  <2>1. j + k \in 1..Len(payload)
    BY <1>9, <1>10
  <2> QED
    BY <1>10, <1>13, <2>1
<1>15. OccursAt(p, s, j)
  BY <1>9, <1>10, <1>13, <1>14, OccursIs
<1> QED
  BY <1>2, <1>8, <1>11, <1>12, <1>15

\* A rule that matches a text is a candidate: its first content occurs in the
\* payload.
LEMMA CandidatesEnough ==
    ASSUME RulesInv, ResultOf(result), IsText(result.payload),
           NEW i \in DOMAIN Rules, RuleMatch(Rules[i], result.payload)
    PROVE  i \in Candidates(result.found)
<1>1. CASE Rules[i] = <<>>
  BY <1>1 DEF Candidates
<1>2. CASE Rules[i] # <<>>
  <2>1. Rules[i] \in Seq(Content)
    BY DEF RulesInv, ParsedRules
  <2>2. PICK contents : contents = Rules[i]
    OBVIOUS
  <2>3. PICK a : a = FastIn(contents)
    OBVIOUS
  <2>4. a \in Automata
    BY <1>2, <2>1, <2>2, <2>3, KeyIsPattern
  <2>5. PICK patterns : patterns = mpse[a].patterns
    OBVIOUS
  <2>6. Indexed(Rules, patterns, toRules[a], a)
    BY <2>4, <2>5 DEF RulesInv
  <2>7. PICK id \in DOMAIN toRules[a] : toRules[a][id] = i
    BY <1>2, <2>2, <2>3, <2>6 DEF Indexed
  <2>8. id \in DOMAIN patterns /\ patterns[id] = Head(contents).pattern
    <3>1. DOMAIN toRules[a] = DOMAIN patterns
      BY <2>6 DEF Indexed
    <3> QED
      BY <2>2, <2>6, <2>7, <3>1 DEF Indexed
  <2>9. PICK payload : payload = result.payload
    OBVIOUS
  <2>10. payload \in Words /\ IsText(payload) /\ RuleMatch(contents, payload)
    BY <2>2, <2>9, PayloadsAssumption DEF ResultOf, Words
  <2>11. PICK s : s = Seen(a, payload)
    OBVIOUS
  <2>12. PICK j \in 0..Len(payload) : OccursAt(Head(contents).pattern, s, j)
    BY <1>2, <2>1, <2>2, <2>3, <2>10, <2>11, FirstContentOccurs
  <2>13. Len(s) = Len(payload)
    BY <2>10, <2>11, LoweredIs DEF Seen
  <2>14. <<id, j>> \in AllOccurrences(patterns, s)
    BY <2>8, <2>12, <2>13 DEF AllOccurrences
  <2>15. <<id, j>> \in Range(result.found[a])
    BY <2>4, <2>5, <2>9, <2>11, <2>14 DEF ResultOf, IsRow
  <2>16. i \in {toRules[a][r[1]] : r \in Range(result.found[a])}
    <3>1. <<id, j>>[1] = id
      OBVIOUS
    <3> QED
      BY <2>7, <2>15, <3>1
  <2> QED
    BY <2>4, <2>16 DEF Candidates
<1> QED
  BY <1>1, <1>2

LEMMA RulesInvPrefilter == RulesInv => PrefilterLosesNothing
<1> SUFFICES ASSUME RulesInv, built, result # NoResult, IsText(result.payload)
             PROVE  result.matched = {i \in DOMAIN Rules : RuleMatch(Rules[i], result.payload)}
  BY DEF PrefilterLosesNothing
<1>1. ResultOf(result) /\ RulesTypeOK
  BY RulesInvTypes DEF RulesInv
<1>2. result.matched = {i \in Candidates(result.found) : RuleMatch(Rules[i], result.payload)} /\ result.matched \subseteq DOMAIN Rules
  BY <1>1 DEF ResultOf, RulesTypeOK
<1>3. ASSUME NEW i \in DOMAIN Rules, RuleMatch(Rules[i], result.payload) PROVE i \in Candidates(result.found)
  BY <1>1, <1>3, CandidatesEnough
<1> QED
  BY <1>2, <1>3

\* The prefilter hides no rule that would match (engine.go, Match): the first content
\* of a rule that matches occurs in the payload, so the search finds it.
THEOREM PrefilterSound == RuleSpec => []PrefilterLosesNothing
BY EngineInvariant, RulesInvPrefilter, PTL

-------------------------------------------------------------------------------
(* What the options of a rule say *)

\* The settings that the first m options of the rule give the content at i.
SetBy(text, i, key, m) == {j \in Scope(text, i) : j <= m /\ text[j].key = key}
SettingBy(text, i, key, m) == IF SetBy(text, i, key, m) = {} THEN Absent ELSE text[Max(SetBy(text, i, key, m))].value

ReadsContent(text, i, m, c) ==
    /\ c.nocase <=> SetBy(text, i, "nocase", m) # {}
    /\ c.pattern = IF c.nocase THEN Lowered(text[i].value) ELSE text[i].value
    /\ c.offset = SettingBy(text, i, "offset", m) /\ c.depth = SettingBy(text, i, "depth", m)
    /\ c.distance = SettingBy(text, i, "distance", m) /\ c.within = SettingBy(text, i, "within", m)

\* The contents so far are those of the first m options, in their order.
Reads(text, q, pos, m) ==
    /\ pos \in [1..Len(q) -> 1..m]
    /\ \A k, l \in 1..Len(q) : k < l => pos[k] < pos[l]
    /\ \A i \in ContentsOf(text) : i <= m => \E k \in 1..Len(q) : pos[k] = i
    /\ \A k \in 1..Len(q) : pos[k] \in ContentsOf(text) /\ ReadsContent(text, pos[k], m, q[k])

Written(text) ==
    /\ text \in Seq(Range(text)) /\ \A option \in Range(text) : IsOption(option)
    /\ \A i \in ContentsOf(text) : Parses(text[i])

\* What is known of a rule as written.
LEMMA WrittenIs ==
    ASSUME NEW text, Written(text)
    PROVE  /\ Len(text) \in Nat /\ DOMAIN text = 1..Len(text)
           /\ \A i \in 1..Len(text) : IsOption(text[i])
           /\ \A i \in ContentsOf(text) : i \in 1..Len(text) /\ text[i].key = "content"
                                          /\ text[i].value \in Words /\ text[i].value # Root
<1>1. Len(text) \in Nat /\ DOMAIN text = 1..Len(text) /\ \A i \in 1..Len(text) : IsOption(text[i])
  BY DEF Written
<1>2. ASSUME NEW i \in ContentsOf(text)
      PROVE  i \in 1..Len(text) /\ text[i].key = "content" /\ text[i].value \in Words /\ text[i].value # Root
  <2>1. i \in 1..Len(text) /\ text[i].key = "content" /\ Parses(text[i])
    BY <1>1 DEF ContentsOf, Written
  <2>2. IsOption(text[i])
    BY <1>1, <2>1
  <2> QED
    BY <2>1, <2>2 DEF IsOption, NumericKeys, Parses, Root
<1> QED
  BY <1>1, <1>2

\* The next option, for a content it does not concern and for one it does.
LEMMA SetStays ==
    ASSUME NEW text, Written(text), NEW m \in Nat, NEW i, NEW key,
           m + 1 \notin Scope(text, i) \/ text[m + 1].key # key
    PROVE  SetBy(text, i, key, m + 1) = SetBy(text, i, key, m) /\ SettingBy(text, i, key, m + 1) = SettingBy(text, i, key, m)
<1>1. Scope(text, i) \subseteq Nat
  BY WrittenIs DEF Scope
<1>2. \A j \in Scope(text, i) : text[j].key = key => (j <= m + 1 <=> j <= m)
  <2> SUFFICES ASSUME NEW j \in Scope(text, i), text[j].key = key PROVE j <= m + 1 <=> j <= m
    OBVIOUS
  <2>1. j # m + 1 /\ j \in Nat
    BY <1>1
  <2> QED
    BY <2>1
<1>3. SetBy(text, i, key, m + 1) = SetBy(text, i, key, m)
  BY <1>2 DEF SetBy
<1> QED
  BY <1>3 DEF SettingBy

\* What one more option sets.
LEMMA SetGains ==
    ASSUME NEW text, Written(text), NEW m \in Nat, NEW i, NEW key,
           m + 1 \in Scope(text, i), text[m + 1].key = key
    PROVE  SetBy(text, i, key, m + 1) # {} /\ SettingBy(text, i, key, m + 1) = text[m + 1].value
<1>1. PICK T : T = SetBy(text, i, key, m + 1)
  OBVIOUS
<1>2. T \subseteq Int /\ m + 1 \in T /\ \A j \in T : j <= m + 1
  BY <1>1, WrittenIs DEF Scope, SetBy
<1>3. Max(T) \in T /\ \A j \in T : j <= Max(T)
  <2>1. m + 1 \in Int /\ T # {}
    BY <1>2
  <2> QED
    BY <1>2, <2>1, MaxOf
<1>4. Max(T) = m + 1
  <2>1. Max(T) \in Int /\ Max(T) <= m + 1 /\ m + 1 <= Max(T)
    BY <1>2, <1>3
  <2> QED
    BY <2>1
<1> QED
  BY <1>1, <1>2, <1>4 DEF SettingBy

LEMMA SetAtFirst ==
    ASSUME NEW text, Written(text), NEW m \in Nat, NEW key
    PROVE  SetBy(text, m, key, m) = {} /\ SettingBy(text, m, key, m) = Absent
<1>1. \A j \in Scope(text, m) : j \in Nat /\ j > m
  BY WrittenIs DEF Scope
<1>2. SetBy(text, m, key, m) = {}
  BY <1>1 DEF SetBy
<1> QED
  BY <1>2 DEF SettingBy

\* A modifier sets what it names in the content before it.
LEMMA ModifyReads ==
    ASSUME NEW text, Written(text), NEW m \in Nat, NEW i \in ContentsOf(text), NEW c \in Content,
           m + 1 \in 1..Len(text), m + 1 \in Scope(text, i), text[m + 1].key # "content",
           ReadsContent(text, i, m, c)
    PROVE  ReadsContent(text, i, m + 1, Modify(c, text[m + 1]))
<1>1. PICK option : option = text[m + 1]
  OBVIOUS
<1>2. IsOption(option) /\ option.key \in {"nocase"} \cup NumericKeys
  <2>1. IsOption(text[m + 1])
    BY WrittenIs
  <2> QED
    BY <1>1, <2>1 DEF IsOption
<1>3. text[i].value \in Words
  BY WrittenIs
<1>4. ASSUME NEW key, option.key # key
      PROVE  SetBy(text, i, key, m + 1) = SetBy(text, i, key, m) /\ SettingBy(text, i, key, m + 1) = SettingBy(text, i, key, m)
  BY <1>1, <1>4, SetStays
<1>5. SetBy(text, i, option.key, m + 1) # {} /\ SettingBy(text, i, option.key, m + 1) = option.value
  BY <1>1, SetGains
<1>6. /\ c.nocase <=> SetBy(text, i, "nocase", m) # {}
      /\ c.pattern = IF c.nocase THEN Lowered(text[i].value) ELSE text[i].value
      /\ c.offset = SettingBy(text, i, "offset", m) /\ c.depth = SettingBy(text, i, "depth", m)
      /\ c.distance = SettingBy(text, i, "distance", m) /\ c.within = SettingBy(text, i, "within", m)
      /\ c \in [pattern : Words \ {Root}, nocase : BOOLEAN, offset : Int, depth : Int, distance : Int, within : Int]
  BY DEF ReadsContent, Content
<1>7. PICK d : d = Modify(c, option)
  OBVIOUS
<1>8. CASE option.key = "nocase"
  <2>1. d = [c EXCEPT !.nocase = TRUE, !.pattern = Lowered(c.pattern)]
    BY <1>7, <1>8 DEF Modify
  <2>2. /\ d.nocase = TRUE /\ d.pattern = Lowered(c.pattern)
        /\ d.offset = c.offset /\ d.depth = c.depth /\ d.distance = c.distance /\ d.within = c.within
    BY <1>6, <2>1
  <2>3. Lowered(c.pattern) = Lowered(text[i].value)
    BY <1>3, <1>6, LoweredIs
  <2>4. "offset" # option.key /\ "depth" # option.key /\ "distance" # option.key /\ "within" # option.key
    BY <1>8
  <2>5. /\ d.offset = SettingBy(text, i, "offset", m + 1) /\ d.depth = SettingBy(text, i, "depth", m + 1)
        /\ d.distance = SettingBy(text, i, "distance", m + 1) /\ d.within = SettingBy(text, i, "within", m + 1)
    BY <1>4, <1>6, <2>2, <2>4
  <2> QED
    BY <1>1, <1>5, <1>7, <1>8, <2>2, <2>3, <2>5 DEF ReadsContent
<1>9. CASE option.key = "offset"
  <2>1. d = [c EXCEPT !.offset = option.value]
    BY <1>7, <1>9 DEF Modify
  <2>2. /\ d.nocase = c.nocase /\ d.pattern = c.pattern
        /\ d.offset = option.value /\ d.depth = c.depth /\ d.distance = c.distance /\ d.within = c.within
    BY <1>6, <2>1
  <2>3. "nocase" # option.key /\ "depth" # option.key /\ "distance" # option.key /\ "within" # option.key
    BY <1>9
  <2> QED
    BY <1>1, <1>4, <1>5, <1>6, <1>7, <1>9, <2>2, <2>3 DEF ReadsContent
<1>10. CASE option.key = "depth"
  <2>1. d = [c EXCEPT !.depth = option.value]
    BY <1>7, <1>10 DEF Modify
  <2>2. /\ d.nocase = c.nocase /\ d.pattern = c.pattern
        /\ d.offset = c.offset /\ d.depth = option.value /\ d.distance = c.distance /\ d.within = c.within
    BY <1>6, <2>1
  <2>3. "nocase" # option.key /\ "offset" # option.key /\ "distance" # option.key /\ "within" # option.key
    BY <1>10
  <2> QED
    BY <1>1, <1>4, <1>5, <1>6, <1>7, <1>10, <2>2, <2>3 DEF ReadsContent
<1>11. CASE option.key = "distance"
  <2>1. d = [c EXCEPT !.distance = option.value]
    BY <1>7, <1>11 DEF Modify
  <2>2. /\ d.nocase = c.nocase /\ d.pattern = c.pattern
        /\ d.offset = c.offset /\ d.depth = c.depth /\ d.distance = option.value /\ d.within = c.within
    BY <1>6, <2>1
  <2>3. "nocase" # option.key /\ "offset" # option.key /\ "depth" # option.key /\ "within" # option.key
    BY <1>11
  <2> QED
    BY <1>1, <1>4, <1>5, <1>6, <1>7, <1>11, <2>2, <2>3 DEF ReadsContent
<1>12. CASE option.key = "within"
  <2>1. d = [c EXCEPT !.within = option.value]
    BY <1>7, <1>12 DEF Modify
  <2>2. /\ d.nocase = c.nocase /\ d.pattern = c.pattern
        /\ d.offset = c.offset /\ d.depth = c.depth /\ d.distance = c.distance /\ d.within = option.value
    BY <1>6, <2>1
  <2>3. "nocase" # option.key /\ "offset" # option.key /\ "depth" # option.key /\ "distance" # option.key
    BY <1>12
  <2> QED
    BY <1>1, <1>4, <1>5, <1>6, <1>7, <1>12, <2>2, <2>3 DEF ReadsContent
<1> QED
  BY <1>2, <1>8, <1>9, <1>10, <1>11, <1>12 DEF NumericKeys

LEMMA ReadsStill ==
    ASSUME NEW text, Written(text), NEW m \in Nat, NEW i, NEW c, ReadsContent(text, i, m, c),
           m + 1 \notin Scope(text, i) \/ text[m + 1].key = "content"
    PROVE  ReadsContent(text, i, m + 1, c)
<1>1. ASSUME NEW key \in {"nocase"} \cup NumericKeys
      PROVE  SetBy(text, i, key, m + 1) = SetBy(text, i, key, m) /\ SettingBy(text, i, key, m + 1) = SettingBy(text, i, key, m)
  <2>1. key # "content"
    BY DEF NumericKeys
  <2> QED
    BY <2>1, SetStays
<1>2. /\ SetBy(text, i, "nocase", m + 1) = SetBy(text, i, "nocase", m)
      /\ SettingBy(text, i, "offset", m + 1) = SettingBy(text, i, "offset", m)
      /\ SettingBy(text, i, "depth", m + 1) = SettingBy(text, i, "depth", m)
      /\ SettingBy(text, i, "distance", m + 1) = SettingBy(text, i, "distance", m)
      /\ SettingBy(text, i, "within", m + 1) = SettingBy(text, i, "within", m)
  BY <1>1 DEF NumericKeys
<1> QED
  BY <1>2 DEF ReadsContent

\* The modifiers of a content stand between it and the next one.
LEMMA ScopeOf ==
    ASSUME NEW text, Written(text), NEW m \in Nat, m + 1 \in 1..Len(text),
           NEW q, NEW pos, Reads(text, q, pos, m), Len(q) \in Nat, NEW k \in 1..Len(q),
           text[m + 1].key # "content"
    PROVE  m + 1 \in Scope(text, pos[k]) <=> k = Len(q)
<1>1. PICK n : n = Len(q)
  OBVIOUS
<1>2. /\ n \in Nat /\ pos \in [1..n -> 1..m]
      /\ \A k1, l \in 1..n : k1 < l => pos[k1] < pos[l]
      /\ \A i \in ContentsOf(text) : i <= m => \E k1 \in 1..n : pos[k1] = i
      /\ \A k1 \in 1..n : pos[k1] \in ContentsOf(text)
  BY <1>1 DEF Reads
<1>3. DOMAIN text = 1..Len(text) /\ Len(text) \in Nat
  BY WrittenIs
<1>4. k \in 1..n /\ n \in 1..n /\ pos[k] \in 1..m /\ pos[n] \in 1..m
  BY <1>1, <1>2
<1>5. CASE k # n
  <2>1. pos[k] < pos[n] /\ pos[n] \in ContentsOf(text)
    BY <1>2, <1>4, <1>5
  <2>2. ~ (m + 1 < pos[n])
    BY <1>4
  <2>3. m + 1 \notin Scope(text, pos[k])
    BY <1>4, <2>1, <2>2 DEF Scope
  <2> QED
    BY <1>1, <1>5, <2>3
<1>6. CASE k = n
  <2>1. m + 1 \in DOMAIN text /\ m + 1 > pos[n]
    BY <1>3, <1>4
  <2>2. ASSUME NEW i \in ContentsOf(text), i > pos[n] PROVE m + 1 < i
    <3>1. i \in 1..Len(text) /\ i # m + 1
      BY WrittenIs
    <3>2. ~ (i <= m)
      <4> SUFFICES ASSUME i <= m PROVE FALSE
        OBVIOUS
      <4>1. PICK k1 \in 1..n : pos[k1] = i
        BY <1>2
      <4>2. k1 # n
        BY <1>2, <1>3, <1>4, <2>2, <3>1, <4>1
      <4>3. k1 < n
        BY <1>2, <4>2
      <4>4. i < pos[n]
        BY <1>2, <1>4, <4>1, <4>3
      <4> QED
        BY <1>4, <2>2, <3>1, <4>4
    <3> QED
      BY <3>1, <3>2
  <2>3. m + 1 \in Scope(text, pos[n])
    BY <2>1, <2>2 DEF Scope
  <2> QED
    BY <1>1, <1>6, <2>3
<1> QED
  BY <1>5, <1>6

\* One more option.
LEMMA ReadsNext ==
    ASSUME NEW text, Written(text), NEW m \in Nat, m + 1 \in 1..Len(text),
           NEW q \in Seq(Content), NEW pos, Reads(text, q, pos, m)
    PROVE  \E more : Reads(text, AddOption(q, text[m + 1]), more, m + 1)
<1>1. PICK n : n = Len(q)
  OBVIOUS
<1>2. PICK option : option = text[m + 1]
  OBVIOUS
<1>3. /\ n \in Nat /\ pos \in [1..n -> 1..m]
      /\ \A k, l \in 1..n : k < l => pos[k] < pos[l]
      /\ \A i \in ContentsOf(text) : i <= m => \E k \in 1..n : pos[k] = i
      /\ \A k \in 1..n : pos[k] \in ContentsOf(text) /\ ReadsContent(text, pos[k], m, q[k])
  <2>1. n \in Nat
    BY <1>1
  <2> QED
    BY <1>1, <2>1 DEF Reads
<1>4. DOMAIN text = 1..Len(text) /\ Len(text) \in Nat /\ IsOption(option)
  BY <1>2, WrittenIs
<1>5. \A k \in 1..n : q[k] \in Content
  BY <1>1
<1>6. CASE option.key = "content"
  <2>1. m + 1 \in ContentsOf(text)
    BY <1>2, <1>4, <1>6 DEF ContentsOf
  <2>2. option.value \in Words /\ option.value # Root /\ Parses(option)
    BY <1>2, <2>1, WrittenIs DEF Written
  <2>3. PICK c : c = ContentOf(option.value)
    OBVIOUS
  <2>4. PICK r : r = Append(q, c)
    OBVIOUS
  <2>5. AddOption(q, option) = r
    BY <1>6, <2>2, <2>3, <2>4 DEF AddOption
  <2>6. c \in Content
    BY <2>2, <2>3, ContentOfIsContent
  <2>7. Len(r) = n + 1 /\ (\A k \in 1..n : r[k] = q[k]) /\ r[n + 1] = c
    BY <1>1, <2>4, <2>6, AppendIs
  <2>8. PICK more : more = [k \in 1..(n + 1) |-> IF k = n + 1 THEN m + 1 ELSE pos[k]]
    OBVIOUS
  <2>9. (\A k \in 1..n : more[k] = pos[k] /\ k \in 1..(n + 1)) /\ more[n + 1] = m + 1 /\ n + 1 \in 1..(n + 1)
    BY <1>3, <2>8
  <2>10. \A k \in 1..(n + 1) : k = n + 1 \/ k \in 1..n
    BY <1>3
  <2>11. more \in [1..(n + 1) -> 1..(m + 1)]
    <3>1. ASSUME NEW k \in 1..(n + 1) PROVE (IF k = n + 1 THEN m + 1 ELSE pos[k]) \in 1..(m + 1)
      <4>1. k \in 1..n => pos[k] \in 1..m
        BY <1>3
      <4>2. m + 1 \in 1..(m + 1) /\ \A x \in 1..m : x \in 1..(m + 1)
        OBVIOUS
      <4> QED
        BY <2>10, <4>1, <4>2
    <3> QED
      BY ONLY <2>8, <3>1
  <2>12. ASSUME NEW k \in 1..(n + 1), NEW l \in 1..(n + 1), k < l PROVE more[k] < more[l]
    <3>1. k \in 1..n
      BY <1>3, <2>12
    <3>2. pos[k] \in 1..m /\ more[k] = pos[k]
      BY <1>3, <2>9, <3>1
    <3>3. CASE l = n + 1
      BY <2>9, <3>2, <3>3
    <3>4. CASE l \in 1..n
      BY <1>3, <2>9, <2>12, <3>1, <3>2, <3>4
    <3> QED
      BY <2>10, <3>3, <3>4
  <2>13. ASSUME NEW i \in ContentsOf(text), i <= m + 1 PROVE \E k \in 1..(n + 1) : more[k] = i
    <3>1. CASE i = m + 1
      BY <2>9, <3>1
    <3>2. CASE i <= m
      BY <1>3, <2>9, <3>2
    <3>3. i \in Nat
      BY <1>4 DEF ContentsOf
    <3>4. i = m + 1 \/ i <= m
      BY ONLY <3>3, <2>13, m \in Nat
    <3> QED
      BY <3>1, <3>2, <3>4
  <2>14. ReadsContent(text, m + 1, m + 1, c)
    <3>1. \A key : SetBy(text, m + 1, key, m + 1) = {} /\ SettingBy(text, m + 1, key, m + 1) = Absent
      <4>1. m + 1 \in Nat
        OBVIOUS
      <4> QED
        BY <4>1, SetAtFirst
    <3> QED
      BY <1>2, <2>3, <3>1 DEF ReadsContent, ContentOf
  <2>15. ASSUME NEW k \in 1..(n + 1) PROVE more[k] \in ContentsOf(text) /\ ReadsContent(text, more[k], m + 1, r[k])
    <3>1. CASE k = n + 1
      BY <2>1, <2>7, <2>9, <2>14, <3>1
    <3>2. CASE k \in 1..n
      <4>1. ReadsContent(text, pos[k], m + 1, q[k])
        BY <1>2, <1>3, <1>6, <3>2, ReadsStill
      <4> QED
        BY <1>3, <2>7, <2>9, <3>2, <4>1
    <3> QED
      BY <2>10, <3>1, <3>2
  <2>16. Reads(text, r, more, m + 1)
    BY <2>7, <2>11, <2>12, <2>13, <2>15 DEF Reads
  <2> QED
    BY <1>2, <2>5, <2>16
<1>7. CASE option.key # "content"
  <2>1. PICK r : r = AddOption(q, option)
    OBVIOUS
  <2>2. Len(r) = n /\ \A k \in 1..n : r[k] = IF k = n THEN Modify(q[k], option) ELSE q[k]
    <3>1. CASE q = <<>>
      BY <1>1, <1>7, <2>1, <3>1 DEF AddOption
    <3>2. CASE q # <<>>
      <4>1. r = [q EXCEPT ![n] = Modify(q[n], option)] /\ n \in 1..n
        BY <1>1, <1>3, <1>7, <2>1, <3>2 DEF AddOption
      <4>2. DOMAIN q = 1..n
        BY <1>1
      <4> QED
        BY <1>3, <4>1, <4>2
    <3> QED
      BY <3>1, <3>2
  <2>3. m + 1 \notin ContentsOf(text)
    BY <1>2, <1>7 DEF ContentsOf
  <2>4. pos \in [1..n -> 1..(m + 1)]
    <3>1. \A x \in 1..m : x \in 1..(m + 1)
      OBVIOUS
    <3> QED
      BY <1>3, <3>1
  <2>5. ASSUME NEW i \in ContentsOf(text), i <= m + 1 PROVE \E k \in 1..n : pos[k] = i
    <3>1. i \in Nat /\ i # m + 1
      BY <1>4, <2>3 DEF ContentsOf
    <3>2. i <= m
      BY ONLY <3>1, <2>5, m \in Nat
    <3> QED
      BY <1>3, <3>2
  <2>6. ASSUME NEW k \in 1..n PROVE ReadsContent(text, pos[k], m + 1, r[k])
    <3>1. m + 1 \in Scope(text, pos[k]) <=> k = n
      <4>1. Len(q) = n /\ k \in 1..Len(q) /\ Len(q) \in Nat /\ text[m + 1].key # "content"
        BY <1>1, <1>2, <1>3, <1>7
      <4>2. m + 1 \in Scope(text, pos[k]) <=> k = Len(q)
        BY ONLY <4>1, Written(text), m \in Nat, m + 1 \in 1..Len(text), Reads(text, q, pos, m), ScopeOf
      <4> QED
        BY <4>1, <4>2
    <3>2. ReadsContent(text, pos[k], m, q[k]) /\ pos[k] \in ContentsOf(text) /\ q[k] \in Content
      BY <1>3, <1>5
    <3>3. CASE k = n
      <4>1. ReadsContent(text, pos[k], m + 1, Modify(q[k], text[m + 1]))
        BY <1>2, <1>7, <3>1, <3>2, <3>3, ModifyReads
      <4> QED
        BY <1>2, <2>2, <3>3, <4>1
    <3>4. CASE k # n
      <4>1. ReadsContent(text, pos[k], m + 1, q[k])
        BY <3>1, <3>2, <3>4, ReadsStill
      <4> QED
        BY <2>2, <3>4, <4>1
    <3> QED
      BY <3>3, <3>4
  <2>7. Reads(text, r, pos, m + 1)
    BY <1>3, <2>2, <2>4, <2>5, <2>6 DEF Reads
  <2> QED
    BY <1>2, <2>1, <2>7
<1> QED
  BY <1>6, <1>7

\* The contents of a rule are those of its text.
LEMMA ParseReads ==
    ASSUME NEW text, Written(text)
    PROVE  /\ ParseRule(text) \in Seq(Content)
           /\ \E pos : Reads(text, ParseRule(text), pos, Len(text))
<1>1. PICK n : n = Len(text)
  OBVIOUS
<1>2. n \in Nat
  BY <1>1, WrittenIs
<1>3. PICK h \in [0..n -> Seq(Content)] : ParseSteps(h, text) /\ ParseRule(text) = h[n]
  <2>1. PICK O : O = Range(text)
    OBVIOUS
  <2>2. text \in Seq(O) /\ \A option \in O : IsOption(option)
    BY <2>1 DEF Written
  <2> QED
    BY <1>1, <2>2, ParseIsSteps
<1> DEFINE T == {m \in Nat : m <= n => \E pos : Reads(text, h[m], pos, m)}
<1>4. 0 \in T
  <2>1. h[0] = <<>>
    BY <1>3 DEF ParseSteps
  <2>2. PICK pos : pos = [k \in 1..0 |-> 0]
    OBVIOUS
  <2>3. \A i \in ContentsOf(text) : ~ (i <= 0)
    <3>1. \A i \in ContentsOf(text) : i \in 1..Len(text)
      BY WrittenIs
    <3> QED
      BY <3>1
  <2>4. Reads(text, <<>>, pos, 0)
    BY <2>2, <2>3 DEF Reads
  <2> QED
    BY <2>1, <2>4
<1>5. ASSUME NEW m \in Nat, m \in T PROVE m + 1 \in T
  <2> SUFFICES ASSUME m + 1 <= n PROVE \E pos : Reads(text, h[m + 1], pos, m + 1)
    OBVIOUS
  <2>1. m + 1 \in 1..n /\ (m + 1) - 1 = m /\ m \in 0..n
    BY <1>2
  <2>2. h[m] \in Seq(Content) /\ h[m + 1] = AddOption(h[m], text[m + 1])
    BY <1>1, <1>3, <2>1 DEF ParseSteps
  <2>3. PICK pos : Reads(text, h[m], pos, m)
    BY <1>2, <1>5, <2>1
  <2>4. PICK q : q = h[m]
    OBVIOUS
  <2>5. \E more : Reads(text, AddOption(q, text[m + 1]), more, m + 1)
    <3>1. q \in Seq(Content) /\ Reads(text, q, pos, m) /\ m + 1 \in 1..Len(text)
      BY <1>1, <2>1, <2>2, <2>3, <2>4
    <3> QED
      BY <3>1, ReadsNext
  <2> QED
    BY <2>2, <2>4, <2>5
<1>6. Nat \subseteq T
  <2> HIDE DEF T
  <2> QED
    BY <1>4, <1>5, Induction
<1>7. n \in 0..n /\ \E pos : Reads(text, h[n], pos, n)
  BY <1>2, <1>6
<1> QED
  BY <1>1, <1>3, <1>7

-------------------------------------------------------------------------------
(* A rule and what it says *)

\* The settings of a content of a rule, and the places they allow.
LEMMA AllRead ==
    ASSUME NEW text, Written(text), NEW i, NEW c, ReadsContent(text, i, Len(text), c)
    PROVE  /\ c.nocase <=> HasNocase(text, i)
           /\ c.pattern = IF c.nocase THEN Lowered(text[i].value) ELSE text[i].value
           /\ c.offset = Setting(text, i, "offset") /\ c.depth = Setting(text, i, "depth")
           /\ c.distance = Setting(text, i, "distance") /\ c.within = Setting(text, i, "within")
<1>1. \A j \in Scope(text, i) : j <= Len(text)
  BY WrittenIs DEF Scope
<1>2. \A key : SetBy(text, i, key, Len(text)) = {j \in Scope(text, i) : text[j].key = key}
  BY <1>1 DEF SetBy
<1>3. \A key : SettingBy(text, i, key, Len(text)) = Setting(text, i, key)
  BY <1>2 DEF SettingBy, Setting
<1>4. SetBy(text, i, "nocase", Len(text)) # {} <=> HasNocase(text, i)
  BY <1>2 DEF HasNocase
<1> QED
  BY <1>3, <1>4 DEF ReadsContent

\* What Places asks of one content, with the end of the one before.
PlacedAt(text, payload, i, before, j) ==
    LET low == IF Setting(text, i, "offset") >= 0 THEN Setting(text, i, "offset")
               ELSE IF Relative(text, i) THEN before + Max({Setting(text, i, "distance"), 0}) ELSE 0
        width == IF Setting(text, i, "depth") > 0 THEN Setting(text, i, "depth")
                 ELSE Setting(text, i, "within")
        stretch == SubSeq(payload, j + 1, j + Len(text[i].value))
    IN  /\ j >= low /\ j + Len(text[i].value) <= Len(payload)
        /\ width > 0 => j + Len(text[i].value) <= low + width
        /\ \/ stretch = text[i].value
           \/ HasNocase(text, i) /\ Lowered(stretch) = Lowered(text[i].value)

\* A content fits where the payload has its bytes, or, ignoring case, the same
\* letters.
LEMMA SameStretch ==
    ASSUME NEW c \in Content, NEW v \in Words, c.pattern = IF c.nocase THEN Lowered(v) ELSE v,
           NEW payload \in Words, NEW j \in Nat, j + Len(v) <= Len(payload)
    PROVE  LET stretch == SubSeq(payload, j + 1, j + Len(v))
           IN  FitsAt(c, payload, j) <=> stretch = v \/ (c.nocase /\ Lowered(stretch) = Lowered(v))
<1>1. PICK u : u = SubSeq(payload, j + 1, j + Len(v))
  OBVIOUS
<1>2. PICK p : p = c.pattern
  OBVIOUS
<1>3. Len(v) \in Nat /\ Len(payload) \in Nat /\ c.nocase \in BOOLEAN
  BY ContentFields DEF Words
<1>4. u \in Words /\ Len(u) = Len(v) /\ \A k \in 1..Len(v) : u[k] = payload[j + k]
  <2>1. j + 1 \in 1..(Len(payload) + 1) /\ j + Len(v) \in ((j + 1) - 1)..Len(payload)
    BY <1>3
  <2>2. /\ u \in Words /\ Len(u) = (j + Len(v)) - (j + 1) + 1
        /\ \A k \in 1..((j + Len(v)) - (j + 1) + 1) : u[k] = payload[(j + 1) + k - 1]
    BY <1>1, <2>1, CutOf DEF Words
  <2>3. (j + Len(v)) - (j + 1) + 1 = Len(v) /\ \A k \in 1..Len(v) : (j + 1) + k - 1 = j + k
    BY <1>3
  <2> QED
    BY <2>2, <2>3
<1>5. CASE c.nocase
  <2>1. p = Lowered(v) /\ Len(p) = Len(v) /\ p \in Words
    BY <1>2, <1>5, LoweredIs
  <2>2. Lowered(u) \in Words /\ Len(Lowered(u)) = Len(v) /\ \A k \in 1..Len(v) : Lowered(u)[k] = LowerCase[u[k]]
    BY <1>4, LoweredIs
  <2>3. Lowered(u) = p <=> \A k \in 1..Len(v) : Lowered(u)[k] = p[k]
    <3>1. Lowered(u) \in Seq(Bytes) /\ p \in Seq(Bytes) /\ Len(Lowered(u)) = Len(p)
      BY <2>1, <2>2 DEF Words
    <3>2. Lowered(u) = p <=> \A k \in 1..Len(p) : Lowered(u)[k] = p[k]
      BY ONLY <3>1, SeqEqual
    <3> QED
      BY <2>1, <3>2
  <2>4. FitsAt(c, payload, j) <=> \A k \in 1..Len(v) : LowerCase[payload[j + k]] = p[k]
    BY <1>2, <1>5, <2>1 DEF FitsAt, SameByte
  <2>5. FitsAt(c, payload, j) <=> Lowered(u) = p
    BY <1>4, <2>2, <2>3, <2>4
  <2> QED
    BY <1>1, <1>5, <2>1, <2>5
<1>6. CASE ~ c.nocase
  <2>1. p = v
    BY <1>2, <1>6
  <2>2. u = v <=> \A k \in 1..Len(v) : u[k] = v[k]
    BY <1>4, SeqEqual DEF Words
  <2>3. FitsAt(c, payload, j) <=> \A k \in 1..Len(v) : payload[j + k] = v[k]
    BY <1>2, <1>6, <2>1 DEF FitsAt, SameByte
  <2> QED
    BY <1>1, <1>4, <1>6, <2>2, <2>3
<1> QED
  BY <1>3, <1>5, <1>6

\* The matcher and the text of a rule agree on where a content may be.
LEMMA PlacedIs ==
    ASSUME NEW text, Written(text), NEW i \in ContentsOf(text), NEW c \in Content,
           ReadsContent(text, i, Len(text), c),
           NEW payload \in Words, NEW before \in Nat, NEW j \in Nat
    PROVE  /\ Len(c.pattern) = Len(text[i].value)
           /\ Placed(c, payload, before, j) <=> PlacedAt(text, payload, i, before, j)
<1>1. PICK v : v = text[i].value
  OBVIOUS
<1>2. v \in Words /\ Len(v) \in Nat /\ Len(payload) \in Nat
  BY <1>1, WrittenIs DEF Words
<1>3. /\ c.nocase <=> HasNocase(text, i)
      /\ c.pattern = IF c.nocase THEN Lowered(v) ELSE v
      /\ c.offset = Setting(text, i, "offset") /\ c.depth = Setting(text, i, "depth")
      /\ c.distance = Setting(text, i, "distance") /\ c.within = Setting(text, i, "within")
  BY <1>1, AllRead
<1>4. /\ c.nocase \in BOOLEAN /\ c.offset \in Int /\ c.depth \in Int /\ c.distance \in Int /\ c.within \in Int
  BY ContentFields
<1>5. Len(c.pattern) = Len(v)
  BY <1>2, <1>3, LoweredIs
<1>6. PICK start : start = From(c, before)
  OBVIOUS
<1>7. PICK low : low = IF Setting(text, i, "offset") >= 0 THEN Setting(text, i, "offset")
                       ELSE IF Relative(text, i) THEN before + Max({Setting(text, i, "distance"), 0}) ELSE 0
  OBVIOUS
<1>8. PICK width : width = IF c.depth > 0 THEN c.depth ELSE c.within
  OBVIOUS
<1>9. start = low
  <2>1. Max({c.distance, 0}) = IF c.distance >= 0 THEN c.distance ELSE 0
    BY <1>4, MaxOfTwo
  <2>2. Relative(text, i) <=> c.offset < 0 /\ (c.distance >= 0 \/ c.within >= 0)
    BY <1>3 DEF Relative
  <2>3. low = IF c.offset >= 0 THEN c.offset ELSE IF Relative(text, i) THEN before + Max({c.distance, 0}) ELSE 0
    BY <1>3, <1>7
  <2> QED
    BY <1>4, <1>6, <2>1, <2>2, <2>3 DEF From
<1>10. start \in Nat /\ width \in Int
  BY <1>4, <1>6, <1>8, WindowOf
<1>11. j + Len(v) <= Until(c, start, Len(payload))
         <=> j + Len(v) <= Len(payload) /\ (width > 0 => j + Len(v) <= start + width)
  BY <1>2, <1>8, <1>10 DEF Until
<1>12. Placed(c, payload, before, j)
         <=> j >= start /\ j + Len(v) <= Until(c, start, Len(payload)) /\ FitsAt(c, payload, j)
  BY <1>5, <1>6 DEF Placed
<1>13. PICK stretch : stretch = SubSeq(payload, j + 1, j + Len(v))
  OBVIOUS
<1>14. j + Len(v) <= Len(payload) => (FitsAt(c, payload, j) <=> stretch = v \/ (c.nocase /\ Lowered(stretch) = Lowered(v)))
  BY <1>2, <1>3, <1>13, SameStretch
<1>15. PlacedAt(text, payload, i, before, j)
         <=> /\ j >= low /\ j + Len(v) <= Len(payload)
             /\ width > 0 => j + Len(v) <= low + width
             /\ stretch = v \/ (HasNocase(text, i) /\ Lowered(stretch) = Lowered(v))
  BY <1>1, <1>3, <1>7, <1>8, <1>13 DEF PlacedAt
<1>16. PICK fits : fits = (stretch = v \/ (c.nocase /\ Lowered(stretch) = Lowered(v)))
  OBVIOUS
<1>17. PlacedAt(text, payload, i, before, j)
         <=> j >= start /\ j + Len(v) <= Len(payload) /\ (width > 0 => j + Len(v) <= start + width) /\ fits
  BY <1>3, <1>4, <1>9, <1>15, <1>16, Zenon
<1>18. Placed(c, payload, before, j)
         <=> j >= start /\ j + Len(v) <= Len(payload) /\ (width > 0 => j + Len(v) <= start + width) /\ fits
  BY <1>11, <1>12, <1>14, <1>16, Zenon
<1> QED
  BY <1>1, <1>5, <1>17, <1>18, Zenon

\* Where the content before the one at i ends.
EndBefore(text, at, i) ==
    LET earlier == {j \in ContentsOf(text) : j < i}
    IN  IF earlier = {} THEN 0 ELSE at[Max(earlier)] + Len(text[Max(earlier)].value)

\* Places, content by content.
LEMMA PlacesIs ==
    ASSUME NEW text, NEW payload, NEW at
    PROVE  Places(text, payload, at)
             <=> \A i \in ContentsOf(text) : PlacedAt(text, payload, i, EndBefore(text, at, i), at[i])
BY Zenon DEF Places, PlacedAt, EndBefore

\* Where the content before the k-th one ends: at 0 if there is none.
EndsBefore(text, q, pos, at, k) ==
    /\ k = 1 => EndBefore(text, at, pos[k]) = 0
    /\ k # 1 => k - 1 \in 1..Len(q) /\ EndBefore(text, at, pos[k]) = at[pos[k - 1]] + Len(q[k - 1].pattern)

\* The content before the next in the order of the text is the one before it in the rule.
LEMMA EndBeforeIs ==
    ASSUME NEW text, Written(text), NEW q \in Seq(Content), NEW pos, Reads(text, q, pos, Len(text)),
           NEW at, NEW k \in 1..Len(q)
    PROVE  EndsBefore(text, q, pos, at, k)
<1>1. PICK n : n = Len(q)
  OBVIOUS
<1>2. PICK m : m = Len(text)
  OBVIOUS
<1>3. /\ n \in Nat /\ m \in Nat /\ pos \in [1..n -> 1..m]
      /\ \A k1, l \in 1..n : k1 < l => pos[k1] < pos[l]
      /\ \A i \in ContentsOf(text) : i <= m => \E k1 \in 1..n : pos[k1] = i
      /\ \A k1 \in 1..n : pos[k1] \in ContentsOf(text) /\ ReadsContent(text, pos[k1], m, q[k1])
  <2>1. n \in Nat
    BY <1>1
  <2> QED
    BY <1>1, <1>2, <2>1, WrittenIs DEF Reads
<1>4. \A i \in ContentsOf(text) : i \in 1..m
  BY <1>2, WrittenIs
<1>5. PICK earlier : earlier = {j \in ContentsOf(text) : j < pos[k]}
  OBVIOUS
<1>6. EndBefore(text, at, pos[k]) = IF earlier = {} THEN 0 ELSE at[Max(earlier)] + Len(text[Max(earlier)].value)
  BY <1>5 DEF EndBefore
<1>7. ASSUME NEW j \in earlier PROVE \E l \in 1..n : pos[l] = j /\ l < k
  <2>1. j \in ContentsOf(text) /\ j < pos[k] /\ j \in 1..m
    BY <1>4, <1>5
  <2>2. PICK l \in 1..n : pos[l] = j
    BY <1>3, <2>1
  <2>3. k \in 1..n /\ pos[k] \in 1..m
    BY <1>1, <1>3
  <2>4. ~ (k < l)
    <3> SUFFICES ASSUME k < l PROVE FALSE
      OBVIOUS
    <3>1. pos[k] < pos[l]
      BY <1>3, <2>3
    <3> QED
      BY <2>1, <2>2, <2>3, <3>1
  <2>5. k # l
    BY <2>1, <2>2, <2>3
  <2>6. l < k
    BY <1>3, <2>3, <2>4, <2>5
  <2> QED
    BY <2>2, <2>6
<1>8. CASE k = 1
  <2>1. earlier = {}
    BY <1>3, <1>7, <1>8
  <2> QED
    BY <1>6, <1>8, <2>1 DEF EndsBefore
<1>9. CASE k # 1
  <2>1. PICK l : l = k - 1
    OBVIOUS
  <2>2. l \in 1..n /\ l < k /\ k \in 1..n
    BY <1>1, <1>3, <1>9, <2>1
  <2>3. pos[l] \in earlier
    BY <1>3, <1>5, <2>2
  <2>4. \A j \in earlier : j <= pos[l]
    <3> SUFFICES ASSUME NEW j \in earlier PROVE j <= pos[l]
      OBVIOUS
    <3>1. PICK x \in 1..n : pos[x] = j /\ x < k
      BY <1>7
    <3>2. x = l \/ x < l
      BY <1>3, <2>1, <2>2, <3>1
    <3>3. pos[l] \in 1..m /\ pos[x] \in 1..m
      BY <1>3, <2>2
    <3>4. CASE x = l
      BY <3>1, <3>3, <3>4
    <3>5. CASE x < l
      <4>1. pos[x] < pos[l]
        BY <1>3, <2>2, <3>5
      <4> QED
        BY <3>1, <3>3, <4>1
    <3> QED
      BY <3>2, <3>4, <3>5
  <2>5. earlier \subseteq Int /\ pos[l] \in Int
    BY <1>3, <1>4, <1>5, <2>2
  <2>6. Max(earlier) \in earlier /\ \A j \in earlier : j <= Max(earlier)
    <3>1. earlier # {}
      BY <2>3
    <3> QED
      BY <2>4, <2>5, <3>1, MaxOf
  <2>7. Max(earlier) = pos[l]
    <3>1. Max(earlier) \in Int /\ Max(earlier) <= pos[l] /\ pos[l] <= Max(earlier)
      BY <2>3, <2>4, <2>5, <2>6
    <3> QED
      BY <2>5, <3>1
  <2>8. Len(q[l].pattern) = Len(text[pos[l]].value)
    <3>1. /\ q[l].pattern = IF q[l].nocase THEN Lowered(text[pos[l]].value) ELSE text[pos[l]].value
      BY <1>2, <1>3, <2>2, AllRead
    <3>2. text[pos[l]].value \in Words
      BY <1>3, <2>2, WrittenIs
    <3> QED
      BY <3>1, <3>2, LoweredIs
  <2>9. EndBefore(text, at, pos[k]) = at[pos[l]] + Len(q[l].pattern)
    BY <1>6, <2>3, <2>7, <2>8
  <2> QED
    BY <1>1, <1>9, <2>1, <2>2, <2>9 DEF EndsBefore
<1> QED
  BY <1>8, <1>9

\* What is known of a rule that is matched with a payload, content by content.
LEMMA StepsPlaced ==
    ASSUME NEW contents \in Seq(Content), NEW payload \in Words, IsText(payload),
           NEW h \in [0..Len(contents) -> Cursors], MatchSteps(h, payload, contents), h[Len(contents)] # Absent,
           NEW k \in 1..Len(contents)
    PROVE  /\ h[k] \in Nat /\ h[k - 1] \in Nat /\ h[k] - Len(contents[k].pattern) \in Nat
           /\ Placed(contents[k], payload, h[k - 1], h[k] - Len(contents[k].pattern))
<1>1. PICK n : n = Len(contents)
  OBVIOUS
<1>2. n \in Nat /\ k \in 1..n /\ k \in 0..n /\ k - 1 \in 0..n /\ contents[k] \in Content
  BY <1>1
<1>3. h[k] \in Cursors /\ h[k - 1] \in Cursors
  BY <1>1, <1>2
<1>4. h[k] # Absent /\ h[k - 1] # Absent
  BY <1>1, <1>2, AbsentForEver
<1>5. h[k] \in Nat /\ h[k - 1] \in Nat
  BY <1>3, <1>4 DEF Cursors
<1>6. PICK c : c = contents[k]
  OBVIOUS
<1>7. h[k] = NextCursor(payload, h[k - 1], c)
  BY <1>1, <1>2, <1>6 DEF MatchSteps
<1>8. Advances(c, payload, h[k - 1], h[k])
  BY <1>2, <1>5, <1>6, <1>7, NextCursorIs
<1>9. PICK j \in Nat : Placed(c, payload, h[k - 1], j) /\ h[k] = j + Len(c.pattern)
  BY <1>4, <1>8 DEF Advances
<1>10. Len(c.pattern) \in Nat
  BY <1>2, <1>6, ContentFields
<1>11. h[k] - Len(c.pattern) = j
  BY <1>9, <1>10
<1> QED
  BY <1>5, <1>6, <1>9, <1>11

\* A rule that matches is right: where its contents were found they are where it says.
LEMMA MatchedIsSaid ==
    ASSUME NEW text, Written(text), NEW q \in Seq(Content), NEW pos, Reads(text, q, pos, Len(text)),
           NEW payload \in Words, IsText(payload), RuleMatch(q, payload)
    PROVE  Says(text, payload)
<1>1. PICK n : n = Len(q)
  OBVIOUS
<1>2. PICK h \in [0..n -> Cursors] : MatchSteps(h, payload, q) /\ h[n] # Absent
  BY <1>1, MatchIsSteps
<1>3. /\ n \in Nat /\ pos \in [1..n -> 1..Len(text)]
      /\ \A k, l \in 1..n : k < l => pos[k] < pos[l]
      /\ \A i \in ContentsOf(text) : i <= Len(text) => \E k \in 1..n : pos[k] = i
      /\ \A k \in 1..n : pos[k] \in ContentsOf(text) /\ ReadsContent(text, pos[k], Len(text), q[k])
  <2>1. n \in Nat
    BY <1>1
  <2> QED
    BY <1>1, <2>1 DEF Reads
<1>4. \A k \in 1..n : q[k] \in Content
  BY <1>1
<1>5. \A i \in ContentsOf(text) : \E k \in 1..n : pos[k] = i
  <2>1. \A i \in ContentsOf(text) : i <= Len(text)
    BY WrittenIs
  <2> QED
    BY <1>3, <2>1
<1>6. \A k, l \in 1..n : pos[k] = pos[l] => k = l
  <2> SUFFICES ASSUME NEW k \in 1..n, NEW l \in 1..n, pos[k] = pos[l], k # l PROVE FALSE
    OBVIOUS
  <2>1. k < l \/ l < k
    BY <1>3
  <2>2. pos[k] < pos[l] \/ pos[l] < pos[k]
    BY <1>3, <2>1
  <2>3. pos[k] \in Int
    BY <1>3
  <2> QED
    BY <2>2, <2>3
<1>7. ASSUME NEW k \in 1..n
      PROVE  /\ h[k] \in Nat /\ h[k - 1] \in Nat /\ h[k] - Len(q[k].pattern) \in Nat
             /\ Placed(q[k], payload, h[k - 1], h[k] - Len(q[k].pattern))
  BY <1>1, <1>2, StepsPlaced
<1>8. PICK at : at = [i \in ContentsOf(text) |->
                        h[CHOOSE k \in 1..n : pos[k] = i] - Len(q[CHOOSE k \in 1..n : pos[k] = i].pattern)]
  OBVIOUS
<1>9. ASSUME NEW k \in 1..n PROVE at[pos[k]] = h[k] - Len(q[k].pattern) /\ Len(q[k].pattern) \in Nat
  <2>1. (CHOOSE l \in 1..n : pos[l] = pos[k]) = k
    BY <1>6
  <2>2. pos[k] \in ContentsOf(text)
    BY <1>3
  <2>3. at[pos[k]] = h[CHOOSE l \in 1..n : pos[l] = pos[k]] - Len(q[CHOOSE l \in 1..n : pos[l] = pos[k]].pattern)
    BY <1>8, <2>2
  <2>4. Len(q[k].pattern) \in Nat
    BY <1>4, ContentFields
  <2> QED
    BY <2>1, <2>3, <2>4, Zenon
<1>10. ASSUME NEW k \in 1..n PROVE EndBefore(text, at, pos[k]) = h[k - 1]
  <2>0. EndsBefore(text, q, pos, at, k)
    BY <1>1, EndBeforeIs
  <2>1. CASE k = 1
    <3>1. h[0] = 0
      BY <1>2 DEF MatchSteps
    <3>2. EndBefore(text, at, pos[k]) = 0
      BY <2>1, <2>0 DEF EndsBefore
    <3> QED
      BY <2>1, <3>1, <3>2
  <2>2. CASE k # 1
    <3>1. k - 1 \in 1..n /\ EndBefore(text, at, pos[k]) = at[pos[k - 1]] + Len(q[k - 1].pattern)
      BY <1>1, <2>2, <2>0 DEF EndsBefore
    <3>2. at[pos[k - 1]] = h[k - 1] - Len(q[k - 1].pattern) /\ Len(q[k - 1].pattern) \in Nat /\ h[k - 1] \in Nat
      BY <1>7, <1>9, <3>1
    <3> QED
      BY <3>1, <3>2
  <2> QED
    BY <2>1, <2>2
<1>11. ASSUME NEW k \in 1..n
       PROVE  at[pos[k]] \in 0..Len(payload) /\ PlacedAt(text, payload, pos[k], EndBefore(text, at, pos[k]), at[pos[k]])
  <2>1. PICK j : j = h[k] - Len(q[k].pattern)
    OBVIOUS
  <2>2. j \in Nat /\ h[k - 1] \in Nat /\ Placed(q[k], payload, h[k - 1], j) /\ q[k] \in Content
    BY <1>4, <1>7, <2>1
  <2>3. PlacedAt(text, payload, pos[k], h[k - 1], j)
    BY <1>3, <2>2, PlacedIs
  <2>4. j <= Len(payload)
    <3>1. FitsAt(q[k], payload, j) /\ Len(q[k].pattern) \in Nat
      BY <1>9, <2>2 DEF Placed
    <3>2. j + Len(q[k].pattern) <= Len(payload) /\ Len(payload) \in Nat
      BY <3>1 DEF FitsAt, Words
    <3> QED
      BY <2>2, <3>1, <3>2
  <2>5. j \in 0..Len(payload)
    BY <2>2, <2>4 DEF Words
  <2> QED
    BY <1>9, <1>10, <2>1, <2>3, <2>5
<1>12. at \in [ContentsOf(text) -> 0..Len(payload)]
  <2>1. \A i \in ContentsOf(text) : at[i] \in 0..Len(payload)
    BY <1>5, <1>11
  <2>2. at = [i \in ContentsOf(text) |-> at[i]]
    BY <1>8
  <2> QED
    BY <2>1, <2>2
<1>13. Places(text, payload, at)
  <2>1. \A i \in ContentsOf(text) : PlacedAt(text, payload, i, EndBefore(text, at, i), at[i])
    BY <1>5, <1>11
  <2> QED
    BY <2>1, PlacesIs
<1> QED
  BY <1>12, <1>13 DEF Says

-------------------------------------------------------------------------------
(* A payload that has what a rule says is not missed *)

\* A content that limits how far behind the one before it may be.
Limits(text, i) == Relative(text, i) /\ (Setting(text, i, "depth") > 0 \/ Setting(text, i, "within") > 0)

\* A place that a later cursor allows is allowed by an earlier one, without such a limit.
LEMMA EarlierAllows ==
    ASSUME NEW text, Written(text), NEW i \in ContentsOf(text), NEW c \in Content,
           ReadsContent(text, i, Len(text), c), ~ Limits(text, i),
           NEW payload \in Words, NEW cursor \in Nat, NEW later \in Nat, cursor <= later,
           NEW j \in Nat, Placed(c, payload, later, j)
    PROVE  Placed(c, payload, cursor, j)
<1>1. /\ c.offset = Setting(text, i, "offset") /\ c.depth = Setting(text, i, "depth")
      /\ c.distance = Setting(text, i, "distance") /\ c.within = Setting(text, i, "within")
      /\ c.offset \in Int /\ c.depth \in Int /\ c.distance \in Int /\ c.within \in Int
  BY AllRead, ContentFields
<1>2. Len(payload) \in Nat /\ Len(c.pattern) \in Nat
  BY ContentFields DEF Words
<1>3. PICK length : length = Len(payload)
  OBVIOUS
<1>4. j >= From(c, later) /\ j + Len(c.pattern) <= Until(c, From(c, later), length) /\ FitsAt(c, payload, j)
  BY <1>3 DEF Placed
<1>5. CASE Relative(text, i)
  <2>1. c.offset < 0 /\ c.depth <= 0 /\ c.within <= 0
    BY <1>1, <1>5 DEF Relative, Limits
  <2>2. \A start : Until(c, start, length) = length
    BY <1>1, <2>1 DEF Until
  <2>3. From(c, cursor) <= From(c, later) /\ From(c, cursor) \in Nat /\ From(c, later) \in Nat
    <3>1. From(c, cursor) \in Nat /\ From(c, later) \in Nat
      BY <1>2, WindowOf
    <3>2. From(c, cursor) <= From(c, later)
      BY <1>1, <2>1 DEF From
    <3> QED
      BY <3>1, <3>2
  <2>4. j >= From(c, cursor)
    BY <1>4, <2>3
  <2> QED
    BY <1>3, <1>4, <2>2, <2>4 DEF Placed
<1>6. CASE ~ Relative(text, i)
  <2>1. From(c, cursor) = From(c, later)
    BY <1>1, <1>6 DEF Relative, From
  <2> QED
    BY <1>3, <1>4, <2>1 DEF Placed
<1> QED
  BY <1>5, <1>6

\* A payload that has what the rule says is not missed, if the rule has no such limit:
\* the matcher is never behind the places of the contents.
LEMMA SaidIsMatched ==
    ASSUME NEW text, Written(text), NEW q \in Seq(Content), NEW pos, Reads(text, q, pos, Len(text)),
           NEW payload \in Words, IsText(payload), Says(text, payload),
           \A i \in ContentsOf(text) : ~ Limits(text, i)
    PROVE  RuleMatch(q, payload)
<1>1. PICK n : n = Len(q)
  OBVIOUS
<1>2. PICK h \in [0..n -> Cursors] : MatchSteps(h, payload, q) /\ (RuleMatch(q, payload) <=> h[n] # Absent)
  BY <1>1, MatchIsSteps
<1>3. /\ n \in Nat /\ \A k \in 1..n : pos[k] \in ContentsOf(text) /\ ReadsContent(text, pos[k], Len(text), q[k])
  <2>1. n \in Nat
    BY <1>1
  <2> QED
    BY <1>1, <2>1 DEF Reads
<1>4. \A k \in 1..n : q[k] \in Content /\ Len(q[k].pattern) \in Nat
  BY <1>1, ContentFields
<1>5. PICK at \in [ContentsOf(text) -> 0..Len(payload)] : Places(text, payload, at)
  BY DEF Says
<1>6. \A i \in ContentsOf(text) : PlacedAt(text, payload, i, EndBefore(text, at, i), at[i])
  BY <1>5, PlacesIs
<1>7. Len(payload) \in Nat
  BY DEF Words
<1> DEFINE end(k) == IF k = 0 THEN 0 ELSE at[pos[k]] + Len(q[k].pattern)
           T == {k \in Nat : k <= n => h[k] \in Nat /\ end(k) \in Nat /\ h[k] <= end(k)}
<1>8. 0 \in T
  <2>1. h[0] = 0
    BY <1>2 DEF MatchSteps
  <2> QED
    BY <2>1
<1>9. ASSUME NEW k \in Nat, k \in T PROVE k + 1 \in T
  <2> SUFFICES ASSUME k + 1 <= n PROVE h[k + 1] \in Nat /\ end(k + 1) \in Nat /\ h[k + 1] <= end(k + 1)
    OBVIOUS
  <2>1. h[k] \in Nat /\ end(k) \in Nat /\ h[k] <= end(k)
    BY <1>3, <1>9
  <2>2. PICK m : m = k + 1
    OBVIOUS
  <2>3. m \in 1..n /\ m - 1 = k /\ m # 0
    BY <1>3, <2>2
  <2>4. PICK c : c = q[m]
    OBVIOUS
  <2>5. PICK i : i = pos[m]
    OBVIOUS
  <2>6. c \in Content /\ Len(c.pattern) \in Nat /\ i \in ContentsOf(text) /\ ReadsContent(text, i, Len(text), c)
    BY <1>3, <1>4, <2>3, <2>4, <2>5
  <2>7. at[i] \in Nat
    BY <1>5, <1>7, <2>6
  <2>8. end(m) = at[i] + Len(c.pattern) /\ end(m) \in Nat
    BY <2>3, <2>4, <2>5, <2>6, <2>7
  <2>9. EndBefore(text, at, i) = end(k)
    <3>0. EndsBefore(text, q, pos, at, m)
      BY <1>1, <2>3, EndBeforeIs
    <3>1. CASE m = 1
      <4>1. EndBefore(text, at, pos[m]) = 0
        BY <3>1, <3>0 DEF EndsBefore
      <4> QED
        BY <2>3, <2>5, <3>1, <4>1
    <3>2. CASE m # 1
      <4>1. EndBefore(text, at, pos[m]) = at[pos[m - 1]] + Len(q[m - 1].pattern)
        BY <2>3, <3>2, <3>0 DEF EndsBefore
      <4>2. k # 0
        BY <2>2, <3>2
      <4> QED
        BY <2>3, <2>5, <4>1, <4>2
    <3> QED
      BY <3>1, <3>2
  <2>10. PICK later : later = end(k)
    OBVIOUS
  <2>11. PICK cursor : cursor = h[k]
    OBVIOUS
  <2>12. PICK j : j = at[i]
    OBVIOUS
  <2>13. later \in Nat /\ cursor \in Nat /\ cursor <= later /\ j \in Nat
    BY <2>1, <2>7, <2>10, <2>11, <2>12
  <2>14. PlacedAt(text, payload, i, later, j)
    BY <1>6, <2>6, <2>9, <2>10, <2>12
  <2>15. Placed(c, payload, later, j)
    BY <2>6, <2>13, <2>14, PlacedIs
  <2>16. Placed(c, payload, cursor, j)
    BY <2>6, <2>13, <2>15, EarlierAllows
  <2>17. h[m] = NextCursor(payload, cursor, c)
    BY <1>1, <1>2, <2>3, <2>4, <2>11 DEF MatchSteps
  <2>18. Advances(c, payload, cursor, h[m])
    BY <2>6, <2>13, <2>17, NextCursorIs
  <2>19. PICK first \in Nat : h[m] = first + Len(c.pattern) /\ first <= j
    BY <2>13, <2>16, <2>18 DEF Advances
  <2>20. h[m] \in Nat /\ h[m] <= j + Len(c.pattern)
    BY <2>6, <2>13, <2>19
  <2> HIDE DEF end
  <2> QED
    BY <2>2, <2>8, <2>12, <2>20
<1>10. Nat \subseteq T
  <2> HIDE DEF T
  <2> QED
    BY <1>8, <1>9, Induction
<1>11. h[n] \in Nat
  BY <1>3, <1>10
<1> QED
  BY <1>2, <1>11 DEF Absent

\* What the invariant says of the rules as written.
LEMMA RulesInvAsWritten == RulesInv => RulesMatchAsWritten
<1> SUFFICES ASSUME RulesInv, built, result # NoResult, IsText(result.payload), NEW i \in DOMAIN texts,
                    \A c \in ContentsOf(texts[i]) : Parses(texts[i][c])
             PROVE  /\ i \in result.matched => Says(texts[i], result.payload)
                    /\ Says(texts[i], result.payload) /\ (\A c \in ContentsOf(texts[i]) : ~ Limits(texts[i], c))
                         => i \in result.matched
  BY DEF RulesMatchAsWritten, Limits
<1>1. PICK text : text = texts[i]
  OBVIOUS
<1>2. PICK payload : payload = result.payload
  OBVIOUS
<1>3. result.matched = {r \in DOMAIN Rules : RuleMatch(Rules[r], payload)}
  BY <1>2, RulesInvPrefilter DEF PrefilterLosesNothing
<1>4. i \in DOMAIN Rules /\ Rules[i] = ParseRule(text) /\ text \in RuleTexts
  BY <1>1 DEF RulesInv, ParsedRules
<1>5. Written(text)
  BY <1>1, <1>4, RuleTextHasOptions DEF Written
<1>6. PICK q : q = ParseRule(text)
  OBVIOUS
<1>7. q \in Seq(Content) /\ \E pos : Reads(text, q, pos, Len(text))
  BY <1>5, <1>6, ParseReads
<1>8. PICK pos : Reads(text, q, pos, Len(text))
  BY <1>7
<1>9. payload \in Words /\ IsText(payload)
  BY <1>2, PayloadsAssumption DEF RulesInv, ResultOf, Words
<1>10. i \in result.matched <=> RuleMatch(q, payload)
  BY <1>3, <1>4, <1>6
<1>11. RuleMatch(q, payload) => Says(text, payload)
  BY <1>5, <1>7, <1>8, <1>9, MatchedIsSaid
<1>12. Says(text, payload) /\ (\A c \in ContentsOf(text) : ~ Limits(text, c)) => RuleMatch(q, payload)
  BY <1>5, <1>7, <1>8, <1>9, SaidIsMatched
<1> QED
  BY <1>1, <1>2, <1>10, <1>11, <1>12

\* A rule is reported only for a payload that has what it says, and not missed for one
\* that has, limits relative to the content before excepted (parser.go, ParseRule;
\* matcher.go, Match).
THEOREM RulesMatchTheirText == RuleSpec => []RulesMatchAsWritten
BY EngineInvariant, RulesInvAsWritten, PTL
===============================================================================
