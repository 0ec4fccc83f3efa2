------------------------------ MODULE Groundwork ------------------------------
(***************************************************************************)
(* What the proofs share of no model in particular.  Induction over the    *)
(* naturals as facts about sets, which the provers can instantiate, and    *)
(* the existence of the functions that recursion on 0..n defines: both     *)
(* rest on the least counterexample, as a set of naturals that is not      *)
(* empty has a least element.  What the powers of two are, which the       *)
(* provers know only as the sizes of sets of subsets.  And facts about     *)
(* sequences and tallies.                                                  *)
(***************************************************************************)
EXTENDS Integers, Sequences, Bags, FiniteSetTheorems, SequenceTheorems, WellFoundedInduction, TLAPS

\* The least element of a set of naturals: what the inductions below rest on.
LEMMA LeastNatural ==
  ASSUME NEW S \in SUBSET Nat, S # {}
  PROVE  \E m \in S : \A k \in S : m <= k
<1> DEFINE R == OpToRel(<, Nat)
<1>1. IsWellFoundedOn(R, Nat)
  BY NatLessThanWellFounded, Zenon
<1> HIDE DEF R
<1>2. PICK x \in S : \A y \in S : ~(<<y, x>> \in R)
  BY <1>1, WFMin, Zenon
<1>3. ASSUME NEW y \in S PROVE x <= y
  <2>1. <<y, x>> \in Nat \X Nat
    OBVIOUS
  <2>2. ASSUME y < x PROVE <<y, x>> \in R
    BY <2>1, <2>2 DEF R, OpToRel
  <2>3. QED
    BY <2>2, <1>2
<1>4. QED
  BY <1>3

\* Induction up to `n': a set that has 0 and, with a number, the next has them all.
LEMMA UpTo ==
  ASSUME NEW n \in Nat, NEW G, 0 \in G, \A i \in 0..(n - 1) : i \in G => i + 1 \in G
  PROVE  0..n \subseteq G
<1> DEFINE Bad == {k \in 0..n : k \notin G}
<1>1. SUFFICES ASSUME Bad # {} PROVE FALSE
  OBVIOUS
<1>2. PICK m \in Bad : \A k \in Bad : m <= k
  <2>1. Bad \in SUBSET Nat
    OBVIOUS
  <2> HIDE DEF Bad
  <2>2. QED
    BY <1>1, <2>1, LeastNatural
<1>3. m - 1 \in 0..(n - 1) /\ m - 1 \in G
  BY <1>2
<1>4. QED
  BY <1>2, <1>3

\* A turn taken `n' times over gives a sequence of states, one per turn.
Runs(X, n, b, F) == \E g \in [0..n -> X] : g[0] = b /\ \A i \in 1..n : g[i] = F[i][g[i - 1]]

LEMMA Iterated ==
  ASSUME NEW X, NEW n \in Nat, NEW b \in X, NEW F \in [1..n -> [X -> X]]
  PROVE  Runs(X, n, b, F)
<1> DEFINE Run(k) == \E g \in [0..k -> X] : g[0] = b /\ \A i \in 1..k : g[i] = F[i][g[i - 1]]
           Good == {k \in 0..n : Run(k)}
<1>1. Run(0)
  <2> DEFINE w == [i \in 0..0 |-> b]
  <2>1. w \in [0..0 -> X] /\ w[0] = b
    OBVIOUS
  <2>2. \A i \in 1..0 : w[i] = F[i][w[i - 1]]
    OBVIOUS
  <2> HIDE DEF w
  <2>3. QED
    BY <2>1, <2>2
<1>2. ASSUME NEW k \in 0..(n - 1), Run(k) PROVE Run(k + 1)
  <2>1. PICK g \in [0..k -> X] : g[0] = b /\ \A i \in 1..k : g[i] = F[i][g[i - 1]]
    BY <1>2
  <2> DEFINE w == [i \in 0..(k + 1) |-> IF i = k + 1 THEN F[k + 1][g[k]] ELSE g[i]]
  <2>2. F[k + 1][g[k]] \in X
    <3>1. k + 1 \in 1..n /\ g[k] \in X
      OBVIOUS
    <3>2. QED
      BY <3>1
  <2>3. w \in [0..(k + 1) -> X]
    BY <2>2
  <2>4. w[0] = b /\ w[k + 1] = F[k + 1][g[k]] /\ \A i \in 0..k : w[i] = g[i]
    BY <2>1
  <2> HIDE DEF w
  <2>5. ASSUME NEW i \in 1..(k + 1) PROVE w[i] = F[i][w[i - 1]]
    <3>1. CASE i = k + 1
      <4>1. i - 1 = k /\ w[k] = g[k]
        BY <3>1, <2>4
      <4>2. QED
        BY <3>1, <4>1, <2>4
    <3>2. CASE i \in 1..k
      <4>1. w[i] = g[i] /\ w[i - 1] = g[i - 1]
        BY <3>2, <2>4
      <4>2. QED
        BY <2>1, <3>2, <4>1
    <3>3. QED
      BY <3>1, <3>2
  <2>6. QED
    BY <2>3, <2>4, <2>5
<1> HIDE DEF Run
<1>3. 0..n \subseteq Good
  <2>1. 0 \in Good /\ \A i \in 0..(n - 1) : i \in Good => i + 1 \in Good
    BY <1>1, <1>2
  <2> HIDE DEF Good
  <2>2. QED
    BY <2>1, UpTo
<1>4. QED
  BY <1>3 DEF Run, Runs

\* A turn that is sure only of some states, G[i - 1] before the turn i: it is taken
\* `n' times over from a sure state, and every state it gives is sure.
Sure(X, n, b, F, G) ==
  \E g \in [0..n -> X] : /\ g[0] = b
                         /\ \A i \in 1..n : g[i] = F[i][g[i - 1]]
                         /\ \A i \in 0..n : g[i] \in G[i]

LEMMA Turns ==
  ASSUME NEW X, NEW n \in Nat, NEW b, NEW G \in [0..n -> SUBSET X], NEW F,
         b \in G[0], \A i \in 1..n : \A x \in G[i - 1] : F[i][x] \in G[i]
  PROVE  Sure(X, n, b, F, G)
<1> DEFINE E == [i \in 1..n |-> [x \in X |-> IF F[i][x] \in X THEN F[i][x] ELSE x]]
<1>1. b \in X /\ \A i \in 0..n : G[i] \subseteq X
  <2>1. \A i \in 0..n : G[i] \subseteq X
    OBVIOUS
  <2>2. 0 \in 0..n
    OBVIOUS
  <2> QED
    BY <2>1, <2>2
<1>2. E \in [1..n -> [X -> X]]
  OBVIOUS
<1>3. \A i \in 1..n : \A x \in X : F[i][x] \in X => E[i][x] = F[i][x]
  OBVIOUS
<1> HIDE DEF E
<1>4. PICK g \in [0..n -> X] : g[0] = b /\ \A i \in 1..n : g[i] = E[i][g[i - 1]]
  <2>1. Runs(X, n, b, E)
    BY <1>1, <1>2, Iterated
  <2> QED
    BY <2>1 DEF Runs
<1>5. ASSUME NEW i \in 1..n, g[i - 1] \in G[i - 1] PROVE g[i] = F[i][g[i - 1]] /\ g[i] \in G[i]
  <2>1. i - 1 \in 0..n /\ i \in 0..n
    OBVIOUS
  <2>2. F[i][g[i - 1]] \in G[i]
    BY <1>5
  <2>3. F[i][g[i - 1]] \in X /\ g[i - 1] \in X
    BY <1>1, <2>1, <2>2
  <2> QED
    BY <1>3, <1>4, <2>2, <2>3
<1> DEFINE Good == {i \in 0..n : g[i] \in G[i]}
<1>6. 0..n \subseteq Good
  <2>1. 0 \in Good
    BY <1>4
  <2>2. ASSUME NEW i \in 0..(n - 1), i \in Good PROVE i + 1 \in Good
    <3> DEFINE k == i + 1
    <3>1. k \in 1..n /\ k - 1 = i /\ k \in 0..n
      OBVIOUS
    <3>2. g[k - 1] \in G[k - 1]
      BY <2>2, <3>1
    <3> HIDE DEF k
    <3>3. g[k] \in G[k]
      BY <1>5, <3>1, <3>2
    <3> QED
      BY <3>1, <3>3 DEF k
  <2> HIDE DEF Good
  <2> QED
    BY <2>1, <2>2, UpTo
<1>7. \A i \in 1..n : i - 1 \in 0..n
  OBVIOUS
<1> QED
  BY <1>4, <1>5, <1>6, <1>7 DEF Sure

\* Two sequences of states that one turn gives are the same.
Agree(f, g, n) == \A i \in 0..n : f[i] = g[i]

LEMMA TurnsUnique ==
  ASSUME NEW n \in Nat, NEW f, NEW g, f[0] = g[0],
         \A i \in 1..n : f[i - 1] = g[i - 1] => f[i] = g[i]
  PROVE  Agree(f, g, n)
<1> DEFINE Good == {i \in 0..n : f[i] = g[i]}
<1>1. 0 \in Good
  OBVIOUS
<1>2. ASSUME NEW i \in 0..(n - 1), i \in Good PROVE i + 1 \in Good
  <2> DEFINE k == i + 1
  <2>1. k \in 1..n /\ k - 1 = i /\ k \in 0..n
    OBVIOUS
  <2> HIDE DEF k
  <2>2. f[k] = g[k]
    BY <1>2, <2>1
  <2> QED
    BY <2>1, <2>2 DEF k
<1>3. 0..n \subseteq Good
  <2> HIDE DEF Good
  <2> QED
    BY <1>1, <1>2, UpTo
<1> QED
  BY <1>3 DEF Agree

\* Powers of two are as many as the subsets of a set.
LEMMA TwoExp ==
  ASSUME NEW k \in Nat
  PROVE  2^k \in Nat /\ 2^k >= 1 /\ 2^(k + 1) = 2 * 2^k
<1> DEFINE S == 1..k
           T == 1..(k + 1)
           Rest == {A \in SUBSET T : k + 1 \in A}
           f == [A \in SUBSET S |-> A \cup {k + 1}]
<1>1. IsFiniteSet(S) /\ Cardinality(S) = k /\ IsFiniteSet(T) /\ Cardinality(T) = k + 1
  <2>1. 1 \in Int /\ k \in Int /\ k + 1 \in Int /\ k + 1 >= 1
    OBVIOUS
  <2>2. QED  BY <2>1, FS_Interval
<1>2. /\ IsFiniteSet(SUBSET S) /\ Cardinality(SUBSET S) = 2^k
      /\ IsFiniteSet(SUBSET T) /\ Cardinality(SUBSET T) = 2^(k + 1)
  <2> HIDE DEF S, T
  <2>1. QED  BY <1>1, FS_SUBSET
<1>3. SUBSET T = (SUBSET S) \cup Rest /\ (SUBSET S) \cap Rest = {}
  <2>1. T = S \cup {k + 1} /\ k + 1 \notin S
    OBVIOUS
  <2> HIDE DEF S, T
  <2>2. QED  BY <2>1
<1>4. f \in Bijection(SUBSET S, Rest)
  <2>1. T = S \cup {k + 1} /\ k + 1 \notin S
    OBVIOUS
  <2> HIDE DEF S, T
  <2>2. f \in [SUBSET S -> Rest]
    BY <2>1
  <2>3. ASSUME NEW A \in SUBSET S, NEW B \in SUBSET S, f[A] = f[B] PROVE A = B
    BY <2>1, <2>3
  <2>4. ASSUME NEW B \in Rest PROVE \E A \in SUBSET S : f[A] = B
    <3>1. B \ {k + 1} \in SUBSET S /\ (B \ {k + 1}) \cup {k + 1} = B
      BY <2>1
    <3>2. QED  BY <3>1
  <2> HIDE DEF f
  <2>5. QED  BY <2>2, <2>3, <2>4 DEF Bijection, Injection, Surjection, IsInjective
<1>5. IsFiniteSet(Rest) /\ Cardinality(Rest) = Cardinality(SUBSET S)
  <2>1. ExistsBijection(SUBSET S, Rest)
    BY <1>4 DEF ExistsBijection
  <2> HIDE DEF S, Rest
  <2>2. QED  BY <1>2, <2>1, FS_Bijection
<1> HIDE DEF S, T, Rest
<1>6. Cardinality(SUBSET T) = Cardinality(SUBSET S) + Cardinality(Rest) - 0
  BY <1>2, <1>3, <1>5, FS_Union, FS_EmptySet
<1>7. Cardinality(SUBSET S) \in Nat /\ Cardinality(SUBSET S) # 0
  <2>1. SUBSET S # {}
    OBVIOUS
  <2>2. QED  BY <1>2, <2>1, FS_CardinalityType, FS_EmptySet
<1>8. QED  BY <1>2, <1>5, <1>6, <1>7

-------------------------------------------------------------------------------
(* Sequences: a member put in or taken out, a part, an enumeration of a set. *)

PutIn(s, k, x, t) ==
  /\ Len(t) = Len(s) + 1 /\ t[k] = x
  /\ \A p \in 1..(k - 1) : t[p] = s[p]
  /\ \A p \in (k + 1)..(Len(s) + 1) : t[p] = s[p - 1]
TakenOut(s, k, t) ==
  /\ Len(t) = Len(s) - 1
  /\ \A p \in 1..(k - 1) : t[p] = s[p]
  /\ \A p \in k..(Len(s) - 1) : t[p] = s[p + 1]

\* A sequence with a member put in: that member, and the others as they were.
LEMMA PutInIs ==
  ASSUME NEW S, NEW s \in Seq(S), NEW x \in S, NEW k \in 1..(Len(s) + 1)
  PROVE  LET t == SubSeq(s, 1, k - 1) \o <<x>> \o SubSeq(s, k, Len(s))
         IN t \in Seq(S) /\ PutIn(s, k, x, t)
<1> DEFINE a == SubSeq(s, 1, k - 1)
           b == SubSeq(s, k, Len(s))
           t == SubSeq(s, 1, k - 1) \o <<x>> \o SubSeq(s, k, Len(s))
<1>1. t = a \o <<x>> \o b
  OBVIOUS
<1>2. a \in Seq(S) /\ Len(a) = k - 1 /\ \A p \in 1..(k - 1) : a[p] = s[p]
  OBVIOUS
<1>3. b \in Seq(S) /\ Len(b) = Len(s) - k + 1 /\ \A p \in 1..(Len(s) - k + 1) : b[p] = s[k + p - 1]
  OBVIOUS
<1> HIDE DEF a, b, t
<1>4. Len(t) = Len(s) + 1 /\ t \in Seq(S)
  <2>1. <<x>> \in Seq(S) /\ Len(<<x>>) = 1
    OBVIOUS
  <2>2. a \o <<x>> \in Seq(S) /\ Len(a \o <<x>>) = Len(a) + Len(<<x>>)
    BY <1>2, <2>1, ConcatProperties, Zenon
  <2>3. (a \o <<x>>) \o b \in Seq(S) /\ Len((a \o <<x>>) \o b) = Len(a \o <<x>>) + Len(b)
    BY <1>3, <2>2, ConcatProperties, Zenon
  <2> DEFINE n == Len(s)
  <2>4. n \in Nat /\ Len(a) = k - 1 /\ Len(b) = n - k + 1
    BY <1>2, <1>3
  <2>5. Len(t) = Len(a) + 1 + Len(b)
    BY <1>1, <2>1, <2>2, <2>3, Zenon
  <2> HIDE DEF n
  <2>6. Len(t) = n + 1
    BY <2>4, <2>5
  <2>7. Len(t) = Len(s) + 1
    BY <2>6 DEF n
  <2> QED
    BY <1>1, <2>3, <2>7, Zenon
<1>5. \A p \in 1..(Len(s) + 1) : t[p] = IF p < k THEN a[p] ELSE IF p = k THEN x ELSE b[p - k]
  BY <1>1, <1>2, <1>3, SMTT(30)
<1>6. \A p \in 1..(k - 1) : t[p] = s[p]
  BY <1>2, <1>5
<1>7. t[k] = x
  BY <1>5
<1>8. \A p \in (k + 1)..(Len(s) + 1) : t[p] = s[p - 1]
  <2> TAKE p \in (k + 1)..(Len(s) + 1)
  <2>1. p - k \in 1..(Len(s) - k + 1) /\ k + (p - k) - 1 = p - 1
    OBVIOUS
  <2>2. t[p] = b[p - k]
    BY <1>5
  <2> QED
    BY <1>3, <2>1, <2>2
<1> QED
  BY <1>4, <1>6, <1>7, <1>8 DEF t, PutIn

\* A sequence with a member taken out: the others as they were.
LEMMA TakenOutIs ==
  ASSUME NEW S, NEW s \in Seq(S), NEW k \in 1..Len(s)
  PROVE  LET t == SubSeq(s, 1, k - 1) \o SubSeq(s, k + 1, Len(s))
         IN t \in Seq(S) /\ TakenOut(s, k, t)
<1> DEFINE a == SubSeq(s, 1, k - 1)
           b == SubSeq(s, k + 1, Len(s))
           t == SubSeq(s, 1, k - 1) \o SubSeq(s, k + 1, Len(s))
<1>1. t = a \o b
  OBVIOUS
<1>2. a \in Seq(S) /\ Len(a) = k - 1 /\ \A p \in 1..(k - 1) : a[p] = s[p]
  OBVIOUS
<1>3. b \in Seq(S) /\ Len(b) = Len(s) - k /\ \A p \in 1..(Len(s) - k) : b[p] = s[k + p]
  OBVIOUS
<1> HIDE DEF a, b, t
<1>4. Len(t) = Len(s) - 1 /\ t \in Seq(S)
  <2>1. a \o b \in Seq(S) /\ Len(a \o b) = Len(a) + Len(b)
    BY <1>2, <1>3, ConcatProperties, Zenon
  <2> QED
    BY <1>1, <1>2, <1>3, <2>1
<1>5. \A p \in 1..(Len(s) - 1) : t[p] = IF p < k THEN a[p] ELSE b[p - k + 1]
  BY <1>1, <1>2, <1>3
<1>6. \A p \in 1..(k - 1) : t[p] = s[p]
  BY <1>2, <1>5
<1>7. \A p \in k..(Len(s) - 1) : t[p] = s[p + 1]
  <2> TAKE p \in k..(Len(s) - 1)
  <2>1. p - k + 1 \in 1..(Len(s) - k) /\ k + (p - k + 1) = p + 1
    OBVIOUS
  <2>2. t[p] = b[p - k + 1]
    BY <1>5
  <2> QED
    BY <1>3, <2>1, <2>2
<1> QED
  BY <1>4, <1>6, <1>7, Zenon DEF t, TakenOut

\* A sequence's first p members are its first p - 1 and the next.
LEMMA PrefixFacts ==
  ASSUME NEW S, NEW s \in Seq(S), NEW p \in 1..Len(s)
  PROVE  SubSeq(s, 1, p) = Append(SubSeq(s, 1, p - 1), s[p])
<1> DEFINE a == SubSeq(s, 1, p)
           b == SubSeq(s, 1, p - 1)
<1>1. p - 1 \in Nat /\ p \in Nat /\ s[p] \in S
  OBVIOUS
<1>2. a \in Seq(S) /\ Len(a) = p /\ \A q \in 1..p : a[q] = s[q]
  OBVIOUS
<1>3. b \in Seq(S) /\ Len(b) = p - 1 /\ \A q \in 1..(p - 1) : b[q] = s[q]
  OBVIOUS
<1> HIDE DEF a, b
<1>4. Append(b, s[p]) \in Seq(S) /\ Len(Append(b, s[p])) = p
      /\ \A q \in 1..p : Append(b, s[p])[q] = IF q = p THEN s[p] ELSE b[q]
  BY <1>1, <1>3
<1>5. \A q \in 1..p : Append(b, s[p])[q] = a[q]
  BY <1>1, <1>2, <1>3, <1>4
<1>6. a = Append(b, s[p])
  BY <1>2, <1>4, <1>5, SeqEqual
<1> QED
  BY <1>6 DEF a, b

\* A sequence's members after its first c.
LEMMA SuffixFacts ==
  ASSUME NEW S, NEW s \in Seq(S), NEW c \in 0..Len(s)
  PROVE  LET u == SubSeq(s, c + 1, Len(s))
         IN u \in Seq(S) /\ Len(u) = Len(s) - c /\ \A p \in 1..(Len(s) - c) : u[p] = s[c + p]
OBVIOUS

\* The sequence q is of the members of S, each once.
Enum(q, S) ==
  /\ q \in Seq(Nat)
  /\ \A p \in DOMAIN q : q[p] \in S
  /\ \A i \in S : \E p \in DOMAIN q : q[p] = i
  /\ \A p, m \in DOMAIN q : q[p] = q[m] => p = m

\* Two sequences of different members, one after the other.
LEMMA EnumMore ==
  ASSUME NEW q, NEW S, NEW u, NEW T, Enum(q, S), Enum(u, T), S \cap T = {}
  PROVE  Enum(q \o u, S \cup T)
<1> DEFINE t == q \o u
           n == Len(q)
           m == Len(u)
<1>1. q \in Seq(Nat) /\ u \in Seq(Nat) /\ n \in Nat /\ m \in Nat /\ DOMAIN q = 1..n /\ DOMAIN u = 1..m
  BY DEF Enum
<1>2. t \in Seq(Nat) /\ Len(t) = n + m /\ DOMAIN t = 1..(n + m)
  BY <1>1
<1>3. \A p \in 1..n : p \in 1..(n + m) /\ t[p] = q[p]
  BY <1>1
<1>4. \A p \in 1..m : n + p \in 1..(n + m) /\ t[n + p] = u[p]
  BY <1>1
<1>5. \A p \in 1..(n + m) : p \notin 1..n => p - n \in 1..m /\ n + (p - n) = p
  BY <1>1
<1> HIDE DEF t, n, m
<1>9. \A p \in 1..(n + m) : p \notin 1..n => t[p] = u[p - n] /\ p - n \in 1..m /\ n + (p - n) = p
  <2> TAKE p \in 1..(n + m)
  <2> HAVE p \notin 1..n
  <2> DEFINE v == p - n
  <2>1. v \in 1..m /\ n + v = p
    BY <1>5
  <2> HIDE DEF v
  <2>2. t[p] = u[v]
    BY <1>4, <2>1
  <2> QED
    BY <2>1, <2>2 DEF v
<1>6. \A p \in DOMAIN t : (p \in 1..n => t[p] \in S) /\ (p \notin 1..n => t[p] \in T)
  BY <1>1, <1>2, <1>3, <1>9, ZenonT(40) DEF Enum
<1>7. \A i \in S \cup T : \E p \in DOMAIN t : t[p] = i
  <2> TAKE i \in S \cup T
  <2>1. CASE i \in S
    <3>1. PICK p \in 1..n : q[p] = i
      BY <1>1, <2>1 DEF Enum
    <3> QED
      BY <1>2, <1>3, <3>1, Zenon
  <2>2. CASE i \in T
    <3>1. PICK p \in 1..m : u[p] = i
      BY <1>1, <2>2 DEF Enum
    <3> QED
      BY <1>2, <1>4, <3>1
  <2> QED
    BY <2>1, <2>2
<1>8. ASSUME NEW p \in DOMAIN t, NEW v \in DOMAIN t, t[p] = t[v] PROVE p = v
  <2>1. CASE p \in 1..n /\ v \in 1..n
    BY <1>1, <1>3, <1>8, <2>1 DEF Enum
  <2>2. CASE p \notin 1..n /\ v \notin 1..n
    <3>1. p - n = v - n
      BY <1>1, <1>2, <1>8, <1>9, <2>2, ZenonT(40) DEF Enum
    <3> QED
      BY <1>2, <1>9, <2>2, <3>1
  <2>3. CASE ~(p \in 1..n <=> v \in 1..n)
    BY <1>6, <1>8, <2>3
  <2> QED
    BY <2>1, <2>2, <2>3
<1> QED
  BY <1>2, <1>6, <1>7, <1>8, Zenon DEF Enum, t

\* A sequence without repetition is as long as it has members.
LEMMA EnumCount ==
  ASSUME NEW q \in Seq(Nat), \A p, m \in DOMAIN q : p < m => q[p] # q[m]
  PROVE  Cardinality({q[p] : p \in DOMAIN q}) = Len(q)
<1> DEFINE n == Len(q)
           S == {q[p] : p \in DOMAIN q}
<1>1. n \in Nat /\ DOMAIN q = 1..n
  OBVIOUS
<1>2. S = {q[p] : p \in 1..n}
  BY <1>1
<1>3. q \in [1..n -> S] /\ \A i \in S : \E p \in 1..n : q[p] = i
  BY <1>1, <1>2
<1>4. \A p, m \in 1..n : q[p] = q[m] => p = m
  <2> TAKE p, m \in 1..n
  <2>1. p < m \/ m < p \/ p = m
    BY <1>1
  <2> QED
    BY <1>1, <2>1
<1> HIDE DEF n, S
<1>5. q \in Bijection(1..n, S)
  BY <1>3, <1>4 DEF Bijection, Injection, Surjection, IsInjective
<1>6. ExistsBijection(1..n, S)
  BY <1>5 DEF ExistsBijection
<1>7. Cardinality(S) = n
  BY <1>1, <1>6, FS_CountingElements
<1> QED
  BY <1>7 DEF n, S

\* A set of the first places is as long as it has members.
LEMMA DownIs ==
  ASSUME NEW n \in Nat, NEW P \in SUBSET (1..n), \A p \in P : 1..p \subseteq P
  PROVE  /\ Cardinality(P) \in 0..n /\ IsFiniteSet(P)
         /\ \A p \in 1..n : p \in P <=> p <= Cardinality(P)
<1>1. \E c \in 0..n : P = 1..c
  <2>1. CASE P = {}
    <3>1. 0 \in 0..n /\ 1..0 = {}
      OBVIOUS
    <3> QED
      BY <2>1, <3>1
  <2>2. CASE P # {}
    <3> DEFINE D == {e \in 0..n : n - e \in P}
    <3>1. PICK q \in P : TRUE
      BY <2>2, Zenon
    <3>2. n - q \in D /\ D \in SUBSET Nat
      OBVIOUS
    <3>3. PICK d \in D : \A e \in D : d <= e
      <4> HIDE DEF D
      <4> QED
        BY <3>2, LeastNatural
    <3> DEFINE c == n - d
    <3>4. c \in P /\ c \in 1..n
      OBVIOUS
    <3>5. ASSUME NEW p \in P PROVE p <= c
      <4>1. n - p \in D
        OBVIOUS
      <4>2. d <= n - p
        BY <3>3, <4>1
      <4> QED
        BY <4>2
    <3> HIDE DEF c
    <3>6. 1..c \subseteq P
      BY <3>4
    <3>7. P \subseteq 1..c
      <4>1. ASSUME NEW p \in P PROVE p \in 1..c
        BY <3>4, <3>5
      <4> QED
        BY <4>1
    <3>8. P = 1..c
      BY <3>6, <3>7, Zenon
    <3>9. c \in 0..n
      BY <3>4
    <3> QED
      BY <3>8, <3>9
  <2> QED
    BY <2>1, <2>2
<1>2. PICK c \in 0..n : P = 1..c
  BY <1>1, Zenon
<1>3. IsFiniteSet(P) /\ Cardinality(P) = c
  <2>1. 1 \in Int /\ c \in Int
    OBVIOUS
  <2>2. Cardinality(1..c) = IF 1 > c THEN 0 ELSE c - 1 + 1
    BY <2>1, FS_Interval
  <2>3. IsFiniteSet(1..c)
    BY <2>1, FS_Interval
  <2> QED
    BY <1>2, <2>2, <2>3
<1> QED
  BY <1>2, <1>3

-------------------------------------------------------------------------------
(* Tallies: the bag of what a function says of the members of a set.         *)

Tally(w, I) == [d \in {w[i] : i \in I} |-> Cardinality({i \in I : w[i] = d})]

\* A tally is of what the function says of the members, whatever says it.
LEMMA TallySame ==
  ASSUME NEW w, NEW v, NEW I, \A i \in I : v[i] = w[i]
  PROVE  Tally(v, I) = Tally(w, I)
<1>1. {v[i] : i \in I} = {w[i] : i \in I}
  OBVIOUS
<1>2. ASSUME NEW d PROVE {i \in I : v[i] = d} = {i \in I : w[i] = d}
  OBVIOUS
<1> QED
  BY <1>1, <1>2 DEF Tally

Counts(w, I, d) ==
  /\ IsFiniteSet({i \in I : w[i] = d})
  /\ Cardinality({i \in I : w[i] = d}) \in Nat
  /\ Cardinality({i \in I : w[i] = d}) = 0 <=> d \notin {w[i] : i \in I}

\* How many of the members something is said of.
LEMMA TallyCounts ==
  ASSUME NEW w, NEW I, IsFiniteSet(I), NEW d
  PROVE  Counts(w, I, d)
<1> DEFINE S == {i \in I : w[i] = d}
<1>1. IsFiniteSet(S)
  BY FS_Subset
<1>2. Cardinality(S) \in Nat /\ (Cardinality(S) = 0 <=> S = {})
  BY <1>1, FS_CardinalityType, FS_EmptySet
<1>3. S = {} <=> d \notin {w[i] : i \in I}
  OBVIOUS
<1> QED
  BY <1>1, <1>2, <1>3 DEF Counts

\* Two sets of members.
LEMMA TallyBoth ==
  ASSUME NEW w, NEW I, NEW J, IsFiniteSet(I), IsFiniteSet(J), I \cap J = {}
  PROVE  Tally(w, I \cup J) = Tally(w, I) (+) Tally(w, J)
<1> DEFINE D == {w[i] : i \in I}
           E == {w[i] : i \in J}
           F == {w[i] : i \in I \cup J}
           C(d) == {i \in I : w[i] = d}
           M(d) == {i \in J : w[i] = d}
           N(d) == {i \in I \cup J : w[i] = d}
<1>1. F = D \cup E
  OBVIOUS
<1>2. ASSUME NEW d \in F
      PROVE  Cardinality(N(d)) = (IF d \in D THEN Cardinality(C(d)) ELSE 0) + (IF d \in E THEN Cardinality(M(d)) ELSE 0)
  <2>1. IsFiniteSet(C(d)) /\ Cardinality(C(d)) \in Nat /\ (Cardinality(C(d)) = 0 <=> d \notin D)
    <3>1. Counts(w, I, d)
      BY TallyCounts
    <3> QED
      BY <3>1 DEF Counts
  <2>2. IsFiniteSet(M(d)) /\ Cardinality(M(d)) \in Nat /\ (Cardinality(M(d)) = 0 <=> d \notin E)
    <3>1. Counts(w, J, d)
      BY TallyCounts
    <3> QED
      BY <3>1 DEF Counts
  <2>3. N(d) = C(d) \cup M(d) /\ C(d) \cap M(d) = {}
    OBVIOUS
  <2>4. Cardinality(C(d) \cap M(d)) = 0
    BY <2>3, FS_EmptySet
  <2> HIDE DEF C, M, N, D, E, F
  <2>5. Cardinality(C(d) \cup M(d)) = Cardinality(C(d)) + Cardinality(M(d)) - Cardinality(C(d) \cap M(d))
    BY <2>1, <2>2, FS_Union
  <2> QED
    BY <2>1, <2>2, <2>3, <2>4, <2>5
<1>3. /\ Tally(w, I \cup J) = [d \in F |-> Cardinality(N(d))]
      /\ Tally(w, I) = [d \in D |-> Cardinality(C(d))] /\ Tally(w, J) = [d \in E |-> Cardinality(M(d))]
  BY DEF Tally
<1> HIDE DEF C, M, N, D, E, F
<1> QED
  BY <1>1, <1>2, <1>3 DEF (+)

\* Members by other names.
LEMMA TallyRenamed ==
  ASSUME NEW w, NEW v, NEW I, NEW J, IsFiniteSet(J), NEW h \in [J -> I],
         \A i \in I : \E j \in J : h[j] = i, \A j, m \in J : h[j] = h[m] => j = m,
         \A j \in J : v[j] = w[h[j]]
  PROVE  Tally(v, J) = Tally(w, I)
<1>1. {v[j] : j \in J} = {w[i] : i \in I}
  <2>1. ASSUME NEW j \in J PROVE v[j] \in {w[i] : i \in I}
    OBVIOUS
  <2>2. ASSUME NEW i \in I PROVE w[i] \in {v[j] : j \in J}
    <3>1. PICK j \in J : h[j] = i
      OBVIOUS
    <3> QED
      BY <3>1
  <2> QED
    BY <2>1, <2>2
<1>2. ASSUME NEW d PROVE Cardinality({j \in J : v[j] = d}) = Cardinality({i \in I : w[i] = d})
  <2> DEFINE S == {j \in J : v[j] = d}
             T == {i \in I : w[i] = d}
             g == [j \in S |-> h[j]]
  <2>1. IsFiniteSet(S)
    BY FS_Subset
  <2>2. g \in [S -> T]
    OBVIOUS
  <2>3. \A j, m \in S : g[j] = g[m] => j = m
    OBVIOUS
  <2>4. \A i \in T : \E j \in S : g[j] = i
    <3> TAKE i \in T
    <3>1. PICK j \in J : h[j] = i
      OBVIOUS
    <3>2. j \in S /\ g[j] = i
      BY <3>1
    <3> QED
      BY <3>2
  <2> HIDE DEF S, T, g
  <2>5. g \in Bijection(S, T)
    BY <2>2, <2>3, <2>4 DEF Bijection, Injection, Surjection, IsInjective
  <2>6. ExistsBijection(S, T)
    BY <2>5 DEF ExistsBijection
  <2> QED
    BY <2>1, <2>6, FS_Bijection DEF S, T
<1> QED
  BY <1>1, <1>2 DEF Tally

\* No members, no declarations.
LEMMA TallyNone ==
  ASSUME NEW w
  PROVE  Tally(w, {}) = EmptyBag
BY DEF Tally, EmptyBag, SetToBag

===============================================================================
