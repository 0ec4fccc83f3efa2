------------------------------ MODULE RosterProof ------------------------------
(***************************************************************************)
(* The roster through any calls of a parse, for all labels and kinds,      *)
(* every text, any length of the log and any slack of a reopen.            *)
(*                                                                         *)
(* Sound(r) says what a roster is between two calls: its index holds what  *)
(* its cursors say was taken of the log (Indexed), a withdrawal and what   *)
(* it withdrew are a pair (Paired), the entries of each kind's places are  *)
(* its declarations that stand, each side's in order (Placed), and, where  *)
(* a lookup sees both sides, none of the front starts past one of the      *)
(* back (Divided).  Every call is shown to keep a roster sound by itself.  *)
(*                                                                         *)
(* What a call may be made of takes more: a rollback finds of the records  *)
(* since its mark none that an edit moved or let go (Since), and the dead  *)
(* its mark counted (DeadSet); what an edit's reading declared lies below  *)
(* what the splice takes back, which lies in the text (Within, EditOK).    *)
(* IInv is all of it, of the parse.                                        *)
(*                                                                         *)
(* Beside the labels, the bags are tallies of the records: what stands,    *)
(* what an edit hides, and what each mark found (Bagged).  A lookup's      *)
(* answer follows, of the first of a list; and the labels an edit altered, *)
(* of what its phases keep of the labels it began with (EditSeen).         *)
(***************************************************************************)
EXTENDS RosterLabels, SequenceTheorems, FiniteSetTheorems, Groundwork, TLAPS

\* What the fields of the roster, and a mark of it, hold.
Recs == [key : Keys, start : Int, withdrew : Nat, linked : BOOLEAN, withdrawn : BOOLEAN, back : BOOLEAN, gone : BOOLEAN]
Entries == [start : Int, record : Nat]
Lists == [list : Seq(Nat), hint : Nat]
Rosters == [log : Seq(Recs), index : [Keys -> Lists], indexed : [Kinds -> Int], cursor : [Kinds -> Nat],
            front : [Kinds -> Seq(Entries)], back : [Kinds -> Seq(Entries)], end : [Kinds -> Int],
            placed : BOOLEAN, hidden : BOOLEAN, dead : Int, lost : SUBSET Keys]
Marks == [count : Nat, dead : Int]

Kind(x) == KindOf[x.key]

\* A key's list: the records T, each once, in the order of lookups, and the hint one of them.
Ordered(log, list) == \A p, q \in DOMAIN list : p < q => list[p] # list[q] /\ ~S_precedes(log[list[q]], log[list[p]])
Listing(log, e, T) ==
  /\ \A p \in DOMAIN e.list : e.list[p] \in T
  /\ \A i \in T : \E p \in DOMAIN e.list : e.list[p] = i
  /\ Ordered(log, e.list)
  /\ IF e.list = << >> THEN e.hint = 0 ELSE \E p \in DOMAIN e.list : e.list[p] = e.hint

\* The index holds the records T.
Holds(r, T) ==
  /\ T \subseteq DOMAIN r.log
  /\ \A k \in Keys : Listing(r.log, r.index[k], {i \in T : r.log[i].key = k})
  /\ \A i \in DOMAIN r.log : r.log[i].linked <=> i \in T

Taken(r) == {i \in DOMAIN r.log : i <= r.cursor[Kind(r.log[i])] /\ Stands(r.log[i])}
UpToCursor(r, d) == {i \in DOMAIN r.log : i <= r.cursor[d] /\ Kind(r.log[i]) = d}
Indexed(r) ==
  /\ Holds(r, Taken(r))
  /\ \A d \in Kinds : r.indexed[d] = Cardinality(UpToCursor(r, d))

\* What withdraws and what is withdrawn.
Paired(r) ==
  /\ \A i \in DOMAIN r.log :
       LET w == r.log[i].withdrew
       IN w # 0 => /\ w < i /\ r.log[w].key = r.log[i].key /\ r.log[w].withdrew = 0
                   /\ r.log[w].withdrawn /\ i <= r.cursor[Kind(r.log[i])]
  /\ \A i, j \in DOMAIN r.log : r.log[i].withdrew # 0 /\ r.log[i].withdrew = r.log[j].withdrew => i = j
  /\ \A w \in DOMAIN r.log : r.log[w].withdrawn => \E i \in DOMAIN r.log : r.log[i].withdrew = w

\* Of the log's first c records those that stand for nothing: gone, a withdrawal,
\* or withdrawn by one of them.
DeadSet(log, c) ==
  {i \in 1..c : log[i].gone \/ log[i].withdrew # 0 \/ \E j \in 1..c : log[j].withdrew = i}

\* The dead are counted of a roster.
Counted(r) == r.dead = Cardinality(DeadSet(r.log, Len(r.log)))

\* Entries in order of the records S, each where it starts; and those of the
\* declarations of the kind d that stand on one side.
Sits(log, S, entries) ==
  /\ \A p \in DOMAIN entries : entries[p].record \in S /\ log[entries[p].record].start = entries[p].start
  /\ \A i \in S : \E p \in DOMAIN entries : entries[p].record = i
  /\ \A p, q \in DOMAIN entries : p < q => entries[p].record # entries[q].record /\ entries[p].start <= entries[q].start
Fronts(log, d) == {i \in DOMAIN log : Stands(log[i]) /\ Kind(log[i]) = d /\ ~log[i].back}
Backs(log, d) == {i \in DOMAIN log : Stands(log[i]) /\ Kind(log[i]) = d /\ log[i].back}
Placed(r) ==
  IF r.placed THEN \A d \in Kinds : Sits(r.log, Fronts(r.log, d), r.front[d]) /\ Sits(r.log, Backs(r.log, d), r.back[d])
  ELSE /\ \A d \in Kinds : r.front[d] = << >> /\ r.back[d] = << >>
       /\ \A i \in DOMAIN r.log : ~r.log[i].back /\ ~r.log[i].gone

\* The front's declarations start before the back's, unless a reading is hiding these.
Divided(r) ==
  ~r.hidden => \A d \in Kinds : \A i \in Fronts(r.log, d), j \in Backs(r.log, d) :
                 r.log[i].start <= r.end[d] - r.log[j].start

\* What a rollback to a mark of c records finds of the records made since.
Since(r, c) ==
  \A i \in DOMAIN r.log : i > c => ~r.log[i].gone /\ ~r.log[i].back /\ (r.placed => r.log[i].withdrew = 0)

\* The cursors are within the log, and a roster between two calls is sound.
Settled(r) == \A d \in Kinds : r.cursor[d] <= Len(r.log)
Sound(r) == r \in Rosters /\ Indexed(r) /\ Paired(r) /\ Placed(r) /\ Divided(r)

\* What stands is within a text.
Within(r, limit) ==
  /\ \A i \in DOMAIN r.log : (Stands(r.log[i]) \/ ~r.placed) /\ ~r.log[i].back => r.log[i].start <= limit
  /\ \A i \in DOMAIN r.log : Stands(r.log[i]) /\ r.log[i].back => 0 <= r.log[i].start

-------------------------------------------------------------------------------
(* A key's list.                                                           *)

\* What the library's InsertAt and RemoveAt give.
LEMMA InsertFacts ==
  ASSUME NEW S, NEW s \in Seq(S), NEW x \in S, NEW k \in 1..(Len(s) + 1)
  PROVE  InsertAt(s, k, x) \in Seq(S) /\ PutIn(s, k, x, InsertAt(s, k, x))
BY PutInIs, Zenon DEF InsertAt
LEMMA RemoveFacts ==
  ASSUME NEW S, NEW s \in Seq(S), NEW k \in 1..Len(s)
  PROVE  RemoveAt(s, k) \in Seq(S) /\ TakenOut(s, k, RemoveAt(s, k))
BY TakenOutIs, Zenon DEF RemoveAt

\* S_precedes is an order in which no two records precede each other, and its negation is transitive.
LEMMA Precedence ==
  ASSUME NEW x \in Recs, NEW y \in Recs, NEW z \in Recs
  PROVE  /\ ~S_precedes(x, y) \/ ~S_precedes(y, x)
         /\ ~S_precedes(y, x) /\ ~S_precedes(z, y) => ~S_precedes(z, x)
<1>1. /\ x.start \in Int /\ y.start \in Int /\ z.start \in Int
      /\ x.back \in BOOLEAN /\ y.back \in BOOLEAN /\ z.back \in BOOLEAN
  BY DEF Recs
<1> QED BY <1>1 DEF S_precedes

\* The walk from the hint ends at the last of what stays, when that comes first.
LEMMA WalkedIs ==
  ASSUME NEW e \in Lists, e.list # << >>, NEW stays,
         \E p \in DOMAIN e.list : e.list[p] = e.hint,
         \A p, q \in DOMAIN e.list : p < q => e.list[p] # e.list[q] /\ (e.list[q] \in stays => e.list[p] \in stays)
  PROVE  LET w == Walked(e, stays)
         IN w \in 0..Len(e.list) /\ \A p \in 1..Len(e.list) : e.list[p] \in stays <=> p <= w
<1> DEFINE list == e.list
           n == Len(list)
           h == At(list, e.hint)
           P == {p \in 1..n : list[p] \in stays}
           c == Cardinality(P)
<1>1. list \in Seq(Nat) /\ n \in Nat /\ DOMAIN list = 1..n
  BY DEF Lists
<1>2. h \in 1..n /\ list[h] = e.hint
  <2>1. PICK p \in 1..n : list[p] = e.hint BY <1>1
  <2>2. ASSUME NEW q \in 1..n, list[q] = list[p] PROVE q = p
    <3>1. ~(q < p) /\ ~(p < q) BY <1>1, <2>2, Zenon
    <3> QED BY <1>1, <3>1
  <2> QED BY <1>1, <2>1, <2>2, Zenon DEF At
<1>3. c \in 0..n /\ \A p \in 1..n : p \in P <=> p <= c
  <2>1. P \in SUBSET (1..n) OBVIOUS
  <2>2. ASSUME NEW q \in P PROVE 1..q \subseteq P
    <3>1. q \in 1..n /\ list[q] \in stays OBVIOUS
    <3>2. ASSUME NEW p \in 1..q PROVE p \in 1..n /\ list[p] \in stays
      <4>1. p \in 1..n /\ (p < q \/ p = q) BY <1>1, <3>1
      <4> QED BY <1>1, <3>1, <4>1, Zenon
    <3> QED BY <3>2
  <2> HIDE DEF P, n
  <2> QED BY <1>1, <2>1, <2>2, DownIs
<1>4. \A p \in 1..n : list[p] \in stays <=> p <= c BY <1>3
<1> HIDE DEF c, P, n, h
<1>5. Walked(e, stays) = c
  <2>1. CASE list[h] \in stays
    <3> DEFINE Q(q) == (q = n \/ list[q + 1] \notin stays) /\ \A p \in h..q : list[p] \in stays
    <3>1. Walked(e, stays) = CHOOSE q \in h..n : Q(q)
      BY <2>1, Zenon DEF Walked, n, h
    <3>2. c \in h..n /\ Q(c)
      <4>1. h <= c BY <1>2, <1>4, <2>1
      <4>2. c = n \/ c + 1 \in 1..n BY <1>1, <1>3
      <4>3. c = n \/ list[c + 1] \notin stays
        BY <1>1, <1>3, <1>4, <4>2
      <4>4. \A p \in h..c : list[p] \in stays
        BY <1>1, <1>2, <1>3, <1>4
      <4> QED BY <1>1, <1>2, <1>3, <4>1, <4>3, <4>4
    <3>3. ASSUME NEW q \in h..n, Q(q) PROVE q = c
      <4>1. q \in 1..n /\ q <= c BY <1>1, <1>2, <1>4, <3>3
      <4>2. CASE q = n BY <1>3, <4>1, <4>2
      <4>3. CASE q # n
        <5>1. q + 1 \in 1..n /\ list[q + 1] \notin stays
          BY <1>1, <3>3, <4>1, <4>3
        <5>2. ~(q + 1 <= c) BY <1>4, <5>1
        <5> QED BY <1>3, <4>1, <5>2
      <4> QED BY <4>2, <4>3
    <3> HIDE DEF Q
    <3> QED BY <3>1, <3>2, <3>3
  <2>2. CASE list[h] \notin stays
    <3> DEFINE M == {0} \cup {p \in 1..h : list[p] \in stays}
    <3>1. Walked(e, stays) = Max(M) BY <2>2 DEF Walked, h
    <3>2. c < h BY <1>2, <1>3, <1>4, <2>2
    <3>3. \A p \in 1..h : list[p] \in stays <=> p <= c
      BY <1>1, <1>2, <1>4
    <3>4. M = 0..c BY <1>1, <1>2, <1>3, <3>2, <3>3
    <3> HIDE DEF M
    <3>5. c \in M /\ \A y \in M : c >= y BY <1>3, <3>4
    <3>6. \A x \in M : (\A y \in M : x >= y) => x = c
      BY <1>3, <3>4
    <3> QED BY <3>1, <3>5, <3>6 DEF Max
  <2> QED BY <2>1, <2>2
<1> QED BY <1>3, <1>4, <1>5 DEF n

\* The list with the record i put where S_link puts it.
LEMMA LinkedIn ==
  ASSUME NEW log \in Seq(Recs), NEW e \in Lists, NEW T \in SUBSET DOMAIN log, Listing(log, e, T),
         NEW i \in DOMAIN log, i \notin T
  PROVE  LET stays == {j \in ToSet(e.list) : ~S_precedes(log[i], log[j])}
             at == IF e.list = << >> THEN 0 ELSE Walked(e, stays)
             f == [list |-> InsertAt(e.list, at + 1, i), hint |-> i]
         IN f \in Lists /\ Listing(log, f, T \cup {i})
<1> DEFINE list == e.list
           n == Len(list)
           stays == {j \in ToSet(list) : ~S_precedes(log[i], log[j])}
           at == IF list = << >> THEN 0 ELSE Walked(e, stays)
           new == InsertAt(list, at + 1, i)
           f == [list |-> new, hint |-> i]
<1>1. list \in Seq(Nat) /\ n \in Nat /\ DOMAIN list = 1..n /\ i \in Nat
  BY DEF Lists
<1>2. /\ \A p \in 1..n : list[p] \in T
      /\ \A j \in T : \E p \in 1..n : list[p] = j
      /\ \A p, q \in 1..n : p < q => list[p] # list[q] /\ ~S_precedes(log[list[q]], log[list[p]])
      /\ list # << >> => \E p \in 1..n : list[p] = e.hint
  BY <1>1 DEF Listing, Ordered
<1>3. \A j \in DOMAIN log : log[j] \in Recs OBVIOUS
<1>4. \A p \in 1..n : list[p] \in stays <=> ~S_precedes(log[i], log[list[p]])
  BY <1>1, Zenon DEF ToSet
<1>5. at \in 0..n /\ \A p \in 1..n : list[p] \in stays <=> p <= at
  <2>1. CASE list = << >> BY <1>1, <2>1
  <2>2. CASE list # << >>
    <3>1. ASSUME NEW p \in 1..n, NEW q \in 1..n, p < q, list[q] \in stays PROVE list[p] \in stays
      <4>1. list[p] \in DOMAIN log /\ list[q] \in DOMAIN log
        BY <1>2, Zenon
      <4>2. ~S_precedes(log[i], log[list[q]]) /\ ~S_precedes(log[list[q]], log[list[p]])
        BY <1>2, <1>4, <3>1
      <4>3. ~S_precedes(log[i], log[list[p]])
        BY <1>3, <4>1, <4>2, Precedence
      <4> QED BY <1>4, <4>3
    <3>2. \E p \in DOMAIN list : list[p] = e.hint
      BY <1>1, <1>2, <2>2, Zenon
    <3>3. \A p, q \in DOMAIN list : p < q => list[p] # list[q] /\ (list[q] \in stays => list[p] \in stays)
      BY <1>1, <1>2, <3>1, Zenon
    <3>4. at = Walked(e, stays) BY <2>2
    <3> HIDE DEF stays, at
    <3>5. Walked(e, stays) \in 0..n /\ \A p \in 1..n : list[p] \in stays <=> p <= Walked(e, stays)
      BY <2>2, <3>2, <3>3, WalkedIs
    <3> QED BY <3>4, <3>5
  <2> QED BY <2>1, <2>2
<1> HIDE DEF stays, at
<1>6. /\ new \in Seq(Nat) /\ Len(new) = n + 1
      /\ \A p \in 1..at : new[p] = list[p]
      /\ new[at + 1] = i
      /\ \A p \in (at + 2)..(n + 1) : new[p] = list[p - 1]
  <2> DEFINE next == at + 1
  <2>1. next \in 1..(Len(list) + 1) /\ next - 1 = at /\ next + 1 = at + 2
    BY <1>1, <1>5
  <2>2. new = InsertAt(list, next, i) OBVIOUS
  <2> HIDE DEF next, new
  <2>3. /\ new \in Seq(Nat) /\ Len(new) = n + 1
        /\ \A p \in 1..(next - 1) : new[p] = list[p]
        /\ new[next] = i
        /\ \A p \in (next + 1)..(n + 1) : new[p] = list[p - 1]
    <3>1. new \in Seq(Nat) /\ PutIn(list, next, i, new)
      BY <1>1, <2>1, <2>2, InsertFacts, Zenon
    <3> QED BY <2>1, <3>1, Zenon DEF PutIn
  <2> QED BY <2>1, <2>3 DEF next
<1> HIDE DEF new, n, list
<1>7. f \in Lists /\ f.list = new /\ f.hint = i /\ DOMAIN new = 1..(n + 1) /\ new # << >>
  BY <1>1, <1>6 DEF Lists
<1>8. \A p \in 1..(n + 1) : new[p] \in T \cup {i}
  <2> TAKE p \in 1..(n + 1)
  <2>1. p \in 1..at \/ p = at + 1 \/ p \in (at + 2)..(n + 1)
    BY <1>1, <1>5
  <2>2. p \in 1..at => p \in 1..n BY <1>1, <1>5
  <2>3. p \in (at + 2)..(n + 1) => p - 1 \in 1..n
    BY <1>1, <1>5
  <2> QED BY <1>2, <1>6, <2>1, <2>2, <2>3, Zenon
<1>9. ASSUME NEW j \in T \cup {i} PROVE \E p \in 1..(n + 1) : new[p] = j
  <2>1. CASE j = i
    <3>1. at + 1 \in 1..(n + 1) BY <1>1, <1>5
    <3> QED BY <1>6, <2>1, <3>1
  <2>2. CASE j \in T
    <3>1. PICK p \in 1..n : list[p] = j BY <1>2, <2>2
    <3>2. CASE p <= at
      <4>1. p \in 1..at /\ p \in 1..(n + 1)
        BY <1>1, <1>5, <3>2
      <4> QED BY <1>6, <3>1, <4>1
    <3>3. CASE ~(p <= at)
      <4>1. p + 1 \in (at + 2)..(n + 1) /\ p + 1 \in 1..(n + 1) /\ p + 1 - 1 = p
        BY <1>1, <1>5, <3>3
      <4> QED BY <1>6, <3>1, <4>1
    <3> QED BY <3>2, <3>3
  <2> QED BY <2>1, <2>2
<1>10. ASSUME NEW p \in 1..(n + 1), NEW q \in 1..(n + 1), p < q
       PROVE  new[p] # new[q] /\ ~S_precedes(log[new[q]], log[new[p]])
  <2>1. CASE p # at + 1 /\ q # at + 1
    <3> DEFINE u == IF p <= at THEN p ELSE p - 1
               v == IF q <= at THEN q ELSE q - 1
    <3>1. u \in 1..n /\ v \in 1..n /\ u < v
      BY <1>1, <1>5, <1>10, <2>1
    <3>2. new[p] = list[u]
      <4>1. p \in 1..at \/ p \in (at + 2)..(n + 1)
        BY <1>1, <1>5, <2>1
      <4> QED BY <1>5, <1>6, <4>1
    <3>3. new[q] = list[v]
      <4>1. q \in 1..at \/ q \in (at + 2)..(n + 1)
        BY <1>1, <1>5, <2>1
      <4> QED BY <1>5, <1>6, <4>1
    <3> QED BY <1>2, <3>1, <3>2, <3>3
  <2>2. CASE p = at + 1
    <3>1. q - 1 \in 1..n /\ new[q] = list[q - 1] /\ ~(q - 1 <= at) /\ new[p] = i
      BY <1>1, <1>5, <1>6, <1>10, <2>2
    <3>2. S_precedes(log[i], log[list[q - 1]]) /\ list[q - 1] \in T
      BY <1>2, <1>4, <1>5, <3>1
    <3>3. ~S_precedes(log[list[q - 1]], log[i])
      BY <1>3, <3>2, Precedence
    <3> QED BY <3>1, <3>2, <3>3
  <2>3. CASE q = at + 1
    <3>1. p \in 1..n /\ new[p] = list[p] /\ p <= at /\ new[q] = i
      BY <1>1, <1>5, <1>6, <1>10, <2>3
    <3>2. ~S_precedes(log[i], log[list[p]]) /\ list[p] \in T
      BY <1>2, <1>4, <1>5, <3>1
    <3> QED BY <3>1, <3>2
  <2> QED BY <2>1, <2>2, <2>3
<1>11. Listing(log, f, T \cup {i})
  <2>1. \E p \in 1..(n + 1) : new[p] = i BY <1>9
  <2> QED BY <1>7, <1>8, <1>9, <1>10, <2>1 DEF Listing, Ordered
<1> QED BY <1>7, <1>11 DEF new, stays, at, list

\* The list without the record i.
LEMMA LeftOut ==
  ASSUME NEW log \in Seq(Recs), NEW e \in Lists, NEW T \in SUBSET DOMAIN log, Listing(log, e, T), NEW i \in T
  PROVE  LET p == At(e.list, i)
             f == [list |-> RemoveAt(e.list, p),
                   hint |-> IF Len(e.list) = 1 THEN 0 ELSE IF p > 1 THEN e.list[p - 1] ELSE e.list[2]]
         IN f \in Lists /\ Listing(log, f, T \ {i})
<1> DEFINE list == e.list
           n == Len(list)
           at == At(list, i)
           new == RemoveAt(list, at)
           hint == IF n = 1 THEN 0 ELSE IF at > 1 THEN list[at - 1] ELSE list[2]
           f == [list |-> new, hint |-> hint]
<1>1. list \in Seq(Nat) /\ n \in Nat /\ DOMAIN list = 1..n /\ \A p \in 1..n : list[p] \in Nat
  BY DEF Lists
<1>2. /\ \A p \in 1..n : list[p] \in T
      /\ \A j \in T : \E p \in 1..n : list[p] = j
      /\ \A p, q \in 1..n : p < q => list[p] # list[q] /\ ~S_precedes(log[list[q]], log[list[p]])
  BY <1>1 DEF Listing, Ordered
<1>3. at \in 1..n /\ list[at] = i
  BY <1>1, <1>2, Zenon DEF At
<1> HIDE DEF at
<1>4. /\ new \in Seq(Nat) /\ Len(new) = n - 1
      /\ \A p \in 1..(at - 1) : new[p] = list[p]
      /\ \A p \in at..(n - 1) : new[p] = list[p + 1]
  <2>1. new \in Seq(Nat) /\ TakenOut(list, at, new)
    BY <1>1, <1>3, RemoveFacts, Zenon
  <2> QED BY <2>1 DEF TakenOut
<1> HIDE DEF new, n, list
<1>5. hint \in Nat BY <1>1, <1>3
<1>6. f \in Lists /\ f.list = new /\ f.hint = hint /\ DOMAIN new = 1..(n - 1)
  <2>1. n - 1 \in Nat BY <1>1, <1>3
  <2> HIDE DEF hint
  <2> QED BY <1>4, <1>5, <2>1 DEF Lists
<1> DEFINE old(p) == IF p < at THEN p ELSE p + 1
<1>7. \A p \in 1..(n - 1) : old(p) \in 1..n /\ old(p) # at /\ new[p] = list[old(p)]
  <2> TAKE p \in 1..(n - 1)
  <2>1. p \in 1..(at - 1) \/ p \in at..(n - 1) BY <1>1, <1>3
  <2> QED BY <1>1, <1>3, <1>4, <2>1
<1>8. \A p, q \in 1..(n - 1) : p < q => old(p) < old(q)
  BY <1>1, <1>3
<1>9. \A q \in 1..n : q # at => list[q] # i
  <2> TAKE q \in 1..n
  <2>1. q = at \/ q < at \/ at < q BY <1>1, <1>3
  <2> QED BY <1>2, <1>3, <2>1
<1>10. \A q \in 1..n : q # at => \E p \in 1..(n - 1) : new[p] = list[q]
  <2> TAKE q \in 1..n
  <2> HAVE q # at
  <2> DEFINE p == IF q < at THEN q ELSE q - 1
  <2>1. p \in 1..(n - 1) /\ old(p) = q BY <1>1, <1>3
  <2> QED BY <1>7, <2>1
<1>11. \A p \in 1..(n - 1) : new[p] \in T \ {i}
  BY <1>2, <1>7, <1>9
<1>12. \A j \in T \ {i} : \E p \in 1..(n - 1) : new[p] = j
  <2> TAKE j \in T \ {i}
  <2>1. PICK q \in 1..n : list[q] = j BY <1>2
  <2>2. q # at BY <1>3, <2>1
  <2> QED BY <1>10, <2>1, <2>2
<1>13. \A p, q \in 1..(n - 1) : p < q => new[p] # new[q] /\ ~S_precedes(log[new[q]], log[new[p]])
  <2> HIDE DEF old
  <2> QED BY <1>2, <1>7, <1>8
<1>14. IF new = << >> THEN hint = 0 ELSE \E p \in 1..(n - 1) : new[p] = hint
  <2>1. CASE n = 1
    <3>1. new = << >> BY <1>4, <2>1
    <3> QED BY <2>1, <3>1
  <2>2. CASE n # 1
    <3>1. new # << >>
      <4>1. Len(new) # 0 BY <1>1, <1>3, <1>4, <2>2
      <4> QED BY <4>1
    <3>2. CASE at > 1
      <4>1. at - 1 \in 1..n /\ at - 1 # at /\ hint = list[at - 1]
        BY <1>1, <1>3, <2>2, <3>2
      <4> QED BY <1>10, <3>1, <4>1
    <3>3. CASE ~(at > 1)
      <4>1. 2 \in 1..n /\ 2 # at /\ hint = list[2]
        BY <1>1, <1>3, <2>2, <3>3
      <4> QED BY <1>10, <3>1, <4>1
    <3> QED BY <3>2, <3>3
  <2> QED BY <2>1, <2>2
<1>15. Listing(log, f, T \ {i})
  <2> HIDE DEF hint, old
  <2> QED BY <1>6, <1>11, <1>12, <1>13, <1>14, SMTT(30) DEF Listing, Ordered
<1> QED BY <1>6, <1>15 DEF new, n, at, list

-------------------------------------------------------------------------------
(* The index.                                                              *)

\* What each field of a roster holds.
LEMMA RosterFields ==
  ASSUME NEW r \in Rosters
  PROVE  /\ r.log \in Seq(Recs) /\ r.index \in [Keys -> Lists]
         /\ r.indexed \in [Kinds -> Int] /\ r.cursor \in [Kinds -> Nat]
         /\ r.front \in [Kinds -> Seq(Entries)] /\ r.back \in [Kinds -> Seq(Entries)] /\ r.end \in [Kinds -> Int]
         /\ r.placed \in BOOLEAN /\ r.hidden \in BOOLEAN /\ r.dead \in Int /\ r.lost \in SUBSET Keys
BY DEF Rosters

\* What each field of a record of the log holds.
LEMMA LogFields ==
  ASSUME NEW log \in Seq(Recs), NEW i \in DOMAIN log
  PROVE  /\ log[i] \in Recs /\ log[i].key \in Keys /\ Kind(log[i]) \in Kinds
         /\ log[i].start \in Int /\ log[i].withdrew \in Nat
         /\ log[i].linked \in BOOLEAN /\ log[i].withdrawn \in BOOLEAN
         /\ log[i].back \in BOOLEAN /\ log[i].gone \in BOOLEAN
         /\ i \in Nat /\ 1 <= i /\ i <= Len(log)
<1>1. log[i] \in Recs OBVIOUS
<1>2. KindOf[log[i].key] \in Kinds
  BY <1>1, RosterAssumption DEF Recs
<1> QED BY <1>1, <1>2 DEF Recs, Kind

\* Records that differ in no more than whether they are linked, and rosters in that,
\* in the index and how far it goes.
Same(x, y) ==
  /\ x.key = y.key /\ x.start = y.start /\ x.withdrew = y.withdrew
  /\ x.withdrawn = y.withdrawn /\ x.back = y.back /\ x.gone = y.gone
Alike(r, s) ==
  /\ DOMAIN s.log = DOMAIN r.log /\ Len(s.log) = Len(r.log)
  /\ \A i \in DOMAIN r.log : Same(s.log[i], r.log[i])
  /\ s.front = r.front /\ s.back = r.back /\ s.end = r.end /\ s.placed = r.placed
  /\ s.hidden = r.hidden /\ s.dead = r.dead /\ s.lost = r.lost
Still(r, s) == Alike(r, s) /\ s.indexed = r.indexed /\ s.cursor = r.cursor

\* The index holds what it did when no two of its records change their order.
LEMMA HoldsStill ==
  ASSUME NEW r \in Rosters, NEW s \in Rosters, NEW T, Holds(r, T),
         s.index = r.index, T \subseteq DOMAIN s.log,
         \A i \in T : s.log[i].key = r.log[i].key,
         \A i \in DOMAIN s.log : s.log[i].linked <=> i \in T,
         \A i, j \in T : r.log[i].key = r.log[j].key /\ S_precedes(s.log[j], s.log[i]) => S_precedes(r.log[j], r.log[i])
  PROVE  Holds(s, T)
<1>1. ASSUME NEW k \in Keys PROVE Listing(s.log, s.index[k], {i \in T : s.log[i].key = k})
  <2> DEFINE e == r.index[k]
             Tk == {i \in T : r.log[i].key = k}
  <2>1. Listing(r.log, e, Tk) BY Zenon DEF Holds
  <2>2. {i \in T : s.log[i].key = k} = Tk OBVIOUS
  <2>3. ASSUME NEW p \in DOMAIN e.list, NEW q \in DOMAIN e.list, p < q
        PROVE  e.list[p] # e.list[q] /\ ~S_precedes(s.log[e.list[q]], s.log[e.list[p]])
    <3>1. e.list[p] \in Tk /\ e.list[q] \in Tk
      BY <2>1 DEF Listing
    <3>2. e.list[p] # e.list[q] /\ ~S_precedes(r.log[e.list[q]], r.log[e.list[p]])
      BY <2>1, <2>3 DEF Listing, Ordered
    <3> QED BY <3>1, <3>2
  <2>4. Listing(s.log, e, Tk)
    <3> HIDE DEF e, Tk
    <3> QED BY <2>1, <2>3 DEF Listing, Ordered
  <2> QED BY <2>2, <2>4, Zenon
<1> QED BY <1>1 DEF Holds

\* A record is linked or unlinked, and its key's list is then of the records U.
Relist(r, i, f, linked) ==
  [r EXCEPT !.index = [r.index EXCEPT ![r.log[i].key] = f],
            !.log = [r.log EXCEPT ![i] = [r.log[i] EXCEPT !.linked = linked]]]

\* A list rewritten with the record i put in it or taken from it is the only change of the index.
LEMMA Relisted ==
  ASSUME NEW r \in Rosters, NEW T, Holds(r, T), NEW i \in DOMAIN r.log,
         NEW linked \in BOOLEAN, NEW U, U = IF linked THEN T \cup {i} ELSE T \ {i},
         NEW f \in Lists, Listing(r.log, f, {j \in U : r.log[j].key = r.log[i].key})
  PROVE  LET s == Relist(r, i, f, linked) IN s \in Rosters /\ Still(r, s) /\ Holds(s, U)
<1> DEFINE s == Relist(r, i, f, linked)
           x == r.log[i]
           log == [r.log EXCEPT ![i] = [x EXCEPT !.linked = linked]]
           index == [r.index EXCEPT ![x.key] = f]
<1>1. r.log \in Seq(Recs) /\ x \in Recs /\ x.key \in Keys
  BY RosterFields, LogFields
<1>2. T \subseteq DOMAIN r.log /\ \A j \in DOMAIN r.log : r.log[j].linked <=> j \in T
  BY DEF Holds
<1>3. log \in Seq(Recs) /\ Len(log) = Len(r.log) /\ DOMAIN log = DOMAIN r.log
  <2>1. [x EXCEPT !.linked = linked] \in Recs
    BY <1>1, Zenon DEF Recs
  <2> QED BY <1>1, <2>1
<1>4. /\ log[i] = [x EXCEPT !.linked = linked]
      /\ \A j \in DOMAIN r.log : j # i => log[j] = r.log[j]
  BY <1>1
<1>5. \A j \in DOMAIN r.log : Same(log[j], r.log[j]) /\ (log[j].linked <=> j \in U)
  <2> TAKE j \in DOMAIN r.log
  <2>1. CASE j = i
    <3>1. /\ log[i].key = x.key /\ log[i].start = x.start /\ log[i].withdrew = x.withdrew
          /\ log[i].withdrawn = x.withdrawn /\ log[i].back = x.back /\ log[i].gone = x.gone /\ log[i].linked = linked
      <4> HIDE DEF log, x
      <4> QED BY <1>1, <1>4 DEF Recs
    <3> QED BY <2>1, <3>1 DEF Same
  <2>2. CASE j # i BY <1>2, <1>4, <2>2 DEF Same
  <2> QED BY <2>1, <2>2
<1>6. index \in [Keys -> Lists] /\ index[x.key] = f /\ \A k \in Keys : k # x.key => index[k] = r.index[k]
  BY <1>1, RosterFields
<1> HIDE DEF log, index
<1>7. /\ s \in Rosters /\ s.log = log /\ s.index = index
      /\ s.indexed = r.indexed /\ s.cursor = r.cursor
      /\ s.front = r.front /\ s.back = r.back /\ s.end = r.end /\ s.placed = r.placed
      /\ s.hidden = r.hidden /\ s.dead = r.dead /\ s.lost = r.lost
  <2>1. s = [r EXCEPT !.index = index, !.log = log]
    BY DEF index, log, Relist
  <2> HIDE DEF x, s
  <2> QED BY <1>3, <1>6, <2>1, Zenon DEF Rosters
<1> HIDE DEF s
<1>8. Still(r, s) BY <1>3, <1>5, <1>7 DEF Still, Alike
<1>9. ASSUME NEW k \in Keys PROVE Listing(log, index[k], {j \in U : log[j].key = k})
  <2> DEFINE Uk == {j \in U : log[j].key = k}
             g == IF k = x.key THEN f ELSE r.index[k]
  <2>1. g = index[k] BY <1>6
  <2>2. Uk \subseteq DOMAIN r.log /\ Uk = {j \in U : r.log[j].key = k}
    BY <1>2, <1>5 DEF Same
  <2>3. Listing(r.log, g, Uk)
    <3>1. CASE k = x.key BY <2>2, <3>1, Zenon
    <3>2. CASE k # x.key
      <4>1. Uk = {j \in T : r.log[j].key = k} BY <2>2, <3>2
      <4> QED BY <3>2, <4>1, Zenon DEF Holds
    <3> QED BY <3>1, <3>2
  <2>4. \A a, b \in Uk : S_precedes(log[a], log[b]) = S_precedes(r.log[a], r.log[b])
    BY <1>5, <2>2 DEF Same, S_precedes
  <2> HIDE DEF g, Uk
  <2>5. \A a, b \in DOMAIN g.list : S_precedes(log[g.list[b]], log[g.list[a]]) = S_precedes(r.log[g.list[b]], r.log[g.list[a]])
    BY <2>3, <2>4 DEF Listing
  <2>6. Listing(log, g, Uk)
    BY <2>3, <2>5 DEF Listing, Ordered
  <2> QED BY <2>1, <2>6 DEF Uk
<1>10. Holds(s, U)
  <2>1. U \subseteq DOMAIN log BY <1>2, <1>3
  <2> QED BY <1>3, <1>5, <1>7, <1>9, <2>1, Zenon DEF Holds
<1> QED BY <1>7, <1>8, <1>10 DEF s

\* An index of the same lists and the same log holds the same records.
LEMMA HoldsSame ==
  ASSUME NEW r, NEW s, NEW T, s.log = r.log, s.index = r.index, Holds(r, T)
  PROVE  Holds(s, T)
<1> DEFINE H(log, index) ==
             /\ T \subseteq DOMAIN log
             /\ \A k \in Keys : Listing(log, index[k], {i \in T : log[i].key = k})
             /\ \A i \in DOMAIN log : log[i].linked <=> i \in T
<1>1. Holds(r, T) = H(r.log, r.index) /\ Holds(s, T) = H(s.log, s.index)
  BY Zenon DEF Holds
<1> HIDE DEF H
<1> QED BY <1>1

\* A record linked joins its key's list.
LEMMA LinkHolds ==
  ASSUME NEW r \in Rosters, NEW T, Holds(r, T), NEW i \in DOMAIN r.log, i \notin T
  PROVE  LET s == S_link(r, i) IN s \in Rosters /\ Still(r, s) /\ Holds(s, T \cup {i})
<1> DEFINE x == r.log[i]
           e == r.index[x.key]
           stays == {j \in ToSet(e.list) : ~S_precedes(x, r.log[j])}
           at == IF e.list = << >> THEN 0 ELSE Walked(e, stays)
           f == [list |-> InsertAt(e.list, at + 1, i), hint |-> i]
           Tk == {j \in T : r.log[j].key = x.key}
<1>1. r.log \in Seq(Recs) /\ x.key \in Keys
  BY RosterFields, LogFields
<1>2. S_link(r, i) = Relist(r, i, f, TRUE)
  BY DEF S_link, Relist
<1>3. T \subseteq DOMAIN r.log /\ Listing(r.log, e, Tk) /\ e \in Lists
  BY <1>1, RosterFields, Zenon DEF Holds
<1>4. f \in Lists /\ Listing(r.log, f, Tk \cup {i})
  <2>1. Tk \in SUBSET DOMAIN r.log /\ i \notin Tk BY <1>3
  <2> HIDE DEF Tk, e
  <2> QED BY <1>1, <1>3, <2>1, LinkedIn, Zenon
<1> HIDE DEF f
<1>5. Listing(r.log, f, {j \in T \cup {i} : r.log[j].key = x.key})
  <2>1. Tk \cup {i} = {j \in T \cup {i} : r.log[j].key = x.key}
    OBVIOUS
  <2> QED BY <1>4, <2>1, Zenon
<1> HIDE DEF Tk
<1>6. LET s == Relist(r, i, f, TRUE) IN s \in Rosters /\ Still(r, s) /\ Holds(s, T \cup {i})
  BY <1>4, <1>5, Relisted, Zenon
<1> QED BY <1>2, <1>6, Zenon

\* A record unlinked leaves it.
LEMMA UnlinkHolds ==
  ASSUME NEW r \in Rosters, NEW T, Holds(r, T), NEW i \in T
  PROVE  LET s == S_unlink(r, i) IN s \in Rosters /\ Still(r, s) /\ Holds(s, T \ {i})
<1> DEFINE x == r.log[i]
           e == r.index[x.key]
           p == At(e.list, i)
           f == [list |-> RemoveAt(e.list, p),
                 hint |-> IF Len(e.list) = 1 THEN 0 ELSE IF p > 1 THEN e.list[p - 1] ELSE e.list[2]]
           Tk == {j \in T : r.log[j].key = x.key}
<1>1. i \in DOMAIN r.log /\ r.log \in Seq(Recs) /\ x.key \in Keys
  <2>1. i \in DOMAIN r.log /\ r.log \in Seq(Recs)
    BY RosterFields DEF Holds
  <2> QED BY <2>1, LogFields
<1>2. S_unlink(r, i) = Relist(r, i, f, FALSE)
  BY Zenon DEF S_unlink, Relist
<1>3. T \subseteq DOMAIN r.log /\ Listing(r.log, e, Tk) /\ e \in Lists
  BY <1>1, RosterFields, Zenon DEF Holds
<1>4. f \in Lists /\ Listing(r.log, f, Tk \ {i})
  <2>1. Tk \in SUBSET DOMAIN r.log /\ i \in Tk BY <1>3
  <2> HIDE DEF Tk, e
  <2> QED BY <1>1, <1>3, <2>1, LeftOut, Zenon
<1> HIDE DEF f
<1>5. Listing(r.log, f, {j \in T \ {i} : r.log[j].key = x.key})
  <2>1. Tk \ {i} = {j \in T \ {i} : r.log[j].key = x.key}
    OBVIOUS
  <2> QED BY <1>4, <2>1
<1> HIDE DEF Tk
<1>6. LET s == Relist(r, i, f, FALSE) IN s \in Rosters /\ Still(r, s) /\ Holds(s, T \ {i})
  BY <1>1, <1>4, <1>5, Relisted, Zenon
<1> QED BY <1>2, <1>6, Zenon

\* What links and unlinks leave as it was, one after another.
LEMMA StillOn ==
  ASSUME NEW r, NEW s, NEW t, Still(r, s), Still(s, t)
  PROVE  Still(r, r) /\ Still(r, t)
BY DEF Still, Alike, Same

\* The records I join the index, one after another.
LEMMA JoinHolds ==
  ASSUME NEW r \in Rosters, NEW T, Holds(r, T), NEW I \in SUBSET DOMAIN r.log, I \cap T = {}
  PROVE  LET s == Joined(r, I) IN s \in Rosters /\ Still(r, s) /\ Holds(s, T \cup I)
<1> DEFINE n == Len(r.log)
           By(i) == {j \in I : j <= i}
           F == [i \in 1..n |-> [q \in Rosters |-> IF i \in I THEN S_link(q, i) ELSE q]]
           G == [i \in 0..n |-> {q \in Rosters : Still(r, q) /\ Holds(q, T \cup By(i))}]
           Eq(f) == f = [i \in 0..n |-> IF i = 0 THEN r ELSE IF i \in I THEN S_link(f[i - 1], i) ELSE f[i - 1]]
<1>1. n \in Nat /\ DOMAIN r.log = 1..n /\ By(0) = {} /\ By(n) = I
  BY RosterFields
<1>2. G \in [0..n -> SUBSET Rosters] /\ r \in G[0]
  <2>1. Still(r, r) BY DEF Still, Alike, Same
  <2>2. T \cup By(0) = T BY <1>1
  <2>3. 0 \in 0..n BY <1>1
  <2> HIDE DEF By, n
  <2>4. G \in [0..n -> SUBSET Rosters] OBVIOUS
  <2>5. G[0] = {q \in Rosters : Still(r, q) /\ Holds(q, T \cup By(0))}
    BY <2>3
  <2> QED BY <2>1, <2>2, <2>4, <2>5, Zenon
<1>3. ASSUME NEW i \in 1..n, NEW q \in G[i - 1] PROVE F[i][q] \in G[i]
  <2>1. i - 1 \in 0..n /\ i \in 0..n BY <1>1
  <2>2. q \in Rosters /\ Still(r, q) /\ Holds(q, T \cup By(i - 1))
    BY <2>1
  <2>3. CASE i \in I
    <3>1. i \in DOMAIN q.log /\ i \notin T \cup By(i - 1)
      BY <1>1, <2>2, <2>3 DEF Still, Alike
    <3>2. (T \cup By(i - 1)) \cup {i} = T \cup By(i)
      BY <1>1, <2>3
    <3>3. F[i][q] = S_link(q, i) BY <2>2, <2>3
    <3> HIDE DEF By, F
    <3>4. F[i][q] \in Rosters /\ Still(q, F[i][q]) /\ Holds(F[i][q], T \cup By(i))
      BY <2>2, <3>1, <3>2, <3>3, LinkHolds
    <3>5. Still(r, F[i][q]) BY <2>2, <3>4, StillOn
    <3> QED BY <2>1, <3>4, <3>5
  <2>4. CASE i \notin I
    <3>1. By(i - 1) = By(i) /\ F[i][q] = q
      BY <1>1, <2>2, <2>4
    <3> HIDE DEF By, F
    <3> QED BY <2>1, <2>2, <3>1
  <2> QED BY <2>3, <2>4
<1>4. \A i \in 1..n : \A q \in Rosters : F[i][q] = IF i \in I THEN S_link(q, i) ELSE q
  OBVIOUS
<1>5. \A q \in G[n] : q \in Rosters /\ Still(r, q) /\ Holds(q, T \cup I)
  <2>1. n \in 0..n BY <1>1
  <2> HIDE DEF n, By
  <2> QED BY <1>1, <2>1
<1>6. PICK g \in [0..n -> Rosters] : /\ g[0] = r
                                     /\ \A i \in 1..n : g[i] = F[i][g[i - 1]]
                                     /\ \A i \in 0..n : g[i] \in G[i]
  <2> HIDE DEF F, G, n
  <2>1. Sure(Rosters, n, r, F, G) BY <1>1, <1>2, <1>3, Turns
  <2> QED BY <2>1, Zenon DEF Sure
<1> HIDE DEF F, G
<1>7. Eq(g)
  <2>1. \A i \in 1..n : g[i - 1] \in Rosters BY <1>1
  <2>2. \A i \in 1..n : g[i] = IF i \in I THEN S_link(g[i - 1], i) ELSE g[i - 1]
    BY <1>4, <1>6, <2>1
  <2> HIDE DEF n
  <2> QED BY <1>1, <1>6, <2>2
<1>8. PICK f : Eq(f) /\ Joined(r, I) = f[n]
  <2>1. Joined(r, I) = (CHOOSE f : Eq(f))[n] BY DEF Joined
  <2> HIDE DEF Eq
  <2> QED BY <1>7, <2>1, Zenon
<1>9. \A i \in 0..n : f[i] = g[i]
  <2>1. f[0] = g[0] BY <1>1, <1>6, <1>8
  <2>2. ASSUME NEW i \in 1..n, f[i - 1] = g[i - 1] PROVE f[i] = g[i]
    <3>1. i \in 0..n /\ i # 0 BY <1>1
    <3> HIDE DEF n
    <3> QED BY <1>7, <1>8, <2>2, <3>1, Zenon
  <2> HIDE DEF n, Eq
  <2>3. Agree(f, g, n) BY <1>1, <2>1, <2>2, TurnsUnique
  <2> QED BY <2>3 DEF Agree
<1>10. f[n] \in G[n]
  <2> HIDE DEF n, Eq
  <2> QED BY <1>1, <1>6, <1>9
<1> QED BY <1>5, <1>8, <1>10, Zenon

\* The records I leave the index, one after another.
LEMMA PartHolds ==
  ASSUME NEW r \in Rosters, NEW T, Holds(r, T), NEW I \in SUBSET T
  PROVE  LET s == Parted(r, I) IN s \in Rosters /\ Still(r, s) /\ Holds(s, T \ I)
<1> DEFINE n == Len(r.log)
           By(i) == {j \in I : j <= i}
           F == [i \in 1..n |-> [q \in Rosters |-> IF i \in I THEN S_unlink(q, i) ELSE q]]
           G == [i \in 0..n |-> {q \in Rosters : Still(r, q) /\ Holds(q, T \ By(i))}]
           Eq(f) == f = [i \in 0..n |-> IF i = 0 THEN r ELSE IF i \in I THEN S_unlink(f[i - 1], i) ELSE f[i - 1]]
<1>1. n \in Nat /\ I \subseteq 1..n /\ By(0) = {} /\ By(n) = I
  <2>1. n \in Nat /\ I \subseteq 1..n
    BY RosterFields DEF Holds
  <2>2. \A j \in I : j \in Nat /\ 1 <= j /\ j <= n BY <2>1
  <2> HIDE DEF n
  <2>3. \A j \in I : ~(j <= 0) BY <2>2
  <2>4. By(0) = {} BY <2>3
  <2>5. By(n) = I BY <2>2
  <2> QED BY <2>1, <2>4, <2>5
<1>2. G \in [0..n -> SUBSET Rosters] /\ r \in G[0]
  <2>1. Still(r, r) BY DEF Still, Alike, Same
  <2>2. T \ By(0) = T BY <1>1
  <2>3. 0 \in 0..n BY <1>1
  <2> HIDE DEF By, n
  <2>4. G \in [0..n -> SUBSET Rosters] OBVIOUS
  <2>5. G[0] = {q \in Rosters : Still(r, q) /\ Holds(q, T \ By(0))}
    BY <2>3
  <2> QED BY <2>1, <2>2, <2>4, <2>5, Zenon
<1>3. ASSUME NEW i \in 1..n, NEW q \in G[i - 1] PROVE F[i][q] \in G[i]
  <2>1. i - 1 \in 0..n /\ i \in 0..n BY <1>1
  <2>2. q \in Rosters /\ Still(r, q) /\ Holds(q, T \ By(i - 1))
    BY <2>1
  <2>3. CASE i \in I
    <3>1. i \in T \ By(i - 1) BY <1>1, <2>3
    <3>2. (T \ By(i - 1)) \ {i} = T \ By(i) BY <1>1, <2>3
    <3>3. F[i][q] = S_unlink(q, i) BY <2>2, <2>3
    <3> HIDE DEF By, F
    <3>4. F[i][q] \in Rosters /\ Still(q, F[i][q]) /\ Holds(F[i][q], T \ By(i))
      <4> DEFINE V == T \ By(i - 1)
      <4>1. i \in V /\ V \ {i} = T \ By(i) /\ Holds(q, V)
        BY <2>2, <3>1, <3>2
      <4> HIDE DEF V
      <4> QED BY <2>2, <3>3, <4>1, UnlinkHolds
    <3>5. Still(r, F[i][q]) BY <2>2, <3>4, StillOn
    <3> QED BY <2>1, <3>4, <3>5
  <2>4. CASE i \notin I
    <3>1. \A j \in I : j \in Nat /\ j # i BY <1>1, <2>4
    <3>2. i \in Nat BY <1>1
    <3>3. By(i - 1) = By(i)
      <4> HIDE DEF n
      <4> QED BY <3>1, <3>2
    <3>4. F[i][q] = q BY <2>2, <2>4
    <3> HIDE DEF By, F
    <3> QED BY <2>1, <2>2, <3>3, <3>4, Zenon
  <2> QED BY <2>3, <2>4
<1>4. \A i \in 1..n : \A q \in Rosters : F[i][q] = IF i \in I THEN S_unlink(q, i) ELSE q
  OBVIOUS
<1>5. \A q \in G[n] : q \in Rosters /\ Still(r, q) /\ Holds(q, T \ I)
  <2>1. n \in 0..n BY <1>1
  <2> HIDE DEF n, By
  <2> QED BY <1>1, <2>1
<1>6. PICK g \in [0..n -> Rosters] : /\ g[0] = r
                                     /\ \A i \in 1..n : g[i] = F[i][g[i - 1]]
                                     /\ \A i \in 0..n : g[i] \in G[i]
  <2> HIDE DEF F, G, n
  <2>1. Sure(Rosters, n, r, F, G) BY <1>1, <1>2, <1>3, Turns
  <2> QED BY <2>1, Zenon DEF Sure
<1> HIDE DEF F, G
<1>7. Eq(g)
  <2>1. \A i \in 1..n : g[i - 1] \in Rosters BY <1>1
  <2>2. \A i \in 1..n : g[i] = IF i \in I THEN S_unlink(g[i - 1], i) ELSE g[i - 1]
    BY <1>4, <1>6, <2>1
  <2> HIDE DEF n
  <2> QED BY <1>1, <1>6, <2>2
<1>8. PICK f : Eq(f) /\ Parted(r, I) = f[n]
  <2>1. Parted(r, I) = (CHOOSE f : Eq(f))[n] BY DEF Parted
  <2> HIDE DEF Eq
  <2> QED BY <1>7, <2>1, Zenon
<1>9. \A i \in 0..n : f[i] = g[i]
  <2>1. f[0] = g[0] BY <1>1, <1>6, <1>8
  <2>2. ASSUME NEW i \in 1..n, f[i - 1] = g[i - 1] PROVE f[i] = g[i]
    <3>1. i \in 0..n /\ i # 0 BY <1>1
    <3> HIDE DEF n
    <3> QED BY <1>7, <1>8, <2>2, <3>1, Zenon
  <2> HIDE DEF n, Eq
  <2>3. Agree(f, g, n) BY <1>1, <2>1, <2>2, TurnsUnique
  <2> QED BY <2>3 DEF Agree
<1>10. f[n] \in G[n]
  <2> HIDE DEF n, Eq
  <2> QED BY <1>1, <1>6, <1>9
<1> QED BY <1>5, <1>8, <1>10, Zenon

\* What depends on no more than what is alike.
LEMMA AlikeRecords ==
  ASSUME NEW r, NEW s, Alike(r, s)
  PROVE  \A i \in DOMAIN r.log : /\ Stands(s.log[i]) = Stands(r.log[i]) /\ Kind(s.log[i]) = Kind(r.log[i])
                                 /\ Same(s.log[i], r.log[i])
BY DEF Alike, Same, Stands, Kind

\* A part's entries sit where they did when no record of theirs starts elsewhere.
LEMMA SitsStill ==
  ASSUME NEW log, NEW new, NEW S, NEW entries, Sits(log, S, entries), \A i \in S : new[i].start = log[i].start
  PROVE  Sits(new, S, entries)
BY DEF Sits

\* What only the index may change leaves the places, the pairs, the dead and the bounds as they were.
LEMMA AlikeKeeps ==
  ASSUME NEW r \in Rosters, NEW s \in Rosters, Alike(r, s)
  PROVE  /\ Placed(r) => Placed(s)
         /\ Divided(r) => Divided(s)
         /\ \A c : Since(r, c) => Since(s, c)
         /\ \A c \in 0..Len(r.log) : DeadSet(s.log, c) = DeadSet(r.log, c)
         /\ \A limit : Within(r, limit) => Within(s, limit)
         /\ Paired(r) /\ (\A d \in Kinds : r.cursor[d] <= s.cursor[d]) => Paired(s)
<1>1. \A i \in DOMAIN r.log : /\ Stands(s.log[i]) = Stands(r.log[i]) /\ Kind(s.log[i]) = Kind(r.log[i])
                              /\ Same(s.log[i], r.log[i])
  BY AlikeRecords
<1>2. /\ DOMAIN s.log = DOMAIN r.log /\ Len(s.log) = Len(r.log)
      /\ s.front = r.front /\ s.back = r.back /\ s.end = r.end /\ s.placed = r.placed /\ s.hidden = r.hidden
  BY DEF Alike
<1>0. \A d : /\ Fronts(s.log, d) = Fronts(r.log, d) /\ Backs(s.log, d) = Backs(r.log, d)
             /\ \A i \in Fronts(r.log, d) \cup Backs(r.log, d) : s.log[i].start = r.log[i].start
  <2> TAKE d
  <2>1. Fronts(s.log, d) = Fronts(r.log, d)
    BY <1>1, <1>2 DEF Fronts, Same
  <2>2. Backs(s.log, d) = Backs(r.log, d)
    BY <1>1, <1>2 DEF Backs, Same
  <2>3. \A i \in Fronts(r.log, d) \cup Backs(r.log, d) : s.log[i].start = r.log[i].start
    BY <1>1 DEF Fronts, Backs, Same
  <2> QED BY <2>1, <2>2, <2>3
<1>3. Placed(r) => Placed(s)
  <2>1. ASSUME NEW d, NEW entries, Sits(r.log, Fronts(r.log, d), entries) PROVE Sits(s.log, Fronts(s.log, d), entries)
    BY <1>0, <2>1, SitsStill
  <2>4. ASSUME NEW d, NEW entries, Sits(r.log, Backs(r.log, d), entries) PROVE Sits(s.log, Backs(s.log, d), entries)
    BY <1>0, <2>4, SitsStill
  <2>2. CASE r.placed BY <1>2, <2>1, <2>2, <2>4 DEF Placed
  <2>3. CASE ~r.placed BY <1>1, <1>2, <2>3 DEF Placed, Same
  <2> QED BY <2>2, <2>3
<1>4. Divided(r) => Divided(s) BY <1>0, <1>2 DEF Divided
<1>5. \A c : Since(r, c) => Since(s, c)
  BY <1>1, <1>2 DEF Since, Same
<1>6. \A c \in 0..Len(r.log) : DeadSet(s.log, c) = DeadSet(r.log, c)
  <2> TAKE c \in 0..Len(r.log)
  <2>1. \A i \in 1..c : Same(s.log[i], r.log[i])
    <3>1. 1..c \subseteq DOMAIN r.log BY RosterFields
    <3> QED BY <1>1, <3>1
  <2> QED BY <2>1, Zenon DEF DeadSet, Same
<1>7. \A limit : Within(r, limit) => Within(s, limit)
  BY <1>1, <1>2 DEF Within, Same
<1>8. Paired(r) /\ (\A d \in Kinds : r.cursor[d] <= s.cursor[d]) => Paired(s)
  <2> SUFFICES ASSUME Paired(r), \A d \in Kinds : r.cursor[d] <= s.cursor[d] PROVE Paired(s)
    OBVIOUS
  <2>1. ASSUME NEW i \in DOMAIN s.log, s.log[i].withdrew # 0
        PROVE  LET w == s.log[i].withdrew
               IN /\ w < i /\ s.log[w].key = s.log[i].key /\ s.log[w].withdrew = 0
                  /\ s.log[w].withdrawn /\ i <= s.cursor[Kind(s.log[i])]
    <3> DEFINE w == r.log[i].withdrew
    <3>1. i \in DOMAIN r.log /\ r.log \in Seq(Recs)
      BY <1>2, RosterFields
    <3>2. s.log[i].withdrew = w /\ s.log[i].key = r.log[i].key /\ w # 0 /\ w \in Nat
      BY <1>1, <2>1, <3>1, LogFields DEF Same
    <3>3. /\ w < i /\ r.log[w].key = r.log[i].key /\ r.log[w].withdrew = 0
          /\ r.log[w].withdrawn /\ i <= r.cursor[Kind(r.log[i])]
      BY <3>1, <3>2 DEF Paired
    <3>4. w \in DOMAIN r.log BY <3>1, <3>2, <3>3
    <3>5. Same(s.log[w], r.log[w]) BY <1>1, <3>4
    <3>6. i <= s.cursor[Kind(s.log[i])]
      <4>1. Kind(r.log[i]) \in Kinds /\ Kind(s.log[i]) = Kind(r.log[i]) /\ i \in Nat
        BY <1>1, <3>1, LogFields
      <4>2. r.cursor[Kind(r.log[i])] \in Nat /\ s.cursor[Kind(r.log[i])] \in Nat
        BY <4>1, RosterFields
      <4> QED BY <3>3, <4>1, <4>2
    <3> QED BY <3>2, <3>3, <3>5, <3>6 DEF Same
  <2>2. \A i, j \in DOMAIN s.log : s.log[i].withdrew # 0 /\ s.log[i].withdrew = s.log[j].withdrew => i = j
    BY <1>1, <1>2 DEF Paired, Same
  <2>3. \A w \in DOMAIN s.log : s.log[w].withdrawn => \E i \in DOMAIN s.log : s.log[i].withdrew = w
    BY <1>1, <1>2 DEF Paired, Same
  <2> QED BY <2>1, <2>2, <2>3 DEF Paired
<1> QED BY <1>3, <1>4, <1>5, <1>6, <1>7, <1>8

\* The index taken to the end of the log for a kind.
LEMMA IndexSpace ==
  ASSUME NEW r \in Rosters, Indexed(r), NEW d \in Kinds, r.cursor[d] <= Len(r.log)
  PROVE  LET s == S_index_space(r, d)
         IN /\ s \in Rosters /\ Alike(r, s) /\ Indexed(s)
            /\ s.cursor = [r.cursor EXCEPT ![d] = Len(r.log)]
            /\ s.indexed = [r.indexed EXCEPT ![d] = Records(r, d)]
<1> DEFINE n == Len(r.log)
           beyond == {i \in (r.cursor[d] + 1)..n : KindOf[r.log[i].key] = d}
           reached(i) == r.indexed[d] + Cardinality({j \in beyond : j <= i}) <= Records(r, d)
           I == {i \in beyond : reached(i) /\ Stands(r.log[i])}
           made == Joined(r, I)
           s == S_index_space(r, d)
           all == {i \in DOMAIN r.log : Kind(r.log[i]) = d}
<1>1. n \in Nat /\ DOMAIN r.log = 1..n /\ r.cursor[d] \in 0..n /\ r.log \in Seq(Recs)
  BY RosterFields
<1>2. IsFiniteSet(all) /\ Records(r, d) = Cardinality(all) /\ Records(r, d) \in Nat
  <2>1. IsFiniteSet(1..n) BY <1>1, FS_Interval
  <2>2. all \subseteq 1..n BY <1>1
  <2>3. IsFiniteSet(all) BY <2>1, <2>2, FS_Subset
  <2> HIDE DEF all
  <2>4. Cardinality(all) \in Nat BY <2>3, FS_CardinalityType
  <2> QED BY <2>3, <2>4 DEF Records, all, Kind
<1>3. ASSUME NEW i \in beyond PROVE reached(i)
  <2> DEFINE A == UpToCursor(r, d)
             B == {j \in beyond : j <= i}
  <2>1. A \subseteq all /\ B \subseteq all /\ A \cap B = {}
    BY <1>1 DEF UpToCursor, Kind
  <2> HIDE DEF A, B, all
  <2>2. IsFiniteSet(A) /\ IsFiniteSet(B) /\ IsFiniteSet(A \cup B)
    BY <1>2, <2>1, FS_Subset, FS_Union
  <2>3. Cardinality(A \cup B) = Cardinality(A) + Cardinality(B)
    <3>1. Cardinality(A \cup B) = Cardinality(A) + Cardinality(B) - Cardinality(A \cap B)
      BY <2>2, FS_Union
    <3>2. Cardinality(A \cap B) = 0
      BY <2>1, FS_EmptySet, Zenon
    <3>3. Cardinality(A) \in Nat /\ Cardinality(B) \in Nat
      BY <2>2, FS_CardinalityType
    <3> QED BY <3>1, <3>2, <3>3
  <2>4. Cardinality(A \cup B) <= Cardinality(all)
    BY <1>2, <2>1, FS_Subset
  <2>5. r.indexed[d] = Cardinality(A) BY DEF Indexed, A
  <2> QED BY <1>2, <2>3, <2>4, <2>5 DEF B
<1>4. I = {i \in DOMAIN r.log : r.cursor[d] < i /\ Kind(r.log[i]) = d /\ Stands(r.log[i])}
  <2>1. I = {i \in beyond : Stands(r.log[i])}
    <3> HIDE DEF reached, beyond
    <3> QED BY <1>3
  <2> HIDE DEF I
  <2> QED BY <1>1, <2>1 DEF Kind
<1> HIDE DEF I
<1>5. made \in Rosters /\ Still(r, made) /\ Holds(made, Taken(r) \cup I)
  <2>1. I \in SUBSET DOMAIN r.log /\ I \cap Taken(r) = {}
    BY <1>1, <1>4 DEF Taken
  <2>2. Holds(r, Taken(r)) BY DEF Indexed
  <2> QED BY <2>1, <2>2, JoinHolds
<1>6. s = [made EXCEPT !.indexed = [made.indexed EXCEPT ![d] = Records(r, d)], !.cursor = [made.cursor EXCEPT ![d] = n]]
  BY DEF S_index_space, I
<1> HIDE DEF made
<1>7. /\ s \in Rosters /\ s.log = made.log /\ s.index = made.index
      /\ s.indexed = [r.indexed EXCEPT ![d] = Records(r, d)] /\ s.cursor = [r.cursor EXCEPT ![d] = n]
      /\ s.front = made.front /\ s.back = made.back /\ s.end = made.end /\ s.placed = made.placed
      /\ s.hidden = made.hidden /\ s.dead = made.dead /\ s.lost = made.lost
  <2>1. made.indexed = r.indexed /\ made.cursor = r.cursor
    BY <1>5 DEF Still
  <2>2. [r.indexed EXCEPT ![d] = Records(r, d)] \in [Kinds -> Int] /\ [r.cursor EXCEPT ![d] = n] \in [Kinds -> Nat]
    BY <1>1, <1>2, RosterFields
  <2> DEFINE u == [r.indexed EXCEPT ![d] = Records(r, d)]
             v == [r.cursor EXCEPT ![d] = n]
  <2>3. s = [made EXCEPT !.indexed = u, !.cursor = v]
    BY <1>6, <2>1
  <2> HIDE DEF u, v, s
  <2>4. u \in [Kinds -> Int] /\ v \in [Kinds -> Nat]
    BY <2>2 DEF u, v
  <2>5. /\ s \in Rosters /\ s.log = made.log /\ s.index = made.index
        /\ s.indexed = u /\ s.cursor = v
        /\ s.front = made.front /\ s.back = made.back /\ s.end = made.end /\ s.placed = made.placed
        /\ s.hidden = made.hidden /\ s.dead = made.dead /\ s.lost = made.lost
    BY <1>5, <2>3, <2>4, Zenon DEF Rosters
  <2> QED BY <2>5 DEF u, v
<1> HIDE DEF s
<1>8. Alike(r, s) BY <1>5, <1>7 DEF Still, Alike
<1>9. \A i \in DOMAIN r.log : Stands(s.log[i]) = Stands(r.log[i]) /\ Kind(s.log[i]) = Kind(r.log[i])
  BY <1>8, AlikeRecords
<1>10. DOMAIN s.log = DOMAIN r.log BY <1>8 DEF Alike
<1>11. /\ s.cursor[d] = n
       /\ \A e \in Kinds : e # d => s.cursor[e] = r.cursor[e]
       /\ s.indexed[d] = Records(r, d)
       /\ \A e \in Kinds : e # d => s.indexed[e] = r.indexed[e]
  BY <1>7, RosterFields
<1>12. Taken(s) = Taken(r) \cup I
  <2>1. ASSUME NEW i \in DOMAIN r.log
        PROVE  i <= s.cursor[Kind(s.log[i])] /\ Stands(s.log[i])
                 <=> \/ i <= r.cursor[Kind(r.log[i])] /\ Stands(r.log[i])
                     \/ r.cursor[d] < i /\ Kind(r.log[i]) = d /\ Stands(r.log[i])
    <3>1. Kind(r.log[i]) \in Kinds /\ i \in Nat /\ i <= n
      BY <1>1, LogFields
    <3>2. CASE Kind(r.log[i]) = d
      BY <1>1, <1>9, <1>11, <3>1, <3>2
    <3>3. CASE Kind(r.log[i]) # d BY <1>9, <1>11, <3>1, <3>3
    <3> QED BY <3>2, <3>3
  <2> QED BY <1>4, <1>10, <2>1 DEF Taken
<1>13. Holds(s, Taken(s)) BY <1>5, <1>7, <1>12, HoldsSame
<1>14. ASSUME NEW e \in Kinds PROVE s.indexed[e] = Cardinality(UpToCursor(s, e))
  <2>1. CASE e = d
    <3>1. UpToCursor(s, e) = all
      BY <1>1, <1>9, <1>10, <1>11, <2>1 DEF UpToCursor
    <3> QED BY <1>2, <1>11, <2>1, <3>1
  <2>2. CASE e # d
    <3>1. UpToCursor(s, e) = UpToCursor(r, e)
      BY <1>9, <1>10, <1>11, <2>2 DEF UpToCursor
    <3> QED BY <1>11, <2>2, <3>1 DEF Indexed
  <2> QED BY <2>1, <2>2
<1>15. Indexed(s) BY <1>13, <1>14 DEF Indexed
<1> QED BY <1>7, <1>8, <1>15 DEF s

-------------------------------------------------------------------------------
(* The places.                                                             *)

\* What the entries of a zipper's part hold.
LEMMA EntryFields ==
  ASSUME NEW front \in Seq(Entries)
  PROVE  /\ Len(front) \in Nat /\ DOMAIN front = 1..Len(front)
         /\ \A p \in 1..Len(front) : front[p] \in Entries /\ front[p].start \in Int /\ front[p].record \in Nat
<1>1. \A p \in 1..Len(front) : front[p] \in Entries OBVIOUS
<1> QED BY <1>1 DEF Entries

\* How many entries of the front start before a place: the first ones.
LEMMA FrontIs ==
  ASSUME NEW front \in Seq(Entries), NEW place \in Int,
         \A p, q \in DOMAIN front : p < q => front[p].start <= front[q].start
  PROVE  /\ FrontFrom(front, place) \in 0..Len(front)
         /\ \A p \in 1..Len(front) : front[p].start < place <=> p <= FrontFrom(front, place)
<1> DEFINE n == Len(front)
           P == {p \in 1..n : front[p].start < place}
<1>1. n \in Nat /\ DOMAIN front = 1..n /\ \A p \in 1..n : front[p].start \in Int
  BY EntryFields
<1>2. FrontFrom(front, place) = Cardinality(P)
  BY <1>1 DEF FrontFrom
<1>3. ASSUME NEW q \in P PROVE 1..q \subseteq P
  <2>1. ASSUME NEW p \in 1..q PROVE p \in 1..n /\ front[p].start < place
    <3>1. p \in 1..n /\ q \in 1..n /\ front[q].start < place /\ (p < q \/ p = q)
      BY <1>1
    <3> QED BY <1>1, <3>1
  <2> QED BY <2>1
<1>4. Cardinality(P) \in 0..n /\ \A p \in 1..n : p \in P <=> p <= Cardinality(P)
  <2>1. P \in SUBSET (1..n) OBVIOUS
  <2> HIDE DEF P, n
  <2> QED BY <1>1, <1>3, <2>1, DownIs
<1> QED BY <1>2, <1>4

\* A record that was not there enters the places of the others.
LEMMA EnteredSits ==
  ASSUME NEW log, NEW S, NEW front \in Seq(Entries), Sits(log, S, front),
         NEW x \in Entries, x.record \notin S, log[x.record].start = x.start
  PROVE  Entered(front, x) \in Seq(Entries) /\ Sits(log, S \cup {x.record}, Entered(front, x))
<1> DEFINE n == Len(front)
           c == FrontFrom(front, x.start + 1)
           next == c + 1
           new == InsertAt(front, next, x)
<1>1. /\ n \in Nat /\ DOMAIN front = 1..n
      /\ \A p \in 1..n : front[p].start \in Int /\ front[p] \in Entries
      /\ x.start \in Int
  BY EntryFields DEF Entries
<1>2. c \in 0..n /\ \A p \in 1..n : front[p].start <= x.start <=> p <= c
  <2>1. c \in 0..n /\ \A p \in 1..n : front[p].start < x.start + 1 <=> p <= c
    <3>1. \A p, q \in DOMAIN front : p < q => front[p].start <= front[q].start
      BY DEF Sits
    <3>2. x.start + 1 \in Int BY <1>1
    <3> QED BY <3>1, <3>2, FrontIs, Zenon
  <2> HIDE DEF c, n
  <2> QED BY <1>1, <2>1
<1>3. Entered(front, x) = new BY DEF Entered
<1> HIDE DEF c
<1>4. next \in 1..(n + 1) BY <1>1, <1>2
<1>5. new \in Seq(Entries) /\ PutIn(front, next, x, new)
  <2> HIDE DEF next
  <2> QED BY <1>4, InsertFacts
<1> HIDE DEF new
<1>6. /\ DOMAIN new = 1..(n + 1) /\ new[next] = x
      /\ \A p \in 1..c : new[p] = front[p]
      /\ \A p \in (c + 2)..(n + 1) : new[p] = front[p - 1]
  <2>1. next - 1 = c /\ next + 1 = c + 2 BY <1>1, <1>2
  <2>2. Len(new) = n + 1 /\ DOMAIN new = 1..Len(new)
    BY <1>5 DEF PutIn
  <2> HIDE DEF next
  <2> QED BY <1>5, <2>1, <2>2 DEF PutIn
<1> DEFINE old(p) == IF p <= c THEN p ELSE p - 1
<1>7. \A p \in 1..(n + 1) : p # next => old(p) \in 1..n /\ new[p] = front[old(p)]
  <2> TAKE p \in 1..(n + 1)
  <2> HAVE p # next
  <2>1. p \in 1..c \/ p \in (c + 2)..(n + 1) BY <1>1, <1>2
  <2> QED BY <1>1, <1>2, <1>6, <2>1
<1>8. \A q \in 1..n : \E p \in 1..(n + 1) : p # next /\ old(p) = q
  <2> TAKE q \in 1..n
  <2> DEFINE p == IF q <= c THEN q ELSE q + 1
  <2>1. p \in 1..(n + 1) /\ p # next /\ old(p) = q
    BY <1>1, <1>2
  <2> QED BY <2>1
<1>9. \A p, q \in 1..(n + 1) : p < q /\ p # next /\ q # next => old(p) < old(q)
  BY <1>1, <1>2
<1>10. \A p, q \in 1..(n + 1) : p < q => /\ p = next => ~(old(q) <= c)
                                         /\ q = next => old(p) <= c
  BY <1>1, <1>2
<1> HIDE DEF old
<1>11. /\ \A p \in 1..n : front[p].record \in S /\ log[front[p].record].start = front[p].start
       /\ \A i \in S : \E p \in 1..n : front[p].record = i
       /\ \A p, q \in 1..n : p < q => front[p].record # front[q].record /\ front[p].start <= front[q].start
  BY <1>1, Zenon DEF Sits
<1>12. \A p \in 1..(n + 1) : new[p].record \in S \cup {x.record} /\ log[new[p].record].start = new[p].start
  BY <1>6, <1>7, <1>11
<1>13. \A i \in S \cup {x.record} : \E p \in 1..(n + 1) : new[p].record = i
  <2> TAKE i \in S \cup {x.record}
  <2>1. CASE i = x.record BY <1>4, <1>6, <2>1
  <2>2. CASE i \in S
    <3>1. PICK q \in 1..n : front[q].record = i
      BY <1>11, <2>2
    <3>2. PICK p \in 1..(n + 1) : p # next /\ old(p) = q
      BY <1>8
    <3> QED BY <1>7, <3>1, <3>2
  <2> QED BY <2>1, <2>2
<1>14. \A p, q \in 1..(n + 1) : p < q => new[p].record # new[q].record /\ new[p].start <= new[q].start
  <2> TAKE p, q \in 1..(n + 1)
  <2> HAVE p < q
  <2>1. CASE p = next
    <3>1. q # next /\ old(q) \in 1..n /\ ~(old(q) <= c)
      BY <1>1, <1>4, <1>7, <1>10, <2>1
    <3>2. front[old(q)].record \in S /\ x.start <= front[old(q)].start
      BY <1>1, <1>2, <1>11, <3>1
    <3> QED BY <1>6, <1>7, <2>1, <3>1, <3>2
  <2>2. CASE q = next
    <3>1. p # next /\ old(p) \in 1..n /\ old(p) <= c
      BY <1>1, <1>4, <1>7, <1>10, <2>2
    <3>2. front[old(p)].record \in S /\ front[old(p)].start <= x.start
      BY <1>1, <1>2, <1>11, <3>1
    <3> QED BY <1>6, <1>7, <2>2, <3>1, <3>2
  <2>3. CASE p # next /\ q # next BY <1>7, <1>9, <1>11, <2>3
  <2> QED BY <2>1, <2>2, <2>3
<1>15. Sits(log, S \cup {x.record}, new)
  BY <1>6, <1>12, <1>13, <1>14, Zenon DEF Sits
<1> QED BY <1>3, <1>5, <1>15

\* A record leaves the places.
LEMMA UnplacedSits ==
  ASSUME NEW log, NEW S, NEW front \in Seq(Entries), Sits(log, S, front), NEW i \in S
  PROVE  Unplaced(front, i) \in Seq(Entries) /\ Sits(log, S \ {i}, Unplaced(front, i))
<1> DEFINE n == Len(front)
           at == CHOOSE p \in DOMAIN front : front[p].record = i
           new == RemoveAt(front, at)
<1>1. n \in Nat /\ DOMAIN front = 1..n OBVIOUS
<1>2. /\ \A p \in 1..n : front[p].record \in S /\ log[front[p].record].start = front[p].start
      /\ \A j \in S : \E p \in 1..n : front[p].record = j
      /\ \A p, q \in 1..n : p < q => front[p].record # front[q].record /\ front[p].start <= front[q].start
  BY <1>1, Zenon DEF Sits
<1>3. at \in 1..n /\ front[at].record = i BY <1>1, <1>2
<1> HIDE DEF at
<1>4. new \in Seq(Entries) /\ TakenOut(front, at, new)
  BY <1>3, RemoveFacts
<1> HIDE DEF new
<1>5. /\ DOMAIN new = 1..(n - 1)
      /\ \A p \in 1..(at - 1) : new[p] = front[p]
      /\ \A p \in at..(n - 1) : new[p] = front[p + 1]
  <2>1. Len(new) = n - 1 /\ DOMAIN new = 1..Len(new)
    BY <1>4 DEF TakenOut
  <2> QED BY <1>4, <2>1 DEF TakenOut
<1> DEFINE old(p) == IF p < at THEN p ELSE p + 1
<1>6. \A p \in 1..(n - 1) : old(p) \in 1..n /\ old(p) # at /\ new[p] = front[old(p)]
  <2> TAKE p \in 1..(n - 1)
  <2>1. p \in 1..(at - 1) \/ p \in at..(n - 1) BY <1>1, <1>3
  <2> QED BY <1>1, <1>3, <1>5, <2>1
<1>7. \A p, q \in 1..(n - 1) : p < q => old(p) < old(q)
  BY <1>1, <1>3
<1>8. \A q \in 1..n : q # at => \E p \in 1..(n - 1) : old(p) = q
  <2> TAKE q \in 1..n
  <2> HAVE q # at
  <2> DEFINE p == IF q < at THEN q ELSE q - 1
  <2>1. p \in 1..(n - 1) /\ old(p) = q BY <1>1, <1>3
  <2> QED BY <2>1
<1> HIDE DEF old
<1>9. \A q \in 1..n : q # at => front[q].record # i
  <2> TAKE q \in 1..n
  <2>1. q = at \/ q < at \/ at < q BY <1>1, <1>3
  <2> QED BY <1>2, <1>3, <2>1
<1>10. \A p \in 1..(n - 1) : new[p].record \in S \ {i} /\ log[new[p].record].start = new[p].start
  <2> TAKE p \in 1..(n - 1)
  <2>1. old(p) \in 1..n /\ old(p) # at /\ new[p] = front[old(p)]
    BY <1>6
  <2> QED BY <1>2, <1>9, <2>1
<1>11. \A j \in S \ {i} : \E p \in 1..(n - 1) : new[p].record = j
  <2> TAKE j \in S \ {i}
  <2>1. PICK q \in 1..n : front[q].record = j BY <1>2
  <2>2. PICK p \in 1..(n - 1) : old(p) = q
    BY <1>3, <1>8, <2>1
  <2> QED BY <1>6, <2>1, <2>2
<1>12. \A p, q \in 1..(n - 1) : p < q => new[p].record # new[q].record /\ new[p].start <= new[q].start
  <2> TAKE p, q \in 1..(n - 1)
  <2> HAVE p < q
  <2>1. /\ old(p) \in 1..n /\ new[p] = front[old(p)] /\ old(p) < old(q)
        /\ old(q) \in 1..n /\ new[q] = front[old(q)]
    BY <1>6, <1>7
  <2> QED BY <1>2, <2>1
<1>13. Sits(log, S \ {i}, new)
  BY <1>5, <1>10, <1>11, <1>12, Zenon DEF Sits
<1> QED BY <1>4, <1>13 DEF new, at, Unplaced

-------------------------------------------------------------------------------
(* A declaration.                                                          *)

\* An index is sound as long as the log, the lists and the counts are the same.
LEMMA IndexedSame ==
  ASSUME NEW r, NEW s, s.log = r.log, s.index = r.index, s.indexed = r.indexed, s.cursor = r.cursor, Indexed(r)
  PROVE  Indexed(s)
<1>1. Taken(s) = Taken(r) BY DEF Taken
<1>2. \A d : UpToCursor(s, d) = UpToCursor(r, d)
  BY DEF UpToCursor
<1>3. Holds(s, Taken(s)) BY <1>1, HoldsSame DEF Indexed
<1> QED BY <1>2, <1>3 DEF Indexed

\* Withdrawals are paired as long as the log and the cursors are the same.
LEMMA PairedSame ==
  ASSUME NEW r, NEW s, s.log = r.log, s.cursor = r.cursor, Paired(r)
  PROVE  Paired(s)
BY DEF Paired

Fresh(k, s, withdrew) ==
  [key |-> k, start |-> s, withdrew |-> withdrew, linked |-> FALSE, withdrawn |-> FALSE, back |-> FALSE, gone |-> FALSE]

\* The record a declaration or a withdrawal appends.
LEMMA FreshFields ==
  ASSUME NEW k \in Keys, NEW s \in Int, NEW w \in Nat
  PROVE  LET x == Fresh(k, s, w)
         IN /\ x \in Recs /\ x.key = k /\ x.start = s /\ x.withdrew = w /\ Kind(x) = KindOf[k]
            /\ ~x.linked /\ ~x.withdrawn /\ ~x.back /\ ~x.gone /\ (Stands(x) <=> w = 0)
BY DEF Fresh, Recs, Kind, Stands

\* What S_append leaves as it was, and the record it appends.
LEMMA AppendFacts ==
  ASSUME NEW r \in Rosters, NEW k \in Keys, NEW start \in Int, NEW w \in Nat
  PROVE  LET s == S_append(r, k, start, w)
         IN /\ s \in Rosters /\ Len(s.log) = Len(r.log) + 1 /\ DOMAIN s.log = 1..(Len(r.log) + 1)
            /\ \A i \in 1..Len(r.log) : s.log[i] = r.log[i]
            /\ s.log[Len(r.log) + 1] = Fresh(k, start, w)
            /\ s.index = r.index /\ s.indexed = r.indexed /\ s.cursor = r.cursor
            /\ s.front = r.front /\ s.back = r.back /\ s.end = r.end /\ s.placed = r.placed
            /\ s.hidden = r.hidden /\ s.dead = r.dead /\ s.lost = r.lost
<1> DEFINE s == S_append(r, k, start, w)
           log == Append(r.log, Fresh(k, start, w))
<1>1. s = [r EXCEPT !.log = log] BY DEF S_append, Fresh
<1>2. log \in Seq(Recs) /\ Len(log) = Len(r.log) + 1 /\ DOMAIN log = 1..(Len(r.log) + 1)
  BY RosterFields, FreshFields, AppendProperties
<1>3. (\A i \in 1..Len(r.log) : log[i] = r.log[i]) /\ log[Len(r.log) + 1] = Fresh(k, start, w)
  BY RosterFields, FreshFields, AppendProperties
<1> HIDE DEF s, log
<1>4. /\ s \in Rosters /\ s.log = log
      /\ s.index = r.index /\ s.indexed = r.indexed /\ s.cursor = r.cursor
      /\ s.front = r.front /\ s.back = r.back /\ s.end = r.end /\ s.placed = r.placed
      /\ s.hidden = r.hidden /\ s.dead = r.dead /\ s.lost = r.lost
  BY <1>1, <1>2, Zenon DEF Rosters
<1> QED BY <1>2, <1>3, <1>4 DEF s

\* A record the index did not yet reach changes nothing of it.
LEMMA AppendIndexed ==
  ASSUME NEW r \in Rosters, Settled(r), Indexed(r), NEW k \in Keys, NEW start \in Int, NEW w \in Nat
  PROVE  LET s == S_append(r, k, start, w) IN Indexed(s) /\ Taken(s) = Taken(r) /\ Settled(s)
<1> DEFINE s == S_append(r, k, start, w)
           n == Len(r.log)
<1>1. n \in Nat /\ DOMAIN r.log = 1..n /\ r.log \in Seq(Recs) /\ r.cursor \in [Kinds -> Nat]
  BY RosterFields
<1>2. /\ s \in Rosters /\ Len(s.log) = n + 1 /\ DOMAIN s.log = 1..(n + 1)
      /\ \A i \in 1..n : s.log[i] = r.log[i]
      /\ s.log[n + 1] = Fresh(k, start, w)
      /\ s.index = r.index /\ s.indexed = r.indexed /\ s.cursor = r.cursor
  BY AppendFacts
<1> HIDE DEF s
<1>3. \A d \in Kinds : r.cursor[d] <= n BY DEF Settled
<1>4. Kind(s.log[n + 1]) \in Kinds /\ ~s.log[n + 1].linked
  <2>1. n + 1 \in DOMAIN s.log /\ s.log \in Seq(Recs)
    BY <1>1, <1>2, RosterFields
  <2> QED BY <1>2, <2>1, LogFields, FreshFields
<1>5. DOMAIN s.log = DOMAIN r.log \cup {n + 1} BY <1>1, <1>2
<1>6. Taken(s) = Taken(r)
  <2>1. ~(n + 1 <= s.cursor[Kind(s.log[n + 1])])
    BY <1>1, <1>2, <1>3, <1>4
  <2> QED BY <1>1, <1>2, <1>5, <2>1, Zenon DEF Taken
<1>7. \A d \in Kinds : UpToCursor(s, d) = UpToCursor(r, d)
  <2>1. \A d \in Kinds : ~(n + 1 <= s.cursor[d])
    BY <1>1, <1>2, <1>3
  <2> QED BY <1>1, <1>2, <1>5, <2>1, Zenon DEF UpToCursor
<1>8. Holds(s, Taken(s))
  <2> DEFINE T == Taken(r)
  <2>1. Holds(r, T) /\ T \subseteq 1..n
    BY <1>1 DEF Indexed, Taken
  <2> HIDE DEF T
  <2>2. T \subseteq DOMAIN s.log /\ \A i \in T : s.log[i] = r.log[i]
    BY <1>1, <1>2, <2>1
  <2>3. ASSUME NEW i \in DOMAIN s.log PROVE s.log[i].linked <=> i \in T
    <3>1. CASE i = n + 1 BY <1>1, <1>4, <2>1, <3>1
    <3>2. CASE i \in 1..n
      BY <1>1, <1>2, <2>1, <3>2, Zenon DEF Holds
    <3> QED BY <1>1, <1>5, <3>1, <3>2
  <2>4. Holds(s, T) BY <1>2, <2>1, <2>2, <2>3, HoldsStill
  <2> QED BY <1>6, <2>4 DEF T
<1>9. Settled(s) BY <1>1, <1>2, <1>3 DEF Settled
<1> QED BY <1>2, <1>6, <1>7, <1>8, <1>9 DEF Indexed, s

\* The declarations of a side, with one more record in the log.
LEMMA SidesMore ==
  ASSUME NEW log \in Seq(Recs), NEW new \in Seq(Recs), Len(new) = Len(log) + 1,
         \A i \in 1..Len(log) : new[i] = log[i], NEW d
  PROVE  LET x == new[Len(new)]
         IN /\ Fronts(new, d) = IF Stands(x) /\ Kind(x) = d /\ ~x.back THEN Fronts(log, d) \cup {Len(new)} ELSE Fronts(log, d)
            /\ Backs(new, d) = IF Stands(x) /\ Kind(x) = d /\ x.back THEN Backs(log, d) \cup {Len(new)} ELSE Backs(log, d)
<1>1. DOMAIN new = DOMAIN log \cup {Len(new)} /\ DOMAIN log = 1..Len(log)
  OBVIOUS
<1> QED BY <1>1 DEF Fronts, Backs

\* markdown_core_roster_declare keeps a roster sound: its entry is put where it starts, before
\* what of the old text is seen, and the index does not know the record yet.
LEMMA DeclaredSound ==
  ASSUME NEW r, Sound(r), Settled(r), NEW k \in Keys, NEW start \in Int,
         ~r.hidden => \A j \in Backs(r.log, KindOf[k]) : start <= r.end[KindOf[k]] - r.log[j].start
  PROVE  LET s == Declared(r, k, start)
         IN /\ Sound(s) /\ Settled(s) /\ Len(s.log) = Len(r.log) + 1
            /\ \A i \in 1..Len(r.log) : s.log[i] = r.log[i]
            /\ s.log[Len(r.log) + 1] = Fresh(k, start, 0)
            /\ s.cursor = r.cursor /\ s.back = r.back /\ s.end = r.end /\ s.placed = r.placed
            /\ s.hidden = r.hidden /\ s.dead = r.dead /\ s.lost = r.lost
<1> DEFINE t == S_append(r, k, start, 0)
           n == Len(r.log)
           d == KindOf[k]
           x == [start |-> start, record |-> n + 1]
           s == Declared(r, k, start)
           front == IF r.placed THEN [r.front EXCEPT ![d] = Entered(r.front[d], x)] ELSE r.front
<1>1. r \in Rosters /\ Indexed(r) /\ Paired(r) /\ Placed(r) /\ Divided(r)
  BY DEF Sound
<1>2. n \in Nat /\ DOMAIN r.log = 1..n /\ r.log \in Seq(Recs) /\ d \in Kinds /\ x \in Entries
      /\ r.front \in [Kinds -> Seq(Entries)]
  BY <1>1, RosterFields, RosterAssumption DEF Entries
<1>3. /\ t \in Rosters /\ Len(t.log) = n + 1 /\ DOMAIN t.log = 1..(n + 1)
      /\ \A i \in 1..n : t.log[i] = r.log[i]
      /\ t.log[n + 1] = Fresh(k, start, 0)
      /\ t.index = r.index /\ t.indexed = r.indexed /\ t.cursor = r.cursor
      /\ t.front = r.front /\ t.back = r.back /\ t.end = r.end /\ t.placed = r.placed
      /\ t.hidden = r.hidden /\ t.dead = r.dead /\ t.lost = r.lost
  BY <1>1, AppendFacts
<1>4. Indexed(t) /\ Settled(t) BY <1>1, AppendIndexed
<1> DEFINE new == Fresh(k, start, 0)
<1>5. /\ new \in Recs /\ new.key = k /\ new.start = start /\ new.withdrew = 0 /\ Kind(new) = d
      /\ ~new.linked /\ ~new.withdrawn /\ ~new.back /\ ~new.gone /\ Stands(new)
  <2>1. start \in Int /\ k \in Keys /\ 0 \in Nat OBVIOUS
  <2> QED BY <2>1 DEF Fresh, Recs, Kind, Stands
<1> HIDE DEF new
<1>6. s = IF r.placed THEN [t EXCEPT !.front = front] ELSE t
  BY <1>3 DEF Declared
<1> HIDE DEF t
<1>7. \A e : /\ Fronts(t.log, e) = IF e = d THEN Fronts(r.log, e) \cup {n + 1} ELSE Fronts(r.log, e)
             /\ Backs(t.log, e) = Backs(r.log, e)
  <2> TAKE e
  <2>1. t.log \in Seq(Recs) /\ t.log[Len(t.log)] = new /\ Len(t.log) = n + 1
    BY <1>3, RosterFields DEF new
  <2>2. LET x_1 == t.log[Len(t.log)]
        IN /\ Fronts(t.log, e) = IF Stands(x_1) /\ Kind(x_1) = e /\ ~x_1.back THEN Fronts(r.log, e) \cup {Len(t.log)} ELSE Fronts(r.log, e)
           /\ Backs(t.log, e) = IF Stands(x_1) /\ Kind(x_1) = e /\ x_1.back THEN Backs(r.log, e) \cup {Len(t.log)} ELSE Backs(r.log, e)
    BY <1>2, <1>3, <2>1, SidesMore, Zenon
  <2> QED BY <1>5, <2>1, <2>2
<1>8. \A e : \A i \in Fronts(r.log, e) \cup Backs(r.log, e) : t.log[i].start = r.log[i].start /\ i # n + 1
  BY <1>2, <1>3 DEF Fronts, Backs
<1>9. r.placed => /\ \A e \in Kinds : Sits(t.log, Fronts(t.log, e), front[e]) /\ Sits(t.log, Backs(t.log, e), r.back[e])
                  /\ front \in [Kinds -> Seq(Entries)]
  <2> SUFFICES ASSUME r.placed PROVE /\ \A e \in Kinds : Sits(t.log, Fronts(t.log, e), front[e]) /\ Sits(t.log, Backs(t.log, e), r.back[e])
                  /\ front \in [Kinds -> Seq(Entries)]
    OBVIOUS
  <2> DEFINE S == Fronts(r.log, d)
             f == r.front[d]
  <2>1. Sits(t.log, S, f) /\ f \in Seq(Entries)
    <3>1. Sits(r.log, S, f) BY <1>1, <1>2 DEF Placed
    <3> QED BY <1>2, <1>8, <3>1, SitsStill
  <2>2. x.record = n + 1 /\ n + 1 \notin S /\ t.log[n + 1].start = x.start
    BY <1>3, <1>5, <1>8 DEF new
  <2>3. Entered(f, x) \in Seq(Entries) /\ Sits(t.log, S \cup {n + 1}, Entered(f, x))
    <3> HIDE DEF S, f, x
    <3> QED BY <1>2, <2>1, <2>2, EnteredSits, Zenon
  <2>4. front \in [Kinds -> Seq(Entries)] /\ front[d] = Entered(f, x) /\ \A e \in Kinds : e # d => front[e] = r.front[e]
    BY <1>2, <2>3
  <2> HIDE DEF front
  <2>5. ASSUME NEW e \in Kinds PROVE Sits(t.log, Fronts(t.log, e), front[e])
    <3>1. CASE e = d BY <1>7, <2>3, <2>4, <3>1, Zenon
    <3>2. CASE e # d
      <4>1. Sits(r.log, Fronts(r.log, e), r.front[e])
        BY <1>1 DEF Placed
      <4>2. Sits(t.log, Fronts(r.log, e), r.front[e])
        BY <1>8, <4>1, SitsStill
      <4> QED BY <1>7, <2>4, <3>2, <4>2, Zenon
    <3> QED BY <3>1, <3>2
  <2>6. ASSUME NEW e \in Kinds PROVE Sits(t.log, Backs(t.log, e), r.back[e])
    <3>1. Sits(r.log, Backs(r.log, e), r.back[e])
      BY <1>1 DEF Placed
    <3>2. Sits(t.log, Backs(r.log, e), r.back[e])
      BY <1>8, <3>1, SitsStill
    <3> QED BY <1>7, <3>2
  <2> QED BY <2>4, <2>5, <2>6
<1> HIDE DEF front, x
<1>10. /\ s \in Rosters /\ s.log = t.log /\ s.index = t.index /\ s.indexed = t.indexed /\ s.cursor = t.cursor
       /\ (r.placed => s.front = front) /\ (~r.placed => s.front = r.front) /\ s.back = r.back /\ s.end = r.end
       /\ s.placed = r.placed /\ s.hidden = r.hidden /\ s.dead = r.dead /\ s.lost = r.lost
  <2> HIDE DEF s, n
  <2>1. CASE r.placed
    BY <1>3, <1>6, <1>9, <2>1, Zenon DEF Rosters
  <2>2. CASE ~r.placed BY <1>3, <1>6, <2>2
  <2> QED BY <2>1, <2>2
<1> HIDE DEF s
<1>11. Indexed(s) BY <1>4, <1>10, IndexedSame
<1>12. Settled(s) BY <1>4, <1>10 DEF Settled
<1>13. Placed(s)
  <2>1. CASE r.placed BY <1>9, <1>10, <2>1 DEF Placed
  <2>2. CASE ~r.placed
    <3>1. \A i \in DOMAIN s.log : ~s.log[i].back /\ ~s.log[i].gone
      <4> TAKE i \in DOMAIN s.log
      <4>1. i \in 1..n \/ i = n + 1 BY <1>2, <1>3, <1>10
      <4> QED BY <1>1, <1>2, <1>3, <1>5, <1>10, <2>2, <4>1 DEF Placed, new
    <3> QED BY <1>1, <1>10, <2>2, <3>1 DEF Placed
  <2> QED BY <2>1, <2>2
<1>14. Divided(s)
  <2> SUFFICES ASSUME ~s.hidden, NEW e \in Kinds, NEW i \in Fronts(s.log, e), NEW j \in Backs(s.log, e)
               PROVE  s.log[i].start <= s.end[e] - s.log[j].start
    BY DEF Divided
  <2>1. j \in Backs(r.log, e) /\ s.log[j].start = r.log[j].start
    BY <1>7, <1>8, <1>10
  <2>2. CASE i = n + 1 /\ e = d
    BY <1>3, <1>5, <1>10, <2>1, <2>2 DEF new
  <2>3. CASE ~(i = n + 1 /\ e = d)
    <3>1. i \in Fronts(r.log, e) /\ s.log[i].start = r.log[i].start
      <4>1. i \in Fronts(r.log, e)
        <5>1. i \in Fronts(t.log, e) BY <1>10
        <5>2. CASE e = d
          <6>1. i \in Fronts(r.log, e) \cup {n + 1}
            BY <1>7, <5>1, <5>2, Zenon
          <6> QED BY <2>3, <5>2, <6>1
        <5>3. CASE e # d BY <1>7, <5>1, <5>3, Zenon
        <5> QED BY <5>2, <5>3
      <4> QED BY <1>8, <1>10, <4>1
    <3> QED BY <1>1, <1>10, <2>1, <3>1 DEF Divided
  <2> QED BY <2>2, <2>3
<1>15. Paired(s)
  <2>1. DOMAIN s.log = DOMAIN r.log \cup {n + 1} /\ s.log[n + 1] = new
    BY <1>2, <1>3, <1>10 DEF new
  <2>2. \A i \in DOMAIN r.log : s.log[i] = r.log[i]
    BY <1>2, <1>3, <1>10
  <2>3. \A i \in DOMAIN r.log : r.log[i].withdrew \in Nat /\ i \in Nat
    BY <1>2, LogFields
  <2>4. ASSUME NEW i \in DOMAIN s.log, s.log[i].withdrew # 0
        PROVE  LET w == s.log[i].withdrew
               IN /\ w < i /\ s.log[w].key = s.log[i].key /\ s.log[w].withdrew = 0
                  /\ s.log[w].withdrawn /\ i <= s.cursor[Kind(s.log[i])]
    <3>1. i \in DOMAIN r.log /\ s.log[i] = r.log[i]
      BY <1>5, <2>1, <2>2, <2>4
    <3> DEFINE w == r.log[i].withdrew
    <3>2. /\ w < i /\ r.log[w].key = r.log[i].key /\ r.log[w].withdrew = 0
          /\ r.log[w].withdrawn /\ i <= r.cursor[Kind(r.log[i])] /\ w # 0 /\ w \in Nat
      BY <1>1, <2>3, <2>4, <3>1 DEF Paired
    <3>3. w \in DOMAIN r.log BY <1>2, <3>1, <3>2
    <3> QED BY <1>3, <1>10, <2>2, <3>1, <3>2, <3>3
  <2>5. \A i, j \in DOMAIN s.log : s.log[i].withdrew # 0 /\ s.log[i].withdrew = s.log[j].withdrew => i = j
    BY <1>1, <1>5, <2>1, <2>2 DEF Paired
  <2>6. \A w \in DOMAIN s.log : s.log[w].withdrawn => \E i \in DOMAIN s.log : s.log[i].withdrew = w
    BY <1>1, <1>5, <2>1, <2>2 DEF Paired
  <2> QED BY <2>4, <2>5, <2>6 DEF Paired
<1> QED BY <1>3, <1>10, <1>11, <1>12, <1>13, <1>14, <1>15 DEF Sound, s

-------------------------------------------------------------------------------
(* A withdrawal.                                                           *)

\* The dead of a log's first c records depend on what they withdrew and what went of them only.
LEMMA DeadSame ==
  ASSUME NEW log, NEW new, NEW c \in Nat,
         \A i \in 1..c : new[i].withdrew = log[i].withdrew /\ new[i].gone = log[i].gone
  PROVE  DeadSet(new, c) = DeadSet(log, c)
BY DEF DeadSet

\* What is dead are the records that do not stand.
LEMMA DeadIs ==
  ASSUME NEW r \in Rosters, Paired(r)
  PROVE  /\ DeadSet(r.log, Len(r.log)) = {i \in DOMAIN r.log : ~Stands(r.log[i])}
         /\ \A c \in 0..Len(r.log) : DeadSet(r.log, c) \subseteq 1..c /\ IsFiniteSet(DeadSet(r.log, c))
<1>1. Len(r.log) \in Nat /\ DOMAIN r.log = 1..Len(r.log) /\ r.log \in Seq(Recs)
  BY RosterFields
<1>2. \A i \in DOMAIN r.log : r.log[i].withdrew \in Nat /\ i # 0
  BY <1>1, LogFields
<1>3. ASSUME NEW i \in DOMAIN r.log
      PROVE  ~Stands(r.log[i]) <=> r.log[i].gone \/ r.log[i].withdrew # 0 \/ \E j \in DOMAIN r.log : r.log[j].withdrew = i
  <2>1. ASSUME NEW j \in DOMAIN r.log, r.log[j].withdrew = i PROVE r.log[i].withdrawn
    BY <1>2, <2>1 DEF Paired
  <2>2. r.log[i].withdrawn => \E j \in DOMAIN r.log : r.log[j].withdrew = i
    BY DEF Paired
  <2> QED BY <2>1, <2>2 DEF Stands
<1>4. DeadSet(r.log, Len(r.log)) = {i \in DOMAIN r.log : ~Stands(r.log[i])}
  BY <1>1, <1>3 DEF DeadSet
<1>5. ASSUME NEW c \in 0..Len(r.log) PROVE DeadSet(r.log, c) \subseteq 1..c /\ IsFiniteSet(DeadSet(r.log, c))
  <2>1. DeadSet(r.log, c) \subseteq 1..c BY DEF DeadSet
  <2>2. IsFiniteSet(1..c) BY <1>1, FS_Interval
  <2> QED BY <2>1, <2>2, FS_Subset
<1> QED BY <1>4, <1>5

\* What a withdrawal withdraws stands, and is the key's.
GoneOf(r, k, s) ==
  LET indexed == S_index_space(r, KindOf[k])
      list == indexed.index[k].list
      at == Walked(indexed.index[k], {i \in ToSet(list) : TextStart(indexed, i) <= s})
  IN IF at > 0 /\ TextStart(indexed, list[at]) = s THEN list[at] ELSE Last(list)

\* What a withdrawal asks of the index, and what it withdraws.
GoneAsked(r, k, start) ==
  LET indexed == S_index_space(r, KindOf[k])
      list == indexed.index[k].list
      stays == {i \in ToSet(list) : TextStart(indexed, i) <= start}
      at == Walked(indexed.index[k], stays)
      gone == GoneOf(r, k, start)
  IN /\ gone \in DOMAIN r.log /\ gone \in Taken(indexed) /\ r.log[gone].key = k /\ Stands(r.log[gone])
     /\ list # << >> /\ at \in 0..Len(list) /\ \A p \in 1..Len(list) : r.log[list[p]].start <= start <=> p <= at
     /\ Holds(indexed, {i \in DOMAIN r.log : i <= indexed.cursor[Kind(r.log[i])] /\ Stands(r.log[i])})
     /\ gone = IF at > 0 /\ r.log[list[at]].start = start THEN list[at] ELSE list[Len(list)]

\* What a withdrawal looks for it finds, as the key has a declaration that stands: the walk is
\* of a list that is not empty, and the record withdrawn is one the index holds.
LEMMA GoneStands ==
  ASSUME NEW r, Sound(r), Settled(r), ~r.placed, NEW k \in Keys, NEW start \in Int,
         \E i \in DOMAIN r.log : r.log[i].key = k /\ Stands(r.log[i])
  PROVE  GoneAsked(r, k, start)
<1> DEFINE d == KindOf[k]
           q == S_index_space(r, d)
           e == q.index[k]
           list == e.list
           n == Len(list)
           stays == {i \in ToSet(list) : TextStart(q, i) <= start}
           at == Walked(e, stays)
           gone == GoneOf(r, k, start)
           Tk == {i \in Taken(q) : q.log[i].key = k}
<1>1. r \in Rosters /\ Indexed(r) /\ Paired(r) /\ Placed(r)
  BY DEF Sound
<1>2. d \in Kinds /\ r.log \in Seq(Recs) /\ Len(r.log) \in Nat /\ DOMAIN r.log = 1..Len(r.log)
  BY <1>1, RosterAssumption, RosterFields
<1>3. q \in Rosters /\ Alike(r, q) /\ Indexed(q) /\ q.cursor = [r.cursor EXCEPT ![d] = Len(r.log)]
  BY <1>1, <1>2, IndexSpace, Zenon DEF Settled
<1>4. q.cursor[d] = Len(r.log)
  <2>1. r.cursor \in [Kinds -> Nat] BY <1>1, RosterFields
  <2> HIDE DEF q, d
  <2> QED BY <1>2, <1>3, <2>1
<1>5. /\ DOMAIN q.log = DOMAIN r.log
      /\ \A i \in DOMAIN r.log : /\ Stands(q.log[i]) = Stands(r.log[i]) /\ Kind(q.log[i]) = Kind(r.log[i])
                                 /\ Same(q.log[i], r.log[i])
  <2> HIDE DEF q
  <2>1. DOMAIN q.log = DOMAIN r.log BY <1>3 DEF Alike
  <2> QED BY <1>3, <2>1, AlikeRecords
<1>6. Holds(q, Taken(q)) /\ Taken(q) = {i \in DOMAIN r.log : i <= q.cursor[Kind(r.log[i])] /\ Stands(r.log[i])}
  BY <1>3, <1>5 DEF Indexed, Taken
<1>7. Listing(q.log, e, Tk) /\ e \in Lists /\ Tk \subseteq DOMAIN r.log
  BY <1>3, <1>5, <1>6, RosterFields, Zenon DEF Holds
<1>8. list \in Seq(Nat) /\ n \in Nat /\ DOMAIN list = 1..n
  BY <1>7 DEF Lists
<1>9. \A i \in DOMAIN r.log : TextStart(q, i) = r.log[i].start /\ r.log[i].start \in Int /\ ~r.log[i].back
  <2> TAKE i \in DOMAIN r.log
  <2>1. ~r.log[i].back /\ q.log[i].start = r.log[i].start /\ q.log[i].back = r.log[i].back
    BY <1>1, <1>5 DEF Placed, Same
  <2> QED BY <1>2, <2>1, LogFields DEF TextStart
<1> HIDE DEF q, e
<1>10. Tk # {}
  <2>1. PICK i \in DOMAIN r.log : r.log[i].key = k /\ Stands(r.log[i])
    OBVIOUS
  <2>2. Kind(r.log[i]) = d /\ q.log[i].key = k /\ i <= Len(r.log)
    BY <1>2, <1>5, <2>1 DEF Kind, Same
  <2> QED BY <1>4, <1>6, <2>1, <2>2
<1>11. /\ \A p \in 1..n : list[p] \in Tk
       /\ \A p, m \in 1..n : p < m => list[p] # list[m] /\ ~S_precedes(q.log[list[m]], q.log[list[p]])
       /\ list # << >>
       /\ \E p \in 1..n : list[p] = e.hint
  <2>1. /\ \A p \in 1..n : list[p] \in Tk
        /\ \A p, m \in 1..n : p < m => list[p] # list[m] /\ ~S_precedes(q.log[list[m]], q.log[list[p]])
        /\ \A i \in Tk : \E p \in 1..n : list[p] = i
        /\ list # << >> => \E p \in 1..n : list[p] = e.hint
    BY <1>7, <1>8, Zenon DEF Listing, Ordered
  <2>2. n # 0 BY <1>10, <2>1
  <2>3. list # << >> BY <1>8, <2>2
  <2> QED BY <2>1, <2>3
<1>12. \A p, m \in 1..n : p < m => r.log[list[p]].start <= r.log[list[m]].start
  <2> TAKE p, m \in 1..n
  <2> HAVE p < m
  <2>1. list[p] \in DOMAIN r.log /\ list[m] \in DOMAIN r.log
    BY <1>7, <1>11
  <2>2. ~q.log[list[p]].back /\ ~q.log[list[m]].back /\ ~S_precedes(q.log[list[m]], q.log[list[p]])
        /\ q.log[list[p]].start = r.log[list[p]].start /\ q.log[list[m]].start = r.log[list[m]].start
    BY <1>5, <1>9, <1>11, <2>1, SMTT(30) DEF Same
  <2>3. r.log[list[p]].start \in Int /\ r.log[list[m]].start \in Int
    BY <1>9, <2>1
  <2> QED BY <2>2, <2>3 DEF S_precedes
<1>13. \A p \in 1..n : /\ list[p] \in DOMAIN r.log
                       /\ (list[p] \in stays <=> r.log[list[p]].start <= start)
                       /\ TextStart(q, list[p]) = r.log[list[p]].start
                       /\ r.log[list[p]].start \in Int
  BY <1>7, <1>8, <1>9, <1>11, Zenon DEF ToSet
<1>14. at \in 0..n /\ \A p \in 1..n : list[p] \in stays <=> p <= at
  <2>1. ASSUME NEW p \in 1..n, NEW m \in 1..n, p < m, list[m] \in stays PROVE list[p] \in stays
    BY <1>12, <1>13, <2>1, SMTT(30)
  <2>2. \A p, m \in DOMAIN list : p < m => list[p] # list[m] /\ (list[m] \in stays => list[p] \in stays)
    BY <1>8, <1>11, <2>1, Zenon
  <2>3. \E p \in DOMAIN list : list[p] = e.hint
    BY <1>8, <1>11, Zenon
  <2> HIDE DEF stays
  <2> QED BY <1>7, <1>11, <2>2, <2>3, WalkedIs
<1>15. gone = IF at > 0 /\ TextStart(q, list[at]) = start THEN list[at] ELSE list[Len(list)]
  BY DEF GoneOf, Last, q, e
<1> HIDE DEF at, stays, gone
<1>16. gone = IF at > 0 /\ r.log[list[at]].start = start THEN list[at] ELSE list[Len(list)]
  <2>1. at > 0 => at \in 1..n BY <1>8, <1>14
  <2> QED BY <1>13, <1>15, <2>1
<1>17. \E p \in 1..n : gone = list[p]
  <2>1. n \in 1..n
    <3>1. n # 0 BY <1>8, <1>11
    <3> QED BY <1>8, <3>1
  <2>2. at > 0 => at \in 1..n BY <1>8, <1>14
  <2> QED BY <1>16, <2>1, <2>2
<1>18. gone \in Tk BY <1>11, <1>17
<1>19. gone \in DOMAIN r.log /\ r.log[gone].key = k /\ Stands(r.log[gone]) /\ gone \in Taken(q)
  BY <1>5, <1>6, <1>7, <1>18 DEF Same
<1>20. \A p \in 1..n : r.log[list[p]].start <= start <=> p <= at
  BY <1>13, <1>14
<1> QED BY <1>6, <1>11, <1>14, <1>16, <1>19, <1>20, Zenon DEF q, e, at, stays, gone, GoneAsked

\* What the records of a log are to all but the withdrawal of one of them.
Withdrew(r, s, g, k, start) ==
  LET n == Len(r.log)
      d == KindOf[k]
  IN /\ g \in DOMAIN r.log /\ r.log[g].key = k /\ Stands(r.log[g])
     /\ Len(s.log) = n + 1 /\ DOMAIN s.log = 1..(n + 1)
     /\ \A i \in 1..n : /\ s.log[i].key = r.log[i].key /\ s.log[i].start = r.log[i].start
                        /\ s.log[i].withdrew = r.log[i].withdrew /\ s.log[i].back = r.log[i].back
                        /\ s.log[i].gone = r.log[i].gone /\ (s.log[i].withdrawn <=> r.log[i].withdrawn \/ i = g)
     /\ Same(s.log[n + 1], Fresh(k, start, g))
     /\ s.cursor[d] = n + 1 /\ \A e \in Kinds : e # d => s.cursor[e] = r.cursor[e]
     /\ s.front = r.front /\ s.back = r.back /\ s.end = r.end /\ s.placed = r.placed
     /\ s.hidden = r.hidden /\ s.lost = r.lost /\ s.dead = r.dead + 2

\* markdown_core_roster_withdraw keeps a roster sound: the index is made up to the withdrawal,
\* and what it withdraws leaves its list.
LEMMA WithdrawnSound ==
  ASSUME NEW r, Sound(r), Settled(r), ~r.placed, NEW k \in Keys, NEW start \in Int,
         \E i \in DOMAIN r.log : r.log[i].key = k /\ Stands(r.log[i])
  PROVE  LET s == Withdrawn(r, k, start)
         IN Sound(s) /\ Settled(s) /\ Withdrew(r, s, GoneOf(r, k, start), k, start)
<1> DEFINE d == KindOf[k]
           n == Len(r.log)
           q == S_index_space(r, d)
           g == GoneOf(r, k, start)
           a == S_append(q, k, start, g)
           u == S_unlink(a, g)
           s == Withdrawn(r, k, start)
           T == Taken(q)
<1>1. r \in Rosters /\ Indexed(r) /\ Paired(r) /\ Placed(r) /\ d \in Kinds
  BY RosterAssumption DEF Sound
<1>2. r.log \in Seq(Recs) /\ n \in Nat /\ DOMAIN r.log = 1..n /\ r.cursor \in [Kinds -> Nat]
  BY <1>1, RosterFields
<1>3. q \in Rosters /\ Alike(r, q) /\ Indexed(q)
      /\ q.cursor = [r.cursor EXCEPT ![d] = n] /\ q.indexed = [r.indexed EXCEPT ![d] = Records(r, d)]
  BY <1>1, IndexSpace DEF Settled
<1>4. g \in DOMAIN r.log /\ g \in T /\ r.log[g].key = k /\ Stands(r.log[g])
  <2>1. GoneAsked(r, k, start) BY GoneStands
  <2> QED BY <2>1, Zenon DEF GoneAsked
<1>5. s = [u EXCEPT !.log[g].withdrawn = TRUE, !.dead = @ + 2, !.indexed[d] = @ + 1, !.cursor[d] = Len(a.log)]
  BY DEF Withdrawn, GoneOf
<1> HIDE DEF q, g
<1>6. DOMAIN q.log = 1..n /\ Len(q.log) = n
  BY <1>2, <1>3 DEF Alike
<1>7. /\ q.front = r.front /\ q.back = r.back /\ q.end = r.end /\ q.placed = r.placed
      /\ q.hidden = r.hidden /\ q.dead = r.dead /\ q.lost = r.lost
      /\ \A i \in 1..n : Same(q.log[i], r.log[i]) /\ Stands(q.log[i]) = Stands(r.log[i])
  <2>1. \A i \in 1..n : Same(q.log[i], r.log[i]) /\ Stands(q.log[i]) = Stands(r.log[i])
    BY <1>2, <1>3, AlikeRecords
  <2> QED BY <1>3, <2>1 DEF Alike
<1>8. q.cursor[d] = n /\ \A e \in Kinds : e # d => q.cursor[e] = r.cursor[e]
  <2> HIDE DEF d, n
  <2> QED BY <1>1, <1>2, <1>3
<1>9. Settled(q) BY <1>2, <1>6, <1>8 DEF Settled
<1>10. g \in Nat /\ g \in 1..n BY <1>2, <1>4
<1>11. /\ a \in Rosters /\ Len(a.log) = n + 1 /\ DOMAIN a.log = 1..(n + 1)
       /\ \A i \in 1..n : a.log[i] = q.log[i]
       /\ a.log[n + 1] = Fresh(k, start, g)
       /\ a.index = q.index /\ a.indexed = q.indexed /\ a.cursor = q.cursor
       /\ a.front = r.front /\ a.back = r.back /\ a.end = r.end /\ a.placed = r.placed
       /\ a.hidden = r.hidden /\ a.dead = r.dead /\ a.lost = r.lost
  BY <1>3, <1>6, <1>7, <1>10, AppendFacts
<1>12. Indexed(a) /\ Taken(a) = T
  BY <1>3, <1>9, <1>10, AppendIndexed
<1> HIDE DEF a, T
<1>13. Holds(a, T) BY <1>12 DEF Indexed
<1>14. u \in Rosters /\ Still(a, u) /\ Holds(u, T \ {g})
  BY <1>4, <1>11, <1>13, UnlinkHolds
<1> HIDE DEF u
<1>15. /\ DOMAIN u.log = 1..(n + 1) /\ Len(u.log) = n + 1 /\ u.indexed = q.indexed /\ u.cursor = q.cursor
       /\ u.front = r.front /\ u.back = r.back /\ u.end = r.end /\ u.placed = r.placed
       /\ u.hidden = r.hidden /\ u.dead = r.dead /\ u.lost = r.lost
       /\ \A i \in 1..n : Same(u.log[i], r.log[i])
       /\ Same(u.log[n + 1], Fresh(k, start, g))
  <2>1. \A i \in 1..(n + 1) : Same(u.log[i], a.log[i])
    BY <1>11, <1>14 DEF Still, Alike
  <2>2. ASSUME NEW i \in 1..n PROVE Same(u.log[i], r.log[i])
    <3>1. i \in 1..(n + 1) BY <1>2
    <3>2. Same(u.log[i], q.log[i]) /\ Same(q.log[i], r.log[i])
      BY <1>7, <1>11, <2>1, <3>1
    <3> QED BY <3>2 DEF Same
  <2>3. n + 1 \in 1..(n + 1) BY <1>2
  <2>4. Same(u.log[n + 1], Fresh(k, start, g))
    BY <1>11, <2>1, <2>3
  <2> QED BY <1>11, <1>14, <2>2, <2>4 DEF Still, Alike
<1>16. u.log \in Seq(Recs) /\ u.indexed \in [Kinds -> Int] /\ u.cursor \in [Kinds -> Nat] /\ u.dead \in Int
  BY <1>14, RosterFields
<1>17. /\ DOMAIN s.log = 1..(n + 1) /\ Len(s.log) = n + 1 /\ s.index = u.index
       /\ s.indexed = [u.indexed EXCEPT ![d] = u.indexed[d] + 1] /\ s.cursor = [u.cursor EXCEPT ![d] = n + 1]
       /\ s.front = r.front /\ s.back = r.back /\ s.end = r.end /\ s.placed = r.placed
       /\ s.hidden = r.hidden /\ s.dead = r.dead + 2 /\ s.lost = r.lost
       /\ s.log = [u.log EXCEPT ![g] = [u.log[g] EXCEPT !.withdrawn = TRUE]]
  <2> HIDE DEF d, n, s
  <2> DEFINE lg == [u.log EXCEPT ![g] = [u.log[g] EXCEPT !.withdrawn = TRUE]]
  <2>1. u \in [log : Seq(Recs), index : [Keys -> Lists], indexed : [Kinds -> Int], cursor : [Kinds -> Nat],
            front : [Kinds -> Seq(Entries)], back : [Kinds -> Seq(Entries)], end : [Kinds -> Int],
            placed : BOOLEAN, hidden : BOOLEAN, dead : Int, lost : SUBSET Keys]
    BY <1>14 DEF Rosters
  <2>2. /\ s.log = lg /\ s.index = u.index
        /\ s.indexed = [u.indexed EXCEPT ![d] = u.indexed[d] + 1] /\ s.cursor = [u.cursor EXCEPT ![d] = Len(a.log)]
        /\ s.front = u.front /\ s.back = u.back /\ s.end = u.end /\ s.placed = u.placed
        /\ s.hidden = u.hidden /\ s.dead = u.dead + 2 /\ s.lost = u.lost
    BY <1>5, <2>1
  <2>3. DOMAIN lg = DOMAIN u.log /\ Len(lg) = Len(u.log)
    <3>1. g \in DOMAIN u.log /\ u.log[g] \in Recs
      BY <1>10, <1>15, <1>16, <1>2, ElementOfSeq
    <3>2. [u.log[g] EXCEPT !.withdrawn = TRUE] \in Recs
      BY <3>1, Zenon DEF Recs
    <3> QED BY <1>16, <3>1, <3>2
  <2> HIDE DEF lg
  <2> QED BY <1>11, <1>15, <2>2, <2>3 DEF lg
<1>18. s \in Rosters /\ s.log \in Seq(Recs)
  <2> HIDE DEF d, n, s
  <2>1. g \in DOMAIN u.log /\ u.log[g] \in Recs
    BY <1>10, <1>15, <1>16, <1>2, ElementOfSeq
  <2>2. [u.log[g] EXCEPT !.withdrawn = TRUE] \in Recs
    BY <2>1, Zenon DEF Recs
  <2>3. s.log \in Seq(Recs) BY <1>16, <1>17, <2>1, <2>2
  <2>4. s.indexed \in [Kinds -> Int] /\ s.cursor \in [Kinds -> Nat]
    <3>1. u.indexed[d] + 1 \in Int /\ n + 1 \in Nat
      BY <1>1, <1>2, <1>16
    <3> QED BY <1>1, <1>16, <1>17, <3>1
  <2>5. s = [u EXCEPT !.log = s.log, !.indexed = s.indexed, !.cursor = s.cursor, !.dead = u.dead + 2]
    BY <1>5, <1>14, <1>11, <1>17, Zenon DEF Rosters
  <2>6. u.dead + 2 \in Int BY <1>16
  <2> QED BY <1>14, <2>3, <2>4, <2>5, <2>6, Zenon DEF Rosters
<1>19. \A i \in 1..(n + 1) : /\ s.log[i].key = u.log[i].key /\ s.log[i].start = u.log[i].start
                            /\ s.log[i].withdrew = u.log[i].withdrew /\ s.log[i].back = u.log[i].back
                            /\ s.log[i].gone = u.log[i].gone /\ s.log[i].linked = u.log[i].linked
                            /\ (s.log[i].withdrawn <=> u.log[i].withdrawn \/ i = g)
  <2> HIDE DEF n, s
  <2> TAKE i \in 1..(n + 1)
  <2>1. u.log[i] \in Recs /\ i \in DOMAIN u.log
    BY <1>2, <1>15, <1>16, ElementOfSeq
  <2>2. s.log[i] = IF i = g THEN [u.log[g] EXCEPT !.withdrawn = TRUE] ELSE u.log[i]
    BY <1>17, <2>1
  <2> QED BY <2>1, <2>2 DEF Recs
<1>20. /\ s.cursor[d] = n + 1 /\ \A e \in Kinds : e # d => s.cursor[e] = r.cursor[e]
       /\ s.indexed[d] = q.indexed[d] + 1 /\ \A e \in Kinds : e # d => s.indexed[e] = q.indexed[e]
  <2> HIDE DEF n, s, d
  <2> QED BY <1>1, <1>8, <1>15, <1>16, <1>17
<1> HIDE DEF s
<1> DEFINE x == s.log[n + 1]
<1>21. /\ x.key = k /\ x.start = start /\ x.withdrew = g /\ ~x.withdrawn /\ ~x.back /\ ~x.gone /\ Kind(x) = d
  <2>1. n + 1 \in 1..(n + 1) /\ n + 1 # g BY <1>2, <1>10
  <2> QED BY <1>15, <1>19, <2>1, ZenonT(40) DEF Same, Fresh, Kind
<1>22. \A i \in 1..n : /\ s.log[i].key = r.log[i].key /\ s.log[i].start = r.log[i].start
                       /\ s.log[i].withdrew = r.log[i].withdrew /\ s.log[i].back = r.log[i].back
                       /\ s.log[i].gone = r.log[i].gone /\ (s.log[i].withdrawn <=> r.log[i].withdrawn \/ i = g)
                       /\ Kind(s.log[i]) = Kind(r.log[i]) /\ Kind(r.log[i]) \in Kinds
                       /\ (Stands(s.log[i]) <=> Stands(r.log[i]) /\ i # g)
  <2> TAKE i \in 1..n
  <2>1. i \in 1..(n + 1) /\ Same(u.log[i], r.log[i]) /\ Kind(r.log[i]) \in Kinds
    BY <1>2, <1>15, LogFields
  <2>2. /\ s.log[i].key = r.log[i].key /\ s.log[i].start = r.log[i].start
        /\ s.log[i].withdrew = r.log[i].withdrew /\ s.log[i].back = r.log[i].back
        /\ s.log[i].gone = r.log[i].gone /\ (s.log[i].withdrawn <=> r.log[i].withdrawn \/ i = g)
    BY <1>19, <2>1, Zenon DEF Same
  <2> QED BY <2>1, <2>2 DEF Kind, Stands
<1>23. Withdrew(r, s, g, k, start)
  <2>1. Same(x, Fresh(k, start, g))
    <3>1. x \in Recs BY <1>2, <1>17, <1>18, ElementOfSeq
    <3> HIDE DEF x
    <3> QED BY <1>21, <3>1, Zenon DEF Same, Fresh, Recs
  <2> QED BY <1>2, <1>4, <1>17, <1>20, <1>22, <2>1 DEF Withdrew
<1>24. Holds(s, T \ {g})
  <2>1. \A i \in T \ {g} : i \in 1..(n + 1)
    BY <1>14, <1>15 DEF Holds
  <2>2. \A i \in DOMAIN s.log : s.log[i].linked <=> i \in T \ {g}
    <3>1. \A i \in 1..(n + 1) : u.log[i].linked <=> i \in T \ {g}
      BY <1>14, <1>15 DEF Holds
    <3> QED BY <1>17, <1>19, <3>1
  <2>3. \A i \in T \ {g} : s.log[i].key = u.log[i].key
    BY <1>19, <2>1
  <2>4. \A i, j \in T \ {g} : u.log[i].key = u.log[j].key /\ S_precedes(s.log[j], s.log[i]) => S_precedes(u.log[j], u.log[i])
    BY <1>19, <2>1 DEF S_precedes
  <2>5. T \ {g} \subseteq DOMAIN s.log /\ s.index = u.index
    BY <1>17, <2>1
  <2> DEFINE V == T \ {g}
  <2> HIDE DEF V
  <2>6. /\ V \subseteq DOMAIN s.log /\ \A i \in V : s.log[i].key = u.log[i].key
        /\ \A i \in DOMAIN s.log : s.log[i].linked <=> i \in V
        /\ \A i, j \in V : u.log[i].key = u.log[j].key /\ S_precedes(s.log[j], s.log[i]) => S_precedes(u.log[j], u.log[i])
        /\ Holds(u, V)
    BY <1>14, <2>2, <2>3, <2>4, <2>5 DEF V
  <2>7. Holds(s, V) BY <1>14, <1>18, <2>5, <2>6, HoldsStill
  <2> QED BY <2>7 DEF V
<1>25. Taken(s) = T \ {g}
  <2>1. T = {i \in 1..n : i <= q.cursor[Kind(q.log[i])] /\ Stands(q.log[i])}
    BY <1>6 DEF T, Taken
  <2>2. Taken(s) = {i \in 1..(n + 1) : i <= s.cursor[Kind(s.log[i])] /\ Stands(s.log[i])}
    BY <1>17 DEF Taken
  <2>3. ~Stands(s.log[n + 1])
    <3>1. x.withdrew # 0 BY <1>10, <1>21
    <3> QED BY <3>1 DEF Stands
  <2>4. \A i \in 1..(n + 1) : i \in 1..n \/ i = n + 1
    BY <1>2
  <2>5. ASSUME NEW i \in 1..n
        PROVE  i <= s.cursor[Kind(s.log[i])] /\ Stands(s.log[i]) <=> i \in T /\ i # g
    <3>1. Kind(q.log[i]) = Kind(r.log[i]) /\ (Stands(q.log[i]) <=> Stands(r.log[i]))
      BY <1>7 DEF Same, Kind
    <3>2. i <= s.cursor[Kind(r.log[i])] <=> i <= q.cursor[Kind(r.log[i])]
      BY <1>2, <1>8, <1>20, <1>22
    <3> QED BY <1>22, <2>1, <3>1, <3>2
  <2>6. T \subseteq 1..n /\ \A i \in 1..n : i \in 1..(n + 1)
    BY <1>2, <2>1
  <2> HIDE DEF n
  <2> QED BY <2>2, <2>3, <2>4, <2>5, <2>6, Zenon
<1>26. \A e \in Kinds : s.indexed[e] = Cardinality(UpToCursor(s, e))
  <2> TAKE e \in Kinds
  <2>1. q.indexed[e] = Cardinality(UpToCursor(q, e))
    BY <1>3 DEF Indexed
  <2>2. UpToCursor(q, e) = {i \in 1..n : i <= q.cursor[e] /\ Kind(r.log[i]) = e}
    BY <1>6, <1>7 DEF UpToCursor, Same, Kind
  <2>3. UpToCursor(s, e) = {i \in 1..(n + 1) : i <= s.cursor[e] /\ Kind(s.log[i]) = e}
    BY <1>17 DEF UpToCursor
  <2>4. \A i \in 1..(n + 1) : i \in 1..n \/ i = n + 1
    BY <1>2
  <2>5. CASE e = d
    <3>1. UpToCursor(s, e) = UpToCursor(q, e) \cup {n + 1}
      <4>1. n + 1 \in 1..(n + 1) /\ \A i \in 1..n : i \in 1..(n + 1) /\ i <= n /\ i <= n + 1
        BY <1>2
      <4> QED BY <1>2, <1>8, <1>20, <1>21, <1>22, <2>2, <2>3, <2>4, <2>5, <4>1
    <3>2. n + 1 \notin UpToCursor(q, e) BY <1>2, <2>2
    <3>3. IsFiniteSet(UpToCursor(q, e))
      <4>1. UpToCursor(q, e) \subseteq 1..n BY <2>2
      <4>2. IsFiniteSet(1..n) BY <1>2, FS_Interval
      <4> QED BY <4>1, <4>2, FS_Subset
    <3>4. Cardinality(UpToCursor(q, e) \cup {n + 1}) = Cardinality(UpToCursor(q, e)) + 1
      BY <3>2, <3>3, FS_AddElement, Zenon
    <3> QED BY <1>20, <2>1, <2>5, <3>1, <3>4
  <2>6. CASE e # d
    <3>1. UpToCursor(s, e) = UpToCursor(q, e)
      <4>1. \A i \in 1..n : i \in 1..(n + 1) BY <1>2
      <4> HIDE DEF n
      <4> QED BY <1>8, <1>20, <1>21, <1>22, <2>2, <2>3, <2>4, <2>6, <4>1
    <3> QED BY <1>20, <2>1, <2>6, <3>1
  <2> QED BY <2>5, <2>6
<1>27. Indexed(s) BY <1>24, <1>25, <1>26 DEF Indexed
<1>28. Settled(s) BY <1>1, <1>2, <1>17, <1>20 DEF Settled
<1>29. Placed(s)
  <2>1. \A e \in Kinds : s.front[e] = << >> /\ s.back[e] = << >>
    BY <1>1, <1>17 DEF Placed
  <2>2. \A i \in DOMAIN s.log : ~s.log[i].back /\ ~s.log[i].gone
    <3> TAKE i \in DOMAIN s.log
    <3>1. i \in 1..n \/ i = n + 1 BY <1>2, <1>17
    <3>2. i \in 1..n => ~r.log[i].back /\ ~r.log[i].gone
      BY <1>1, <1>2 DEF Placed
    <3> QED BY <1>21, <1>22, <3>1, <3>2
  <2> QED BY <1>17, <2>1, <2>2 DEF Placed
<1>30. Divided(s) BY <1>17, <1>29 DEF Divided, Placed, Backs
<1>31. Paired(s)
  <2>1. \A i \in 1..(n + 1) : i \in 1..n \/ i = n + 1
    BY <1>2
  <2>2. \A i \in 1..n : r.log[i].withdrew \in Nat /\ r.log[i].withdrew # g
    <3> TAKE i \in 1..n
    <3>1. r.log[i].withdrew \in Nat BY <1>2, LogFields
    <3>2. ASSUME r.log[i].withdrew = g PROVE FALSE
      <4>1. r.log[g].withdrawn
        BY <1>1, <1>2, <1>10, <3>2 DEF Paired
      <4> QED BY <1>4, <4>1 DEF Stands
    <3> QED BY <3>1, <3>2
  <2>3. ASSUME NEW i \in DOMAIN s.log, s.log[i].withdrew # 0
        PROVE  LET w == s.log[i].withdrew
               IN /\ w < i /\ s.log[w].key = s.log[i].key /\ s.log[w].withdrew = 0
                  /\ s.log[w].withdrawn /\ i <= s.cursor[Kind(s.log[i])]
    <3>1. CASE i = n + 1
      <4>1. s.log[i].withdrew = g /\ g < i /\ s.log[i].key = k /\ Kind(s.log[i]) = d
        BY <1>2, <1>10, <1>21, <3>1
      <4>2. r.log[g].withdrew = 0 BY <1>4 DEF Stands
      <4>3. s.log[g].key = k /\ s.log[g].withdrew = 0 /\ s.log[g].withdrawn
        BY <1>4, <1>10, <1>22, <4>2
      <4>4. i <= s.cursor[d] BY <1>2, <1>20, <3>1
      <4> QED BY <4>1, <4>3, <4>4
    <3>2. CASE i \in 1..n
      <4> DEFINE w == r.log[i].withdrew
      <4>1. s.log[i].withdrew = w /\ w # 0 /\ w \in Nat
        BY <1>22, <2>2, <2>3, <3>2
      <4>2. w < i /\ r.log[w].key = r.log[i].key /\ r.log[w].withdrew = 0 /\ r.log[w].withdrawn /\ i <= r.cursor[Kind(r.log[i])]
        BY <1>1, <1>2, <3>2, <4>1 DEF Paired
      <4>3. w \in 1..n BY <1>2, <3>2, <4>1, <4>2
      <4>4. i <= s.cursor[Kind(s.log[i])]
        <5>1. Kind(s.log[i]) = Kind(r.log[i]) /\ Kind(r.log[i]) \in Kinds /\ i <= r.cursor[Kind(r.log[i])] /\ i <= n + 1
          BY <1>2, <1>22, <3>2, <4>2
        <5>2. CASE Kind(r.log[i]) = d BY <1>20, <5>1, <5>2
        <5>3. CASE Kind(r.log[i]) # d BY <1>20, <5>1, <5>3
        <5> QED BY <5>2, <5>3
      <4> HIDE DEF w
      <4> QED BY <1>22, <3>2, <4>1, <4>2, <4>3, <4>4
    <3> QED BY <1>17, <2>1, <2>3, <3>1, <3>2
  <2>4. ASSUME NEW i \in DOMAIN s.log, NEW j \in DOMAIN s.log, s.log[i].withdrew # 0, s.log[i].withdrew = s.log[j].withdrew
        PROVE  i = j
    <3>1. (i \in 1..n \/ i = n + 1) /\ (j \in 1..n \/ j = n + 1)
      BY <1>17, <2>1
    <3>2. CASE i \in 1..n /\ j \in 1..n
      BY <1>1, <1>2, <1>22, <2>4, <3>2 DEF Paired
    <3>3. CASE ~(i \in 1..n /\ j \in 1..n)
      BY <1>21, <1>22, <2>2, <2>4, <3>1, <3>3, SMTT(30)
    <3> QED BY <3>2, <3>3
  <2>5. ASSUME NEW w \in DOMAIN s.log, s.log[w].withdrawn PROVE \E i \in DOMAIN s.log : s.log[i].withdrew = w
    <3>1. w \in 1..n BY <1>17, <1>21, <2>1, <2>5
    <3>2. CASE w = g
      <4>1. n + 1 \in DOMAIN s.log BY <1>2, <1>17
      <4> QED BY <1>21, <3>2, <4>1
    <3>3. CASE w # g
      <4>1. PICK i \in 1..n : r.log[i].withdrew = w
        BY <1>1, <1>2, <1>22, <2>5, <3>1, <3>3, Zenon DEF Paired
      <4>2. i \in DOMAIN s.log BY <1>2, <1>17
      <4> QED BY <1>22, <4>1, <4>2
    <3> QED BY <3>2, <3>3
  <2> QED BY <2>3, <2>4, <2>5 DEF Paired
<1> QED BY <1>18, <1>23, <1>27, <1>28, <1>29, <1>30, <1>31 DEF Sound, s, g

-------------------------------------------------------------------------------
(* A rollback.                                                             *)

\* A sequence without its last member.
LEMMA LastLess ==
  ASSUME NEW S, NEW log \in Seq(S), Len(log) # 0
  PROVE  LET new == Front(log)
         IN /\ new \in Seq(S) /\ Len(new) = Len(log) - 1 /\ Len(log) \in Nat /\ Len(log) - 1 \in Nat
            /\ DOMAIN new = 1..(Len(log) - 1)
            /\ \A i \in 1..(Len(log) - 1) : new[i] = log[i] /\ i \in DOMAIN log
<1> DEFINE new == Front(log)
           m == Len(log) - 1
<1>1. Len(log) \in Nat /\ m \in Nat /\ DOMAIN log = 1..Len(log)
  OBVIOUS
<1>2. new = SubSeq(log, 1, m) BY DEF Front
<1>3. new \in Seq(S) /\ Len(new) = m /\ \A i \in 1..m : new[i] = log[i]
  BY <1>1, <1>2
<1>4. DOMAIN new = 1..m /\ \A i \in 1..m : i \in DOMAIN log
  BY <1>1, <1>3
<1> QED BY <1>1, <1>3, <1>4

\* The index holds what it did when the last record, none of them, is let go.
LEMMA ShortHolds ==
  ASSUME NEW r \in Rosters, NEW s \in Rosters, NEW T, Holds(r, T), Len(r.log) # 0, Len(r.log) \notin T,
         s.log = Front(r.log), s.index = r.index
  PROVE  Holds(s, T)
<1> DEFINE n == Len(r.log)
<1>1. r.log \in Seq(Recs) /\ DOMAIN r.log = 1..n /\ n \in Nat
  BY RosterFields
<1>2. /\ Len(s.log) = n - 1 /\ n - 1 \in Nat /\ DOMAIN s.log = 1..(n - 1)
      /\ \A i \in 1..(n - 1) : s.log[i] = r.log[i] /\ i \in DOMAIN r.log
  BY <1>1, LastLess
<1>3. T \subseteq 1..(n - 1)
  <2>1. T \subseteq 1..n /\ n \notin T BY <1>1 DEF Holds
  <2>2. \A i \in 1..n : i # n => i \in 1..(n - 1) BY <1>1
  <2> HIDE DEF n
  <2> QED BY <2>1, <2>2
<1>4. \A i \in DOMAIN s.log : s.log[i].linked <=> i \in T
  BY <1>2 DEF Holds
<1>5. \A i \in T : s.log[i] = r.log[i] BY <1>2, <1>3
<1>6. \A i, j \in T : r.log[i].key = r.log[j].key /\ S_precedes(s.log[j], s.log[i]) => S_precedes(r.log[j], r.log[i])
  BY <1>5
<1>7. T \subseteq DOMAIN s.log BY <1>2, <1>3
<1>8. \A i \in T : s.log[i].key = r.log[i].key BY <1>5
<1> QED BY <1>4, <1>6, <1>7, <1>8, HoldsStill

\* A roster whose last record is undone, and not yet popped.
LastUndone(r) ==
  LET i == Len(r.log)
      x == r.log[i]
      d == KindOf[x.key]
      counted == [r EXCEPT !.indexed[d] = IF i <= r.cursor[d] THEN @ - 1 ELSE @]
  IN IF x.withdrew # 0 THEN S_link([counted EXCEPT !.log[x.withdrew].withdrawn = FALSE], x.withdrew)
     ELSE IF x.linked THEN S_unlink(counted, i)
     ELSE counted

\* The records the index holds once it is.
Retaken(r) ==
  LET i == Len(r.log)
      w == r.log[i].withdrew
  IN IF w # 0 THEN Taken(r) \cup {w} ELSE Taken(r) \ {i}

\* All but the withdrawal the record withdrew is as it was.
LikeBut(r, s, w) ==
  /\ DOMAIN s.log = DOMAIN r.log /\ Len(s.log) = Len(r.log)
  /\ \A i \in DOMAIN r.log : /\ s.log[i].key = r.log[i].key /\ s.log[i].start = r.log[i].start
                             /\ s.log[i].withdrew = r.log[i].withdrew /\ s.log[i].back = r.log[i].back
                             /\ s.log[i].gone = r.log[i].gone /\ (s.log[i].withdrawn <=> r.log[i].withdrawn /\ i # w)
  /\ s.cursor = r.cursor /\ s.front = r.front /\ s.back = r.back /\ s.end = r.end /\ s.placed = r.placed
  /\ s.hidden = r.hidden /\ s.dead = r.dead /\ s.lost = r.lost

\* The index once the log's last record is undone: what it withdrew is back in its list, and it
\* is in none itself.
LEMMA LastUndoneHolds ==
  ASSUME NEW r, Sound(r), Len(r.log) # 0
  PROVE  LET s == LastUndone(r)
             i == Len(r.log)
             d == Kind(r.log[i])
         IN /\ s \in Rosters /\ Holds(s, Retaken(r)) /\ LikeBut(r, s, r.log[i].withdrew)
            /\ s.indexed = [r.indexed EXCEPT ![d] = IF i <= r.cursor[d] THEN r.indexed[d] - 1 ELSE r.indexed[d]]
<1> DEFINE n == Len(r.log)
           x == r.log[n]
           w == x.withdrew
           d == KindOf[x.key]
           indexed == [r.indexed EXCEPT ![d] = IF n <= r.cursor[d] THEN r.indexed[d] - 1 ELSE r.indexed[d]]
           q == [r EXCEPT !.indexed[d] = IF n <= r.cursor[d] THEN @ - 1 ELSE @]
           s == LastUndone(r)
           T == Taken(r)
<1>1. r \in Rosters /\ Holds(r, T) /\ Paired(r)
  BY DEF Sound, Indexed
<1>2. r.log \in Seq(Recs) /\ n \in Nat /\ DOMAIN r.log = 1..n /\ n \in 1..n /\ r.indexed \in [Kinds -> Int] /\ r.cursor \in [Kinds -> Nat]
  BY <1>1, RosterFields
<1>3. x \in Recs /\ d \in Kinds /\ w \in Nat /\ x.linked \in BOOLEAN
  BY <1>2, LogFields DEF Kind
<1> HIDE DEF n, x, d, T
<1>4. indexed \in [Kinds -> Int] BY <1>2, <1>3
<1>5. q = [r EXCEPT !.indexed = indexed] BY <1>1 DEF Rosters
<1> HIDE DEF indexed
<1>6. /\ q \in Rosters /\ q.log = r.log /\ q.index = r.index /\ q.indexed = indexed /\ q.cursor = r.cursor
      /\ q.front = r.front /\ q.back = r.back /\ q.end = r.end /\ q.placed = r.placed
      /\ q.hidden = r.hidden /\ q.dead = r.dead /\ q.lost = r.lost
  BY <1>1, <1>4, <1>5, Zenon DEF Rosters
<1>7. Holds(q, T) BY <1>1, <1>6, HoldsSame, Zenon
<1>8. s = IF w # 0 THEN S_link([q EXCEPT !.log[w].withdrawn = FALSE], w) ELSE IF x.linked THEN S_unlink(q, n) ELSE q
  BY DEF LastUndone, n, x, d
<1> HIDE DEF q, s
<1>9. ASSUME NEW t, Still(q, t), w = 0 PROVE LikeBut(r, t, w) /\ t.indexed = indexed
  <2>1. \A i \in DOMAIN r.log : /\ t.log[i].key = r.log[i].key /\ t.log[i].start = r.log[i].start
                               /\ t.log[i].withdrew = r.log[i].withdrew /\ t.log[i].back = r.log[i].back
                               /\ t.log[i].gone = r.log[i].gone /\ (t.log[i].withdrawn <=> r.log[i].withdrawn) /\ i # w
    BY <1>2, <1>6, <1>9 DEF Still, Alike, Same
  <2> QED BY <1>6, <1>9, <2>1 DEF Still, Alike, LikeBut
<1>10. CASE w # 0
  <2> DEFINE lg == [r.log EXCEPT ![w] = [r.log[w] EXCEPT !.withdrawn = FALSE]]
             t == [q EXCEPT !.log[w].withdrawn = FALSE]
  <2>1. w < n /\ r.log[w].withdrawn /\ w \in 1..n
    BY <1>1, <1>2, <1>3, <1>10, SMTT(30) DEF Paired, x
  <2>2. w \in DOMAIN r.log /\ r.log[w] \in Recs /\ w \notin T
    BY <1>2, <2>1, LogFields DEF T, Taken, Stands
  <2>3. lg \in Seq(Recs) /\ DOMAIN lg = 1..n /\ Len(lg) = n
    <3>1. [r.log[w] EXCEPT !.withdrawn = FALSE] \in Recs
      BY <2>2, Zenon DEF Recs
    <3> QED BY <1>2, <2>2, <3>1
  <2>4. \A i \in 1..n : /\ lg[i].key = r.log[i].key /\ lg[i].start = r.log[i].start
                        /\ lg[i].withdrew = r.log[i].withdrew /\ lg[i].back = r.log[i].back
                        /\ lg[i].gone = r.log[i].gone /\ lg[i].linked = r.log[i].linked
                        /\ (lg[i].withdrawn <=> r.log[i].withdrawn /\ i # w)
    <3> TAKE i \in 1..n
    <3>1. r.log[i] \in Recs BY <1>2, LogFields
    <3>2. lg[i] = IF i = w THEN [r.log[w] EXCEPT !.withdrawn = FALSE] ELSE r.log[i]
      BY <1>2
    <3> QED BY <2>2, <3>1, <3>2 DEF Recs
  <2>5. t = [q EXCEPT !.log = lg] BY <1>6 DEF Rosters
  <2> HIDE DEF lg
  <2>6. /\ t \in Rosters /\ t.log = lg /\ t.index = q.index /\ t.indexed = q.indexed /\ t.cursor = q.cursor
        /\ t.front = q.front /\ t.back = q.back /\ t.end = q.end /\ t.placed = q.placed
        /\ t.hidden = q.hidden /\ t.dead = q.dead /\ t.lost = q.lost
    BY <1>6, <2>3, <2>5, Zenon DEF Rosters
  <2> HIDE DEF t
  <2>7. Holds(t, T)
    <3>1. T \subseteq DOMAIN t.log /\ t.index = q.index
      BY <1>1, <1>2, <2>3, <2>6 DEF Holds
    <3>2. \A i \in T : t.log[i].key = q.log[i].key
      BY <1>6, <2>3, <2>4, <2>6, <3>1
    <3>3. \A i \in DOMAIN t.log : t.log[i].linked <=> i \in T
      <4>1. \A i \in 1..n : r.log[i].linked <=> i \in T
        BY <1>1, <1>2 DEF Holds
      <4> QED BY <2>3, <2>4, <2>6, <4>1
    <3>4. \A i, j \in T : q.log[i].key = q.log[j].key /\ S_precedes(t.log[j], t.log[i]) => S_precedes(q.log[j], q.log[i])
      BY <1>6, <2>3, <2>4, <2>6, <3>1 DEF S_precedes
    <3> QED BY <1>6, <1>7, <2>6, <3>1, <3>2, <3>3, <3>4, HoldsStill
  <2>8. s \in Rosters /\ Still(t, s) /\ Holds(s, T \cup {w})
    <3>1. s = S_link(t, w) /\ w \in DOMAIN t.log
      BY <1>8, <1>10, <2>1, <2>3, <2>6 DEF t
    <3> QED BY <2>2, <2>6, <2>7, <3>1, LinkHolds
  <2>9. LikeBut(r, s, w) /\ s.indexed = indexed
    <3>1. \A i \in DOMAIN r.log : /\ s.log[i].key = r.log[i].key /\ s.log[i].start = r.log[i].start
                                 /\ s.log[i].withdrew = r.log[i].withdrew /\ s.log[i].back = r.log[i].back
                                 /\ s.log[i].gone = r.log[i].gone /\ (s.log[i].withdrawn <=> r.log[i].withdrawn /\ i # w)
      <4>1. \A i \in 1..n : Same(s.log[i], lg[i])
        BY <2>3, <2>6, <2>8 DEF Still, Alike
      <4> QED BY <1>2, <2>4, <4>1 DEF Same
    <3>2. DOMAIN s.log = DOMAIN r.log /\ Len(s.log) = Len(r.log)
      BY <1>2, <2>3, <2>6, <2>8 DEF Still, Alike, n
    <3> QED BY <1>6, <2>6, <2>8, <3>1, <3>2 DEF Still, Alike, LikeBut
  <2>10. Retaken(r) = T \cup {w}
    BY <1>10 DEF Retaken, n, x, T
  <2> QED BY <2>8, <2>9, <2>10 DEF n, x, s, indexed, d, Kind
<1>11. CASE w = 0 /\ x.linked
  <2>1. n \in T BY <1>1, <1>2, <1>11 DEF Holds, x
  <2>2. s \in Rosters /\ Still(q, s) /\ Holds(s, T \ {n})
    BY <1>6, <1>7, <1>8, <1>11, <2>1, UnlinkHolds
  <2>3. LikeBut(r, s, w) /\ s.indexed = indexed
    BY <1>9, <1>11, <2>2
  <2>4. Retaken(r) = T \ {n} BY <1>11 DEF Retaken, n, x, T
  <2> QED BY <2>2, <2>3, <2>4 DEF n, x, s, indexed, d, Kind
<1>12. CASE w = 0 /\ ~x.linked
  <2>1. n \notin T BY <1>1, <1>2, <1>12 DEF Holds, x
  <2>2. s = q BY <1>8, <1>12
  <2>3. Still(q, q) BY DEF Still, Alike, Same
  <2>4. LikeBut(r, s, w) /\ s.indexed = indexed
    BY <1>9, <1>12, <2>2, <2>3
  <2>5. Retaken(r) = T BY <1>12, <2>1 DEF Retaken, n, x, T
  <2> QED BY <1>6, <1>7, <2>2, <2>4, <2>5 DEF n, x, s, indexed, d, Kind
<1> QED BY <1>3, <1>10, <1>11, <1>12

\* A roster whose last records were popped.
Shorter(r, s) ==
  /\ Len(s.log) <= Len(r.log)
  /\ \A i \in DOMAIN s.log : /\ s.log[i].key = r.log[i].key /\ s.log[i].start = r.log[i].start
                             /\ s.log[i].withdrew = r.log[i].withdrew /\ s.log[i].back = r.log[i].back
                             /\ s.log[i].gone = r.log[i].gone /\ (s.log[i].withdrawn => r.log[i].withdrawn)
  /\ s.cursor = r.cursor /\ s.back = r.back /\ s.end = r.end /\ s.placed = r.placed
  /\ s.hidden = r.hidden /\ s.dead = r.dead /\ s.lost = r.lost

\* One turn of a rollback keeps a roster sound, of a record made since the mark.
LEMMA PoppedSound ==
  ASSUME NEW r, Sound(r), NEW c \in Nat, Len(r.log) > c, Since(r, c)
  PROVE  LET s == Popped(r) IN Sound(s) /\ Shorter(r, s) /\ Len(s.log) = Len(r.log) - 1 /\ Since(s, c)
<1> DEFINE n == Len(r.log)
           x == r.log[n]
           w == x.withdrew
           d == Kind(x)
           t == LastUndone(r)
           s == Popped(r)
           unplaced == r.placed /\ w = 0
           front == IF unplaced THEN [r.front EXCEPT ![d] = Unplaced(r.front[d], n)] ELSE r.front
           U == Retaken(r)
<1>1. r \in Rosters /\ Indexed(r) /\ Paired(r) /\ Placed(r) /\ Divided(r)
  BY DEF Sound
<1>2. /\ r.log \in Seq(Recs) /\ n \in Nat /\ DOMAIN r.log = 1..n /\ n \in 1..n /\ n # 0
      /\ r.indexed \in [Kinds -> Int] /\ r.cursor \in [Kinds -> Nat]
      /\ r.front \in [Kinds -> Seq(Entries)] /\ r.back \in [Kinds -> Seq(Entries)]
  BY <1>1, RosterFields
<1>3. x \in Recs /\ d \in Kinds /\ w \in Nat /\ ~x.gone /\ ~x.back /\ (r.placed => w = 0)
  BY <1>2, LogFields DEF Since
<1>4. w = 0 => Stands(x)
  <2>1. ~\E i \in DOMAIN r.log : r.log[i].withdrew = n
    <3> SUFFICES ASSUME NEW i \in 1..n, r.log[i].withdrew = n PROVE FALSE
      BY <1>2
    <3>0. i \in DOMAIN r.log /\ n # 0 BY <1>2
    <3> HIDE DEF n
    <3>1. n < i BY <1>1, <3>0 DEF Paired
    <3> QED BY <1>2, <3>1
  <2> QED BY <1>1, <1>2, <1>3, <2>1, Zenon DEF Paired, Stands
<1>5. w # 0 => /\ w \in 1..(n - 1) /\ r.log[w].key = x.key /\ Kind(r.log[w]) = d /\ r.log[w].withdrew = 0 /\ ~r.log[w].gone
               /\ n <= r.cursor[d] /\ ~r.placed
  <2> SUFFICES ASSUME w # 0
               PROVE  /\ w \in 1..(n - 1) /\ r.log[w].key = x.key /\ Kind(r.log[w]) = d /\ r.log[w].withdrew = 0 /\ ~r.log[w].gone
                      /\ n <= r.cursor[d] /\ ~r.placed
    OBVIOUS
  <2>1. w < n /\ r.log[w].key = x.key /\ r.log[w].withdrew = 0 /\ n <= r.cursor[d]
    BY <1>1, <1>2, Zenon DEF Paired
  <2>2. w \in 1..(n - 1) /\ w \in 1..n BY <1>2, <1>3, <2>1
  <2>3. ~r.log[w].gone
    BY <1>1, <1>2, <1>3, <2>2, Zenon DEF Placed
  <2> QED BY <1>3, <2>1, <2>2, <2>3 DEF Kind
<1>6. /\ t \in Rosters /\ Holds(t, U) /\ LikeBut(r, t, w)
      /\ t.indexed = [r.indexed EXCEPT ![d] = IF n <= r.cursor[d] THEN r.indexed[d] - 1 ELSE r.indexed[d]]
  BY <1>2, LastUndoneHolds
<1>7. s = [(IF unplaced THEN [t EXCEPT !.front[d] = Unplaced(@, n)] ELSE t) EXCEPT !.log = Front(@)]
  BY DEF Popped, LastUndone, Kind
<1> HIDE DEF t, U
<1>8. /\ DOMAIN t.log = 1..n /\ Len(t.log) = n /\ t.cursor = r.cursor /\ t.front = r.front /\ t.back = r.back
      /\ t.end = r.end /\ t.placed = r.placed /\ t.hidden = r.hidden /\ t.dead = r.dead /\ t.lost = r.lost
      /\ t.log \in Seq(Recs)
  BY <1>2, <1>6, RosterFields DEF LikeBut
<1>9. unplaced => /\ Unplaced(r.front[d], n) \in Seq(Entries)
                  /\ Sits(r.log, Fronts(r.log, d) \ {n}, Unplaced(r.front[d], n))
  <2> SUFFICES ASSUME unplaced
               PROVE  /\ Unplaced(r.front[d], n) \in Seq(Entries)
                      /\ Sits(r.log, Fronts(r.log, d) \ {n}, Unplaced(r.front[d], n))
    OBVIOUS
  <2> DEFINE S == Fronts(r.log, d)
             f == r.front[d]
  <2>1. Sits(r.log, S, f) /\ f \in Seq(Entries)
    BY <1>1, <1>2, <1>3 DEF Placed
  <2>2. n \in S BY <1>2, <1>3, <1>4 DEF Fronts
  <2> HIDE DEF S, f, n
  <2>3. Unplaced(f, n) \in Seq(Entries) /\ Sits(r.log, S \ {n}, Unplaced(f, n))
    BY <2>1, <2>2, UnplacedSits
  <2> QED BY <2>3 DEF S, f
<1>10. front \in [Kinds -> Seq(Entries)] /\ front[d] = (IF unplaced THEN Unplaced(r.front[d], n) ELSE r.front[d])
       /\ \A e \in Kinds : e # d => front[e] = r.front[e]
  <2> HIDE DEF d, n
  <2> QED BY <1>2, <1>3, <1>9
<1> HIDE DEF front
<1> DEFINE lg == Front(t.log)
<1>11. /\ lg \in Seq(Recs) /\ Len(lg) = n - 1 /\ n - 1 \in Nat /\ DOMAIN lg = 1..(n - 1)
       /\ \A i \in 1..(n - 1) : lg[i] = t.log[i] /\ i \in 1..n
  BY <1>2, <1>8, LastLess
<1> HIDE DEF lg
<1>12. s = [t EXCEPT !.front = front, !.log = lg]
  <2> HIDE DEF d, n
  <2>1. CASE unplaced
    BY <1>6, <1>7, <1>8, <2>1 DEF Rosters, front, lg
  <2>2. CASE ~unplaced
    BY <1>6, <1>7, <1>8, <2>2, ZenonT(40) DEF Rosters, front, lg
  <2> QED BY <2>1, <2>2
<1> HIDE DEF s
<1>13. /\ s \in Rosters /\ s.log = lg /\ s.index = t.index /\ s.indexed = t.indexed /\ s.cursor = r.cursor
       /\ s.front = front /\ s.back = r.back /\ s.end = r.end /\ s.placed = r.placed
       /\ s.hidden = r.hidden /\ s.dead = r.dead /\ s.lost = r.lost
  <2> HIDE DEF n, unplaced
  <2> QED BY <1>6, <1>8, <1>10, <1>11, <1>12, Zenon DEF Rosters
<1>26. DOMAIN s.log = 1..(n - 1) BY <1>11, <1>13
<1>14. \A i \in 1..(n - 1) : /\ s.log[i].key = r.log[i].key /\ s.log[i].start = r.log[i].start
                             /\ s.log[i].withdrew = r.log[i].withdrew /\ s.log[i].back = r.log[i].back
                             /\ s.log[i].gone = r.log[i].gone /\ (s.log[i].withdrawn <=> r.log[i].withdrawn /\ i # w)
                             /\ Kind(s.log[i]) = Kind(r.log[i]) /\ i # n /\ r.log[i].withdrew \in Nat
                             /\ (Stands(s.log[i]) <=> Stands(r.log[i]) \/ (i = w /\ w # 0))
  <2> TAKE i \in 1..(n - 1)
  <2>1. i \in DOMAIN r.log /\ s.log[i] = t.log[i] /\ i # n /\ i # 0
    BY <1>2, <1>11, <1>13, SMTT(30)
  <2>2. /\ s.log[i].key = r.log[i].key /\ s.log[i].start = r.log[i].start
        /\ s.log[i].withdrew = r.log[i].withdrew /\ s.log[i].back = r.log[i].back
        /\ s.log[i].gone = r.log[i].gone /\ (s.log[i].withdrawn <=> r.log[i].withdrawn /\ i # w)
    BY <1>6, <2>1 DEF LikeBut
  <2>3. r.log[i].withdrew \in Nat BY <1>2, <2>1, LogFields
  <2>4. Stands(s.log[i]) <=> Stands(r.log[i]) \/ (i = w /\ w # 0)
    <3> HIDE DEF w
    <3>1. CASE i = w
      <4>1. r.log[i].withdrew = 0 /\ ~r.log[i].gone
        BY <1>5, <2>1, <3>1
      <4> QED BY <2>1, <2>2, <3>1, <4>1 DEF Stands
    <3>2. CASE i # w BY <2>2, <3>2 DEF Stands
    <3> QED BY <3>1, <3>2
  <2> QED BY <2>1, <2>2, <2>3, <2>4 DEF Kind
<1>15. n \notin U
  <2>1. CASE w # 0
    <3>1. ~Stands(x) BY <2>1 DEF Stands
    <3> QED BY <1>2, <1>5, <2>1, <3>1 DEF U, Retaken, Taken
  <2>2. CASE w = 0 BY <2>2 DEF U, Retaken
  <2> QED BY <2>1, <2>2
<1>16. Holds(s, U)
  BY <1>2, <1>6, <1>8, <1>13, <1>15, ShortHolds DEF lg
<1>17. Taken(s) = U
  <2>1. Taken(s) = {i \in 1..(n - 1) : i <= r.cursor[Kind(r.log[i])] /\ Stands(s.log[i])}
    <3> HIDE DEF n, w, d, x, unplaced
    <3> QED BY <1>26, <1>13, <1>14 DEF Taken
  <2>2. Taken(r) = {i \in 1..n : i <= r.cursor[Kind(r.log[i])] /\ Stands(r.log[i])}
    BY <1>2 DEF Taken
  <2>3. \A i \in 1..n : i \in 1..(n - 1) \/ i = n BY <1>2
  <2>4. \A i \in 1..(n - 1) : i \in 1..n BY <1>2
  <2>5. CASE w = 0
    <3>1. U = Taken(r) \ {n} BY <2>5 DEF U, Retaken
    <3> HIDE DEF n, w
    <3> QED BY <1>14, <2>1, <2>2, <2>3, <2>4, <2>5, <3>1
  <2>6. CASE w # 0
    <3>1. U = Taken(r) \cup {w} BY <2>6 DEF U, Retaken
    <3>2. n \notin Taken(r) BY <1>15, <3>1
    <3>3. w <= r.cursor[Kind(r.log[w])] /\ w \in 1..(n - 1)
      BY <1>2, <1>3, <1>5, <2>6
    <3> HIDE DEF n, w
    <3> QED BY <1>14, <2>1, <2>2, <2>3, <2>4, <2>6, <3>1, <3>2, <3>3
  <2> QED BY <2>5, <2>6
<1>18. \A e \in Kinds : s.indexed[e] = Cardinality(UpToCursor(s, e))
  <2> TAKE e \in Kinds
  <2>1. r.indexed[e] = Cardinality(UpToCursor(r, e))
    BY <1>1 DEF Indexed
  <2>2. UpToCursor(r, e) = {i \in 1..n : i <= r.cursor[e] /\ Kind(r.log[i]) = e}
    BY <1>2 DEF UpToCursor
  <2>3. UpToCursor(s, e) = {i \in 1..(n - 1) : i <= r.cursor[e] /\ Kind(r.log[i]) = e}
    <3> HIDE DEF n, w, d, x, unplaced
    <3> QED BY <1>26, <1>13, <1>14 DEF UpToCursor
  <2>4. \A i \in 1..n : i \in 1..(n - 1) \/ i = n BY <1>2
  <2>5. \A i \in 1..(n - 1) : i \in 1..n /\ i # n BY <1>2
  <2>6. s.indexed[e] = IF e = d /\ n <= r.cursor[d] THEN r.indexed[e] - 1 ELSE r.indexed[e]
    <3> HIDE DEF d, n
    <3> QED BY <1>2, <1>3, <1>6, <1>13
  <2>7. CASE e = d /\ n <= r.cursor[d]
    <3>1. n \in UpToCursor(r, e) BY <1>2, <2>2, <2>7
    <3>2. UpToCursor(s, e) = UpToCursor(r, e) \ {n}
      <4> HIDE DEF n, d
      <4> QED BY <2>2, <2>3, <2>4, <2>5
    <3>3. IsFiniteSet(UpToCursor(r, e))
      <4>1. UpToCursor(r, e) \subseteq 1..n BY <2>2
      <4>2. IsFiniteSet(1..n) BY <1>2, FS_Interval
      <4> QED BY <4>1, <4>2, FS_Subset
    <3>4. Cardinality(UpToCursor(r, e) \ {n}) = Cardinality(UpToCursor(r, e)) - 1
      BY <3>1, <3>3, FS_RemoveElement, Zenon
    <3> QED BY <2>1, <2>6, <2>7, <3>2, <3>4
  <2>8. CASE ~(e = d /\ n <= r.cursor[d])
    <3>1. UpToCursor(s, e) = UpToCursor(r, e)
      <4>1. n \notin UpToCursor(r, e) BY <2>2, <2>8
      <4> HIDE DEF n, d
      <4> QED BY <2>2, <2>3, <2>4, <2>5, <4>1
    <3> QED BY <2>1, <2>6, <2>8, <3>1
  <2> QED BY <2>7, <2>8
<1>19. Indexed(s) BY <1>16, <1>17, <1>18 DEF Indexed
<1>20. Paired(s)
  <2>1. \A i \in 1..(n - 1) : i \in 1..n BY <1>2
  <2>2. ASSUME NEW i \in 1..(n - 1), r.log[i].withdrew # 0
        PROVE  /\ r.log[i].withdrew # w /\ r.log[i].withdrew < i /\ r.log[i].withdrew \in 1..(n - 1)
               /\ LET v == r.log[i].withdrew
                  IN /\ r.log[v].key = r.log[i].key /\ r.log[v].withdrew = 0
                     /\ r.log[v].withdrawn /\ i <= r.cursor[Kind(r.log[i])]
    <3> DEFINE v == r.log[i].withdrew
    <3>1. /\ v < i /\ r.log[v].key = r.log[i].key /\ r.log[v].withdrew = 0
          /\ r.log[v].withdrawn /\ i <= r.cursor[Kind(r.log[i])]
      BY <1>1, <1>2, <2>1, <2>2, Zenon DEF Paired
    <3>2. v \in Nat BY <1>14
    <3>3. v \in 1..(n - 1) BY <1>2, <2>2, <3>1, <3>2
    <3>4. v # w
      BY <1>1, <1>2, <1>14, <2>1, <2>2, Zenon DEF Paired
    <3> QED BY <3>1, <3>3, <3>4
  <2>3. ASSUME NEW i \in DOMAIN s.log, s.log[i].withdrew # 0
        PROVE  LET v == s.log[i].withdrew
               IN /\ v < i /\ s.log[v].key = s.log[i].key /\ s.log[v].withdrew = 0
                  /\ s.log[v].withdrawn /\ i <= s.cursor[Kind(s.log[i])]
    <3> DEFINE v == r.log[i].withdrew
    <3>1. i \in 1..(n - 1) /\ s.log[i].withdrew = v /\ v # 0
      BY <1>11, <1>13, <1>14, <2>3, SMTT(30)
    <3>2. /\ v # w /\ v < i /\ v \in 1..(n - 1)
          /\ r.log[v].key = r.log[i].key /\ r.log[v].withdrew = 0
          /\ r.log[v].withdrawn /\ i <= r.cursor[Kind(r.log[i])]
      BY <2>2, <3>1, Zenon
    <3> HIDE DEF v
    <3> QED BY <1>13, <1>14, <3>1, <3>2, Zenon
  <2>4. \A i, j \in DOMAIN s.log : s.log[i].withdrew # 0 /\ s.log[i].withdrew = s.log[j].withdrew => i = j
    <3> HIDE DEF n, w, d, x, unplaced
    <3> QED BY <1>1, <1>2, <1>26, <1>14, <2>1, SMTT(30) DEF Paired
  <2>5. ASSUME NEW v \in DOMAIN s.log, s.log[v].withdrawn PROVE \E i \in DOMAIN s.log : s.log[i].withdrew = v
    <3>1. v \in 1..(n - 1) /\ r.log[v].withdrawn /\ v # w /\ v \in 1..n
      BY <1>11, <1>13, <1>14, <2>1, <2>5, Zenon
    <3>2. PICK i \in 1..n : r.log[i].withdrew = v
      BY <1>1, <1>2, <3>1 DEF Paired
    <3>3. i \in 1..(n - 1) BY <1>2, <3>1, <3>2
    <3> QED BY <1>11, <1>13, <1>14, <3>2, <3>3, Zenon
  <2> QED BY <2>3, <2>4, <2>5 DEF Paired
<1>21. r.placed => \A e : /\ Fronts(s.log, e) = Fronts(r.log, e) \ {n} /\ Backs(s.log, e) = Backs(r.log, e)
                          /\ (e # d => n \notin Fronts(r.log, e))
  <2> SUFFICES ASSUME r.placed, NEW e
               PROVE  /\ Fronts(s.log, e) = Fronts(r.log, e) \ {n} /\ Backs(s.log, e) = Backs(r.log, e)
                      /\ (e # d => n \notin Fronts(r.log, e))
    OBVIOUS
  <2>1. w = 0 BY <1>3
  <2>2. \A i \in 1..n : i \in 1..(n - 1) \/ i = n BY <1>2
  <2>3. \A i \in 1..(n - 1) : i \in 1..n BY <1>2
  <2>4. Fronts(s.log, e) = {i \in 1..(n - 1) : Stands(r.log[i]) /\ Kind(r.log[i]) = e /\ ~r.log[i].back}
        /\ Backs(s.log, e) = {i \in 1..(n - 1) : Stands(r.log[i]) /\ Kind(r.log[i]) = e /\ r.log[i].back}
    <3> HIDE DEF n, w, d, x, unplaced
    <3> QED BY <1>26, <1>14, <2>1 DEF Fronts, Backs
  <2>5. Fronts(r.log, e) = {i \in 1..n : Stands(r.log[i]) /\ Kind(r.log[i]) = e /\ ~r.log[i].back}
        /\ Backs(r.log, e) = {i \in 1..n : Stands(r.log[i]) /\ Kind(r.log[i]) = e /\ r.log[i].back}
    BY <1>2 DEF Fronts, Backs
  <2>6. ~r.log[n].back BY <1>3
  <2>7. \A i \in 1..(n - 1) : i # n BY <1>14
  <2>8. e # d => n \notin Fronts(r.log, e) BY <2>5
  <2> HIDE DEF n
  <2>9. Fronts(s.log, e) = Fronts(r.log, e) \ {n}
    BY <2>2, <2>3, <2>4, <2>5, <2>7
  <2>10. Backs(s.log, e) = Backs(r.log, e)
    BY <2>2, <2>3, <2>4, <2>5, <2>6
  <2> QED BY <2>8, <2>9, <2>10
<1>22. Placed(s)
  <2>1. CASE r.placed
    <3>1. unplaced BY <1>3, <2>1
    <3>2. \A e : \A i \in Fronts(s.log, e) \cup Backs(s.log, e) : s.log[i].start = r.log[i].start
      BY <1>11, <1>13, <1>14, Zenon DEF Fronts, Backs
    <3>3. ASSUME NEW e \in Kinds PROVE Sits(s.log, Fronts(s.log, e), front[e])
      <4>1. Sits(r.log, Fronts(s.log, e), front[e])
        <5>1. CASE e = d
          BY <1>9, <1>10, <1>21, <2>1, <3>1, <5>1, Zenon
        <5>2. CASE e # d
          <6>1. Fronts(s.log, e) = Fronts(r.log, e) /\ front[e] = r.front[e]
            BY <1>10, <1>21, <2>1, <5>2, Zenon
          <6> QED BY <1>1, <2>1, <6>1 DEF Placed
        <5> QED BY <5>1, <5>2
      <4> QED BY <3>2, <4>1, SitsStill
    <3>4. ASSUME NEW e \in Kinds PROVE Sits(s.log, Backs(s.log, e), r.back[e])
      <4>1. Sits(r.log, Backs(s.log, e), r.back[e])
        BY <1>1, <1>21, <2>1 DEF Placed
      <4> QED BY <3>2, <4>1, SitsStill
    <3> QED BY <1>13, <2>1, <3>3, <3>4 DEF Placed
  <2>2. CASE ~r.placed
    <3>1. \A e \in Kinds : s.front[e] = << >> /\ s.back[e] = << >>
      BY <1>1, <1>13, <2>2 DEF Placed, front
    <3>2. \A i \in DOMAIN s.log : ~s.log[i].back /\ ~s.log[i].gone
      BY <1>1, <1>2, <1>11, <1>13, <1>14, <2>2, Zenon DEF Placed
    <3> QED BY <1>13, <2>2, <3>1, <3>2 DEF Placed
  <2> QED BY <2>1, <2>2
<1>23. Divided(s)
  <2>1. CASE r.placed
    <3> SUFFICES ASSUME ~s.hidden, NEW e \in Kinds, NEW i \in Fronts(s.log, e), NEW j \in Backs(s.log, e)
                 PROVE  s.log[i].start <= s.end[e] - s.log[j].start
      BY DEF Divided
    <3>1. i \in Fronts(r.log, e) /\ j \in Backs(r.log, e)
      BY <1>21, <2>1
    <3>2. s.log[i].start = r.log[i].start /\ s.log[j].start = r.log[j].start
      BY <1>11, <1>13, <1>14, Zenon DEF Fronts, Backs
    <3> QED BY <1>1, <1>13, <3>1, <3>2 DEF Divided
  <2>2. CASE ~r.placed
    BY <1>13, <1>22, <2>2 DEF Divided, Placed, Backs
  <2> QED BY <2>1, <2>2
<1>24. Shorter(r, s) /\ Len(s.log) = n - 1
  <2>1. n - 1 <= n BY <1>2
  <2> QED BY <1>11, <1>13, <1>14, <2>1, Zenon DEF Shorter
<1>25. Since(s, c)
  <2>1. \A i \in 1..(n - 1) : i \in 1..n BY <1>2
  <2> QED
    <3> HIDE DEF n, w, d, x, unplaced
    <3> QED BY <1>2, <1>26, <1>13, <1>14, <2>1 DEF Since
<1> QED BY <1>13, <1>19, <1>20, <1>22, <1>23, <1>24, <1>25 DEF Sound, s

\* What turns of a rollback leave as it was, one after another.
LEMMA ShorterOn ==
  ASSUME NEW r \in Rosters, NEW s \in Rosters, NEW t \in Rosters, Shorter(r, s), Shorter(s, t)
  PROVE  Shorter(r, r) /\ Shorter(r, t)
<1>1. /\ Len(r.log) \in Nat /\ Len(s.log) \in Nat /\ Len(t.log) \in Nat
      /\ DOMAIN s.log = 1..Len(s.log) /\ DOMAIN t.log = 1..Len(t.log)
  BY RosterFields
<1>2. Len(t.log) <= Len(r.log) /\ \A i \in DOMAIN t.log : i \in DOMAIN s.log
  BY <1>1 DEF Shorter
<1> QED BY <1>1, <1>2 DEF Shorter

\* The log's last records popped down to the first c.
LEMMA UndoneSound ==
  ASSUME NEW r, Sound(r), NEW c \in Nat, c <= Len(r.log), Since(r, c)
  PROVE  LET s == Undone(r, Len(r.log) - c) IN Sound(s) /\ Shorter(r, s) /\ Len(s.log) = c /\ Since(s, c)
<1> DEFINE n == Len(r.log) - c
           F == [i \in 1..n |-> [q \in Rosters |-> Popped(q)]]
           G == [i \in 0..n |-> {q \in Rosters : Sound(q) /\ Shorter(r, q) /\ Len(q.log) = Len(r.log) - i /\ Since(q, c)}]
           Eq(f) == f = [i \in 0..n |-> IF i = 0 THEN r ELSE Popped(f[i - 1])]
<1>1. n \in Nat /\ r \in Rosters /\ Len(r.log) \in Nat
  BY RosterFields DEF Sound
<1>2. G \in [0..n -> SUBSET Rosters] /\ r \in G[0]
  <2>1. Shorter(r, r) BY <1>1 DEF Shorter
  <2>2. 0 \in 0..n BY <1>1
  <2>3. Len(r.log) = Len(r.log) - 0 BY <1>1
  <2> HIDE DEF n
  <2>4. G \in [0..n -> SUBSET Rosters] OBVIOUS
  <2>5. G[0] = {q \in Rosters : Sound(q) /\ Shorter(r, q) /\ Len(q.log) = Len(r.log) - 0 /\ Since(q, c)}
    BY <2>2
  <2> QED BY <1>1, <2>1, <2>3, <2>4, <2>5
<1>3. ASSUME NEW i \in 1..n, NEW q \in G[i - 1] PROVE F[i][q] \in G[i]
  <2>1. i - 1 \in 0..n /\ i \in 0..n BY <1>1
  <2>2. q \in Rosters /\ Sound(q) /\ Shorter(r, q) /\ Len(q.log) = Len(r.log) - (i - 1) /\ Since(q, c)
    BY <2>1, Zenon
  <2>3. Len(q.log) > c /\ Len(q.log) - 1 = Len(r.log) - i
    BY <1>1, <2>2
  <2>4. F[i][q] = Popped(q) BY <2>2
  <2> HIDE DEF F, n
  <2>5. /\ Sound(F[i][q]) /\ Shorter(q, F[i][q]) /\ Len(F[i][q].log) = Len(q.log) - 1 /\ Since(F[i][q], c)
    BY <2>2, <2>3, <2>4, PoppedSound, Zenon
  <2>6. F[i][q] \in Rosters BY <2>5 DEF Sound
  <2>7. Shorter(r, F[i][q])
    BY <1>1, <2>2, <2>5, <2>6, ShorterOn
  <2> QED BY <2>1, <2>3, <2>5, <2>6, <2>7, Zenon
<1>4. \A i \in 1..n : \A q \in Rosters : F[i][q] = Popped(q)
  OBVIOUS
<1>5. \A q \in G[n] : Sound(q) /\ Shorter(r, q) /\ Len(q.log) = c /\ Since(q, c)
  <2>1. n \in 0..n /\ Len(r.log) - n = c BY <1>1
  <2> HIDE DEF n
  <2> QED BY <1>1, <2>1
<1>6. PICK g \in [0..n -> Rosters] : /\ g[0] = r
                                     /\ \A i \in 1..n : g[i] = F[i][g[i - 1]]
                                     /\ \A i \in 0..n : g[i] \in G[i]
  <2> HIDE DEF F, G, n
  <2>1. Sure(Rosters, n, r, F, G) BY <1>1, <1>2, <1>3, Turns
  <2> QED BY <2>1, Zenon DEF Sure
<1> HIDE DEF F, G
<1>7. Eq(g)
  <2>1. \A i \in 1..n : g[i - 1] \in Rosters BY <1>1
  <2>2. \A i \in 1..n : g[i] = Popped(g[i - 1])
    BY <1>4, <1>6, <2>1
  <2> HIDE DEF n
  <2> QED BY <1>1, <1>6, <2>2
<1>8. PICK f : Eq(f) /\ Undone(r, n) = f[n]
  <2>1. Undone(r, n) = (CHOOSE f : Eq(f))[n] BY DEF Undone
  <2> HIDE DEF Eq
  <2> QED BY <1>7, <2>1
<1>9. \A i \in 0..n : f[i] = g[i]
  <2>1. f[0] = g[0] BY <1>1, <1>6, <1>8
  <2>2. ASSUME NEW i \in 1..n, f[i - 1] = g[i - 1] PROVE f[i] = g[i]
    <3>1. i \in 0..n /\ i # 0 BY <1>1
    <3> HIDE DEF n
    <3> QED BY <1>7, <1>8, <2>2, <3>1, Zenon
  <2> HIDE DEF n, Eq
  <2>3. Agree(f, g, n) BY <1>1, <2>1, <2>2, TurnsUnique
  <2> QED BY <2>3 DEF Agree
<1>10. f[n] \in G[n]
  <2> HIDE DEF n, Eq
  <2> QED BY <1>1, <1>6, <1>9
<1> QED BY <1>5, <1>8, <1>10

\* What a rollback to the mark leaves.
Restored(r, s, c) ==
  /\ Len(s.log) = c /\ DOMAIN s.log = 1..c
  /\ \A i \in 1..c : /\ i \in DOMAIN r.log
                     /\ s.log[i].key = r.log[i].key /\ s.log[i].start = r.log[i].start
                     /\ s.log[i].withdrew = r.log[i].withdrew /\ s.log[i].back = r.log[i].back
                     /\ s.log[i].gone = r.log[i].gone /\ (s.log[i].withdrawn => r.log[i].withdrawn)
  /\ s.back = r.back /\ s.end = r.end /\ s.placed = r.placed
  /\ s.hidden = r.hidden /\ s.lost = r.lost
  /\ \A b \in 0..c : DeadSet(s.log, b) = DeadSet(r.log, b)

\* markdown_core_roster_rollback keeps a roster sound, brings every cursor back into the log, and
\* leaves the dead the mark counted.
LEMMA RolledBackSound ==
  ASSUME NEW r, Sound(r), NEW mark \in Marks, mark.count <= Len(r.log), Since(r, mark.count)
  PROVE  LET s == RolledBack(r, mark)
         IN Sound(s) /\ Settled(s) /\ Restored(r, s, mark.count) /\ s.dead = mark.dead
<1> DEFINE c == mark.count
           u == Undone(r, Len(r.log) - c)
           s == RolledBack(r, mark)
           cursor == [d \in Kinds |-> IF u.cursor[d] > c THEN c ELSE u.cursor[d]]
<1>1. c \in Nat /\ mark.dead \in Int BY DEF Marks
<1>2. Sound(u) /\ Shorter(r, u) /\ Len(u.log) = c
  BY <1>1, UndoneSound
<1>3. s = [u EXCEPT !.cursor = cursor, !.dead = mark.dead]
  BY DEF RolledBack
<1> HIDE DEF c, u, s
<1>4. u \in Rosters /\ Indexed(u) /\ Paired(u) /\ Placed(u) /\ Divided(u)
  BY <1>2 DEF Sound
<1>5. u.log \in Seq(Recs) /\ DOMAIN u.log = 1..c /\ u.cursor \in [Kinds -> Nat]
  BY <1>1, <1>2, <1>4, RosterFields
<1>6. cursor \in [Kinds -> Nat] /\ \A d \in Kinds : cursor[d] = IF u.cursor[d] > c THEN c ELSE u.cursor[d]
  BY <1>1, <1>5
<1>7. \A d \in Kinds : \A i \in 1..c : i <= cursor[d] <=> i <= u.cursor[d]
  BY <1>1, <1>5, <1>6
<1>8. \A d \in Kinds : cursor[d] <= c BY <1>1, <1>5, <1>6
<1> HIDE DEF cursor
<1>9. /\ s \in Rosters /\ s.log = u.log /\ s.index = u.index /\ s.indexed = u.indexed /\ s.cursor = cursor
      /\ s.front = u.front /\ s.back = u.back /\ s.end = u.end /\ s.placed = u.placed
      /\ s.hidden = u.hidden /\ s.dead = mark.dead /\ s.lost = u.lost
  BY <1>1, <1>3, <1>4, <1>6, Zenon DEF Rosters
<1>10. \A i \in 1..c : Kind(u.log[i]) \in Kinds
  BY <1>5, LogFields, Zenon
<1>11. Indexed(s)
  <2>1. Taken(s) = Taken(u)
    BY <1>5, <1>7, <1>9, <1>10, Zenon DEF Taken
  <2>2. Holds(s, Taken(u))
    BY <1>4, <1>9, HoldsSame DEF Indexed
  <2>3. \A d \in Kinds : UpToCursor(s, d) = UpToCursor(u, d)
    BY <1>5, <1>7, <1>9, Zenon DEF UpToCursor
  <2> QED BY <1>4, <1>9, <2>1, <2>2, <2>3 DEF Indexed
<1>12. Paired(s)
  <2>1. ASSUME NEW i \in DOMAIN s.log, s.log[i].withdrew # 0
        PROVE  LET w == s.log[i].withdrew
               IN /\ w < i /\ s.log[w].key = s.log[i].key /\ s.log[w].withdrew = 0
                  /\ s.log[w].withdrawn /\ i <= s.cursor[Kind(s.log[i])]
    <3>1. i \in DOMAIN u.log /\ i \in 1..c /\ s.log = u.log /\ s.cursor = cursor
      BY <1>5, <1>9, Zenon
    <3>2. LET w == u.log[i].withdrew
          IN /\ w < i /\ u.log[w].key = u.log[i].key /\ u.log[w].withdrew = 0
             /\ u.log[w].withdrawn /\ i <= u.cursor[Kind(u.log[i])]
      BY <1>4, <2>1, <3>1 DEF Paired
    <3>3. i <= cursor[Kind(u.log[i])]
      BY <1>7, <1>10, <3>1, <3>2
    <3> QED BY <3>1, <3>2, <3>3
  <2> QED BY <1>4, <1>9, <2>1 DEF Paired
<1>13. Placed(s) /\ Divided(s)
  BY <1>4, <1>9 DEF Placed, Divided
<1>14. Settled(s) BY <1>2, <1>8, <1>9 DEF Settled
<1>15. Restored(r, s, c)
  <2>1. r \in Rosters /\ Len(r.log) \in Nat /\ DOMAIN r.log = 1..Len(r.log)
    BY RosterFields DEF Sound
  <2>2. \A i \in 1..c : /\ i \in DOMAIN r.log
                     /\ s.log[i].key = r.log[i].key /\ s.log[i].start = r.log[i].start
                     /\ s.log[i].withdrew = r.log[i].withdrew /\ s.log[i].back = r.log[i].back
                     /\ s.log[i].gone = r.log[i].gone /\ (s.log[i].withdrawn => r.log[i].withdrawn)
    BY <1>1, <1>2, <1>5, <1>9, <2>1 DEF Shorter, c
  <2>3. ASSUME NEW b \in 0..c PROVE DeadSet(s.log, b) = DeadSet(r.log, b)
    <3>1. b \in Nat /\ \A i \in 1..b : i \in 1..c BY <1>1
    <3>2. \A i \in 1..b : s.log[i].withdrew = r.log[i].withdrew /\ s.log[i].gone = r.log[i].gone
      BY <2>2, <3>1
    <3> QED BY <3>1, <3>2, DeadSame
  <2> QED BY <1>2, <1>5, <1>9, <2>2, <2>3 DEF Restored, Shorter
<1> QED BY <1>9, <1>11, <1>12, <1>13, <1>14, <1>15 DEF Sound, s, c

-------------------------------------------------------------------------------
(* The places, made of the log.                                            *)

Started(r, i) == [start |-> r.log[i].start, record |-> i]

\* The declarations that stand of a roster not yet placed, each kind's in the front.
LEMMA PlaceSound ==
  ASSUME NEW r, Sound(r), ~r.placed
  PROVE  LET s == S_place(r)
         IN /\ Sound(s) /\ s.placed /\ s.log = r.log /\ s.cursor = r.cursor
            /\ s.back = r.back /\ s.end = r.end /\ s.hidden = r.hidden /\ s.dead = r.dead /\ s.lost = r.lost
<1> DEFINE n == Len(r.log)
           X == [Kinds -> Seq(Entries)]
           none == [d \in Kinds |-> << >>]
           turn(i, q) == IF Stands(r.log[i]) THEN [q EXCEPT ![KindOf[r.log[i].key]] = Entered(@, Started(r, i))] ELSE q
           F == [i \in 1..n |-> [q \in X |-> turn(i, q)]]
           By(i, d) == {j \in Fronts(r.log, d) : j <= i}
           G == [i \in 0..n |-> {q \in X : \A d \in Kinds : Sits(r.log, By(i, d), q[d])}]
           Eq(f) == f = [i \in 0..n |-> IF i = 0 THEN none ELSE turn(i, f[i - 1])]
           s == S_place(r)
<1>1. r \in Rosters /\ Indexed(r) /\ Paired(r) /\ Placed(r) /\ Divided(r)
  BY DEF Sound
<1>2. n \in Nat /\ DOMAIN r.log = 1..n /\ r.log \in Seq(Recs)
  BY <1>1, RosterFields
<1>3. \A d : \A i \in Fronts(r.log, d) : i \in 1..n
  BY <1>2 DEF Fronts
<1>4. none \in X /\ \A d \in Kinds : none[d] = << >> OBVIOUS
<1> HIDE DEF n, none, X
<1>5. G \in [0..n -> SUBSET X] /\ none \in G[0]
  <2>1. \A d : By(0, d) = {} BY <1>2, <1>3
  <2>2. \A d \in Kinds : Sits(r.log, By(0, d), none[d])
    BY <1>4, <2>1 DEF Sits
  <2>3. 0 \in 0..n BY <1>2
  <2> HIDE DEF By
  <2> QED BY <1>4, <2>2, <2>3
<1>6. ASSUME NEW i \in 1..n, NEW q \in X, \A d \in Kinds : Sits(r.log, By(i - 1, d), q[d])
      PROVE  turn(i, q) \in X /\ \A d \in Kinds : Sits(r.log, By(i, d), turn(i, q)[d])
  <2> DEFINE e == Kind(r.log[i])
  <2>1. i \in DOMAIN r.log /\ e \in Kinds /\ r.log[i].start \in Int /\ i \in Nat
    BY <1>2, LogFields
  <2>2. \A d : \A j \in Fronts(r.log, d) : j <= i <=> j <= i - 1 \/ j = i
    BY <1>2, <1>3
  <2>3. CASE Stands(r.log[i])
    <3>1. turn(i, q) = [q EXCEPT ![e] = Entered(q[e], Started(r, i))]
      BY <2>1, <2>3 DEF Kind, X
    <3>2. ~r.log[i].back BY <1>1, <2>1 DEF Placed
    <3>3. i \notin By(i - 1, e) BY <1>2
    <3>4. By(i, e) = By(i - 1, e) \cup {i}
      BY <2>1, <2>2, <2>3, <3>2 DEF Fronts
    <3>5. \A d \in Kinds : d # e => By(i, d) = By(i - 1, d)
      <4> SUFFICES ASSUME NEW d \in Kinds, d # e PROVE By(i, d) = By(i - 1, d)
        OBVIOUS
      <4>1. i \notin Fronts(r.log, d) BY DEF Fronts
      <4> HIDE DEF e
      <4> QED BY <2>2, <4>1
    <3>6. Started(r, i) \in Entries /\ Started(r, i).record = i /\ Started(r, i).start = r.log[i].start
      BY <2>1 DEF Started, Entries
    <3> HIDE DEF By, e
    <3>7. q[e] \in Seq(Entries) BY <2>1 DEF X
    <3>8. Entered(q[e], Started(r, i)) \in Seq(Entries) /\ Sits(r.log, By(i, e), Entered(q[e], Started(r, i)))
      <4>1. /\ Sits(r.log, By(i - 1, e), q[e]) /\ Started(r, i).record \notin By(i - 1, e)
            /\ r.log[Started(r, i).record].start = Started(r, i).start
        BY <1>6, <2>1, <3>3, <3>6
      <4>2. /\ Entered(q[e], Started(r, i)) \in Seq(Entries)
            /\ Sits(r.log, By(i - 1, e) \cup {Started(r, i).record}, Entered(q[e], Started(r, i)))
        BY <3>6, <3>7, <4>1, EnteredSits, Zenon
      <4> QED BY <3>4, <3>6, <4>2
    <3> DEFINE t == [q EXCEPT ![e] = Entered(q[e], Started(r, i))]
    <3>9. t \in X /\ \A d \in Kinds : t[d] = IF d = e THEN Entered(q[e], Started(r, i)) ELSE q[d]
      BY <3>8, Zenon DEF X
    <3> HIDE DEF t
    <3>10. \A d \in Kinds : Sits(r.log, By(i, d), t[d])
      BY <1>6, <3>5, <3>8, <3>9
    <3> QED BY <3>1, <3>9, <3>10 DEF t
  <2>4. CASE ~Stands(r.log[i])
    <3>1. turn(i, q) = q BY <2>4
    <3>2. \A d : i \notin Fronts(r.log, d)
      BY <2>4 DEF Fronts
    <3>3. \A d : By(i, d) = By(i - 1, d) BY <2>2, <3>2
    <3> HIDE DEF By
    <3> QED BY <1>6, <3>1, <3>3
  <2> QED BY <2>3, <2>4
<1> HIDE DEF turn
<1>7. ASSUME NEW i \in 1..n, NEW q \in G[i - 1] PROVE F[i][q] \in G[i]
  <2>1. i - 1 \in 0..n /\ i \in 0..n BY <1>2
  <2> HIDE DEF By
  <2>2. q \in X /\ \A d \in Kinds : Sits(r.log, By(i - 1, d), q[d])
    BY <2>1
  <2>3. F[i][q] = turn(i, q) BY <2>2
  <2>4. turn(i, q) \in X /\ \A d \in Kinds : Sits(r.log, By(i, d), turn(i, q)[d])
    BY <1>6, <2>2
  <2> HIDE DEF F
  <2> QED BY <2>1, <2>3, <2>4
<1>8. \A i \in 1..n : \A q \in X : F[i][q] = turn(i, q)
  OBVIOUS
<1>9. \A q \in G[n] : q \in X /\ \A d \in Kinds : Sits(r.log, Fronts(r.log, d), q[d])
  <2>1. n \in 0..n /\ \A d : By(n, d) = Fronts(r.log, d)
    BY <1>2, <1>3
  <2> HIDE DEF By
  <2> QED BY <2>1
<1>10. PICK g \in [0..n -> X] : /\ g[0] = none
                                /\ \A i \in 1..n : g[i] = F[i][g[i - 1]]
                                /\ \A i \in 0..n : g[i] \in G[i]
  <2> HIDE DEF F, G
  <2>1. Sure(X, n, none, F, G) BY <1>2, <1>5, <1>7, Turns
  <2> QED BY <2>1, Zenon DEF Sure
<1> HIDE DEF F, G
<1>11. Eq(g)
  <2>1. \A i \in 1..n : g[i - 1] \in X BY <1>2
  <2>2. \A i \in 1..n : g[i] = turn(i, g[i - 1])
    BY <1>8, <1>10, <2>1
  <2> QED BY <1>2, <1>10, <2>2
<1>12. PICK f : Eq(f) /\ s = [r EXCEPT !.front = f[n], !.placed = TRUE]
  <2>1. s = [r EXCEPT !.front = (CHOOSE f : Eq(f))[n], !.placed = TRUE]
    BY DEF S_place, turn, none, n, Started
  <2> HIDE DEF Eq
  <2> QED BY <1>11, <2>1, Zenon
<1>13. \A i \in 0..n : f[i] = g[i]
  <2>1. f[0] = g[0] BY <1>2, <1>10, <1>12
  <2>2. ASSUME NEW i \in 1..n, f[i - 1] = g[i - 1] PROVE f[i] = g[i]
    <3>1. i \in 0..n /\ i # 0 BY <1>2
    <3> QED BY <1>11, <1>12, <2>2, <3>1, Zenon
  <2> HIDE DEF Eq
  <2>3. Agree(f, g, n) BY <1>2, <2>1, <2>2, TurnsUnique
  <2> QED BY <2>3 DEF Agree
<1> DEFINE front == f[n]
<1>14. front \in X /\ \A d \in Kinds : Sits(r.log, Fronts(r.log, d), front[d])
  <2>1. n \in 0..n BY <1>2
  <2>2. f[n] \in G[n] BY <1>10, <1>13, <2>1
  <2> QED BY <1>9, <2>2
<1> HIDE DEF front, s
<1>15. /\ s \in Rosters /\ s.log = r.log /\ s.index = r.index /\ s.indexed = r.indexed /\ s.cursor = r.cursor
       /\ s.front = front /\ s.back = r.back /\ s.end = r.end /\ s.placed
       /\ s.hidden = r.hidden /\ s.dead = r.dead /\ s.lost = r.lost
  BY <1>1, <1>12, <1>14, Zenon DEF Rosters, front, X
<1>16. \A d : Backs(r.log, d) = {} BY <1>1 DEF Backs, Placed
<1>17. Placed(s)
  <2>1. \A d \in Kinds : Sits(r.log, Backs(r.log, d), r.back[d])
    BY <1>1, <1>16 DEF Placed, Sits
  <2> QED BY <1>14, <1>15, <2>1 DEF Placed
<1>18. Divided(s) BY <1>15, <1>16 DEF Divided
<1>19. Indexed(s) /\ Paired(s)
  BY <1>1, <1>15, IndexedSame, PairedSame
<1> QED BY <1>15, <1>17, <1>18, <1>19 DEF Sound, s

-------------------------------------------------------------------------------
(* A compaction.                                                           *)

\* What the places keep is everything when all of it stands.
LEMMA KeptAll ==
  ASSUME NEW r, NEW entries \in Seq(Entries), \A p \in DOMAIN entries : Stands(r.log[entries[p].record])
  PROVE  Kept(r, entries) = entries
<1> DEFINE n == Len(entries)
           turn(p, q) == IF Stands(r.log[entries[p].record]) THEN Append(q, entries[p]) ELSE q
           g == [p \in 0..n |-> SubSeq(entries, 1, p)]
           Eq(f) == f = [p \in 0..n |-> IF p = 0 THEN << >> ELSE turn(p, f[p - 1])]
<1>1. n \in Nat /\ DOMAIN entries = 1..n OBVIOUS
<1>2. Eq(g)
  <2>1. g[0] = << >> /\ \A p \in 1..n : g[p] = SubSeq(entries, 1, p) /\ g[p - 1] = SubSeq(entries, 1, p - 1)
    BY <1>1
  <2>2. \A p \in 1..n : g[p] = Append(g[p - 1], entries[p])
    BY <2>1, PrefixFacts, Zenon
  <2>3. \A p \in 1..n : g[p] = turn(p, g[p - 1])
    <3>1. \A p \in 1..n : Stands(r.log[entries[p].record])
      BY <1>1
    <3> HIDE DEF g, n
    <3> QED BY <2>2, <3>1, Zenon
  <2>4. g = [p \in 0..n |-> g[p]] OBVIOUS
  <2> HIDE DEF g, turn, n
  <2>5. \A p \in 0..n : p # 0 => p \in 1..n BY <1>1
  <2> QED BY <2>1, <2>3, <2>4, <2>5
<1>3. PICK f : Eq(f) /\ Kept(r, entries) = f[n]
  <2>1. Kept(r, entries) = (CHOOSE f : Eq(f))[n] BY DEF Kept
  <2> HIDE DEF Eq
  <2> QED BY <1>2, <2>1, Zenon
<1>4. f[n] = g[n]
  <2>1. f[0] = g[0] BY <1>1, <1>2, <1>3
  <2>2. ASSUME NEW p \in 1..n, f[p - 1] = g[p - 1] PROVE f[p] = g[p]
    <3>1. p \in 0..n /\ p # 0 BY <1>1
    <3> HIDE DEF n, g, turn
    <3> QED BY <1>2, <1>3, <2>2, <3>1, Zenon
  <2> HIDE DEF n, g, Eq
  <2>3. Agree(f, g, n) BY <1>1, <2>1, <2>2, TurnsUnique
  <2> QED BY <1>1, <2>3 DEF Agree
<1>5. g[n] = entries
  <2>1. n \in 0..n BY <1>1
  <2>2. SubSeq(entries, 1, Len(entries)) = entries OBVIOUS
  <2> QED BY <2>1, <2>2
<1> QED BY <1>3, <1>4, <1>5, Zenon

\* The places hold no declaration that does not stand: a compaction's pruning of them
\* changes nothing.
LEMMA PrunedIs ==
  ASSUME NEW r, Sound(r), r.placed
  PROVE  Pruned(r) = r
<1> DEFINE front == [d \in Kinds |-> Kept(r, r.front[d])]
           back == [d \in Kinds |-> Kept(r, r.back[d])]
<1>1. r \in Rosters /\ Placed(r) /\ r.front \in [Kinds -> Seq(Entries)] /\ r.back \in [Kinds -> Seq(Entries)]
  BY RosterFields DEF Sound
<1>2. ASSUME NEW d \in Kinds PROVE Kept(r, r.front[d]) = r.front[d]
  <2>1. \A p \in DOMAIN r.front[d] : Stands(r.log[r.front[d][p].record])
    BY <1>1 DEF Placed, Sits, Fronts
  <2> QED BY <1>1, <2>1, KeptAll, Zenon
<1>3. ASSUME NEW d \in Kinds PROVE Kept(r, r.back[d]) = r.back[d]
  <2>1. \A p \in DOMAIN r.back[d] : Stands(r.log[r.back[d][p].record])
    BY <1>1 DEF Placed, Sits, Backs
  <2> QED BY <1>1, <2>1, KeptAll
<1>4. front = r.front /\ back = r.back BY <1>1, <1>2, <1>3
<1>5. Pruned(r) = [r EXCEPT !.front = front, !.back = back]
  BY DEF Pruned
<1> HIDE DEF front, back
<1> QED BY <1>1, <1>4, <1>5, Zenon DEF Rosters

Standings(log, d) == {i \in DOMAIN log : Stands(log[i]) /\ Kind(log[i]) = d}
EntriesOf(r, d) == r.front[d] \o Reverse(r.back[d])
RecordsOf(r, d) == [p \in DOMAIN EntriesOf(r, d) |-> EntriesOf(r, d)[p].record]

\* A zipper's entries in the order of the text: the front's, and the back's from its last.
LEMMA EntriesAre ==
  ASSUME NEW f \in Seq(Entries), NEW b \in Seq(Entries)
  PROVE  LET e == f \o Reverse(b)
         IN /\ e \in Seq(Entries) /\ Len(e) = Len(f) + Len(b) /\ DOMAIN e = 1..(Len(f) + Len(b))
            /\ \A p \in 1..Len(f) : p \in DOMAIN e /\ e[p] = f[p]
            /\ \A p \in 1..Len(b) : Len(f) + Len(b) + 1 - p \in DOMAIN e /\ e[Len(f) + Len(b) + 1 - p] = b[p]
            /\ \A p \in DOMAIN e : p > Len(f) => Len(f) + Len(b) + 1 - p \in 1..Len(b) /\ e[p] = b[Len(f) + Len(b) + 1 - p]
<1> DEFINE v == Reverse(b)
           n == Len(f)
           m == Len(b)
           e == f \o v
<1>1. n \in Nat /\ m \in Nat /\ DOMAIN f = 1..n /\ DOMAIN b = 1..m
  OBVIOUS
<1>2. v \in Seq(Entries) /\ Len(v) = m /\ \A p \in 1..m : v[p] = b[(m - p) + 1]
  BY <1>1 DEF Reverse
<1> HIDE DEF v
<1>3. e \in Seq(Entries) /\ Len(e) = n + m /\ DOMAIN e = 1..(n + m)
  <2>1. e \in Seq(Entries) /\ Len(e) = n + m
    <3>0. v \in Seq(Entries) BY <1>2
    <3>1. f \o v \in Seq(Entries) BY <3>0
    <3>2. Len(f \o v) = Len(f) + Len(v)
      BY <3>0, ConcatProperties
    <3> QED BY <1>2, <3>1, <3>2
  <2> HIDE DEF e
  <2> QED BY <2>1
<1>4. \A p \in 1..(n + m) : e[p] = IF p <= n THEN f[p] ELSE v[p - n]
  BY <1>1, <1>2
<1> HIDE DEF e, n, m
<1>5. \A p \in 1..n : p \in DOMAIN e /\ e[p] = f[p]
  BY <1>1, <1>3, <1>4
<1>6. ASSUME NEW p \in DOMAIN e, p > n PROVE n + m + 1 - p \in 1..m /\ e[p] = b[n + m + 1 - p]
  <2>1. p - n \in 1..m /\ (m - (p - n)) + 1 = n + m + 1 - p
    BY <1>1, <1>3, <1>6
  <2>2. e[p] = v[p - n] BY <1>1, <1>3, <1>4, <1>6
  <2>3. v[p - n] = b[(m - (p - n)) + 1] BY <1>2, <2>1
  <2> QED BY <1>1, <2>1, <2>2, <2>3
<1>7. ASSUME NEW p \in 1..m PROVE n + m + 1 - p \in DOMAIN e /\ e[n + m + 1 - p] = b[p]
  <2> DEFINE h == n + m + 1 - p
  <2>1. h \in 1..(n + m) /\ h > n /\ n + m + 1 - h = p
    BY <1>1
  <2> HIDE DEF h
  <2>2. e[h] = b[n + m + 1 - h] BY <1>3, <1>6, <2>1, Zenon
  <2> QED BY <1>3, <2>1, <2>2, Zenon DEF h
<1> QED BY <1>3, <1>5, <1>6, <1>7, Zenon DEF e, n, m, v

\* A kind's places hold each declaration of it that stands once.
LEMMA RecordsAre ==
  ASSUME NEW r, Sound(r), r.placed, NEW d \in Kinds
  PROVE  Enum(RecordsOf(r, d), Standings(r.log, d)) /\ Len(RecordsOf(r, d)) = Len(r.front[d]) + Len(r.back[d])
<1> DEFINE f == r.front[d]
           b == r.back[d]
           e == EntriesOf(r, d)
           n == Len(f)
           m == Len(b)
           q == RecordsOf(r, d)
           S == Fronts(r.log, d)
           T == Backs(r.log, d)
<1>1. f \in Seq(Entries) /\ b \in Seq(Entries) /\ n \in Nat /\ m \in Nat /\ DOMAIN f = 1..n /\ DOMAIN b = 1..m
  BY RosterFields DEF Sound
<1>2. Sits(r.log, S, f) /\ Sits(r.log, T, b)
  BY DEF Sound, Placed
<1>3. /\ e \in Seq(Entries) /\ Len(e) = n + m /\ DOMAIN e = 1..(n + m)
      /\ \A p \in 1..n : p \in DOMAIN e /\ e[p] = f[p]
      /\ \A p \in 1..m : n + m + 1 - p \in DOMAIN e /\ e[n + m + 1 - p] = b[p]
      /\ \A p \in DOMAIN e : p > n => n + m + 1 - p \in 1..m /\ e[p] = b[n + m + 1 - p]
  BY <1>1, EntriesAre, Zenon DEF EntriesOf
<1>4. q = [p \in 1..(n + m) |-> e[p].record]
  BY <1>3 DEF RecordsOf
<1> HIDE DEF e, q, n, m, f, b
<1>5. Standings(r.log, d) = S \cup T /\ S \cap T = {}
  BY DEF Standings, Fronts, Backs
<1> HIDE DEF S, T
<1>6. q \in Seq(Nat) /\ Len(q) = n + m /\ DOMAIN q = 1..(n + m)
  <2>1. \A p \in 1..(n + m) : e[p].record \in Nat
    BY <1>3, EntryFields
  <2>2. q \in [1..(n + m) -> Nat] BY <1>4, <2>1
  <2> QED BY <1>1, <1>4, <2>2
<1>7. \A p \in 1..n : p \in 1..(n + m) /\ q[p] = f[p].record /\ q[p] \in S
  BY <1>1, <1>2, <1>3, <1>4, Zenon DEF Sits
<1>8. \A p \in 1..m : n + m + 1 - p \in 1..(n + m) /\ q[n + m + 1 - p] = b[p].record
  BY <1>3, <1>4
<1>9. \A p \in 1..(n + m) : p > n => n + m + 1 - p \in 1..m /\ q[p] = b[n + m + 1 - p].record /\ q[p] \in T
  <2> TAKE p \in 1..(n + m)
  <2> HAVE p > n
  <2> DEFINE h == n + m + 1 - p
  <2>1. h \in 1..m /\ q[p] = b[h].record BY <1>3, <1>4
  <2> HIDE DEF h
  <2>2. q[p] \in T BY <1>1, <1>2, <2>1 DEF Sits
  <2> QED BY <2>1, <2>2 DEF h
<1>10. \A p \in DOMAIN q : q[p] \in S \cup T
  <2> TAKE p \in DOMAIN q
  <2>1. p \in 1..(n + m) /\ (p \in 1..n \/ p > n)
    BY <1>1, <1>6
  <2> QED BY <1>7, <1>9, <2>1
<1>11. \A i \in S \cup T : \E p \in DOMAIN q : q[p] = i
  <2> TAKE i \in S \cup T
  <2>1. CASE i \in S
    <3>1. PICK p \in 1..n : f[p].record = i
      BY <1>1, <1>2, <2>1 DEF Sits
    <3> QED BY <1>6, <1>7, <3>1
  <2>2. CASE i \in T
    <3>1. PICK p \in 1..m : b[p].record = i
      BY <1>1, <1>2, <2>2 DEF Sits
    <3> QED BY <1>6, <1>8, <3>1
  <2> QED BY <2>1, <2>2
<1>12. ASSUME NEW p \in DOMAIN q, NEW v \in DOMAIN q, q[p] = q[v] PROVE p = v
  <2>1. p \in 1..(n + m) /\ v \in 1..(n + m) /\ (p \in 1..n \/ p > n) /\ (v \in 1..n \/ v > n)
    BY <1>1, <1>6
  <2>2. CASE p \in 1..n /\ v \in 1..n
    <3>1. f[p].record = f[v].record BY <1>7, <1>12, <2>2
    <3>2. ~(p < v) /\ ~(v < p)
      BY <1>1, <1>2, <2>2, <3>1 DEF Sits
    <3> QED BY <1>1, <2>2, <3>2
  <2>3. CASE p > n /\ v > n
    <3> DEFINE g == n + m + 1 - p
               h == n + m + 1 - v
    <3>1. g \in 1..m /\ h \in 1..m /\ b[g].record = b[h].record
      BY <1>9, <1>12, <2>1, <2>3
    <3> HIDE DEF g, h
    <3>2. ~(g < h) /\ ~(h < g)
      BY <1>1, <1>2, <3>1, Zenon DEF Sits
    <3>3. g = h BY <1>1, <3>1, <3>2
    <3> QED BY <1>1, <2>1, <3>3 DEF g, h
  <2>4. CASE (p \in 1..n /\ v > n) \/ (v \in 1..n /\ p > n)
    BY <1>5, <1>7, <1>9, <1>12, <2>1, <2>4
  <2> QED BY <2>1, <2>2, <2>3, <2>4
<1> QED BY <1>5, <1>6, <1>10, <1>11, <1>12, Zenon DEF Enum, q, S, T, n, m, f, b

\* The copy has each record that stands, once.
LEMMA CopiedIs ==
  ASSUME NEW r, Sound(r), r.placed
  PROVE  Enum(Copied(r), {i \in DOMAIN r.log : Stands(r.log[i])})
<1> DEFINE n == Len(KindOrder)
           X == Seq(Nat)
           Up(m) == {i \in DOMAIN r.log : Stands(r.log[i]) /\ \E j \in 1..m : Kind(r.log[i]) = KindOrder[j]}
           turn(m, q) == q \o RecordsOf(r, KindOrder[m])
           F == [m \in 1..n |-> [q \in X |-> turn(m, q)]]
           G == [m \in 0..n |-> {q \in X : Enum(q, Up(m))}]
           Eq(f) == f = [m \in 0..n |-> IF m = 0 THEN << >> ELSE turn(m, f[m - 1])]
<1>1. n \in Nat /\ (\A m \in 1..n : KindOrder[m] \in Kinds) /\ (\A m, j \in 1..n : KindOrder[m] = KindOrder[j] => m = j)
      /\ \A d \in Kinds : \E m \in 1..n : d = KindOrder[m]
  BY RosterAssumption DEF Kinds, ToSet
<1>2. r \in Rosters /\ r.log \in Seq(Recs)
  BY RosterFields DEF Sound
<1> HIDE DEF n
<1>3. G \in [0..n -> SUBSET X] /\ << >> \in G[0]
  <2>1. Up(0) = {} OBVIOUS
  <2>2. Enum(<< >>, Up(0)) BY <2>1 DEF Enum
  <2>3. 0 \in 0..n /\ << >> \in X BY <1>1
  <2> HIDE DEF Up
  <2> QED BY <2>2, <2>3
<1>4. ASSUME NEW m \in 1..n, NEW q \in X, Enum(q, Up(m - 1)) PROVE turn(m, q) \in X /\ Enum(turn(m, q), Up(m))
  <2> DEFINE d == KindOrder[m]
             S == Standings(r.log, d)
  <2>1. d \in Kinds BY <1>1
  <2>2. Enum(RecordsOf(r, d), S) BY <2>1, RecordsAre, Zenon
  <2>3. \A j \in 1..m : j \in 1..(m - 1) \/ j = m BY <1>1
  <2>4. \A j \in 1..(m - 1) : j \in 1..m /\ j # m /\ j \in 1..n
    BY <1>1
  <2>5. m \in 1..m BY <1>1
  <2>6. Up(m - 1) \cap S = {} BY <1>1, <2>4 DEF Standings
  <2>7. Up(m) = Up(m - 1) \cup S
    BY <2>3, <2>4, <2>5 DEF Standings
  <2> HIDE DEF Up, S, d
  <2>8. Enum(q \o RecordsOf(r, d), Up(m - 1) \cup S)
    BY <1>4, <2>2, <2>6, EnumMore
  <2>9. Enum(turn(m, q), Up(m)) BY <2>7, <2>8 DEF d
  <2> QED BY <2>9, Zenon DEF Enum
<1> HIDE DEF turn
<1>5. ASSUME NEW m \in 1..n, NEW q \in G[m - 1] PROVE F[m][q] \in G[m]
  <2>1. m - 1 \in 0..n /\ m \in 0..n BY <1>1
  <2> HIDE DEF Up
  <2>2. q \in X /\ Enum(q, Up(m - 1)) BY <2>1
  <2>3. F[m][q] = turn(m, q) BY <2>2
  <2>4. turn(m, q) \in X /\ Enum(turn(m, q), Up(m))
    BY <1>4, <2>2
  <2> HIDE DEF F
  <2> QED BY <2>1, <2>3, <2>4
<1>6. \A m \in 1..n : \A q \in X : F[m][q] = turn(m, q)
  OBVIOUS
<1>7. \A q \in G[n] : Enum(q, {i \in DOMAIN r.log : Stands(r.log[i])})
  <2>1. n \in 0..n BY <1>1
  <2>2. \A i \in DOMAIN r.log : Kind(r.log[i]) \in Kinds
    BY <1>2, LogFields
  <2>3. Up(n) = {i \in DOMAIN r.log : Stands(r.log[i])}
    BY <1>1, <2>2
  <2> HIDE DEF Up
  <2> QED BY <2>1, <2>3, Zenon
<1>8. PICK g \in [0..n -> X] : /\ g[0] = << >>
                               /\ \A m \in 1..n : g[m] = F[m][g[m - 1]]
                               /\ \A m \in 0..n : g[m] \in G[m]
  <2> HIDE DEF F, G, X
  <2>1. Sure(X, n, << >>, F, G)
    BY <1>1, <1>3, <1>5, Turns, Zenon
  <2> QED BY <2>1, Zenon DEF Sure
<1> HIDE DEF F, G, X
<1>9. Eq(g)
  <2>1. \A m \in 1..n : g[m - 1] \in X BY <1>1
  <2>2. \A m \in 1..n : g[m] = turn(m, g[m - 1])
    BY <1>6, <1>8, <2>1
  <2>3. \A m \in 0..n : g[m] = IF m = 0 THEN << >> ELSE turn(m, g[m - 1])
    <3> TAKE m \in 0..n
    <3>1. m = 0 \/ m \in 1..n BY <1>1
    <3>2. m \in 1..n => m # 0 BY <1>1
    <3> QED BY <1>8, <2>2, <3>1, <3>2
  <2>4. g = [m \in 0..n |-> g[m]] BY <1>8, Zenon
  <2> QED BY <2>3, <2>4, Zenon
<1>10. PICK f : Eq(f) /\ Copied(r) = f[n]
  <2>1. Copied(r) = (CHOOSE f : Eq(f))[n]
    BY DEF Copied, turn, n, RecordsOf, EntriesOf
  <2> HIDE DEF Eq
  <2> QED BY <1>9, <2>1, Zenon
<1>11. f[n] = g[n]
  <2>1. f[0] = g[0] BY <1>1, <1>8, <1>10
  <2>2. ASSUME NEW m \in 1..n, f[m - 1] = g[m - 1] PROVE f[m] = g[m]
    <3>1. m \in 0..n /\ m # 0 BY <1>1
    <3> QED BY <1>9, <1>10, <2>2, <3>1, Zenon
  <2> HIDE DEF Eq
  <2>3. Agree(f, g, n) BY <1>1, <2>1, <2>2, TurnsUnique
  <2> QED BY <1>1, <2>3 DEF Agree
<1>12. g[n] \in G[n] BY <1>1, <1>8
<1> QED BY <1>7, <1>10, <1>11, <1>12

\* A compacted roster is a copy of the records that stand, in some order.
Copies(r, s, kept) ==
  /\ Enum(kept, {i \in DOMAIN r.log : Stands(r.log[i])})
  /\ DOMAIN s.log = DOMAIN kept
  /\ \A p \in DOMAIN kept : /\ s.log[p].key = r.log[kept[p]].key /\ s.log[p].start = r.log[kept[p]].start
                            /\ s.log[p].back = r.log[kept[p]].back /\ Stands(s.log[p]) /\ ~s.log[p].gone
  /\ s.placed /\ s.hidden = r.hidden /\ s.end = r.end /\ s.lost = r.lost /\ s.dead = 0
  /\ \A d \in Kinds : r.back[d] = << >> => s.back[d] = << >>

RenamedWell(new, S, kept, entries) ==
  LET T == {p \in DOMAIN kept : kept[p] \in S}
  IN /\ Renamed(entries, kept) \in Seq(Entries) /\ Len(Renamed(entries, kept)) = Len(entries)
     /\ Sits(new, T, Renamed(entries, kept))

\* The entries of the places after a compaction name the copies, each where it starts.
LEMMA RenamedSits ==
  ASSUME NEW log, NEW new, NEW kept, NEW All, Enum(kept, All), NEW S \in SUBSET All,
         NEW entries \in Seq(Entries), Sits(log, S, entries),
         \A p \in DOMAIN kept : new[p].start = log[kept[p]].start
  PROVE  RenamedWell(new, S, kept, entries)
<1> DEFINE t == Renamed(entries, kept)
           n == Len(entries)
           T == {p \in DOMAIN kept : kept[p] \in S}
<1>1. n \in Nat /\ DOMAIN entries = 1..n /\ \A p \in 1..n : entries[p] \in Entries
  OBVIOUS
<1>2. \A p \in DOMAIN kept : At(kept, kept[p]) = p
  BY DEF Enum, At
<1>3. \A p \in DOMAIN kept : p \in Nat BY DEF Enum
<1>4. ASSUME NEW p \in 1..n
      PROVE  /\ t[p] \in Entries /\ t[p].start = entries[p].start /\ t[p].record \in DOMAIN kept
             /\ kept[t[p].record] = entries[p].record /\ entries[p].record \in S
  <2> DEFINE i == entries[p].record
  <2>1. i \in S /\ i \in All BY <1>1 DEF Sits
  <2>2. PICK h \in DOMAIN kept : kept[h] = i
    BY <2>1 DEF Enum
  <2>3. At(kept, i) = h /\ h \in Nat BY <1>2, <1>3, <2>2
  <2>4. t[p] = [entries[p] EXCEPT !.record = h]
    BY <1>1, <2>3 DEF Renamed
  <2>5. t[p] \in Entries /\ t[p].start = entries[p].start /\ t[p].record = h
    BY <1>1, <2>3, <2>4 DEF Entries
  <2> QED BY <2>1, <2>2, <2>5
<1>5. t = [p \in 1..n |-> t[p]] BY <1>1 DEF Renamed
<1> HIDE DEF t
<1>6. t \in Seq(Entries) /\ Len(t) = n /\ DOMAIN t = 1..n
  <2>1. t \in [1..n -> Entries] BY <1>4, <1>5
  <2> QED BY <1>1, <2>1
<1>7. \A p \in 1..n : t[p].record \in T /\ new[t[p].record].start = t[p].start
  <2> TAKE p \in 1..n
  <2>1. log[entries[p].record].start = entries[p].start
    BY <1>1 DEF Sits
  <2> QED BY <1>4, <2>1
<1>8. \A h \in T : \E p \in 1..n : t[p].record = h
  <2> TAKE h \in T
  <2>1. PICK p \in 1..n : entries[p].record = kept[h]
    BY <1>1 DEF Sits
  <2>2. kept[t[p].record] = kept[h] /\ t[p].record \in DOMAIN kept
    BY <1>4, <2>1
  <2> QED BY <2>2 DEF Enum
<1>9. \A p, v \in 1..n : p < v => t[p].record # t[v].record /\ t[p].start <= t[v].start
  <2> TAKE p, v \in 1..n
  <2> HAVE p < v
  <2>1. entries[p].record # entries[v].record /\ entries[p].start <= entries[v].start
    BY <1>1 DEF Sits
  <2> QED BY <1>4, <2>1
<1> QED BY <1>6, <1>7, <1>8, <1>9, Zenon DEF Sits, t, RenamedWell

\* markdown_core_roster_compact keeps a roster sound: the log is copies of the declarations that
\* stand, the places name the copies, and the index, which is empty, has taken none.
LEMMA CompactedSound ==
  ASSUME NEW r, Sound(r), r.placed
  PROVE  LET s == Compacted(r)
         IN Sound(s) /\ Settled(s) /\ Copies(r, s, Copied(r)) /\ DeadSet(s.log, Len(s.log)) = {}
<1> DEFINE kept == Copied(r)
           All == {i \in DOMAIN r.log : Stands(r.log[i])}
           s == Compacted(r)
           n == Len(kept)
           lg == [p \in DOMAIN kept |-> [r.log[kept[p]] EXCEPT !.linked = FALSE]]
           front == [d \in Kinds |-> Renamed(r.front[d], kept)]
           back == [d \in Kinds |-> Renamed(r.back[d], kept)]
           index == [k \in Keys |-> NoList]
           zero == [d \in Kinds |-> 0]
<1>1. r \in Rosters /\ Placed(r) /\ Divided(r) /\ Paired(r)
  BY DEF Sound
<1>2. r.log \in Seq(Recs) /\ r.front \in [Kinds -> Seq(Entries)] /\ r.back \in [Kinds -> Seq(Entries)]
  BY <1>1, RosterFields
<1>3. Enum(kept, All) BY CopiedIs
<1>4. Pruned(r) = r BY PrunedIs
<1>5. s = [r EXCEPT !.log = lg, !.front = front, !.back = back, !.index = index, !.indexed = zero, !.cursor = zero, !.dead = 0]
  BY <1>4 DEF Compacted
<1> HIDE DEF s, kept
<1>6. kept \in Seq(Nat) /\ n \in Nat /\ DOMAIN kept = 1..n
  BY <1>3 DEF Enum
<1>7. ASSUME NEW p \in 1..n
      PROVE  /\ lg[p] \in Recs /\ lg[p].key = r.log[kept[p]].key /\ lg[p].start = r.log[kept[p]].start
             /\ lg[p].back = r.log[kept[p]].back /\ ~lg[p].linked /\ Stands(lg[p]) /\ Kind(lg[p]) = Kind(r.log[kept[p]])
             /\ ~lg[p].gone /\ lg[p].withdrew = 0 /\ ~lg[p].withdrawn /\ kept[p] \in All
  <2> DEFINE x == r.log[kept[p]]
  <2>1. kept[p] \in All /\ p \in DOMAIN kept
    BY <1>3, <1>6 DEF Enum
  <2>2. x \in Recs /\ Stands(x) BY <1>2, <2>1, LogFields
  <2>3. lg[p] = [x EXCEPT !.linked = FALSE] BY <2>1
  <2> HIDE DEF x, lg
  <2>4. /\ lg[p] \in Recs /\ lg[p].key = x.key /\ lg[p].start = x.start /\ lg[p].back = x.back /\ ~lg[p].linked
        /\ lg[p].gone = x.gone /\ lg[p].withdrew = x.withdrew /\ lg[p].withdrawn = x.withdrawn
    BY <2>2, <2>3, Zenon DEF Recs
  <2> QED BY <2>1, <2>2, <2>4 DEF Stands, Kind, x
<1>8. lg \in Seq(Recs) /\ Len(lg) = n /\ DOMAIN lg = 1..n
  <2>1. lg = [p \in 1..n |-> lg[p]] BY <1>6
  <2> HIDE DEF lg
  <2>2. lg \in [1..n -> Recs] BY <1>7, <2>1
  <2> QED BY <1>6, <2>2
<1> HIDE DEF lg
<1>9. ASSUME NEW d \in Kinds
      PROVE  /\ Renamed(r.front[d], kept) \in Seq(Entries) /\ Sits(lg, Fronts(lg, d), Renamed(r.front[d], kept))
             /\ Renamed(r.back[d], kept) \in Seq(Entries) /\ Sits(lg, Backs(lg, d), Renamed(r.back[d], kept))
             /\ Len(Renamed(r.back[d], kept)) = Len(r.back[d])
  <2> DEFINE S == Fronts(r.log, d)
             T == Backs(r.log, d)
  <2>1. Sits(r.log, S, r.front[d]) /\ Sits(r.log, T, r.back[d])
    BY <1>1 DEF Placed
  <2>2. S \in SUBSET All /\ T \in SUBSET All
    BY DEF Fronts, Backs
  <2>3. {p \in DOMAIN kept : kept[p] \in S} = Fronts(lg, d)
    BY <1>6, <1>7, <1>8 DEF Fronts
  <2>4. {p \in DOMAIN kept : kept[p] \in T} = Backs(lg, d)
    BY <1>6, <1>7, <1>8 DEF Backs
  <2>5. \A p \in DOMAIN kept : lg[p].start = r.log[kept[p]].start
    BY <1>6, <1>7
  <2>6. r.front[d] \in Seq(Entries) /\ r.back[d] \in Seq(Entries)
    BY <1>2
  <2> HIDE DEF S, T, All
  <2>7. RenamedWell(lg, S, kept, r.front[d]) /\ RenamedWell(lg, T, kept, r.back[d])
    BY <1>3, <2>1, <2>2, <2>5, <2>6, RenamedSits, Zenon
  <2> QED BY <2>3, <2>4, <2>7, Zenon DEF RenamedWell
<1>10. front \in [Kinds -> Seq(Entries)] /\ back \in [Kinds -> Seq(Entries)]
       /\ \A d \in Kinds : front[d] = Renamed(r.front[d], kept) /\ back[d] = Renamed(r.back[d], kept)
  BY <1>9
<1>11. index \in [Keys -> Lists] /\ \A k \in Keys : index[k].list = << >> /\ index[k].hint = 0
  <2>1. NoList \in Lists /\ NoList.list = << >> /\ NoList.hint = 0
    BY DEF NoList, Lists
  <2> QED BY <2>1
<1>12. zero \in [Kinds -> Int] /\ zero \in [Kinds -> Nat] /\ \A d \in Kinds : zero[d] = 0
  OBVIOUS
<1> HIDE DEF front, back, index, zero
<1>13. /\ s \in Rosters /\ s.log = lg /\ s.index = index /\ s.indexed = zero /\ s.cursor = zero
       /\ s.front = front /\ s.back = back /\ s.end = r.end /\ s.placed
       /\ s.hidden = r.hidden /\ s.dead = 0 /\ s.lost = r.lost
  <2> HIDE DEF n, All
  <2>1. s \in Rosters
    <3>1. /\ lg \in Seq(Recs) /\ front \in [Kinds -> Seq(Entries)] /\ back \in [Kinds -> Seq(Entries)]
          /\ index \in [Keys -> Lists] /\ zero \in [Kinds -> Int] /\ zero \in [Kinds -> Nat]
      BY <1>8, <1>10, <1>11, <1>12
    <3>2. /\ r.end \in [Kinds -> Int] /\ r.placed \in BOOLEAN /\ r.hidden \in BOOLEAN
          /\ r.lost \in SUBSET Keys
      BY <1>1, RosterFields
    <3>3. s = [log |-> lg, index |-> index, indexed |-> zero, cursor |-> zero, front |-> front, back |-> back, end |-> r.end,
               placed |-> r.placed, hidden |-> r.hidden, dead |-> 0, lost |-> r.lost]
      BY <1>1, <1>5, Zenon DEF Rosters
    <3>4. 0 \in Int OBVIOUS
    <3> QED BY <3>1, <3>2, <3>3, <3>4 DEF Rosters
  <2>2. s.log = lg /\ s.index = index /\ s.indexed = zero /\ s.cursor = zero /\ s.front = front /\ s.back = back
    BY <1>1, <1>5 DEF Rosters
  <2>3. s.end = r.end /\ s.placed = r.placed /\ s.hidden = r.hidden /\ s.dead = 0 /\ s.lost = r.lost
    BY <1>1, <1>5, Zenon DEF Rosters
  <2> QED BY <2>1, <2>2, <2>3
<1>14. Indexed(s)
  <2>1. \A p \in 1..n : Kind(lg[p]) \in Kinds /\ ~(p <= zero[Kind(lg[p])])
    <3> TAKE p \in 1..n
    <3>1. Kind(lg[p]) \in Kinds /\ 1 <= p
      BY <1>6, <1>8, LogFields
    <3> QED BY <1>12, <3>1
  <2>2. Taken(s) = {} BY <1>8, <1>13, <2>1 DEF Taken
  <2>3. \A d \in Kinds : UpToCursor(s, d) = {}
    BY <1>8, <1>12, <1>13 DEF UpToCursor
  <2>4. Holds(s, {})
    BY <1>7, <1>8, <1>11, <1>13 DEF Holds, Listing, Ordered
  <2>5. \A d \in Kinds : s.indexed[d] = Cardinality(UpToCursor(s, d))
    BY <1>12, <1>13, <2>3, FS_EmptySet
  <2> QED BY <2>2, <2>4, <2>5 DEF Indexed
<1>15. Paired(s) BY <1>7, <1>8, <1>13 DEF Paired
<1>16. Placed(s) BY <1>9, <1>10, <1>13 DEF Placed
<1>17. Divided(s)
  <2> SUFFICES ASSUME ~s.hidden, NEW d \in Kinds, NEW p \in Fronts(lg, d), NEW v \in Backs(lg, d)
               PROVE  lg[p].start <= r.end[d] - lg[v].start
    BY <1>13 DEF Divided
  <2>1. p \in 1..n /\ v \in 1..n BY <1>8 DEF Fronts, Backs
  <2>2. kept[p] \in Fronts(r.log, d) /\ kept[v] \in Backs(r.log, d)
    BY <1>7, <2>1 DEF Fronts, Backs
  <2>3. lg[p].start = r.log[kept[p]].start /\ lg[v].start = r.log[kept[v]].start
    BY <1>7, <2>1
  <2> QED BY <1>1, <1>13, <2>2, <2>3 DEF Divided
<1>18. Settled(s) BY <1>6, <1>8, <1>12, <1>13 DEF Settled
<1>19. DeadSet(s.log, Len(s.log)) = {}
  <2>1. \A i, j \in 1..n : lg[j].withdrew # i BY <1>6, <1>7
  <2> QED BY <1>7, <1>8, <1>13, <2>1 DEF DeadSet
<1>20. Copies(r, s, kept)
  <2>1. \A d \in Kinds : r.back[d] = << >> => s.back[d] = << >>
    <3> SUFFICES ASSUME NEW d \in Kinds, r.back[d] = << >> PROVE s.back[d] = << >>
      OBVIOUS
    <3>1. Len(s.back[d]) = 0 /\ s.back[d] \in Seq(Entries)
      BY <1>9, <1>10, <1>13
    <3> QED BY <3>1
  <2> QED BY <1>3, <1>6, <1>7, <1>8, <1>13, <2>1 DEF Copies
<1> QED BY <1>13, <1>14, <1>15, <1>16, <1>17, <1>18, <1>19, <1>20 DEF Sound, s, kept

-------------------------------------------------------------------------------
(* The move of a zipper, and a reopen.                                     *)

\* Entries flipped are in the reverse order, each where it starts from the other end.
LEMMA FlippedIs ==
  ASSUME NEW u \in Seq(Entries), NEW length \in Int
  PROVE  LET t == Flipped(u, length)
         IN /\ t \in Seq(Entries) /\ Len(t) = Len(u) /\ DOMAIN t = 1..Len(u)
            /\ \A p \in 1..Len(u) : /\ t[p].start = length - u[Len(u) + 1 - p].start
                                    /\ t[p].record = u[Len(u) + 1 - p].record
<1> DEFINE t == Flipped(u, length)
           n == Len(u)
<1>1. n \in Nat /\ DOMAIN u = 1..n /\ \A p \in 1..n : u[p] \in Entries /\ u[p].start \in Int
  BY EntryFields
<1>2. t = [p \in 1..n |-> Flip(u[n + 1 - p], length)]
  BY <1>1 DEF Flipped
<1>3. ASSUME NEW p \in 1..n
      PROVE  t[p] \in Entries /\ t[p].start = length - u[n + 1 - p].start /\ t[p].record = u[n + 1 - p].record
  <2> DEFINE e == u[n + 1 - p]
  <2>1. n + 1 - p \in 1..n BY <1>1
  <2>2. e \in Entries /\ e.start \in Int BY <1>1, <2>1
  <2>3. t[p] = [e EXCEPT !.start = length - e.start]
    BY <1>2 DEF Flip
  <2> HIDE DEF e, t
  <2>4. t[p] \in Entries /\ t[p].start = length - e.start /\ t[p].record = e.record
    <3>1. length - e.start \in Int BY <2>2
    <3>2. t[p].start = length - e.start
      BY <2>2, <2>3 DEF Entries
    <3>3. t[p].record = e.record BY <2>2, <2>3 DEF Entries
    <3>4. t[p] \in Entries
      <4> DEFINE z == length - e.start
      <4> HIDE DEF z
      <4>1. t[p] = [e EXCEPT !.start = z] /\ z \in Int
        BY <2>3, <3>1 DEF z
      <4> QED BY <2>2, <4>1, Zenon DEF Entries
    <3> QED BY <3>2, <3>3, <3>4
  <2> QED BY <2>4 DEF e
<1>4. t \in Seq(Entries) /\ Len(t) = n /\ DOMAIN t = 1..n
  <2>1. t = [p \in 1..n |-> t[p]] BY <1>2
  <2> HIDE DEF t
  <2>2. t \in [1..n -> Entries] BY <1>3, <2>1
  <2> QED BY <1>1, <2>2
<1> QED BY <1>3, <1>4, Zenon DEF t

\* Part of a zipper's entries moved over to the other side: the side f keeps its
\* first c, and the side b has the others, measured from the other end.
Shifted(f, b, c, length) ==
  [kept |-> SubSeq(f, 1, c), grown |-> b \o Flipped(SubSeq(f, c + 1, Len(f)), length)]
Over(f, c) == {f[p].record : p \in (c + 1)..Len(f)}
ShiftedWell(log, new, S, T, f, b, c, length) ==
  LET t == Shifted(f, b, c, length)
  IN /\ t.kept \in Seq(Entries) /\ Len(t.kept) = c
     /\ t.grown \in Seq(Entries) /\ Len(t.grown) = Len(b) + Len(f) - c
     /\ \A p \in (Len(b) + 1)..Len(t.grown) : \E v \in (c + 1)..Len(f) :
          t.grown[p].record = f[v].record /\ t.grown[p].start = length - f[v].start
     /\ \A v \in (c + 1)..Len(f) : \E p \in (Len(b) + 1)..Len(t.grown) : t.grown[p].record = f[v].record
     /\ Sits(new, S \ Over(f, c), t.kept)
     /\ Sits(new, T \cup Over(f, c), t.grown)

\* Entries moved over to the other part, last first, are in its order, each where its record now
\* starts: what was measured from the text's start is measured from its end, or the other way.
LEMMA ShiftOver ==
  ASSUME NEW log, NEW new, NEW S, NEW T, S \cap T = {}, NEW f \in Seq(Entries), NEW b \in Seq(Entries),
         Sits(log, S, f), Sits(log, T, b), NEW c \in 0..Len(f), NEW length \in Int,
         \A i \in S, j \in T : log[i].start <= length - log[j].start,
         \A i \in S \cup T : new[i].start = IF i \in Over(f, c) THEN length - log[i].start ELSE log[i].start
  PROVE  ShiftedWell(log, new, S, T, f, b, c, length)
<1> DEFINE n == Len(f)
           m == Len(b)
           U == Over(f, c)
           u == SubSeq(f, c + 1, n)
           w == Flipped(u, length)
           kept == SubSeq(f, 1, c)
           grown == b \o w
<1>1. /\ n \in Nat /\ m \in Nat /\ c \in Nat /\ c <= n /\ DOMAIN f = 1..n /\ DOMAIN b = 1..m
      /\ \A p \in 1..n : f[p] \in Entries /\ f[p].start \in Int
      /\ \A p \in 1..m : b[p] \in Entries /\ b[p].start \in Int
  BY EntryFields
<1>2. kept \in Seq(Entries) /\ Len(kept) = c /\ DOMAIN kept = 1..c /\ \A p \in 1..c : kept[p] = f[p] /\ p \in 1..n
  BY <1>1
<1>3. u \in Seq(Entries) /\ Len(u) = n - c /\ \A p \in 1..(n - c) : u[p] = f[c + p]
  BY SuffixFacts DEF u, n
<1> HIDE DEF u, kept
<1>4. /\ w \in Seq(Entries) /\ Len(w) = n - c /\ DOMAIN w = 1..(n - c)
      /\ \A p \in 1..(n - c) : /\ w[p].start = length - f[n + 1 - p].start
                               /\ w[p].record = f[n + 1 - p].record /\ n + 1 - p \in (c + 1)..n
  <2>1. /\ w \in Seq(Entries) /\ Len(w) = Len(u) /\ DOMAIN w = 1..Len(u)
        /\ \A p \in 1..Len(u) : /\ w[p].start = length - u[Len(u) + 1 - p].start
                                /\ w[p].record = u[Len(u) + 1 - p].record
    BY <1>3, FlippedIs, Zenon
  <2> HIDE DEF w
  <2>2. ASSUME NEW p \in 1..(n - c)
        PROVE /\ w[p].start = length - f[n + 1 - p].start
              /\ w[p].record = f[n + 1 - p].record /\ n + 1 - p \in (c + 1)..n
    <3>1. (n - c) + 1 - p \in 1..(n - c) /\ c + ((n - c) + 1 - p) = n + 1 - p /\ n + 1 - p \in (c + 1)..n
      <4>1. n \in Nat /\ c \in Nat /\ p \in 1..(n - c)
        BY <1>1
      <4> HIDE DEF n
      <4> QED BY <4>1
    <3>2. u[(n - c) + 1 - p] = f[c + ((n - c) + 1 - p)]
      BY <1>3, <3>1, Zenon
    <3> QED BY <1>3, <2>1, <3>1, <3>2, Zenon
  <2> QED BY <1>3, <2>1, <2>2
<1> HIDE DEF w
<1>5. grown \in Seq(Entries) /\ Len(grown) = m + (n - c) /\ DOMAIN grown = 1..(m + (n - c))
  <2>0. w \in Seq(Entries) /\ Len(w) = n - c BY <1>4
  <2>1. grown \in Seq(Entries) BY <2>0
  <2>2. Len(b \o w) = Len(b) + Len(w)
    BY <2>0, ConcatProperties, Zenon
  <2> HIDE DEF grown, n
  <2> QED BY <2>0, <2>1, <2>2 DEF grown
<1>6. \A p \in 1..(m + (n - c)) : grown[p] = IF p <= m THEN b[p] ELSE w[p - m]
  <2>1. w \in Seq(Entries) /\ Len(w) = n - c BY <1>4
  <2> QED BY <1>1, <2>1, ConcatProperties
<1> HIDE DEF grown, n, m
<1>7. \A p \in 1..m : p \in 1..(m + (n - c)) /\ grown[p] = b[p]
  BY <1>1, <1>6
<1>8. ASSUME NEW p \in 1..(m + (n - c)), p > m
      PROVE  /\ p \in (m + 1)..(m + (n - c)) /\ n + 1 - (p - m) \in (c + 1)..n
             /\ grown[p].start = length - f[n + 1 - (p - m)].start /\ grown[p].record = f[n + 1 - (p - m)].record
  <2> DEFINE q == p - m
  <2>1. q \in 1..(n - c) /\ p \in (m + 1)..(m + (n - c)) /\ ~(p <= m)
    BY <1>1, <1>8
  <2>2. grown[p] = w[q] BY <1>6, <2>1
  <2> HIDE DEF q
  <2>3. w[q].start = length - f[n + 1 - q].start /\ w[q].record = f[n + 1 - q].record /\ n + 1 - q \in (c + 1)..n
    BY <1>4, <2>1
  <2> QED BY <2>1, <2>2, <2>3 DEF q
<1>9. \A v \in (c + 1)..n : /\ m + (n + 1 - v) \in (m + 1)..(m + (n - c)) /\ m + (n + 1 - v) \in 1..(m + (n - c))
                            /\ grown[m + (n + 1 - v)].record = f[v].record
  <2> TAKE v \in (c + 1)..n
  <2> DEFINE p == m + (n + 1 - v)
  <2>1. p \in (m + 1)..(m + (n - c)) /\ p \in 1..(m + (n - c)) /\ p > m /\ n + 1 - (p - m) = v
    BY <1>1
  <2> HIDE DEF p
  <2>2. grown[p].record = f[v].record BY <1>8, <2>1
  <2> QED BY <2>1, <2>2 DEF p
<1>10. U = {f[p].record : p \in (c + 1)..n} /\ U \subseteq S /\ \A p \in (c + 1)..n : p \in 1..n
  <2>1. U = {f[p].record : p \in (c + 1)..n}
    BY DEF U, Over, n
  <2>2. \A p \in (c + 1)..n : p \in 1..n /\ f[p].record \in S
    <3>1. \A p \in 1..n : f[p].record \in S BY <1>1 DEF Sits
    <3>2. \A p \in (c + 1)..n : p \in 1..n BY <1>1
    <3> QED BY <3>1, <3>2
  <2> QED BY <2>1, <2>2
<1>11. \A p \in 1..c : f[p].record \notin U
  <2> TAKE p \in 1..c
  <2>1. \A v \in (c + 1)..n : p < v /\ p \in 1..n /\ v \in 1..n
    BY <1>1
  <2>2. \A v \in (c + 1)..n : f[p].record # f[v].record
    <3>1. \A a, v \in DOMAIN f : a < v => f[a].record # f[v].record
      BY DEF Sits
    <3>2. DOMAIN f = 1..n BY <1>1
    <3> HIDE DEF U
    <3> QED BY <2>1, <3>1, <3>2
  <2> HIDE DEF U
  <2> QED BY <1>10, <2>2
<1> HIDE DEF U
<1>12. \A p \in 1..n : f[p].record \in S /\ log[f[p].record].start = f[p].start
  BY <1>1, Zenon DEF Sits
<1>13. \A p \in 1..m : b[p].record \in T /\ log[b[p].record].start = b[p].start /\ b[p].record \notin U
  BY <1>1, <1>10, Zenon DEF Sits
<1>14. \A i \in S \cup T : new[i].start = IF i \in U THEN length - log[i].start ELSE log[i].start
  BY DEF U
<1>15. Sits(new, S \ U, kept)
  <2>1. \A p \in 1..c : kept[p].record \in S \ U /\ new[kept[p].record].start = kept[p].start
    BY <1>2, <1>11, <1>12, <1>14
  <2>2. \A i \in S \ U : \E p \in 1..c : kept[p].record = i
    <3> TAKE i \in S \ U
    <3>1. PICK p \in 1..n : f[p].record = i BY <1>1 DEF Sits
    <3>2. p \notin (c + 1)..n BY <1>10, <3>1
    <3>3. p \in 1..c BY <1>1, <3>2
    <3> QED BY <1>2, <3>1, <3>3, Zenon
  <2>3. \A p, v \in 1..c : p < v => kept[p].record # kept[v].record /\ kept[p].start <= kept[v].start
    <3>1. \A p, v \in 1..n : p < v => f[p].record # f[v].record /\ f[p].start <= f[v].start
      BY <1>1, Zenon DEF Sits
    <3> QED BY <1>2, <3>1
  <2> QED BY <1>2, <2>1, <2>2, <2>3, Zenon DEF Sits
<1>16. Sits(new, T \cup U, grown)
  <2>1. ASSUME NEW p \in 1..(m + (n - c)) PROVE grown[p].record \in T \cup U /\ new[grown[p].record].start = grown[p].start
    <3>1. CASE p <= m
      <4>1. p \in 1..m BY <1>1, <3>1
      <4> QED BY <1>7, <1>13, <1>14, <4>1
    <3>2. CASE p > m
      <4> DEFINE v == n + 1 - (p - m)
      <4>1. v \in (c + 1)..n /\ grown[p].start = length - f[v].start /\ grown[p].record = f[v].record
        BY <1>8, <3>2
      <4> HIDE DEF v
      <4>2. v \in 1..n /\ f[v].record \in U /\ f[v].record \in S
        BY <1>10, <1>12, <4>1
      <4> QED BY <1>12, <1>14, <4>1, <4>2
    <3> QED BY <1>1, <3>1, <3>2
  <2>2. \A i \in T \cup U : \E p \in 1..(m + (n - c)) : grown[p].record = i
    <3> TAKE i \in T \cup U
    <3>1. CASE i \in T
      <4>1. PICK p \in 1..m : b[p].record = i
        BY <1>1, <3>1 DEF Sits
      <4> QED BY <1>7, <4>1
    <3>2. CASE i \in U
      <4>1. PICK v \in (c + 1)..n : f[v].record = i
        BY <1>10, <3>2
      <4> QED BY <1>9, <4>1, Zenon
    <3> QED BY <3>1, <3>2
  <2>3. ASSUME NEW p \in 1..(m + (n - c)), NEW q \in 1..(m + (n - c)), p < q
        PROVE  grown[p].record # grown[q].record /\ grown[p].start <= grown[q].start
    <3> DEFINE v == n + 1 - (p - m)
               x == n + 1 - (q - m)
    <3>1. CASE q <= m
      <4>1. p \in 1..m /\ q \in 1..m BY <1>1, <2>3, <3>1
      <4> QED
        <5>1. \A a, e \in 1..m : a < e => b[a].record # b[e].record /\ b[a].start <= b[e].start
          BY <1>1, Zenon DEF Sits
        <5>2. grown[p] = b[p] /\ grown[q] = b[q]
          BY <1>7, <4>1
        <5> QED BY <2>3, <4>1, <5>1, <5>2
    <3>2. CASE p <= m /\ q > m
      <4>1. p \in 1..m BY <1>1, <3>2
      <4>2. x \in (c + 1)..n /\ grown[q].start = length - f[x].start /\ grown[q].record = f[x].record
        BY <1>8, <3>2
      <4> HIDE DEF x
      <4>3. x \in 1..n /\ f[x].record \in U /\ f[x].record \in S
        BY <1>10, <1>12, <4>2
      <4>4. grown[p] = b[p] /\ b[p].record \in T /\ b[p].record \notin U /\ b[p].start \in Int /\ f[x].start \in Int
        BY <1>1, <1>7, <1>13, <4>1, <4>3
      <4>5. f[x].start <= length - b[p].start
        BY <1>12, <1>13, <4>1, <4>3, <4>4, Zenon
      <4> QED BY <4>2, <4>3, <4>4, <4>5, SMTT(30)
    <3>3. CASE p > m
      <4>1. q > m /\ x < v BY <1>1, <2>3, <3>3
      <4>2. v \in (c + 1)..n /\ grown[p].start = length - f[v].start /\ grown[p].record = f[v].record
        BY <1>8, <3>3
      <4>3. x \in (c + 1)..n /\ grown[q].start = length - f[x].start /\ grown[q].record = f[x].record
        BY <1>8, <4>1
      <4> HIDE DEF x, v
      <4>4. x \in 1..n /\ v \in 1..n BY <1>10, <4>2, <4>3
      <4>5. \A a, e \in 1..n : a < e => f[a].record # f[e].record /\ f[a].start <= f[e].start
        BY <1>1, Zenon DEF Sits
      <4>6. f[x].start \in Int /\ f[v].start \in Int
        BY <1>1, <4>4
      <4>7. f[x].record # f[v].record /\ f[x].start <= f[v].start
        BY <4>1, <4>4, <4>5, Zenon
      <4> QED BY <4>2, <4>3, <4>6, <4>7
    <3> QED BY <1>1, <3>1, <3>2, <3>3
  <2> QED BY <1>5, <2>1, <2>2, <2>3 DEF Sits
<1>17. Shifted(f, b, c, length) = [kept |-> kept, grown |-> grown]
  BY DEF Shifted, kept, grown, w, u, n
<1>18. Len(grown) = m + n - c BY <1>1, <1>5
<1>19. \A p \in (m + 1)..Len(grown) : \E v \in (c + 1)..n : grown[p].record = f[v].record /\ grown[p].start = length - f[v].start
  <2> TAKE p \in (m + 1)..Len(grown)
  <2>1. p \in 1..(m + (n - c)) /\ p > m BY <1>1, <1>5
  <2> DEFINE v == n + 1 - (p - m)
  <2>2. v \in (c + 1)..n /\ grown[p].start = length - f[v].start /\ grown[p].record = f[v].record
    BY <1>8, <2>1
  <2> HIDE DEF v
  <2> QED BY <2>2
<1>20. \A v \in (c + 1)..n : \E p \in (m + 1)..Len(grown) : grown[p].record = f[v].record
  BY <1>5, <1>9, Zenon
<1> HIDE DEF kept, grown
<1> DEFINE t == Shifted(f, b, c, length)
<1>21. t.kept = kept /\ t.grown = grown BY <1>17
<1> HIDE DEF t
<1>22. /\ t.kept \in Seq(Entries) /\ Len(t.kept) = c /\ t.grown \in Seq(Entries) /\ Len(t.grown) = m + n - c
       /\ Sits(new, S \ U, t.kept) /\ Sits(new, T \cup U, t.grown)
  BY <1>2, <1>5, <1>15, <1>16, <1>18, <1>21
<1>23. \A p \in (m + 1)..Len(t.grown) : \E v \in (c + 1)..n :
         t.grown[p].record = f[v].record /\ t.grown[p].start = length - f[v].start
  BY <1>19, <1>21, Zenon
<1>24. \A v \in (c + 1)..n : \E p \in (m + 1)..Len(t.grown) : t.grown[p].record = f[v].record
  BY <1>20, <1>21
<1> QED BY <1>22, <1>23, <1>24 DEF ShiftedWell, U, n, m, t

\* The entries of the back that start before a place of the text are its last ones.
LEMMA BackIs ==
  ASSUME NEW back \in Seq(Entries), NEW place \in Int, NEW end \in Int,
         \A p, q \in DOMAIN back : p < q => back[p].start <= back[q].start
  PROVE  /\ BackFrom(back, end, place) \in 0..Len(back)
         /\ \A p \in 1..Len(back) : end - back[p].start < place <=> p > Len(back) - BackFrom(back, end, place)
<1> DEFINE n == Len(back)
           P == {p \in 1..n : end - back[p].start >= place}
           Q == {p \in 1..n : end - back[p].start < place}
           c == Cardinality(P)
<1>1. n \in Nat /\ DOMAIN back = 1..n /\ \A p \in 1..n : back[p].start \in Int
  BY EntryFields
<1>2. P \in SUBSET (1..n) OBVIOUS
<1>3. ASSUME NEW p \in P PROVE 1..p \subseteq P
  <2>1. p \in 1..n /\ end - back[p].start >= place OBVIOUS
  <2>2. ASSUME NEW q \in 1..p PROVE q \in 1..n /\ end - back[q].start >= place
    <3>1. q \in 1..n /\ (q < p \/ q = p) BY <1>1, <2>1
    <3>2. back[q].start <= back[p].start /\ back[q].start \in Int /\ back[p].start \in Int
      BY <1>1, <2>1, <3>1
    <3> QED BY <2>1, <3>1, <3>2
  <2> QED BY <2>2
<1>4. c \in 0..n /\ IsFiniteSet(P) /\ \A p \in 1..n : p \in P <=> p <= c
  <2> HIDE DEF P, n
  <2> QED BY <1>1, <1>2, <1>3, DownIs
<1>5. Q = (1..n) \ P BY <1>1
<1>6. Cardinality(Q) = n - c
  <2>1. IsFiniteSet(1..n) /\ Cardinality(1..n) = n
    BY <1>1, FS_Interval, SMTT(30)
  <2>2. (1..n) \cap P = P BY <1>2
  <2> HIDE DEF P, Q, n
  <2>3. Cardinality((1..n) \ P) = Cardinality(1..n) - Cardinality((1..n) \cap P)
    BY <2>1, FS_Difference, Zenon
  <2> QED BY <1>5, <2>1, <2>2, <2>3, Zenon DEF c
<1>7. BackFrom(back, end, place) = n - c
  BY <1>1, <1>6, Zenon DEF BackFrom
<1>8. \A p \in 1..n : end - back[p].start < place <=> p > c
  <2> TAKE p \in 1..n
  <2>1. p \in P <=> p <= c BY <1>4
  <2>2. c \in Nat /\ p \in Nat /\ back[p].start \in Int
    BY <1>1, <1>4
  <2> HIDE DEF c
  <2> QED BY <2>1, <2>2
<1> HIDE DEF c, n, P, Q
<1>9. n - (n - c) = c /\ n - c \in 0..n BY <1>1, <1>4
<1> QED BY <1>7, <1>8, <1>9 DEF n

Turned(r, place, length) ==
  {i \in DOMAIN r.log : /\ Stands(r.log[i])
                        /\ IF r.log[i].back THEN length - r.log[i].start < place ELSE r.log[i].start >= place}

\* The two parts a move to a place leaves, and what came to each.
MovedWell(r, new, d, place, length) ==
  LET m == Move(r, d, place, length)
      f == r.front[d]
      b == r.back[d]
      S == Fronts(r.log, d)
      T == Backs(r.log, d)
      U == Turned(r, place, length)
  IN /\ m.front \in Seq(Entries) /\ m.back \in Seq(Entries)
     /\ Sits(new, (S \ U) \cup (T \cap U), m.front) /\ Sits(new, (T \ U) \cup (S \cap U), m.back)
     /\ \A p \in (Len(f) + 1)..Len(m.front) :
          m.front[p].record \in T \cap U /\ m.front[p].start = length - r.log[m.front[p].record].start
     /\ \A i \in T \cap U : \E p \in (Len(f) + 1)..Len(m.front) : m.front[p].record = i
     /\ \A p \in (Len(b) + 1)..Len(m.back) :
          m.back[p].record \in S \cap U /\ m.back[p].start = length - r.log[m.back[p].record].start
     /\ \A i \in S \cap U : \E p \in (Len(b) + 1)..Len(m.back) : m.back[p].record = i

\* One side's entries from c on, when only that side's are turned.
LEMMA ShiftTurned ==
  ASSUME NEW log, NEW new, NEW S, NEW T, S \cap T = {}, NEW f \in Seq(Entries), NEW b \in Seq(Entries),
         Sits(log, S, f), Sits(log, T, b), NEW c \in 0..Len(f), NEW length \in Int,
         \A i \in S, j \in T : log[i].start <= length - log[j].start,
         NEW U, \A p \in 1..Len(f) : f[p].record \in U <=> p > c, T \cap U = {},
         \A i \in S \cup T : new[i].start = IF i \in U THEN length - log[i].start ELSE log[i].start
  PROVE  Over(f, c) = S \cap U /\ ShiftedWell(log, new, S, T, f, b, c, length)
<1>1. /\ Len(f) \in Nat /\ DOMAIN f = 1..Len(f) /\ c \in Nat
      /\ \A p \in (c + 1)..Len(f) : p \in 1..Len(f) /\ p > c
      /\ \A p \in 1..Len(f) : p > c => p \in (c + 1)..Len(f)
  BY EntryFields
<1>2. Over(f, c) = S \cap U
  <2>1. \A i \in Over(f, c) : i \in S \cap U
    BY <1>1 DEF Over, Sits
  <2>2. ASSUME NEW i \in S \cap U PROVE i \in Over(f, c)
    <3>1. PICK p \in 1..Len(f) : f[p].record = i
      BY <1>1 DEF Sits
    <3> QED BY <1>1, <3>1 DEF Over
  <2> QED BY <2>1, <2>2
<1>3. \A i \in S \cup T : new[i].start = IF i \in Over(f, c) THEN length - log[i].start ELSE log[i].start
  BY <1>2
<1> QED BY <1>2, <1>3, ShiftOver

\* Nothing is flipped of an empty part, and a whole sequence is its first members.
LEMMA NoneFlipped ==
  ASSUME NEW s \in Seq(Entries), NEW length \in Int
  PROVE  Flipped(SubSeq(s, Len(s) + 1, Len(s)), length) = << >> /\ SubSeq(s, 1, Len(s)) = s
<1> DEFINE u == SubSeq(s, Len(s) + 1, Len(s))
<1>1. u \in Seq(Entries) /\ Len(u) = 0 OBVIOUS
<1> HIDE DEF u
<1>2. Flipped(u, length) \in Seq(Entries) /\ Len(Flipped(u, length)) = 0
  BY <1>1, FlippedIs, Zenon
<1>3. Flipped(u, length) = << >> BY <1>2, EmptySeq
<1>4. SubSeq(s, 1, Len(s)) = s OBVIOUS
<1> QED BY <1>3, <1>4 DEF u

\* name_move of the zipper leaves two parts in order, the entries before the place in the front and
\* the others in the back, and those it moved over come after the ones that were there.
LEMMA MoveIs ==
  ASSUME NEW r \in Rosters, NEW d \in Kinds, NEW place \in Int, NEW length \in Int,
         Sits(r.log, Fronts(r.log, d), r.front[d]), Sits(r.log, Backs(r.log, d), r.back[d]),
         \A i \in Fronts(r.log, d), j \in Backs(r.log, d) : r.log[i].start <= length - r.log[j].start,
         NEW new, \A i \in Fronts(r.log, d) \cup Backs(r.log, d) :
                    new[i].start = IF i \in Turned(r, place, length) THEN length - r.log[i].start ELSE r.log[i].start
  PROVE  MovedWell(r, new, d, place, length)
<1> DEFINE log == r.log
           f == r.front[d]
           b == r.back[d]
           S == Fronts(r.log, d)
           T == Backs(r.log, d)
           U == Turned(r, place, length)
           first == FrontFrom(f, place)
           taken == BackFrom(b, length, place)
           m == Move(r, d, place, length)
<1>1. f \in Seq(Entries) /\ b \in Seq(Entries) /\ Len(f) \in Nat /\ Len(b) \in Nat /\ DOMAIN f = 1..Len(f) /\ DOMAIN b = 1..Len(b)
  BY RosterFields, EntryFields
<1>2. S \cap T = {} /\ S \subseteq DOMAIN log /\ T \subseteq DOMAIN log
  BY DEF Fronts, Backs
<1>3. \A i \in S : i \in U <=> ~(log[i].start < place)
  <2>1. \A i \in S : i \in DOMAIN log /\ Stands(log[i]) /\ ~log[i].back /\ log[i].start \in Int
    BY RosterFields, LogFields DEF Fronts
  <2> QED BY <2>1 DEF Turned
<1>4. \A i \in T : i \in U <=> length - log[i].start < place
  <2>1. \A i \in T : i \in DOMAIN log /\ Stands(log[i]) /\ log[i].back
    BY DEF Backs
  <2> QED BY <2>1 DEF Turned
<1>5. first \in 0..Len(f) /\ \A p \in 1..Len(f) : f[p].start < place <=> p <= first
  <2>1. \A p, q \in DOMAIN f : p < q => f[p].start <= f[q].start
    BY DEF Sits
  <2> HIDE DEF f
  <2> QED BY <1>1, <2>1, FrontIs, Zenon
<1>6. taken \in 0..Len(b) /\ \A p \in 1..Len(b) : length - b[p].start < place <=> p > Len(b) - taken
  <2>1. \A p, q \in DOMAIN b : p < q => b[p].start <= b[q].start
    BY DEF Sits
  <2> HIDE DEF b
  <2> QED BY <1>1, <2>1, BackIs, Zenon
<1>7. \A p \in 1..Len(f) : f[p].record \in S /\ log[f[p].record].start = f[p].start
  BY <1>1 DEF Sits
<1>8. \A p \in 1..Len(b) : b[p].record \in T /\ log[b[p].record].start = b[p].start
  BY <1>1 DEF Sits
<1>9. /\ \A i \in S, j \in T : log[i].start <= length - log[j].start
      /\ \A i \in S \cup T : new[i].start = IF i \in U THEN length - log[i].start ELSE log[i].start
      /\ Sits(log, S, f) /\ Sits(log, T, b)
  OBVIOUS
<1>10. m = LET pushed == b \o Flipped(SubSeq(f, first + 1, Len(f)), length)
               left == Len(pushed) - taken
           IN [front |-> SubSeq(f, 1, first) \o Flipped(SubSeq(pushed, left + 1, Len(pushed)), length),
               back  |-> SubSeq(pushed, 1, left)]
  BY DEF Move
<1> HIDE DEF f, b, S, T, U, first, taken, m, log
<1>11. CASE taken = 0
  <2> DEFINE t == Shifted(f, b, first, length)
  <2>1. \A p \in 1..Len(f) : f[p].record \in U <=> p > first
    <3> TAKE p \in 1..Len(f)
    <3>1. f[p].record \in U <=> ~(f[p].start < place)
      BY <1>3, <1>7
    <3>2. p \in Nat /\ first \in Nat BY <1>5
    <3> QED BY <1>5, <3>1, <3>2
  <2>2. T \cap U = {}
    <3> SUFFICES ASSUME NEW j \in T, j \in U PROVE FALSE
      OBVIOUS
    <3>1. PICK p \in 1..Len(b) : b[p].record = j
      BY <1>1, <1>9 DEF Sits
    <3>2. length - b[p].start < place BY <1>4, <1>8, <3>1
    <3> QED BY <1>1, <1>6, <1>11, <3>2
  <2>3. Over(f, first) = S \cap U /\ ShiftedWell(log, new, S, T, f, b, first, length)
    BY <1>1, <1>2, <1>5, <1>9, <2>1, <2>2, ShiftTurned, Zenon
  <2>4. /\ t.kept \in Seq(Entries) /\ Len(t.kept) = first
        /\ t.grown \in Seq(Entries) /\ Len(t.grown) = Len(b) + Len(f) - first
        /\ \A p \in (Len(b) + 1)..Len(t.grown) : \E v \in (first + 1)..Len(f) :
             t.grown[p].record = f[v].record /\ t.grown[p].start = length - f[v].start
        /\ \A v \in (first + 1)..Len(f) : \E p \in (Len(b) + 1)..Len(t.grown) : t.grown[p].record = f[v].record
        /\ Sits(new, S \ U, t.kept)
        /\ Sits(new, T \cup (S \cap U), t.grown)
    <3>1. S \ (S \cap U) = S \ U OBVIOUS
    <3> QED BY <2>3, <3>1, Zenon DEF ShiftedWell
  <2>5. m.front = t.kept /\ m.back = t.grown
    <3> DEFINE pushed == b \o Flipped(SubSeq(f, first + 1, Len(f)), length)
               front == SubSeq(f, 1, first)
    <3>1. t.grown = pushed /\ t.kept = front
      BY Zenon DEF Shifted
    <3>2. pushed \in Seq(Entries) /\ Len(pushed) \in Nat /\ front \in Seq(Entries)
      BY <2>4, <3>1
    <3>3. m = [front |-> front \o Flipped(SubSeq(pushed, Len(pushed) - taken + 1, Len(pushed)), length),
               back |-> SubSeq(pushed, 1, Len(pushed) - taken)]
      BY <1>10
    <3> HIDE DEF pushed, front
    <3>4. Len(pushed) - taken = Len(pushed) BY <1>11, <3>2
    <3>5. Flipped(SubSeq(pushed, Len(pushed) + 1, Len(pushed)), length) = << >> /\ SubSeq(pushed, 1, Len(pushed)) = pushed
      BY <3>2, NoneFlipped
    <3>6. m = [front |-> front \o << >>, back |-> pushed]
      BY <3>3, <3>4, <3>5, Zenon
    <3>7. front \o << >> = front BY <3>2, ConcatEmptySeq
    <3> QED BY <3>1, <3>6, <3>7
  <2> HIDE DEF t
  <2>6. m.front \in Seq(Entries) /\ m.back \in Seq(Entries)
    BY <2>4, <2>5
  <2>7. Sits(new, (S \ U) \cup (T \cap U), m.front) /\ Sits(new, (T \ U) \cup (S \cap U), m.back)
    <3>1. (S \ U) \cup (T \cap U) = S \ U /\ (T \ U) \cup (S \cap U) = T \cup (S \cap U)
      BY <2>2
    <3> QED BY <2>4, <2>5, <3>1, Zenon
  <2>8. \A p \in (Len(f) + 1)..Len(m.front) : FALSE
    BY <1>1, <1>5, <2>4, <2>5
  <2>9. ASSUME NEW p \in (Len(b) + 1)..Len(m.back)
        PROVE m.back[p].record \in S \cap U /\ m.back[p].start = length - log[m.back[p].record].start
    <3>1. PICK v \in (first + 1)..Len(f) : m.back[p].record = f[v].record /\ m.back[p].start = length - f[v].start
      BY <2>4, <2>5
    <3>2. v \in 1..Len(f) /\ v > first BY <1>1, <1>5
    <3> QED BY <1>7, <2>1, <3>1, <3>2
  <2>10. ASSUME NEW i \in S \cap U PROVE \E p \in (Len(b) + 1)..Len(m.back) : m.back[p].record = i
    <3>1. PICK v \in 1..Len(f) : f[v].record = i
      BY <1>1, <1>9 DEF Sits
    <3>2. v \in (first + 1)..Len(f)
      BY <1>1, <1>5, <2>1, <3>1
    <3>3. PICK p \in (Len(b) + 1)..Len(t.grown) : t.grown[p].record = f[v].record
      BY <2>4, <3>2
    <3> QED BY <2>5, <3>1, <3>3
  <2> QED BY <2>2, <2>6, <2>7, <2>8, <2>9, <2>10 DEF MovedWell, f, b, S, T, U, m, log
<1>12. CASE taken # 0
  <2> DEFINE c == Len(b) - taken
             t == Shifted(b, f, c, length)
  <2>0. c \in 0..Len(b) /\ Len(b) \in 1..Len(b) /\ Len(b) > c
    BY <1>1, <1>6, <1>12
  <2>1. \A p \in 1..Len(f) : f[p].start < place
    <3> TAKE p \in 1..Len(f)
    <3> DEFINE q == Len(b)
    <3>1. length - b[q].start < place BY <1>6, <2>0
    <3>2. f[p].start <= length - b[q].start
      BY <1>7, <1>8, <1>9, <2>0
    <3>3. f[p].start \in Int /\ b[q].start \in Int
      BY <1>1, <2>0, EntryFields, Zenon
    <3> QED BY <3>1, <3>2, <3>3
  <2>2. first = Len(f)
    <3> SUFFICES ASSUME first # Len(f) PROVE FALSE OBVIOUS
    <3> DEFINE n == Len(f)
    <3>0. n \in Nat /\ first \in 0..n /\ first # n
      BY <1>1, <1>5, Zenon
    <3> HIDE DEF n
    <3>1. n \in 1..n /\ ~(n <= first) BY <3>0
    <3> QED BY <1>5, <2>1, <3>1 DEF n
  <2>3. S \cap U = {}
    <3> SUFFICES ASSUME NEW i \in S, i \in U PROVE FALSE
      OBVIOUS
    <3>1. PICK p \in 1..Len(f) : f[p].record = i
      BY <1>1, <1>9 DEF Sits
    <3> QED BY <1>3, <1>7, <2>1, <3>1
  <2>4. \A p \in 1..Len(b) : b[p].record \in U <=> p > c
    BY <1>4, <1>6, <1>8, Zenon
  <2>5. Over(b, c) = T \cap U /\ ShiftedWell(log, new, T, S, b, f, c, length)
    <3>1. T \cap S = {} /\ S \cap U = {} BY <1>2, <2>3
    <3>2. \A i \in T, j \in S : log[i].start <= length - log[j].start
      <4> TAKE i \in T, j \in S
      <4>1. log[j].start <= length - log[i].start BY <1>9
      <4>2. log[i].start \in Int /\ log[j].start \in Int
        BY <1>2, RosterFields, LogFields, Zenon DEF log
      <4> QED BY <4>1, <4>2
    <3>3. \A i \in T \cup S : new[i].start = IF i \in U THEN length - log[i].start ELSE log[i].start
      BY <1>9
    <3> HIDE DEF c
    <3> QED BY <1>1, <1>9, <2>0, <2>4, <3>1, <3>2, <3>3, ShiftTurned, Zenon
  <2>6. /\ t.kept \in Seq(Entries) /\ Len(t.kept) = c
        /\ t.grown \in Seq(Entries) /\ Len(t.grown) = Len(f) + Len(b) - c
        /\ \A p \in (Len(f) + 1)..Len(t.grown) : \E v \in (c + 1)..Len(b) :
             t.grown[p].record = b[v].record /\ t.grown[p].start = length - b[v].start
        /\ \A v \in (c + 1)..Len(b) : \E p \in (Len(f) + 1)..Len(t.grown) : t.grown[p].record = b[v].record
        /\ Sits(new, T \ U, t.kept)
        /\ Sits(new, S \cup (T \cap U), t.grown)
    <3>1. T \ (T \cap U) = T \ U OBVIOUS
    <3> HIDE DEF c
    <3> QED BY <2>5, <3>1, Zenon DEF ShiftedWell
  <2>7. m.front = t.grown /\ m.back = t.kept
    <3>1. Flipped(SubSeq(f, first + 1, Len(f)), length) = << >> /\ SubSeq(f, 1, first) = f
      BY <1>1, <2>2, NoneFlipped
    <3>2. b \o Flipped(SubSeq(f, first + 1, Len(f)), length) = b
      BY <1>1, <3>1, ConcatEmptySeq, Zenon
    <3>3. m = [front |-> f \o Flipped(SubSeq(b, c + 1, Len(b)), length), back |-> SubSeq(b, 1, c)]
      BY <1>10, <3>1, <3>2, Zenon
    <3> QED BY <3>3, Zenon DEF Shifted
  <2> HIDE DEF t, c
  <2>8. m.front \in Seq(Entries) /\ m.back \in Seq(Entries)
    BY <2>6, <2>7
  <2>9. Sits(new, (S \ U) \cup (T \cap U), m.front) /\ Sits(new, (T \ U) \cup (S \cap U), m.back)
    <3>1. (S \ U) \cup (T \cap U) = S \cup (T \cap U) /\ (T \ U) \cup (S \cap U) = T \ U
      BY <2>3
    <3> QED BY <2>6, <2>7, <3>1, Zenon
  <2>10. \A p \in (Len(b) + 1)..Len(m.back) : FALSE
    BY <1>1, <2>0, <2>6, <2>7
  <2>11. ASSUME NEW p \in (Len(f) + 1)..Len(m.front)
         PROVE m.front[p].record \in T \cap U /\ m.front[p].start = length - log[m.front[p].record].start
    <3>1. PICK v \in (c + 1)..Len(b) : m.front[p].record = b[v].record /\ m.front[p].start = length - b[v].start
      BY <2>6, <2>7
    <3>2. v \in 1..Len(b) /\ v > c BY <1>1, <2>0
    <3> QED BY <1>8, <2>4, <3>1, <3>2
  <2>12. ASSUME NEW i \in T \cap U PROVE \E p \in (Len(f) + 1)..Len(m.front) : m.front[p].record = i
    <3>1. PICK v \in 1..Len(b) : b[v].record = i
      BY <1>1, <1>9 DEF Sits
    <3>2. v \in (c + 1)..Len(b) BY <1>1, <2>0, <2>4, <3>1
    <3>3. PICK p \in (Len(f) + 1)..Len(t.grown) : t.grown[p].record = b[v].record
      BY <2>6, <3>2
    <3> QED BY <2>7, <3>1, <3>3
  <2> QED BY <2>3, <2>8, <2>9, <2>10, <2>11, <2>12 DEF MovedWell, f, b, S, T, U, m, log
<1> QED BY <1>11, <1>12

\* The log once the move of every kind's zipper was followed.
Follows(r, place, length) ==
  [i \in DOMAIN r.log |->
    IF i \in Turned(r, place, length)
    THEN [r.log[i] EXCEPT !.start = length - r.log[i].start, !.back = ~r.log[i].back]
    ELSE r.log[i]]

\* Two truth values that imply each other are equal.
LEMMA SameTruth ==
  ASSUME NEW P \in BOOLEAN, NEW Q \in BOOLEAN, P <=> Q
  PROVE  P = Q
OBVIOUS

\* The records a reopen writes to are those of the entries the move took to the other part, and
\* each then starts, and is on the side, where its entry is.
LEMMA FollowedIs ==
  ASSUME NEW r \in Rosters, NEW place \in Int, NEW length \in Int, NEW new,
         \A d \in Kinds : MovedWell(r, new, d, place, length)
  PROVE  Followed(r, [d \in Kinds |-> Move(r, d, place, length)]) = Follows(r, place, length)
<1> DEFINE log == r.log
           parts == [d \in Kinds |-> Move(r, d, place, length)]
           U == Turned(r, place, length)
           fresh(old, now) == {now[p] : p \in (Len(old) + 1)..Len(now)}
           backed == UNION {fresh(r.back[d], parts[d].back) : d \in Kinds}
           fronted == UNION {fresh(r.front[d], parts[d].front) : d \in Kinds}
           moved(i) == CHOOSE e \in backed \cup fronted : e.record = i
<1>1. ASSUME NEW e \in backed
      PROVE  e.record \in U /\ e.record \in DOMAIN log /\ ~log[e.record].back /\ e.start = length - log[e.record].start
  <2>1. PICK d \in Kinds : e \in fresh(r.back[d], parts[d].back)
    OBVIOUS
  <2>2. PICK p \in (Len(r.back[d]) + 1)..Len(Move(r, d, place, length).back) : e = Move(r, d, place, length).back[p]
    BY <2>1
  <2>3. e.record \in Fronts(r.log, d) \cap U /\ e.start = length - log[e.record].start
    BY <2>2, Zenon DEF MovedWell
  <2> QED BY <2>3 DEF Fronts
<1>2. ASSUME NEW e \in fronted
      PROVE  e.record \in U /\ e.record \in DOMAIN log /\ log[e.record].back /\ e.start = length - log[e.record].start
  <2>1. PICK d \in Kinds : e \in fresh(r.front[d], parts[d].front)
    OBVIOUS
  <2>2. PICK p \in (Len(r.front[d]) + 1)..Len(Move(r, d, place, length).front) : e = Move(r, d, place, length).front[p]
    BY <2>1
  <2>3. e.record \in Backs(r.log, d) \cap U /\ e.start = length - log[e.record].start
    BY <2>2, Zenon DEF MovedWell
  <2> QED BY <2>3 DEF Backs
<1>3. ASSUME NEW i \in U PROVE \E e \in backed \cup fronted : e.record = i
  <2> DEFINE d == Kind(log[i])
             m == Move(r, d, place, length)
  <2>1. i \in DOMAIN log /\ Stands(log[i]) BY DEF Turned
  <2>2. d \in Kinds /\ log[i].back \in BOOLEAN
    BY <2>1, RosterFields, LogFields
  <2>3. parts[d] = m BY <2>2
  <2>4. CASE log[i].back
    <3>1. i \in Backs(r.log, d) \cap U
      BY <2>1, <2>4 DEF Backs
    <3>2. PICK p \in (Len(r.front[d]) + 1)..Len(m.front) : m.front[p].record = i
      BY <2>2, <3>1, Zenon DEF MovedWell
    <3>3. m.front[p] \in fresh(r.front[d], parts[d].front)
      BY <2>3
    <3>4. m.front[p] \in fronted BY <2>2, <3>3
    <3> QED BY <3>2, <3>4, Zenon
  <2>5. CASE ~log[i].back
    <3>1. i \in Fronts(r.log, d) \cap U
      BY <2>1, <2>5 DEF Fronts
    <3>2. PICK p \in (Len(r.back[d]) + 1)..Len(m.back) : m.back[p].record = i
      BY <2>2, <3>1, Zenon DEF MovedWell
    <3>3. m.back[p] \in fresh(r.back[d], parts[d].back)
      BY <2>3, Zenon
    <3>4. m.back[p] \in backed BY <2>2, <3>3
    <3> QED BY <3>2, <3>4, Zenon
  <2> QED BY <2>4, <2>5
<1>4. Followed(r, parts) =
        [i \in DOMAIN log |->
          IF \E e \in backed \cup fronted : e.record = i
          THEN [log[i] EXCEPT !.start = moved(i).start, !.back = moved(i) \in backed]
          ELSE log[i]]
  BY DEF Followed
<1> HIDE DEF backed, fronted
<1>5. \A i \in DOMAIN log : (\E e \in backed \cup fronted : e.record = i) <=> i \in U
  BY <1>1, <1>2, <1>3
<1>6. ASSUME NEW i \in U
      PROVE  moved(i).start = length - log[i].start /\ ((moved(i) \in backed) <=> ~log[i].back)
  <2>1. moved(i) \in backed \cup fronted /\ moved(i).record = i
    BY <1>3
  <2> HIDE DEF moved
  <2> QED BY <1>1, <1>2, <2>1
<1>7. ASSUME NEW i \in U
      PROVE  [log[i] EXCEPT !.start = moved(i).start, !.back = moved(i) \in backed]
               = [log[i] EXCEPT !.start = length - log[i].start, !.back = ~log[i].back]
  <2>1. moved(i).start = length - log[i].start BY <1>6
  <2>2. (moved(i) \in backed) = (~log[i].back)
    <3> DEFINE e == moved(i)
               x == log[i]
    <3>1. (e \in backed) <=> ~x.back BY <1>6
    <3> HIDE DEF e, x
    <3>2. (e \in backed) \in BOOLEAN /\ (~x.back) \in BOOLEAN
      OBVIOUS
    <3>3. (e \in backed) = (~x.back)
      BY <3>1, <3>2, SameTruth
    <3> QED BY <3>3 DEF e, x
  <2> HIDE DEF moved, log
  <2> QED BY <2>1, <2>2, Zenon
<1> HIDE DEF moved, U, log
<1>8. \A i \in DOMAIN log :
        (IF \E e \in backed \cup fronted : e.record = i
         THEN [log[i] EXCEPT !.start = moved(i).start, !.back = moved(i) \in backed]
         ELSE log[i])
        = (IF i \in U THEN [log[i] EXCEPT !.start = length - log[i].start, !.back = ~log[i].back] ELSE log[i])
  <2> TAKE i \in DOMAIN log
  <2>1. CASE i \in U
    <3>1. \E e \in backed \cup fronted : e.record = i
      BY <1>5, <2>1
    <3> QED BY <1>7, <2>1, <3>1, Zenon
  <2>2. CASE i \notin U
    <3>1. ~\E e \in backed \cup fronted : e.record = i
      BY <1>5, <2>2
    <3> QED BY <2>2, <3>1
  <2> QED BY <2>1, <2>2
<1>9. Followed(r, parts) =
        [i \in DOMAIN log |-> IF i \in U THEN [log[i] EXCEPT !.start = length - log[i].start, !.back = ~log[i].back] ELSE log[i]]
  BY <1>4, <1>8, Zenon
<1> QED BY <1>9, Zenon DEF Follows, parts, U, log

\* What following a move changes of a record: where it starts and its side, if it is one of U.
FollowedBy(log, new, U, length) ==
  /\ new \in Seq(Recs) /\ Len(new) = Len(log) /\ DOMAIN new = DOMAIN log
  /\ \A i \in DOMAIN log :
       /\ new[i].key = log[i].key /\ new[i].withdrew = log[i].withdrew
       /\ new[i].linked = log[i].linked /\ new[i].withdrawn = log[i].withdrawn
       /\ new[i].gone = log[i].gone
       /\ new[i].start = IF i \in U THEN length - log[i].start ELSE log[i].start
       /\ new[i].back <=> IF i \in U THEN ~log[i].back ELSE log[i].back
LEMMA FollowsFields ==
  ASSUME NEW r \in Rosters, NEW place \in Int, NEW length \in Int
  PROVE  FollowedBy(r.log, Follows(r, place, length), Turned(r, place, length), length)
<1> DEFINE log == r.log
           new == Follows(r, place, length)
           U == Turned(r, place, length)
<1>1. log \in Seq(Recs) /\ Len(log) \in Nat /\ DOMAIN log = 1..Len(log)
  BY RosterFields
<1>2. ASSUME NEW i \in DOMAIN log
      PROVE  /\ new[i] \in Recs
             /\ new[i].key = log[i].key /\ new[i].withdrew = log[i].withdrew
             /\ new[i].linked = log[i].linked /\ new[i].withdrawn = log[i].withdrawn
             /\ new[i].gone = log[i].gone
             /\ new[i].start = IF i \in U THEN length - log[i].start ELSE log[i].start
             /\ new[i].back <=> IF i \in U THEN ~log[i].back ELSE log[i].back
  <2> DEFINE x == log[i]
             z == length - x.start
  <2>1. x \in Recs /\ x.start \in Int /\ z \in Int /\ x.back \in BOOLEAN
    BY <1>1, LogFields
  <2>2. new[i] = IF i \in U THEN [x EXCEPT !.start = z, !.back = ~x.back] ELSE x
    BY Zenon DEF Follows
  <2> HIDE DEF z, x, new, U
  <2>3. new[i] \in Recs BY <2>1, <2>2, Zenon DEF Recs
  <2>4. /\ new[i].key = x.key /\ new[i].withdrew = x.withdrew /\ new[i].linked = x.linked
        /\ new[i].withdrawn = x.withdrawn /\ new[i].gone = x.gone
    BY <2>1, <2>2 DEF Recs
  <2>5. new[i].start = IF i \in U THEN z ELSE x.start
    BY <2>1, <2>2 DEF Recs
  <2>6. new[i].back <=> IF i \in U THEN ~x.back ELSE x.back
    BY <2>1, <2>2, Zenon DEF Recs
  <2> QED BY <2>3, <2>4, <2>5, <2>6 DEF x, z
<1>3. new \in Seq(Recs) /\ Len(new) = Len(log) /\ DOMAIN new = DOMAIN log
  <2>1. new = [i \in DOMAIN log |-> new[i]]
    BY Zenon DEF Follows
  <2> HIDE DEF new
  <2>2. new \in [1..Len(log) -> Recs]
    BY <1>1, <1>2, <2>1, Zenon
  <2> QED BY <1>1, <2>2
<1> HIDE DEF new, U
<1>4. FollowedBy(log, new, U, length)
  BY <1>2, <1>3, Zenon DEF FollowedBy
<1> QED BY <1>4 DEF log, new, U

\* The move of every zipper to a place, as a reopen makes it.
Moved(r, place, length) ==
  LET parts == [d \in Kinds |-> Move(r, d, place, length)]
  IN [r EXCEPT !.log = Followed(r, parts),
               !.front = [d \in Kinds |-> parts[d].front], !.back = [d \in Kinds |-> parts[d].back],
               !.end = [d \in Kinds |-> length], !.hidden = TRUE, !.lost = {}]

\* Two records that both follow the move keep their order in a key's list.
LEMMA TurnedOrder ==
  ASSUME NEW x \in Recs, NEW y \in Recs, NEW u \in Recs, NEW v \in Recs, NEW place \in Int, NEW length \in Int,
         u.start = (IF u.back = x.back THEN x.start ELSE length - x.start),
         v.start = (IF v.back = y.back THEN y.start ELSE length - y.start),
         u.back <=> ~((IF x.back THEN length - x.start ELSE x.start) < place),
         v.back <=> ~((IF y.back THEN length - y.start ELSE y.start) < place),
         ~x.back /\ y.back => x.start <= length - y.start,
         ~y.back /\ x.back => y.start <= length - x.start,
         S_precedes(u, v)
  PROVE  S_precedes(x, y)
<1>1. /\ x.start \in Int /\ y.start \in Int /\ u.start \in Int /\ v.start \in Int
      /\ x.back \in BOOLEAN /\ y.back \in BOOLEAN /\ u.back \in BOOLEAN /\ v.back \in BOOLEAN
  BY DEF Recs
<1> QED BY <1>1 DEF S_precedes

\* The move of every zipper to a place, the records with it, keeps a roster sound: the index, made
\* in the old text's order, is still in order though part of it changed sides.
LEMMA MovedSound ==
  ASSUME NEW r, Sound(r), r.placed, ~r.hidden, NEW place \in Int, NEW length \in Int,
         \A d \in Kinds : r.back[d] # << >> => r.end[d] = length
  PROVE  LET s == Moved(r, place, length)
         IN /\ Sound(s) /\ s.log = Follows(r, place, length) /\ s.cursor = r.cursor
            /\ s.placed /\ s.hidden /\ s.end = [d \in Kinds |-> length] /\ s.dead = r.dead /\ s.lost = {}
<1> DEFINE log == r.log
           new == Follows(r, place, length)
           U == Turned(r, place, length)
           s == Moved(r, place, length)
           front == [d \in Kinds |-> Move(r, d, place, length).front]
           back == [d \in Kinds |-> Move(r, d, place, length).back]
           end == [d \in Kinds |-> length]
<1>1. r \in Rosters /\ Indexed(r) /\ Paired(r) /\ Placed(r) /\ Divided(r)
  BY DEF Sound
<1>2. log \in Seq(Recs) /\ \A i \in DOMAIN log : log[i] \in Recs /\ log[i].start \in Int /\ log[i].back \in BOOLEAN /\ Kind(log[i]) \in Kinds
  BY <1>1, RosterFields, LogFields
<1>3. /\ new \in Seq(Recs) /\ Len(new) = Len(log) /\ DOMAIN new = DOMAIN log
      /\ \A i \in DOMAIN log :
           /\ new[i].key = log[i].key /\ new[i].withdrew = log[i].withdrew
           /\ new[i].linked = log[i].linked /\ new[i].withdrawn = log[i].withdrawn
           /\ new[i].gone = log[i].gone
           /\ new[i].start = IF i \in U THEN length - log[i].start ELSE log[i].start
           /\ new[i].back <=> IF i \in U THEN ~log[i].back ELSE log[i].back
  <2>1. FollowedBy(log, new, U, length)
    BY <1>1, FollowsFields, Zenon
  <2> HIDE DEF new, U, s, front, back, end
  <2> QED BY <2>1, Zenon DEF FollowedBy
<1>4. \A d \in Kinds : Sits(log, Fronts(log, d), r.front[d]) /\ Sits(log, Backs(log, d), r.back[d])
  BY <1>1 DEF Placed
<1>5. ASSUME NEW d \in Kinds, NEW i \in Fronts(log, d), NEW j \in Backs(log, d)
      PROVE  log[i].start <= length - log[j].start
  <2>1. \E p \in DOMAIN r.back[d] : r.back[d][p].record = j
    BY <1>4 DEF Sits
  <2>2. r.back[d] # << >> BY <2>1
  <2> QED BY <1>1, <2>2 DEF Divided
<1>6. ASSUME NEW d \in Kinds PROVE MovedWell(r, new, d, place, length)
  <2>1. \A i \in Fronts(log, d) \cup Backs(log, d) : i \in DOMAIN log
    BY DEF Fronts, Backs
  <2>2. \A i \in Fronts(log, d) \cup Backs(log, d) : new[i].start = IF i \in U THEN length - log[i].start ELSE log[i].start
    BY <1>3, <2>1
  <2>3. \A i \in Fronts(log, d), j \in Backs(log, d) : log[i].start <= length - log[j].start
    BY <1>5
  <2> HIDE DEF new
  <2> QED BY <1>1, <1>4, <2>2, <2>3, MoveIs, Zenon
<1>7. Followed(r, [d \in Kinds |-> Move(r, d, place, length)]) = new
  <2> HIDE DEF new
  <2>1. Followed(r, [d \in Kinds |-> Move(r, d, place, length)]) = Follows(r, place, length)
    BY <1>1, <1>6, FollowedIs, Zenon
  <2> QED BY <2>1 DEF new
<1>8. s = [r EXCEPT !.log = new, !.front = front, !.back = back, !.end = end, !.hidden = TRUE, !.lost = {}]
  <2>1. \A d \in Kinds : [e \in Kinds |-> Move(r, e, place, length)][d] = Move(r, d, place, length)
    OBVIOUS
  <2>2. [d \in Kinds |-> [e \in Kinds |-> Move(r, e, place, length)][d].front] = front
    BY <2>1
  <2>3. [d \in Kinds |-> [e \in Kinds |-> Move(r, e, place, length)][d].back] = back
    BY <2>1
  <2> HIDE DEF new, front, back
  <2> QED BY <1>7, <2>2, <2>3, Zenon DEF Moved
<1>9. front \in [Kinds -> Seq(Entries)] /\ back \in [Kinds -> Seq(Entries)] /\ end \in [Kinds -> Int]
  BY <1>6, Zenon DEF MovedWell
<1>91. \A d \in Kinds : front[d] = Move(r, d, place, length).front /\ back[d] = Move(r, d, place, length).back /\ end[d] = length
  OBVIOUS
<1> HIDE DEF new, s, front, back, U, log, end
<1>10. s = [log |-> new, index |-> r.index, indexed |-> r.indexed, cursor |-> r.cursor, front |-> front, back |-> back,
            end |-> end, placed |-> r.placed, hidden |-> TRUE, dead |-> r.dead, lost |-> {}]
  BY <1>1, <1>8, Zenon DEF Rosters
<1>11. s \in Rosters
  BY <1>1, <1>3, <1>9, <1>10, RosterFields DEF Rosters
<1>12. /\ s.log = new /\ s.index = r.index /\ s.indexed = r.indexed /\ s.cursor = r.cursor /\ s.front = front
       /\ s.back = back /\ s.end = end /\ s.placed /\ s.hidden /\ s.dead = r.dead /\ s.lost = {}
  BY <1>10
<1>13. \A i \in DOMAIN log : Kind(new[i]) = Kind(log[i]) /\ (Stands(new[i]) <=> Stands(log[i]))
  BY <1>2, <1>3 DEF Kind, Stands
<1>14. Taken(s) = Taken(r)
  BY <1>3, <1>12, <1>13 DEF Taken, log
<1>15. ASSUME NEW i \in Taken(r), NEW j \in Taken(r), log[i].key = log[j].key, S_precedes(new[j], new[i])
       PROVE S_precedes(log[j], log[i])
  <2> DEFINE d == Kind(log[i])
  <2>1. i \in DOMAIN log /\ j \in DOMAIN log /\ Stands(log[i]) /\ Stands(log[j]) /\ Kind(log[j]) = d /\ d \in Kinds
    BY <1>2, <1>15 DEF Taken, Kind, log
  <2>2. ~log[j].back /\ log[i].back => log[j].start <= length - log[i].start
    BY <1>5, <2>1 DEF Fronts, Backs
  <2>3. ~log[i].back /\ log[j].back => log[i].start <= length - log[j].start
    BY <1>5, <2>1 DEF Fronts, Backs
  <2>4. \A v \in {i, j} : /\ new[v] \in Recs /\ log[v] \in Recs
                          /\ v \in U <=> IF log[v].back THEN length - log[v].start < place ELSE log[v].start >= place
    BY <1>2, <1>3, <2>1, LogFields DEF Turned, U, log
  <2>5. \A v \in {i, j} : /\ new[v].start = (IF new[v].back = log[v].back THEN log[v].start ELSE length - log[v].start)
                          /\ new[v].back <=> ~((IF log[v].back THEN length - log[v].start ELSE log[v].start) < place)
    <3> TAKE v \in {i, j}
    <3>1. /\ new[v].back \in BOOLEAN /\ log[v].back \in BOOLEAN /\ log[v].start \in Int
          /\ v \in U <=> IF log[v].back THEN length - log[v].start < place ELSE log[v].start >= place
          /\ new[v].start = IF v \in U THEN length - log[v].start ELSE log[v].start
          /\ new[v].back <=> IF v \in U THEN ~log[v].back ELSE log[v].back
      <4>1. v \in DOMAIN log /\ v \in DOMAIN new
        BY <1>3, <2>1
      <4>2. new[v].back \in BOOLEAN BY <2>4, Zenon DEF Recs
      <4> QED BY <1>2, <1>3, <2>4, <4>1, <4>2
    <3> QED BY <3>1
  <2> HIDE DEF d
  <2>6. /\ log[i] \in Recs /\ log[j] \in Recs /\ new[i] \in Recs /\ new[j] \in Recs
        /\ new[i].start = (IF new[i].back = log[i].back THEN log[i].start ELSE length - log[i].start)
        /\ new[j].start = (IF new[j].back = log[j].back THEN log[j].start ELSE length - log[j].start)
        /\ new[i].back <=> ~((IF log[i].back THEN length - log[i].start ELSE log[i].start) < place)
        /\ new[j].back <=> ~((IF log[j].back THEN length - log[j].start ELSE log[j].start) < place)
    BY <2>4, <2>5
  <2> QED BY <1>15, <2>2, <2>3, <2>6, TurnedOrder, Zenon
<1>16. Holds(s, Taken(s))
  <2>1. Holds(r, Taken(r)) /\ Taken(r) \subseteq DOMAIN log
    BY <1>1 DEF Indexed, Taken, log
  <2>2. \A i \in DOMAIN log : log[i].linked <=> i \in Taken(r)
    BY <2>1 DEF Holds, log
  <2>3. /\ s.index = r.index /\ Taken(r) \subseteq DOMAIN s.log
        /\ \A i \in Taken(r) : s.log[i].key = r.log[i].key
        /\ \A i \in DOMAIN s.log : s.log[i].linked <=> i \in Taken(r)
    BY <1>3, <1>12, <2>1, <2>2 DEF log
  <2>4. \A i, j \in Taken(r) : r.log[i].key = r.log[j].key /\ S_precedes(s.log[j], s.log[i]) => S_precedes(r.log[j], r.log[i])
    BY <1>12, <1>15 DEF log
  <2>5. Holds(s, Taken(r))
    BY <1>1, <1>11, <2>1, <2>3, <2>4, HoldsStill
  <2> QED BY <1>14, <2>5
<1>17. Indexed(s)
  <2>1. \A d \in Kinds : UpToCursor(s, d) = UpToCursor(r, d)
    BY <1>3, <1>12, <1>13 DEF UpToCursor, log
  <2> QED BY <1>1, <1>12, <1>16, <2>1 DEF Indexed
<1>18. Paired(s)
  <2>1. \A i \in DOMAIN log : /\ new[i].key = log[i].key /\ new[i].withdrew = log[i].withdrew
                              /\ new[i].withdrawn = log[i].withdrawn /\ Kind(new[i]) = Kind(log[i])
    BY <1>3, <1>13
  <2>2. ASSUME NEW i \in DOMAIN log, log[i].withdrew # 0
        PROVE  LET w == log[i].withdrew
               IN /\ w < i /\ new[w].key = log[i].key /\ new[w].withdrew = 0
                  /\ new[w].withdrawn /\ i <= r.cursor[Kind(log[i])]
    <3> DEFINE w == log[i].withdrew
    <3>1. w < i /\ log[w].key = log[i].key /\ log[w].withdrew = 0 /\ log[w].withdrawn /\ i <= r.cursor[Kind(log[i])]
      BY <1>1, <2>2 DEF Paired, log
    <3>2. w \in DOMAIN log
      <4>1. w \in Nat /\ w # 0 /\ i \in Nat /\ i <= Len(log) /\ DOMAIN log = 1..Len(log)
        BY <1>2, <2>2, LogFields
      <4> QED BY <3>1, <4>1
    <3> QED BY <2>1, <3>1, <3>2
  <2>3. \A i, j \in DOMAIN log : new[i].withdrew # 0 /\ new[i].withdrew = new[j].withdrew => i = j
    BY <1>1, <2>1 DEF Paired, log
  <2>4. \A w \in DOMAIN log : new[w].withdrawn => \E i \in DOMAIN log : new[i].withdrew = w
    BY <1>1, <2>1 DEF Paired, log
  <2> QED BY <1>3, <1>12, <2>1, <2>2, <2>3, <2>4 DEF Paired
<1>19. ASSUME NEW d \in Kinds
       PROVE  /\ Fronts(new, d) = (Fronts(log, d) \ U) \cup (Backs(log, d) \cap U)
              /\ Backs(new, d) = (Backs(log, d) \ U) \cup (Fronts(log, d) \cap U)
  <2>1. \A i \in DOMAIN log : /\ Kind(new[i]) = Kind(log[i]) /\ (Stands(new[i]) <=> Stands(log[i]))
                              /\ new[i].back <=> IF i \in U THEN ~log[i].back ELSE log[i].back
    BY <1>3, <1>13
  <2> QED BY <1>3, <2>1 DEF Fronts, Backs
<1>20. Placed(s)
  <2>1. ASSUME NEW d \in Kinds PROVE Sits(new, Fronts(new, d), front[d]) /\ Sits(new, Backs(new, d), back[d])
    <3>1. /\ Sits(new, (Fronts(log, d) \ U) \cup (Backs(log, d) \cap U), front[d])
          /\ Sits(new, (Backs(log, d) \ U) \cup (Fronts(log, d) \cap U), back[d])
      BY <1>6, <1>91, Zenon DEF MovedWell, U, log
    <3> QED BY <1>19, <3>1, Zenon
  <2> QED BY <1>12, <2>1 DEF Placed
<1>21. Divided(s) BY <1>12 DEF Divided
<1> QED BY <1>11, <1>12, <1>17, <1>18, <1>20, <1>21 DEF Sound, s, new, end

\* A roster no edit is under way in, of a text of `length' bytes.
Fit(r, length) ==
  /\ Sound(r) /\ Settled(r) /\ r.placed /\ ~r.hidden
  /\ Counted(r)
  /\ Within(r, length)
  /\ \A d \in Kinds : r.back[d] # << >> => r.end[d] = length

\* The places are made of a roster no edit read yet.
LEMMA PlacedFit ==
  ASSUME NEW r, Sound(r), Settled(r), ~r.placed, ~r.hidden, NEW length \in Int, Within(r, length),
         Counted(r),
         \A d \in Kinds : r.back[d] # << >> => r.end[d] = length
  PROVE  Fit(S_place(r), length)
<1> DEFINE s == S_place(r)
<1>1. /\ Sound(s) /\ s.placed /\ s.log = r.log /\ s.cursor = r.cursor
      /\ s.back = r.back /\ s.end = r.end /\ s.hidden = r.hidden /\ s.dead = r.dead
  BY PlaceSound
<1> HIDE DEF s
<1>2. Settled(s) BY <1>1 DEF Settled
<1>3. Within(s, length) BY <1>1 DEF Within
<1> QED BY <1>1, <1>2, <1>3 DEF Fit, Counted, s

\* A compaction leaves a roster an edit may be made of.
LEMMA CompactedFit ==
  ASSUME NEW r, NEW length \in Int, Fit(r, length)
  PROVE  Fit(Compacted(r), length)
<1> DEFINE s == Compacted(r)
           kept == Copied(r)
<1>1. Sound(r) /\ r.placed /\ ~r.hidden /\ Within(r, length) /\ \A d \in Kinds : r.back[d] # << >> => r.end[d] = length
  BY DEF Fit
<1>2. Sound(s) /\ Settled(s) /\ Copies(r, s, kept) /\ DeadSet(s.log, Len(s.log)) = {}
  BY <1>1, CompactedSound
<1> HIDE DEF s, kept
<1>3. /\ DOMAIN s.log = DOMAIN kept
      /\ \A p \in DOMAIN kept : /\ kept[p] \in DOMAIN r.log /\ Stands(r.log[kept[p]])
                                /\ s.log[p].start = r.log[kept[p]].start /\ s.log[p].back = r.log[kept[p]].back
      /\ s.placed /\ s.hidden = r.hidden /\ s.end = r.end /\ s.dead = 0
      /\ \A d \in Kinds : r.back[d] = << >> => s.back[d] = << >>
  BY <1>2 DEF Copies, Enum
<1>4. Counted(s) BY <1>2, <1>3, FS_EmptySet DEF Counted
<1>5. Within(s, length)
  <2>1. /\ \A i \in DOMAIN r.log : Stands(r.log[i]) /\ ~r.log[i].back => r.log[i].start <= length
        /\ \A i \in DOMAIN r.log : Stands(r.log[i]) /\ r.log[i].back => 0 <= r.log[i].start
    BY <1>1 DEF Within
  <2>2. \A p \in DOMAIN s.log : /\ Stands(s.log[p]) /\ ~s.log[p].back => s.log[p].start <= length
                                /\ Stands(s.log[p]) /\ s.log[p].back => 0 <= s.log[p].start
    BY <1>3, <2>1
  <2> QED BY <1>3, <2>2 DEF Within
<1> QED BY <1>1, <1>2, <1>3, <1>4, <1>5 DEF Fit, s

\* What a reopen leaves for the reading.
LEMMA ReopenedSound ==
  ASSUME NEW r, Sound(r), Settled(r), ~r.hidden, NEW length \in Int, Within(r, length),
         Counted(r),
         \A d \in Kinds : r.back[d] # << >> => r.end[d] = length,
         NEW place \in Int, place <= length
  PROVE  LET s == Reopened(r, place, length)
         IN /\ Sound(s) /\ Settled(s) /\ s.placed /\ s.hidden /\ s.end = [d \in Kinds |-> length]
            /\ Counted(s) /\ Within(s, place)
<1> DEFINE placed == IF r.placed THEN r ELSE S_place(r)
           kept == IF placed.dead > Len(placed.log) - placed.dead + Slack THEN Compacted(placed) ELSE placed
           s == Reopened(r, place, length)
           log == kept.log
           new == Follows(kept, place, length)
<1>1. Fit(placed, length)
  <2>1. CASE r.placed BY <2>1 DEF Fit
  <2>2. CASE ~r.placed BY <2>2, PlacedFit
  <2> QED BY <2>1, <2>2
<1>2. Fit(kept, length)
  <2> HIDE DEF placed
  <2>1. Fit(Compacted(placed), length) BY <1>1, CompactedFit
  <2> QED BY <1>1, <2>1
<1>3. s = Moved(kept, place, length) BY DEF Reopened, Moved
<1> HIDE DEF kept, placed, s
<1>4. /\ Sound(kept) /\ Settled(kept) /\ kept.placed /\ ~kept.hidden
      /\ \A d \in Kinds : kept.back[d] # << >> => kept.end[d] = length
      /\ Counted(kept) /\ Within(kept, length) /\ kept \in Rosters
  BY <1>2 DEF Fit, Sound
<1>5. /\ Sound(s) /\ s.log = new /\ s.cursor = kept.cursor
      /\ s.placed /\ s.hidden /\ s.end = [d \in Kinds |-> length] /\ s.dead = kept.dead
  <2> DEFINE t == Moved(kept, place, length)
  <2>1. /\ Sound(t) /\ t.log = Follows(kept, place, length) /\ t.cursor = kept.cursor
        /\ t.placed /\ t.hidden /\ t.end = [d \in Kinds |-> length] /\ t.dead = kept.dead /\ t.lost = {}
    <3> HIDE DEF log, new
    <3> QED BY <1>4, MovedSound, Zenon
  <2> HIDE DEF t
  <2>2. s = t BY <1>3 DEF t
  <2> QED BY <2>1, <2>2
<1>6. /\ Len(new) = Len(log) /\ DOMAIN new = DOMAIN log /\ DOMAIN log = 1..Len(log) /\ Len(log) \in Nat
      /\ \A i \in DOMAIN log :
           /\ new[i].key = log[i].key /\ new[i].withdrew = log[i].withdrew
           /\ new[i].linked = log[i].linked /\ new[i].withdrawn = log[i].withdrawn
           /\ new[i].gone = log[i].gone /\ log[i].start \in Int /\ log[i].back \in BOOLEAN
           /\ new[i].start = IF i \in Turned(kept, place, length) THEN length - log[i].start ELSE log[i].start
           /\ new[i].back <=> IF i \in Turned(kept, place, length) THEN ~log[i].back ELSE log[i].back
  <2> DEFINE U == Turned(kept, place, length)
  <2>1. FollowedBy(log, new, U, length)
    BY <1>4, FollowsFields, Zenon
  <2>2. DOMAIN log = 1..Len(log) /\ Len(log) \in Nat /\ \A i \in DOMAIN log : log[i].start \in Int /\ log[i].back \in BOOLEAN
    BY <1>4, RosterFields, LogFields
  <2> HIDE DEF log, new, U
  <2>3. /\ Len(new) = Len(log) /\ DOMAIN new = DOMAIN log
        /\ \A i \in DOMAIN log :
             /\ new[i].key = log[i].key /\ new[i].withdrew = log[i].withdrew
             /\ new[i].linked = log[i].linked /\ new[i].withdrawn = log[i].withdrawn
             /\ new[i].gone = log[i].gone
             /\ new[i].start = IF i \in U THEN length - log[i].start ELSE log[i].start
             /\ new[i].back <=> IF i \in U THEN ~log[i].back ELSE log[i].back
    BY <2>1, Zenon DEF FollowedBy
  <2> QED BY <2>2, <2>3, Zenon DEF U
<1> HIDE DEF new
<1>7. Settled(s) BY <1>4, <1>5, <1>6 DEF Settled
<1>8. Counted(s)
  <2>0. \A i \in 1..Len(log) : new[i].withdrew = log[i].withdrew /\ new[i].gone = log[i].gone
    BY <1>6
  <2>1. DeadSet(new, Len(log)) = DeadSet(log, Len(log))
    <3> HIDE DEF log
    <3> QED BY <1>6, <2>0, DeadSame
  <2> QED BY <1>4, <1>5, <1>6, <2>1 DEF Counted
<1>9. ASSUME NEW i \in DOMAIN log, Stands(new[i])
      PROVE  IF new[i].back THEN 0 <= new[i].start ELSE new[i].start <= place
  <2>1. Stands(log[i]) BY <1>6, <1>9 DEF Stands
  <2>2. i \in Turned(kept, place, length) <=> IF log[i].back THEN length - log[i].start < place ELSE log[i].start >= place
    BY <2>1 DEF Turned
  <2>3. IF log[i].back THEN 0 <= log[i].start ELSE log[i].start <= length
    BY <1>4, <2>1 DEF Within
  <2> QED BY <1>6, <2>2, <2>3
<1>10. Within(s, place) BY <1>5, <1>6, <1>9 DEF Within
<1> QED BY <1>5, <1>7, <1>8, <1>10 DEF s

-------------------------------------------------------------------------------
(* A splice.                                                               *)

\* The declarations of the back that start before a place of the text.
Leaving(r, place) ==
  {i \in DOMAIN r.log : Stands(r.log[i]) /\ r.log[i].back /\ r.end[Kind(r.log[i])] - r.log[i].start < place}

\* What a splice lets go are the declarations of the back that start before its place.
LEMMA GoneIs ==
  ASSUME NEW r, Sound(r), r.placed, NEW place \in Int
  PROVE  Gone(r, place) = Leaving(r, place)
<1> DEFINE part(d) == {r.back[d][p].record : p \in {q \in DOMAIN r.back[d] : r.end[d] - r.back[d][q].start < place}}
<1>1. r \in Rosters /\ \A d \in Kinds : Sits(r.log, Backs(r.log, d), r.back[d])
  BY DEF Sound, Placed
<1>2. ASSUME NEW d \in Kinds, NEW i \in part(d) PROVE i \in Leaving(r, place)
  <2>1. PICK q \in DOMAIN r.back[d] : r.back[d][q].record = i /\ r.end[d] - r.back[d][q].start < place
    OBVIOUS
  <2>2. i \in Backs(r.log, d) /\ r.log[i].start = r.back[d][q].start
    BY <1>1, <2>1 DEF Sits
  <2> QED BY <2>1, <2>2 DEF Backs, Leaving
<1>3. ASSUME NEW i \in Leaving(r, place) PROVE \E d \in Kinds : i \in part(d)
  <2> DEFINE d == Kind(r.log[i])
  <2>1. i \in DOMAIN r.log /\ Stands(r.log[i]) /\ r.log[i].back /\ r.end[d] - r.log[i].start < place
    BY DEF Leaving
  <2>2. d \in Kinds /\ i \in Backs(r.log, d)
    BY <1>1, <2>1, RosterFields, LogFields DEF Backs
  <2>3. PICK q \in DOMAIN r.back[d] : r.back[d][q].record = i
    BY <1>1, <2>2 DEF Sits
  <2>4. r.log[i].start = r.back[d][q].start
    BY <1>1, <2>2, <2>3 DEF Sits
  <2> QED BY <2>1, <2>2, <2>3, <2>4
<1>4. Gone(r, place) = UNION {part(d) : d \in Kinds}
  BY DEF Gone
<1> HIDE DEF part
<1> QED BY <1>2, <1>3, <1>4

\* The back cut after the entries that stay.
LEMMA CutSits ==
  ASSUME NEW log, NEW S, NEW back \in Seq(Entries), Sits(log, S, back), NEW place \in Int, NEW end \in Int
  PROVE  LET cut == SubSeq(back, 1, Len(back) - BackFrom(back, end, place))
         IN cut \in Seq(Entries) /\ Sits(log, {i \in S : ~(end - log[i].start < place)}, cut)
<1> DEFINE n == Len(back)
           c == n - BackFrom(back, end, place)
           cut == SubSeq(back, 1, c)
           K == {i \in S : ~(end - log[i].start < place)}
<1>1. n \in Nat /\ DOMAIN back = 1..n /\ \A p \in 1..n : back[p].start \in Int
  BY EntryFields
<1>2. BackFrom(back, end, place) \in 0..n /\ \A p \in 1..n : end - back[p].start < place <=> p > n - BackFrom(back, end, place)
  <2>1. \A p, q \in DOMAIN back : p < q => back[p].start <= back[q].start
    BY DEF Sits
  <2> QED BY <2>1, BackIs
<1>3. c \in 0..n /\ \A p \in 1..n : end - back[p].start < place <=> p > c
  BY <1>1, <1>2
<1> HIDE DEF c
<1>4. cut \in Seq(Entries) /\ Len(cut) = c /\ DOMAIN cut = 1..c /\ \A p \in 1..c : p \in 1..n /\ cut[p] = back[p]
  BY <1>1, <1>3
<1> HIDE DEF cut
<1>5. \A p \in 1..n : back[p].record \in S /\ log[back[p].record].start = back[p].start
  BY <1>1 DEF Sits
<1>6. \A p \in 1..c : cut[p].record \in K /\ log[cut[p].record].start = cut[p].start
  <2> TAKE p \in 1..c
  <2>1. p \in 1..n /\ ~(p > c) /\ cut[p] = back[p]
    BY <1>3, <1>4
  <2> QED BY <1>3, <1>5, <2>1
<1>7. \A i \in K : \E p \in 1..c : cut[p].record = i
  <2> TAKE i \in K
  <2>1. PICK p \in 1..n : back[p].record = i
    BY <1>1 DEF Sits
  <2>2. ~(p > c) BY <1>3, <1>5, <2>1
  <2>3. p \in 1..c BY <1>3, <2>2
  <2> QED BY <1>4, <2>1, <2>3
<1>8. \A p, q \in 1..c : p < q => cut[p].record # cut[q].record /\ cut[p].start <= cut[q].start
  <2>1. \A p, q \in 1..n : p < q => back[p].record # back[q].record /\ back[p].start <= back[q].start
    BY <1>1, Zenon DEF Sits
  <2> QED BY <1>4, <2>1
<1> QED BY <1>4, <1>6, <1>7, <1>8, Zenon DEF Sits, cut, c

\* What a splice makes of the records, and of what is about them.
SplicedWell(r, s, place, delta) ==
  /\ Len(s.log) = Len(r.log) /\ DOMAIN s.log = DOMAIN r.log
  /\ \A i \in DOMAIN r.log :
       /\ s.log[i].key = r.log[i].key /\ s.log[i].start = r.log[i].start /\ s.log[i].back = r.log[i].back
       /\ s.log[i].withdrew = r.log[i].withdrew /\ s.log[i].withdrawn = r.log[i].withdrawn
       /\ s.log[i].gone <=> r.log[i].gone \/ i \in Leaving(r, place)
       /\ Stands(s.log[i]) <=> Stands(r.log[i]) /\ i \notin Leaving(r, place)
  /\ s.cursor = r.cursor /\ s.front = r.front /\ s.end = [d \in Kinds |-> r.end[d] + delta]
  /\ s.placed = r.placed /\ ~s.hidden
  /\ s.dead = r.dead + Cardinality(Leaving(r, place))
  /\ s.lost = r.lost \cup {r.log[i].key : i \in Leaving(r, place)}

\* markdown_core_roster_splice keeps a roster sound: what it lets go leaves its list and its
\* places, and the rest of the back, moved by delta, starts after the whole front.
LEMMA SplicedSound ==
  ASSUME NEW r, Sound(r), r.placed, NEW place \in Int, NEW delta \in Int,
         \A d \in Kinds : \A i \in Fronts(r.log, d), j \in Backs(r.log, d) :
           r.end[d] - r.log[j].start >= place => r.log[i].start <= r.end[d] + delta - r.log[j].start
  PROVE  LET s == Spliced(r, place, delta) IN Sound(s) /\ SplicedWell(r, s, place, delta)
<1> DEFINE log == r.log
           G == Leaving(r, place)
           I == {i \in G : log[i].linked}
           u == Parted(r, I)
           new == [i \in DOMAIN log |-> IF i \in G THEN [u.log[i] EXCEPT !.gone = TRUE] ELSE u.log[i]]
           back == [d \in Kinds |-> SubSeq(r.back[d], 1, Len(r.back[d]) - BackFrom(r.back[d], r.end[d], place))]
           end == [d \in Kinds |-> r.end[d] + delta]
           lost == r.lost \cup {log[i].key : i \in G}
           dead == r.dead + Cardinality(G)
           s == Spliced(r, place, delta)
<1>1. r \in Rosters /\ Indexed(r) /\ Paired(r) /\ Placed(r) /\ Divided(r)
  BY DEF Sound
<1>2. log \in Seq(Recs) /\ Len(log) \in Nat /\ DOMAIN log = 1..Len(log)
  BY <1>1, RosterFields
<1>3. \A i \in DOMAIN log : log[i] \in Recs /\ log[i].key \in Keys /\ log[i].start \in Int /\ log[i].back \in BOOLEAN /\ Kind(log[i]) \in Kinds
  BY <1>2, LogFields
<1>4. \A d \in Kinds : Sits(log, Fronts(log, d), r.front[d]) /\ Sits(log, Backs(log, d), r.back[d])
  BY <1>1 DEF Placed
<1>5. G \subseteq DOMAIN log /\ \A i \in G : Stands(log[i]) /\ log[i].back
  BY DEF Leaving
<1>6. Gone(r, place) = G /\ {i \in Gone(r, place) : Stands(log[i])} = G
  <2>1. Gone(r, place) = Leaving(r, place) BY GoneIs
  <2> QED BY <1>5, <2>1
<1>7. u \in Rosters /\ Still(r, u) /\ Holds(u, Taken(r) \ I)
  <2>1. Holds(r, Taken(r)) BY <1>1 DEF Indexed
  <2>2. I \in SUBSET Taken(r)
    <3>1. \A i \in I : i \in DOMAIN log /\ log[i].linked
      BY <1>5
    <3> QED BY <2>1, <3>1 DEF Holds
  <2> HIDE DEF I
  <2> QED BY <1>1, <2>1, <2>2, PartHolds
<1>8. Taken(r) \ I = Taken(r) \ G
  <2>1. \A i \in Taken(r) : i \in DOMAIN log /\ log[i].linked
    <3>1. Holds(r, Taken(r)) BY <1>1 DEF Indexed
    <3> QED BY <3>1 DEF Holds, Taken
  <2> QED BY <2>1
<1>9. s = [u EXCEPT !.log = new, !.back = back, !.end = end, !.lost = lost, !.dead = dead, !.hidden = FALSE]
  <2> DEFINE gone == Gone(r, place)
             stood == {i \in gone : Stands(r.log[i])}
             unlinked == Parted(r, {i \in gone : r.log[i].linked})
  <2>1. s = [unlinked EXCEPT
               !.log = [i \in DOMAIN r.log |-> IF i \in gone THEN [unlinked.log[i] EXCEPT !.gone = TRUE] ELSE unlinked.log[i]],
               !.back = back, !.end = end,
               !.lost = r.lost \cup {r.log[i].key : i \in stood}, !.dead = r.dead + Cardinality(stood), !.hidden = FALSE]
    BY DEF Spliced
  <2>2. gone = G /\ stood = G BY <1>6
  <2> HIDE DEF back, end, s, G, gone
  <2>3. unlinked = u BY <2>2
  <2> HIDE DEF unlinked, u, stood
  <2> QED BY <2>1, <2>2, <2>3
<1> HIDE DEF I
<1>10. /\ DOMAIN u.log = DOMAIN log /\ Len(u.log) = Len(log) /\ \A i \in DOMAIN log : Same(u.log[i], log[i])
       /\ u.front = r.front /\ u.indexed = r.indexed /\ u.cursor = r.cursor /\ u.placed = r.placed
  BY <1>7 DEF Still, Alike
<1> HIDE DEF u
<1>11. ASSUME NEW i \in DOMAIN log
       PROVE  /\ new[i] \in Recs /\ new[i].key = log[i].key /\ new[i].start = log[i].start /\ new[i].back = log[i].back
              /\ new[i].withdrew = log[i].withdrew /\ new[i].withdrawn = log[i].withdrawn
              /\ new[i].linked = u.log[i].linked
              /\ new[i].gone <=> log[i].gone \/ i \in G
  <2> DEFINE x == u.log[i]
  <2>1. x \in Recs /\ Same(x, log[i])
    BY <1>7, <1>10, RosterFields, LogFields
  <2>2. new[i] = IF i \in G THEN [x EXCEPT !.gone = TRUE] ELSE x
    OBVIOUS
  <2> HIDE DEF x, new, G
  <2>3. /\ new[i] \in Recs /\ new[i].key = x.key /\ new[i].start = x.start /\ new[i].back = x.back
        /\ new[i].withdrew = x.withdrew /\ new[i].withdrawn = x.withdrawn /\ new[i].linked = x.linked
    BY <2>1, <2>2, ZenonT(40) DEF Recs
  <2>4. new[i].gone <=> x.gone \/ i \in G
    BY <2>1, <2>2 DEF Recs
  <2> QED BY <2>1, <2>3, <2>4 DEF Same, x
<1>12. new \in Seq(Recs) /\ Len(new) = Len(log) /\ DOMAIN new = DOMAIN log
  <2>1. new = [i \in DOMAIN log |-> new[i]] OBVIOUS
  <2> HIDE DEF new
  <2>2. new \in [1..Len(log) -> Recs]
    BY <1>2, <1>11, <2>1, Zenon
  <2> QED BY <1>2, <2>2
<1>13. ASSUME NEW d \in Kinds
       PROVE  back[d] \in Seq(Entries) /\ Sits(log, {i \in Backs(log, d) : ~(r.end[d] - log[i].start < place)}, back[d])
  <2>1. r.back[d] \in Seq(Entries) /\ r.end[d] \in Int /\ Sits(log, Backs(log, d), r.back[d])
    BY <1>1, <1>4, RosterFields
  <2> DEFINE b == r.back[d]
             e == r.end[d]
             cut == SubSeq(b, 1, Len(b) - BackFrom(b, e, place))
  <2>2. back[d] = cut BY Zenon
  <2> HIDE DEF back
  <2>3. cut \in Seq(Entries) /\ Sits(log, {i \in Backs(log, d) : ~(e - log[i].start < place)}, cut)
    <3> HIDE DEF b, e, log
    <3> QED BY <2>1, CutSits, Zenon DEF b, e
  <2> QED BY <2>2, <2>3
<1>14. IsFiniteSet(G) /\ Cardinality(G) \in Nat
  <2>1. IsFiniteSet(1..Len(log)) BY <1>2, FS_Interval
  <2> HIDE DEF G, log
  <2>2. IsFiniteSet(G) BY <1>2, <1>5, <2>1, FS_Subset
  <2> QED BY <2>2, FS_CardinalityType
<1>15. end \in [Kinds -> Int] /\ back \in [Kinds -> Seq(Entries)] /\ lost \in SUBSET Keys /\ dead \in Int
  <2>1. back \in [Kinds -> Seq(Entries)] BY <1>13, Zenon
  <2>2. end \in [Kinds -> Int] BY <1>1, RosterFields
  <2>3. lost \in SUBSET Keys /\ dead \in Int
    BY <1>1, <1>3, <1>5, <1>14, RosterFields
  <2> QED BY <2>1, <2>2, <2>3
<1>151. \A d \in Kinds : end[d] = r.end[d] + delta OBVIOUS
<1>152. /\ dead = r.dead + Cardinality(G) /\ end = [d \in Kinds |-> r.end[d] + delta]
        /\ lost = r.lost \cup {r.log[i].key : i \in G}
  OBVIOUS
<1> HIDE DEF new, back, end, lost, dead, s, G, log
<1>16. s = [log |-> new, index |-> u.index, indexed |-> u.indexed, cursor |-> u.cursor, front |-> u.front, back |-> back,
            end |-> end, placed |-> u.placed, hidden |-> FALSE, dead |-> dead, lost |-> lost]
  BY <1>7, <1>9, Zenon DEF Rosters
<1>17. s \in Rosters
  BY <1>7, <1>12, <1>15, <1>16, RosterFields DEF Rosters
<1>18. /\ s.log = new /\ s.index = u.index /\ s.indexed = r.indexed /\ s.cursor = r.cursor /\ s.front = r.front
       /\ s.back = back /\ s.end = end /\ s.placed /\ ~s.hidden /\ s.dead = dead /\ s.lost = lost
  BY <1>10, <1>16
<1>19. \A i \in DOMAIN log : Kind(new[i]) = Kind(log[i]) /\ (Stands(new[i]) <=> Stands(log[i]) /\ i \notin G)
  BY <1>3, <1>11 DEF Kind, Stands
<1>20. Taken(s) = Taken(r) \ G
  BY <1>12, <1>18, <1>19 DEF Taken, log
<1>21. Holds(s, Taken(s))
  <2> DEFINE T == Taken(r) \ G
  <2>1. Holds(u, T) BY <1>7, <1>8
  <2>2. T \subseteq DOMAIN log BY DEF Taken, log
  <2>3. \A i \in DOMAIN log : u.log[i].linked <=> i \in T
    BY <1>10, <2>1 DEF Holds
  <2> HIDE DEF T
  <2>4. /\ s.index = u.index /\ T \subseteq DOMAIN s.log
        /\ \A i \in T : s.log[i].key = u.log[i].key
        /\ \A i \in DOMAIN s.log : s.log[i].linked <=> i \in T
    BY <1>10, <1>11, <1>12, <1>18, <2>2, <2>3 DEF Same
  <2>5. \A i \in T : /\ s.log[i].start = u.log[i].start /\ s.log[i].back = u.log[i].back
    BY <1>10, <1>11, <1>12, <1>18, <2>2 DEF Same
  <2>6. \A i, j \in T : u.log[i].key = u.log[j].key /\ S_precedes(s.log[j], s.log[i]) => S_precedes(u.log[j], u.log[i])
    BY <2>5 DEF S_precedes
  <2>7. Holds(s, T)
    BY <1>7, <1>17, <2>1, <2>4, <2>6, HoldsStill
  <2> QED BY <1>20, <2>7 DEF T
<1>22. Indexed(s)
  <2>1. \A d \in Kinds : UpToCursor(s, d) = UpToCursor(r, d)
    BY <1>12, <1>18, <1>19 DEF UpToCursor, log
  <2> QED BY <1>1, <1>18, <1>21, <2>1 DEF Indexed
<1>23. Paired(s)
  <2>1. \A i \in DOMAIN log : /\ new[i].key = log[i].key /\ new[i].withdrew = log[i].withdrew
                              /\ new[i].withdrawn = log[i].withdrawn /\ Kind(new[i]) = Kind(log[i])
    BY <1>11, <1>19
  <2>2. ASSUME NEW i \in DOMAIN log, log[i].withdrew # 0
        PROVE  LET w == log[i].withdrew
               IN /\ w < i /\ new[w].key = log[i].key /\ new[w].withdrew = 0
                  /\ new[w].withdrawn /\ i <= r.cursor[Kind(log[i])]
    <3> DEFINE w == log[i].withdrew
    <3>1. w < i /\ log[w].key = log[i].key /\ log[w].withdrew = 0 /\ log[w].withdrawn /\ i <= r.cursor[Kind(log[i])]
      BY <1>1, <2>2 DEF Paired, log
    <3>2. w \in DOMAIN log
      <4>1. w \in Nat /\ w # 0 /\ i \in Nat /\ i <= Len(log) /\ DOMAIN log = 1..Len(log)
        BY <1>2, <2>2, LogFields
      <4> QED BY <3>1, <4>1
    <3> QED BY <2>1, <3>1, <3>2
  <2>3. \A i, j \in DOMAIN log : new[i].withdrew # 0 /\ new[i].withdrew = new[j].withdrew => i = j
    BY <1>1, <2>1 DEF Paired, log
  <2>4. \A w \in DOMAIN log : new[w].withdrawn => \E i \in DOMAIN log : new[i].withdrew = w
    BY <1>1, <2>1 DEF Paired, log
  <2> QED BY <1>12, <1>18, <2>1, <2>2, <2>3, <2>4 DEF Paired
<1>24. ASSUME NEW d \in Kinds
       PROVE  /\ Fronts(new, d) = Fronts(log, d)
              /\ Backs(new, d) = {i \in Backs(log, d) : ~(r.end[d] - log[i].start < place)}
  <2>1. \A i \in DOMAIN log : Kind(new[i]) = Kind(log[i]) /\ (Stands(new[i]) <=> Stands(log[i]) /\ i \notin G) /\ new[i].back = log[i].back
    BY <1>11, <1>19
  <2>2. Fronts(new, d) = Fronts(log, d)
    BY <1>5, <1>12, <2>1 DEF Fronts
  <2>3. \A i \in DOMAIN log : Stands(log[i]) /\ Kind(log[i]) = d /\ log[i].back => (i \in G <=> r.end[d] - log[i].start < place)
    BY DEF G, Leaving, log
  <2>4. Backs(new, d) = {i \in Backs(log, d) : ~(r.end[d] - log[i].start < place)}
    BY <1>12, <2>1, <2>3 DEF Backs
  <2> QED BY <2>2, <2>4
<1>25. Placed(s)
  <2>1. \A i \in DOMAIN log : new[i].start = log[i].start
    BY <1>11
  <2>2. ASSUME NEW d \in Kinds PROVE Sits(new, Fronts(new, d), r.front[d]) /\ Sits(new, Backs(new, d), back[d])
    <3>1. Sits(log, Fronts(new, d), r.front[d]) /\ Sits(log, Backs(new, d), back[d])
      BY <1>4, <1>13, <1>24, Zenon
    <3>2. \A i \in Fronts(new, d) \cup Backs(new, d) : new[i].start = log[i].start
      BY <1>12, <2>1 DEF Fronts, Backs
    <3> QED BY <3>1, <3>2, SitsStill
  <2> QED BY <1>18, <2>2 DEF Placed
<1>26. Divided(s)
  <2>1. ASSUME NEW d \in Kinds, NEW i \in Fronts(new, d), NEW j \in Backs(new, d)
        PROVE  new[i].start <= end[d] - new[j].start
    <3>1. i \in Fronts(log, d) /\ j \in Backs(log, d) /\ ~(r.end[d] - log[j].start < place)
      BY <1>24
    <3>2. i \in DOMAIN log /\ j \in DOMAIN log
      BY <3>1 DEF Fronts, Backs
    <3>3. new[i].start = log[i].start /\ new[j].start = log[j].start /\ log[i].start \in Int /\ log[j].start \in Int /\ r.end[d] \in Int
      BY <1>1, <1>3, <1>11, <3>2, RosterFields
    <3>4. r.end[d] - log[j].start >= place BY <3>1, <3>3
    <3>5. log[i].start <= r.end[d] + delta - log[j].start
      BY <3>1, <3>4 DEF log
    <3> QED BY <1>151, <3>3, <3>5
  <2> QED BY <1>18, <2>1 DEF Divided
<1>27. SplicedWell(r, s, place, delta)
  <2>1. /\ s.cursor = r.cursor /\ s.front = r.front /\ s.end = [d \in Kinds |-> r.end[d] + delta]
        /\ s.placed = r.placed /\ ~s.hidden /\ s.dead = r.dead + Cardinality(G)
        /\ s.lost = r.lost \cup {r.log[i].key : i \in G}
    <3>1. s.placed = r.placed BY <1>10, <1>16
    <3> QED BY <1>18, <1>152, <3>1
  <2>2. Len(s.log) = Len(r.log) /\ DOMAIN s.log = DOMAIN r.log
    BY <1>12, <1>18 DEF log
  <2>3. \A i \in DOMAIN r.log :
          /\ s.log[i].key = r.log[i].key /\ s.log[i].start = r.log[i].start /\ s.log[i].back = r.log[i].back
          /\ s.log[i].withdrew = r.log[i].withdrew /\ s.log[i].withdrawn = r.log[i].withdrawn
          /\ s.log[i].gone <=> r.log[i].gone \/ i \in G
          /\ Stands(s.log[i]) <=> Stands(r.log[i]) /\ i \notin G
    BY <1>11, <1>18, <1>19 DEF log
  <2> QED BY <2>1, <2>2, <2>3 DEF SplicedWell, G
<1> QED BY <1>17, <1>22, <1>23, <1>25, <1>26, <1>27 DEF Sound, s

\* A splice counts what it lets go among the dead, and no other.
LEMMA SplicedCounts ==
  ASSUME NEW r, NEW s, Sound(r), Sound(s), NEW place \in Int, NEW delta \in Int, SplicedWell(r, s, place, delta),
         Settled(r), Counted(r), NEW limit, Within(r, limit)
  PROVE  Settled(s) /\ Counted(s) /\ Within(s, limit)
<1> DEFINE G == Leaving(r, place)
           n == Len(r.log)
           A == {i \in DOMAIN r.log : ~Stands(r.log[i])}
           B == {i \in DOMAIN s.log : ~Stands(s.log[i])}
<1>1. r \in Rosters /\ s \in Rosters /\ Paired(r) /\ Paired(s)
  BY DEF Sound
<1>2. n \in Nat /\ DOMAIN r.log = 1..n /\ Len(s.log) = n /\ DOMAIN s.log = 1..n
  BY <1>1, RosterFields DEF SplicedWell
<1>3. \A i \in 1..n : /\ s.log[i].start = r.log[i].start /\ s.log[i].back = r.log[i].back
                      /\ Stands(s.log[i]) <=> Stands(r.log[i]) /\ i \notin G
  BY <1>2 DEF SplicedWell
<1>4. G \subseteq 1..n /\ \A i \in G : Stands(r.log[i])
  BY <1>2 DEF Leaving
<1>5. DeadSet(r.log, Len(r.log)) = A /\ DeadSet(s.log, Len(s.log)) = B
  BY <1>1, DeadIs
<1>6. B = A \cup G /\ A \cap G = {} /\ A \subseteq 1..n
  BY <1>2, <1>3, <1>4, Zenon
<1> HIDE DEF A, B, G
<1>7. IsFiniteSet(A) /\ IsFiniteSet(G)
  <2>1. IsFiniteSet(1..n) BY <1>2, FS_Interval
  <2> HIDE DEF n
  <2> QED BY <1>4, <1>6, <2>1, FS_Subset, Zenon
<1>8. Cardinality(A \cup G) = Cardinality(A) + Cardinality(G)
  <2>1. Cardinality(A \cup G) = Cardinality(A) + Cardinality(G) - Cardinality(A \cap G)
    BY <1>7, FS_Union
  <2>2. Cardinality(A \cap G) = 0 /\ Cardinality(A) \in Nat /\ Cardinality(G) \in Nat
    BY <1>6, <1>7, FS_EmptySet, FS_CardinalityType, Zenon
  <2> QED BY <2>1, <2>2
<1>9. Counted(s)
  <2>1. s.dead = r.dead + Cardinality(G)
    BY DEF SplicedWell, G
  <2> QED BY <1>5, <1>6, <1>8, <2>1 DEF Counted
<1>10. Settled(s) BY <1>2 DEF Settled, SplicedWell
<1>11. Within(s, limit)
  <2>1. s.placed = r.placed BY DEF SplicedWell
  <2> QED BY <1>2, <1>3, <2>1, Zenon DEF Within
<1> QED BY <1>9, <1>10, <1>11

\* A part no entry of which has a record is empty.
LEMMA NoneSits ==
  ASSUME NEW log, NEW entries \in Seq(Entries), Sits(log, {}, entries)
  PROVE  entries = << >>
<1>1. DOMAIN entries = {} BY DEF Sits
<1>2. Len(entries) = 0 BY <1>1, EntryFields
<1> QED BY <1>2, EmptySeq

-------------------------------------------------------------------------------
(* What lookups make of a roster.                                          *)

\* A roster some kinds of which were indexed.
Reached(r, s) ==
  s \in Rosters /\ Alike(r, s) /\ Indexed(s) /\ Settled(s) /\ \A d \in Kinds : r.cursor[d] <= s.cursor[d]

\* What making the index leaves as it was, one kind after another.
LEMMA AlikeOn ==
  ASSUME NEW r, NEW s, NEW t, Alike(r, s), Alike(s, t)
  PROVE  Alike(r, r) /\ Alike(r, t)
BY DEF Alike, Same

\* A sound roster is one some kinds of which, none, were indexed.
LEMMA ReachedFirst ==
  ASSUME NEW r, Sound(r), Settled(r)
  PROVE  Reached(r, r)
<1>1. r \in Rosters /\ Indexed(r) /\ r.cursor \in [Kinds -> Nat]
  BY RosterFields DEF Sound
<1>2. Alike(r, r) BY DEF Alike, Same
<1> QED BY <1>1, <1>2 DEF Reached

\* And so is one of which one more kind is indexed.
LEMMA ReachedOn ==
  ASSUME NEW r \in Rosters, NEW s, Reached(r, s), NEW d \in Kinds
  PROVE  /\ Reached(r, S_index_space(s, d)) /\ S_index_space(s, d).cursor[d] = Len(r.log)
         /\ \A e \in Kinds : e # d => S_index_space(s, d).cursor[e] = s.cursor[e]
<1> DEFINE t == S_index_space(s, d)
<1>1. s \in Rosters /\ Alike(r, s) /\ Indexed(s) /\ Settled(s) /\ \A e \in Kinds : r.cursor[e] <= s.cursor[e]
  BY DEF Reached
<1>2. t \in Rosters /\ Alike(s, t) /\ Indexed(t) /\ t.cursor = [s.cursor EXCEPT ![d] = Len(s.log)]
  <2>1. s.cursor[d] <= Len(s.log) BY <1>1 DEF Settled
  <2> QED BY <1>1, <2>1, IndexSpace, Zenon
<1> HIDE DEF t
<1>3. Alike(r, t) BY <1>1, <1>2, AlikeOn
<1>4. s.cursor \in [Kinds -> Nat] /\ Len(s.log) \in Nat /\ r.cursor \in [Kinds -> Nat] /\ Len(s.log) = Len(r.log) /\ Len(t.log) = Len(s.log)
  BY <1>1, <1>2, RosterFields DEF Alike
<1>5. \A e \in Kinds : t.cursor[e] = IF e = d THEN Len(s.log) ELSE s.cursor[e]
  BY <1>2, <1>4
<1>6. \A e \in Kinds : s.cursor[e] <= Len(s.log) /\ s.cursor[e] \in Nat /\ r.cursor[e] <= s.cursor[e] /\ r.cursor[e] \in Nat
  BY <1>1, <1>4 DEF Settled
<1>7. Settled(t) BY <1>4, <1>5, <1>6 DEF Settled
<1>8. \A e \in Kinds : r.cursor[e] <= t.cursor[e]
  BY <1>4, <1>5, <1>6
<1> QED BY <1>2, <1>3, <1>4, <1>5, <1>7, <1>8 DEF Reached, t

\* What an index made later leaves as it was.
LEMMA ReachedSound ==
  ASSUME NEW r, Sound(r), NEW s, Reached(r, s)
  PROVE  /\ Sound(s) /\ Settled(s)
         /\ \A c : Since(r, c) => Since(s, c)
         /\ \A c \in 0..Len(r.log) : DeadSet(s.log, c) = DeadSet(r.log, c)
         /\ \A limit : Within(r, limit) => Within(s, limit)
         /\ Counted(r) => Counted(s)
<1>1. r \in Rosters /\ s \in Rosters /\ Alike(r, s) /\ Indexed(s) /\ Settled(s) /\ \A d \in Kinds : r.cursor[d] <= s.cursor[d]
  BY DEF Reached, Sound
<1>2. /\ Placed(r) => Placed(s)
      /\ Divided(r) => Divided(s)
      /\ \A c : Since(r, c) => Since(s, c)
      /\ \A c \in 0..Len(r.log) : DeadSet(s.log, c) = DeadSet(r.log, c)
      /\ \A limit : Within(r, limit) => Within(s, limit)
      /\ Paired(r) => Paired(s)
  BY <1>1, AlikeKeeps
<1>3. Len(s.log) = Len(r.log) /\ s.dead = r.dead /\ Len(r.log) \in 0..Len(r.log)
  BY <1>1, RosterFields DEF Alike
<1> QED BY <1>1, <1>2, <1>3 DEF Sound, Counted

\* A lookup makes at most its kind's index.
LEMMA AskedSound ==
  ASSUME NEW r, Sound(r), Settled(r), NEW k \in Keys
  PROVE  Reached(r, Asked(r, k))
<1>1. Reached(r, r) /\ r \in Rosters
  BY ReachedFirst DEF Sound
<1>2. KindOf[k] \in Kinds BY RosterAssumption
<1>3. Reached(r, S_index_space(r, KindOf[k]))
  BY <1>1, <1>2, ReachedOn
<1> QED BY <1>1, <1>3 DEF Asked

\* The index is made of each kind of the labels an edit may have altered.
Covers(r, s) == \A k \in Made(r, edit.from) \cup Lost(r) : s.cursor[KindOf[k]] = Len(r.log)

\* Asking for the labels an edit altered makes the indexes of the kinds they are of.
LEMMA ComparedSound ==
  ASSUME NEW r, Sound(r), Settled(r)
  PROVE  Reached(r, Compared(r)) /\ Covers(r, Compared(r))
<1> DEFINE asked == {KindOf[k] : k \in Made(r, edit.from) \cup Lost(r)}
           n == Len(KindOrder)
           X == {s \in Rosters : Reached(r, s)}
           F == [i \in 1..n |-> [s \in X |-> IF KindOrder[i] \in asked THEN S_index_space(s, KindOrder[i]) ELSE s]]
           Done(i) == {s \in X : \A m \in 1..i : KindOrder[m] \in asked => s.cursor[KindOrder[m]] = Len(r.log)}
           G == [i \in 0..n |-> Done(i)]
           Eq(f) == f = [i \in 0..n |->
             IF i = 0 THEN r ELSE IF KindOrder[i] \in asked THEN S_index_space(f[i - 1], KindOrder[i]) ELSE f[i - 1]]
<1>1. n \in Nat /\ \A i \in 1..n : KindOrder[i] \in Kinds
  BY RosterAssumption
<1>2. r \in X /\ r \in Rosters BY ReachedFirst DEF Sound
<1>3. ASSUME NEW s \in X, NEW i \in 1..n PROVE (IF KindOrder[i] \in asked THEN S_index_space(s, KindOrder[i]) ELSE s) \in X
  <2>1. KindOrder[i] \in Kinds /\ Reached(r, s) BY <1>1
  <2> HIDE DEF asked
  <2>2. Reached(r, S_index_space(s, KindOrder[i]))
    BY <1>2, <2>1, ReachedOn
  <2>3. S_index_space(s, KindOrder[i]) \in Rosters
    BY <2>2 DEF Reached
  <2> QED BY <2>2, <2>3
<1>12. ASSUME NEW i \in 1..n, NEW s \in Done(i - 1)
       PROVE  (IF KindOrder[i] \in asked THEN S_index_space(s, KindOrder[i]) ELSE s) \in Done(i)
  <2> DEFINE t == IF KindOrder[i] \in asked THEN S_index_space(s, KindOrder[i]) ELSE s
  <2>1. t \in X /\ Reached(r, s) BY <1>3
  <2> HIDE DEF asked
  <2>2. /\ KindOrder[i] \in asked => t.cursor[KindOrder[i]] = Len(r.log)
        /\ \A e \in Kinds : e # KindOrder[i] => t.cursor[e] = s.cursor[e]
    <3>1. KindOrder[i] \in Kinds BY <1>1
    <3>2. /\ S_index_space(s, KindOrder[i]).cursor[KindOrder[i]] = Len(r.log)
          /\ \A e \in Kinds : e # KindOrder[i] => S_index_space(s, KindOrder[i]).cursor[e] = s.cursor[e]
      BY <1>2, <2>1, <3>1, ReachedOn
    <3> QED BY <3>2
  <2> HIDE DEF t, X
  <2>3. \A m \in 1..(i - 1) : KindOrder[m] \in asked => s.cursor[KindOrder[m]] = Len(r.log)
    OBVIOUS
  <2>4. \A m \in 1..i : KindOrder[m] \in Kinds /\ (m = i \/ m \in 1..(i - 1))
    <3>1. \A m \in 1..i : m \in 1..n /\ (m = i \/ m \in 1..(i - 1))
      BY <1>1
    <3> QED BY <1>1, <3>1
  <2>5. \A m \in 1..i : KindOrder[m] \in asked => t.cursor[KindOrder[m]] = Len(r.log)
    <3> TAKE m \in 1..i
    <3> HAVE KindOrder[m] \in asked
    <3>1. CASE KindOrder[m] = KindOrder[i] BY <2>2, <3>1
    <3>2. CASE KindOrder[m] # KindOrder[i]
      <4>1. m \in 1..(i - 1) /\ KindOrder[m] \in Kinds
        BY <2>4, <3>2
      <4> QED BY <2>2, <2>3, <3>2, <4>1
    <3> QED BY <3>1, <3>2
  <2> QED BY <2>1, <2>5 DEF t
<1> HIDE DEF asked, n
<1>4. PICK g : /\ g \in [0..n -> X] /\ g[0] = r
               /\ \A i \in 1..n : g[i] = F[i][g[i - 1]]
               /\ \A i \in 0..n : g[i] \in G[i]
  <2>1. G \in [0..n -> SUBSET X] /\ r \in G[0]
    <3>1. \A i \in 0..n : Done(i) \in SUBSET X OBVIOUS
    <3>2. r \in Done(0) /\ 0 \in 0..n BY <1>1, <1>2
    <3> HIDE DEF Done
    <3> QED BY <3>1, <3>2
  <2>2. \A i \in 1..n : \A s \in G[i - 1] : F[i][s] \in G[i]
    <3> TAKE i \in 1..n
    <3>1. i - 1 \in 0..n /\ i \in 0..n BY <1>1
    <3>2. G[i - 1] = Done(i - 1) /\ G[i] = Done(i) BY <3>1
    <3>3. \A s \in Done(i - 1) : s \in X /\ F[i][s] = IF KindOrder[i] \in asked THEN S_index_space(s, KindOrder[i]) ELSE s
      OBVIOUS
    <3> HIDE DEF Done, F, X
    <3>4. \A s \in Done(i - 1) : F[i][s] \in Done(i)
      BY <1>12, <3>3
    <3> QED BY <3>2, <3>4
  <2> HIDE DEF X, F, G
  <2>3. Sure(X, n, r, F, G) BY <1>1, <2>1, <2>2, Turns
  <2> QED BY <2>3, Zenon DEF Sure
<1>5. \A i \in 1..n : i \in 0..n /\ i - 1 \in 0..n /\ i # 0
  BY <1>1
<1>6. \A i \in 1..n : g[i] = IF KindOrder[i] \in asked THEN S_index_space(g[i - 1], KindOrder[i]) ELSE g[i - 1]
  <2> TAKE i \in 1..n
  <2>1. g[i - 1] \in X /\ g[i] = F[i][g[i - 1]]
    BY <1>4, <1>5, Zenon
  <2> HIDE DEF X
  <2> QED BY <2>1
<1> DEFINE f == CHOOSE h : Eq(h)
<1>7. Eq(g)
  <2>1. \A i \in 0..n : g[i] = IF i = 0 THEN r ELSE IF KindOrder[i] \in asked THEN S_index_space(g[i - 1], KindOrder[i]) ELSE g[i - 1]
    <3> TAKE i \in 0..n
    <3>1. i = 0 \/ i \in 1..n BY <1>1
    <3> QED BY <1>4, <1>5, <1>6, <3>1
  <2>2. g = [i \in 0..n |-> g[i]] BY <1>4
  <2> HIDE DEF X
  <2> QED BY <2>1, <2>2, Zenon
<1>8. Eq(f)
  <2> HIDE DEF Eq
  <2> QED BY <1>7
<1>9. Compared(r) = f[n] BY DEF Compared, n, asked
<1>10. f[n] = g[n]
  <2>1. f[0] = r /\ \A i \in 1..n : f[i] = IF KindOrder[i] \in asked THEN S_index_space(f[i - 1], KindOrder[i]) ELSE f[i - 1]
    <3>1. 0 \in 0..n BY <1>1
    <3> HIDE DEF f
    <3>2. f[0] = r BY <1>8, <3>1
    <3>3. \A i \in 1..n : f[i] = IF KindOrder[i] \in asked THEN S_index_space(f[i - 1], KindOrder[i]) ELSE f[i - 1]
      BY <1>5, <1>8
    <3> QED BY <3>2, <3>3
  <2> HIDE DEF f
  <2>2. f[0] = g[0] /\ \A i \in 1..n : f[i - 1] = g[i - 1] => f[i] = g[i]
    BY <1>4, <1>6, <2>1
  <2>3. Agree(f, g, n) BY <1>1, <2>2, TurnsUnique
  <2> QED BY <1>1, <2>3 DEF Agree
<1>11. g[n] \in Done(n) /\ g[n] \in X
  <2>1. n \in 0..n BY <1>1
  <2>2. g[n] \in G[n] /\ G[n] = Done(n) BY <1>4, <2>1
  <2> QED BY <2>2
<1>13. Covers(r, g[n])
  <2> SUFFICES ASSUME NEW k \in Made(r, edit.from) \cup Lost(r) PROVE g[n].cursor[KindOf[k]] = Len(r.log)
    BY DEF Covers
  <2>1. KindOf[k] \in asked BY DEF asked
  <2>2. k \in Keys
    BY <1>2, RosterFields, Zenon DEF Made, Lost
  <2>3. PICK m \in DOMAIN KindOrder : KindOrder[m] = KindOf[k]
    BY <2>2, RosterAssumption DEF Kinds, ToSet
  <2>4. m \in 1..n BY <2>3, RosterAssumption DEF n
  <2> HIDE DEF X
  <2> QED BY <1>11, <2>1, <2>3, <2>4
<1>14. Reached(r, g[n]) BY <1>11
<1> QED BY <1>9, <1>10, <1>13, <1>14

-------------------------------------------------------------------------------
(* The invariant of a parse.                                               *)

\* What an edit of the text holds.
Edits == [phase : {"stream", "idle", "reading", "resumed", "read"}, from : Nat, to : Nat, delta : Int, resumed : Nat]

\* The bytes of the text declarations are made in.
Limit == IF edit.phase \in {"reading", "resumed"} THEN size + edit.delta ELSE size

\* The marks are of prefixes of the log, each shorter than the next, which a rollback
\* can restore; none is held across an edit.
MarksOK ==
  /\ marks \in Seq(Marks)
  /\ \A m \in DOMAIN marks :
       /\ marks[m].count <= Len(roster.log)
       /\ Since(roster, marks[m].count)
       /\ marks[m].dead = Cardinality(DeadSet(roster.log, marks[m].count))
  /\ \A m, n \in DOMAIN marks : m < n => marks[m].count <= marks[n].count
  /\ edit.phase \in {"idle", "read"} => marks = << >>

\* What an edit has made of the places in each of its phases.
EditOK ==
  /\ edit \in Edits /\ size \in 0..MaxSize
  /\ edit.phase = "stream" => ~roster.placed /\ ~roster.hidden
  /\ edit.phase \in {"reading", "resumed", "read"} => roster.placed
  /\ roster.hidden => edit.phase = "reading"
  /\ edit.phase \in {"reading", "resumed"} => size + edit.delta \in 0..MaxSize
  /\ edit.phase = "reading" => \A d \in Kinds : roster.end[d] = size /\ (~roster.hidden => roster.back[d] = << >>)
  /\ edit.phase = "resumed" =>
       edit.resumed <= size + edit.delta /\
       \A d \in Kinds : /\ roster.end[d] = size + edit.delta
                        /\ \A j \in Backs(roster.log, d) : edit.resumed <= roster.end[d] - roster.log[j].start
  /\ edit.phase \in {"idle", "read"} => \A d \in Kinds : roster.back[d] # << >> => roster.end[d] = size

\* The inductive invariant.
IInv ==
  /\ Sound(roster) /\ Settled(roster)
  /\ Counted(roster)
  /\ Within(roster, Limit)
  /\ MarksOK /\ EditOK

-------------------------------------------------------------------------------
(* The steps.                                                              *)

\* The empty roster a parse begins with.
LEMMA InitKeeps == Init => IInv
<1> SUFFICES ASSUME Init PROVE IInv OBVIOUS
<1> DEFINE r == roster
<1>1. r = [log |-> << >>, index |-> [k \in Keys |-> NoList],
           indexed |-> [d \in Kinds |-> 0], cursor |-> [d \in Kinds |-> 0],
           front |-> [d \in Kinds |-> << >>], back |-> [d \in Kinds |-> << >>], end |-> [d \in Kinds |-> 0],
           placed |-> FALSE, hidden |-> FALSE, dead |-> 0, lost |-> {}]
  BY DEF Init
<1>2. marks = << >> /\ edit = NoEdit /\ size = MaxSize
  BY DEF Init
<1> HIDE DEF r
<1>3. /\ r.log = << >> /\ r.index = [k \in Keys |-> NoList] /\ r.indexed = [d \in Kinds |-> 0]
      /\ r.cursor = [d \in Kinds |-> 0] /\ r.front = [d \in Kinds |-> << >>] /\ r.back = [d \in Kinds |-> << >>]
      /\ r.end = [d \in Kinds |-> 0] /\ r.placed = FALSE /\ r.hidden = FALSE /\ r.dead = 0
  BY <1>1
<1>4. DOMAIN r.log = {} /\ Len(r.log) = 0 BY <1>3
<1>5. r \in Rosters
  <2>1. << >> \in Seq(Recs) /\ << >> \in Seq(Entries) /\ NoList \in Lists
    BY DEF Lists, NoList
  <2> QED BY <1>1, <2>1 DEF Rosters
<1>6. Indexed(r)
  <2>1. Taken(r) = {} /\ \A d \in Kinds : UpToCursor(r, d) = {}
    BY <1>4 DEF Taken, UpToCursor
  <2>2. Holds(r, {})
    <3>1. ASSUME NEW k \in Keys PROVE Listing(r.log, r.index[k], {i \in {} : r.log[i].key = k})
      <4>1. r.index[k] = NoList /\ NoList.list = << >> /\ NoList.hint = 0
        BY <1>3 DEF NoList
      <4>2. DOMAIN r.index[k].list = {} BY <4>1
      <4> QED BY <4>1, <4>2 DEF Listing, Ordered
    <3> QED BY <1>4, <3>1 DEF Holds
  <2>3. \A d \in Kinds : r.indexed[d] = Cardinality(UpToCursor(r, d))
    BY <1>3, <2>1, FS_EmptySet, Zenon
  <2> QED BY <2>1, <2>2, <2>3 DEF Indexed
<1>7. Paired(r) /\ Placed(r) /\ Divided(r)
  <2>1. Paired(r) BY <1>4 DEF Paired
  <2>2. Placed(r) BY <1>3, <1>4 DEF Placed
  <2>3. Divided(r) BY <1>4 DEF Divided, Fronts
  <2> QED BY <2>1, <2>2, <2>3
<1>8. Settled(r) BY <1>3, <1>4 DEF Settled
<1>9. Counted(r)
  <2>1. DeadSet(r.log, Len(r.log)) = {} BY <1>4 DEF DeadSet
  <2> QED BY <1>3, <2>1, FS_EmptySet, Zenon DEF Counted
<1>10. Within(r, Limit) BY <1>4 DEF Within
<1>11. MarksOK BY <1>2 DEF MarksOK
<1>12. EditOK
  BY <1>2, <1>3, RosterAssumption DEF EditOK, NoEdit, Edits, r
<1> QED BY <1>5, <1>6, <1>7, <1>8, <1>9, <1>10, <1>11, <1>12 DEF IInv, Sound, r

\* The kinds of values the state holds.
LEMMA TypesOf ==
  ASSUME IInv
  PROVE  /\ roster \in Rosters /\ size \in Nat /\ size \in Int /\ MaxSize \in Nat /\ size <= MaxSize
         /\ edit \in Edits /\ edit.phase \in {"stream", "idle", "reading", "resumed", "read"}
         /\ edit.from \in Nat /\ edit.to \in Nat /\ edit.delta \in Int /\ edit.resumed \in Nat
         /\ Limit \in Int
<1>1. edit \in Edits /\ size \in 0..MaxSize /\ roster \in Rosters
  BY DEF IInv, EditOK, Sound
<1>2. /\ edit.phase \in {"stream", "idle", "reading", "resumed", "read"}
      /\ edit.from \in Nat /\ edit.to \in Nat /\ edit.delta \in Int /\ edit.resumed \in Nat
  BY <1>1 DEF Edits
<1>3. MaxSize \in Nat /\ size \in Nat /\ size <= MaxSize
  BY <1>1, RosterAssumption
<1> QED BY <1>1, <1>2, <1>3 DEF Limit

\* What a mark held knows of the roster: a length it has not fallen below since, and the dead then.
LEMMA MarkFacts ==
  ASSUME IInv, NEW m \in DOMAIN marks
  PROVE  /\ marks[m] \in Marks /\ marks[m].count \in Nat /\ marks[m].dead \in Int
         /\ marks[m].count <= Len(roster.log) /\ Since(roster, marks[m].count)
         /\ marks[m].dead = Cardinality(DeadSet(roster.log, marks[m].count))
<1>1. MarksOK BY DEF IInv
<1>2. marks \in Seq(Marks) BY <1>1 DEF MarksOK
<1>3. marks[m] \in Marks BY <1>2
<1>4. marks[m].count \in Nat /\ marks[m].dead \in Int
  BY <1>3 DEF Marks
<1> QED BY <1>1, <1>3, <1>4 DEF MarksOK

\* Where a declaration made now may start is in the text being read, before what of
\* the old text was taken back.
LEMMA OpenBefore ==
  ASSUME IInv, NEW s \in Open, NEW d \in Kinds
  PROVE  /\ s \in Int /\ s <= Limit /\ edit.phase \notin {"idle", "read"}
         /\ ~roster.hidden => \A j \in Backs(roster.log, d) : s <= roster.end[d] - roster.log[j].start
<1>1. /\ roster \in Rosters /\ size \in Nat /\ edit.delta \in Int /\ edit.from \in Nat /\ edit.resumed \in Nat
      /\ edit.phase \in {"stream", "idle", "reading", "resumed", "read"}
  BY TypesOf
<1>2. Placed(roster) /\ EditOK BY DEF IInv, Sound
<1>3. CASE edit.phase = "stream"
  <2>1. s \in 0..(size - 1) /\ Limit = size
    BY <1>3 DEF Open, Limit
  <2>2. Backs(roster.log, d) = {}
    BY <1>2, <1>3 DEF EditOK, Placed, Backs
  <2> QED BY <1>1, <1>3, <2>1, <2>2
<1>4. CASE edit.phase = "reading"
  <2>1. s \in edit.from..(size + edit.delta - 1) /\ Limit = size + edit.delta
    BY <1>4 DEF Open, Limit
  <2>2. ~roster.hidden => Backs(roster.log, d) = {}
    <3>1. roster.placed /\ (~roster.hidden => roster.back[d] = << >>)
      BY <1>2, <1>4 DEF EditOK
    <3>2. Sits(roster.log, Backs(roster.log, d), roster.back[d])
      BY <1>2, <3>1 DEF Placed
    <3> QED BY <3>1, <3>2 DEF Sits
  <2> QED BY <1>1, <1>4, <2>1, <2>2
<1>5. CASE edit.phase = "resumed"
  <2>1. s \in edit.from..(edit.resumed - 1) /\ Limit = size + edit.delta
    BY <1>5 DEF Open, Limit
  <2>2. edit.resumed <= size + edit.delta
    BY <1>2, <1>5 DEF EditOK
  <2>3. \A j \in Backs(roster.log, d) : edit.resumed <= roster.end[d] - roster.log[j].start
    BY <1>2, <1>5 DEF EditOK
  <2>4. \A j \in Backs(roster.log, d) : roster.log[j].start \in Int /\ roster.end[d] \in Int
    BY <1>1, RosterFields, LogFields DEF Backs
  <2> QED BY <1>1, <1>5, <2>1, <2>2, <2>3, <2>4
<1>6. CASE edit.phase \in {"idle", "read"} BY <1>6 DEF Open
<1> QED BY <1>1, <1>3, <1>4, <1>5, <1>6

\* A declaration keeps the invariant: it is made where the parse reads.
LEMMA DeclareKeeps ==
  ASSUME IInv, NEW k \in Keys, NEW start, Declare(k, start)
  PROVE  IInv'
<1> DEFINE r == roster
           s == Declared(roster, k, start)
           n == Len(roster.log)
           d == KindOf[k]
<1>1. /\ start \in Open /\ roster' = s /\ marks' = marks /\ edit' = edit /\ size' = size
  BY DEF Declare
<1>2. d \in Kinds BY RosterAssumption
<1>3. /\ start \in Int /\ start <= Limit /\ edit.phase \notin {"idle", "read"}
      /\ ~r.hidden => \A j \in Backs(r.log, d) : start <= r.end[d] - r.log[j].start
  BY <1>1, <1>2, OpenBefore
<1>4. Sound(r) /\ Settled(r) /\ Counted(r) /\ Within(r, Limit) /\ MarksOK /\ EditOK
  BY DEF IInv
<1>5. r \in Rosters /\ n \in Nat /\ DOMAIN r.log = 1..n
  BY <1>4, RosterFields DEF Sound
<1>6. /\ Sound(s) /\ Settled(s) /\ Len(s.log) = n + 1
      /\ \A i \in 1..n : s.log[i] = r.log[i]
      /\ s.log[n + 1] = Fresh(k, start, 0)
      /\ s.cursor = r.cursor /\ s.back = r.back /\ s.end = r.end /\ s.placed = r.placed
      /\ s.hidden = r.hidden /\ s.dead = r.dead /\ s.lost = r.lost
  BY <1>3, <1>4, DeclaredSound
<1> HIDE DEF s, n, d
<1>7. DOMAIN s.log = 1..(n + 1) /\ s \in Rosters /\ n + 1 \in 1..(n + 1) /\ \A i \in 1..(n + 1) : i \in 1..n \/ i = n + 1
  BY <1>5, <1>6, RosterFields DEF Sound
<1>8. LET x == s.log[n + 1] IN x.start = start /\ x.withdrew = 0 /\ ~x.withdrawn /\ ~x.back /\ ~x.gone /\ Stands(x)
  BY <1>3, <1>6, FreshFields
<1>9. Counted(s)
  <2>1. /\ DeadSet(r.log, Len(r.log)) = {i \in DOMAIN r.log : ~Stands(r.log[i])}
        /\ DeadSet(s.log, Len(s.log)) = {i \in DOMAIN s.log : ~Stands(s.log[i])}
    BY <1>4, <1>5, <1>6, <1>7, DeadIs DEF Sound
  <2>2. {i \in DOMAIN s.log : ~Stands(s.log[i])} = {i \in DOMAIN r.log : ~Stands(r.log[i])}
    BY <1>5, <1>6, <1>7, <1>8
  <2> QED BY <1>4, <1>6, <2>1, <2>2, Zenon DEF Counted
<1>10. Limit' = Limit BY <1>1 DEF Limit
<1>11. Within(s, Limit)
  <2>1. \A i \in 1..n : (Stands(r.log[i]) \/ ~r.placed) /\ ~r.log[i].back => r.log[i].start <= Limit
    BY <1>4, <1>5 DEF Within
  <2>2. \A i \in 1..n : Stands(r.log[i]) /\ r.log[i].back => 0 <= r.log[i].start
    BY <1>4, <1>5 DEF Within
  <2>3. \A i \in 1..(n + 1) : (Stands(s.log[i]) \/ ~s.placed) /\ ~s.log[i].back => s.log[i].start <= Limit
    BY <1>3, <1>6, <1>7, <1>8, <2>1
  <2>4. \A i \in 1..(n + 1) : Stands(s.log[i]) /\ s.log[i].back => 0 <= s.log[i].start
    BY <1>6, <1>7, <1>8, <2>2
  <2> QED BY <1>7, <2>3, <2>4 DEF Within
<1>12. ASSUME NEW m \in DOMAIN marks
       PROVE  /\ marks[m].count <= Len(s.log) /\ Since(s, marks[m].count)
              /\ marks[m].dead = Cardinality(DeadSet(s.log, marks[m].count))
  <2> DEFINE c == marks[m].count
  <2>1. c <= n /\ Since(r, c) /\ marks[m].dead = Cardinality(DeadSet(r.log, c)) /\ c \in Nat
    BY MarkFacts DEF n
  <2> HIDE DEF c
  <2>2. DeadSet(s.log, c) = DeadSet(r.log, c)
    <3>1. \A i \in 1..c : s.log[i].withdrew = r.log[i].withdrew /\ s.log[i].gone = r.log[i].gone
      BY <1>5, <1>6, <2>1
    <3> QED BY <2>1, <3>1, DeadSame
  <2>3. Since(s, c)
    BY <1>5, <1>6, <1>7, <1>8, <2>1 DEF Since
  <2> QED BY <1>5, <1>6, <2>1, <2>2, <2>3 DEF c
<1>13. MarksOK'
  <2>1. /\ marks \in Seq(Marks) /\ \A m, i \in DOMAIN marks : m < i => marks[m].count <= marks[i].count
        /\ edit.phase \in {"idle", "read"} => marks = << >>
    BY <1>4 DEF MarksOK
  <2> QED BY <1>1, <1>12, <2>1 DEF MarksOK
<1>14. \A e \in Kinds : Backs(s.log, e) = Backs(r.log, e)
  BY <1>5, <1>6, <1>7, <1>8 DEF Backs
<1>15. EditOK'
  <2>1. \A e \in Kinds : \A j \in Backs(r.log, e) : s.log[j].start = r.log[j].start
    BY <1>5, <1>6 DEF Backs
  <2> QED BY <1>1, <1>4, <1>6, <1>14, <2>1 DEF EditOK
<1> QED BY <1>1, <1>6, <1>9, <1>10, <1>11, <1>13, <1>15 DEF IInv

\* What was indexed later is still what the parse is at.
LEMMA IndexedKeeps ==
  ASSUME IInv, NEW s, Reached(roster, s)
  PROVE  /\ Sound(s) /\ Settled(s) /\ Counted(s) /\ Within(s, Limit)
         /\ \A m \in DOMAIN marks : /\ marks[m].count <= Len(s.log) /\ Since(s, marks[m].count)
                                    /\ marks[m].dead = Cardinality(DeadSet(s.log, marks[m].count))
         /\ s.placed = roster.placed /\ s.hidden = roster.hidden /\ s.back = roster.back /\ s.end = roster.end
         /\ \A d \in Kinds : Backs(s.log, d) = Backs(roster.log, d)
         /\ \A j \in DOMAIN roster.log : s.log[j].start = roster.log[j].start
<1>1. Sound(roster) /\ Counted(roster) /\ Within(roster, Limit) /\ roster \in Rosters
  BY DEF IInv, Sound
<1>2. /\ Sound(s) /\ Settled(s)
      /\ \A c : Since(roster, c) => Since(s, c)
      /\ \A c \in 0..Len(roster.log) : DeadSet(s.log, c) = DeadSet(roster.log, c)
      /\ \A limit : Within(roster, limit) => Within(s, limit)
      /\ Counted(roster) => Counted(s)
  BY <1>1, ReachedSound
<1>3. Alike(roster, s) BY DEF Reached
<1>4. /\ DOMAIN s.log = DOMAIN roster.log /\ Len(s.log) = Len(roster.log) /\ Len(roster.log) \in Nat
      /\ s.placed = roster.placed /\ s.hidden = roster.hidden /\ s.back = roster.back /\ s.end = roster.end
      /\ \A i \in DOMAIN roster.log : Same(s.log[i], roster.log[i])
  BY <1>1, <1>3, RosterFields DEF Alike
<1>5. ASSUME NEW m \in DOMAIN marks
      PROVE  /\ marks[m].count <= Len(s.log) /\ Since(s, marks[m].count)
             /\ marks[m].dead = Cardinality(DeadSet(s.log, marks[m].count))
  <2> DEFINE c == marks[m].count
  <2>1. c \in Nat /\ c <= Len(roster.log) /\ Since(roster, c) /\ marks[m].dead = Cardinality(DeadSet(roster.log, c))
    BY MarkFacts
  <2> HIDE DEF c
  <2>2. c \in 0..Len(roster.log) BY <1>4, <2>1
  <2> QED BY <1>2, <1>4, <2>1, <2>2 DEF c
<1>6. \A d \in Kinds : Backs(s.log, d) = Backs(roster.log, d)
  <2>1. \A i \in DOMAIN roster.log : /\ Stands(s.log[i]) = Stands(roster.log[i]) /\ Kind(s.log[i]) = Kind(roster.log[i])
                                     /\ s.log[i].back = roster.log[i].back
    BY <1>3, AlikeRecords DEF Same
  <2> QED BY <1>4, <2>1 DEF Backs
<1>7. \A j \in DOMAIN roster.log : s.log[j].start = roster.log[j].start
  BY <1>4 DEF Same
<1> QED BY <1>1, <1>2, <1>4, <1>5, <1>6, <1>7

\* A lookup keeps the invariant.
LEMMA FindKeeps ==
  ASSUME IInv, NEW k \in Keys, Find(k)
  PROVE  IInv'
<1> DEFINE s == Asked(roster, k)
<1>1. roster' = s /\ marks' = marks /\ edit' = edit /\ size' = size
  BY DEF Find
<1>2. Reached(roster, s) BY AskedSound DEF IInv
<1> HIDE DEF s
<1>3. /\ Sound(s) /\ Settled(s) /\ Counted(s) /\ Within(s, Limit)
      /\ \A m \in DOMAIN marks : /\ marks[m].count <= Len(s.log) /\ Since(s, marks[m].count)
                                 /\ marks[m].dead = Cardinality(DeadSet(s.log, marks[m].count))
      /\ s.placed = roster.placed /\ s.hidden = roster.hidden /\ s.back = roster.back /\ s.end = roster.end
      /\ \A d \in Kinds : Backs(s.log, d) = Backs(roster.log, d)
      /\ \A j \in DOMAIN roster.log : s.log[j].start = roster.log[j].start
  BY <1>2, IndexedKeeps
<1>4. Limit' = Limit BY <1>1 DEF Limit
<1>5. MarksOK'
  <2>1. MarksOK BY DEF IInv
  <2> QED BY <1>1, <1>3, <2>1 DEF MarksOK
<1>6. EditOK'
  <2>1. EditOK BY DEF IInv
  <2>2. \A d \in Kinds : \A j \in Backs(roster.log, d) : s.log[j].start = roster.log[j].start
    BY <1>3 DEF Backs
  <2> QED BY <1>1, <1>3, <2>1, <2>2 DEF EditOK
<1> QED BY <1>1, <1>3, <1>4, <1>5, <1>6 DEF IInv

\* The labels altered, asked of a text just read, keep the invariant.
LEMMA AlteredKeeps ==
  ASSUME IInv, Altered
  PROVE  IInv'
<1> DEFINE s == Compared(roster)
<1>1. /\ edit.phase = "read" /\ roster' = s /\ marks' = marks /\ size' = size /\ edit' = [NoEdit EXCEPT !.phase = "idle"]
  BY DEF Altered
<1>2. Reached(roster, s) BY ComparedSound DEF IInv
<1> HIDE DEF s
<1>3. /\ Sound(s) /\ Settled(s) /\ Counted(s) /\ Within(s, Limit)
      /\ s.placed = roster.placed /\ s.hidden = roster.hidden /\ s.back = roster.back /\ s.end = roster.end
  BY <1>2, IndexedKeeps
<1>4. edit'.phase = "idle" /\ edit' \in Edits
  BY <1>1 DEF NoEdit, Edits
<1>5. Limit' = Limit BY <1>1, <1>4 DEF Limit
<1>6. EditOK /\ MarksOK BY DEF IInv
<1>7. marks = << >> BY <1>1, <1>6 DEF MarksOK
<1>8. MarksOK' BY <1>1, <1>7 DEF MarksOK
<1>9. EditOK' BY <1>1, <1>3, <1>4, <1>6 DEF EditOK
<1> QED BY <1>1, <1>3, <1>5, <1>8, <1>9 DEF IInv

\* A mark keeps the invariant: it knows the log as it is.
LEMMA MarkKeeps ==
  ASSUME IInv, Mark
  PROVE  IInv'
<1> DEFINE r == roster
           n == Len(roster.log)
           mark == [count |-> n, dead |-> roster.dead]
           w == Len(marks)
<1>1. /\ Open # {} /\ marks' = Append(marks, mark) /\ roster' = roster /\ edit' = edit /\ size' = size
  BY DEF Mark
<1>2. Sound(r) /\ Counted(r) /\ MarksOK /\ EditOK /\ r \in Rosters
  BY DEF IInv, Sound
<1>3. n \in Nat /\ DOMAIN r.log = 1..n /\ r.dead \in Int
  BY <1>2, RosterFields
<1>4. marks \in Seq(Marks) /\ w \in Nat /\ DOMAIN marks = 1..w
  BY <1>2 DEF MarksOK
<1>5. mark \in Marks /\ mark.count = n /\ mark.dead = r.dead
  BY <1>3 DEF Marks
<1> HIDE DEF mark, n, w
<1>6. /\ marks' \in Seq(Marks) /\ DOMAIN marks' = 1..(w + 1) /\ marks'[w + 1] = mark
      /\ \A m \in 1..w : marks'[m] = marks[m]
  BY <1>1, <1>4, <1>5 DEF w
<1>7. \A m \in 1..w : /\ marks[m].count \in Nat /\ marks[m].count <= n /\ Since(r, marks[m].count)
                      /\ marks[m].dead = Cardinality(DeadSet(r.log, marks[m].count))
  BY <1>4, MarkFacts DEF n
<1>8. Since(r, n) /\ mark.dead = Cardinality(DeadSet(r.log, n))
  BY <1>2, <1>3, <1>5 DEF Since, Counted, n
<1>9. \A m \in 1..(w + 1) : m \in 1..w \/ m = w + 1 BY <1>4
<1>10. edit.phase \notin {"idle", "read"} BY <1>1 DEF Open
<1>11. \A m \in 1..(w + 1) : /\ marks'[m].count <= n /\ Since(r, marks'[m].count)
                             /\ marks'[m].dead = Cardinality(DeadSet(r.log, marks'[m].count))
  <2> TAKE m \in 1..(w + 1)
  <2>1. CASE m \in 1..w BY <1>6, <1>7, <2>1
  <2>2. CASE m = w + 1 BY <1>3, <1>5, <1>6, <1>8, <2>2
  <2> QED BY <1>9, <2>1, <2>2
<1>12. \A m, v \in 1..(w + 1) : m < v => marks'[m].count <= marks'[v].count
  <2> TAKE m, v \in 1..(w + 1)
  <2> HAVE m < v
  <2>1. m \in 1..w BY <1>4
  <2>2. CASE v \in 1..w
    BY <1>2, <1>4, <1>6, <2>1, <2>2 DEF MarksOK
  <2>3. CASE v = w + 1 BY <1>5, <1>6, <1>7, <2>1, <2>3
  <2> QED BY <1>9, <2>2, <2>3
<1>13. MarksOK'
  BY <1>1, <1>6, <1>10, <1>11, <1>12, Zenon DEF MarksOK, n
<1>14. EditOK' /\ Limit' = Limit
  BY <1>1, <1>2 DEF EditOK, Limit
<1> QED BY <1>1, <1>13, <1>14 DEF IInv

\* A withdrawal keeps the invariant: two records more are dead, and no mark's part of the log
\* knows which.
LEMMA WithdrawKeeps ==
  ASSUME IInv, NEW k \in Keys, NEW start, Withdraw(k, start)
  PROVE  IInv'
<1> DEFINE r == roster
           s == Withdrawn(roster, k, start)
           n == Len(roster.log)
           d == KindOf[k]
           g == GoneOf(roster, k, start)
           A == {i \in DOMAIN r.log : ~Stands(r.log[i])}
           B == {i \in DOMAIN s.log : ~Stands(s.log[i])}
<1>1. /\ edit.phase = "stream" /\ start \in Open /\ roster' = s /\ marks' = marks /\ edit' = edit /\ size' = size
      /\ \E i \in DOMAIN r.log : r.log[i].key = k /\ Stands(r.log[i])
  BY DEF Withdraw
<1>2. d \in Kinds BY RosterAssumption
<1>3. start \in Int /\ start <= Limit
  BY <1>1, <1>2, OpenBefore
<1>4. Sound(r) /\ Settled(r) /\ Counted(r) /\ Within(r, Limit) /\ MarksOK /\ EditOK
  BY DEF IInv
<1>5. r \in Rosters /\ n \in Nat /\ DOMAIN r.log = 1..n /\ Placed(r) /\ ~r.placed /\ ~r.hidden
  BY <1>1, <1>4, RosterFields DEF Sound, EditOK
<1>6. Sound(s) /\ Settled(s) /\ Withdrew(r, s, g, k, start)
  <2> HIDE DEF d, n
  <2> QED BY <1>1, <1>3, <1>4, <1>5, WithdrawnSound
<1> HIDE DEF s, g, n, d
<1>7. /\ g \in 1..n /\ Stands(r.log[g])
      /\ Len(s.log) = n + 1 /\ DOMAIN s.log = 1..(n + 1)
      /\ \A i \in 1..n : /\ s.log[i].start = r.log[i].start
                         /\ s.log[i].withdrew = r.log[i].withdrew /\ s.log[i].back = r.log[i].back
                         /\ s.log[i].gone = r.log[i].gone /\ (s.log[i].withdrawn <=> r.log[i].withdrawn \/ i = g)
      /\ Same(s.log[n + 1], Fresh(k, start, g))
      /\ s.front = r.front /\ s.back = r.back /\ s.end = r.end /\ s.placed = r.placed
      /\ s.hidden = r.hidden /\ s.dead = r.dead + 2
  BY <1>5, <1>6 DEF Withdrew, n
<1>8. LET x == s.log[n + 1] IN x.start = start /\ x.withdrew = g /\ ~x.back /\ ~x.gone /\ ~Stands(x)
  <2>1. g \in Nat /\ g # 0 BY <1>5, <1>7
  <2> QED BY <1>3, <1>7, <2>1, FreshFields DEF Same, Stands
<1>9. \A i \in 1..(n + 1) : i \in 1..n \/ i = n + 1 BY <1>5
<1>10. \A i \in 1..n : Stands(s.log[i]) <=> Stands(r.log[i]) /\ i # g
  BY <1>7 DEF Stands
<1>11. B = A \cup {g, n + 1} /\ g \notin A /\ n + 1 \notin A \cup {g} /\ IsFiniteSet(A)
  <2>1. \A i \in B : i \in A \cup {g, n + 1}
    BY <1>5, <1>7, <1>9, <1>10
  <2>2. \A i \in A : i \in B BY <1>5, <1>7, <1>10
  <2>3. g \in B /\ n + 1 \in B BY <1>5, <1>7, <1>8, <1>10
  <2>4. g \notin A /\ n + 1 \notin A \cup {g} BY <1>5, <1>7
  <2>5. IsFiniteSet(A)
    <3>1. IsFiniteSet(1..n) /\ A \subseteq 1..n
      BY <1>5, FS_Interval
    <3> HIDE DEF A
    <3> QED BY <3>1, FS_Subset, Zenon
  <2> HIDE DEF A, B
  <2> QED BY <2>1, <2>2, <2>3, <2>4, <2>5
<1>12. Counted(s)
  <2>1. DeadSet(r.log, Len(r.log)) = A /\ DeadSet(s.log, Len(s.log)) = B
    BY <1>4, <1>5, <1>6, DeadIs DEF Sound
  <2> HIDE DEF A, B
  <2>2. IsFiniteSet(A \cup {g}) /\ Cardinality(A \cup {g}) = Cardinality(A) + 1
    BY <1>11, FS_AddElement
  <2>3. Cardinality((A \cup {g}) \cup {n + 1}) = Cardinality(A \cup {g}) + 1
    BY <1>11, <2>2, FS_AddElement, Zenon
  <2>4. (A \cup {g}) \cup {n + 1} = B /\ Cardinality(A) \in Nat
    BY <1>11, FS_CardinalityType
  <2>5. Cardinality(B) = Cardinality(A) + 2
    BY <2>2, <2>3, <2>4
  <2> QED BY <1>4, <1>7, <2>1, <2>5 DEF Counted
<1>13. Limit' = Limit BY <1>1 DEF Limit
<1>14. Within(s, Limit)
  <2>1. \A i \in 1..n : ~r.log[i].back /\ r.log[i].start <= Limit
    BY <1>4, <1>5 DEF Within, Placed
  <2>2. \A i \in 1..(n + 1) : ~s.log[i].back /\ s.log[i].start <= Limit
    BY <1>3, <1>7, <1>8, <1>9, <2>1
  <2> QED BY <1>7, <2>2 DEF Within
<1>15. ASSUME NEW m \in DOMAIN marks
       PROVE  /\ marks[m].count <= Len(s.log) /\ Since(s, marks[m].count)
              /\ marks[m].dead = Cardinality(DeadSet(s.log, marks[m].count))
  <2> DEFINE c == marks[m].count
  <2>1. c <= n /\ Since(r, c) /\ marks[m].dead = Cardinality(DeadSet(r.log, c)) /\ c \in Nat
    BY MarkFacts DEF n
  <2> HIDE DEF c
  <2>2. DeadSet(s.log, c) = DeadSet(r.log, c)
    <3>1. \A i \in 1..c : i \in 1..n BY <1>5, <2>1
    <3>2. \A i \in 1..c : s.log[i].withdrew = r.log[i].withdrew /\ s.log[i].gone = r.log[i].gone
      BY <1>7, <3>1
    <3> QED BY <2>1, <3>2, DeadSame
  <2>3. Since(s, c)
    <3>1. \A i \in 1..n : i > c => ~s.log[i].gone /\ ~s.log[i].back
      BY <1>5, <1>7, <2>1, Zenon DEF Since
    <3> QED BY <1>5, <1>7, <1>8, <1>9, <3>1 DEF Since
  <2>4. c <= n + 1 BY <1>5, <2>1
  <2> QED BY <1>7, <2>1, <2>2, <2>3, <2>4 DEF c
<1>16. MarksOK'
  <2>1. /\ marks \in Seq(Marks) /\ \A m, i \in DOMAIN marks : m < i => marks[m].count <= marks[i].count
        /\ edit.phase \in {"idle", "read"} => marks = << >>
    BY <1>4 DEF MarksOK
  <2> QED BY <1>1, <1>15, <2>1 DEF MarksOK
<1>17. EditOK' BY <1>1, <1>4, <1>5, <1>7 DEF EditOK
<1> QED BY <1>1, <1>6, <1>12, <1>13, <1>14, <1>16, <1>17 DEF IInv

\* The records a rollback leaves stand as they did once the zippers hold them: what
\* was made since withdrew none of them.
LEMMA RestoredStands ==
  ASSUME NEW r, NEW s, Sound(r), Sound(s), NEW c \in Nat, c <= Len(r.log), Since(r, c), Restored(r, s, c), r.placed,
         NEW i \in 1..c, Stands(s.log[i])
  PROVE  Stands(r.log[i])
<1>1. r \in Rosters /\ s \in Rosters /\ Paired(r) /\ Paired(s)
  BY DEF Sound
<1>2. /\ DOMAIN r.log = 1..Len(r.log) /\ Len(r.log) \in Nat /\ i \in DOMAIN r.log /\ i \in DOMAIN s.log
  BY <1>1, RosterFields DEF Restored
<1>3. /\ s.log[i].withdrew = r.log[i].withdrew /\ s.log[i].gone = r.log[i].gone
  BY DEF Restored
<1>4. ~r.log[i].withdrawn
  <2> SUFFICES ASSUME r.log[i].withdrawn PROVE FALSE OBVIOUS
  <2>1. PICK j \in DOMAIN r.log : r.log[j].withdrew = i
    BY <1>1, <1>2 DEF Paired
  <2>2. j <= c
    <3> SUFFICES ASSUME j > c PROVE FALSE BY <1>2
    <3>1. r.log[j].withdrew = 0 BY <2>1 DEF Since
    <3> QED BY <2>1, <3>1
  <2>3. j \in 1..c BY <1>2, <2>2
  <2>4. s.log[j].withdrew = i /\ j \in DOMAIN s.log /\ i # 0
    BY <2>1, <2>3 DEF Restored
  <2>5. s.log[i].withdrawn BY <1>1, <2>4 DEF Paired
  <2> QED BY <2>5 DEF Stands
<1> QED BY <1>3, <1>4 DEF Stands

\* A rollback keeps the invariant, and every older mark is one of the log it leaves.
LEMMA RollbackKeeps ==
  ASSUME IInv, Rollback
  PROVE  IInv'
<1> DEFINE r == roster
           w == Len(marks)
           mark == Last(marks)
           c == mark.count
           s == RolledBack(roster, mark)
<1>1. marks # << >> /\ roster' = s /\ marks' = Front(marks) /\ edit' = edit /\ size' = size
  BY DEF Rollback
<1>2. Sound(r) /\ Counted(r) /\ Within(r, Limit) /\ MarksOK /\ EditOK /\ r \in Rosters /\ Placed(r)
  BY DEF IInv, Sound
<1>3. marks \in Seq(Marks) /\ w \in Nat /\ DOMAIN marks = 1..w /\ w \in 1..w /\ mark = marks[w] /\ Len(marks) # 0
  <2>1. marks \in Seq(Marks) BY <1>2 DEF MarksOK
  <2>2. Len(marks) # 0 BY <1>1, <2>1, EmptySeq
  <2> QED BY <2>1, <2>2 DEF Last
<1>4. mark \in Marks /\ c \in Nat /\ c <= Len(r.log) /\ Since(r, c) /\ mark.dead = Cardinality(DeadSet(r.log, c))
  <2> HIDE DEF mark
  <2> QED BY <1>3, MarkFacts
<1> HIDE DEF mark, w
<1>5. Sound(s) /\ Settled(s) /\ Restored(r, s, c) /\ s.dead = mark.dead
  BY <1>2, <1>4, RolledBackSound
<1> HIDE DEF s, c
<1>6. /\ Len(s.log) = c /\ DOMAIN s.log = 1..c
      /\ \A i \in 1..c : /\ i \in DOMAIN r.log
                         /\ s.log[i].key = r.log[i].key /\ s.log[i].start = r.log[i].start
                         /\ s.log[i].withdrew = r.log[i].withdrew /\ s.log[i].back = r.log[i].back
                         /\ s.log[i].gone = r.log[i].gone
      /\ s.back = r.back /\ s.end = r.end /\ s.placed = r.placed /\ s.hidden = r.hidden
      /\ \A b \in 0..c : DeadSet(s.log, b) = DeadSet(r.log, b)
  BY <1>5 DEF Restored
<1>7. Counted(s)
  <2>1. c \in 0..c BY <1>4
  <2> QED BY <1>4, <1>5, <1>6, <2>1 DEF Counted, c
<1>8. Limit' = Limit BY <1>1 DEF Limit
<1>9. r.placed => \A i \in 1..c : Stands(s.log[i]) => Stands(r.log[i])
  BY <1>2, <1>4, <1>5, RestoredStands
<1>10. Within(s, Limit)
  <2>1. ~r.placed => \A i \in DOMAIN r.log : ~r.log[i].back
    BY <1>2 DEF Placed
  <2>2. ASSUME NEW i \in 1..c, Stands(s.log[i]) \/ ~s.placed, ~s.log[i].back PROVE s.log[i].start <= Limit
    <3>1. i \in DOMAIN r.log /\ ~r.log[i].back /\ s.log[i].start = r.log[i].start /\ s.placed = r.placed
      BY <1>6, <2>2
    <3>2. Stands(r.log[i]) \/ ~r.placed BY <1>9, <2>2, <3>1
    <3> QED BY <1>2, <3>1, <3>2 DEF Within
  <2>3. ASSUME NEW i \in 1..c, Stands(s.log[i]), s.log[i].back PROVE 0 <= s.log[i].start
    <3>1. i \in DOMAIN r.log /\ r.log[i].back /\ s.log[i].start = r.log[i].start
      BY <1>6, <2>3
    <3>2. Stands(r.log[i]) BY <1>9, <2>1, <2>3, <3>1
    <3> QED BY <1>2, <3>1, <3>2 DEF Within
  <2> QED BY <1>6, <2>2, <2>3 DEF Within
<1>11. /\ Front(marks) \in Seq(Marks) /\ DOMAIN Front(marks) = 1..(w - 1)
       /\ \A m \in 1..(w - 1) : Front(marks)[m] = marks[m] /\ m \in DOMAIN marks
  BY <1>3, LastLess DEF w
<1>12. ASSUME NEW m \in 1..(w - 1)
       PROVE  /\ marks[m].count <= c /\ Since(s, marks[m].count)
              /\ marks[m].dead = Cardinality(DeadSet(s.log, marks[m].count))
  <2> DEFINE b == marks[m].count
  <2>1. m \in DOMAIN marks /\ w \in DOMAIN marks /\ m < w
    BY <1>3, <1>11
  <2>2. b <= c /\ b \in Nat /\ Since(r, b) /\ marks[m].dead = Cardinality(DeadSet(r.log, b))
    BY <1>2, <1>3, <2>1, MarkFacts DEF MarksOK, c
  <2> HIDE DEF b
  <2>3. DeadSet(s.log, b) = DeadSet(r.log, b)
    BY <1>4, <1>6, <2>2
  <2>4. Since(s, b) BY <1>6, <2>2 DEF Since
  <2> QED BY <2>2, <2>3, <2>4 DEF b
<1>13. MarksOK'
  <2>1. \A m, i \in 1..(w - 1) : m < i => marks[m].count <= marks[i].count
    BY <1>2, <1>11 DEF MarksOK
  <2>2. edit.phase \in {"idle", "read"} => marks = << >>
    BY <1>2 DEF MarksOK
  <2> QED BY <1>1, <1>6, <1>11, <1>12, <2>1, <2>2 DEF MarksOK
<1>14. EditOK'
  <2>1. r.placed => \A e \in Kinds : \A j \in Backs(s.log, e) : j \in Backs(r.log, e) /\ s.log[j].start = r.log[j].start
    BY <1>6, <1>9 DEF Backs, Kind
  <2> QED BY <1>1, <1>2, <1>6, <2>1 DEF EditOK
<1> QED BY <1>1, <1>5, <1>7, <1>8, <1>10, <1>13, <1>14 DEF IInv

\* A splice past the text's end lets the whole back go.
LEMMA WholeSpliced ==
  ASSUME NEW r, Sound(r), Settled(r), Counted(r), r.placed, NEW limit \in Int, Within(r, limit),
         \A d \in Kinds : r.end[d] <= MaxSize \/ r.back[d] = << >>
  PROVE  LET s == Spliced(r, MaxSize + 1, 0)
         IN /\ Sound(s) /\ Settled(s) /\ Counted(s) /\ Within(s, limit)
            /\ s.placed /\ ~s.hidden /\ s.end = r.end /\ \A d \in Kinds : s.back[d] = << >>
            /\ SplicedWell(r, s, MaxSize + 1, 0)
<1> DEFINE s == Spliced(r, MaxSize + 1, 0)
           place == MaxSize + 1
<1>1. r \in Rosters /\ MaxSize \in Nat /\ place \in Int /\ 0 \in Int /\ Placed(r)
  BY RosterAssumption DEF Sound
<1>2. ASSUME NEW d \in Kinds, NEW j \in Backs(r.log, d) PROVE r.end[d] - r.log[j].start < place
  <2>1. j \in DOMAIN r.log /\ Stands(r.log[j]) /\ r.log[j].back
    BY DEF Backs
  <2>2. 0 <= r.log[j].start /\ r.log[j].start \in Int /\ r.end[d] \in Int
    BY <1>1, <2>1, RosterFields, LogFields DEF Within
  <2>3. r.back[d] # << >> BY <1>1 DEF Placed, Sits
  <2>4. r.end[d] <= MaxSize BY <2>3
  <2> QED BY <1>1, <2>2, <2>4
<1>3. \A d \in Kinds : \A i \in Fronts(r.log, d), j \in Backs(r.log, d) :
        r.end[d] - r.log[j].start >= place => r.log[i].start <= r.end[d] + 0 - r.log[j].start
  <2> TAKE d \in Kinds
  <2> TAKE i \in Fronts(r.log, d), j \in Backs(r.log, d)
  <2>1. r.end[d] - r.log[j].start < place BY <1>2
  <2>2. r.log[j].start \in Int /\ r.end[d] \in Int
    BY <1>1, RosterFields, LogFields DEF Backs
  <2> QED BY <1>1, <2>1, <2>2
<1> HIDE DEF place
<1>4. Sound(Spliced(r, place, 0)) /\ SplicedWell(r, Spliced(r, place, 0), place, 0)
  BY <1>1, <1>3, SplicedSound
<1>5. s = Spliced(r, place, 0) BY DEF place
<1> HIDE DEF s
<1>6. Sound(s) /\ SplicedWell(r, s, place, 0) /\ s \in Rosters /\ Placed(s)
  BY <1>4, <1>5 DEF Sound
<1>7. Settled(s) /\ Counted(s) /\ Within(s, limit)
  BY <1>1, <1>6, SplicedCounts, Zenon
<1>8. s.placed /\ ~s.hidden /\ s.end = r.end
  <2>1. s.end = [d \in Kinds |-> r.end[d] + 0] /\ s.placed = r.placed /\ ~s.hidden
    BY <1>6 DEF SplicedWell
  <2>2. r.end \in [Kinds -> Int] BY <1>1, RosterFields
  <2> QED BY <2>1, <2>2
<1>9. ASSUME NEW d \in Kinds PROVE s.back[d] = << >>
  <2>1. Backs(s.log, d) = {}
    <3> SUFFICES ASSUME NEW j \in Backs(s.log, d) PROVE FALSE
      OBVIOUS
    <3>1. j \in DOMAIN r.log /\ Stands(s.log[j]) /\ s.log[j].back /\ Kind(s.log[j]) = d
      BY <1>6 DEF Backs, SplicedWell
    <3>2. Stands(r.log[j]) /\ j \notin Leaving(r, place) /\ r.log[j].back /\ Kind(r.log[j]) = d
      BY <1>6, <3>1 DEF SplicedWell, Kind
    <3>3. j \in Backs(r.log, d) BY <3>1, <3>2 DEF Backs
    <3> QED BY <1>2, <3>1, <3>2, <3>3 DEF Leaving
  <2>2. Sits(s.log, Backs(s.log, d), s.back[d]) /\ s.back[d] \in Seq(Entries)
    BY <1>6, <1>8, RosterFields DEF Placed
  <2> QED BY <2>1, <2>2, NoneSits
<1> QED BY <1>6, <1>7, <1>8, <1>9 DEF s, place

\* The flush of a parse, or of an edit's reading, keeps the invariant.
LEMMA FlushKeeps ==
  ASSUME IInv, Flush
  PROVE  IInv'
<1> DEFINE r == roster
           s == Spliced(roster, MaxSize + 1, 0)
<1>1. edit.phase \in {"stream", "reading", "resumed"} /\ marks = << >> /\ marks' = marks
  BY DEF Flush
<1>2. /\ Sound(r) /\ Settled(r) /\ Counted(r) /\ Within(r, Limit) /\ EditOK /\ Placed(r)
      /\ r \in Rosters /\ size \in 0..MaxSize /\ edit \in Edits /\ Limit \in Int /\ MaxSize \in Nat /\ size \in Nat
  BY TypesOf DEF IInv, Sound, EditOK
<1>3. MarksOK' BY <1>1 DEF MarksOK
<1>4. CASE edit.phase = "stream"
  <2>1. roster' = r /\ size' = size /\ edit' = [edit EXCEPT !.phase = "idle"]
    BY <1>4 DEF Flush
  <2>2. edit'.phase = "idle" /\ edit' \in Edits
    BY <1>2, <2>1 DEF Edits
  <2>3. Limit' = Limit BY <1>4, <2>1, <2>2 DEF Limit
  <2>4. EditOK'
    <3>1. ~r.placed /\ ~r.hidden /\ \A d \in Kinds : r.back[d] = << >>
      BY <1>2, <1>4 DEF EditOK, Placed
    <3> QED BY <1>2, <2>1, <2>2, <3>1 DEF EditOK
  <2> QED BY <1>2, <1>3, <2>1, <2>3, <2>4 DEF IInv
<1>5. CASE edit.phase = "reading"
  <2>1. roster' = s /\ size' = size + edit.delta /\ edit' = [edit EXCEPT !.phase = "read"]
    BY <1>5 DEF Flush
  <2>2. edit'.phase = "read" /\ edit' \in Edits
    BY <1>2, <2>1 DEF Edits
  <2>3. Limit' = Limit BY <1>5, <2>1, <2>2 DEF Limit
  <2>4. r.placed /\ size + edit.delta \in 0..MaxSize /\ \A d \in Kinds : r.end[d] = size
    BY <1>2, <1>5 DEF EditOK
  <2>5. \A d \in Kinds : r.end[d] <= MaxSize \/ r.back[d] = << >>
    BY <1>2, <2>4
  <2>6. /\ Sound(s) /\ Settled(s) /\ Counted(s) /\ Within(s, Limit)
        /\ s.placed /\ ~s.hidden /\ \A d \in Kinds : s.back[d] = << >>
    <3> HIDE DEF s
    <3> QED BY <1>2, <2>4, <2>5, WholeSpliced DEF s
  <2> HIDE DEF s
  <2>7. EditOK' BY <2>1, <2>2, <2>4, <2>6 DEF EditOK
  <2> QED BY <1>3, <2>1, <2>3, <2>6, <2>7 DEF IInv
<1>6. CASE edit.phase = "resumed"
  <2>1. roster' = r /\ size' = size + edit.delta /\ edit' = [edit EXCEPT !.phase = "read"]
    BY <1>6 DEF Flush
  <2>2. edit'.phase = "read" /\ edit' \in Edits
    BY <1>2, <2>1 DEF Edits
  <2>3. Limit' = Limit BY <1>6, <2>1, <2>2 DEF Limit
  <2>4. r.placed /\ ~r.hidden /\ size + edit.delta \in 0..MaxSize /\ \A d \in Kinds : r.end[d] = size + edit.delta
    BY <1>2, <1>6 DEF EditOK
  <2>5. EditOK' BY <2>1, <2>2, <2>4 DEF EditOK
  <2> QED BY <1>2, <1>3, <2>1, <2>3, <2>5 DEF IInv
<1> QED BY <1>1, <1>4, <1>5, <1>6

\* A compaction, made or refused, keeps the invariant.
LEMMA CompactKeeps ==
  ASSUME IInv, Compact
  PROVE  IInv'
<1> DEFINE r == roster
           s == Compacted(roster)
<1>1. /\ edit.phase = "idle" /\ r.placed /\ \A d \in Kinds : r.back[d] = << >>
      /\ roster' \in {s, Pruned(roster)} /\ marks' = marks /\ edit' = edit /\ size' = size
  BY DEF Compact
<1>2. /\ Sound(r) /\ Settled(r) /\ Counted(r) /\ Within(r, Limit) /\ EditOK /\ MarksOK
      /\ r \in Rosters /\ size \in Int /\ ~r.hidden /\ Limit = size
  BY <1>1, TypesOf DEF IInv, Sound, EditOK, Limit
<1>3. Limit' = Limit BY <1>1 DEF Limit
<1>4. MarksOK' BY <1>1, <1>2 DEF MarksOK
<1>5. Pruned(r) = r BY <1>1, <1>2, PrunedIs
<1>6. CASE roster' = r
  <2>1. EditOK' BY <1>1, <1>2, <1>6 DEF EditOK
  <2> QED BY <1>2, <1>3, <1>4, <1>6, <2>1 DEF IInv
<1>7. CASE roster' = s
  <2>1. Fit(r, size) BY <1>1, <1>2 DEF Fit
  <2>2. Fit(s, size) BY <1>2, <2>1, CompactedFit
  <2> HIDE DEF s
  <2>3. EditOK' BY <1>1, <1>2, <1>7, <2>2 DEF EditOK, Fit
  <2> QED BY <1>2, <1>3, <1>4, <1>7, <2>2, <2>3 DEF IInv, Fit
<1> QED BY <1>1, <1>5, <1>6, <1>7

\* A reopen keeps the invariant, of the whole text or of one whose rest is taken back later.
LEMMA ReopenKeeps ==
  ASSUME IInv, NEW from \in 0..MaxSize, NEW to \in 0..MaxSize, NEW delta \in (-MaxSize)..MaxSize, NEW whole \in BOOLEAN,
         Reopen(from, to, delta, whole)
  PROVE  IInv'
<1> DEFINE r == roster
           s == Reopened(roster, from, size)
           t == Spliced(s, MaxSize + 1, 0)
<1>1. /\ edit.phase = "idle" /\ from <= to /\ to <= size /\ to + delta >= from /\ size + delta \in 0..MaxSize
      /\ roster' = IF whole THEN t ELSE s
      /\ edit' = [phase |-> "reading", from |-> from, to |-> to, delta |-> delta, resumed |-> 0]
      /\ marks' = marks /\ size' = size
  BY DEF Reopen
<1>2. /\ Sound(r) /\ Settled(r) /\ Counted(r) /\ Within(r, size) /\ EditOK /\ MarksOK
      /\ size \in Int /\ size \in Nat /\ size <= MaxSize /\ ~r.hidden /\ MaxSize \in Nat
  BY <1>1, TypesOf, Zenon DEF IInv, EditOK, Limit
<1>3. from \in Int /\ from \in Nat /\ to \in Nat /\ delta \in Int /\ from <= size /\ from <= size + delta
  BY <1>1, <1>2
<1>4. \A d \in Kinds : r.back[d] # << >> => r.end[d] = size
  BY <1>1, <1>2 DEF EditOK
<1>5. /\ Sound(s) /\ Settled(s) /\ s.placed /\ s.hidden /\ s.end = [d \in Kinds |-> size]
      /\ Counted(s) /\ Within(s, from)
  BY <1>2, <1>3, <1>4, ReopenedSound, Zenon
<1>6. edit'.phase = "reading" /\ edit' \in Edits /\ edit'.delta = delta
  BY <1>1, <1>3 DEF Edits
<1>7. Limit' = size + delta BY <1>1, <1>6 DEF Limit
<1>8. MarksOK'
  <2>1. marks = << >> BY <1>1, <1>2 DEF MarksOK
  <2> QED BY <1>1, <2>1 DEF MarksOK
<1> HIDE DEF s
<1>9. s \in Rosters BY <1>5 DEF Sound
<1>10. Within(s, size + delta)
  <2>1. \A i \in DOMAIN s.log : s.log[i].start \in Int
    BY <1>9, RosterFields, LogFields
  <2>2. \A i \in DOMAIN s.log : s.log[i].start <= from => s.log[i].start <= size + delta
    BY <1>2, <1>3, <2>1
  <2> QED BY <1>5, <2>2 DEF Within
<1>11. CASE ~whole
  <2>1. roster' = s BY <1>1, <1>11
  <2>2. EditOK' BY <1>1, <1>2, <1>5, <1>6, <2>1 DEF EditOK
  <2> QED BY <1>5, <1>7, <1>8, <1>10, <2>1, <2>2 DEF IInv
<1>12. CASE whole
  <2>1. roster' = t BY <1>1, <1>12
  <2>2. \A d \in Kinds : s.end[d] <= MaxSize \/ s.back[d] = << >>
    BY <1>2, <1>5
  <2>3. /\ Sound(t) /\ Settled(t) /\ Counted(t) /\ Within(t, size + delta)
        /\ t.placed /\ ~t.hidden /\ t.end = s.end /\ \A d \in Kinds : t.back[d] = << >>
    <3>1. size + delta \in Int BY <1>2, <1>3
    <3> QED BY <1>5, <1>10, <2>2, <3>1, WholeSpliced
  <2> HIDE DEF t
  <2>4. EditOK'
    BY <1>1, <1>2, <1>5, <1>6, <2>1, <2>3 DEF EditOK
  <2> QED BY <1>7, <1>8, <2>1, <2>3, <2>4 DEF IInv
<1> QED BY <1>11, <1>12

\* The reading a splice ends declared nothing at or past where the old text is taken back, so
\* every declaration of the front starts before the back's.
LEMMA SpliceIs ==
  ASSUME IInv, NEW old \in 0..MaxSize, Splice(old)
  PROVE  LET s == Spliced(roster, old, edit.delta)
         IN Sound(s) /\ SplicedWell(roster, s, old, edit.delta)
<1> DEFINE r == roster
           delta == edit.delta
           s == Spliced(roster, old, edit.delta)
<1>1. /\ edit.phase = "reading" /\ marks = << >> /\ old \in edit.to..(size - 1) /\ old + delta > 0
      /\ \A d \in Kinds : \A p \in DOMAIN r.front[d] : r.front[d][p].start < old + delta
      /\ roster' = s /\ edit' = [edit EXCEPT !.phase = "resumed", !.resumed = old + delta]
      /\ marks' = marks /\ size' = size
  BY DEF Splice
<1>2. /\ Sound(r) /\ Settled(r) /\ Counted(r) /\ Within(r, Limit) /\ EditOK /\ Placed(r)
      /\ r \in Rosters /\ size \in Nat /\ edit \in Edits /\ Limit \in Int /\ MaxSize \in Nat /\ delta \in Int
      /\ edit.to \in Nat
  BY TypesOf DEF IInv, Sound
<1>3. r.placed /\ size + delta \in 0..MaxSize /\ \A d \in Kinds : r.end[d] = size
  BY <1>1, <1>2 DEF EditOK
<1>4. old \in Nat /\ old \in Int /\ old <= size /\ old + delta \in Nat
  BY <1>1, <1>2
<1> HIDE DEF delta
<1>5. ASSUME NEW d \in Kinds, NEW i \in Fronts(r.log, d) PROVE r.log[i].start < old + delta
  <2>1. Sits(r.log, Fronts(r.log, d), r.front[d])
    BY <1>2, <1>3 DEF Placed
  <2>2. PICK p \in DOMAIN r.front[d] : r.front[d][p].record = i
    BY <2>1 DEF Sits
  <2>3. r.log[i].start = r.front[d][p].start
    BY <2>1, <2>2 DEF Sits
  <2> QED BY <1>1, <2>2, <2>3
<1>6. ASSUME NEW d \in Kinds, NEW i \in Fronts(r.log, d), NEW j \in Backs(r.log, d), r.end[d] - r.log[j].start >= old
      PROVE  r.log[i].start <= r.end[d] + delta - r.log[j].start
  <2>1. r.log[i].start \in Int /\ r.log[j].start \in Int /\ r.end[d] \in Int
    BY <1>2, RosterFields, LogFields DEF Fronts, Backs
  <2>2. r.log[i].start < old + delta BY <1>5
  <2> QED BY <1>2, <1>4, <1>6, <2>1, <2>2
<1>7. Sound(s) /\ SplicedWell(r, s, old, delta)
  <2>1. s = Spliced(r, old, delta) BY DEF delta
  <2>2. Sound(Spliced(r, old, delta)) /\ SplicedWell(r, Spliced(r, old, delta), old, delta)
    BY <1>2, <1>3, <1>4, <1>6, SplicedSound
  <2> HIDE DEF s
  <2> QED BY <2>1, <2>2
<1> HIDE DEF s
<1> QED BY <1>7 DEF s, delta

\* A splice keeps the invariant: what it takes back starts past all that the edit read.
LEMMA SpliceKeeps ==
  ASSUME IInv, NEW old \in 0..MaxSize, Splice(old)
  PROVE  IInv'
<1> DEFINE r == roster
           delta == edit.delta
           s == Spliced(roster, old, edit.delta)
<1>1. /\ edit.phase = "reading" /\ marks = << >> /\ old \in edit.to..(size - 1) /\ old + delta > 0
      /\ \A d \in Kinds : \A p \in DOMAIN r.front[d] : r.front[d][p].start < old + delta
      /\ roster' = s /\ edit' = [edit EXCEPT !.phase = "resumed", !.resumed = old + delta]
      /\ marks' = marks /\ size' = size
  BY DEF Splice
<1>2. /\ Sound(r) /\ Settled(r) /\ Counted(r) /\ Within(r, Limit) /\ EditOK /\ Placed(r)
      /\ r \in Rosters /\ size \in Nat /\ edit \in Edits /\ Limit \in Int /\ MaxSize \in Nat /\ delta \in Int
      /\ edit.to \in Nat
  BY TypesOf DEF IInv, Sound
<1>3. r.placed /\ size + delta \in 0..MaxSize /\ \A d \in Kinds : r.end[d] = size
  BY <1>1, <1>2 DEF EditOK
<1>4. old \in Nat /\ old \in Int /\ old <= size /\ old + delta \in Nat
  BY <1>1, <1>2
<1> HIDE DEF delta
<1> HIDE DEF s
<1>7. Sound(s) /\ SplicedWell(r, s, old, delta)
  BY SpliceIs DEF s, delta
<1>8. Settled(s) /\ Counted(s) /\ Within(s, Limit)
  BY <1>2, <1>4, <1>7, SplicedCounts
<1>9. s.placed /\ ~s.hidden /\ \A d \in Kinds : s.end[d] = size + delta
  <2>1. s.end = [d \in Kinds |-> r.end[d] + delta] /\ s.placed = r.placed /\ ~s.hidden
    BY <1>7 DEF SplicedWell
  <2> QED BY <1>3, <2>1
<1>10. edit'.phase = "resumed" /\ edit' \in Edits /\ edit'.delta = delta /\ edit'.resumed = old + delta
  <2>1. edit' = [edit EXCEPT !.phase = "resumed", !.resumed = old + delta]
    BY <1>1
  <2> QED BY <1>2, <1>4, <2>1, Zenon DEF Edits, delta
<1>11. Limit' = Limit BY <1>1, <1>10 DEF Limit, delta
<1>12. MarksOK' BY <1>1 DEF MarksOK
<1>13. ASSUME NEW d \in Kinds, NEW j \in Backs(s.log, d) PROVE old + delta <= s.end[d] - s.log[j].start
  <2>1. j \in DOMAIN r.log /\ Stands(s.log[j]) /\ s.log[j].back /\ Kind(s.log[j]) = d
    BY <1>7 DEF Backs, SplicedWell
  <2>2. /\ Stands(r.log[j]) /\ j \notin Leaving(r, old) /\ r.log[j].back /\ Kind(r.log[j]) = d
        /\ s.log[j].start = r.log[j].start
    BY <1>7, <2>1 DEF SplicedWell, Kind
  <2>3. ~(r.end[d] - r.log[j].start < old)
    BY <2>1, <2>2 DEF Leaving
  <2>4. r.log[j].start \in Int /\ r.end[d] = size
    BY <1>2, <1>3, <2>1, RosterFields, LogFields
  <2> QED BY <1>2, <1>4, <1>9, <2>2, <2>3, <2>4
<1>14. EditOK'
  <2>1. old + delta <= size + delta BY <1>2, <1>4
  <2>2. \A d \in Kinds : \A j \in Backs(s.log, d) : old + delta <= s.end[d] - s.log[j].start
    BY <1>13
  <2>3. size \in 0..MaxSize BY <1>2 DEF EditOK
  <2> QED BY <1>1, <1>3, <1>9, <1>10, <2>1, <2>2, <2>3 DEF EditOK
<1> QED BY <1>1, <1>7, <1>8, <1>11, <1>12, <1>14 DEF IInv

\* Every step keeps the invariant.
LEMMA NextKeeps == IInv /\ [Next]_vars => IInv'
<1> SUFFICES ASSUME IInv, [Next]_vars PROVE IInv' OBVIOUS
<1>1. CASE UNCHANGED vars
  BY <1>1 DEF vars, IInv, MarksOK, EditOK, Limit
<1>2. ASSUME NEW k \in Keys, NEW s \in 0..MaxSize, Declare(k, s) PROVE IInv'
  BY <1>2, DeclareKeeps
<1>3. ASSUME NEW k \in Keys, NEW s \in 0..MaxSize, Withdraw(k, s) PROVE IInv'
  BY <1>3, WithdrawKeeps
<1>4. CASE Mark BY <1>4, MarkKeeps
<1>5. CASE Rollback BY <1>5, RollbackKeeps
<1>6. CASE Flush BY <1>6, FlushKeeps
<1>7. CASE Altered BY <1>7, AlteredKeeps
<1>8. CASE Compact BY <1>8, CompactKeeps
<1>9. ASSUME NEW k \in Keys, Find(k) PROVE IInv'
  BY <1>9, FindKeeps
<1>10. ASSUME NEW from \in 0..MaxSize, NEW to \in 0..MaxSize, NEW delta \in (-MaxSize)..MaxSize, NEW whole \in BOOLEAN,
              Reopen(from, to, delta, whole)
       PROVE  IInv'
  BY <1>10, ReopenKeeps
<1>11. ASSUME NEW old \in 0..MaxSize, Splice(old) PROVE IInv'
  BY <1>11, SpliceKeeps
<1> QED BY <1>1, <1>2, <1>3, <1>4, <1>5, <1>6, <1>7, <1>8, <1>9, <1>10, <1>11 DEF Next

\* Every state a parse's roster reaches is one of the invariant, for every set of labels and
\* kinds, every length of the text and of the log, and any number of marks held.
THEOREM Invariance == Spec => []IInv
<1>1. Init => IInv BY InitKeeps
<1>2. IInv /\ [Next]_vars => IInv' BY NextKeeps
<1> QED BY <1>1, <1>2, PTL DEF Spec

-------------------------------------------------------------------------------
(* What a roster is correct by.                                            *)

\* The invariant has the index as its comment in roster.h promises it.
LEMMA IInvIndex == IInv => IndexSound
<1> SUFFICES ASSUME IInv PROVE IndexSound OBVIOUS
<1> DEFINE r == roster
           log == roster.log
<1>1. r \in Rosters /\ Indexed(r) /\ Divided(r) /\ Settled(r) /\ Holds(r, Taken(r))
  BY DEF IInv, Sound, Indexed
<1>2. /\ log \in Seq(Recs) /\ Len(log) \in Nat /\ DOMAIN log = 1..Len(log)
      /\ r.cursor \in [Kinds -> Nat] /\ r.index \in [Keys -> Lists] /\ r.end \in [Kinds -> Int]
      /\ KindOf \in [Keys -> Kinds]
  BY <1>1, RosterFields, RosterAssumption
<1>3. \A i \in DOMAIN log : log[i].start \in Int /\ log[i].back \in BOOLEAN /\ log[i].key \in Keys
  BY <1>2, LogFields
<1>4. IndexCounted
  <2>1. ASSUME NEW d \in Kinds
        PROVE  /\ roster.cursor[d] <= Len(roster.log)
               /\ roster.indexed[d] = Cardinality({i \in 1..roster.cursor[d] : KindOf[roster.log[i].key] = d})
    <3>1. r.cursor[d] <= Len(log) /\ r.cursor[d] \in Nat
      BY <1>1, <1>2 DEF Settled
    <3>2. UpToCursor(r, d) = {i \in 1..r.cursor[d] : KindOf[log[i].key] = d}
      BY <1>2, <3>1 DEF UpToCursor, Kind
    <3>3. r.indexed[d] = Cardinality(UpToCursor(r, d))
      BY <1>1 DEF Indexed
    <3> QED BY <3>1, <3>2, <3>3
  <2> QED BY <2>1 DEF IndexCounted
<1>5. ASSUME NEW k \in Keys
      PROVE  LET list == roster.index[k].list
                 taken == {i \in 1..roster.cursor[KindOf[k]] : roster.log[i].key = k /\ Stands(roster.log[i])}
             IN /\ ToSet(list) = taken /\ Len(list) = Cardinality(taken)
                /\ \A p, q \in DOMAIN list : p < q =>
                     LET x == roster.log[list[p]]
                         y == roster.log[list[q]]
                     IN /\ x.back => y.back
                        /\ x.back = y.back \/ ~roster.hidden => TextStart(roster, list[p]) <= TextStart(roster, list[q])
                /\ IF list = << >> THEN roster.index[k].hint = 0 ELSE roster.index[k].hint \in ToSet(list)
                /\ \A i \in DOMAIN roster.log : roster.log[i].key = k => (roster.log[i].linked <=> i \in taken)
  <2> DEFINE e == r.index[k]
             list == e.list
             d == KindOf[k]
             T == {i \in Taken(r) : log[i].key = k}
             taken == {i \in 1..r.cursor[d] : log[i].key = k /\ Stands(log[i])}
  <2>1. e \in Lists /\ list \in Seq(Nat) /\ d \in Kinds /\ DOMAIN list = 1..Len(list)
    <3>1. e \in Lists /\ d \in Kinds BY <1>2
    <3> QED BY <3>1 DEF Lists
  <2>2. Listing(log, e, T) BY <1>1, Zenon DEF Holds
  <2>3. T = taken
    <3>1. r.cursor[d] <= Len(log) /\ r.cursor[d] \in Nat
      BY <1>1, <1>2, <2>1 DEF Settled
    <3>2. \A i \in DOMAIN log : log[i].key = k => Kind(log[i]) = d
      BY DEF Kind
    <3>3. \A i \in 1..r.cursor[d] : i \in DOMAIN log /\ i <= r.cursor[d]
      BY <1>2, <3>1
    <3>4. \A i \in T : i \in taken
      BY <1>2, <3>1, <3>2 DEF Taken
    <3>5. \A i \in taken : i \in T BY <3>2, <3>3 DEF Taken
    <3> HIDE DEF T, taken
    <3> QED BY <3>4, <3>5
  <2>4. \A i \in T : i \in DOMAIN log /\ Stands(log[i]) /\ log[i].key = k /\ Kind(log[i]) = d
    BY DEF Taken, Kind
  <2>5. \A i \in DOMAIN log : log[i].key = k => (log[i].linked <=> i \in T)
    BY <1>1 DEF Holds
  <2> HIDE DEF e, T, taken, d
  <2>6. ToSet(list) = T BY <2>2 DEF Listing, ToSet
  <2>7. Ordered(log, list) /\ (\A p \in DOMAIN list : list[p] \in T)
        /\ IF list = << >> THEN e.hint = 0 ELSE \E p \in DOMAIN list : list[p] = e.hint
    BY <2>2 DEF Listing
  <2> HIDE DEF list
  <2>8. Len(list) = Cardinality(T)
    <3>1. \A p, q \in DOMAIN list : p < q => list[p] # list[q]
      BY <2>7 DEF Ordered
    <3>2. Cardinality(ToSet(list)) = Len(list)
      BY <2>1, <3>1, EnumCount, Zenon DEF ToSet
    <3> QED BY <2>6, <3>2
  <2>9. ASSUME NEW p \in DOMAIN list, NEW q \in DOMAIN list, p < q
        PROVE  /\ log[list[p]].back => log[list[q]].back
               /\ log[list[p]].back = log[list[q]].back \/ ~r.hidden => TextStart(r, list[p]) <= TextStart(r, list[q])
    <3> DEFINE i == list[p]
               j == list[q]
    <3>1. i \in T /\ j \in T /\ ~S_precedes(log[j], log[i])
      BY <2>7, <2>9 DEF Ordered
    <3> HIDE DEF i, j
    <3>2. /\ i \in DOMAIN log /\ Stands(log[i]) /\ Kind(log[i]) = d /\ log[i].start \in Int /\ log[i].back \in BOOLEAN
          /\ j \in DOMAIN log /\ Stands(log[j]) /\ Kind(log[j]) = d /\ log[j].start \in Int /\ log[j].back \in BOOLEAN
          /\ r.end[d] \in Int
      BY <1>2, <1>3, <2>1, <2>4, <3>1, Zenon
    <3>3. /\ TextStart(r, i) = IF log[i].back THEN r.end[d] - log[i].start ELSE log[i].start
          /\ TextStart(r, j) = IF log[j].back THEN r.end[d] - log[j].start ELSE log[j].start
      BY <3>2 DEF TextStart, Kind
    <3>4. log[i].back => log[j].back
      BY <3>1, <3>2, Zenon DEF S_precedes
    <3>5. log[i].back = log[j].back => TextStart(r, i) <= TextStart(r, j)
      BY <3>1, <3>2, <3>3 DEF S_precedes
    <3>6. ~r.hidden /\ ~log[i].back /\ log[j].back => TextStart(r, i) <= TextStart(r, j)
      <4>1. ~log[i].back /\ log[j].back => i \in Fronts(log, d) /\ j \in Backs(log, d)
        BY <3>2 DEF Fronts, Backs
      <4> QED BY <1>1, <2>1, <3>3, <4>1 DEF Divided
    <3>7. log[i].back = log[j].back \/ ~r.hidden => TextStart(r, i) <= TextStart(r, j)
      BY <3>2, <3>4, <3>5, <3>6
    <3> QED BY <3>4, <3>7 DEF i, j
  <2>10. IF list = << >> THEN e.hint = 0 ELSE e.hint \in ToSet(list)
    BY <2>7 DEF ToSet
  <2> QED BY <2>3, <2>5, <2>6, <2>8, <2>9, <2>10 DEF list, e, taken, d
<1>6. IndexInOrder BY <1>5, Zenon DEF IndexInOrder
<1> QED BY <1>4, <1>6 DEF IndexSound

\* The invariant has the places, the count of the dead and the back's end right.
LEMMA IInvPlaces == IInv => PlacesSound
<1> SUFFICES ASSUME IInv PROVE PlacesSound OBVIOUS
<1> DEFINE r == roster
           log == roster.log
<1>1. Sound(r) /\ r \in Rosters /\ Paired(r) /\ Placed(r) /\ Divided(r) /\ Counted(r) /\ EditOK
  BY DEF IInv, Sound
<1>2. DeadCounted
  <2>1. DeadSet(log, Len(log)) = {i \in DOMAIN log : ~Stands(log[i])}
    BY <1>1, DeadIs
  <2> QED BY <1>1, <2>1 DEF DeadCounted, Counted
<1>3. BackEndsWithText BY <1>1 DEF EditOK, BackEndsWithText
<1>4. ASSUME r.placed, NEW d \in Kinds
      PROVE  LET entries == roster.front[d] \o Reverse(roster.back[d])
                 held == [p \in DOMAIN entries |-> entries[p].record]
                 inFront(p) == p <= Len(roster.front[d])
             IN /\ ToSet(held) = {i \in DOMAIN roster.log : Stands(roster.log[i]) /\ KindOf[roster.log[i].key] = d}
                /\ IsInjective(held)
                /\ \A p \in DOMAIN entries :
                     /\ roster.log[held[p]].start = entries[p].start
                     /\ roster.log[held[p]].back = ~inFront(p)
                /\ \A p, q \in DOMAIN entries : p < q /\ (inFront(p) = inFront(q) \/ ~roster.hidden)
                     => TextStart(roster, held[p]) <= TextStart(roster, held[q])
  <2> DEFINE f == r.front[d]
             b == r.back[d]
             n == Len(r.front[d])
             m == Len(r.back[d])
             entries == r.front[d] \o Reverse(r.back[d])
             held == [p \in DOMAIN entries |-> entries[p].record]
  <2>1. f \in Seq(Entries) /\ b \in Seq(Entries) /\ r.end[d] \in Int /\ n \in Nat /\ m \in Nat /\ DOMAIN f = 1..n /\ DOMAIN b = 1..m
    BY <1>1, RosterFields, EntryFields
  <2>2. Sits(log, Fronts(log, d), f) /\ Sits(log, Backs(log, d), b)
    BY <1>1, <1>4 DEF Placed
  <2>3. Enum(held, Standings(log, d))
    <3>1. Enum(RecordsOf(r, d), Standings(log, d))
      BY <1>1, <1>4, RecordsAre, Zenon
    <3> QED BY <3>1, Zenon DEF RecordsOf, EntriesOf
  <2>4. /\ DOMAIN entries = 1..(n + m)
        /\ \A p \in 1..n : p \in DOMAIN entries /\ entries[p] = f[p]
        /\ \A p \in DOMAIN entries : p > n => n + m + 1 - p \in 1..m /\ entries[p] = b[n + m + 1 - p]
    <3> HIDE DEF f, b
    <3>1. LET e == f \o Reverse(b)
          IN /\ DOMAIN e = 1..(Len(f) + Len(b))
             /\ \A p \in 1..Len(f) : p \in DOMAIN e /\ e[p] = f[p]
             /\ \A p \in DOMAIN e : p > Len(f) => Len(f) + Len(b) + 1 - p \in 1..Len(b) /\ e[p] = b[Len(f) + Len(b) + 1 - p]
      BY <2>1, EntriesAre, Zenon
    <3> QED BY <3>1, Zenon DEF f, b
  <2>5. DOMAIN held = DOMAIN entries /\ \A p \in DOMAIN entries : held[p] = entries[p].record
    BY Zenon
  <2> HIDE DEF entries, held, n, m, f, b
  <2>6. ToSet(held) = {i \in DOMAIN log : Stands(log[i]) /\ KindOf[log[i].key] = d}
    BY <2>3 DEF Enum, ToSet, Standings, Kind
  <2>7. IsInjective(held) BY <2>3 DEF Enum, IsInjective
  <2>8. ASSUME NEW p \in DOMAIN entries, p <= n
        PROVE  p \in 1..n /\ held[p] \in Fronts(log, d) /\ log[held[p]].start = entries[p].start /\ entries[p] = f[p]
    <3>1. p \in 1..n BY <2>1, <2>4, <2>8
    <3>2. f[p].record \in Fronts(log, d) /\ log[f[p].record].start = f[p].start
      BY <2>1, <2>2, <3>1 DEF Sits
    <3> QED BY <2>4, <2>5, <3>1, <3>2
  <2>9. ASSUME NEW p \in DOMAIN entries, ~(p <= n)
        PROVE  /\ n + m + 1 - p \in 1..m /\ held[p] \in Backs(log, d) /\ log[held[p]].start = entries[p].start
               /\ entries[p] = b[n + m + 1 - p]
    <3>1. n + m + 1 - p \in 1..m /\ entries[p] = b[n + m + 1 - p]
      BY <2>1, <2>4, <2>9
    <3> DEFINE v == n + m + 1 - p
    <3> HIDE DEF v
    <3>2. b[v].record \in Backs(log, d) /\ log[b[v].record].start = b[v].start
      BY <2>1, <2>2, <3>1 DEF Sits, v
    <3> QED BY <2>5, <3>1, <3>2 DEF v
  <2>10. ASSUME NEW p \in DOMAIN entries
         PROVE  log[held[p]].start = entries[p].start /\ log[held[p]].back = ~(p <= n)
    <3>1. CASE p <= n
      <4>1. held[p] \in DOMAIN log /\ ~log[held[p]].back
        BY <2>8, <3>1 DEF Fronts
      <4>2. log[held[p]].back \in BOOLEAN
        BY <1>1, <4>1, RosterFields, LogFields
      <4> QED BY <2>8, <3>1, <4>1, <4>2
    <3>2. CASE ~(p <= n)
      <4>1. held[p] \in DOMAIN log /\ log[held[p]].back
        BY <2>9, <3>2 DEF Backs
      <4>2. log[held[p]].back \in BOOLEAN
        BY <1>1, <4>1, RosterFields, LogFields
      <4> QED BY <2>9, <3>2, <4>1, <4>2, Zenon
    <3> QED BY <3>1, <3>2
  <2>11. ASSUME NEW p \in DOMAIN entries, NEW q \in DOMAIN entries, p < q, (p <= n) = (q <= n) \/ ~r.hidden
         PROVE  TextStart(r, held[p]) <= TextStart(r, held[q])
    <3> DEFINE i == held[p]
               j == held[q]
    <3>1. p \in Nat /\ q \in Nat /\ p <= n + m /\ q <= n + m
      BY <2>1, <2>4
    <3>3. /\ i \in DOMAIN log /\ j \in DOMAIN log /\ Kind(log[i]) = d /\ Kind(log[j]) = d
          /\ log[i].back <=> ~(p <= n)
          /\ log[j].back <=> ~(q <= n)
      BY <2>8, <2>9 DEF Fronts, Backs
    <3>4. log[i].start = entries[p].start /\ log[j].start = entries[q].start /\ log[i].start \in Int /\ log[j].start \in Int
      BY <1>1, <2>10, <3>3, RosterFields, LogFields
    <3> SUFFICES TextStart(r, i) <= TextStart(r, j) OBVIOUS
    <3> HIDE DEF i, j
    <3>5. /\ TextStart(r, i) = IF p <= n THEN log[i].start ELSE r.end[d] - log[i].start
          /\ TextStart(r, j) = IF q <= n THEN log[j].start ELSE r.end[d] - log[j].start
      BY <3>3 DEF TextStart, Kind
    <3>6. CASE q <= n
      <4>1. p <= n /\ p \in 1..n /\ q \in 1..n /\ entries[p] = f[p] /\ entries[q] = f[q]
        BY <2>1, <2>8, <2>11, <3>1, <3>6
      <4>2. f[p].start <= f[q].start
        BY <2>1, <2>2, <2>11, <4>1 DEF Sits
      <4> QED BY <3>4, <3>5, <3>6, <4>1, <4>2
    <3>7. CASE ~(p <= n)
      <4> DEFINE v == n + m + 1 - p
                 x == n + m + 1 - q
      <4>1. ~(q <= n) /\ x < v BY <2>1, <2>11, <3>1, <3>7
      <4>2. v \in 1..m /\ x \in 1..m /\ entries[p] = b[v] /\ entries[q] = b[x]
        BY <2>9, <3>7, <4>1
      <4> HIDE DEF v, x
      <4>3. b[x].start <= b[v].start
        BY <2>1, <2>2, <4>1, <4>2, Zenon DEF Sits
      <4> QED BY <2>1, <3>4, <3>5, <3>7, <4>1, <4>2, <4>3
    <3>8. CASE p <= n /\ ~(q <= n)
      <4>1. i \in Fronts(log, d) /\ j \in Backs(log, d) /\ ~r.hidden
        BY <2>8, <2>9, <2>11, <3>8 DEF i, j
      <4>2. log[i].start <= r.end[d] - log[j].start
        BY <1>1, <4>1 DEF Divided
      <4> QED BY <3>5, <3>8, <4>2
    <3> QED BY <3>6, <3>7, <3>8
  <2> QED BY <2>6, <2>7, <2>10, <2>11, Zenon DEF entries, held, n
<1>5. PlacesInOrder BY <1>4, Zenon DEF PlacesInOrder
<1> QED BY <1>2, <1>3, <1>5 DEF PlacesSound

\* The index of every key is just what the cursors say was taken of the log, in the order the
\* declarations stand in the text, whatever was rolled back, compacted, moved or spliced since.
THEOREM RosterIndexSound == Spec => []IndexSound
<1>1. IInv => IndexSound BY IInvIndex
<1> QED BY <1>1, Invariance, PTL

\* The zippers an edit reads by hold just the declarations that stand, each once and in order, the
\* count a compaction is decided by is that of the others, and the back is measured from the text's end.
THEOREM RosterPlacesSound == Spec => []PlacesSound
<1>1. IInv => PlacesSound BY IInvPlaces
<1> QED BY <1>1, Invariance, PTL

-------------------------------------------------------------------------------
(* Tallies: the bag of what a function says of the members of a set.       *)

\* One member more is one declaration more.
LEMMA TallyMore ==
  ASSUME NEW w, NEW I, IsFiniteSet(I), NEW j, j \notin I
  PROVE  Tally(w, I \cup {j}) = Tally(w, I) (+) L!One(w[j])
<1> DEFINE D == {w[i] : i \in I}
           E == {w[i] : i \in I \cup {j}}
           C(d) == {i \in I : w[i] = d}
           M(d) == {i \in I \cup {j} : w[i] = d}
<1>1. E = D \cup {w[j]} OBVIOUS
<1>2. ASSUME NEW d \in E
      PROVE  Cardinality(M(d)) = (IF d \in D THEN Cardinality(C(d)) ELSE 0) + (IF d \in {w[j]} THEN 1 ELSE 0)
  <2>1. IsFiniteSet(C(d)) /\ Cardinality(C(d)) \in Nat /\ (Cardinality(C(d)) = 0 <=> d \notin D)
    <3>1. Counts(w, I, d) BY TallyCounts
    <3> QED BY <3>1 DEF Counts
  <2>2. CASE d = w[j]
    <3>1. M(d) = C(d) \cup {j} /\ j \notin C(d) BY <2>2
    <3>2. Cardinality(C(d) \cup {j}) = Cardinality(C(d)) + 1
      BY <2>1, <3>1, FS_AddElement, Zenon
    <3> HIDE DEF C, M, D
    <3> QED BY <2>1, <2>2, <3>1, <3>2
  <2>3. CASE d # w[j]
    <3>1. M(d) = C(d) BY <2>3
    <3> HIDE DEF C, M, D
    <3> QED BY <2>1, <2>3, <3>1
  <2> QED BY <2>2, <2>3
<1>3. Tally(w, I \cup {j}) = [d \in E |-> Cardinality(M(d))] /\ Tally(w, I) = [d \in D |-> Cardinality(C(d))]
  BY DEF Tally
<1>4. L!One(w[j]) = [d \in {w[j]} |-> 1]
  BY DEF L!One, L!SetToBag
<1> HIDE DEF C, M, D, E
<1> QED BY <1>1, <1>2, <1>3, <1>4 DEF (+)

\* One member less is one declaration less.
LEMMA TallyLess ==
  ASSUME NEW w, NEW I, IsFiniteSet(I), NEW j \in I
  PROVE  Tally(w, I \ {j}) = Tally(w, I) (-) L!One(w[j])
<1> DEFINE D == {w[i] : i \in I}
           E == {w[i] : i \in I \ {j}}
           C(d) == {i \in I : w[i] = d}
           M(d) == {i \in I \ {j} : w[i] = d}
           B == [d \in D |-> IF d \in {w[j]} THEN Cardinality(C(d)) - 1 ELSE Cardinality(C(d))]
<1>0. IsFiniteSet(I \ {j}) BY FS_RemoveElement
<1>1. E \subseteq D OBVIOUS
<1>2. ASSUME NEW d \in D
      PROVE  Cardinality(M(d)) = B[d] /\ (B[d] > 0 <=> d \in E)
  <2>1. IsFiniteSet(C(d)) /\ Cardinality(C(d)) \in Nat
    <3>1. Counts(w, I, d) BY TallyCounts
    <3> QED BY <3>1 DEF Counts
  <2>2. Cardinality(M(d)) \in Nat /\ (Cardinality(M(d)) = 0 <=> d \notin E)
    <3>1. Counts(w, I \ {j}, d) BY <1>0, TallyCounts
    <3> QED BY <3>1 DEF Counts
  <2>3. CASE d = w[j]
    <3>1. M(d) = C(d) \ {j} /\ j \in C(d) BY <2>3
    <3>2. Cardinality(C(d) \ {j}) = Cardinality(C(d)) - 1
      BY <2>1, <3>1, FS_RemoveElement, Zenon
    <3>3. B[d] = Cardinality(C(d)) - 1 BY <2>3
    <3>4. Cardinality(M(d)) = B[d] BY <3>1, <3>2, <3>3
    <3> HIDE DEF C, M, D, E, B
    <3> QED BY <2>2, <3>4
  <2>4. CASE d # w[j]
    <3>1. M(d) = C(d) BY <2>4
    <3>2. B[d] = Cardinality(C(d)) BY <2>4
    <3> HIDE DEF C, M, D, E, B
    <3> QED BY <2>2, <3>1, <3>2
  <2> QED BY <2>3, <2>4
<1>3. Tally(w, I \ {j}) = [d \in E |-> Cardinality(M(d))] /\ Tally(w, I) = [d \in D |-> Cardinality(C(d))]
  BY DEF Tally
<1>4. L!One(w[j]) = [d \in {w[j]} |-> 1]
  BY DEF L!One, L!SetToBag
<1>5. DOMAIN B = D OBVIOUS
<1>6. E = {d \in D : B[d] > 0} BY <1>1, <1>2, Zenon
<1>7. Tally(w, I) (-) L!One(w[j]) = [d \in {e \in DOMAIN B : B[e] > 0} |-> B[d]]
  <2> HIDE DEF C, M, D, E
  <2> QED BY <1>3, <1>4 DEF (-)
<1> HIDE DEF C, M, D, E, B
<1> QED BY <1>1, <1>2, <1>3, <1>5, <1>6, <1>7

-------------------------------------------------------------------------------
(* What a bag of labels is asked, in the terms of this module.             *)

\* L's calls with the bag operators of this module.
LEMMA LabelCalls ==
  ASSUME NEW k, NEW s
  PROVE  /\ L!Declare(k, s) => seen' = seen (+) L!One(L!Declaration(k, s)) /\ UNCHANGED <<hid, saves, was>>
         /\ L!Withdraw(k, s) =>
              /\ seen' = seen (-) L!One(L!Declaration(k, IF s \in L!Starts(seen, k) THEN s ELSE L!Latest(L!Starts(seen, k))))
              /\ UNCHANGED <<hid, saves, was>>
         /\ \A d : L!Splice(s, d) =>
              /\ seen' = seen (+) L!Shifted(L!From(hid, s), d) /\ hid' = EmptyBag /\ UNCHANGED <<saves, was>>
<1>1. L!Declare(k, s) => seen' = seen (+) L!One(L!Declaration(k, s)) /\ UNCHANGED <<hid, saves, was>>
  BY DEF L!Declare, L!(+), (+)
<1>2. L!Withdraw(k, s) =>
        /\ seen' = seen (-) L!One(L!Declaration(k, IF s \in L!Starts(seen, k) THEN s ELSE L!Latest(L!Starts(seen, k))))
        /\ UNCHANGED <<hid, saves, was>>
  BY DEF L!Withdraw, L!(-), (-)
<1>3. \A d : L!Splice(s, d) =>
        /\ seen' = seen (+) L!Shifted(L!From(hid, s), d) /\ hid' = EmptyBag /\ UNCHANGED <<saves, was>>
  BY DEF L!Splice, L!(+), (+), L!EmptyBag, L!SetToBag, EmptyBag, SetToBag
<1> QED BY <1>1, <1>2, <1>3

\* A bag of declarations cut at a place is of those that start on either side.
CutWell(w, I, s) ==
  /\ L!Before(Tally(w, I), s) = Tally(w, {i \in I : w[i].start < s})
  /\ L!From(Tally(w, I), s) = Tally(w, {i \in I : w[i].start >= s})
\* The part of a bag that starts before a place, and the part that starts there or after.
LEMMA TallyCut ==
  ASSUME NEW w, NEW I, NEW s
  PROVE  CutWell(w, I, s)
<1> DEFINE J == {i \in I : w[i].start < s}
           K == {i \in I : w[i].start >= s}
           T == Tally(w, I)
<1>1. DOMAIN T = {w[i] : i \in I} /\ \A d \in DOMAIN T : T[d] = Cardinality({i \in I : w[i] = d})
  BY DEF Tally
<1>4. ASSUME NEW d \in {w[i] : i \in J} PROVE T[d] = Cardinality({i \in J : w[i] = d})
  <2>1. {i \in J : w[i] = d} = {i \in I : w[i] = d} OBVIOUS
  <2>2. d \in DOMAIN T BY <1>1
  <2> HIDE DEF T
  <2> QED BY <1>1, <2>1, <2>2
<1>5. ASSUME NEW d \in {w[i] : i \in K} PROVE T[d] = Cardinality({i \in K : w[i] = d})
  <2>1. {i \in K : w[i] = d} = {i \in I : w[i] = d} OBVIOUS
  <2>2. d \in DOMAIN T BY <1>1
  <2> HIDE DEF T
  <2> QED BY <1>1, <2>1, <2>2
<1>6. L!Before(T, s) = [d \in {w[i] : i \in J} |-> T[d]]
  <2>1. {e \in L!BagToSet(T) : e.start < s} = {w[i] : i \in J}
    BY <1>1 DEF L!BagToSet
  <2> HIDE DEF T, J
  <2> QED BY <2>1 DEF L!Before
<1>7. L!From(T, s) = [d \in {w[i] : i \in K} |-> T[d]]
  <2>1. {e \in L!BagToSet(T) : e.start >= s} = {w[i] : i \in K}
    BY <1>1 DEF L!BagToSet
  <2> HIDE DEF T, K
  <2> QED BY <2>1 DEF L!From
<1>8. L!Before(T, s) = Tally(w, J)
  <2> HIDE DEF T, J
  <2> QED BY <1>4, <1>6, Zenon DEF Tally
<1>9. L!From(T, s) = Tally(w, K)
  <2> HIDE DEF T, K
  <2> QED BY <1>5, <1>7, Zenon DEF Tally
<1> QED BY <1>8, <1>9 DEF CutWell

\* A bag moved is the tally of declarations each moved.
LEMMA TallyMoved ==
  ASSUME NEW w, NEW v, NEW I, NEW delta \in Int,
         \A i \in I : w[i] = L!Declaration(w[i].key, w[i].start) /\ w[i].start \in Int,
         \A i \in I : v[i] = L!Declaration(w[i].key, w[i].start + delta)
  PROVE  L!Shifted(Tally(w, I), delta) = Tally(v, I)
<1> DEFINE T == Tally(w, I)
<1>1. DOMAIN T = {w[i] : i \in I} /\ \A d \in DOMAIN T : T[d] = Cardinality({i \in I : w[i] = d})
  BY DEF Tally
<1>2. \A k, s : L!Declaration(k, s).key = k /\ L!Declaration(k, s).start = s
  BY DEF L!Declaration
<1>3. {L!Declaration(e.key, e.start + delta) : e \in L!BagToSet(T)} = {v[i] : i \in I}
  <2>1. L!BagToSet(T) = {w[i] : i \in I}
    BY <1>1 DEF L!BagToSet
  <2> HIDE DEF T
  <2> QED BY <2>1
<1>4. ASSUME NEW d \in {v[i] : i \in I}
      PROVE  T[L!Declaration(d.key, d.start - delta)] = Cardinality({i \in I : v[i] = d})
  <2>1. PICK j \in I : d = v[j] OBVIOUS
  <2>2. d.key = w[j].key /\ d.start = w[j].start + delta
    BY <1>2, <2>1
  <2>3. L!Declaration(d.key, d.start - delta) = w[j] BY <2>2
  <2>4. ASSUME NEW i \in I PROVE v[i] = d <=> w[i] = w[j]
    <3>1. v[i].key = w[i].key /\ v[i].start = w[i].start + delta
      BY <1>2
    <3>2. v[i] = d => w[i].key = w[j].key /\ w[i].start = w[j].start
      BY <2>2, <3>1
    <3>3. w[i].key = w[j].key /\ w[i].start = w[j].start => w[i] = w[j]
      OBVIOUS
    <3>4. w[i] = w[j] => v[i] = v[j] OBVIOUS
    <3> QED BY <2>1, <3>2, <3>3, <3>4
  <2>5. {i \in I : v[i] = d} = {i \in I : w[i] = w[j]}
    BY <2>4
  <2>6. T[w[j]] = Cardinality({i \in I : w[i] = w[j]})
    <3> HIDE DEF T
    <3> QED BY <1>1
  <2> HIDE DEF T
  <2> QED BY <2>3, <2>5, <2>6, Zenon
<1>5. L!Shifted(T, delta) = [d \in {v[i] : i \in I} |-> T[L!Declaration(d.key, d.start - delta)]]
  <2> HIDE DEF T
  <2> QED BY <1>3, Zenon DEF L!Shifted
<1>6. L!Shifted(T, delta) = Tally(v, I)
  <2> HIDE DEF T
  <2> QED BY <1>4, <1>5 DEF Tally
<1> QED BY <1>6

-------------------------------------------------------------------------------
(* The bags a roster stands for.                                           *)

Decls(r) == [i \in DOMAIN r.log |-> L!Declaration(r.log[i].key, TextStart(r, i))]
Shown(r) == {i \in DOMAIN r.log : Stands(r.log[i]) /\ ~(r.log[i].back /\ r.hidden)}
Covered(r) == {i \in DOMAIN r.log : Stands(r.log[i]) /\ r.log[i].back /\ r.hidden}
Found(r, c) == {i \in 1..c : i \notin DeadSet(r.log, c) /\ ~(r.log[i].back /\ r.hidden)}
SeenOf(r) == Tally(Decls(r), Shown(r))
HidOf(r) == Tally(Decls(r), Covered(r))
SavedOf(r, c) == Tally(Decls(r), Found(r, c))

\* The bags the labels are, and those the marks found.
Bagged ==
  /\ seen = SeenOf(roster) /\ hid = HidOf(roster)
  /\ saves = [m \in DOMAIN marks |-> SavedOf(roster, marks[m].count)]

\* What the bags are of.
LEMMA DeclFields ==
  ASSUME NEW r \in Rosters
  PROVE  /\ IsFiniteSet(Shown(r)) /\ IsFiniteSet(Covered(r)) /\ DOMAIN Decls(r) = DOMAIN r.log
         /\ \A i \in DOMAIN r.log : /\ Decls(r)[i] = L!Declaration(r.log[i].key, TextStart(r, i))
                                    /\ Decls(r)[i].key = r.log[i].key /\ Decls(r)[i].start = TextStart(r, i)
                                    /\ TextStart(r, i) \in Int /\ r.log[i].key \in Keys
<1>1. r.log \in Seq(Recs) /\ Len(r.log) \in Nat /\ DOMAIN r.log = 1..Len(r.log) /\ r.end \in [Kinds -> Int]
  BY RosterFields
<1>2. IsFiniteSet(DOMAIN r.log) BY <1>1, FS_Interval
<1>3. IsFiniteSet(Shown(r)) /\ IsFiniteSet(Covered(r))
  BY <1>2, FS_Subset DEF Shown, Covered
<1>4. ASSUME NEW i \in DOMAIN r.log
      PROVE  /\ Decls(r)[i] = L!Declaration(r.log[i].key, TextStart(r, i))
             /\ Decls(r)[i].key = r.log[i].key /\ Decls(r)[i].start = TextStart(r, i)
             /\ TextStart(r, i) \in Int /\ r.log[i].key \in Keys
  <2>1. r.log[i].key \in Keys /\ r.log[i].start \in Int /\ KindOf[r.log[i].key] \in Kinds
    BY <1>1, LogFields, RosterAssumption
  <2>2. TextStart(r, i) \in Int BY <1>1, <2>1 DEF TextStart
  <2>3. Decls(r)[i] = L!Declaration(r.log[i].key, TextStart(r, i))
    BY DEF Decls
  <2> QED BY <2>1, <2>2, <2>3 DEF L!Declaration
<1> QED BY <1>3, <1>4 DEF Decls

\* The bags of RosterLabels are these.
LEMMA BaggedStands ==
  ASSUME roster \in Rosters, Bagged
  PROVE  DeclarationsStand
<1>1. ASSUME NEW I, I \subseteq DOMAIN roster.log PROVE BagOf(I) = Tally(Decls(roster), I)
  <2>1. \A i \in I : Decls(roster)[i] = [key |-> roster.log[i].key, start |-> TextStart(roster, i)]
    BY <1>1, DeclFields DEF L!Declaration
  <2>2. {[key |-> roster.log[i].key, start |-> TextStart(roster, i)] : i \in I} = {Decls(roster)[i] : i \in I}
    BY <2>1, Zenon
  <2>3. \A d : {i \in I : [key |-> roster.log[i].key, start |-> TextStart(roster, i)] = d} = {i \in I : Decls(roster)[i] = d}
    BY <2>1, Zenon
  <2> QED BY <2>2, <2>3, Zenon DEF BagOf, Tally
<1>2. Standing \ Hidden = Shown(roster) /\ Hidden = Covered(roster)
  BY DEF Standing, Hidden, Shown, Covered
<1>3. Shown(roster) \subseteq DOMAIN roster.log /\ Covered(roster) \subseteq DOMAIN roster.log
  BY DEF Shown, Covered
<1> QED BY <1>1, <1>2, <1>3, Zenon DEF DeclarationsStand, Bagged, SeenOf, HidOf

\* Two rosters whose first c records are declared alike.
LikeUpTo(r, s, c) ==
  /\ s.hidden = r.hidden /\ s.end = r.end /\ 1..c \subseteq DOMAIN r.log /\ 1..c \subseteq DOMAIN s.log
  /\ \A i \in 1..c : /\ s.log[i].key = r.log[i].key /\ s.log[i].start = r.log[i].start
                     /\ s.log[i].withdrew = r.log[i].withdrew /\ s.log[i].back = r.log[i].back
                     /\ s.log[i].gone = r.log[i].gone

\* What a mark finds is of the records before it only.
LEMMA SavedSame ==
  ASSUME NEW r, NEW s, NEW c \in Nat, LikeUpTo(r, s, c), NEW b \in 0..c
  PROVE  SavedOf(s, b) = SavedOf(r, b) /\ \A i \in 1..c : Decls(s)[i] = Decls(r)[i]
<1>1. ASSUME NEW i \in 1..c PROVE Decls(s)[i] = Decls(r)[i]
  BY DEF LikeUpTo, Decls, TextStart
<1>2. b \in Nat /\ \A i \in 1..b : i \in 1..c OBVIOUS
<1>3. DeadSet(s.log, b) = DeadSet(r.log, b)
  BY <1>2, DeadSame DEF LikeUpTo
<1>4. Found(s, b) = Found(r, b)
  BY <1>2, <1>3 DEF LikeUpTo, Found
<1>5. \A i \in Found(r, b) : Decls(s)[i] = Decls(r)[i]
  BY <1>1, <1>2 DEF Found
<1> QED BY <1>1, <1>4, <1>5, TallySame DEF SavedOf

\* A mark taken now finds what is shown.
LEMMA SavedNow ==
  ASSUME NEW r, Sound(r)
  PROVE  Found(r, Len(r.log)) = Shown(r) /\ SavedOf(r, Len(r.log)) = SeenOf(r)
<1>1. r \in Rosters /\ Paired(r) BY DEF Sound
<1>2. DeadSet(r.log, Len(r.log)) = {i \in DOMAIN r.log : ~Stands(r.log[i])}
  BY <1>1, DeadIs
<1>3. DOMAIN r.log = 1..Len(r.log) BY <1>1, RosterFields
<1>4. Found(r, Len(r.log)) = Shown(r)
  BY <1>2, <1>3 DEF Found, Shown
<1> QED BY <1>4 DEF SavedOf, SeenOf

\* Rosters that are alike stand for the same bags.
LEMMA AlikeBags ==
  ASSUME NEW r, NEW s, r \in Rosters, s \in Rosters, Alike(r, s)
  PROVE  /\ LikeUpTo(r, s, Len(r.log)) /\ Len(r.log) \in Nat
         /\ Shown(s) = Shown(r) /\ Covered(s) = Covered(r) /\ SeenOf(s) = SeenOf(r) /\ HidOf(s) = HidOf(r)
<1>1. DOMAIN r.log = 1..Len(r.log) /\ DOMAIN s.log = DOMAIN r.log /\ Len(r.log) \in Nat
  BY RosterFields DEF Alike
<1>2. LikeUpTo(r, s, Len(r.log))
  BY <1>1 DEF Alike, Same, LikeUpTo
<1>3. \A i \in DOMAIN r.log : (Stands(s.log[i]) <=> Stands(r.log[i])) /\ s.log[i].back = r.log[i].back
  BY DEF Alike, Same, Stands
<1>4. Shown(s) = Shown(r) /\ Covered(s) = Covered(r)
  BY <1>1, <1>3 DEF Shown, Covered, Alike
<1>5. Len(r.log) \in 0..Len(r.log) BY <1>1
<1>6. \A i \in 1..Len(r.log) : Decls(s)[i] = Decls(r)[i]
  BY <1>1, <1>2, <1>5, SavedSame
<1>7. (\A i \in Shown(r) : Decls(s)[i] = Decls(r)[i]) /\ \A i \in Covered(r) : Decls(s)[i] = Decls(r)[i]
  BY <1>1, <1>6 DEF Shown, Covered
<1>8. Tally(Decls(s), Shown(r)) = Tally(Decls(r), Shown(r)) /\ Tally(Decls(s), Covered(r)) = Tally(Decls(r), Covered(r))
  BY <1>7, TallySame
<1> QED BY <1>1, <1>2, <1>4, <1>8 DEF SeenOf, HidOf

-------------------------------------------------------------------------------
(* The calls, of the roster and of the bags.                               *)

\* What the marks found stays, as long as what they are of does.
LEMMA SavesStand ==
  ASSUME IInv, NEW s, NEW c \in Nat, LikeUpTo(roster, s, c), \A m \in DOMAIN marks : marks[m].count <= c
  PROVE  [m \in DOMAIN marks |-> SavedOf(s, marks[m].count)] = [m \in DOMAIN marks |-> SavedOf(roster, marks[m].count)]
<1>1. ASSUME NEW m \in DOMAIN marks PROVE SavedOf(s, marks[m].count) = SavedOf(roster, marks[m].count)
  <2>1. marks[m].count \in 0..c BY MarkFacts
  <2> QED BY <2>1, SavedSame
<1> QED BY <1>1

\* markdown_core_roster_declare adds the declaration.
LEMMA DeclareBags ==
  ASSUME IInv, Bagged, NEW k \in Keys, NEW start, Declare(k, start), L!Declare(k, start)
  PROVE  Bagged'
<1> DEFINE r == roster
           s == Declared(roster, k, start)
           n == Len(roster.log)
           d == KindOf[k]
<1>1. start \in Open /\ roster' = s /\ marks' = marks
  BY DEF Declare
<1>2. d \in Kinds BY RosterAssumption
<1>3. start \in Int /\ (~r.hidden => \A j \in Backs(r.log, d) : start <= r.end[d] - r.log[j].start)
  BY <1>1, <1>2, OpenBefore
<1>4. Sound(r) /\ Settled(r) BY DEF IInv
<1>5. /\ Sound(s) /\ Len(s.log) = n + 1 /\ \A i \in 1..n : s.log[i] = r.log[i]
      /\ s.log[n + 1] = Fresh(k, start, 0) /\ s.end = r.end /\ s.hidden = r.hidden
  BY <1>3, <1>4, DeclaredSound
<1>6. r \in Rosters /\ s \in Rosters /\ n \in Nat /\ DOMAIN r.log = 1..n /\ DOMAIN s.log = 1..(n + 1)
  BY <1>4, <1>5, RosterFields DEF Sound
<1> HIDE DEF s
<1>7. LikeUpTo(r, s, n) BY <1>5, <1>6 DEF LikeUpTo
<1>8. LET x == s.log[n + 1] IN x.key = k /\ x.start = start /\ ~x.back /\ Stands(x)
  BY <1>3, <1>5, FreshFields
<1>9. Shown(s) = Shown(r) \cup {n + 1} /\ Covered(s) = Covered(r) /\ n + 1 \notin Shown(r)
  BY <1>5, <1>6, <1>8 DEF Shown, Covered
<1>10. n \in 0..n /\ \A i \in 1..n : Decls(s)[i] = Decls(r)[i]
  BY <1>6, <1>7, SavedSame
<1>11. Decls(s)[n + 1] = L!Declaration(k, start)
  <2>1. n + 1 \in DOMAIN s.log /\ TextStart(s, n + 1) = start
    BY <1>6, <1>8 DEF TextStart
  <2> QED BY <1>6, <1>8, <2>1, DeclFields
<1>12. SeenOf(s) = SeenOf(r) (+) L!One(L!Declaration(k, start))
  <2>1. Tally(Decls(s), Shown(r)) = Tally(Decls(r), Shown(r))
    <3>1. \A i \in Shown(r) : Decls(s)[i] = Decls(r)[i]
      BY <1>6, <1>10 DEF Shown
    <3> QED BY <3>1, TallySame
  <2>2. IsFiniteSet(Shown(r)) BY <1>6, DeclFields
  <2>3. Tally(Decls(s), Shown(r) \cup {n + 1}) = Tally(Decls(s), Shown(r)) (+) L!One(Decls(s)[n + 1])
    BY <1>9, <2>2, TallyMore
  <2> QED BY <1>9, <1>11, <2>1, <2>3 DEF SeenOf
<1>13. HidOf(s) = HidOf(r)
  <2>1. \A i \in Covered(r) : Decls(s)[i] = Decls(r)[i]
    BY <1>6, <1>10 DEF Covered
  <2> QED BY <1>9, <2>1, TallySame DEF HidOf
<1>14. seen' = seen (+) L!One(L!Declaration(k, start)) /\ hid' = hid /\ saves' = saves
  BY LabelCalls
<1>15. \A m \in DOMAIN marks : marks[m].count <= n
  BY MarkFacts
<1>16. [m \in DOMAIN marks |-> SavedOf(s, marks[m].count)] = [m \in DOMAIN marks |-> SavedOf(r, marks[m].count)]
  BY <1>6, <1>7, <1>15, SavesStand
<1> HIDE DEF n
<1> QED BY <1>1, <1>12, <1>13, <1>14, <1>16 DEF Bagged

\* A key's list once its kind's index is made: its declarations that stand, in order.
ListIs(q, k) ==
  LET list == q.index[k].list
  IN /\ list \in Seq(Nat) /\ Len(list) \in Nat /\ DOMAIN list = 1..Len(list)
     /\ \A p \in 1..Len(list) : list[p] \in DOMAIN q.log /\ q.log[list[p]].key = k /\ Stands(q.log[list[p]])
     /\ \A i \in DOMAIN q.log : q.log[i].key = k /\ Stands(q.log[i]) => \E p \in 1..Len(list) : list[p] = i
     /\ \A p, m \in 1..Len(list) : p < m => ~S_precedes(q.log[list[m]], q.log[list[p]])

\* An index made up to the log's end holds all of a key's declarations that stand.
LEMMA ListOf ==
  ASSUME NEW q \in Rosters, Indexed(q), NEW k \in Keys, q.cursor[KindOf[k]] = Len(q.log)
  PROVE  ListIs(q, k)
<1> DEFINE list == q.index[k].list
           T == {i \in Taken(q) : q.log[i].key = k}
<1>1. Listing(q.log, q.index[k], T) /\ q.index[k] \in Lists /\ Taken(q) \subseteq DOMAIN q.log
  <2>1. Holds(q, Taken(q)) BY DEF Indexed
  <2> QED BY <2>1, RosterFields, Zenon DEF Holds
<1>2. list \in Seq(Nat) /\ Len(list) \in Nat /\ DOMAIN list = 1..Len(list)
  BY <1>1 DEF Lists
<1>3. DOMAIN q.log = 1..Len(q.log) BY RosterFields
<1>4. T = {i \in DOMAIN q.log : q.log[i].key = k /\ Stands(q.log[i])}
  BY <1>3 DEF Taken, Kind
<1>5. /\ \A p \in DOMAIN list : list[p] \in T
      /\ \A i \in T : \E p \in DOMAIN list : list[p] = i
      /\ \A p, m \in DOMAIN list : p < m => ~S_precedes(q.log[list[m]], q.log[list[p]])
  BY <1>1 DEF Listing, Ordered
<1> HIDE DEF list, T
<1> QED BY <1>2, <1>4, <1>5, Zenon DEF ListIs, list

\* Where a label's declarations start.
LEMMA StartsAre ==
  ASSUME NEW r \in Rosters, NEW k
  PROVE  /\ L!Starts(SeenOf(r), k) = {TextStart(r, i) : i \in {j \in Shown(r) : r.log[j].key = k}}
         /\ L!Starts(HidOf(r), k) = {TextStart(r, i) : i \in {j \in Covered(r) : r.log[j].key = k}}
<1> DEFINE w == Decls(r)
<1>1. \A i \in DOMAIN r.log : w[i].key = r.log[i].key /\ w[i].start = TextStart(r, i)
  BY DeclFields
<1>2. ASSUME NEW I, I \subseteq DOMAIN r.log
      PROVE  L!Starts(Tally(w, I), k) = {TextStart(r, i) : i \in {j \in I : r.log[j].key = k}}
  <2>1. L!BagToSet(Tally(w, I)) = {w[i] : i \in I}
    BY DEF L!BagToSet, Tally
  <2>2. \A i \in I : w[i].key = r.log[i].key /\ w[i].start = TextStart(r, i)
    BY <1>1, <1>2
  <2> HIDE DEF w
  <2> QED BY <2>1, <2>2 DEF L!Starts
<1>3. Shown(r) \subseteq DOMAIN r.log /\ Covered(r) \subseteq DOMAIN r.log
  BY DEF Shown, Covered
<1> QED BY <1>2, <1>3 DEF SeenOf, HidOf

\* The first and the last of some places.
LEMMA Extremes ==
  ASSUME NEW S, \A s \in S : s \in Int, NEW s \in S
  PROVE  /\ (\A t \in S : s <= t) => L!Earliest(S) = s
         /\ (\A t \in S : t <= s) => L!Latest(S) = s
<1>1. ASSUME \A t \in S : s <= t PROVE L!Earliest(S) = s
  <2>1. L!Earliest(S) \in S /\ \A t \in S : L!Earliest(S) <= t
    BY <1>1 DEF L!Earliest
  <2> QED BY <1>1, <2>1
<1>2. ASSUME \A t \in S : t <= s PROVE L!Latest(S) = s
  <2>1. L!Latest(S) \in S /\ \A t \in S : t <= L!Latest(S)
    BY <1>2 DEF L!Latest
  <2> QED BY <1>2, <2>1
<1> QED BY <1>1, <1>2

\* markdown_core_roster_withdraw takes back the declaration that starts there, or the label's
\* last when none does.
LEMMA WithdrawBags ==
  ASSUME IInv, Bagged, NEW k \in Keys, NEW start, Withdraw(k, start), L!Withdraw(k, start)
  PROVE  Bagged'
<1> DEFINE r == roster
           s == Withdrawn(roster, k, start)
           n == Len(roster.log)
           d == KindOf[k]
           g == GoneOf(roster, k, start)
           w == Decls(roster)
<1>1. /\ edit.phase = "stream" /\ start \in Open /\ roster' = s /\ marks' = marks
      /\ \E i \in DOMAIN r.log : r.log[i].key = k /\ Stands(r.log[i])
  BY DEF Withdraw
<1>2. d \in Kinds BY RosterAssumption
<1>3. start \in Int BY <1>1, <1>2, OpenBefore
<1>4. Sound(r) /\ Settled(r) /\ EditOK BY DEF IInv
<1>5. r \in Rosters /\ n \in Nat /\ DOMAIN r.log = 1..n /\ Placed(r) /\ ~r.placed /\ ~r.hidden
  BY <1>1, <1>4, RosterFields DEF Sound, EditOK
<1>6. \A i \in DOMAIN r.log : ~r.log[i].back /\ TextStart(r, i) = r.log[i].start
  BY <1>5 DEF Placed, TextStart
<1>7. Sound(s) /\ Withdrew(r, s, g, k, start) /\ GoneAsked(r, k, start)
  BY <1>1, <1>3, <1>4, <1>5, WithdrawnSound, GoneStands
<1> HIDE DEF s, g
<1>8. s \in Rosters /\ DOMAIN s.log = 1..(n + 1) /\ Len(s.log) = n + 1
  BY <1>7 DEF Sound, Withdrew
<1>9. LikeUpTo(r, s, n)
  BY <1>5, <1>7, <1>8 DEF LikeUpTo, Withdrew
<1>10. g \in Shown(r) /\ r.log[g].key = k
  BY <1>5, <1>7 DEF Withdrew, Shown
<1>11. Shown(s) = Shown(r) \ {g} /\ Covered(s) = Covered(r)
  <2>1. ASSUME NEW i \in 1..n PROVE Stands(s.log[i]) <=> Stands(r.log[i]) /\ i # g
    BY <1>7, <2>1, Zenon DEF Withdrew, Stands
  <2>2. ~Stands(s.log[n + 1])
    <3>1. g # 0 /\ s.log[n + 1].withdrew = g
      BY <1>3, <1>5, <1>7, FreshFields DEF Withdrew, Same
    <3> QED BY <3>1 DEF Stands
  <2>3. s.hidden = r.hidden BY <1>7 DEF Withdrew
  <2> QED BY <1>5, <1>8, <2>1, <2>2, <2>3 DEF Shown, Covered
<1>12. n \in 0..n /\ \A i \in 1..n : Decls(s)[i] = w[i]
  BY <1>5, <1>9, SavedSame
<1>13. SeenOf(s) = SeenOf(r) (-) L!One(w[g])
  <2>1. Tally(Decls(s), Shown(r) \ {g}) = Tally(w, Shown(r) \ {g})
    <3>1. \A i \in Shown(r) \ {g} : Decls(s)[i] = w[i]
      BY <1>5, <1>12 DEF Shown
    <3> QED BY <3>1, TallySame
  <2>2. IsFiniteSet(Shown(r)) BY <1>5, DeclFields
  <2>3. Tally(w, Shown(r) \ {g}) = Tally(w, Shown(r)) (-) L!One(w[g])
    BY <1>10, <2>2, TallyLess, Zenon
  <2> QED BY <1>11, <2>1, <2>3 DEF SeenOf
<1>14. HidOf(s) = HidOf(r)
  <2>1. \A i \in Covered(r) : Decls(s)[i] = Decls(r)[i]
    BY <1>5, <1>12 DEF Covered
  <2> QED BY <1>11, <2>1, TallySame DEF HidOf
<1>15. \A i \in DOMAIN r.log : w[i] = L!Declaration(r.log[i].key, r.log[i].start) /\ w[i].key = r.log[i].key /\ w[i].start = r.log[i].start
  BY <1>5, <1>6, DeclFields
<1>16. L!Starts(SeenOf(r), k) = {r.log[i].start : i \in {j \in DOMAIN r.log : r.log[j].key = k /\ Stands(r.log[j])}}
  <2>1. L!Starts(SeenOf(r), k) = {TextStart(r, i) : i \in {j \in Shown(r) : r.log[j].key = k}}
    BY <1>5, StartsAre
  <2>2. {j \in Shown(r) : r.log[j].key = k} = {j \in DOMAIN r.log : r.log[j].key = k /\ Stands(r.log[j])}
    BY <1>5 DEF Shown
  <2> QED BY <1>6, <2>1, <2>2
<1>17. r.log[g].start = IF start \in L!Starts(SeenOf(r), k) THEN start ELSE L!Latest(L!Starts(SeenOf(r), k))
  <2> DEFINE asked == S_index_space(r, d)
             list == asked.index[k].list
             stays == {i \in ToSet(list) : TextStart(asked, i) <= start}
             at == Walked(asked.index[k], stays)
             S == L!Starts(SeenOf(r), k)
             m == Len(list)
  <2>1. /\ at \in 0..m /\ list # << >> /\ \A p \in 1..m : r.log[list[p]].start <= start <=> p <= at
        /\ g = IF at > 0 /\ r.log[list[at]].start = start THEN list[at] ELSE list[m]
    BY <1>7, Zenon DEF GoneAsked, g
  <2>2. asked \in Rosters /\ Alike(r, asked) /\ Indexed(asked) /\ asked.cursor = [r.cursor EXCEPT ![d] = Len(r.log)]
    BY <1>2, <1>4, <1>5, IndexSpace, Zenon DEF Sound, Settled
  <2>3. r.cursor \in [Kinds -> Nat] BY <1>5, RosterFields
  <2> HIDE DEF asked, at
  <2>4. asked.cursor[KindOf[k]] = Len(asked.log)
    BY <1>2, <2>2, <2>3 DEF Alike
  <2>5. ListIs(asked, k) BY <2>2, <2>4, ListOf, Zenon
  <2>6. /\ list \in Seq(Nat) /\ m \in Nat /\ DOMAIN list = 1..m
        /\ \A p \in 1..m : list[p] \in DOMAIN asked.log /\ asked.log[list[p]].key = k /\ Stands(asked.log[list[p]])
        /\ \A i \in DOMAIN asked.log : asked.log[i].key = k /\ Stands(asked.log[i]) => \E p \in 1..m : list[p] = i
        /\ \A p, q \in 1..m : p < q => ~S_precedes(asked.log[list[q]], asked.log[list[p]])
    BY <2>5 DEF ListIs
  <2> HIDE DEF list, m
  <2>7. /\ DOMAIN asked.log = DOMAIN r.log
        /\ \A i \in DOMAIN r.log : /\ asked.log[i].key = r.log[i].key /\ asked.log[i].start = r.log[i].start
                                   /\ asked.log[i].back = r.log[i].back /\ (Stands(asked.log[i]) <=> Stands(r.log[i]))
    BY <2>2 DEF Alike, Same, Stands
  <2>8. \A p \in 1..m : /\ list[p] \in DOMAIN r.log /\ r.log[list[p]].key = k /\ Stands(r.log[list[p]])
                         /\ r.log[list[p]].start \in Int /\ r.log[list[p]].start \in S
    <3> TAKE p \in 1..m
    <3>1. list[p] \in DOMAIN r.log /\ r.log[list[p]].key = k /\ Stands(r.log[list[p]])
      BY <2>6, <2>7
    <3>2. r.log[list[p]].start = TextStart(r, list[p]) /\ TextStart(r, list[p]) \in Int
      BY <1>5, <1>6, <3>1, DeclFields
    <3> QED BY <1>16, <3>1, <3>2
  <2>9. \A s1 \in S : \E p \in 1..m : r.log[list[p]].start = s1
    BY <1>16, <2>6, <2>7
  <2>10. \A p, q \in 1..m : p < q => r.log[list[p]].start <= r.log[list[q]].start
    <3> TAKE p, q \in 1..m
    <3> HAVE p < q
    <3> DEFINE i == list[p]
               j == list[q]
    <3>1. ~S_precedes(asked.log[j], asked.log[i]) /\ i \in DOMAIN r.log /\ j \in DOMAIN r.log
      BY <2>6, <2>8, Zenon
    <3>2. r.log[i].start \in Int /\ r.log[j].start \in Int
      BY <2>8
    <3>3. ~asked.log[i].back /\ ~asked.log[j].back /\ asked.log[i].start = r.log[i].start /\ asked.log[j].start = r.log[j].start
      BY <1>6, <2>7, <3>1
    <3> HIDE DEF i, j
    <3>4. r.log[i].start <= r.log[j].start
      BY <3>1, <3>2, <3>3 DEF S_precedes
    <3> QED BY <3>4 DEF i, j
  <2>11. \A s1 \in S : s1 \in Int BY <2>8, <2>9
  <2> HIDE DEF S
  <2>12. CASE start \in S
    <3>1. PICK p \in 1..m : r.log[list[p]].start = start
      BY <2>9, <2>12
    <3>2. p <= at /\ at > 0 /\ at \in 1..m
      BY <1>3, <2>1, <2>6, <3>1
    <3>3. r.log[list[at]].start <= start /\ r.log[list[p]].start <= r.log[list[at]].start
      <4>1. r.log[list[at]].start <= start BY <2>1, <3>2
      <4>2. p = at \/ p < at BY <3>2
      <4> QED BY <1>3, <2>8, <2>10, <3>1, <3>2, <4>1, <4>2
    <3>4. r.log[list[at]].start = start
      BY <1>3, <2>8, <3>1, <3>2, <3>3
    <3> QED BY <2>1, <2>12, <3>2, <3>4 DEF S
  <2>13. CASE start \notin S
    <3>1. m \in 1..m
      <4>1. m # 0 BY <2>1, <2>6, EmptySeq DEF m
      <4> QED BY <2>6, <4>1
    <3>2. g = list[m]
      <4>1. ~(at > 0 /\ r.log[list[at]].start = start)
        <5>1. at > 0 => at \in 1..m BY <2>1, <2>6
        <5> QED BY <2>8, <2>13, <5>1
      <4> QED BY <2>1, <4>1
    <3>3. \A t \in S : t <= r.log[list[m]].start
      <4> TAKE t \in S
      <4>1. PICK p \in 1..m : r.log[list[p]].start = t
        BY <2>9
      <4>2. p = m \/ p < m BY <2>6
      <4> QED BY <2>8, <2>10, <3>1, <4>1, <4>2
    <3>4. L!Latest(S) = r.log[list[m]].start
      BY <2>8, <2>11, <3>1, <3>3, Extremes
    <3> QED BY <2>13, <3>2, <3>4 DEF S
  <2> QED BY <2>12, <2>13 DEF S
<1>18. w[g] = L!Declaration(k, IF start \in L!Starts(SeenOf(r), k) THEN start ELSE L!Latest(L!Starts(SeenOf(r), k)))
  BY <1>10, <1>15, <1>17 DEF Shown
<1>19. /\ seen' = seen (-) L!One(L!Declaration(k, IF start \in L!Starts(seen, k) THEN start ELSE L!Latest(L!Starts(seen, k))))
       /\ hid' = hid /\ saves' = saves
  BY LabelCalls
<1>20. seen = SeenOf(r) BY DEF Bagged
<1>21. \A a \in DOMAIN marks : marks[a].count <= n
  BY MarkFacts
<1>22. [a \in DOMAIN marks |-> SavedOf(s, marks[a].count)] = [a \in DOMAIN marks |-> SavedOf(r, marks[a].count)]
  BY <1>5, <1>9, <1>21, SavesStand
<1>23. seen' = SeenOf(s) BY <1>13, <1>18, <1>19, <1>20
<1>24. roster' = s /\ marks' = marks BY <1>1 DEF s
<1> HIDE DEF n, w, d
<1> QED BY <1>14, <1>19, <1>22, <1>23, <1>24 DEF Bagged

-------------------------------------------------------------------------------
(* The calls that keep the bags, and those that go back to one.            *)

\* A sequence is what it has at each of its places.
LEMMA SeqIs ==
  ASSUME NEW S, NEW s \in Seq(S), NEW n \in Nat, DOMAIN s = 1..n, NEW f, f = [m \in 1..n |-> f[m]],
         \A m \in 1..n : s[m] = f[m]
  PROVE  s = f
<1>1. s = [m \in DOMAIN s |-> s[m]] OBVIOUS
<1> QED BY <1>1

\* What the marks found is a sequence, as the marks are.
LEMMA SavesAre ==
  ASSUME IInv, Bagged
  PROVE  \E S : /\ seen \in S /\ saves \in Seq(S) /\ Len(saves) = Len(marks) /\ Len(marks) \in Nat
                /\ DOMAIN marks = 1..Len(marks) /\ DOMAIN saves = 1..Len(marks) /\ marks \in Seq(Marks)
<1> DEFINE S == {SavedOf(roster, marks[m].count) : m \in DOMAIN marks} \cup {seen}
<1>1. marks \in Seq(Marks) BY DEF IInv, MarksOK
<1>2. Len(marks) \in Nat /\ DOMAIN marks = 1..Len(marks)
  BY <1>1
<1>3. saves \in [1..Len(marks) -> S] BY <1>2 DEF Bagged
<1>4. seen \in S OBVIOUS
<1> HIDE DEF S
<1>5. saves \in Seq(S) BY <1>2, <1>3, SeqDef
<1>6. Len(saves) = Len(marks) BY <1>2, <1>3, <1>5
<1> QED BY <1>1, <1>2, <1>3, <1>4, <1>5, <1>6

\* A mark keeps the bag it finds.
LEMMA MarkBags ==
  ASSUME IInv, Bagged, Mark, L!Mark
  PROVE  Bagged'
<1> DEFINE n == Len(roster.log)
           w == Len(marks)
           mark == [count |-> n, dead |-> roster.dead]
           f == [m \in 1..(w + 1) |-> SavedOf(roster, marks'[m].count)]
<1>1. marks' = Append(marks, mark) /\ roster' = roster
  BY DEF Mark
<1>2. saves' = Append(saves, seen) /\ seen' = seen /\ hid' = hid
  BY DEF L!Mark
<1>3. Sound(roster) /\ roster \in Rosters BY DEF IInv, Sound
<1>4. n \in Nat /\ roster.dead \in Int BY <1>3, RosterFields
<1>5. mark \in Marks /\ mark.count = n BY <1>4 DEF Marks
<1>6. PICK S : /\ seen \in S /\ saves \in Seq(S) /\ Len(saves) = w /\ w \in Nat
               /\ DOMAIN marks = 1..w /\ DOMAIN saves = 1..w /\ marks \in Seq(Marks)
  BY SavesAre
<1>7. SavedOf(roster, n) = seen BY <1>3, SavedNow DEF Bagged
<1> HIDE DEF mark, n, w
<1>8. /\ DOMAIN marks' = 1..(w + 1) /\ marks'[w + 1] = mark
      /\ \A m \in 1..w : marks'[m] = marks[m]
  BY <1>1, <1>5, <1>6 DEF w
<1>9. /\ saves' \in Seq(S) /\ DOMAIN saves' = 1..(w + 1) /\ saves'[w + 1] = seen
      /\ \A m \in 1..w : saves'[m] = saves[m]
  BY <1>2, <1>6
<1>10. \A m \in 1..(w + 1) : m \in 1..w \/ m = w + 1 BY <1>6
<1>11. \A m \in 1..(w + 1) : saves'[m] = SavedOf(roster, marks'[m].count)
  <2> TAKE m \in 1..(w + 1)
  <2>1. CASE m \in 1..w BY <1>6, <1>8, <1>9, <2>1 DEF Bagged
  <2>2. CASE m = w + 1 BY <1>5, <1>7, <1>8, <1>9, <2>2
  <2> QED BY <1>10, <2>1, <2>2
<1>12. f = [m \in 1..(w + 1) |-> f[m]] /\ \A m \in 1..(w + 1) : saves'[m] = f[m]
  BY <1>11
<1> HIDE DEF f
<1>13. saves' = f BY <1>6, <1>9, <1>12, SeqIs
<1> QED BY <1>1, <1>2, <1>8, <1>13, Zenon DEF Bagged, f

\* A lookup leaves them: the index it makes is of the same records.
LEMMA FindBags ==
  ASSUME IInv, Bagged, NEW k \in Keys, Find(k), UNCHANGED labels
  PROVE  Bagged'
<1> DEFINE s == Asked(roster, k)
<1>1. roster' = s /\ marks' = marks BY DEF Find
<1>2. Sound(roster) /\ Settled(roster) /\ roster \in Rosters
  BY DEF IInv, Sound
<1>3. Reached(roster, s) BY <1>2, AskedSound
<1> HIDE DEF s
<1>4. s \in Rosters /\ Alike(roster, s) BY <1>3 DEF Reached
<1>5. /\ LikeUpTo(roster, s, Len(roster.log)) /\ Len(roster.log) \in Nat
      /\ SeenOf(s) = SeenOf(roster) /\ HidOf(s) = HidOf(roster)
  BY <1>2, <1>4, AlikeBags
<1>6. \A m \in DOMAIN marks : marks[m].count <= Len(roster.log)
  BY MarkFacts
<1>7. [m \in DOMAIN marks |-> SavedOf(s, marks[m].count)] = [m \in DOMAIN marks |-> SavedOf(roster, marks[m].count)]
  BY <1>5, <1>6, SavesStand
<1>8. seen' = seen /\ hid' = hid /\ saves' = saves
  BY DEF labels
<1> QED BY <1>1, <1>5, <1>7, <1>8 DEF Bagged

\* No mark found anything when none is held.
LEMMA NoSaves ==
  ASSUME marks = << >>
  PROVE  \A r, s : [m \in DOMAIN marks |-> SavedOf(r, marks[m].count)] = [m \in DOMAIN marks |-> SavedOf(s, marks[m].count)]
<1>1. DOMAIN marks = {} OBVIOUS
<1> QED BY <1>1

\* What a session asks after a reading leaves them too.
LEMMA AlteredBags ==
  ASSUME IInv, Bagged, Altered, L!Forget
  PROVE  Bagged'
<1> DEFINE s == Compared(roster)
<1>1. roster' = s /\ marks' = marks /\ marks = << >>
  BY DEF Altered, IInv, MarksOK
<1>2. Sound(roster) /\ Settled(roster) /\ roster \in Rosters
  BY DEF IInv, Sound
<1>3. Reached(roster, s) BY <1>2, ComparedSound
<1> HIDE DEF s
<1>4. s \in Rosters /\ Alike(roster, s) BY <1>3 DEF Reached
<1>5. SeenOf(s) = SeenOf(roster) /\ HidOf(s) = HidOf(roster)
  BY <1>2, <1>4, AlikeBags
<1>6. seen' = seen /\ hid' = hid /\ saves' = saves
  BY DEF L!Forget
<1>7. [m \in DOMAIN marks |-> SavedOf(s, marks[m].count)] = [m \in DOMAIN marks |-> SavedOf(roster, marks[m].count)]
  BY <1>1, NoSaves
<1> QED BY <1>1, <1>5, <1>6, <1>7 DEF Bagged

\* A rollback leaves what its mark found.
LEMMA RollbackBags ==
  ASSUME IInv, Bagged, Rollback, L!Rollback
  PROVE  Bagged'
<1> DEFINE r == roster
           w == Len(marks)
           mark == Last(marks)
           c == mark.count
           s == RolledBack(roster, mark)
<1>1. marks # << >> /\ roster' = s /\ marks' = Front(marks)
  BY DEF Rollback
<1>2. seen' = saves[Len(saves)] /\ saves' = SubSeq(saves, 1, Len(saves) - 1) /\ hid' = hid
  BY DEF L!Rollback
<1>3. Sound(r) /\ MarksOK /\ EditOK /\ r \in Rosters
  BY DEF IInv, Sound
<1>4. PICK S : /\ seen \in S /\ saves \in Seq(S) /\ Len(saves) = w /\ w \in Nat
               /\ DOMAIN marks = 1..w /\ DOMAIN saves = 1..w /\ marks \in Seq(Marks)
  BY SavesAre
<1>5. w \in 1..w /\ mark = marks[w] /\ Len(marks) # 0
  <2>1. Len(marks) # 0 BY <1>1, <1>4, EmptySeq
  <2> QED BY <1>4, <2>1 DEF Last
<1>6. c \in Nat /\ mark \in Marks /\ c <= Len(r.log) /\ Since(r, c)
  <2> HIDE DEF mark
  <2> QED BY <1>4, <1>5, MarkFacts
<1> HIDE DEF mark, w
<1>7. Sound(s) /\ Restored(r, s, c)
  BY <1>3, <1>6, RolledBackSound
<1> HIDE DEF s, c
<1>8. s \in Rosters /\ DOMAIN r.log = 1..Len(r.log) /\ Len(r.log) \in Nat /\ Len(s.log) = c /\ DOMAIN s.log = 1..c
  BY <1>3, <1>7, RosterFields DEF Sound, Restored
<1>9. LikeUpTo(r, s, c)
  BY <1>6, <1>7, <1>8 DEF Restored, LikeUpTo
<1>10. SeenOf(s) = SavedOf(r, c) /\ \A i \in 1..c : Decls(s)[i] = Decls(r)[i]
  <2>1. SavedOf(s, c) = SeenOf(s) BY <1>7, <1>8, SavedNow
  <2>2. c \in 0..c BY <1>6
  <2> QED BY <1>6, <1>9, <2>1, <2>2, SavedSame
<1>11. saves[w] = SavedOf(r, c) BY <1>4, <1>5 DEF Bagged, c
<1>12. Covered(s) = Covered(r)
  <2>1. s.hidden = r.hidden /\ (r.hidden => r.placed)
    BY <1>3, <1>7 DEF Restored, EditOK
  <2>2. ASSUME NEW i \in Covered(s) PROVE i \in Covered(r)
    <3>1. i \in 1..c /\ i \in DOMAIN r.log /\ Stands(s.log[i]) /\ s.log[i].back /\ r.hidden
      BY <1>7, <1>8, <2>1, <2>2 DEF Covered, Restored
    <3>2. Stands(r.log[i])
      BY <1>3, <1>6, <1>7, <2>1, <3>1, RestoredStands
    <3>3. r.log[i].back BY <1>9, <3>1 DEF LikeUpTo
    <3> QED BY <3>1, <3>2, <3>3 DEF Covered
  <2>3. ASSUME NEW i \in Covered(r) PROVE i \in Covered(s)
    <3>1. i \in DOMAIN r.log /\ Stands(r.log[i]) /\ r.log[i].back /\ r.hidden
      BY <2>3 DEF Covered
    <3>2. i \in 1..c BY <1>6, <1>8, <3>1 DEF Since
    <3>3. Stands(s.log[i]) /\ s.log[i].back
      BY <1>7, <3>1, <3>2 DEF Restored, Stands
    <3> QED BY <1>8, <2>1, <3>1, <3>2, <3>3 DEF Covered
  <2> QED BY <2>2, <2>3
<1>13. HidOf(s) = HidOf(r)
  <2>1. \A i \in Covered(r) : i \in 1..c
    BY <1>8, <1>12 DEF Covered
  <2>2. \A i \in Covered(r) : Decls(s)[i] = Decls(r)[i]
    BY <1>10, <2>1
  <2> QED BY <1>12, <2>2, TallySame DEF HidOf
<1>14. /\ DOMAIN marks' = 1..(w - 1) /\ \A m \in 1..(w - 1) : marks'[m] = marks[m] /\ m \in DOMAIN marks
  BY <1>1, <1>4, <1>5, LastLess DEF w
<1>15. /\ saves' \in Seq(S) /\ DOMAIN saves' = 1..(w - 1) /\ \A m \in 1..(w - 1) : saves'[m] = saves[m]
  BY <1>2, <1>4, <1>5
<1> DEFINE f == [m \in 1..(w - 1) |-> SavedOf(s, marks'[m].count)]
<1>16. \A m \in 1..(w - 1) : saves'[m] = SavedOf(s, marks'[m].count)
  <2> TAKE m \in 1..(w - 1)
  <2>1. m \in DOMAIN marks /\ w \in DOMAIN marks /\ m < w /\ m \in 1..w
    BY <1>4, <1>5, <1>14
  <2>2. saves'[m] = SavedOf(r, marks[m].count)
    BY <1>15, <2>1, Zenon DEF Bagged
  <2>3. marks[m].count \in 0..c
    <3>1. marks[m].count \in Nat /\ marks[m].count <= marks[w].count
      BY <1>3, <2>1, MarkFacts DEF MarksOK
    <3> QED BY <1>5, <1>6, <3>1 DEF c
  <2>4. SavedOf(s, marks[m].count) = SavedOf(r, marks[m].count)
    BY <1>6, <1>9, <2>3, SavedSame
  <2> QED BY <1>14, <2>2, <2>4
<1>17. f = [m \in 1..(w - 1) |-> f[m]] /\ \A m \in 1..(w - 1) : saves'[m] = f[m]
  BY <1>16
<1>18. w - 1 \in Nat BY <1>4, <1>5
<1> HIDE DEF f
<1>19. saves' = f BY <1>15, <1>17, <1>18, SeqIs
<1>20. seen' = SeenOf(s) BY <1>2, <1>4, <1>10, <1>11
<1> QED BY <1>1, <1>2, <1>13, <1>14, <1>19, <1>20, Zenon DEF Bagged, f

\* A compaction keeps the bag, of copies of what stands; nothing is hidden then.
LEMMA CompactedBags ==
  ASSUME NEW r, Sound(r), r.placed, ~r.hidden
  PROVE  LET s == Compacted(r) IN SeenOf(s) = SeenOf(r) /\ Covered(s) = {} /\ Covered(r) = {}
<1> DEFINE s == Compacted(r)
           h == Copied(r)
           I == Shown(r)
           J == Shown(s)
<1>1. Sound(s) /\ Copies(r, s, h) BY CompactedSound
<1> HIDE DEF s, h
<1>2. r \in Rosters /\ s \in Rosters BY <1>1 DEF Sound
<1>3. /\ Enum(h, {i \in DOMAIN r.log : Stands(r.log[i])}) /\ DOMAIN s.log = DOMAIN h
      /\ s.hidden = r.hidden /\ s.end = r.end
      /\ \A p \in DOMAIN h : /\ s.log[p].key = r.log[h[p]].key /\ s.log[p].start = r.log[h[p]].start
                             /\ s.log[p].back = r.log[h[p]].back /\ Stands(s.log[p])
  BY <1>1 DEF Copies
<1>4. I = {i \in DOMAIN r.log : Stands(r.log[i])} /\ J = DOMAIN h /\ Covered(s) = {} /\ Covered(r) = {}
  BY <1>3, Zenon DEF Shown, Covered
<1>5. IsFiniteSet(J) BY <1>2, DeclFields
<1>6. /\ h \in [J -> I] /\ (\A i \in I : \E j \in J : h[j] = i) /\ (\A j, m \in J : h[j] = h[m] => j = m)
  <2>1. h \in Seq(Nat) /\ (\A p \in J : h[p] \in I)
        /\ (\A i \in I : \E j \in J : h[j] = i) /\ (\A j, m \in J : h[j] = h[m] => j = m)
    BY <1>3, <1>4 DEF Enum
  <2>2. h = [p \in DOMAIN h |-> h[p]] BY <2>1
  <2> QED BY <1>4, <2>1, <2>2
<1>7. ASSUME NEW j \in J PROVE Decls(s)[j] = Decls(r)[h[j]]
  <2>1. j \in DOMAIN s.log /\ j \in DOMAIN h /\ h[j] \in DOMAIN r.log
    BY <1>3, <1>4, <1>6
  <2>2. TextStart(s, j) = TextStart(r, h[j]) /\ s.log[j].key = r.log[h[j]].key
    BY <1>3, <2>1 DEF TextStart
  <2> QED BY <2>1, <2>2 DEF Decls
<1> DEFINE w == Decls(r)
           v == Decls(s)
<1>8. \A j \in J : v[j] = w[h[j]] BY <1>7
<1> HIDE DEF I, J, w, v
<1>9. Tally(v, J) = Tally(w, I)
  BY <1>5, <1>6, <1>8, TallyRenamed
<1> QED BY <1>4, <1>9 DEF SeenOf, I, J, w, v, s

\* A parse that compacts it leaves the bags.
LEMMA CompactBags ==
  ASSUME IInv, Bagged, Compact, UNCHANGED labels
  PROVE  Bagged'
<1> DEFINE r == roster
<1>1. /\ edit.phase = "idle" /\ r.placed /\ roster' \in {Compacted(r), Pruned(r)} /\ marks' = marks
  BY DEF Compact
<1>2. Sound(r) /\ ~r.hidden /\ marks = << >>
  BY <1>1 DEF IInv, EditOK, MarksOK
<1>3. seen' = seen /\ hid' = hid /\ saves' = saves
  BY DEF labels
<1>4. [m \in DOMAIN marks |-> SavedOf(roster', marks[m].count)] = [m \in DOMAIN marks |-> SavedOf(roster, marks[m].count)]
  BY <1>2, NoSaves
<1>5. SeenOf(roster') = SeenOf(r) /\ HidOf(roster') = HidOf(r)
  <2>1. CASE roster' = Pruned(r)
    BY <1>1, <1>2, <2>1, PrunedIs
  <2>2. CASE roster' = Compacted(r)
    <3>1. SeenOf(roster') = SeenOf(r) /\ Covered(roster') = {} /\ Covered(r) = {}
      BY <1>1, <1>2, <2>2, CompactedBags
    <3> QED BY <3>1, TallyNone DEF HidOf
  <2> QED BY <1>1, <2>1, <2>2
<1> QED BY <1>1, <1>3, <1>4, <1>5 DEF Bagged

Restocked(r, s, place, delta) ==
  /\ SeenOf(s) = SeenOf(r) (+) L!Shifted(L!From(HidOf(r), place), delta)
  /\ Covered(s) = {}
  /\ Shown(s) = Shown(r) \cup {i \in Covered(r) : TextStart(r, i) >= place}

\* What a splice leaves shown is what was, and what it takes back, moved.
LEMMA SplicedBags ==
  ASSUME NEW r, NEW s, r \in Rosters, s \in Rosters, NEW place \in Int, NEW delta \in Int, SplicedWell(r, s, place, delta),
         r.hidden \/ \A d \in Kinds : Backs(r.log, d) = {}
  PROVE  Restocked(r, s, place, delta)
<1> DEFINE w == Decls(r)
           v == Decls(s)
           C == {i \in Covered(r) : TextStart(r, i) >= place}
<1>1. /\ DOMAIN s.log = DOMAIN r.log /\ ~s.hidden /\ s.end = [d \in Kinds |-> r.end[d] + delta]
      /\ \A i \in DOMAIN r.log :
           /\ s.log[i].key = r.log[i].key /\ s.log[i].start = r.log[i].start /\ s.log[i].back = r.log[i].back
           /\ Stands(s.log[i]) <=> Stands(r.log[i]) /\ i \notin Leaving(r, place)
  BY DEF SplicedWell
<1>2. r.log \in Seq(Recs) /\ r.end \in [Kinds -> Int]
  BY RosterFields
<1>3. ASSUME NEW i \in DOMAIN r.log
      PROVE  /\ r.log[i].key \in Keys /\ KindOf[r.log[i].key] \in Kinds /\ Kind(r.log[i]) = KindOf[r.log[i].key]
             /\ r.log[i].start \in Int /\ r.log[i].back \in BOOLEAN /\ r.end[KindOf[r.log[i].key]] \in Int
             /\ TextStart(r, i) \in Int
  <2>1. r.log[i].key \in Keys /\ Kind(r.log[i]) \in Kinds /\ r.log[i].start \in Int /\ r.log[i].back \in BOOLEAN
    BY <1>2, LogFields
  <2>2. TextStart(r, i) \in Int BY DeclFields
  <2> QED BY <1>2, <2>1, <2>2 DEF Kind
<1>4. \A i \in Covered(r) : i \in Leaving(r, place) <=> ~(TextStart(r, i) >= place)
  <2> TAKE i \in Covered(r)
  <2>1. i \in DOMAIN r.log /\ Stands(r.log[i]) /\ r.log[i].back
    BY DEF Covered
  <2>2. TextStart(r, i) = r.end[KindOf[r.log[i].key]] - r.log[i].start
    BY <2>1 DEF TextStart
  <2> QED BY <1>3, <2>1, <2>2 DEF Leaving
<1>5. \A i \in Shown(r) : ~r.log[i].back
  <2>1. CASE r.hidden BY <1>3, <2>1 DEF Shown
  <2>2. CASE \A d \in Kinds : Backs(r.log, d) = {}
    BY <1>3, <2>2 DEF Shown, Backs
  <2> QED BY <2>1, <2>2
<1>6. ASSUME NEW i PROVE i \in Shown(s) <=> i \in Shown(r) \cup C
  <2>1. CASE i \in DOMAIN r.log /\ r.log[i].back
    <3>1. i \in Shown(s) <=> Stands(r.log[i]) /\ i \notin Leaving(r, place)
      BY <1>1, <2>1 DEF Shown
    <3>2. CASE r.hidden
      BY <1>4, <1>5, <2>1, <3>1, <3>2 DEF Covered
    <3>3. CASE \A d \in Kinds : Backs(r.log, d) = {}
      BY <1>3, <1>5, <2>1, <3>1, <3>3 DEF Backs, Covered
    <3> QED BY <3>2, <3>3
  <2>2. CASE i \in DOMAIN r.log /\ ~r.log[i].back
    BY <1>1, <2>2 DEF Shown, Covered, Leaving
  <2>3. CASE i \notin DOMAIN r.log
    BY <1>1, <2>3 DEF Shown, Covered
  <2> QED BY <2>1, <2>2, <2>3
<1>7. Shown(s) = Shown(r) \cup C BY <1>6
<1>8. Covered(s) = {} BY <1>1 DEF Covered
<1>9. IsFiniteSet(Shown(r)) /\ IsFiniteSet(C) /\ Shown(r) \cap C = {}
  <2>1. IsFiniteSet(Shown(r)) /\ IsFiniteSet(Covered(r))
    BY DeclFields
  <2>2. C \subseteq Covered(r) OBVIOUS
  <2>3. IsFiniteSet(C) BY <2>1, <2>2, FS_Subset
  <2>4. Shown(r) \cap C = {} BY DEF Shown, Covered
  <2> QED BY <2>1, <2>3, <2>4
<1>10. \A i \in Shown(r) : v[i] = w[i]
  <2> TAKE i \in Shown(r)
  <2>1. i \in DOMAIN r.log /\ i \in DOMAIN s.log /\ ~r.log[i].back
    BY <1>1, <1>5 DEF Shown
  <2>2. TextStart(s, i) = TextStart(r, i) /\ s.log[i].key = r.log[i].key
    BY <1>1, <2>1 DEF TextStart
  <2> QED BY <2>1, <2>2 DEF Decls
<1>11. \A i \in C : /\ w[i] = L!Declaration(w[i].key, w[i].start) /\ w[i].start \in Int /\ w[i].start = TextStart(r, i)
                    /\ v[i] = L!Declaration(w[i].key, w[i].start + delta)
  <2> TAKE i \in C
  <2>1. i \in DOMAIN r.log /\ i \in DOMAIN s.log /\ r.log[i].back
    BY <1>1 DEF Covered
  <2>2. TextStart(s, i) = TextStart(r, i) + delta /\ s.log[i].key = r.log[i].key
    BY <1>1, <1>3, <2>1 DEF TextStart
  <2>3. w[i].key = r.log[i].key /\ w[i].start = TextStart(r, i) /\ w[i] = L!Declaration(r.log[i].key, TextStart(r, i)) /\ TextStart(r, i) \in Int
    BY <2>1, DeclFields
  <2>4. v[i] = L!Declaration(s.log[i].key, TextStart(s, i))
    BY <2>1, DeclFields
  <2> QED BY <2>2, <2>3, <2>4
<1>12. \A i \in Covered(r) : w[i].start = TextStart(r, i)
  BY DeclFields, Zenon DEF Covered
<1>13. {i \in Covered(r) : w[i].start >= place} = C BY <1>12
<1> HIDE DEF w, v, C
<1>14. Tally(v, Shown(r)) = Tally(w, Shown(r))
  BY <1>10, TallySame
<1>15. L!From(Tally(w, Covered(r)), place) = Tally(w, C)
  <2>1. CutWell(w, Covered(r), place) BY TallyCut
  <2> QED BY <1>13, <2>1, Zenon DEF CutWell
<1>16. L!Shifted(Tally(w, C), delta) = Tally(v, C)
  BY <1>11, TallyMoved
<1>17. Tally(v, Shown(r) \cup C) = Tally(v, Shown(r)) (+) Tally(v, C)
  BY <1>9, TallyBoth
<1>18. SeenOf(s) = SeenOf(r) (+) L!Shifted(L!From(HidOf(r), place), delta)
  BY <1>7, <1>14, <1>15, <1>16, <1>17 DEF SeenOf, HidOf, w, v
<1> QED BY <1>7, <1>8, <1>18 DEF C, Restocked

\* Where the old text is taken back, what the edit hid from there on is shown again.
LEMMA SpliceBags ==
  ASSUME IInv, Bagged, NEW old \in 0..MaxSize, Splice(old), L!Splice(old, edit.delta)
  PROVE  Bagged'
<1> DEFINE r == roster
           s == Spliced(roster, old, edit.delta)
<1>1. marks = << >> /\ r.hidden /\ roster' = s /\ marks' = marks
  BY DEF Splice
<1>2. Sound(s) /\ SplicedWell(r, s, old, edit.delta)
  BY SpliceIs
<1> HIDE DEF s
<1>3. r \in Rosters /\ s \in Rosters /\ edit.delta \in Int /\ old \in Int
  BY <1>2, TypesOf DEF Sound
<1>9. Restocked(r, s, old, edit.delta)
  BY <1>1, <1>2, <1>3, SplicedBags
<1>4. /\ SeenOf(s) = SeenOf(r) (+) L!Shifted(L!From(HidOf(r), old), edit.delta)
      /\ Covered(s) = {}
  BY <1>9 DEF Restocked
<1>5. /\ seen' = seen (+) L!Shifted(L!From(hid, old), edit.delta) /\ hid' = EmptyBag /\ saves' = saves
  BY LabelCalls
<1>6. [m \in DOMAIN marks |-> SavedOf(s, marks[m].count)] = [m \in DOMAIN marks |-> SavedOf(r, marks[m].count)]
  BY <1>1, NoSaves
<1>7. HidOf(s) = EmptyBag BY <1>4, TallyNone DEF HidOf
<1> QED BY <1>1, <1>4, <1>5, <1>6, <1>7 DEF Bagged

\* Taking the old text back from past its end takes nothing back.
LEMMA WholeBags ==
  ASSUME NEW r, Sound(r), Settled(r), Counted(r), r.placed, NEW limit \in Int, Within(r, limit),
         \A d \in Kinds : r.end[d] <= MaxSize \/ r.back[d] = << >>,
         r.hidden \/ \A d \in Kinds : r.back[d] = << >>
  PROVE  LET s == Spliced(r, MaxSize + 1, 0)
         IN /\ SeenOf(s) = SeenOf(r) /\ SeenOf(r) = SeenOf(r) (+) L!Shifted(L!From(HidOf(r), MaxSize + 1), 0)
            /\ Covered(s) = {} /\ Shown(s) = Shown(r)
<1> DEFINE s == Spliced(r, MaxSize + 1, 0)
           C == {i \in Covered(r) : TextStart(r, i) >= MaxSize + 1}
<1>1. Sound(s) /\ SplicedWell(r, s, MaxSize + 1, 0)
  BY WholeSpliced
<1> HIDE DEF s
<1>2. r \in Rosters /\ s \in Rosters /\ MaxSize + 1 \in Int /\ 0 \in Int /\ Placed(r) /\ MaxSize \in Nat
  BY <1>1, RosterAssumption DEF Sound
<1>3. \A d \in Kinds : r.back[d] = << >> => Backs(r.log, d) = {}
  BY <1>2 DEF Placed, Sits
<1>4. r.hidden \/ \A d \in Kinds : Backs(r.log, d) = {}
  BY <1>3
<1>9. Restocked(r, s, MaxSize + 1, 0)
  BY <1>1, <1>2, <1>4, SplicedBags
<1>5. /\ SeenOf(s) = SeenOf(r) (+) L!Shifted(L!From(HidOf(r), MaxSize + 1), 0)
      /\ Covered(s) = {} /\ Shown(s) = Shown(r) \cup C
  BY <1>9 DEF Restocked
<1>6. C = {}
  <2> SUFFICES ASSUME NEW i \in Covered(r), TextStart(r, i) >= MaxSize + 1 PROVE FALSE
    OBVIOUS
  <2>1. i \in DOMAIN r.log /\ Stands(r.log[i]) /\ r.log[i].back
    BY DEF Covered
  <2> DEFINE d == Kind(r.log[i])
  <2>2. d \in Kinds /\ r.log[i].start \in Int /\ r.end[d] \in Int /\ 0 <= r.log[i].start
    BY <1>2, <2>1, RosterFields, LogFields DEF Within
  <2>3. TextStart(r, i) = r.end[d] - r.log[i].start
    BY <2>1 DEF TextStart, Kind
  <2>4. i \in Backs(r.log, d) BY <2>1 DEF Backs
  <2> HIDE DEF d
  <2>5. r.end[d] <= MaxSize BY <1>3, <2>2, <2>4
  <2> QED BY <1>2, <2>2, <2>3, <2>5
<1>7. Shown(s) = Shown(r) BY <1>5, <1>6
<1>8. SeenOf(s) = SeenOf(r)
  <2>1. Covered(r) \subseteq DOMAIN r.log BY DEF Covered
  <2>2. \A i \in Covered(r) : Decls(r)[i].start = TextStart(r, i)
    BY <1>2, <2>1, DeclFields
  <2>4. \A i \in Shown(r) : Decls(s)[i] = Decls(r)[i]
    <3> TAKE i \in Shown(r)
    <3>1. i \in Shown(s) /\ i \in DOMAIN s.log /\ i \in DOMAIN r.log
      BY <1>7 DEF Shown
    <3>2. ~r.log[i].back
      <4>1. CASE r.hidden BY <4>1 DEF Shown
      <4>2. CASE \A d \in Kinds : Backs(r.log, d) = {}
        <5>1. Kind(r.log[i]) \in Kinds /\ Stands(r.log[i])
          BY <1>2, <3>1, RosterFields, LogFields DEF Shown
        <5> QED BY <3>1, <4>2, <5>1 DEF Backs
      <4> QED BY <1>4, <4>1, <4>2
    <3>3. s.log[i].start = r.log[i].start /\ ~s.log[i].back /\ s.log[i].key = r.log[i].key
      BY <1>1, <3>1, <3>2 DEF SplicedWell
    <3>4. TextStart(s, i) = TextStart(r, i)
      BY <3>2, <3>3 DEF TextStart
    <3> QED BY <3>1, <3>3, <3>4 DEF Decls
  <2> QED BY <1>7, <2>4, TallySame DEF SeenOf
<1> QED BY <1>5, <1>7, <1>8 DEF s

\* The flush of a reading that took nothing back lets go what the edit hid; that of another leaves
\* the bags.
LEMMA FlushBags ==
  ASSUME IInv, Bagged, Flush, IF edit.phase = "reading" THEN L!Splice(MaxSize + 1, 0) ELSE UNCHANGED labels
  PROVE  Bagged'
<1> DEFINE r == roster
           s == Spliced(roster, MaxSize + 1, 0)
<1>1. edit.phase \in {"stream", "reading", "resumed"} /\ marks = << >> /\ marks' = marks
  BY DEF Flush
<1>2. [m \in DOMAIN marks |-> SavedOf(roster', marks[m].count)] = [m \in DOMAIN marks |-> SavedOf(r, marks[m].count)]
  BY <1>1, NoSaves
<1>3. CASE edit.phase # "reading"
  <2>1. roster' = r BY <1>1, <1>3 DEF Flush
  <2>2. seen' = seen /\ hid' = hid /\ saves' = saves
    BY <1>3 DEF labels
  <2> QED BY <1>1, <2>1, <2>2 DEF Bagged
<1>4. CASE edit.phase = "reading"
  <2>1. roster' = s BY <1>4 DEF Flush
  <2>2. /\ Sound(r) /\ Settled(r) /\ Counted(r) /\ Within(r, Limit) /\ EditOK /\ Limit \in Int
        /\ size \in 0..MaxSize /\ MaxSize \in Nat
    BY TypesOf DEF IInv, EditOK
  <2>3. r.placed /\ (\A d \in Kinds : r.end[d] = size) /\ (r.hidden \/ \A d \in Kinds : r.back[d] = << >>)
    BY <1>4, <2>2 DEF EditOK
  <2>4. \A d \in Kinds : r.end[d] <= MaxSize \/ r.back[d] = << >>
    BY <2>2, <2>3
  <2>5. /\ SeenOf(s) = SeenOf(r) /\ SeenOf(r) = SeenOf(r) (+) L!Shifted(L!From(HidOf(r), MaxSize + 1), 0)
        /\ Covered(s) = {}
    BY <2>2, <2>3, <2>4, WholeBags
  <2> HIDE DEF s
  <2>6. /\ seen' = seen (+) L!Shifted(L!From(hid, MaxSize + 1), 0) /\ hid' = EmptyBag /\ saves' = saves
    BY <1>4, LabelCalls, Zenon
  <2>7. HidOf(s) = EmptyBag BY <2>5, TallyNone DEF HidOf
  <2> QED BY <1>1, <1>2, <2>1, <2>5, <2>6, <2>7 DEF Bagged
<1> QED BY <1>3, <1>4

\* What a reopen at `place' shows of the labels of r, and what it hides.
Hides(r, s, place) ==
  /\ SeenOf(s) = L!Before(SeenOf(r), place) /\ HidOf(s) = L!From(SeenOf(r), place)
  /\ s.lost = {} /\ \A i \in DOMAIN s.log : Stands(s.log[i]) /\ ~s.log[i].back => s.log[i].start < place
  /\ \A k \in Keys : (\E i \in DOMAIN s.log : Stands(s.log[i]) /\ s.log[i].key = k) <=> L!Starts(SeenOf(r), k) # {}

\* The move of a reopen hides what starts at its place or after, each where it started.
LEMMA MovedBags ==
  ASSUME NEW r, NEW length \in Int, Fit(r, length), NEW place \in Int
  PROVE  Hides(r, Moved(r, place, length), place)
<1> DEFINE s == Moved(r, place, length)
           U == Turned(r, place, length)
           w == Decls(r)
           v == Decls(s)
           I == {i \in Shown(r) : TextStart(r, i) < place}
           J == {i \in Shown(r) : TextStart(r, i) >= place}
<1>1. Sound(r) /\ r.placed /\ ~r.hidden /\ r \in Rosters /\ Placed(r) /\ \A d \in Kinds : r.back[d] # << >> => r.end[d] = length
  BY DEF Fit, Sound
<1>2. Sound(s) /\ s.log = Follows(r, place, length) /\ s.hidden /\ s.end = [d \in Kinds |-> length] /\ s.lost = {}
  <2> DEFINE t == Moved(r, place, length)
  <2>1. /\ Sound(t) /\ t.log = Follows(r, place, length) /\ t.cursor = r.cursor
        /\ t.placed /\ t.hidden /\ t.end = [d \in Kinds |-> length] /\ t.dead = r.dead /\ t.lost = {}
    <3> HIDE DEF U, w, v, I, J, s
    <3> QED BY <1>1, MovedSound, Zenon
  <2> HIDE DEF t
  <2>2. s = t BY DEF t
  <2> QED BY <2>1, <2>2
<1> HIDE DEF s
<1>3. FollowedBy(r.log, s.log, U, length)
  <2>1. FollowedBy(r.log, Follows(r, place, length), U, length)
    BY <1>1, FollowsFields, Zenon
  <2>2. s.log = Follows(r, place, length) BY <1>2, Zenon
  <2> HIDE DEF U, w, v, I, J
  <2> QED BY <2>1, <2>2, Zenon
<1>4. /\ DOMAIN s.log = DOMAIN r.log
      /\ \A i \in DOMAIN r.log :
           /\ s.log[i].key = r.log[i].key /\ (Stands(s.log[i]) <=> Stands(r.log[i]))
           /\ s.log[i].start = IF i \in U THEN length - r.log[i].start ELSE r.log[i].start
           /\ s.log[i].back <=> IF i \in U THEN ~r.log[i].back ELSE r.log[i].back
  <2> HIDE DEF U, w, v, I, J
  <2> QED BY <1>3, Zenon DEF FollowedBy, Stands
<1>5. ASSUME NEW i \in DOMAIN r.log, Stands(r.log[i])
      PROVE  /\ TextStart(s, i) = TextStart(r, i) /\ TextStart(r, i) \in Int
             /\ s.log[i].back <=> ~(TextStart(r, i) < place)
  <2> DEFINE d == Kind(r.log[i])
  <2>1. d \in Kinds /\ r.log[i].start \in Int /\ r.log[i].back \in BOOLEAN /\ r.end[d] \in Int /\ d = KindOf[r.log[i].key]
    BY <1>1, RosterFields, LogFields DEF Kind
  <2>2. r.log[i].back => r.end[d] = length
    <3>1. r.log[i].back => i \in Backs(r.log, d)
      BY <1>5 DEF Backs
    <3>2. i \in Backs(r.log, d) => r.back[d] # << >>
      BY <1>1, <2>1 DEF Placed, Sits
    <3> QED BY <1>1, <2>1, <3>1, <3>2
  <2>3. s.end[d] = length /\ KindOf[s.log[i].key] = d
    BY <1>2, <1>4, <2>1
  <2>4. i \in U <=> IF r.log[i].back THEN length - r.log[i].start < place ELSE r.log[i].start >= place
    BY <1>5 DEF Turned
  <2> HIDE DEF d, U
  <2>5. TextStart(r, i) = IF r.log[i].back THEN length - r.log[i].start ELSE r.log[i].start
    BY <2>1, <2>2 DEF TextStart
  <2>6. TextStart(s, i) = IF s.log[i].back THEN length - s.log[i].start ELSE s.log[i].start
    BY <2>3 DEF TextStart
  <2> QED BY <1>4, <2>1, <2>4, <2>5, <2>6
<1>6. Shown(r) = {i \in DOMAIN r.log : Stands(r.log[i])}
  BY <1>1 DEF Shown
<1>7. Shown(s) = I /\ Covered(s) = J
  BY <1>2, <1>4, <1>5, <1>6 DEF Shown, Covered
<1>8. \A i \in Shown(r) : v[i] = w[i] /\ w[i].start = TextStart(r, i)
  <2> TAKE i \in Shown(r)
  <2>1. i \in DOMAIN r.log /\ i \in DOMAIN s.log /\ Stands(r.log[i])
    BY <1>4, <1>6
  <2>2. TextStart(s, i) = TextStart(r, i) /\ s.log[i].key = r.log[i].key
    BY <1>4, <1>5, <2>1
  <2>3. w[i].start = TextStart(r, i)
    BY <1>1, <2>1, DeclFields
  <2>4. v[i] = w[i] BY <2>1, <2>2 DEF Decls
  <2> QED BY <2>3, <2>4
<1>14. \A i \in DOMAIN s.log : Stands(s.log[i]) /\ ~s.log[i].back => s.log[i].start < place
  <2> TAKE i \in DOMAIN s.log
  <2> HAVE Stands(s.log[i]) /\ ~s.log[i].back
  <2>1. TextStart(s, i) = s.log[i].start BY DEF TextStart
  <2>2. TextStart(s, i) = TextStart(r, i) /\ TextStart(r, i) < place
    BY <1>4, <1>5
  <2> QED BY <2>1, <2>2
<1>15. ASSUME NEW k \in Keys
       PROVE  (\E i \in DOMAIN s.log : Stands(s.log[i]) /\ s.log[i].key = k) <=> L!Starts(SeenOf(r), k) # {}
  <2>1. L!Starts(SeenOf(r), k) = {TextStart(r, i) : i \in {j \in Shown(r) : r.log[j].key = k}}
    BY <1>1, StartsAre
  <2>2. L!Starts(SeenOf(r), k) # {} <=> \E i \in Shown(r) : r.log[i].key = k
    BY <2>1
  <2>3. (\E i \in DOMAIN s.log : Stands(s.log[i]) /\ s.log[i].key = k) <=> \E i \in Shown(r) : r.log[i].key = k
    BY <1>4, <1>6
  <2> QED BY <2>2, <2>3
<1>9. I = {i \in Shown(r) : w[i].start < place} /\ J = {i \in Shown(r) : w[i].start >= place}
  BY <1>8
<1>10. (\A i \in I : v[i] = w[i]) /\ \A i \in J : v[i] = w[i]
  BY <1>8
<1> HIDE DEF w, v, I, J
<1>11. CutWell(w, Shown(r), place) BY TallyCut
<1>12. L!Before(Tally(w, Shown(r)), place) = Tally(w, I) /\ L!From(Tally(w, Shown(r)), place) = Tally(w, J)
  BY <1>9, <1>11 DEF CutWell
<1>13. Tally(v, I) = Tally(w, I) /\ Tally(v, J) = Tally(w, J)
  BY <1>10, TallySame
<1> QED
  <2>1. SeenOf(s) = L!Before(SeenOf(r), place) /\ HidOf(s) = L!From(SeenOf(r), place)
    BY <1>7, <1>12, <1>13 DEF SeenOf, HidOf, w, v
  <2> QED BY <1>2, <1>14, <1>15, <2>1 DEF Hides, s

\* A roster with the same records, seen and hidden alike, stands for the same bags.
LEMMA SameBags ==
  ASSUME NEW r, NEW s, s.log = r.log, s.hidden = r.hidden, s.end = r.end
  PROVE  SeenOf(s) = SeenOf(r) /\ HidOf(s) = HidOf(r) /\ Shown(s) = Shown(r)
<1>1. Shown(s) = Shown(r) /\ Covered(s) = Covered(r) /\ Decls(s) = Decls(r)
  BY DEF Shown, Covered, Decls, TextStart
<1> QED BY <1>1 DEF SeenOf, HidOf

\* What a reopen hides, of a roster not yet placed, or with too many dead, too.
LEMMA ReopenedBags ==
  ASSUME NEW r, Sound(r), Settled(r), ~r.hidden, NEW length \in Int, Within(r, length),
         Counted(r),
         \A d \in Kinds : r.back[d] # << >> => r.end[d] = length,
         NEW place \in Int
  PROVE  Hides(r, Reopened(r, place, length), place)
<1> DEFINE placed == IF r.placed THEN r ELSE S_place(r)
           kept == IF placed.dead > Len(placed.log) - placed.dead + Slack THEN Compacted(placed) ELSE placed
           s == Reopened(r, place, length)
<1>1. Fit(placed, length) /\ SeenOf(placed) = SeenOf(r)
  <2>1. CASE r.placed BY <2>1 DEF Fit
  <2>2. CASE ~r.placed
    <3> DEFINE t == S_place(r)
    <3>1. Fit(t, length) BY <2>2, PlacedFit
    <3>2. t.log = r.log /\ t.hidden = r.hidden /\ t.end = r.end
      BY <2>2, PlaceSound
    <3> HIDE DEF t
    <3>3. SeenOf(t) = SeenOf(r) BY <3>2, SameBags
    <3> QED BY <2>2, <3>1, <3>3 DEF t
  <2> QED BY <2>1, <2>2
<1>2. Fit(kept, length) /\ SeenOf(kept) = SeenOf(r)
  <2> HIDE DEF placed
  <2>1. Fit(Compacted(placed), length) BY <1>1, CompactedFit
  <2>2. SeenOf(Compacted(placed)) = SeenOf(placed)
    <3>1. Sound(placed) /\ placed.placed /\ ~placed.hidden
      BY <1>1 DEF Fit
    <3> QED BY <3>1, CompactedBags
  <2> QED BY <1>1, <2>1, <2>2
<1>3. s = Moved(kept, place, length) BY DEF Reopened, Moved
<1> HIDE DEF kept, placed, s
<1>4. Hides(kept, Moved(kept, place, length), place)
  BY <1>2, MovedBags
<1>5. Hides(r, s, place) BY <1>2, <1>3, <1>4 DEF Hides
<1> QED BY <1>5 DEF s

\* An edit reads with what starts from its place on hidden, or gone when it reads the whole text.
LEMMA ReopenBags ==
  ASSUME IInv, Bagged, NEW from \in 0..MaxSize, NEW to \in 0..MaxSize, NEW delta \in (-MaxSize)..MaxSize, NEW whole \in BOOLEAN,
         Reopen(from, to, delta, whole), L!Reopen(from, whole)
  PROVE  Bagged'
<1> DEFINE r == roster
           s == Reopened(roster, from, size)
           t == Spliced(s, MaxSize + 1, 0)
<1>1. /\ edit.phase = "idle" /\ from <= to /\ to <= size
      /\ roster' = (IF whole THEN t ELSE s) /\ marks' = marks
  BY DEF Reopen
<1>2. /\ Sound(r) /\ Settled(r) /\ Counted(r) /\ Within(r, size) /\ EditOK /\ MarksOK
      /\ size \in Int /\ size \in Nat /\ size <= MaxSize /\ ~r.hidden /\ MaxSize \in Nat
  BY <1>1, TypesOf DEF IInv, EditOK, Limit
<1>3. from \in Int /\ from <= size BY <1>1, <1>2
<1>4. \A d \in Kinds : r.back[d] # << >> => r.end[d] = size
  BY <1>1, <1>2 DEF EditOK
<1>5. /\ Sound(s) /\ Settled(s) /\ s.placed /\ s.hidden /\ s.end = [d \in Kinds |-> size]
      /\ Counted(s) /\ Within(s, from)
  BY <1>2, <1>3, <1>4, ReopenedSound, Zenon
<1>6. Hides(r, s, from) BY <1>2, <1>3, <1>4, ReopenedBags
<1> HIDE DEF s
<1>7. SeenOf(s) = L!Before(seen, from) /\ HidOf(s) = L!From(seen, from)
  BY <1>6 DEF Hides, Bagged
<1>8. seen' = L!Before(seen, from) /\ hid' = (IF whole THEN EmptyBag ELSE L!From(seen, from)) /\ saves' = saves
  BY DEF L!Reopen, L!EmptyBag, EmptyBag, L!SetToBag, SetToBag
<1>9. marks = << >> BY <1>1, <1>2 DEF MarksOK
<1>10. [m \in DOMAIN marks |-> SavedOf(roster', marks[m].count)] = [m \in DOMAIN marks |-> SavedOf(r, marks[m].count)]
  BY <1>9, NoSaves
<1>11. SeenOf(roster') = seen' /\ HidOf(roster') = hid'
  <2>1. CASE ~whole BY <1>1, <1>7, <1>8, <2>1
  <2>2. CASE whole
    <3>1. \A d \in Kinds : s.end[d] <= MaxSize \/ s.back[d] = << >>
      BY <1>2, <1>5
    <3>2. SeenOf(t) = SeenOf(s) /\ Covered(t) = {}
      BY <1>3, <1>5, <3>1, WholeBags
    <3>3. HidOf(t) = EmptyBag BY <3>2, TallyNone DEF HidOf
    <3> HIDE DEF t
    <3> QED BY <1>1, <1>7, <1>8, <2>2, <3>2, <3>3 DEF t
  <2> QED BY <2>1, <2>2
<1> QED BY <1>1, <1>8, <1>10, <1>11 DEF Bagged

\* A roster just made stands for no declaration.
LEMMA InitBags == BothInit => Bagged
<1> SUFFICES ASSUME BothInit PROVE Bagged OBVIOUS
<1>1. roster.log = << >> /\ marks = << >>
  BY DEF BothInit, Init
<1>2. seen = EmptyBag /\ hid = EmptyBag /\ saves = << >>
  BY DEF BothInit, L!Init, L!EmptyBag, EmptyBag, L!SetToBag, SetToBag
<1>3. Shown(roster) = {} /\ Covered(roster) = {}
  BY <1>1 DEF Shown, Covered
<1>4. SeenOf(roster) = EmptyBag /\ HidOf(roster) = EmptyBag
  BY <1>3, TallyNone DEF SeenOf, HidOf
<1>5. saves = [m \in DOMAIN marks |-> SavedOf(roster, marks[m].count)]
  <2>1. DOMAIN marks = {} /\ DOMAIN saves = {} BY <1>1, <1>2
  <2>2. saves = [m \in DOMAIN saves |-> saves[m]] BY <1>2
  <2> QED BY <2>1, <2>2
<1> QED BY <1>2, <1>4, <1>5 DEF Bagged

\* Every call of both keeps the bags.
LEMMA BothBags == IInv /\ Bagged /\ BothNext => Bagged'
<1> SUFFICES ASSUME IInv, Bagged, BothNext PROVE Bagged'
  OBVIOUS
<1>1. CASE \E k \in Keys, s \in 0..MaxSize : Declare(k, s) /\ L!Declare(k, s)
  BY <1>1, DeclareBags
<1>2. CASE \E k \in Keys, s \in 0..MaxSize : Withdraw(k, s) /\ L!Withdraw(k, s)
  BY <1>2, WithdrawBags
<1>3. CASE Mark /\ L!Mark BY <1>3, MarkBags
<1>4. CASE Rollback /\ L!Rollback BY <1>4, RollbackBags
<1>5. CASE \E k \in Keys : Find(k) /\ UNCHANGED labels
  BY <1>5, FindBags
<1>6. CASE Flush /\ IF edit.phase = "reading" THEN L!Splice(MaxSize + 1, 0) ELSE UNCHANGED labels
  BY <1>6, FlushBags
<1>7. CASE \E from, to \in 0..MaxSize, delta \in (-MaxSize)..MaxSize, whole \in BOOLEAN :
             Reopen(from, to, delta, whole) /\ L!Reopen(from, whole)
  BY <1>7, ReopenBags
<1>8. CASE \E old \in 0..MaxSize : Splice(old) /\ L!Splice(old, edit.delta)
  BY <1>8, SpliceBags
<1>9. CASE Altered /\ L!Forget BY <1>9, AlteredBags
<1>10. CASE Compact /\ UNCHANGED labels
  BY <1>10, CompactBags
<1> QED BY <1>1, <1>2, <1>3, <1>4, <1>5, <1>6, <1>7, <1>8, <1>9, <1>10 DEF BothNext

\* A call of both is one of the roster.
LEMMA BothSteps == BothNext => Next
  BY DEF BothNext, Next

\* What the roster and the bags are, of each other, after any calls.
LEMMA BothInvariance == BothSpec => [](IInv /\ Bagged)
<1>1. BothInit => IInv /\ Bagged
  BY InitKeeps, InitBags DEF BothInit
<1>2. IInv /\ Bagged /\ [BothNext]_both => (IInv /\ Bagged)'
  <2> SUFFICES ASSUME IInv, Bagged, [BothNext]_both PROVE IInv' /\ Bagged'
    OBVIOUS
  <2>1. CASE BothNext
    BY <2>1, BothSteps, BothBags, NextKeeps
  <2>2. CASE UNCHANGED both
    <3>1. UNCHANGED vars BY <2>2 DEF both, vars
    <3>2. IInv' BY <3>1, NextKeeps
    <3>3. Bagged' BY <2>2 DEF both, Bagged
    <3> QED BY <3>2, <3>3
  <2> QED BY <2>1, <2>2
<1> QED BY <1>1, <1>2, PTL DEF BothSpec

\* "Undoes everything since": the records that stand are the declarations made and not withdrawn,
\* rolled back or replaced, each where it starts in the text as it now is.
THEOREM RosterDeclarationsStand == BothSpec => []DeclarationsStand
<1>1. IInv /\ Bagged => DeclarationsStand
  BY BaggedStands DEF IInv, Sound
<1> QED BY <1>1, BothInvariance, PTL

-------------------------------------------------------------------------------
(* Lookups.                                                                *)

\* What a lookup answers of a roster whose index of the key's kind is made.
Answers(q, k) == FirstAt(q, k) = IF L!Starts(SeenOf(q), k) = {} THEN None ELSE L!Earliest(L!Starts(SeenOf(q), k))

\* The first of a key's list is the earliest of its declarations a lookup sees: those hidden from
\* it come last.
LEMMA FirstIs ==
  ASSUME NEW q, Sound(q), NEW k \in Keys, ListIs(q, k)
  PROVE  /\ S_first(q, k) = 0 => \A i \in Shown(q) : q.log[i].key # k
         /\ S_first(q, k) # 0 =>
              /\ S_first(q, k) \in Shown(q) /\ q.log[S_first(q, k)].key = k
              /\ \A j \in Shown(q) : q.log[j].key = k => TextStart(q, S_first(q, k)) <= TextStart(q, j)
<1> DEFINE list == q.index[k].list
           n == Len(list)
           i == list[1]
           d == KindOf[k]
<1>1. /\ list \in Seq(Nat) /\ n \in Nat /\ DOMAIN list = 1..n
      /\ \A p \in 1..n : list[p] \in DOMAIN q.log /\ q.log[list[p]].key = k /\ Stands(q.log[list[p]])
      /\ \A j \in DOMAIN q.log : q.log[j].key = k /\ Stands(q.log[j]) => \E p \in 1..n : list[p] = j
      /\ \A p, m \in 1..n : p < m => ~S_precedes(q.log[list[m]], q.log[list[p]])
  BY DEF ListIs
<1>2. q \in Rosters /\ q.log \in Seq(Recs) /\ DOMAIN q.log = 1..Len(q.log) /\ q.hidden \in BOOLEAN /\ Divided(q)
      /\ d \in Kinds /\ q.end[d] \in Int
  BY RosterFields, RosterAssumption DEF Sound
<1>3. S_first(q, k) = IF list = << >> \/ (q.log[i].back /\ q.hidden) THEN 0 ELSE i
  BY DEF S_first
<1> HIDE DEF list, n, i
<1>4. CASE list = << >>
  <2>1. n = 0 BY <1>4 DEF n
  <2>2. \A j \in Shown(q) : q.log[j].key # k
    BY <1>1, <2>1 DEF Shown
  <2> QED BY <1>3, <1>4, <2>2
<1>5. CASE list # << >>
  <2>1. n # 0 /\ 1 \in 1..n /\ i = list[1]
    BY <1>1, <1>5, EmptySeq DEF n, i
  <2>2. i \in DOMAIN q.log /\ q.log[i].key = k /\ Stands(q.log[i]) /\ i # 0
    BY <1>1, <1>2, <2>1
  <2>3. \A j \in DOMAIN q.log : q.log[j].key = k /\ Stands(q.log[j]) => j = i \/ ~S_precedes(q.log[j], q.log[i])
    <3> TAKE j \in DOMAIN q.log
    <3> HAVE q.log[j].key = k /\ Stands(q.log[j])
    <3>1. PICK p \in 1..n : list[p] = j BY <1>1
    <3>2. p = 1 \/ 1 < p BY <1>1
    <3> QED BY <1>1, <2>1, <3>1, <3>2
  <2>4. ASSUME NEW j \in DOMAIN q.log, q.log[j].key = k
        PROVE  q.log[j].start \in Int /\ q.log[j].back \in BOOLEAN /\ Kind(q.log[j]) = d
               /\ TextStart(q, j) = IF q.log[j].back THEN q.end[d] - q.log[j].start ELSE q.log[j].start
    <3>1. q.log[j].start \in Int /\ q.log[j].back \in BOOLEAN
      BY <1>2, LogFields
    <3> QED BY <2>4, <3>1 DEF Kind, TextStart
  <2>5. CASE q.log[i].back /\ q.hidden
    <3>1. \A j \in DOMAIN q.log : q.log[j].key = k /\ Stands(q.log[j]) => q.log[j].back
      BY <2>2, <2>3, <2>4, <2>5, Zenon DEF S_precedes
    <3>2. \A j \in Shown(q) : q.log[j].key # k
      BY <2>5, <3>1 DEF Shown
    <3> QED BY <1>3, <2>5, <3>2
  <2>6. CASE ~(q.log[i].back /\ q.hidden)
    <3>1. S_first(q, k) = i BY <1>3, <1>5, <2>6
    <3>2. i \in Shown(q) BY <2>2, <2>6 DEF Shown
    <3>3. ASSUME NEW j \in Shown(q), q.log[j].key = k PROVE TextStart(q, i) <= TextStart(q, j)
      <4>1. j \in DOMAIN q.log /\ Stands(q.log[j]) /\ ~(q.log[j].back /\ q.hidden)
        BY DEF Shown
      <4>2. j = i \/ ~S_precedes(q.log[j], q.log[i])
        BY <2>3, <3>3, <4>1
      <4>3. CASE q.log[i].back = q.log[j].back
        BY <1>2, <2>2, <2>4, <3>3, <4>1, <4>2, <4>3 DEF S_precedes
      <4>4. CASE q.log[i].back # q.log[j].back
        <5>1. ~q.log[i].back /\ q.log[j].back /\ ~q.hidden
          BY <2>2, <2>4, <3>3, <4>1, <4>2, <4>4 DEF S_precedes
        <5>2. i \in Fronts(q.log, d) /\ j \in Backs(q.log, d)
          BY <2>2, <2>4, <3>3, <4>1, <5>1 DEF Fronts, Backs
        <5>3. q.log[i].start <= q.end[d] - q.log[j].start
          BY <1>2, <5>1, <5>2 DEF Divided
        <5> QED BY <2>2, <2>4, <3>3, <4>1, <5>1, <5>3
      <4> QED BY <4>3, <4>4
    <3> QED BY <2>2, <3>1, <3>2, <3>3
  <2> QED BY <2>5, <2>6
<1> QED BY <1>4, <1>5

\* A lookup answers where the earliest declaration it sees starts.
LEMMA AnswersIs ==
  ASSUME NEW q, Sound(q), NEW k \in Keys, ListIs(q, k)
  PROVE  Answers(q, k)
<1> DEFINE i == S_first(q, k)
           S == L!Starts(SeenOf(q), k)
           T == {TextStart(q, j) : j \in {m \in Shown(q) : q.log[m].key = k}}
<1>1. /\ i = 0 => \A j \in Shown(q) : q.log[j].key # k
      /\ i # 0 => /\ i \in Shown(q) /\ q.log[i].key = k
                  /\ \A j \in Shown(q) : q.log[j].key = k => TextStart(q, i) <= TextStart(q, j)
  BY FirstIs
<1>2. q \in Rosters BY DEF Sound
<1>3. S = T BY <1>2, StartsAre
<1>4. FirstAt(q, k) = IF i = 0 THEN None ELSE TextStart(q, i)
  BY DEF FirstAt
<1> HIDE DEF i, S
<1>5. CASE i = 0
  <2>1. T = {} BY <1>1, <1>5
  <2> QED BY <1>3, <1>4, <1>5, <2>1 DEF Answers, S
<1>6. CASE i # 0
  <2>1. TextStart(q, i) \in T /\ \A t \in T : TextStart(q, i) <= t
    BY <1>1, <1>6
  <2>2. \A t \in T : t \in Int
    BY <1>2, DeclFields, Zenon DEF Shown
  <2> HIDE DEF T
  <2>3. L!Earliest(T) = TextStart(q, i)
    BY <2>1, <2>2, Extremes
  <2>4. S # {} BY <1>3, <2>1
  <2> QED BY <1>3, <1>4, <1>6, <2>3, <2>4 DEF Answers, S
<1> QED BY <1>5, <1>6

\* A sequence with no place is empty.
LEMMA NoneListed ==
  ASSUME NEW S, NEW s \in Seq(S), DOMAIN s = {}
  PROVE  s = << >>
<1>1. DOMAIN s = 1..Len(s) /\ Len(s) \in Nat OBVIOUS
<1>2. Len(s) = 0 BY <1>1
<1> QED BY <1>2, EmptySeq

\* A key with no record of its kind has none in its list, and no declaration either.
LEMMA NoRecords ==
  ASSUME NEW r, Sound(r), NEW k \in Keys, Records(r, KindOf[k]) = 0
  PROVE  Answers(r, k)
<1> DEFINE N == {i \in DOMAIN r.log : KindOf[r.log[i].key] = KindOf[k]}
<1>1. r \in Rosters /\ Indexed(r) /\ DOMAIN r.log = 1..Len(r.log) /\ Len(r.log) \in Nat
  BY RosterFields DEF Sound
<1>2. N = {}
  <2>1. IsFiniteSet(DOMAIN r.log) BY <1>1, FS_Interval
  <2>2. IsFiniteSet(N) BY <2>1, FS_Subset
  <2>3. Cardinality(N) = 0 BY DEF Records
  <2> HIDE DEF N
  <2> QED BY <2>2, <2>3, FS_EmptySet
<1>3. \A i \in DOMAIN r.log : r.log[i].key # k BY <1>2
<1>4. r.index[k].list = << >>
  <2> DEFINE T == {i \in Taken(r) : r.log[i].key = k}
  <2>1. Listing(r.log, r.index[k], T) /\ r.index[k] \in Lists /\ Taken(r) \subseteq DOMAIN r.log
    <3>1. Holds(r, Taken(r)) BY <1>1 DEF Indexed
    <3> QED BY <1>1, <3>1, RosterFields, Zenon DEF Holds
  <2>2. \A p \in DOMAIN r.index[k].list : r.index[k].list[p] \in T
    BY <2>1 DEF Listing
  <2>3. T = {} BY <1>3, <2>1
  <2>4. DOMAIN r.index[k].list = {} /\ r.index[k].list \in Seq(Nat)
    BY <2>1, <2>2, <2>3 DEF Lists
  <2> QED BY <2>4, NoneListed, Zenon
<1>5. FirstAt(r, k) = None BY <1>4 DEF FirstAt, S_first
<1>6. L!Starts(SeenOf(r), k) = {}
  <2>1. L!Starts(SeenOf(r), k) = {TextStart(r, i) : i \in {j \in Shown(r) : r.log[j].key = k}}
    BY <1>1, StartsAre
  <2>2. {j \in Shown(r) : r.log[j].key = k} = {}
    BY <1>3 DEF Shown
  <2> QED BY <2>1, <2>2
<1> QED BY <1>5, <1>6 DEF Answers

\* A lookup answers as the bag does, of a roster at rest.
LEMMA LookupIs ==
  ASSUME NEW r, Sound(r), Settled(r), NEW k \in Keys
  PROVE  Answers(Asked(r, k), k) /\ SeenOf(Asked(r, k)) = SeenOf(r)
<1> DEFINE d == KindOf[k]
           q == Asked(r, k)
<1>1. r \in Rosters /\ Indexed(r) /\ d \in Kinds /\ r.cursor[d] <= Len(r.log)
  BY RosterAssumption DEF Sound, Settled
<1>2. CASE Records(r, d) = 0
  <2>1. q = r BY <1>2 DEF Asked
  <2> QED BY <1>2, <2>1, NoRecords
<1>3. CASE Records(r, d) # 0
  <2>1. q = S_index_space(r, d) BY <1>3 DEF Asked
  <2>2. Reached(r, S_index_space(r, d)) /\ S_index_space(r, d).cursor[d] = Len(r.log)
    BY <1>1, ReachedFirst, ReachedOn
  <2> HIDE DEF q, d
  <2>3. Reached(r, q) /\ q.cursor[d] = Len(r.log)
    BY <2>1, <2>2
  <2>4. Sound(q) BY <2>3, ReachedSound
  <2>5. q \in Rosters /\ Indexed(q) /\ Alike(r, q) /\ q.cursor[KindOf[k]] = Len(q.log)
    BY <2>3 DEF Reached, Alike, d
  <2>6. ListIs(q, k) BY <2>5, ListOf
  <2>7. Answers(q, k) BY <2>4, <2>6, AnswersIs
  <2>8. SeenOf(q) = SeenOf(r) BY <1>1, <2>5, AlikeBags
  <2> QED BY <2>7, <2>8 DEF q
<1> QED BY <1>2, <1>3

\* A lookup finds the earliest, of bags that are tallies of the records.
LEMMA BaggedLookups == IInv /\ Bagged => LookupsFindEarliest
<1> SUFFICES ASSUME IInv, Bagged, NEW k \in Keys PROVE FirstAt(Asked(roster, k), k) = L!Answer(k)
  BY DEF LookupsFindEarliest
<1>1. Answers(Asked(roster, k), k) /\ SeenOf(Asked(roster, k)) = SeenOf(roster)
  BY LookupIs DEF IInv
<1>2. FirstAt(Asked(roster, k), k) = IF L!Starts(seen, k) = {} THEN None ELSE L!Earliest(L!Starts(seen, k))
  BY <1>1 DEF Answers, Bagged
<1>3. L!Answer(k) = IF k \in {e \in Keys : L!Starts(seen, e) # {}} THEN L!Earliest(L!Starts(seen, k)) ELSE None
  BY DEF L!Answer, L!KeysOf
<1> QED BY <1>2, <1>3

\* "The earliest declaration of kind for label that stands and a lookup sees."
THEOREM RosterLookups == BothSpec => []LookupsFindEarliest
  BY BothInvariance, BaggedLookups, PTL

-------------------------------------------------------------------------------
(* What an edit altered.                                                   *)

\* The labels declared as an edit began: those it let go of, and those a declaration still stands
\* of that it did not make, one of the back, or one before the place it reads from.
Olds(r, from) ==
  {k \in Keys : k \in r.lost \/ \E i \in DOMAIN r.log :
                                  Stands(r.log[i]) /\ r.log[i].key = k /\ (r.log[i].back \/ r.log[i].start < from)}

\* What stands lies before a place of the text in the front, and at it or after in the back.
SplitAt(r, place) ==
  \A i \in DOMAIN r.log : Stands(r.log[i]) => IF r.log[i].back THEN TextStart(r, i) >= place ELSE r.log[i].start < place

\* What the phases of an edit keep of it.
EditSeen ==
  /\ edit.phase \in {"reading", "resumed", "read"} => was = Olds(roster, edit.from)
  /\ edit.phase = "reading" => edit.resumed = 0
  /\ edit.phase = "resumed" => edit.resumed # 0
  /\ edit.phase \in {"resumed", "read"} /\ edit.resumed # 0 => SplitAt(roster, edit.resumed)
  /\ edit.phase = "read" /\ edit.resumed = 0 => \A d \in Kinds : Backs(roster.log, d) = {}
  /\ edit.phase \in {"reading", "resumed"} =>
       \A m \in DOMAIN marks : \A i \in DOMAIN roster.log : i > marks[m].count => roster.log[i].start >= edit.from

\* An index made changes none of it.
LEMMA AlikeSeen ==
  ASSUME EditSeen, NEW s, Alike(roster, s), roster' = s, marks' = marks, edit' = edit, was' = was
  PROVE  EditSeen'
<1>1. /\ DOMAIN s.log = DOMAIN roster.log /\ s.lost = roster.lost /\ s.end = roster.end
      /\ \A i \in DOMAIN roster.log : /\ s.log[i].key = roster.log[i].key /\ s.log[i].start = roster.log[i].start
                                      /\ s.log[i].back = roster.log[i].back /\ (Stands(s.log[i]) <=> Stands(roster.log[i]))
  BY DEF Alike, Same, Stands
<1>2. Olds(s, edit.from) = Olds(roster, edit.from)
  BY <1>1 DEF Olds
<1>3. \A i \in DOMAIN roster.log : TextStart(s, i) = TextStart(roster, i)
  BY <1>1 DEF TextStart
<1>4. SplitAt(roster, edit.resumed) => SplitAt(s, edit.resumed)
  BY <1>1, <1>3 DEF SplitAt
<1>5. \A d \in Kinds : Backs(s.log, d) = Backs(roster.log, d)
  BY <1>1 DEF Backs, Kind
<1> QED BY <1>1, <1>2, <1>4, <1>5 DEF EditSeen

\* A declaration is made in what an edit reads.
LEMMA DeclareSeen ==
  ASSUME IInv, EditSeen, NEW k \in Keys, NEW start, Declare(k, start), was' = was
  PROVE  EditSeen'
<1> DEFINE r == roster
           s == Declared(roster, k, start)
           n == Len(roster.log)
           d == KindOf[k]
           x == s.log[n + 1]
<1>1. start \in Open /\ roster' = s /\ marks' = marks /\ edit' = edit
  BY DEF Declare
<1>2. d \in Kinds BY RosterAssumption
<1>3. start \in Int /\ edit.phase \notin {"idle", "read"} /\ (~r.hidden => \A j \in Backs(r.log, d) : start <= r.end[d] - r.log[j].start)
  BY <1>1, <1>2, OpenBefore
<1>4. Sound(r) /\ Settled(r) /\ edit.from \in Nat /\ edit.resumed \in Nat /\ size \in Int /\ edit.delta \in Int
  BY TypesOf DEF IInv
<1>5. /\ Sound(s) /\ Len(s.log) = n + 1 /\ \A i \in 1..n : s.log[i] = r.log[i]
      /\ x = Fresh(k, start, 0) /\ s.end = r.end /\ s.lost = r.lost
  BY <1>3, <1>4, DeclaredSound
<1>6. r \in Rosters /\ s \in Rosters /\ n \in Nat /\ DOMAIN r.log = 1..n /\ DOMAIN s.log = 1..(n + 1)
  BY <1>4, <1>5, RosterFields DEF Sound
<1> HIDE DEF s
<1>7. x.key = k /\ x.start = start /\ ~x.back /\ Stands(x)
  BY <1>3, <1>5, FreshFields
<1> HIDE DEF n, x
<1>8. \A i \in 1..(n + 1) : i \in 1..n \/ i = n + 1 BY <1>6
<1>9. edit.phase \in {"reading", "resumed"} => start >= edit.from
  BY <1>1, <1>4 DEF Open
<1>10. edit.phase = "resumed" => start < edit.resumed
  BY <1>1, <1>4 DEF Open
<1>11. edit.phase \in {"reading", "resumed"} => Olds(s, edit.from) = Olds(r, edit.from)
  <2> SUFFICES ASSUME edit.phase \in {"reading", "resumed"}, NEW e \in Keys PROVE e \in Olds(s, edit.from) <=> e \in Olds(r, edit.from)
    BY DEF Olds
  <2>1. ~(start < edit.from) BY <1>3, <1>4, <1>9
  <2>2. \A i \in 1..n : i \in 1..(n + 1) BY <1>6
  <2> QED BY <1>5, <1>6, <1>7, <1>8, <2>1, <2>2, Zenon DEF Olds, x
<1>12. edit.phase = "resumed" => SplitAt(s, edit.resumed)
  <2> SUFFICES ASSUME edit.phase = "resumed", NEW i \in 1..(n + 1), Stands(s.log[i])
               PROVE  IF s.log[i].back THEN TextStart(s, i) >= edit.resumed ELSE s.log[i].start < edit.resumed
    BY <1>6 DEF SplitAt
  <2>1. SplitAt(r, edit.resumed) BY DEF EditSeen
  <2>2. CASE i = n + 1 BY <1>7, <1>10, <2>2 DEF x
  <2>3. CASE i \in 1..n
    <3>1. s.log[i] = r.log[i] /\ TextStart(s, i) = TextStart(r, i)
      BY <1>5, <2>3 DEF TextStart
    <3> QED BY <1>6, <2>1, <2>3, <3>1 DEF SplitAt
  <2> QED BY <1>8, <2>2, <2>3
<1>13. edit.phase \in {"reading", "resumed"} =>
         \A m \in DOMAIN marks : \A i \in DOMAIN s.log : i > marks[m].count => s.log[i].start >= edit.from
  BY <1>5, <1>6, <1>7, <1>8, <1>9 DEF EditSeen, x
<1> QED BY <1>1, <1>3, <1>11, <1>12, <1>13 DEF EditSeen

\* A mark is of all the log.
LEMMA MarkSeen ==
  ASSUME IInv, EditSeen, Mark, was' = was
  PROVE  EditSeen'
<1> DEFINE n == Len(roster.log)
           w == Len(marks)
           mark == [count |-> n, dead |-> roster.dead]
<1>1. marks' = Append(marks, mark) /\ roster' = roster /\ edit' = edit
  BY DEF Mark
<1>2. roster \in Rosters /\ marks \in Seq(Marks)
  BY DEF IInv, Sound, MarksOK
<1>3. n \in Nat /\ DOMAIN roster.log = 1..n /\ roster.dead \in Int /\ w \in Nat /\ DOMAIN marks = 1..w
  BY <1>2, RosterFields
<1>4. mark \in Marks /\ mark.count = n BY <1>3 DEF Marks
<1> HIDE DEF mark, n
<1>5. /\ DOMAIN marks' = 1..(w + 1) /\ marks'[w + 1] = mark
      /\ \A m \in 1..w : marks'[m] = marks[m]
  BY <1>1, <1>2, <1>3, <1>4
<1> HIDE DEF w
<1>6. \A m \in 1..(w + 1) : m \in 1..w \/ m = w + 1 BY <1>3
<1>7. ASSUME edit.phase \in {"reading", "resumed"}, NEW m \in DOMAIN marks', NEW i \in DOMAIN roster.log, i > marks'[m].count
      PROVE  roster.log[i].start >= edit.from
  <2>1. m # w + 1 BY <1>3, <1>4, <1>5, <1>7
  <2>2. m \in DOMAIN marks /\ marks'[m] = marks[m]
    BY <1>3, <1>5, <1>6, <2>1
  <2> QED BY <1>7, <2>2 DEF EditSeen
<1> QED BY <1>1, <1>7 DEF EditSeen

\* What a rollback takes away the edit made.
LEMMA RollbackSeen ==
  ASSUME IInv, EditSeen, Rollback, was' = was
  PROVE  EditSeen'
<1> DEFINE r == roster
           w == Len(marks)
           mark == Last(marks)
           c == mark.count
           s == RolledBack(roster, mark)
<1>1. marks # << >> /\ roster' = s /\ marks' = Front(marks) /\ edit' = edit
  BY DEF Rollback
<1>2. Sound(r) /\ MarksOK /\ EditOK /\ r \in Rosters /\ edit.phase \notin {"idle", "read"}
  BY <1>1 DEF IInv, Sound, MarksOK
<1>3. marks \in Seq(Marks) /\ w \in Nat /\ DOMAIN marks = 1..w /\ w \in 1..w /\ mark = marks[w] /\ Len(marks) # 0
  <2>1. marks \in Seq(Marks) BY <1>2 DEF MarksOK
  <2>2. Len(marks) # 0 BY <1>1, <2>1, EmptySeq
  <2> QED BY <2>1, <2>2 DEF Last
<1>4. mark \in Marks /\ c \in Nat /\ c <= Len(r.log) /\ Since(r, c)
  <2> HIDE DEF mark
  <2> QED BY <1>3, MarkFacts
<1> HIDE DEF mark, w
<1>5. Sound(s) /\ Restored(r, s, c)
  BY <1>2, <1>4, RolledBackSound
<1> HIDE DEF s, c
<1>6. s \in Rosters /\ DOMAIN r.log = 1..Len(r.log) /\ Len(r.log) \in Nat /\ DOMAIN s.log = 1..c
      /\ edit.from \in Nat /\ \A i \in DOMAIN r.log : r.log[i].start \in Int
  BY <1>2, <1>5, TypesOf, RosterFields, LogFields DEF Sound, Restored
<1>7. /\ s.end = r.end /\ s.lost = r.lost /\ s.placed = r.placed
      /\ \A i \in 1..c : /\ i \in DOMAIN r.log /\ s.log[i].key = r.log[i].key /\ s.log[i].start = r.log[i].start
                         /\ s.log[i].back = r.log[i].back /\ TextStart(s, i) = TextStart(r, i)
  BY <1>5 DEF Restored, TextStart
<1>8. edit.phase \in {"reading", "resumed"} => r.placed
  BY <1>2 DEF EditOK
<1>9. r.placed => \A i \in 1..c : Stands(s.log[i]) <=> Stands(r.log[i])
  <2>1. \A i \in 1..c : Stands(r.log[i]) => Stands(s.log[i])
    BY <1>5 DEF Restored, Stands
  <2> QED BY <1>2, <1>4, <1>5, <2>1, RestoredStands
<1>10. edit.phase \in {"reading", "resumed"} => Olds(s, edit.from) = Olds(r, edit.from)
  <2> SUFFICES ASSUME edit.phase \in {"reading", "resumed"}, NEW e \in Keys PROVE e \in Olds(s, edit.from) <=> e \in Olds(r, edit.from)
    BY DEF Olds
  <2>1. ASSUME NEW i \in DOMAIN r.log, Stands(r.log[i]), r.log[i].back \/ r.log[i].start < edit.from PROVE i \in 1..c
    <3> SUFFICES ASSUME i > c PROVE FALSE BY <1>4, <1>6
    <3>1. ~r.log[i].back BY <1>4 DEF Since
    <3>2. w \in DOMAIN marks /\ c = marks[w].count
      BY <1>3 DEF c
    <3>3. r.log[i].start >= edit.from BY <3>2 DEF EditSeen
    <3> QED BY <1>6, <2>1, <3>1, <3>3
  <2> QED BY <1>6, <1>7, <1>8, <1>9, <2>1, Zenon DEF Olds
<1>11. edit.phase = "resumed" => SplitAt(s, edit.resumed)
  BY <1>6, <1>7, <1>8, <1>9 DEF EditSeen, SplitAt
<1>12. /\ DOMAIN marks' = 1..(w - 1) /\ \A m \in 1..(w - 1) : marks'[m] = marks[m] /\ m \in DOMAIN marks
  BY <1>1, <1>3, LastLess DEF w
<1>13. edit.phase \in {"reading", "resumed"} =>
         \A m \in DOMAIN marks' : \A i \in DOMAIN s.log : i > marks'[m].count => s.log[i].start >= edit.from
  BY <1>6, <1>7, <1>12 DEF EditSeen
<1> QED BY <1>1, <1>2, <1>10, <1>11, <1>13 DEF EditSeen

\* What a splice lets go is counted among the labels the edit let go.
LEMMA SplicedOlds ==
  ASSUME NEW r \in Rosters, NEW s, NEW place, NEW delta, SplicedWell(r, s, place, delta), NEW from
  PROVE  Olds(s, from) = Olds(r, from)
<1> SUFFICES ASSUME NEW k \in Keys PROVE k \in Olds(s, from) <=> k \in Olds(r, from)
  BY DEF Olds
<1>1. /\ DOMAIN s.log = DOMAIN r.log
      /\ \A i \in DOMAIN r.log :
           /\ s.log[i].key = r.log[i].key /\ s.log[i].start = r.log[i].start /\ s.log[i].back = r.log[i].back
           /\ Stands(s.log[i]) <=> Stands(r.log[i]) /\ i \notin Leaving(r, place)
      /\ s.lost = r.lost \cup {r.log[i].key : i \in Leaving(r, place)}
  BY DEF SplicedWell
<1>2. \A i \in Leaving(r, place) : i \in DOMAIN r.log /\ Stands(r.log[i]) /\ r.log[i].back
  BY DEF Leaving
<1>3. ASSUME k \in Olds(s, from) PROVE k \in Olds(r, from)
  <2>1. CASE k \in s.lost
    <3>1. k \in r.lost \/ \E i \in Leaving(r, place) : r.log[i].key = k
      BY <1>1, <2>1
    <3> QED BY <1>2, <3>1 DEF Olds
  <2>2. CASE \E i \in DOMAIN s.log : Stands(s.log[i]) /\ s.log[i].key = k /\ (s.log[i].back \/ s.log[i].start < from)
    BY <1>1, <2>2 DEF Olds
  <2> QED BY <1>3, <2>1, <2>2 DEF Olds
<1>4. ASSUME k \in Olds(r, from) PROVE k \in Olds(s, from)
  <2>1. CASE k \in r.lost BY <1>1, <2>1 DEF Olds
  <2>2. CASE \E i \in DOMAIN r.log : Stands(r.log[i]) /\ r.log[i].key = k /\ (r.log[i].back \/ r.log[i].start < from)
    <3>1. PICK i \in DOMAIN r.log : Stands(r.log[i]) /\ r.log[i].key = k /\ (r.log[i].back \/ r.log[i].start < from)
      BY <2>2
    <3>2. CASE i \in Leaving(r, place)
      BY <1>1, <3>1, <3>2 DEF Olds
    <3>3. CASE i \notin Leaving(r, place)
      BY <1>1, <3>1, <3>3 DEF Olds
    <3> QED BY <3>2, <3>3
  <2> QED BY <1>4, <2>1, <2>2 DEF Olds
<1> QED BY <1>3, <1>4

\* An edit begins with what was declared: what it keeps, and what it hides.
LEMMA ReopenSeen ==
  ASSUME IInv, Bagged, NEW from \in 0..MaxSize, NEW to \in 0..MaxSize, NEW delta \in (-MaxSize)..MaxSize, NEW whole \in BOOLEAN,
         Reopen(from, to, delta, whole), L!Reopen(from, whole)
  PROVE  EditSeen'
<1> DEFINE r == roster
           s == Reopened(roster, from, size)
           t == Spliced(s, MaxSize + 1, 0)
<1>1. /\ edit.phase = "idle" /\ from <= to /\ to <= size
      /\ roster' = (IF whole THEN t ELSE s) /\ marks' = marks
      /\ edit' = [phase |-> "reading", from |-> from, to |-> to, delta |-> delta, resumed |-> 0]
  BY DEF Reopen
<1>2. /\ Sound(r) /\ Settled(r) /\ Counted(r) /\ Within(r, size) /\ EditOK /\ MarksOK
      /\ size \in Int /\ size \in Nat /\ size <= MaxSize /\ ~r.hidden /\ MaxSize \in Nat
  BY <1>1, TypesOf, Zenon DEF IInv, EditOK, Limit
<1>3. from \in Int /\ from <= size BY <1>1, <1>2
<1>4. \A d \in Kinds : r.back[d] # << >> => r.end[d] = size
  BY <1>1, <1>2 DEF EditOK
<1>5. /\ Sound(s) /\ Settled(s) /\ s.placed /\ s.hidden /\ s.end = [d \in Kinds |-> size]
      /\ Counted(s) /\ Within(s, from)
  BY <1>2, <1>3, <1>4, ReopenedSound, Zenon
<1>6. Hides(r, s, from) BY <1>2, <1>3, <1>4, ReopenedBags
<1> HIDE DEF s
<1>7. s \in Rosters /\ s.log \in Seq(Recs)
  BY <1>5, RosterFields DEF Sound
<1>8. Olds(s, from) = was'
  <2>1. was' = L!KeysOf(seen) BY DEF L!Reopen
  <2>2. \A i \in DOMAIN s.log : s.log[i].back \in BOOLEAN
    BY <1>7, LogFields
  <2>3. ASSUME NEW k \in Keys PROVE k \in Olds(s, from) <=> \E i \in DOMAIN s.log : Stands(s.log[i]) /\ s.log[i].key = k
    BY <1>6, <2>2 DEF Hides, Olds
  <2>4. \A k \in Keys : k \in Olds(s, from) <=> L!Starts(seen, k) # {}
    BY <1>6, <2>3 DEF Hides, Bagged
  <2>5. was' = {k \in Keys : L!Starts(seen, k) # {}}
    BY <2>1 DEF L!KeysOf
  <2>6. Olds(s, from) \subseteq Keys BY DEF Olds
  <2> QED BY <2>4, <2>5, <2>6
<1>9. Olds(t, from) = was'
  <2>1. \A d \in Kinds : s.end[d] <= MaxSize \/ s.back[d] = << >>
    BY <1>2, <1>5
  <2>2. SplicedWell(s, t, MaxSize + 1, 0)
    BY <1>3, <1>5, <2>1, WholeSpliced
  <2> QED BY <1>7, <1>8, <2>2, SplicedOlds
<1> HIDE DEF t
<1>10. marks = << >> BY <1>1, <1>2 DEF MarksOK
<1>11. Olds(roster', from) = was' /\ DOMAIN marks' = {}
  BY <1>1, <1>8, <1>9, <1>10
<1> QED BY <1>1, <1>11 DEF EditSeen

\* What starts in the front starts before all that the front's entries do.
LEMMA FrontBefore ==
  ASSUME NEW r, Placed(r), r.placed, NEW d \in Kinds, NEW i \in Fronts(r.log, d), NEW limit,
         \A p \in DOMAIN r.front[d] : r.front[d][p].start < limit
  PROVE  r.log[i].start < limit
<1>1. Sits(r.log, Fronts(r.log, d), r.front[d])
  BY DEF Placed
<1>2. PICK p \in DOMAIN r.front[d] : r.front[d][p].record = i
  BY <1>1 DEF Sits
<1>3. r.log[i].start = r.front[d][p].start
  BY <1>1, <1>2 DEF Sits
<1> QED BY <1>2, <1>3

\* The old text is taken back after all that the edit read.
LEMMA SpliceSeen ==
  ASSUME IInv, EditSeen, NEW old \in 0..MaxSize, Splice(old), was' = was
  PROVE  EditSeen'
<1> DEFINE r == roster
           delta == edit.delta
           s == Spliced(roster, old, edit.delta)
           place == old + edit.delta
<1>1. /\ edit.phase = "reading" /\ marks = << >> /\ place > 0 /\ old \in edit.to..(size - 1)
      /\ \A d \in Kinds : \A p \in DOMAIN r.front[d] : r.front[d][p].start < place
      /\ roster' = s /\ edit' = [edit EXCEPT !.phase = "resumed", !.resumed = place]
      /\ marks' = marks
  BY DEF Splice
<1>2. Sound(s) /\ SplicedWell(r, s, old, delta) BY SpliceIs
<1>3. /\ Sound(r) /\ Placed(r) /\ r \in Rosters /\ edit \in Edits /\ delta \in Int /\ edit.to \in Nat /\ size \in Nat
  BY TypesOf DEF IInv, Sound
<1>4. r.placed BY <1>1 DEF IInv, EditOK
<1>5. old \in Int /\ place \in Nat /\ place # 0
  BY <1>1, <1>3
<1> HIDE DEF s, place, delta
<1>6. edit'.phase = "resumed" /\ edit'.from = edit.from /\ edit'.resumed = place
  BY <1>1, <1>3, <1>5 DEF Edits
<1>7. Olds(s, edit.from) = was'
  BY <1>1, <1>2, <1>3, SplicedOlds DEF EditSeen
<1>8. IInv' BY SpliceKeeps
<1>9. Sound(s) /\ s \in Rosters /\ \A d \in Kinds : \A j \in Backs(s.log, d) : place <= s.end[d] - s.log[j].start
  BY <1>1, <1>2, <1>6, <1>8 DEF Sound, IInv, EditOK
<1>10. SplitAt(s, place)
  <2> SUFFICES ASSUME NEW i \in DOMAIN s.log, Stands(s.log[i])
               PROVE  IF s.log[i].back THEN TextStart(s, i) >= place ELSE s.log[i].start < place
    BY DEF SplitAt
  <2> DEFINE d == Kind(s.log[i])
  <2>1. d \in Kinds /\ s.log[i].start \in Int /\ s.log[i].back \in BOOLEAN /\ s.end[d] \in Int
    BY <1>9, RosterFields, LogFields
  <2>2. CASE s.log[i].back
    <3>1. i \in Backs(s.log, d) /\ TextStart(s, i) = s.end[d] - s.log[i].start
      BY <2>2 DEF Backs, TextStart, Kind
    <3>2. place <= s.end[d] - s.log[i].start
      BY <1>9, <2>1, <3>1
    <3> HIDE DEF d
    <3> QED BY <1>5, <2>1, <2>2, <3>1, <3>2
  <2>3. CASE ~s.log[i].back
    <3>1. /\ i \in DOMAIN r.log /\ Stands(r.log[i]) /\ ~r.log[i].back /\ Kind(r.log[i]) = d
          /\ s.log[i].start = r.log[i].start
      BY <1>2, <2>3 DEF SplicedWell, Kind
    <3>2. i \in Fronts(r.log, d) BY <3>1 DEF Fronts
    <3>3. r.log[i].start < place
      BY <1>1, <1>3, <1>4, <2>1, <3>2, FrontBefore
    <3> QED BY <2>3, <3>1, <3>3
  <2> QED BY <2>1, <2>2, <2>3
<1>11. DOMAIN marks = {} BY <1>1
<1> QED BY <1>1, <1>5, <1>6, <1>7, <1>10, <1>11 DEF EditSeen

\* The flush of a reading that took nothing back lets the whole back go.
LEMMA FlushSeen ==
  ASSUME IInv, EditSeen, Flush, was' = was
  PROVE  EditSeen'
<1> DEFINE r == roster
           s == Spliced(roster, MaxSize + 1, 0)
<1>1. edit.phase \in {"stream", "reading", "resumed"}
  BY DEF Flush
<1>2. edit \in Edits BY TypesOf
<1>3. CASE edit.phase = "stream"
  <2>1. edit'.phase = "idle" BY <1>2, <1>3 DEF Flush, Edits
  <2> QED BY <2>1 DEF EditSeen
<1>4. CASE edit.phase = "resumed"
  <2>1. roster' = r /\ edit'.phase = "read" /\ edit'.from = edit.from /\ edit'.resumed = edit.resumed
    BY <1>2, <1>4 DEF Flush, Edits
  <2> QED BY <1>4, <2>1 DEF EditSeen
<1>5. CASE edit.phase = "reading"
  <2>1. roster' = s /\ edit'.phase = "read" /\ edit'.from = edit.from /\ edit'.resumed = edit.resumed
    BY <1>2, <1>5 DEF Flush, Edits
  <2>2. /\ Sound(r) /\ Settled(r) /\ Counted(r) /\ Within(r, Limit) /\ EditOK /\ Limit \in Int
        /\ size \in 0..MaxSize /\ MaxSize \in Nat /\ r \in Rosters
    BY TypesOf DEF IInv, EditOK, Sound
  <2>3. r.placed /\ \A d \in Kinds : r.end[d] = size
    BY <1>5, <2>2 DEF EditOK
  <2>4. \A d \in Kinds : r.end[d] <= MaxSize \/ r.back[d] = << >>
    BY <2>2, <2>3
  <2>5. Sound(s) /\ s.placed /\ (\A d \in Kinds : s.back[d] = << >>) /\ SplicedWell(r, s, MaxSize + 1, 0)
    BY <2>2, <2>3, <2>4, WholeSpliced
  <2> HIDE DEF s
  <2>6. Olds(s, edit.from) = was
    BY <1>5, <2>2, <2>5, SplicedOlds DEF EditSeen
  <2>7. \A d \in Kinds : Backs(s.log, d) = {}
    BY <2>5 DEF Sound, Placed, Sits
  <2>8. edit.resumed = 0 BY <1>5 DEF EditSeen
  <2> QED BY <2>1, <2>6, <2>7, <2>8 DEF EditSeen
<1> QED BY <1>1, <1>3, <1>4, <1>5

\* Every call of both keeps what the edit altered known.
LEMMA BothSeen == IInv /\ Bagged /\ EditSeen /\ BothNext => EditSeen'
<1> SUFFICES ASSUME IInv, Bagged, EditSeen, BothNext PROVE EditSeen'
  OBVIOUS
<1>1. CASE \E k \in Keys, s \in 0..MaxSize : Declare(k, s) /\ L!Declare(k, s)
  <2>1. PICK k \in Keys, s \in 0..MaxSize : Declare(k, s) /\ L!Declare(k, s)
    BY <1>1
  <2>2. was' = was BY <2>1, LabelCalls
  <2> QED BY <2>1, <2>2, DeclareSeen
<1>2. CASE \E k \in Keys, s \in 0..MaxSize : Withdraw(k, s) /\ L!Withdraw(k, s)
  <2>1. edit.phase = "stream" /\ edit' = edit
    BY <1>2 DEF Withdraw
  <2> QED BY <2>1 DEF EditSeen
<1>3. CASE Mark /\ L!Mark
  <2>1. was' = was BY <1>3 DEF L!Mark
  <2> QED BY <1>3, <2>1, MarkSeen
<1>4. CASE Rollback /\ L!Rollback
  <2>1. was' = was BY <1>4 DEF L!Rollback
  <2> QED BY <1>4, <2>1, RollbackSeen
<1>5. CASE \E k \in Keys : Find(k) /\ UNCHANGED labels
  <2>1. PICK k \in Keys : Find(k) /\ UNCHANGED labels
    BY <1>5
  <2>2. Alike(roster, Asked(roster, k))
    BY AskedSound DEF IInv, Reached
  <2>3. was' = was /\ roster' = Asked(roster, k) /\ marks' = marks /\ edit' = edit
    BY <2>1 DEF labels, Find
  <2> QED BY <2>2, <2>3, AlikeSeen
<1>6. CASE Flush /\ IF edit.phase = "reading" THEN L!Splice(MaxSize + 1, 0) ELSE UNCHANGED labels
  <2>1. was' = was BY <1>6, LabelCalls DEF labels
  <2> QED BY <1>6, <2>1, FlushSeen
<1>7. CASE \E from, to \in 0..MaxSize, delta \in (-MaxSize)..MaxSize, whole \in BOOLEAN :
             Reopen(from, to, delta, whole) /\ L!Reopen(from, whole)
  BY <1>7, ReopenSeen
<1>8. CASE \E old \in 0..MaxSize : Splice(old) /\ L!Splice(old, edit.delta)
  <2>1. PICK old \in 0..MaxSize : Splice(old) /\ L!Splice(old, edit.delta)
    BY <1>8
  <2>2. was' = was BY <2>1, LabelCalls
  <2> QED BY <2>1, <2>2, SpliceSeen
<1>9. CASE Altered /\ L!Forget
  <2>1. edit'.phase = "idle" BY <1>9 DEF Altered, NoEdit
  <2> QED BY <2>1 DEF EditSeen
<1>10. CASE Compact /\ UNCHANGED labels
  <2>1. edit.phase = "idle" /\ edit' = edit
    BY <1>10 DEF Compact
  <2> QED BY <2>1 DEF EditSeen
<1> QED BY <1>1, <1>2, <1>3, <1>4, <1>5, <1>6, <1>7, <1>8, <1>9, <1>10 DEF BothNext

-------------------------------------------------------------------------------
(* What is answered of an edit that was read.                              *)

\* A declaration of the label stands that the edit made, or one that it did not.
MadeNew(r, from, k) == \E i \in DOMAIN r.log : Stands(r.log[i]) /\ r.log[i].key = k /\ ~r.log[i].back /\ r.log[i].start >= from
StillOld(r, from, k) == \E i \in DOMAIN r.log : Stands(r.log[i]) /\ r.log[i].key = k /\ (r.log[i].back \/ r.log[i].start < from)

\* The labels made are those of the front, from where the edit reads on.
LEMMA MadeIs ==
  ASSUME NEW r, Sound(r), r.placed, NEW from, NEW k \in Keys
  PROVE  k \in Made(r, from) <=> k \notin Anchors /\ MadeNew(r, from, k)
<1> DEFINE d == KindOf[k]
           front == r.front[d]
<1>1. d \in Kinds /\ Sits(r.log, Fronts(r.log, d), front)
  <2>1. d \in Kinds BY RosterAssumption
  <2> QED BY <2>1 DEF Sound, Placed
<1>2. k \in Made(r, from) <=>
        k \notin Anchors /\ \E p \in DOMAIN front : /\ front[p].start >= from /\ r.log[front[p].record].key = k
                                                    /\ Stands(r.log[front[p].record])
  BY DEF Made
<1>3. /\ \A p \in DOMAIN front : front[p].record \in Fronts(r.log, d) /\ r.log[front[p].record].start = front[p].start
      /\ \A i \in Fronts(r.log, d) : \E p \in DOMAIN front : front[p].record = i
  BY <1>1 DEF Sits
<1>4. \A i \in DOMAIN r.log : Stands(r.log[i]) /\ r.log[i].key = k /\ ~r.log[i].back => i \in Fronts(r.log, d)
  BY DEF Fronts, Kind
<1>5. \A i \in Fronts(r.log, d) : i \in DOMAIN r.log /\ Stands(r.log[i]) /\ ~r.log[i].back
  BY DEF Fronts
<1> HIDE DEF front, d
<1>6. ASSUME NEW p \in DOMAIN front, front[p].start >= from, r.log[front[p].record].key = k
      PROVE  MadeNew(r, from, k)
  BY <1>3, <1>5, <1>6 DEF MadeNew
<1>7. ASSUME MadeNew(r, from, k)
      PROVE  \E p \in DOMAIN front : /\ front[p].start >= from /\ r.log[front[p].record].key = k
                                     /\ Stands(r.log[front[p].record])
  <2>1. PICK i \in DOMAIN r.log : Stands(r.log[i]) /\ r.log[i].key = k /\ ~r.log[i].back /\ r.log[i].start >= from
    BY <1>7 DEF MadeNew
  <2>2. PICK p \in DOMAIN front : front[p].record = i
    BY <1>3, <1>4, <2>1
  <2>3. front[p].start = r.log[i].start BY <1>3, <2>2
  <2> QED BY <2>1, <2>2, <2>3
<1> QED BY <1>2, <1>6, <1>7

\* What stands of a label was declared outside what the edit read just when the edit did not
\* make it: the first of its list, or the last, tells.
LEMMA OutsideIs ==
  ASSUME NEW q, Sound(q), ~q.hidden, NEW k \in Keys, ListIs(q, k), NEW from \in Int, NEW place \in Int, SplitAt(q, place)
  PROVE  DeclaredOutside(q, k, from, place) <=> StillOld(q, from, k)
<1> DEFINE f == S_first(q, k)
           list == q.index[k].list
           n == Len(list)
           l == list[n]
<1>1. /\ list \in Seq(Nat) /\ n \in Nat /\ DOMAIN list = 1..n
      /\ \A p \in 1..n : list[p] \in DOMAIN q.log /\ q.log[list[p]].key = k /\ Stands(q.log[list[p]])
      /\ \A j \in DOMAIN q.log : q.log[j].key = k /\ Stands(q.log[j]) => \E p \in 1..n : list[p] = j
      /\ \A p, m \in 1..n : p < m => ~S_precedes(q.log[list[m]], q.log[list[p]])
  BY DEF ListIs
<1>2. /\ f = 0 => \A i \in Shown(q) : q.log[i].key # k
      /\ f # 0 => /\ f \in Shown(q) /\ q.log[f].key = k
                  /\ \A j \in Shown(q) : q.log[j].key = k => TextStart(q, f) <= TextStart(q, j)
  BY FirstIs
<1>3. f # 0 => n # 0 BY <1>1 DEF S_first
<1>4. DeclaredOutside(q, k, from, place) <=> f # 0 /\ (TextStart(q, f) < from \/ TextStart(q, l) >= place)
  BY DEF DeclaredOutside, Last
<1>5. q \in Rosters /\ \A i \in Shown(q) : i \in DOMAIN q.log /\ Stands(q.log[i])
  BY DEF Sound, Shown
<1>6. \A i \in DOMAIN q.log : Stands(q.log[i]) => i \in Shown(q)
  BY DEF Shown
<1>7. \A i \in DOMAIN q.log : /\ TextStart(q, i) \in Int /\ q.log[i].start \in Int /\ q.log[i].back \in BOOLEAN
                              /\ ~q.log[i].back => TextStart(q, i) = q.log[i].start
  <2> TAKE i \in DOMAIN q.log
  <2>1. TextStart(q, i) \in Int BY <1>5, DeclFields
  <2>2. q.log \in Seq(Recs) BY <1>5, RosterFields
  <2>3. q.log[i].start \in Int /\ q.log[i].back \in BOOLEAN
    BY <2>2, LogFields
  <2> QED BY <2>1, <2>3 DEF TextStart
<1>8. \A i \in DOMAIN q.log : Stands(q.log[i]) => IF q.log[i].back THEN TextStart(q, i) >= place ELSE q.log[i].start < place
  BY DEF SplitAt
<1> HIDE DEF f, list, n
<1>9. f # 0 => l \in DOMAIN q.log /\ q.log[l].key = k /\ Stands(q.log[l]) /\ n \in 1..n
  BY <1>1, <1>3
<1> HIDE DEF l
<1>10. ASSUME f # 0, TextStart(q, f) < from PROVE StillOld(q, from, k)
  <2>1. f \in DOMAIN q.log /\ Stands(q.log[f]) /\ q.log[f].key = k
    BY <1>2, <1>5, <1>10
  <2>2. q.log[f].back \/ q.log[f].start < from
    BY <1>7, <1>10, <2>1
  <2> QED BY <2>1, <2>2 DEF StillOld
<1>11. ASSUME f # 0, TextStart(q, l) >= place PROVE StillOld(q, from, k)
  <2>1. l \in DOMAIN q.log /\ Stands(q.log[l]) /\ q.log[l].key = k
    BY <1>9, <1>11
  <2>2. q.log[l].back BY <1>7, <1>8, <1>11, <2>1
  <2> QED BY <2>1, <2>2 DEF StillOld
<1>12. ASSUME StillOld(q, from, k) PROVE f # 0 /\ (TextStart(q, f) < from \/ TextStart(q, l) >= place)
  <2>1. PICK i \in DOMAIN q.log : Stands(q.log[i]) /\ q.log[i].key = k /\ (q.log[i].back \/ q.log[i].start < from)
    BY <1>12 DEF StillOld
  <2>2. i \in Shown(q) /\ f # 0 BY <1>2, <1>6, <2>1
  <2>3. CASE ~q.log[i].back
    <3>1. TextStart(q, f) <= TextStart(q, i) /\ TextStart(q, i) < from /\ f \in DOMAIN q.log
      BY <1>2, <1>5, <1>7, <2>1, <2>2, <2>3
    <3>2. TextStart(q, f) \in Int /\ TextStart(q, i) \in Int
      BY <1>7, <3>1
    <3> QED BY <2>2, <3>1, <3>2
  <2>4. CASE q.log[i].back
    <3>1. PICK p \in 1..n : list[p] = i BY <1>1, <2>1
    <3>2. n \in 1..n /\ (p = n \/ p < n) BY <1>1, <1>9, <2>2
    <3>3. i = l \/ ~S_precedes(q.log[l], q.log[i])
      BY <1>1, <3>1, <3>2 DEF l
    <3>4. q.log[l].back
      BY <1>7, <1>9, <2>2, <2>4, <3>3, Zenon DEF S_precedes
    <3>5. TextStart(q, l) >= place BY <1>8, <1>9, <2>2, <3>4
    <3> QED BY <2>2, <3>5
  <2> QED BY <2>3, <2>4
<1> QED BY <1>4, <1>10, <1>11, <1>12

\* A label is seen that a declaration stands of.
LEMMA KeySeen ==
  ASSUME NEW r, Sound(r), ~r.hidden, NEW from \in Int, NEW k \in Keys
  PROVE  k \in L!KeysOf(SeenOf(r)) <=> MadeNew(r, from, k) \/ StillOld(r, from, k)
<1>1. r \in Rosters /\ r.log \in Seq(Recs)
  BY RosterFields DEF Sound
<1>2. L!Starts(SeenOf(r), k) = {TextStart(r, i) : i \in {j \in Shown(r) : r.log[j].key = k}}
  BY <1>1, StartsAre
<1>3. Shown(r) = {i \in DOMAIN r.log : Stands(r.log[i])}
  BY DEF Shown
<1>4. k \in L!KeysOf(SeenOf(r)) <=> \E i \in DOMAIN r.log : Stands(r.log[i]) /\ r.log[i].key = k
  <2>1. k \in L!KeysOf(SeenOf(r)) <=> L!Starts(SeenOf(r), k) # {}
    BY DEF L!KeysOf
  <2> QED BY <1>2, <1>3, <2>1
<1>5. \A i \in DOMAIN r.log : r.log[i].start >= from \/ r.log[i].start < from
  <2> TAKE i \in DOMAIN r.log
  <2>1. r.log[i].start \in Int BY <1>1, LogFields
  <2> QED BY <2>1
<1> QED BY <1>4, <1>5 DEF MadeNew, StillOld

\* What stands after an edit that was read is split where it took the old text back, or
\* all before the text's end.
LEMMA ReadSplit ==
  ASSUME IInv, EditSeen, edit.phase = "read"
  PROVE  SplitAt(roster, IF edit.resumed = 0 THEN MaxSize + 1 ELSE edit.resumed)
<1>1. CASE edit.resumed # 0 BY <1>1 DEF EditSeen
<1>2. CASE edit.resumed = 0
  <2>1. \A d \in Kinds : Backs(roster.log, d) = {}
    BY <1>2 DEF EditSeen
  <2>2. Within(roster, size) /\ size \in Int /\ MaxSize \in Int /\ size <= MaxSize /\ roster.log \in Seq(Recs)
    BY TypesOf, RosterFields DEF IInv, Limit
  <2> SUFFICES ASSUME NEW i \in DOMAIN roster.log, Stands(roster.log[i])
               PROVE  ~roster.log[i].back /\ roster.log[i].start < MaxSize + 1
    BY <1>2 DEF SplitAt
  <2>3. roster.log[i].start \in Int /\ Kind(roster.log[i]) \in Kinds
    BY <2>2, LogFields
  <2>4. ~roster.log[i].back BY <2>1, <2>3 DEF Backs
  <2>5. roster.log[i].start <= size BY <2>2, <2>4 DEF Within
  <2> QED BY <2>2, <2>3, <2>4, <2>5
<1> QED BY <1>1, <1>2

\* Whether a label that stands was altered, of the roster with its indexes made.
LEMMA AlteredOne ==
  ASSUME NEW r, Sound(r), Settled(r), ~r.hidden, r.placed, NEW q, Reached(r, q), Covers(r, q), NEW place \in Int, SplitAt(r, place),
         edit.from \in Int, NEW k \in Keys \ Anchors
  PROVE  k \in AlteredLabels(q, edit.from, place)
           <=> ~StillOld(r, edit.from, k) /\ ~(k \in r.lost <=> MadeNew(r, edit.from, k))
<1> DEFINE from == edit.from
<1>1. Sound(q) BY ReachedSound
<1>2. /\ q \in Rosters /\ Indexed(q) /\ Alike(r, q) /\ r \in Rosters
  BY DEF Reached, Sound
<1>3. /\ DOMAIN q.log = DOMAIN r.log /\ Len(q.log) = Len(r.log) /\ q.lost = r.lost /\ q.end = r.end /\ ~q.hidden /\ q.placed
      /\ \A i \in DOMAIN r.log : /\ q.log[i].key = r.log[i].key /\ q.log[i].start = r.log[i].start
                                 /\ q.log[i].back = r.log[i].back /\ (Stands(q.log[i]) <=> Stands(r.log[i]))
  BY <1>2 DEF Alike, Same, Stands
<1>4. (MadeNew(q, from, k) <=> MadeNew(r, from, k)) /\ (StillOld(q, from, k) <=> StillOld(r, from, k))
  BY <1>3, Zenon DEF MadeNew, StillOld
<1>5. SplitAt(q, place)
  <2>1. \A i \in DOMAIN r.log : TextStart(q, i) = TextStart(r, i)
    BY <1>3 DEF TextStart
  <2> QED BY <1>3, <2>1 DEF SplitAt
<1>6. (k \in Made(q, from) <=> MadeNew(r, from, k)) /\ (k \in Made(r, from) <=> MadeNew(r, from, k))
  BY <1>1, <1>3, <1>4, MadeIs
<1>7. (k \in Lost(q) <=> k \in r.lost) /\ (k \in Lost(r) <=> k \in r.lost)
  BY <1>3 DEF Lost
<1>8. k \in AlteredLabels(q, from, place) <=>
        \/ k \in Made(q, from) /\ k \notin Lost(q) /\ ~DeclaredOutside(q, k, from, place)
        \/ k \in Lost(q) /\ k \notin Made(q, from) /\ S_first(q, k) = 0
  BY DEF AlteredLabels
<1> HIDE DEF from
<1>9. CASE k \in Made(r, from) \cup Lost(r)
  <2>1. q.cursor[KindOf[k]] = Len(q.log)
    BY <1>3, <1>9 DEF Covers, from
  <2>2. ListIs(q, k) BY <1>2, <2>1, ListOf
  <2>3. DeclaredOutside(q, k, from, place) <=> StillOld(q, from, k)
    BY <1>1, <1>3, <1>5, <2>2, OutsideIs DEF from
  <2>4. S_first(q, k) = 0 <=> ~MadeNew(q, from, k) /\ ~StillOld(q, from, k)
    <3>1. /\ S_first(q, k) = 0 => \A i \in Shown(q) : q.log[i].key # k
          /\ S_first(q, k) # 0 => S_first(q, k) \in Shown(q) /\ q.log[S_first(q, k)].key = k
      BY <1>1, <2>2, FirstIs
    <3>2. Shown(q) = {i \in DOMAIN q.log : Stands(q.log[i])}
      BY <1>3 DEF Shown
    <3>3. \A i \in DOMAIN q.log : q.log[i].start >= from \/ q.log[i].start < from
      <4> TAKE i \in DOMAIN q.log
      <4>1. q.log \in Seq(Recs) BY <1>2, RosterFields
      <4>2. q.log[i].start \in Int BY <4>1, LogFields
      <4> QED BY <4>2 DEF from
    <3> QED BY <3>1, <3>2, <3>3 DEF MadeNew, StillOld
  <2> QED BY <1>4, <1>6, <1>7, <1>8, <2>3, <2>4 DEF from
<1>10. CASE k \notin Made(r, from) \cup Lost(r)
  BY <1>6, <1>7, <1>8, <1>10 DEF from
<1> QED BY <1>9, <1>10

\* The labels an edit altered, of what its phases kept.
LEMMA ReadAltered == IInv /\ Bagged /\ EditSeen => AlteredIsExact
<1> DEFINE r == roster
           q == Compared(roster)
           place == IF edit.resumed = 0 THEN MaxSize + 1 ELSE edit.resumed
           from == edit.from
<1> SUFFICES ASSUME IInv, Bagged, EditSeen, edit.phase = "read"
             PROVE  AlteredLabels(q, from, place) = L!Altered \ Anchors
  BY DEF AlteredIsExact
<1>1. Sound(r) /\ Settled(r) /\ ~r.hidden /\ r.placed
  BY DEF IInv, EditOK
<1>2. Reached(r, q) /\ Covers(r, q) BY <1>1, ComparedSound
<1>3. SplitAt(r, place) /\ from \in Int /\ place \in Int
  BY ReadSplit, TypesOf
<1>4. was = Olds(r, from) /\ seen = SeenOf(r)
  BY DEF EditSeen, Bagged
<1> HIDE DEF q, place
<1>5. AlteredLabels(q, from, place) \subseteq Keys \ Anchors
  <2>1. q \in Rosters BY <1>2 DEF Reached
  <2> QED BY <2>1, RosterFields DEF AlteredLabels, Made, Lost
<1>6. ASSUME NEW k \in Keys \ Anchors PROVE k \in AlteredLabels(q, from, place) <=> k \in L!Altered
  <2>1. k \in AlteredLabels(q, from, place) <=> ~StillOld(r, from, k) /\ ~(k \in r.lost <=> MadeNew(r, from, k))
    BY <1>1, <1>2, <1>3, AlteredOne
  <2>2. k \in L!KeysOf(seen) <=> MadeNew(r, from, k) \/ StillOld(r, from, k)
    BY <1>1, <1>3, <1>4, KeySeen
  <2>3. k \in was <=> k \in r.lost \/ StillOld(r, from, k)
    BY <1>4 DEF Olds, StillOld
  <2>4. k \in L!Altered <=> (k \in was) # (k \in L!KeysOf(seen))
    BY DEF L!Altered
  <2> HIDE DEF r, from
  <2>5. MadeNew(r, from, k) \in BOOLEAN /\ StillOld(r, from, k) \in BOOLEAN
    BY DEF MadeNew, StillOld
  <2> QED BY <2>1, <2>2, <2>3, <2>4, <2>5
<1>7. L!Altered \subseteq Keys BY DEF L!Altered
<1> QED BY <1>5, <1>6, <1>7

\* The roster, its bags and its edits, of each other, after any calls.
LEMMA EditInvariance == BothSpec => [](IInv /\ Bagged /\ EditSeen)
<1>1. BothInit => EditSeen
  BY DEF BothInit, Init, NoEdit, EditSeen
<1>2. IInv /\ Bagged /\ EditSeen /\ [BothNext]_both => EditSeen'
  <2> SUFFICES ASSUME IInv, Bagged, EditSeen, [BothNext]_both PROVE EditSeen'
    OBVIOUS
  <2>1. CASE BothNext BY <2>1, BothSeen
  <2>2. CASE UNCHANGED both BY <2>2 DEF both, EditSeen
  <2> QED BY <2>1, <2>2
<1> QED BY <1>1, <1>2, BothInvariance, PTL DEF BothSpec

\* "Is now declared, or not, where it was not, or was, before": the labels an edit altered are
\* just those, anchors apart.
THEOREM RosterAlteredExact == BothSpec => []AlteredIsExact
  BY EditInvariance, ReadAltered, PTL
===============================================================================
