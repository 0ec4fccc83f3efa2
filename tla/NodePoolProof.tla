----------------------------- MODULE NodePoolProof -----------------------------
(***************************************************************************)
(* The soundness of the pool for every number and size of slabs.           *)
(*                                                                         *)
(* What one call makes of the heap is judged by Sound(h, L): the heap h    *)
(* is sound when the storages L are in use.  Taking storage leaves a heap  *)
(* sound with it, giving storage back one sound without it, and a node's   *)
(* operations are sequences of the two.                                    *)
(***************************************************************************)
EXTENDS NodePool, FiniteSetTheorems, Groundwork, TLAPS

USE PoolAssumption

Heaps == [alive : SUBSET Slabs, holds : [Slabs -> Int], own : SUBSET Owns,
          current : Slabs \cup {None}, cut : Nat, released : SUBSET Storages]

Takers(h, s) == IF h.current = s THEN 1 ELSE 0

\* The hold counts are of A and of the slab the pool takes from.
Counted(h, A) ==
  /\ \A s \in Slabs : h.holds[s] = In(A, s) + Takers(h, s)
  /\ h.alive = {s \in Slabs : h.holds[s] # 0}

\* Where the storages A lie.
Inside(x) == x.at \in Nat /\ x.class \in 0..BytesClasses /\ 1 <= x.at /\ x.at + Stride(x.class) <= SlabSize
Disjoint(x, y) == x.at + Stride(x.class) <= y.at \/ y.at + Stride(y.class) <= x.at
Placed(h, A) ==
  /\ \A x \in A : x.slab # None => Inside(x)
  /\ \A x \in A : x.slab = h.current /\ x.slab # None => x.at + Stride(x.class) <= h.cut
  /\ \A x, y \in A : x # y /\ x.slab = y.slab /\ x.slab # None => Disjoint(x, y)
  /\ h.current # None => 1 <= h.cut /\ h.cut <= SlabSize

\* The slots of their own are those allocated, each once.
OwnOnes(L) == {x \in L : x.slab = None}
Allocated(h, L) ==
  /\ h.own = {x.at : x \in OwnOnes(L)}
  /\ \A x, y \in OwnOnes(L) : x.at = y.at => x = y

Sound(h, L) ==
  /\ h \in Heaps
  /\ L \subseteq Storages
  /\ IsFiniteSet(L) /\ IsFiniteSet(h.released)
  /\ h.released \cap L = {}
  /\ \A x \in h.released : x.slab # None
  /\ Counted(h, L \cup h.released)
  /\ Placed(h, L \cup h.released)
  /\ Allocated(h, L)

-------------------------------------------------------------------------------
(* Counting.                                                               *)

\* The storages of a finite set in a slab are as many as a number.
LEMMA InNat ==
  ASSUME NEW A, IsFiniteSet(A), NEW s
  PROVE  In(A, s) \in Nat
<1>1. {x \in A : x.slab = s} \in SUBSET A
  OBVIOUS
<1>2. QED  BY <1>1, FS_Subset, FS_CardinalityType DEF In

\* None lies in a slab that holds none, and only then.
LEMMA InZero ==
  ASSUME NEW A, IsFiniteSet(A), NEW s
  PROVE  In(A, s) = 0 <=> \A x \in A : x.slab # s
<1>1. {x \in A : x.slab = s} \in SUBSET A
  OBVIOUS
<1>2. IsFiniteSet({x \in A : x.slab = s})
  BY <1>1, FS_Subset
<1>3. In(A, s) = 0 <=> {x \in A : x.slab = s} = {}
  BY <1>2, FS_EmptySet DEF In
<1>4. QED  BY <1>3

\* One storage more is one more in its slab.
LEMMA InAdd ==
  ASSUME NEW A, IsFiniteSet(A), NEW x, x \notin A, NEW s
  PROVE  In(A \cup {x}, s) = In(A, s) + IF x.slab = s THEN 1 ELSE 0
<1> DEFINE B == {y \in A : y.slab = s}
<1>1. B \in SUBSET A
  OBVIOUS
<1>2. IsFiniteSet(B) /\ Cardinality(B) \in Nat
  BY <1>1, FS_Subset, FS_CardinalityType
<1>3. CASE x.slab = s
  <2>1. {y \in A \cup {x} : y.slab = s} = B \cup {x}
    BY <1>3
  <2>2. Cardinality(B \cup {x}) = Cardinality(B) + 1
    <3>1. x \notin B
      OBVIOUS
    <3> HIDE DEF B
    <3>2. QED  BY <1>2, <3>1, FS_AddElement
  <2>3. QED  BY <1>3, <2>1, <2>2 DEF In
<1>4. CASE x.slab # s
  <2>1. {y \in A \cup {x} : y.slab = s} = B
    BY <1>4
  <2>2. QED  BY <1>2, <1>4, <2>1 DEF In
<1>5. QED  BY <1>3, <1>4

\* Those left in a slab once some are out are the others.
LEMMA InMinus ==
  ASSUME NEW A, IsFiniteSet(A), NEW S \in SUBSET A, NEW s
  PROVE  In(A \ S, s) = In(A, s) - In(S, s)
<1> DEFINE B == {y \in A : y.slab = s}
<1>1. B \in SUBSET A
  OBVIOUS
<1>2. IsFiniteSet(B)
  BY <1>1, FS_Subset
<1>3. Cardinality(B \ S) = Cardinality(B) - Cardinality(B \cap S)
  <2> HIDE DEF B
  <2> QED  BY <1>2, FS_Difference
<1>4. B \ S = {y \in A \ S : y.slab = s}
  OBVIOUS
<1>5. B \cap S = {y \in S : y.slab = s}
  OBVIOUS
<1>6. QED  BY <1>3, <1>4, <1>5 DEF In

\* Storage of its own lies in no slab.
LEMMA InSlots ==
  ASSUME NEW S, NEW s \in Slabs
  PROVE  In({x \in S : x.slab # None}, s) = In(S, s)
<1>1. {y \in {x \in S : x.slab # None} : y.slab = s} = {y \in S : y.slab = s}
  OBVIOUS
<1>2. QED  BY <1>1 DEF In

-------------------------------------------------------------------------------
(* The slabs.                                                              *)

\* What markdown_core_slab_drop changes, and what it leaves.
LEMMA DroppedFields ==
  ASSUME NEW h \in Heaps, NEW S, IsFiniteSet(S), NEW and
  PROVE  LET d == Dropped(h, S, and)
         IN /\ d \in Heaps
            /\ d.own = h.own /\ d.current = h.current /\ d.cut = h.cut /\ d.released = h.released
            /\ \A s \in Slabs : d.holds[s] = h.holds[s] - In(S, s) - (IF s = and THEN 1 ELSE 0)
            /\ d.alive = {s \in h.alive : d.holds[s] # 0}
<1> DEFINE left == [s \in Slabs |-> h.holds[s] - In(S, s) - (IF s = and THEN 1 ELSE 0)]
<1>1. \A s \in Slabs : In(S, s) \in Nat
  BY InNat
<1>2. left \in [Slabs -> Int]
  BY <1>1 DEF Heaps
<1>3. Dropped(h, S, and) = [h EXCEPT !.holds = left, !.alive = {s \in @ : left[s] # 0}]
  BY DEF Dropped
<1> HIDE DEF left
<1>4. /\ Dropped(h, S, and) \in Heaps
      /\ Dropped(h, S, and).own = h.own /\ Dropped(h, S, and).current = h.current
      /\ Dropped(h, S, and).cut = h.cut /\ Dropped(h, S, and).released = h.released
      /\ Dropped(h, S, and).holds = left
      /\ Dropped(h, S, and).alive = {s \in h.alive : left[s] # 0}
  BY <1>2, <1>3 DEF Heaps
<1>5. \A s \in Slabs : left[s] = h.holds[s] - In(S, s) - (IF s = and THEN 1 ELSE 0)
  BY DEF left
<1>6. QED  BY <1>4, <1>5 DEF Heaps

\* Storage dropped with its slabs' holds leaves the rest counted, and frees a
\* slab exactly when the last of it goes.
LEMMA DroppedCounted ==
  ASSUME NEW h \in Heaps, NEW A, IsFiniteSet(A), NEW S \in SUBSET A, Counted(h, A)
  PROVE  Counted(Dropped(h, S, None), A \ S)
<1> DEFINE d == Dropped(h, S, None)
<1>1. IsFiniteSet(S)
  BY FS_Subset
<1>2. /\ d.current = h.current
      /\ \A s \in Slabs : d.holds[s] = h.holds[s] - In(S, s) - (IF s = None THEN 1 ELSE 0)
      /\ d.alive = {s \in h.alive : d.holds[s] # 0}
  BY <1>1, DroppedFields
<1> HIDE DEF d
<1>3. ASSUME NEW s \in Slabs
      PROVE  /\ d.holds[s] = In(A \ S, s) + Takers(d, s)
             /\ d.holds[s] # 0 => h.holds[s] # 0
  <2>1. In(A \ S, s) = In(A, s) - In(S, s)
    BY InMinus
  <2>2. In(A, s) \in Nat /\ In(S, s) \in Nat /\ In(A \ S, s) \in Nat
    <3>1. IsFiniteSet(A \ S)
      BY FS_Difference
    <3>2. QED  BY <1>1, <3>1, InNat
  <2>3. h.holds[s] = In(A, s) + Takers(h, s) /\ Takers(h, s) \in {0, 1} /\ Takers(d, s) = Takers(h, s)
    BY <1>2 DEF Counted, Takers
  <2>4. d.holds[s] = h.holds[s] - In(S, s)
    <3>1. s # None
      OBVIOUS
    <3>2. d.holds[s] = h.holds[s] - In(S, s) - 0
      BY <1>2, <3>1
    <3>3. QED  BY <2>2, <2>3, <3>2
  <2>5. QED  BY <2>1, <2>2, <2>3, <2>4
<1>4. d.alive = {s \in Slabs : d.holds[s] # 0}
  BY <1>2, <1>3 DEF Counted
<1>5. Counted(d, A \ S)
  BY <1>3, <1>4 DEF Counted
<1>6. QED  BY <1>5 DEF d

\* A storage's stride is a length, and no storage is of none.
LEMMA Strides ==
  ASSUME NEW c \in Nat
  PROVE  Stride(c) \in Nat /\ Stride(c) >= 1
BY DEF Stride

\* A slab is freed when nothing is counted for it, and holds its storages.
LEMMA AliveHolds ==
  ASSUME NEW h \in Heaps, NEW A, IsFiniteSet(A), Counted(h, A), NEW s \in Slabs
  PROVE  s \in h.alive <=> h.current = s \/ \E x \in A : x.slab = s
<1>1. In(A, s) \in Nat /\ (In(A, s) = 0 <=> \A x \in A : x.slab # s)
  BY InNat, InZero
<1>2. h.holds[s] = In(A, s) + Takers(h, s) /\ (s \in h.alive <=> h.holds[s] # 0)
  BY DEF Counted
<1>3. CASE h.current = s
  BY <1>1, <1>2, <1>3 DEF Takers
<1>4. CASE h.current # s
  BY <1>1, <1>2, <1>4 DEF Takers
<1>5. QED  BY <1>3, <1>4

\* markdown_core_slab_pool_grow leaves a sound heap that takes from the new slab.
LEMMA GrownSound ==
  ASSUME NEW h, NEW L, Sound(h, L), NEW s \in Slabs \ h.alive
  PROVE  /\ Sound(Grown(h, s), L)
         /\ Grown(h, s).current = s /\ Grown(h, s).cut = 1 /\ Grown(h, s).released = h.released
<1> DEFINE A == L \cup h.released
           old == Dropped(h, {}, h.current)
           g == Grown(h, s)
<1>1. h \in Heaps /\ IsFiniteSet(A) /\ Counted(h, A)
  BY FS_Union DEF Sound
<1>2. /\ old \in Heaps
      /\ old.own = h.own /\ old.current = h.current /\ old.cut = h.cut /\ old.released = h.released
      /\ \A t \in Slabs : old.holds[t] = h.holds[t] - In({}, t) - (IF t = h.current THEN 1 ELSE 0)
      /\ old.alive = {t \in h.alive : old.holds[t] # 0}
  BY <1>1, FS_EmptySet, DroppedFields
<1>3. /\ g \in Heaps
      /\ g.own = h.own /\ g.current = s /\ g.cut = 1 /\ g.released = h.released
      /\ g.alive = old.alive \cup {s}
      /\ \A t \in Slabs : g.holds[t] = IF t = s THEN 1 ELSE old.holds[t]
  <2>1. g = [old EXCEPT !.alive = @ \cup {s}, !.holds[s] = 1, !.current = s, !.cut = 1]
    BY DEF Grown
  <2> HIDE DEF old, g
  <2> DEFINE counts == [old.holds EXCEPT ![s] = 1]
  <2>2. counts \in [Slabs -> Int] /\ \A t \in Slabs : counts[t] = IF t = s THEN 1 ELSE old.holds[t]
    BY <1>2 DEF Heaps
  <2>3. g = [old EXCEPT !.alive = @ \cup {s}, !.holds = counts, !.current = s, !.cut = 1]
    BY <2>1
  <2> HIDE DEF counts
  <2>4. QED  BY <1>2, <2>2, <2>3 DEF Heaps
<1>4. h.current # s /\ \A x \in A : x.slab # s
  BY <1>1, AliveHolds
<1>5. ASSUME NEW t \in Slabs
      PROVE  /\ t # s => g.holds[t] = In(A, t)
             /\ g.holds[t] = In(A, t) + Takers(g, t)
             /\ t \in g.alive <=> g.holds[t] # 0
  <2>1. In({}, t) = 0 /\ In(A, t) \in Nat
    BY <1>1, FS_EmptySet, InZero, InNat
  <2>2. old.holds[t] = In(A, t)
    <3>1. h.holds[t] = In(A, t) + Takers(h, t)
      BY <1>1 DEF Counted
    <3>2. CASE h.current = t
      <4>1. old.holds[t] = h.holds[t] - 0 - 1
        BY <1>2, <2>1, <3>2
      <4>2. QED  BY <2>1, <3>1, <3>2, <4>1 DEF Takers
    <3>3. CASE h.current # t
      <4>1. old.holds[t] = h.holds[t] - 0 - 0
        BY <1>2, <2>1, <3>3
      <4>2. QED  BY <2>1, <3>1, <3>3, <4>1 DEF Takers
    <3>4. QED  BY <3>2, <3>3
  <2>3. CASE t = s
    <3>1. In(A, t) = 0
      BY <1>1, <1>4, <2>3, InZero
    <3>2. QED  BY <1>3, <2>3, <3>1 DEF Takers
  <2>4. CASE t # s
    <3>1. g.holds[t] = In(A, t) /\ Takers(g, t) = 0
      BY <1>3, <2>2, <2>4 DEF Takers
    <3>2. t \in h.alive <=> h.current = t \/ In(A, t) # 0
      BY <1>1, AliveHolds, InZero
    <3>3. t \in g.alive <=> t \in h.alive /\ In(A, t) # 0
      BY <1>2, <1>3, <2>2, <2>4
    <3>4. QED  BY <2>1, <2>4, <3>1, <3>2, <3>3
  <2>5. QED  BY <2>3, <2>4
<1>6. Counted(g, A)
  <2>1. g.alive \in SUBSET Slabs
    BY <1>3 DEF Heaps
  <2>2. QED  BY <1>5, <2>1 DEF Counted
<1>7. Placed(g, A)
  <2>1. 1 <= SlabSize
    <3>1. 1 + Stride(0) <= SlabSize
      BY DEF PoolAssumption
    <3>2. QED  BY <3>1, Strides
  <2>2. QED  BY <1>3, <1>4, <2>1 DEF Sound, Placed
<1>8. Allocated(g, L)
  BY <1>3 DEF Sound, Allocated
<1> HIDE DEF g, old
<1>9. Sound(g, L)
  BY <1>3, <1>6, <1>7, <1>8 DEF Sound
<1>10. QED  BY <1>3, <1>9 DEF g

\* markdown_core_slab_next hands out storage nothing else lies in, and counts it.
LEMMA CutSound ==
  ASSUME NEW h, NEW L, Sound(h, L), h.current # None, NEW c \in 0..BytesClasses, h.cut + Stride(c) <= SlabSize
  PROVE  /\ Cut(h, c).got \in Storages /\ Cut(h, c).got \notin L /\ Cut(h, c).got.class = c
         /\ Sound(Cut(h, c).heap, L \cup {Cut(h, c).got})
<1> DEFINE A == L \cup h.released
           x == [slab |-> h.current, at |-> h.cut, class |-> c]
           k == [h EXCEPT !.cut = @ + Stride(c), !.holds[h.current] = @ + 1]
<1>1. h \in Heaps /\ IsFiniteSet(A) /\ Counted(h, A) /\ Placed(h, A) /\ h.current \in Slabs
  BY FS_Union DEF Sound, Heaps
<1>2. c \in Nat /\ Stride(c) \in Nat /\ Stride(c) >= 1 /\ h.cut \in Nat
  <2>1. c \in Nat
    BY DEF PoolAssumption
  <2>2. QED  BY <1>1, <2>1, Strides DEF Heaps
<1>3. x \in Storages
  BY <1>1, <1>2 DEF Storages
<1>4. \A y \in A : y.slab = h.current => y.at \in Nat /\ y.class \in Nat /\ Stride(y.class) \in Nat /\ Stride(y.class) >= 1 /\ y.at + Stride(y.class) <= h.cut
  <2> SUFFICES ASSUME NEW y \in A, y.slab = h.current
               PROVE  y.at \in Nat /\ y.class \in Nat /\ Stride(y.class) \in Nat /\ Stride(y.class) >= 1 /\ y.at + Stride(y.class) <= h.cut
    OBVIOUS
  <2>1. Inside(y) /\ y.at + Stride(y.class) <= h.cut
    BY <1>1 DEF Placed
  <2>2. y.at \in Nat /\ y.class \in Nat
    BY <2>1 DEF Inside, PoolAssumption
  <2>3. QED  BY <2>1, <2>2, Strides
<1>5. x \notin A
  <2>1. ASSUME x \in A PROVE FALSE
    <3>1. x.at + Stride(x.class) <= h.cut
      BY <1>4, <2>1
    <3>2. QED  BY <1>2, <3>1
  <2>2. QED  BY <2>1
<1>6. /\ k \in Heaps
      /\ k.own = h.own /\ k.current = h.current /\ k.released = h.released /\ k.alive = h.alive
      /\ k.cut = h.cut + Stride(c)
      /\ \A t \in Slabs : k.holds[t] = h.holds[t] + IF t = h.current THEN 1 ELSE 0
  <2> DEFINE counts == [h.holds EXCEPT ![h.current] = @ + 1]
  <2>1. counts \in [Slabs -> Int] /\ \A t \in Slabs : counts[t] = h.holds[t] + IF t = h.current THEN 1 ELSE 0
    BY <1>1 DEF Heaps
  <2>2. k = [h EXCEPT !.cut = @ + Stride(c), !.holds = counts]
    OBVIOUS
  <2> DEFINE after == h.cut + Stride(c)
  <2>3. k = [h EXCEPT !.cut = after, !.holds = counts]
    BY <1>1, <2>2 DEF Heaps
  <2>4. after \in Nat
    BY <1>2
  <2> HIDE DEF counts, k, after
  <2>5. k \in Heaps
    BY <1>1, <2>1, <2>3, <2>4 DEF Heaps
  <2>6. /\ k.own = h.own /\ k.current = h.current /\ k.released = h.released /\ k.alive = h.alive
        /\ k.cut = after /\ k.holds = counts
    BY <1>1, <2>3 DEF Heaps
  <2>7. QED  BY <2>1, <2>5, <2>6 DEF after
<1> DEFINE B == (L \cup {x}) \cup k.released
<1>7. B = A \cup {x}
  BY <1>6
<1>x. x.slab = h.current /\ x.at = h.cut /\ x.class = c
  OBVIOUS
<1> HIDE DEF k, x, A, B
<1>8. Counted(k, B)
  <2>1. ASSUME NEW t \in Slabs
        PROVE  k.holds[t] = In(B, t) + Takers(k, t) /\ (t \in k.alive <=> k.holds[t] # 0)
    <3>1. In(A, t) \in Nat /\ h.holds[t] = In(A, t) + Takers(h, t) /\ (t \in h.alive <=> h.holds[t] # 0)
      BY <1>1, InNat DEF Counted
    <3>2. In(B, t) = In(A, t) + IF x.slab = t THEN 1 ELSE 0
      BY <1>1, <1>5, <1>7, InAdd
    <3>3. Takers(k, t) = Takers(h, t) /\ Takers(h, t) \in {0, 1}
      BY <1>6 DEF Takers
    <3>4. k.holds[t] = In(B, t) + Takers(k, t)
      BY <1>6, <1>x, <3>1, <3>2, <3>3
    <3>5. CASE t = h.current
      BY <1>6, <3>1, <3>3, <3>4, <3>5 DEF Takers
    <3>6. CASE t # h.current
      BY <1>6, <3>1, <3>3, <3>4, <3>6
    <3>7. QED  BY <3>4, <3>5, <3>6
  <2>2. k.alive \in SUBSET Slabs
    BY <1>6 DEF Heaps
  <2>3. QED  BY <2>1, <2>2 DEF Counted
<1>9. Placed(k, B)
  <2>0. 1 <= h.cut /\ h.cut <= SlabSize
    BY <1>1 DEF Placed
  <2>1. Inside(x) /\ x.at + Stride(x.class) <= k.cut /\ 1 <= k.cut /\ k.cut <= SlabSize
    BY <1>2, <1>6, <1>x, <2>0 DEF Inside, PoolAssumption
  <2>2. \A y \in A : y.slab = k.current /\ y.slab # None => y.at + Stride(y.class) <= k.cut
    BY <1>2, <1>4, <1>6
  <2>3. \A y \in A : y.slab = x.slab => Disjoint(x, y) /\ Disjoint(y, x)
    BY <1>2, <1>4, <1>x DEF Disjoint
  <2>4. \A y \in B : y \in A \/ y = x
    BY <1>7
  <2>5. \A y \in B : y.slab # None => Inside(y)
    BY <1>1, <2>1, <2>4 DEF Placed
  <2>6. \A y \in B : y.slab = k.current /\ y.slab # None => y.at + Stride(y.class) <= k.cut
    BY <2>1, <2>2, <2>4
  <2>7. \A y, z \in B : y # z /\ y.slab = z.slab /\ y.slab # None => Disjoint(y, z)
    BY <1>1, <2>3, <2>4 DEF Placed
  <2>8. QED  BY <2>1, <2>5, <2>6, <2>7 DEF Placed
<1>10. Allocated(k, L \cup {x})
  <2>1. OwnOnes(L \cup {x}) = OwnOnes(L)
    BY <1>1, <1>x DEF OwnOnes
  <2>2. QED  BY <1>6, <2>1 DEF Sound, Allocated
<1>11. IsFiniteSet(L \cup {x}) /\ IsFiniteSet(k.released)
  BY <1>6, FS_AddElement DEF Sound
<1>12. k.released \cap (L \cup {x}) = {} /\ \A y \in k.released : y.slab # None
  BY <1>5, <1>6 DEF Sound, A
<1>13. Sound(k, L \cup {x})
  BY <1>3, <1>6, <1>8, <1>9, <1>10, <1>11, <1>12 DEF Sound, B
<1>14. Cut(h, c).got = x /\ Cut(h, c).heap = k
  BY DEF Cut, x, k
<1>15. QED  BY <1>3, <1>5, <1>13, <1>14, <1>x DEF A

-------------------------------------------------------------------------------
(* Taking storage, and giving it back.                                     *)

\* What a take that succeeds owes its caller.
Given(t, L, c) == t.got \in Storages /\ t.got \notin L /\ t.got.class = c /\ Sound(t.heap, L \cup {t.got})
Outcome(t, L, c) ==
  \/ t.got = None /\ Sound(t.heap, L)
  \/ t.got # None /\ Given(t, L, c)

\* No storage is None.
LEMMA NoneIsNoStorage ==
  ASSUME NEW x \in Storages
  PROVE  x # None
BY DEF PoolAssumption

\* A slot of its own is one the allocator had not handed out.
LEMMA OwnTakesSound ==
  ASSUME NEW h, NEW L, Sound(h, L), NEW c \in Nat, NEW t \in OwnTakes(h, c)
  PROVE  Outcome(t, L, c)
<1>1. CASE t = Refused(h)
  <2>1. t.got = None /\ t.heap = h
    BY <1>1 DEF Refused
  <2>2. QED  BY <2>1 DEF Outcome
<1>2. CASE \E i \in Owns \ h.own : t = [heap |-> [h EXCEPT !.own = @ \cup {i}], got |-> [slab |-> None, at |-> i, class |-> c]]
  <2>1. PICK i \in Owns \ h.own : t = [heap |-> [h EXCEPT !.own = @ \cup {i}], got |-> [slab |-> None, at |-> i, class |-> c]]
    BY <1>2
  <2> DEFINE x == [slab |-> None, at |-> i, class |-> c]
             k == [h EXCEPT !.own = @ \cup {i}]
  <2>2. t.got = x /\ t.heap = k /\ x.slab = None /\ x.at = i /\ x.class = c /\ x \in Storages
    BY <2>1 DEF Storages
  <2>3. /\ h \in Heaps /\ k \in Heaps /\ k.own = h.own \cup {i} /\ k.alive = h.alive /\ k.holds = h.holds
        /\ k.current = h.current /\ k.cut = h.cut /\ k.released = h.released
    BY DEF Sound, Heaps
  <2> HIDE DEF x, k
  <2> DEFINE A == L \cup h.released
             B == (L \cup {x}) \cup k.released
  <2>4. x \notin L /\ x \notin h.released
    BY <2>2 DEF Sound, Allocated, OwnOnes
  <2>5. B = A \cup {x} /\ IsFiniteSet(A)
    BY <2>3, FS_Union DEF Sound
  <2> HIDE DEF A, B
  <2>6. Counted(k, B)
    <3>1. ASSUME NEW s \in Slabs
          PROVE  In(B, s) = In(A, s)
      <4>1. In(B, s) = In(A, s) + IF x.slab = s THEN 1 ELSE 0
        BY <2>4, <2>5, InAdd DEF A
      <4>2. x.slab # s
        BY <2>2
      <4>3. In(A, s) \in Nat
        BY <2>5, InNat
      <4>4. QED  BY <4>1, <4>2, <4>3
    <3>2. \A s \in Slabs : Takers(k, s) = Takers(h, s)
      BY <2>3 DEF Takers
    <3>3. Counted(h, A)
      BY DEF Sound, A
    <3>4. QED  BY <2>3, <3>1, <3>2, <3>3 DEF Counted
  <2>7. Placed(k, B)
    <3>1. Placed(h, A)
      BY DEF Sound, A
    <3>2. \A y \in B : y.slab # None => y \in A
      BY <2>2, <2>5
    <3>3. QED  BY <2>3, <3>1, <3>2 DEF Placed
  <2>8. Allocated(k, L \cup {x})
    <3>1. OwnOnes(L \cup {x}) = OwnOnes(L) \cup {x}
      BY <2>2 DEF OwnOnes
    <3>2. \A y \in OwnOnes(L) : y.at # i
      BY DEF Sound, Allocated
    <3>3. h.own = {y.at : y \in OwnOnes(L)} /\ \A y, z \in OwnOnes(L) : y.at = z.at => y = z
      BY DEF Sound, Allocated
    <3>4. k.own = {y.at : y \in OwnOnes(L) \cup {x}}
      BY <2>2, <2>3, <3>3
    <3>5. \A y, z \in OwnOnes(L) \cup {x} : y.at = z.at => y = z
      BY <2>2, <3>2, <3>3
    <3>6. QED  BY <3>1, <3>4, <3>5 DEF Allocated
  <2>9. Sound(k, L \cup {x})
    <3>1. IsFiniteSet(L \cup {x})
      BY FS_AddElement DEF Sound
    <3>2. QED  BY <2>2, <2>3, <2>4, <2>6, <2>7, <2>8, <3>1 DEF Sound, B
  <2>10. QED  BY <2>2, <2>4, <2>9, NoneIsNoStorage DEF Outcome, Given
<1>3. QED  BY <1>1, <1>2 DEF OwnTakes

\* Storage handed out again is out of the pool, and stays counted and in place.
LEMMA AgainSound ==
  ASSUME NEW h, NEW L, Sound(h, L), NEW x \in h.released
  PROVE  x \in Storages /\ x \notin L /\ Sound([h EXCEPT !.released = @ \ {x}], L \cup {x})
<1> DEFINE k == [h EXCEPT !.released = @ \ {x}]
<1>1. /\ h \in Heaps /\ k \in Heaps /\ k.own = h.own /\ k.alive = h.alive /\ k.holds = h.holds
      /\ k.current = h.current /\ k.cut = h.cut /\ k.released = h.released \ {x}
  BY DEF Sound, Heaps
<1>2. x \in Storages /\ x \notin L /\ x.slab # None
  BY <1>1 DEF Sound, Heaps
<1> HIDE DEF k
<1>3. (L \cup {x}) \cup k.released = L \cup h.released
  BY <1>1
<1>4. Counted(k, L \cup h.released)
  <2>1. \A s \in Slabs : Takers(k, s) = Takers(h, s)
    BY <1>1 DEF Takers
  <2>2. QED  BY <1>1, <2>1 DEF Sound, Counted
<1>5. Placed(k, L \cup h.released)
  BY <1>1 DEF Sound, Placed
<1>6. Allocated(k, L \cup {x})
  <2>1. OwnOnes(L \cup {x}) = OwnOnes(L)
    BY <1>2 DEF OwnOnes
  <2>2. QED  BY <1>1, <2>1 DEF Sound, Allocated
<1>7. IsFiniteSet(L \cup {x}) /\ IsFiniteSet(k.released)
  BY <1>1, FS_AddElement, FS_RemoveElement DEF Sound
<1>8. k.released \cap (L \cup {x}) = {} /\ \A y \in k.released : y.slab # None
  BY <1>1 DEF Sound
<1>9. L \cup {x} \subseteq Storages
  BY <1>2 DEF Sound
<1>10. Sound(k, L \cup {x})
  BY <1>1, <1>3, <1>4, <1>5, <1>6, <1>7, <1>8, <1>9 DEF Sound
<1>11. QED  BY <1>2, <1>10 DEF k

\* Every outcome of a take from the pool is sound.
LEMMA PoolTakesSound ==
  ASSUME NEW h, NEW L, Sound(h, L), NEW c \in 0..BytesClasses, NEW t \in PoolTakes(h, c)
  PROVE  Outcome(t, L, c)
<1> DEFINE again == {x \in h.released : x.class = c}
<1>0. c \in Nat /\ Stride(c) \in Nat /\ h.cut \in Nat /\ 1 + Stride(c) <= SlabSize /\ SlabSize \in Nat
  <2>1. c \in Nat /\ 1 + Stride(c) <= SlabSize /\ SlabSize \in Nat
    BY DEF PoolAssumption
  <2>2. h.cut \in Nat
    BY DEF Sound, Heaps
  <2>3. QED  BY <2>1, <2>2, Strides
<1>1. CASE again # {}
  <2>1. PICK x \in again : t = [heap |-> [h EXCEPT !.released = @ \ {x}], got |-> x]
    BY <1>1 DEF PoolTakes
  <2>2. t.got = x /\ t.heap = [h EXCEPT !.released = @ \ {x}] /\ x \in h.released /\ x.class = c
    BY <2>1
  <2>3. QED  BY <2>2, AgainSound, NoneIsNoStorage DEF Outcome, Given
<1>2. CASE again = {} /\ Room(h, c)
  <2>1. t = Cut(h, c)
    BY <1>2 DEF PoolTakes
  <2>2. h.current # None /\ h.cut + Stride(c) <= SlabSize
    BY <1>0, <1>2 DEF Room
  <2>3. QED  BY <2>1, <2>2, CutSound, NoneIsNoStorage DEF Outcome, Given
<1>3. CASE again = {} /\ ~Room(h, c)
  <2>1. t = Refused(h) \/ \E s \in Slabs \ h.alive : t = Cut(Grown(h, s), c)
    BY <1>3 DEF PoolTakes
  <2>2. CASE t = Refused(h)
    <3>1. t.got = None /\ t.heap = h
      BY <2>2 DEF Refused
    <3>2. QED  BY <3>1 DEF Outcome
  <2>3. ASSUME NEW s \in Slabs \ h.alive, t = Cut(Grown(h, s), c)
        PROVE  Outcome(t, L, c)
    <3>1. /\ Sound(Grown(h, s), L)
          /\ Grown(h, s).current = s /\ Grown(h, s).cut = 1
      BY GrownSound
    <3>2. Grown(h, s).current # None /\ Grown(h, s).cut + Stride(c) <= SlabSize
      BY <1>0, <3>1
    <3>3. QED  BY <2>3, <3>1, <3>2, CutSound, NoneIsNoStorage DEF Outcome, Given
  <2>4. QED  BY <2>1, <2>2, <2>3
<1>4. QED  BY <1>1, <1>2, <1>3

\* Every outcome of asking for storage is sound, with the pool or with none.
LEMMA TakesSound ==
  ASSUME NEW h, NEW L, Sound(h, L), NEW c \in Nat, NEW pooled \in BOOLEAN, NEW t \in Takes(h, pooled, c)
  PROVE  Outcome(t, L, c)
<1>1. CASE pooled /\ c <= BytesClasses
  <2>1. t \in PoolTakes(h, c) /\ c \in 0..BytesClasses
    BY <1>1 DEF Takes, PoolAssumption
  <2>2. QED  BY <2>1, PoolTakesSound
<1>2. CASE ~(pooled /\ c <= BytesClasses)
  BY <1>2, OwnTakesSound DEF Takes
<1>3. QED  BY <1>1, <1>2

\* Storage no longer in use leaves the slots of their own of the rest.
LEMMA OwnMinus ==
  ASSUME NEW h, NEW L, Allocated(h, L), NEW S \in SUBSET L
  PROVE  /\ h.own \ {x.at : x \in OwnOnes(S)} = {x.at : x \in OwnOnes(L \ S)}
         /\ \A x, y \in OwnOnes(L \ S) : x.at = y.at => x = y
<1>1. OwnOnes(L \ S) = OwnOnes(L) \ OwnOnes(S) /\ OwnOnes(S) \subseteq OwnOnes(L)
  BY DEF OwnOnes
<1>2. h.own = {x.at : x \in OwnOnes(L)} /\ \A x, y \in OwnOnes(L) : x.at = y.at => x = y
  BY DEF Allocated
<1>3. ASSUME NEW v
      PROVE  v \in h.own \ {x.at : x \in OwnOnes(S)} <=> v \in {x.at : x \in OwnOnes(L \ S)}
  <2>1. ASSUME v \in h.own, v \notin {x.at : x \in OwnOnes(S)}
        PROVE  v \in {x.at : x \in OwnOnes(L \ S)}
    <3>1. PICK x \in OwnOnes(L) : v = x.at
      BY <1>2, <2>1
    <3>2. x \in OwnOnes(L \ S)
      BY <1>1, <2>1, <3>1
    <3>3. QED  BY <3>1, <3>2
  <2>2. ASSUME v \in {x.at : x \in OwnOnes(L \ S)}
        PROVE  v \in h.own /\ v \notin {x.at : x \in OwnOnes(S)}
    <3>1. PICK x \in OwnOnes(L) \ OwnOnes(S) : v = x.at
      BY <1>1, <2>2
    <3>2. \A y \in OwnOnes(S) : y.at # v
      BY <1>1, <1>2, <3>1
    <3>3. v \in h.own
      BY <1>2, <3>1
    <3>4. QED  BY <3>2, <3>3
  <2>3. QED  BY <2>1, <2>2
<1>4. QED  BY <1>1, <1>2, <1>3

\* Giving back storage in use, into the pool or not, leaves a heap sound
\* without it.
LEMMA ReleasedSound ==
  ASSUME NEW h, NEW L, Sound(h, L), NEW S \in SUBSET L, NEW pooled \in BOOLEAN
  PROVE  Sound(Released(h, pooled, S), L \ S)
<1> DEFINE slots == {x \in S : x.slab # None}
           f == [h EXCEPT !.own = @ \ {x.at : x \in S \ slots}]
           A == L \cup h.released
<1>1. /\ h \in Heaps /\ f \in Heaps /\ f.own = h.own \ {x.at : x \in S \ slots} /\ f.alive = h.alive /\ f.holds = h.holds
      /\ f.current = h.current /\ f.cut = h.cut /\ f.released = h.released
  BY DEF Sound, Heaps
<1>2. S \ slots = OwnOnes(S)
  BY DEF OwnOnes
<1>3. f.own = {x.at : x \in OwnOnes(L \ S)} /\ \A x, y \in OwnOnes(L \ S) : x.at = y.at => x = y
  BY <1>1, <1>2, OwnMinus DEF Sound
<1>4. IsFiniteSet(A) /\ IsFiniteSet(S) /\ IsFiniteSet(slots) /\ IsFiniteSet(L \ S)
  <2>1. IsFiniteSet(A)
    BY FS_Union DEF Sound
  <2>2. IsFiniteSet(S) /\ IsFiniteSet(L \ S)
    BY FS_Subset, FS_Difference DEF Sound
  <2>3. slots \in SUBSET S
    OBVIOUS
  <2>4. QED  BY <2>1, <2>2, <2>3, FS_Subset
<1>5. slots \subseteq L /\ slots \subseteq Storages /\ L \subseteq Storages /\ h.released \cap L = {}
      /\ \A x \in h.released : x.slab # None
  BY DEF Sound
<1>6. Counted(f, A) /\ Placed(f, A)
  <2>1. \A s \in Slabs : Takers(f, s) = Takers(h, s)
    BY <1>1 DEF Takers
  <2>2. Counted(h, A) /\ Placed(h, A)
    BY DEF Sound
  <2> HIDE DEF f, A
  <2>3. QED  BY <1>1, <2>1, <2>2 DEF Counted, Placed
<1>7. CASE pooled
  <2> DEFINE r == [f EXCEPT !.released = @ \cup slots]
  <2>1. Released(h, pooled, S) = r
    BY <1>7 DEF Released
  <2> HIDE DEF f, slots
  <2>2. /\ r \in Heaps /\ r.own = f.own /\ r.alive = f.alive /\ r.holds = f.holds
        /\ r.current = f.current /\ r.cut = f.cut /\ r.released = h.released \cup slots
    BY <1>1, <1>5 DEF Heaps
  <2> DEFINE B == (L \ S) \cup r.released
  <2>3. B \subseteq A /\ A \ B \subseteq {x \in S : x.slab = None}
    BY <2>2, <1>5 DEF slots
  <2> HIDE DEF r, A, B
  <2>4. Placed(r, B)
    BY <1>6, <2>2, <2>3 DEF Placed
  <2>5. Counted(r, B)
    <3>1. ASSUME NEW s \in Slabs PROVE In(B, s) = In(A, s)
      <4>1. {x \in B : x.slab = s} = {x \in A : x.slab = s}
        BY <2>3
      <4>2. QED  BY <4>1 DEF In
    <3>2. \A s \in Slabs : Takers(r, s) = Takers(f, s)
      BY <2>2 DEF Takers
    <3>3. QED  BY <1>6, <2>2, <3>1, <3>2 DEF Counted
  <2>6. Allocated(r, L \ S)
    BY <1>3, <2>2 DEF Allocated
  <2>7. IsFiniteSet(r.released)
    <3>1. IsFiniteSet(h.released) /\ IsFiniteSet(slots)
      BY <1>4 DEF Sound
    <3>2. IsFiniteSet(h.released \cup slots)
      BY <3>1, FS_Union
    <3>3. QED  BY <2>2, <3>2
  <2>8. r.released \cap (L \ S) = {} /\ \A x \in r.released : x.slab # None
    BY <1>5, <2>2 DEF slots
  <2>9. Sound(r, L \ S)
    BY <1>4, <1>5, <2>2, <2>4, <2>5, <2>6, <2>7, <2>8 DEF Sound, B
  <2>10. QED  BY <2>1, <2>9
<1>8. CASE ~pooled
  <2> DEFINE d == Dropped(f, slots, None)
  <2>1. Released(h, pooled, S) = d
    BY <1>8 DEF Released
  <2>2. d \in Heaps /\ d.own = f.own /\ d.current = f.current /\ d.cut = f.cut /\ d.released = f.released
    <3> HIDE DEF f, slots
    <3> QED  BY <1>1, <1>4, DroppedFields
  <2>3. slots \in SUBSET A
    BY <1>5
  <2>4. Counted(d, A \ slots)
    BY <1>1, <1>4, <1>6, <2>3, DroppedCounted
  <2> DEFINE B == (L \ S) \cup d.released
  <2>5. B \subseteq A \ slots /\ (A \ slots) \ B \subseteq {x \in S : x.slab = None}
    BY <1>1, <1>5, <2>2
  <2> HIDE DEF d, f, A, B, slots
  <2>6. Counted(d, B)
    <3>1. ASSUME NEW s \in Slabs PROVE In(B, s) = In(A \ slots, s)
      <4>1. {x \in B : x.slab = s} = {x \in A \ slots : x.slab = s}
        BY <2>5
      <4>2. QED  BY <4>1 DEF In
    <3>2. QED  BY <2>4, <3>1 DEF Counted
  <2>7. Placed(d, B)
    BY <1>6, <2>2, <2>5 DEF Placed
  <2>8. Allocated(d, L \ S)
    BY <1>3, <2>2 DEF Allocated
  <2>9. Sound(d, L \ S)
    BY <1>1, <1>4, <1>5, <2>2, <2>6, <2>7, <2>8 DEF Sound, B
  <2>10. QED  BY <2>1, <2>9
<1>9. QED  BY <1>7, <1>8

\* The disposal drops the pool's own holds, and what is in use keeps its slabs.
LEMMA DisposedSound ==
  ASSUME NEW h, NEW L, Sound(h, L)
  PROVE  Sound(Disposed(h), L)
<1> DEFINE A == L \cup h.released
           d == Dropped(h, h.released, h.current)
           p == Disposed(h)
<1>1. /\ h \in Heaps /\ IsFiniteSet(A) /\ IsFiniteSet(L) /\ IsFiniteSet(h.released) /\ Counted(h, A) /\ Placed(h, A)
      /\ h.released \cap L = {}
  BY FS_Union DEF Sound
<1>2. /\ d \in Heaps
      /\ d.own = h.own
      /\ \A s \in Slabs : d.holds[s] = h.holds[s] - In(h.released, s) - (IF s = h.current THEN 1 ELSE 0)
      /\ d.alive = {s \in h.alive : d.holds[s] # 0}
  BY <1>1, DroppedFields
<1>3. /\ p \in Heaps
      /\ p.own = h.own /\ p.current = None /\ p.released = {} /\ p.holds = d.holds /\ p.alive = d.alive
  <2>1. p = [d EXCEPT !.released = {}, !.current = None, !.cut = 0]
    BY DEF Disposed
  <2> HIDE DEF d, p
  <2>2. QED  BY <1>2, <2>1 DEF Heaps
<1>4. L \cup p.released = L /\ A \ h.released = L
  BY <1>1, <1>3
<1> HIDE DEF d, p
<1>5. ASSUME NEW s \in Slabs
      PROVE  p.holds[s] = In(L, s) + Takers(p, s) /\ (s \in p.alive <=> p.holds[s] # 0)
  <2>1. In(L, s) = In(A, s) - In(h.released, s)
    BY <1>1, <1>4, InMinus
  <2>2. In(L, s) \in Nat /\ In(A, s) \in Nat /\ In(h.released, s) \in Nat
    BY <1>1, InNat
  <2>3. h.holds[s] = In(A, s) + Takers(h, s) /\ (s \in h.alive <=> h.holds[s] # 0)
    BY <1>1 DEF Counted
  <2>4. Takers(p, s) = 0 /\ (IF s = h.current THEN 1 ELSE 0) = Takers(h, s) /\ Takers(h, s) \in {0, 1}
    BY <1>3 DEF Takers
  <2>5. d.holds[s] = h.holds[s] - In(h.released, s) - Takers(h, s)
    BY <1>2, <2>4
  <2>6. p.holds[s] = In(L, s)
    BY <1>3, <2>1, <2>2, <2>3, <2>4, <2>5
  <2>7. s \in p.alive <=> s \in h.alive /\ p.holds[s] # 0
    BY <1>2, <1>3
  <2>8. p.holds[s] # 0 => h.holds[s] # 0
    BY <2>1, <2>2, <2>3, <2>4, <2>6
  <2>9. QED  BY <2>2, <2>3, <2>4, <2>6, <2>7, <2>8
<1>6. Counted(p, L)
  <2>1. p.alive \in SUBSET Slabs
    BY <1>3 DEF Heaps
  <2>2. QED  BY <1>5, <2>1 DEF Counted
<1>7. Placed(p, L)
  BY <1>1, <1>3 DEF Placed
<1>8. Allocated(p, L)
  BY <1>3 DEF Sound, Allocated
<1>9. IsFiniteSet(p.released)
  BY <1>3, FS_EmptySet
<1>10. Sound(p, L)
  BY <1>1, <1>3, <1>4, <1>6, <1>7, <1>8, <1>9 DEF Sound
<1>11. QED  BY <1>10 DEF p

-------------------------------------------------------------------------------
(* The nodes.                                                              *)

Node == [data : Storages \cup {None}, items : Storages \cup {None}, count : Nat]

\* What the nodes of the table f own, one of them and all of them.
OwnedIn(f, n) == {n, f[n].data, f[n].items} \ {None}
LiveIn(f) == UNION {OwnedIn(f, n) : n \in DOMAIN f}

\* A table of nodes none of whose storage is owned twice.
Once(n, node) ==
  /\ node \in Node
  /\ node.data # n /\ node.items # n
  /\ node.data = node.items => node.data = None
  /\ node.items = None => node.count = 0
Table(f) ==
  /\ f = [n \in DOMAIN f |-> f[n]]
  /\ DOMAIN f \subseteq Storages
  /\ \A n \in DOMAIN f : Once(n, f[n])
  /\ \A n, m \in DOMAIN f : n # m => OwnedIn(f, n) \cap OwnedIn(f, m) = {}

IInv == Table(nodes) /\ Sound(heap, LiveIn(nodes))

\* The same sets by the names of the model, before and after a step.
LEMMA LiveIsLiveIn ==
  /\ Live = LiveIn(nodes) /\ \A n : Owned(n) = OwnedIn(nodes, n)
  /\ Live' = LiveIn(nodes') /\ \A n : Owned(n)' = OwnedIn(nodes', n)
BY DEF Live, LiveIn, Owned, OwnedIn

\* A new node's storage is what is in use more.
LEMMA TableWith ==
  ASSUME NEW f, Table(f), NEW x \in Storages, x \notin LiveIn(f),
         NEW d \in Storages \cup {None}, d \notin LiveIn(f), d # x
  PROVE  LET g == [m \in DOMAIN f \cup {x} |-> IF m = x THEN Empty(d) ELSE f[m]]
         IN  Table(g) /\ LiveIn(g) = LiveIn(f) \cup ({x, d} \ {None})
<1> DEFINE g == [m \in DOMAIN f \cup {x} |-> IF m = x THEN Empty(d) ELSE f[m]]
<1>1. x \notin DOMAIN f /\ x # None
  BY NoneIsNoStorage DEF LiveIn, OwnedIn
<1>2. DOMAIN g = DOMAIN f \cup {x} /\ g[x] = Empty(d) /\ \A m \in DOMAIN f : g[m] = f[m]
  BY <1>1
<1>3. g = [n \in DOMAIN g |-> g[n]]
  OBVIOUS
<1> HIDE DEF g
<1>4. OwnedIn(g, x) = {x, d} \ {None} /\ \A m \in DOMAIN f : OwnedIn(g, m) = OwnedIn(f, m)
  BY <1>2 DEF OwnedIn, Empty
<1>5. \A m \in DOMAIN f : OwnedIn(f, m) \subseteq LiveIn(f)
  BY DEF LiveIn
<1>6. LiveIn(g) = LiveIn(f) \cup ({x, d} \ {None})
  BY <1>2, <1>4 DEF LiveIn
<1>7. Once(x, g[x])
  BY <1>1, <1>2 DEF Once, Empty, Node
<1>8. \A m \in DOMAIN f : Once(m, g[m])
  BY <1>2 DEF Table, Once
<1>9. \A n, m \in DOMAIN g : n # m => OwnedIn(g, n) \cap OwnedIn(g, m) = {}
  BY <1>2, <1>4, <1>5 DEF Table
<1>10. Table(g)
  BY <1>2, <1>3, <1>7, <1>8, <1>9 DEF Table
<1>11. QED  BY <1>6, <1>10 DEF g

\* The table f without the nodes N and with `node' in the slot n.
Changed(f, n, N, node) == [m \in DOMAIN f \ N |-> IF m = n THEN node ELSE f[m]]

\* What the nodes N own.
OwnedOf(f, N) == UNION {OwnedIn(f, m) : m \in N}

\* No node but that in the slot n owns what `node' does.
Free(f, n, node) == ({node.data, node.items} \ {None}) \cap (LiveIn(f) \ OwnedIn(f, n)) = {}

\* A node whose record or items are others owns those and not the old ones, and
\* nodes that are gone own nothing.
LEMMA TableChange ==
  ASSUME NEW f, Table(f), NEW n \in DOMAIN f, NEW N \in SUBSET (DOMAIN f \ {n}), NEW node, Once(n, node), Free(f, n, node)
  PROVE  /\ Table(Changed(f, n, N, node))
         /\ LiveIn(Changed(f, n, N, node)) = (LiveIn(f) \ (OwnedIn(f, n) \cup OwnedOf(f, N))) \cup ({n, node.data, node.items} \ {None})
<1> DEFINE g == Changed(f, n, N, node)
<1>1. DOMAIN g = DOMAIN f \ N /\ n \in DOMAIN g /\ g[n] = node /\ \A m \in DOMAIN g \ {n} : g[m] = f[m]
  BY DEF Changed
<1>2. g = [m \in DOMAIN g |-> g[m]]
  BY DEF Changed
<1> HIDE DEF g
<1>3. /\ OwnedIn(g, n) = {n, node.data, node.items} \ {None}
      /\ \A m \in DOMAIN g \ {n} : OwnedIn(g, m) = OwnedIn(f, m)
  BY <1>1 DEF OwnedIn
<1>4. n \in OwnedIn(f, n)
  BY NoneIsNoStorage DEF OwnedIn, Table
<1>5. \A m \in DOMAIN f \ {n} : OwnedIn(f, m) \subseteq LiveIn(f) \ OwnedIn(f, n)
  BY DEF LiveIn, Table
<1>6. \A m \in DOMAIN g \ {n} : OwnedIn(g, n) \cap OwnedIn(g, m) = {}
  BY <1>1, <1>3, <1>4, <1>5 DEF Free
<1>7. \A m \in DOMAIN g : Once(m, g[m])
  BY <1>1 DEF Table
<1>8. \A p, m \in DOMAIN g : p # m => OwnedIn(g, p) \cap OwnedIn(g, m) = {}
  BY <1>1, <1>3, <1>6 DEF Table
<1>9. Table(g)
  BY <1>1, <1>2, <1>7, <1>8 DEF Table
<1>10. ASSUME NEW v
       PROVE  v \in LiveIn(g) <=> v \in (LiveIn(f) \ (OwnedIn(f, n) \cup OwnedOf(f, N))) \cup OwnedIn(g, n)
  <2>0. v \in OwnedOf(f, N) <=> \E p \in N : v \in OwnedIn(f, p)
    BY DEF OwnedOf
  <2>1. ASSUME NEW m \in DOMAIN g \ {n}, v \in OwnedIn(g, m)
        PROVE  v \in LiveIn(f) /\ v \notin OwnedIn(f, n) /\ \A p \in N : v \notin OwnedIn(f, p)
    BY <1>1, <1>3, <2>1 DEF LiveIn, Table
  <2>2. ASSUME v \in LiveIn(f), v \notin OwnedIn(f, n), \A p \in N : v \notin OwnedIn(f, p)
        PROVE  \E m \in DOMAIN g \ {n} : v \in OwnedIn(g, m)
    <3>1. PICK m \in DOMAIN f : v \in OwnedIn(f, m)
      BY <2>2 DEF LiveIn
    <3>2. QED  BY <1>1, <1>3, <2>2, <3>1
  <2>3. v \in LiveIn(g) <=> v \in OwnedIn(g, n) \/ \E m \in DOMAIN g \ {n} : v \in OwnedIn(g, m)
    BY <1>1 DEF LiveIn
  <2>4. QED  BY <2>0, <2>1, <2>2, <2>3
<1>11. LiveIn(g) = (LiveIn(f) \ (OwnedIn(f, n) \cup OwnedOf(f, N))) \cup OwnedIn(g, n)
  BY <1>10
<1>12. QED  BY <1>3, <1>9, <1>11 DEF g

\* The table f without the nodes N.
Without(f, N) == [m \in DOMAIN f \ N |-> f[m]]

\* The nodes left once some are gone own what those did not.
LEMMA TableWithout ==
  ASSUME NEW f, Table(f), NEW N \in SUBSET DOMAIN f
  PROVE  Table(Without(f, N)) /\ LiveIn(Without(f, N)) = LiveIn(f) \ OwnedOf(f, N)
<1> DEFINE g == Without(f, N)
<1>1. DOMAIN g = DOMAIN f \ N /\ (\A m \in DOMAIN g : g[m] = f[m]) /\ g = [m \in DOMAIN g |-> g[m]]
  BY DEF Without
<1> HIDE DEF g
<1>2. \A m \in DOMAIN g : OwnedIn(g, m) = OwnedIn(f, m) /\ Once(m, g[m])
  BY <1>1 DEF OwnedIn, Once, Table
<1>3. Table(g)
  BY <1>1, <1>2 DEF Table
<1>4. ASSUME NEW v
      PROVE  v \in LiveIn(g) <=> v \in LiveIn(f) /\ \A p \in N : v \notin OwnedIn(f, p)
  <2>1. v \in LiveIn(g) <=> \E m \in DOMAIN f \ N : v \in OwnedIn(f, m)
    BY <1>1, <1>2 DEF LiveIn
  <2>2. v \in LiveIn(f) <=> \E m \in DOMAIN f : v \in OwnedIn(f, m)
    BY DEF LiveIn
  <2>3. \A m \in DOMAIN f \ N, p \in N : OwnedIn(f, m) \cap OwnedIn(f, p) = {}
    BY DEF Table
  <2>4. QED  BY <2>1, <2>2, <2>3
<1>5. LiveIn(g) = LiveIn(f) \ OwnedOf(f, N)
  BY <1>4 DEF OwnedOf
<1>6. QED  BY <1>3, <1>5 DEF g

\* One node of a table changed.
LEMMA TableExcept ==
  ASSUME NEW f, Table(f), NEW n \in DOMAIN f, NEW node, Once(n, node), Free(f, n, node)
  PROVE  /\ [f EXCEPT ![n] = node] = Changed(f, n, {}, node)
         /\ Table(Changed(f, n, {}, node))
         /\ LiveIn(Changed(f, n, {}, node)) = (LiveIn(f) \ OwnedIn(f, n)) \cup ({n, node.data, node.items} \ {None})
<1>1. [f EXCEPT ![n] = node] = Changed(f, n, {}, node)
  BY DEF Table, Changed
<1> DEFINE E == {}
<1>2. E \in SUBSET (DOMAIN f \ {n})
  OBVIOUS
<1>3. OwnedOf(f, E) = {}
  BY DEF OwnedOf
<1> HIDE DEF E
<1>4. /\ Table(Changed(f, n, E, node))
      /\ LiveIn(Changed(f, n, E, node)) = (LiveIn(f) \ (OwnedIn(f, n) \cup OwnedOf(f, E))) \cup ({n, node.data, node.items} \ {None})
  BY <1>2, TableChange
<1>5. QED  BY <1>1, <1>3, <1>4 DEF E

\* A node and what it owns, as one of a sound table.
LEMMA NodeOfTable ==
  ASSUME NEW f, Table(f), NEW n \in DOMAIN f
  PROVE  /\ n \in Storages /\ n # None /\ Once(n, f[n])
         /\ f[n] \in Node /\ f[n].count \in Nat
         /\ f[n].data \in Storages \cup {None} /\ f[n].items \in Storages \cup {None}
         /\ n \in LiveIn(f) /\ OwnedIn(f, n) \subseteq LiveIn(f)
         /\ f[n] = [data |-> f[n].data, items |-> f[n].items, count |-> f[n].count]
<1>1. n \in Storages /\ n # None /\ Once(n, f[n])
  BY NoneIsNoStorage DEF Table
<1>2. f[n] \in Node
  BY <1>1 DEF Once
<1>3. OwnedIn(f, n) \subseteq LiveIn(f) /\ n \in OwnedIn(f, n)
  BY <1>1 DEF LiveIn, OwnedIn
<1>4. QED  BY <1>1, <1>2, <1>3 DEF Node

\* Nothing is in use and the pool holds nothing at first.
LEMMA InitInv == Init => IInv
<1> SUFFICES ASSUME Init PROVE IInv
  OBVIOUS
<1>1. DOMAIN nodes = {} /\ nodes = [n \in DOMAIN nodes |-> nodes[n]]
  BY DEF Init
<1>2. Table(nodes) /\ LiveIn(nodes) = {}
  BY <1>1 DEF Table, LiveIn
<1>3. heap \in Heaps /\ heap.released = {} /\ heap.alive = {} /\ heap.own = {} /\ heap.current = None
      /\ \A s \in Slabs : heap.holds[s] = 0
  BY DEF Init, Heaps
<1>4. Counted(heap, {})
  <2>1. \A s \in Slabs : In({}, s) = 0 /\ Takers(heap, s) = 0
    BY <1>3, FS_EmptySet, InZero DEF Takers
  <2>2. QED  BY <1>3, <2>1 DEF Counted
<1>5. Placed(heap, {}) /\ Allocated(heap, {})
  BY <1>3 DEF Placed, Allocated, OwnOnes
<1>6. {} \cup heap.released = {}
  BY <1>3
<1>7. Sound(heap, {})
  BY <1>3, <1>4, <1>5, <1>6, FS_EmptySet DEF Sound
<1>8. QED  BY <1>2, <1>7 DEF IInv

\* A node is made with its slot and its record, or neither stays in use.
LEMMA NodeNewStep ==
  ASSUME IInv, NEW pooled \in BOOLEAN, NEW large \in BOOLEAN, NodeNew(pooled, large)
  PROVE  IInv'
<1> DEFINE L == LiveIn(nodes)
<1>0. Table(nodes) /\ Sound(heap, L) /\ RecordClass \in Nat
  BY DEF IInv, PoolAssumption
<1>1. PICK slot \in Takes(heap, pooled, 0) :
        \/ slot.got = None /\ heap' = slot.heap /\ UNCHANGED nodes
        \/ slot.got # None /\ ~large /\ heap' = slot.heap /\ nodes' = With(slot.got, Empty(None))
        \/ /\ slot.got # None /\ large
           /\ \E record \in Takes(slot.heap, pooled, RecordClass) :
                IF record.got = None
                THEN heap' = Released(record.heap, pooled, {slot.got}) /\ UNCHANGED nodes
                ELSE heap' = record.heap /\ nodes' = With(slot.got, Empty(record.got))
  BY DEF NodeNew
<1>2. Outcome(slot, L, 0)
  BY <1>0, TakesSound
<1>3. CASE slot.got = None /\ heap' = slot.heap /\ UNCHANGED nodes
  BY <1>0, <1>2, <1>3 DEF Outcome, IInv
<1>4. ASSUME slot.got # None
      PROVE  slot.got \in Storages /\ slot.got \notin L /\ Sound(slot.heap, L \cup {slot.got})
  BY <1>2, <1>4 DEF Outcome, Given
<1>5. CASE slot.got # None /\ ~large /\ heap' = slot.heap /\ nodes' = With(slot.got, Empty(None))
  <2>1. None \notin L
    BY DEF LiveIn, OwnedIn
  <2>2. Table(nodes') /\ LiveIn(nodes') = L \cup ({slot.got, None} \ {None})
    BY <1>0, <1>4, <1>5, <2>1, TableWith DEF With
  <2>3. {slot.got, None} \ {None} = {slot.got}
    BY <1>5
  <2>4. QED  BY <1>4, <1>5, <2>2, <2>3 DEF IInv
<1>6. ASSUME slot.got # None, NEW record \in Takes(slot.heap, pooled, RecordClass),
             record.got = None, heap' = Released(record.heap, pooled, {slot.got}), UNCHANGED nodes
      PROVE  IInv'
  <2>1. Sound(record.heap, L \cup {slot.got})
    BY <1>0, <1>4, <1>6, TakesSound DEF Outcome
  <2>2. Sound(heap', (L \cup {slot.got}) \ {slot.got})
    BY <1>6, <2>1, ReleasedSound
  <2>3. (L \cup {slot.got}) \ {slot.got} = L
    BY <1>4, <1>6
  <2>4. QED  BY <1>0, <1>6, <2>2, <2>3 DEF IInv
<1>7. ASSUME slot.got # None, NEW record \in Takes(slot.heap, pooled, RecordClass),
             record.got # None, heap' = record.heap, nodes' = With(slot.got, Empty(record.got))
      PROVE  IInv'
  <2>1. /\ record.got \in Storages /\ record.got \notin L \cup {slot.got}
        /\ Sound(record.heap, (L \cup {slot.got}) \cup {record.got})
    BY <1>0, <1>4, <1>7, TakesSound DEF Outcome, Given
  <2>2. Table(nodes') /\ LiveIn(nodes') = L \cup ({slot.got, record.got} \ {None})
    BY <1>0, <1>4, <1>7, <2>1, TableWith DEF With
  <2>3. L \cup ({slot.got, record.got} \ {None}) = (L \cup {slot.got}) \cup {record.got}
    BY <1>7
  <2>4. QED  BY <1>7, <2>1, <2>2, <2>3 DEF IInv
<1>8. QED  BY <1>1, <1>3, <1>5, <1>6, <1>7

\* An array that only counts otherwise owns what it owned.
LEMMA CountStep ==
  ASSUME IInv, NEW n \in DOMAIN nodes, nodes[n].items # None, NEW c \in Nat,
         nodes' = [nodes EXCEPT ![n].count = c], heap' = heap
  PROVE  IInv'
<1> DEFINE node == [data |-> nodes[n].data, items |-> nodes[n].items, count |-> c]
<1>0. Table(nodes) /\ Sound(heap, LiveIn(nodes))
  BY DEF IInv
<1>1. /\ n \in Storages /\ n # None /\ Once(n, nodes[n]) /\ nodes[n] \in Node
      /\ nodes[n].data \in Storages \cup {None} /\ nodes[n].items \in Storages \cup {None}
      /\ OwnedIn(nodes, n) \subseteq LiveIn(nodes)
  BY <1>0, NodeOfTable
<1>2. nodes' = [nodes EXCEPT ![n] = node]
  <2>1. [nodes[n] EXCEPT !.count = c] = node
    BY <1>1 DEF Node
  <2>2. nodes' = [nodes EXCEPT ![n] = [nodes[n] EXCEPT !.count = c]]
    OBVIOUS
  <2>3. QED  BY <2>1, <2>2
<1>3. node \in Node /\ node.data = nodes[n].data /\ node.items = nodes[n].items
  BY <1>1 DEF Node
<1> HIDE DEF node
<1>4. /\ Table(nodes')
      /\ LiveIn(nodes') = (LiveIn(nodes) \ OwnedIn(nodes, n)) \cup ({n, node.data, node.items} \ {None})
  <2>1. Once(n, node)
    BY <1>1, <1>3 DEF Once
  <2>2. Free(nodes, n, node)
    BY <1>3 DEF OwnedIn, Free
  <2>3. /\ [nodes EXCEPT ![n] = node] = Changed(nodes, n, {}, node)
        /\ Table(Changed(nodes, n, {}, node))
        /\ LiveIn(Changed(nodes, n, {}, node)) = (LiveIn(nodes) \ OwnedIn(nodes, n)) \cup ({n, node.data, node.items} \ {None})
    BY <1>0, <2>1, <2>2, TableExcept
  <2>4. QED  BY ONLY <1>2, <2>3
<1>5. {n, node.data, node.items} \ {None} = OwnedIn(nodes, n)
  BY <1>3 DEF OwnedIn
<1>6. LiveIn(nodes') = LiveIn(nodes)
  BY <1>1, <1>4, <1>5
<1>7. QED  BY <1>0, <1>4, <1>6 DEF IInv

\* An array that moved owns its new storage and not the old.
LEMMA ItemsMoved ==
  ASSUME Table(nodes), NEW n \in DOMAIN nodes, NEW y \in Storages, y \notin LiveIn(nodes), NEW c \in Nat,
         nodes' = [nodes EXCEPT ![n].items = y, ![n].count = c]
  PROVE  Table(nodes') /\ LiveIn(nodes') = (LiveIn(nodes) \ ({nodes[n].items} \ {None})) \cup {y}
<1> DEFINE node == [data |-> nodes[n].data, items |-> y, count |-> c]
<1>0. Table(nodes)
  OBVIOUS
<1>1. /\ n \in Storages /\ n # None /\ Once(n, nodes[n]) /\ nodes[n] \in Node /\ n \in LiveIn(nodes)
      /\ nodes[n].data \in Storages \cup {None} /\ nodes[n].items \in Storages \cup {None}
      /\ OwnedIn(nodes, n) \subseteq LiveIn(nodes)
  BY NodeOfTable
<1>2. nodes' = [nodes EXCEPT ![n] = node]
  <2> DEFINE moved == [nodes[n] EXCEPT !.items = y]
  <2>1. moved = [data |-> nodes[n].data, items |-> y, count |-> nodes[n].count]
    BY <1>1 DEF Node
  <2>2. [moved EXCEPT !.count = c] = node
    <3> HIDE DEF moved
    <3> QED  BY <2>1
  <2>3. nodes' = [nodes EXCEPT ![n] = [moved EXCEPT !.count = c]]
    OBVIOUS
  <2>4. QED  BY <2>2, <2>3
<1>3. node \in Node /\ node.data = nodes[n].data /\ node.items = y /\ y # None
  BY <1>1, NoneIsNoStorage DEF Node
<1> HIDE DEF node
<1>4. nodes[n].data # None => nodes[n].data \in OwnedIn(nodes, n)
  BY DEF OwnedIn
<1>5. /\ Table(nodes')
      /\ LiveIn(nodes') = (LiveIn(nodes) \ OwnedIn(nodes, n)) \cup ({n, node.data, node.items} \ {None})
  <2>1. Once(n, node)
    BY <1>1, <1>3, <1>4 DEF Once
  <2>2. Free(nodes, n, node)
    BY <1>3, <1>4 DEF Free
  <2>3. /\ [nodes EXCEPT ![n] = node] = Changed(nodes, n, {}, node)
        /\ Table(Changed(nodes, n, {}, node))
        /\ LiveIn(Changed(nodes, n, {}, node)) = (LiveIn(nodes) \ OwnedIn(nodes, n)) \cup ({n, node.data, node.items} \ {None})
    BY <1>0, <2>1, <2>2, TableExcept
  <2>4. QED  BY ONLY <1>2, <2>3
<1>6. (LiveIn(nodes) \ OwnedIn(nodes, n)) \cup ({n, node.data, node.items} \ {None})
        = (LiveIn(nodes) \ ({nodes[n].items} \ {None})) \cup {y}
  BY <1>1, <1>3, <1>4 DEF OwnedIn, Once
<1>7. QED  BY <1>5, <1>6

\* A push takes, moves or extends an array, and an array that moved gives its
\* old storage back.
LEMMA ArrayPushStep ==
  ASSUME IInv, NEW n \in DOMAIN nodes, NEW pooled \in BOOLEAN, ArrayPush(n, pooled)
  PROVE  IInv'
<1> DEFINE L == LiveIn(nodes)
           held == nodes[n].count
           items == nodes[n].items
<1>0. Table(nodes) /\ Sound(heap, L)
  BY DEF IInv
<1>1. /\ held \in Nat /\ items \in Storages \cup {None} /\ Once(n, nodes[n])
      /\ OwnedIn(nodes, n) \subseteq L
  BY <1>0, NodeOfTable
<1>2. ASSUME items # None, ArrayAppend(n)
      PROVE  IInv'
  <2>1. nodes' = [nodes EXCEPT ![n].count = held + 1] /\ heap' = heap
    BY <1>2 DEF ArrayAppend
  <2>2. held + 1 \in Nat
    BY <1>1
  <2>3. QED  BY <1>2, <2>1, <2>2, CountStep
<1>3. CASE held >= 2 /\ IsPower(held)
  <2>1. items # None /\ items \in Storages /\ ArrayPushFull(n, pooled)
    BY <1>1, <1>3 DEF ArrayPush, Once
  <2>2. CASE Pointers(items) > held
    BY <1>2, <2>1, <2>2 DEF ArrayPushFull
  <2>3. CASE ~(Pointers(items) > held)
    <3>1. PICK moved \in Takes(heap, pooled, held) :
            IF moved.got = None THEN heap' = moved.heap /\ UNCHANGED nodes
            ELSE /\ heap' = Released(moved.heap, pooled, {items})
                 /\ nodes' = [nodes EXCEPT ![n].items = moved.got, ![n].count = held + 1]
      BY <2>1, <2>3 DEF ArrayPushFull
    <3>2. Outcome(moved, L, held)
      BY <1>0, <1>1, TakesSound
    <3>3. CASE moved.got = None
      BY <1>0, <3>1, <3>2, <3>3 DEF Outcome, IInv
    <3>4. CASE moved.got # None
      <4>1. moved.got \in Storages /\ moved.got \notin L /\ Sound(moved.heap, L \cup {moved.got})
        BY <3>2, <3>4 DEF Outcome, Given
      <4>2. {items} \in SUBSET (L \cup {moved.got}) /\ items \in L
        BY <1>1, <2>1 DEF OwnedIn
      <4>3. Sound(heap', (L \cup {moved.got}) \ {items})
        BY <3>1, <3>4, <4>1, <4>2, ReleasedSound
      <4>4. Table(nodes') /\ LiveIn(nodes') = (L \ ({items} \ {None})) \cup {moved.got}
        <5>1. nodes' = [nodes EXCEPT ![n].items = moved.got, ![n].count = held + 1] /\ held + 1 \in Nat
          BY <1>1, <3>1, <3>4
        <5>2. QED  BY <1>0, <4>1, <5>1, ItemsMoved
      <4>5. (L \cup {moved.got}) \ {items} = (L \ ({items} \ {None})) \cup {moved.got}
        BY <2>1, <4>1, <4>2
      <4>6. QED  BY <4>3, <4>4, <4>5 DEF IInv
    <3>5. QED  BY <3>3, <3>4
  <2>4. QED  BY <2>2, <2>3
<1>4. CASE ~(held >= 2 /\ IsPower(held)) /\ items = None
  <2>1. PICK taken \in Takes(heap, pooled, 1) :
          /\ heap' = taken.heap
          /\ IF taken.got = None THEN UNCHANGED nodes
             ELSE nodes' = [nodes EXCEPT ![n].items = taken.got, ![n].count = 1]
    BY <1>4 DEF ArrayPush, ArrayStart
  <2>2. Outcome(taken, L, 1)
    BY <1>0, TakesSound
  <2>3. CASE taken.got = None
    BY <1>0, <2>1, <2>2, <2>3 DEF Outcome, IInv
  <2>4. CASE taken.got # None
    <3>1. taken.got \in Storages /\ taken.got \notin L /\ Sound(taken.heap, L \cup {taken.got})
      BY <2>2, <2>4 DEF Outcome, Given
    <3>2. Table(nodes') /\ LiveIn(nodes') = (L \ ({items} \ {None})) \cup {taken.got}
      <4>1. nodes' = [nodes EXCEPT ![n].items = taken.got, ![n].count = 1]
        BY <2>1, <2>4
      <4>2. QED  BY <1>0, <3>1, <4>1, ItemsMoved
    <3>3. L \ ({items} \ {None}) = L
      BY <1>4
    <3>4. QED  BY <2>1, <3>1, <3>2, <3>3 DEF IInv
  <2>5. QED  BY <2>3, <2>4
<1>5. CASE ~(held >= 2 /\ IsPower(held)) /\ items # None
  BY <1>2, <1>5 DEF ArrayPush
<1>6. QED  BY <1>3, <1>4, <1>5

\* A pop leaves an array its storage.
LEMMA ArrayPopStep ==
  ASSUME IInv, NEW n \in DOMAIN nodes, ArrayPop(n)
  PROVE  IInv'
<1>1. nodes[n].count \in Nat /\ Once(n, nodes[n])
  BY NodeOfTable DEF IInv
<1>2. nodes[n].count > 0 /\ nodes' = [nodes EXCEPT ![n].count = nodes[n].count - 1] /\ heap' = heap
  BY DEF ArrayPop
<1>3. nodes[n].items # None /\ nodes[n].count - 1 \in Nat
  BY <1>1, <1>2 DEF Once
<1>4. QED  BY <1>2, <1>3, CountStep

\* A kind change owns the new record and has given back the old one and the
\* nodes of its fields.
LEMMA SetKindStep ==
  ASSUME IInv, NEW n \in DOMAIN nodes, NEW large \in BOOLEAN, NEW N \in SUBSET (DOMAIN nodes \ {n}), SetKind(n, large, N)
  PROVE  IInv'
<1> DEFINE L == LiveIn(nodes)
           data == nodes[n].data
           gone == ({data} \ {None}) \cup OwnedOf(nodes, N)
<1>0. Table(nodes) /\ Sound(heap, L) /\ RecordClass \in Nat
  BY DEF IInv, PoolAssumption
<1>1. PICK record \in IF large THEN Takes(heap, FALSE, RecordClass) ELSE {Refused(heap)} :
        IF large /\ record.got = None THEN UNCHANGED vars
        ELSE /\ heap' = Released(record.heap, FALSE, ({nodes[n].data} \ {None}) \cup UNION {Owned(m) : m \in N})
             /\ nodes' = [m \in DOMAIN nodes \ N |-> IF m = n THEN [nodes[n] EXCEPT !.data = record.got] ELSE nodes[m]]
  BY DEF SetKind
<1>2. CASE large /\ record.got = None
  BY <1>0, <1>1, <1>2 DEF IInv, vars
<1>3. CASE ~(large /\ record.got = None)
  <2> DEFINE node == [data |-> record.got, items |-> nodes[n].items, count |-> nodes[n].count]
             more == {record.got} \ {None}
  <2>1. /\ n \in Storages /\ n # None /\ Once(n, nodes[n]) /\ nodes[n] \in Node /\ n \in L
        /\ nodes[n].data \in Storages \cup {None} /\ nodes[n].items \in Storages \cup {None}
        /\ nodes[n].count \in Nat /\ OwnedIn(nodes, n) \subseteq L
    BY <1>0, NodeOfTable
  <2>2. /\ record.got \in Storages \cup {None} /\ record.got \notin L
        /\ Sound(record.heap, L \cup more)
    <3>1. None \notin L
      BY DEF LiveIn, OwnedIn
    <3>2. CASE large
      <4>1. Outcome(record, L, RecordClass) /\ record.got # None
        BY <1>0, <1>1, <1>3, <3>2, TakesSound
      <4>2. more = {record.got}
        BY <4>1
      <4>3. QED  BY <4>1, <4>2 DEF Outcome, Given
    <3>3. CASE ~large
      <4>1. record.got = None /\ record.heap = heap
        BY <1>1, <3>3 DEF Refused
      <4>2. L \cup more = L
        BY <4>1
      <4>3. QED  BY <1>0, <3>1, <4>1, <4>2
    <3>4. QED  BY <3>2, <3>3
  <2>3. UNION {Owned(m) : m \in N} = OwnedOf(nodes, N)
    BY DEF Owned, OwnedIn, OwnedOf
  <2>4. heap' = Released(record.heap, FALSE, gone)
    BY <1>1, <1>3, <2>3
  <2>5. nodes' = Changed(nodes, n, N, node)
    <3>1. [nodes[n] EXCEPT !.data = record.got] = node
      BY <2>1 DEF Node
    <3>2. QED  BY <1>1, <1>3, <3>1 DEF Changed
  <2>6. node.data = record.got /\ node.items = nodes[n].items /\ node.count = nodes[n].count /\ node \in Node
    BY <2>1, <2>2 DEF Node
  <2> HIDE DEF node
  <2>7. Once(n, node) /\ Free(nodes, n, node)
    <3>1. nodes[n].items # None => nodes[n].items \in OwnedIn(nodes, n)
      BY DEF OwnedIn
    <3>2. QED  BY <2>1, <2>2, <2>6, <3>1 DEF Once, Free
  <2>8. /\ Table(nodes')
        /\ LiveIn(nodes') = (L \ (OwnedIn(nodes, n) \cup OwnedOf(nodes, N))) \cup ({n, node.data, node.items} \ {None})
    <3>1. /\ Table(Changed(nodes, n, N, node))
          /\ LiveIn(Changed(nodes, n, N, node)) = (L \ (OwnedIn(nodes, n) \cup OwnedOf(nodes, N))) \cup ({n, node.data, node.items} \ {None})
      BY <1>0, <2>7, TableChange
    <3>2. QED  BY ONLY <2>5, <3>1
  <2>9. OwnedOf(nodes, N) \subseteq L /\ OwnedOf(nodes, N) \cap OwnedIn(nodes, n) = {}
    BY <1>0 DEF OwnedOf, LiveIn, Table
  <2>10. gone \subseteq L
    BY <2>1, <2>9 DEF OwnedIn
  <2>11. LiveIn(nodes') = (L \cup more) \ gone
    <3>1. OwnedIn(nodes, n) = {n, data, nodes[n].items} \ {None}
      BY DEF OwnedIn
    <3> HIDE DEF L
    <3>2. (L \ (OwnedIn(nodes, n) \cup OwnedOf(nodes, N))) \cup ({n, node.data, node.items} \ {None}) = (L \cup more) \ gone
      BY <2>1, <2>2, <2>6, <2>9, <2>10, <3>1 DEF Once
    <3>3. QED  BY <2>8, <3>2
  <2>12. Sound(heap', (L \cup more) \ gone)
    <3>1. gone \in SUBSET (L \cup more)
      BY <2>10
    <3> HIDE DEF gone, L, more
    <3>2. QED  BY <2>2, <2>4, <3>1, ReleasedSound
  <2>13. QED  BY <2>8, <2>11, <2>12 DEF IInv
<1>4. QED  BY <1>2, <1>3

\* Two nodes that exchange what their slots hold own together what they owned.
LEMMA SwapStep ==
  ASSUME IInv, NEW n \in DOMAIN nodes, NEW m \in DOMAIN nodes, Swap(n, m)
  PROVE  IInv'
<1> DEFINE g == [nodes EXCEPT ![n] = nodes[m], ![m] = nodes[n]]
<1>0. Table(nodes) /\ Sound(heap, LiveIn(nodes)) /\ nodes' = g /\ heap' = heap
  BY DEF IInv, Swap
<1>1. /\ DOMAIN g = DOMAIN nodes /\ g[n] = nodes[m] /\ g[m] = nodes[n]
      /\ \A p \in DOMAIN nodes \ {n, m} : g[p] = nodes[p]
      /\ g = [p \in DOMAIN g |-> g[p]]
  BY <1>0 DEF Table
<1> HIDE DEF g
<1>2. CASE n = m
  <2>1. \A p \in DOMAIN nodes : g[p] = nodes[p]
    BY <1>1, <1>2
  <2>2. g = nodes
    BY <1>0, <1>1, <2>1 DEF Table
  <2>3. QED  BY <1>0, <2>2 DEF IInv
<1>3. CASE n # m
  <2>1. /\ Once(n, nodes[n]) /\ Once(m, nodes[m]) /\ n # None /\ m # None
        /\ OwnedIn(nodes, n) \cap OwnedIn(nodes, m) = {}
    BY <1>0, <1>3, NodeOfTable DEF Table
  <2>2. /\ OwnedIn(nodes, n) = {n, nodes[n].data, nodes[n].items} \ {None}
        /\ OwnedIn(nodes, m) = {m, nodes[m].data, nodes[m].items} \ {None}
        /\ OwnedIn(g, n) = {n, nodes[m].data, nodes[m].items} \ {None}
        /\ OwnedIn(g, m) = {m, nodes[n].data, nodes[n].items} \ {None}
        /\ \A p \in DOMAIN nodes \ {n, m} : OwnedIn(g, p) = OwnedIn(nodes, p)
    BY <1>1 DEF OwnedIn
  <2>3. OwnedIn(g, n) \cup OwnedIn(g, m) = OwnedIn(nodes, n) \cup OwnedIn(nodes, m)
    BY <2>2
  <2>4. OwnedIn(g, n) \cap OwnedIn(g, m) = {}
    BY <1>3, <2>1, <2>2 DEF Once
  <2>5. Once(n, nodes[m]) /\ Once(m, nodes[n])
    BY <2>1, <2>2 DEF Once
  <2>6. \A p \in DOMAIN g : Once(p, g[p])
    BY <1>0, <1>1, <2>5 DEF Table
  <2>7. \A p \in DOMAIN nodes \ {n, m} : OwnedIn(nodes, p) \cap (OwnedIn(nodes, n) \cup OwnedIn(nodes, m)) = {}
    BY <1>0 DEF Table
  <2>8. \A p, q \in DOMAIN g : p # q => OwnedIn(g, p) \cap OwnedIn(g, q) = {}
    <3>1. \A p \in DOMAIN nodes \ {n, m} : OwnedIn(g, p) \cap OwnedIn(g, n) = {} /\ OwnedIn(g, p) \cap OwnedIn(g, m) = {}
      BY <2>2, <2>3, <2>7
    <3>2. \A p, q \in DOMAIN nodes \ {n, m} : p # q => OwnedIn(g, p) \cap OwnedIn(g, q) = {}
      BY <1>0, <2>2 DEF Table
    <3>3. QED  BY <1>1, <2>4, <3>1, <3>2
  <2>9. Table(g)
    BY <1>0, <1>1, <2>6, <2>8 DEF Table
  <2>10. LiveIn(g) = LiveIn(nodes)
    <3>1. ASSUME NEW v PROVE v \in LiveIn(g) <=> v \in LiveIn(nodes)
      <4>1. v \in LiveIn(g) <=> v \in OwnedIn(g, n) \cup OwnedIn(g, m) \/ \E p \in DOMAIN nodes \ {n, m} : v \in OwnedIn(g, p)
        BY <1>1 DEF LiveIn
      <4>2. v \in LiveIn(nodes) <=> v \in OwnedIn(nodes, n) \cup OwnedIn(nodes, m) \/ \E p \in DOMAIN nodes \ {n, m} : v \in OwnedIn(nodes, p)
        BY DEF LiveIn
      <4>3. QED  BY <2>2, <2>3, <4>1, <4>2
    <3>2. QED  BY <3>1
  <2>11. QED  BY <1>0, <2>9, <2>10 DEF IInv
<1>4. QED  BY <1>2, <1>3

\* The release of a subtree gives back what its nodes own, and no more.
LEMMA NodeReleaseStep ==
  ASSUME IInv, NEW N \in SUBSET DOMAIN nodes, NEW pooled \in BOOLEAN, NodeRelease(N, pooled)
  PROVE  IInv'
<1>1. Table(nodes) /\ Sound(heap, LiveIn(nodes))
  BY DEF IInv
<1>2. UNION {Owned(m) : m \in N} = OwnedOf(nodes, N)
  BY DEF Owned, OwnedIn, OwnedOf
<1>3. heap' = Released(heap, pooled, OwnedOf(nodes, N)) /\ nodes' = Without(nodes, N)
  BY <1>2 DEF NodeRelease, Without
<1>4. OwnedOf(nodes, N) \in SUBSET LiveIn(nodes)
  BY DEF OwnedOf, LiveIn
<1>5. Sound(heap', LiveIn(nodes) \ OwnedOf(nodes, N))
  BY <1>1, <1>3, <1>4, ReleasedSound
<1>6. Table(Without(nodes, N)) /\ LiveIn(Without(nodes, N)) = LiveIn(nodes) \ OwnedOf(nodes, N)
  BY <1>1, TableWithout
<1>7. QED  BY <1>3, <1>5, <1>6 DEF IInv

\* The disposal changes no node.
LEMMA DisposeStep ==
  ASSUME IInv, Dispose
  PROVE  IInv'
<1>1. heap' = Disposed(heap) /\ nodes' = nodes /\ Table(nodes) /\ Sound(heap, LiveIn(nodes))
  BY DEF Dispose, IInv
<1>2. Sound(Disposed(heap), LiveIn(nodes))
  BY <1>1, DisposedSound
<1>3. QED  BY <1>1, <1>2 DEF IInv

\* Every step leaves sound nodes and a sound heap.
LEMMA NextStep == IInv /\ [Next]_vars => IInv'
<1> SUFFICES ASSUME IInv, [Next]_vars PROVE IInv'
  OBVIOUS
<1>1. CASE \E pooled, large \in BOOLEAN : NodeNew(pooled, large)
  BY <1>1, NodeNewStep
<1>2. CASE \E n \in DOMAIN nodes, pooled \in BOOLEAN : ArrayPush(n, pooled)
  BY <1>2, ArrayPushStep
<1>3. CASE \E n \in DOMAIN nodes : ArrayPop(n)
  BY <1>3, ArrayPopStep
<1>4. CASE \E n \in DOMAIN nodes, large \in BOOLEAN : \E N \in SUBSET (DOMAIN nodes \ {n}) : SetKind(n, large, N)
  BY <1>4, SetKindStep
<1>5. CASE \E n, m \in DOMAIN nodes : Swap(n, m)
  BY <1>5, SwapStep
<1>6. CASE \E N \in SUBSET DOMAIN nodes, pooled \in BOOLEAN : NodeRelease(N, pooled)
  BY <1>6, NodeReleaseStep
<1>7. CASE Dispose
  BY <1>7, DisposeStep
<1>8. CASE UNCHANGED vars
  BY <1>8 DEF vars, IInv
<1>9. QED
  BY <1>1, <1>2, <1>3, <1>4, <1>5, <1>6, <1>7, <1>8 DEF Next

-------------------------------------------------------------------------------
(* What holds of every pool.                                               *)

\* The invariant of slab.h, slab.c and the pool of node.c.
THEOREM Invariance == Spec => []IInv
BY InitInv, NextStep, PTL DEF Spec

\* The hold counts are exact.
THEOREM HoldsAlwaysCounted == Spec => []HoldsCounted
<1>1. IInv => HoldsCounted
  BY LiveIsLiveIn DEF IInv, Sound, Counted, Takers, HoldsCounted, All
<1>2. QED  BY <1>1, Invariance, PTL

\* No storage in use or released lies in freed memory, whatever pools were
\* disposed and nodes released, and in whichever order.
THEOREM NothingEverDangles == Spec => []NothingDangles
<1>1. ASSUME IInv PROVE NothingDangles
  <2> DEFINE A == LiveIn(nodes) \cup heap.released
  <2>1. /\ heap \in Heaps /\ IsFiniteSet(A) /\ Counted(heap, A) /\ Allocated(heap, LiveIn(nodes))
        /\ heap.released \cap LiveIn(nodes) = {} /\ \A x \in heap.released : x.slab # None
        /\ A \subseteq Storages
    <3>1. Sound(heap, LiveIn(nodes))
      BY <1>1 DEF IInv
    <3>2. heap \in Heaps /\ heap.released \subseteq Storages
      BY <3>1 DEF Sound, Heaps
    <3>3. IsFiniteSet(A)
      BY <3>1, FS_Union DEF Sound
    <3>4. QED  BY <3>1, <3>2, <3>3 DEF Sound
  <2>2. ASSUME NEW x \in A, x.slab # None PROVE x.slab \in heap.alive
    <3>1. x.slab \in Slabs
      BY <2>1, <2>2 DEF Storages
    <3>2. QED  BY <2>1, <3>1, AliveHolds
  <2>3. ASSUME NEW x \in A, x.slab = None PROVE x.at \in heap.own
    BY <2>1, <2>3 DEF Allocated, OwnOnes
  <2>4. heap.current # None => heap.current \in heap.alive
    <3>1. heap.current # None => heap.current \in Slabs
      BY <2>1 DEF Heaps
    <3>2. QED  BY <2>1, <3>1, AliveHolds
  <2>5. All = A /\ Live = LiveIn(nodes)
    BY LiveIsLiveIn DEF All
  <2>6. QED  BY <2>1, <2>2, <2>3, <2>4, <2>5 DEF NothingDangles
<1>2. QED  BY <1>1, Invariance, PTL

\* A slab or a slot of its own that nothing holds is freed.
THEOREM NothingEverLeaks == Spec => []NothingLeaks
<1>1. ASSUME IInv PROVE NothingLeaks
  <2> DEFINE A == LiveIn(nodes) \cup heap.released
  <2>1. heap \in Heaps /\ IsFiniteSet(A) /\ Counted(heap, A) /\ Allocated(heap, LiveIn(nodes)) /\ heap.alive \subseteq Slabs
    <3>1. Sound(heap, LiveIn(nodes))
      BY <1>1 DEF IInv
    <3>2. heap \in Heaps /\ heap.alive \subseteq Slabs
      BY <3>1 DEF Sound, Heaps
    <3>3. IsFiniteSet(A)
      BY <3>1, FS_Union DEF Sound
    <3>4. QED  BY <3>1, <3>2, <3>3 DEF Sound
  <2>2. \A s \in heap.alive : heap.current = s \/ \E x \in A : x.slab = s
    BY <2>1, AliveHolds
  <2>3. All = A /\ Live = LiveIn(nodes)
    BY LiveIsLiveIn DEF All
  <2>4. QED  BY <2>1, <2>2, <2>3 DEF NothingLeaks, Allocated, OwnOnes
<1>2. QED  BY <1>1, Invariance, PTL

\* No two storages in use or released overlap, and each lies in its slab.
THEOREM NothingEverOverlaps == Spec => []NothingOverlaps
<1>1. ASSUME IInv PROVE NothingOverlaps
  <2>1. Placed(heap, All)
    <3>1. All = LiveIn(nodes) \cup heap.released
      BY LiveIsLiveIn DEF All
    <3>2. Sound(heap, LiveIn(nodes))
      BY <1>1 DEF IInv
    <3>3. Placed(heap, LiveIn(nodes) \cup heap.released)
      BY <3>2 DEF Sound
    <3>4. QED  BY <3>1, <3>3
  <2>2. ASSUME NEW x \in All, x.slab # None
        PROVE  x.at >= 1 /\ x.at + Stride(x.class) <= SlabSize
    <3>1. Inside(x)
      BY <2>1, <2>2 DEF Placed
    <3>2. QED  BY <3>1 DEF Inside
  <2>3. QED  BY <2>1, <2>2 DEF NothingOverlaps, Placed, Disjoint
<1>2. QED  BY <1>1, Invariance, PTL

\* No storage is owned by two nodes, so none is given back twice.
THEOREM NothingEverShared == Spec => []NothingShared
<1>1. IInv => NothingShared
  BY LiveIsLiveIn DEF IInv, Table, NothingShared
<1>2. QED  BY <1>1, Invariance, PTL

-------------------------------------------------------------------------------
(* The items of an array.  Only a count at a power of two asks the storage *)
(* for its room: that is enough because the room itself is one.            *)

LEMMA PowersOfTwo ==
  /\ IsPower(1)
  /\ \A c \in Nat : IsPower(c) => c >= 1 /\ IsPower(2 * c)
<1>1. 2^0 = 1
  OBVIOUS
<1>2. IsPower(1)
  BY <1>1 DEF IsPower
<1>3. ASSUME NEW c \in Nat, IsPower(c) PROVE c >= 1 /\ IsPower(2 * c)
  <2>1. PICK k \in 0..c : c = 2^k
    BY <1>3 DEF IsPower
  <2>2. c # 0
    <3>1. SUFFICES ASSUME c = 0 PROVE FALSE
      OBVIOUS
    <3>2. k = 0
      BY <2>1, <3>1
    <3>3. QED  BY <1>1, <2>1, <3>1, <3>2
  <2>3. k \in Nat /\ k + 1 \in 0..(2 * c) /\ 2 * c = 2^(k + 1)
    BY <2>1, <2>2, TwoExp
  <2>4. QED  BY <2>2, <2>3 DEF IsPower
<1>4. QED  BY <1>2, <1>3

\* The room of an array's storage is a power of two that its items do not pass.
Fits(node) ==
  node.items # None => IsPower(node.items.class) /\ node.count <= Pointers(node.items)
ItemsFit == \A n \in DOMAIN nodes : Fits(nodes[n])

\* What is taken is of the class asked for.
LEMMA TakenClass ==
  ASSUME NEW h, NEW pooled \in BOOLEAN, NEW c, NEW x \in Takes(h, pooled, c), x.got # None
  PROVE  x.got.class = c
<1>1. \A g : Refused(g).got = None /\ Cut(g, c).got.class = c
  BY DEF Refused, Cut
<1>2. CASE x \in OwnTakes(h, c)
  <2>1. x # Refused(h)
    BY <1>1
  <2>2. PICK i \in Owns : x = [heap |-> [h EXCEPT !.own = @ \cup {i}], got |-> [slab |-> None, at |-> i, class |-> c]]
    BY <1>2, <2>1 DEF OwnTakes
  <2>3. x.got = [slab |-> None, at |-> i, class |-> c]
    BY <2>2
  <2>4. QED  BY <2>3
<1>3. CASE x \in PoolTakes(h, c)
  <2>1. \/ \E y \in h.released : x.got = y /\ y.class = c
        \/ \E g : x = Refused(g) \/ x = Cut(g, c)
    BY <1>3 DEF PoolTakes
  <2>2. QED  BY <1>1, <2>1
<1>4. QED  BY <1>2, <1>3 DEF Takes

LEMMA PushFits ==
  ASSUME IInv, ItemsFit, NEW n \in DOMAIN nodes, NEW pooled \in BOOLEAN, ArrayPush(n, pooled)
  PROVE  ItemsFit'
<1> DEFINE held == nodes[n].count
           items == nodes[n].items
<1>1. /\ held \in Nat /\ items \in Storages \cup {None} /\ nodes[n] \in Node /\ Once(n, nodes[n])
  BY NodeOfTable DEF IInv
<1>2. items # None => items.class \in Nat /\ IsPower(items.class) /\ held <= 2 * items.class
  BY <1>1 DEF ItemsFit, Fits, Pointers, Storages
<1>3. ASSUME items # None, held + 1 <= 2 * items.class, ArrayAppend(n)
      PROVE  ItemsFit'
  <2>1. nodes' = [nodes EXCEPT ![n].count = held + 1]
    BY <1>3 DEF ArrayAppend
  <2>2. nodes'[n].items = items /\ nodes'[n].count = held + 1
    BY <1>1, <2>1 DEF Node
  <2>3. Fits(nodes'[n])
    BY <1>2, <1>3, <2>2 DEF Fits, Pointers
  <2>4. QED  BY <2>1, <2>3 DEF ItemsFit, Fits, Pointers
<1>4. ASSUME NEW y, NEW c \in Nat, y.class \in Nat, IsPower(y.class), c <= 2 * y.class,
             nodes' = [nodes EXCEPT ![n].items = y, ![n].count = c]
      PROVE  ItemsFit'
  <2>1. nodes'[n].items = y /\ nodes'[n].count = c
    BY <1>1, <1>4 DEF Node
  <2>2. Fits(nodes'[n])
    BY <1>4, <2>1 DEF Fits, Pointers
  <2>3. QED  BY <1>4, <2>2 DEF ItemsFit, Fits, Pointers
<1>5. UNCHANGED nodes => ItemsFit'
  BY DEF ItemsFit, Fits, Pointers
<1>6. CASE held >= 2 /\ IsPower(held)
  <2>1. items # None /\ ArrayPushFull(n, pooled)
    BY <1>1, <1>6 DEF ArrayPush, Once
  <2>2. CASE Pointers(items) > held
    BY <1>1, <1>2, <1>3, <2>1, <2>2 DEF ArrayPushFull, Pointers
  <2>3. CASE ~(Pointers(items) > held)
    <3>1. PICK moved \in Takes(heap, pooled, held) :
            IF moved.got = None THEN UNCHANGED nodes
            ELSE nodes' = [nodes EXCEPT ![n].items = moved.got, ![n].count = held + 1]
      BY <2>1, <2>3 DEF ArrayPushFull
    <3>2. CASE moved.got = None
      BY <1>5, <3>1, <3>2
    <3>3. CASE moved.got # None
      <4>1. moved.got.class = held /\ held + 1 \in Nat /\ held + 1 <= 2 * held
        BY <1>1, <1>6, <3>3, TakenClass
      <4>2. QED  BY <1>1, <1>4, <1>6, <3>1, <3>3, <4>1
    <3>4. QED  BY <3>2, <3>3
  <2>4. QED  BY <2>2, <2>3
<1>7. CASE ~(held >= 2 /\ IsPower(held)) /\ items = None
  <2>1. PICK taken \in Takes(heap, pooled, 1) :
          IF taken.got = None THEN UNCHANGED nodes
          ELSE nodes' = [nodes EXCEPT ![n].items = taken.got, ![n].count = 1]
    BY <1>7 DEF ArrayPush, ArrayStart
  <2>2. CASE taken.got = None
    BY <1>5, <2>1, <2>2
  <2>3. CASE taken.got # None
    <3>1. taken.got.class = 1
      BY <2>3, TakenClass
    <3>2. IsPower(taken.got.class) /\ taken.got.class \in Nat /\ 1 \in Nat /\ 1 <= 2 * taken.got.class
      BY <3>1, PowersOfTwo
    <3>3. nodes' = [nodes EXCEPT ![n].items = taken.got, ![n].count = 1]
      BY <2>1, <2>3
    <3> HIDE DEF held, items
    <3>4. QED  BY <1>4, <3>2, <3>3
  <2>4. QED  BY <2>2, <2>3
<1>8. CASE ~(held >= 2 /\ IsPower(held)) /\ items # None
  <2>1. held + 1 <= 2 * items.class
    <3>1. items.class \in Nat /\ items.class >= 1 /\ IsPower(2 * items.class) /\ held <= 2 * items.class
      BY <1>2, <1>8, PowersOfTwo
    <3>2. held # 2 * items.class \/ held < 2
      BY <1>1, <1>8, <3>1
    <3>3. QED  BY <1>1, <3>1, <3>2
  <2>2. QED  BY <1>3, <1>8, <2>1 DEF ArrayPush
<1>9. QED  BY <1>6, <1>7, <1>8

LEMMA ItemsFitStep ==
  ASSUME IInv, ItemsFit, [Next]_vars
  PROVE  ItemsFit'
<1>1. ASSUME UNCHANGED nodes PROVE ItemsFit'
  BY <1>1 DEF ItemsFit, Fits, Pointers
<1>2. ASSUME NEW pooled \in BOOLEAN, NEW large \in BOOLEAN, NodeNew(pooled, large) PROVE ItemsFit'
  <2>1. ASSUME NEW n, NEW data, nodes' = With(n, Empty(data)) PROVE ItemsFit'
    BY <2>1 DEF ItemsFit, Fits, Pointers, With, Empty
  <2>2. \/ UNCHANGED nodes
        \/ \E n, data : nodes' = With(n, Empty(data))
    BY <1>2 DEF NodeNew
  <2>3. CASE \E n, data : nodes' = With(n, Empty(data))
    <3>1. PICK n, data : nodes' = With(n, Empty(data))
      BY <2>3
    <3>2. QED  BY <2>1, <3>1
  <2>4. QED  BY <1>1, <2>2, <2>3
<1>3. ASSUME NEW n \in DOMAIN nodes, ArrayPop(n) PROVE ItemsFit'
  <2>1. nodes[n] \in Node /\ nodes[n].count \in Nat /\ nodes[n].items \in Storages \cup {None}
    BY NodeOfTable DEF IInv
  <2>2. nodes' = [nodes EXCEPT ![n].count = nodes[n].count - 1]
    BY <1>3 DEF ArrayPop
  <2>3. nodes'[n].items = nodes[n].items /\ nodes'[n].count = nodes[n].count - 1
    BY <2>1, <2>2 DEF Node
  <2>4. Fits(nodes'[n])
    <3>1. nodes[n].items # None => nodes[n].items.class \in Nat
      BY <2>1 DEF Storages
    <3>2. QED  BY <2>1, <2>3, <3>1 DEF ItemsFit, Fits, Pointers
  <2>5. QED  BY <2>2, <2>4 DEF ItemsFit, Fits, Pointers
<1>4. ASSUME NEW n \in DOMAIN nodes, NEW large \in BOOLEAN, NEW N \in SUBSET (DOMAIN nodes \ {n}),
             SetKind(n, large, N)
      PROVE  ItemsFit'
  <2>1. nodes[n] \in Node
    BY NodeOfTable DEF IInv
  <2>2. ASSUME NEW data, nodes' = [m \in DOMAIN nodes \ N |-> IF m = n THEN [nodes[n] EXCEPT !.data = data] ELSE nodes[m]]
        PROVE  ItemsFit'
    <3>1. [nodes[n] EXCEPT !.data = data].items = nodes[n].items /\ [nodes[n] EXCEPT !.data = data].count = nodes[n].count
      BY <2>1 DEF Node
    <3>2. QED  BY <2>2, <3>1 DEF ItemsFit, Fits, Pointers
  <2>3. QED  BY <1>1, <1>4, <2>2 DEF SetKind, vars
<1>5. ASSUME NEW n \in DOMAIN nodes, NEW m \in DOMAIN nodes, Swap(n, m) PROVE ItemsFit'
  BY <1>5 DEF Swap, ItemsFit, Fits, Pointers
<1>6. ASSUME NEW N \in SUBSET DOMAIN nodes, NEW pooled \in BOOLEAN, NodeRelease(N, pooled) PROVE ItemsFit'
  BY <1>6 DEF NodeRelease, ItemsFit, Fits, Pointers
<1>7. ASSUME Dispose PROVE ItemsFit'
  BY <1>1, <1>7 DEF Dispose
<1>8. CASE UNCHANGED vars
  BY <1>1, <1>8 DEF vars
<1>9. QED  BY <1>2, <1>3, <1>4, <1>5, <1>6, <1>7, <1>8, PushFits DEF Next

\* ArraysFit: no array's items exceed its storage, though only a count at a
\* power of two asks the storage (markdown_core_node_array_push).
THEOREM ArraysAlwaysFit == Spec => []ArraysFit
<1>1. Init => ItemsFit
  BY DEF Init, ItemsFit
<1>2. IInv /\ ItemsFit /\ [Next]_vars => ItemsFit'
  BY ItemsFitStep
<1>3. IInv /\ ItemsFit => ArraysFit
  BY DEF IInv, Table, Once, ItemsFit, Fits, ArraysFit
<1>4. QED  BY <1>1, <1>2, <1>3, Invariance, PTL DEF Spec
===============================================================================
