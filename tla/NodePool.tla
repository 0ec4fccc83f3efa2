------------------------------- MODULE NodePool -------------------------------
(***************************************************************************)
(* Where the storage of nodes comes from and goes back to (core/slab.h,    *)
(* core/slab.c and the pool of core/node.c): slots cut from slabs that     *)
(* live while anything holds them, storage of varied sizes cut from the    *)
(* same slabs, and what a caller without a pool takes from the allocator.  *)
(*                                                                         *)
(* A storage is where it lies and its size class; class 0 is a node's      *)
(* slot, class c a slot of c*16 bytes.  Lengths are counted in 16 bytes,   *)
(* the size of a header.  A list of released storage is the set of what it *)
(* links: any of it may be the one handed out.  The slots of resources are *)
(* cut from slabs of their own in the same way and are left out.           *)
(***************************************************************************)
EXTENDS Integers, FiniteSets

CONSTANTS Slabs,        \* the addresses of slabs the allocator may hand out
          Owns,         \* and of slots of their own
          SlabSize,     \* MARKDOWN_CORE_NODE_SLAB_BYTES
          SlotSize,     \* the stride of a node's slot
          BytesClasses, \* MARKDOWN_CORE_BYTES_CLASSES
          RecordClass,  \* the class of a record too large for its slot
          MostItems,    \* a bound on the items of an array
          MostNodes,    \* a bound on the nodes in use
          None

Stride(c) == IF c = 0 THEN SlotSize ELSE 1 + c

Storages == [slab : Slabs \cup {None}, at : Nat \cup Owns, class : Nat]

ASSUME PoolAssumption ==
  /\ SlabSize \in Nat /\ SlotSize \in Nat \ {0} /\ BytesClasses \in Nat
  /\ RecordClass \in Nat \ {0} /\ MostItems \in Nat /\ MostNodes \in Nat
  /\ \A c \in 0..BytesClasses : 1 + Stride(c) <= SlabSize
  /\ None \notin Slabs /\ None \notin Storages

VARIABLES heap,   \* the slabs, their hold counts and the pool
          nodes   \* the nodes in use, by slot, and the storage each owns

vars == <<heap, nodes>>

Init ==
  /\ heap = [alive |-> {}, holds |-> [s \in Slabs |-> 0], own |-> {},
             current |-> None, cut |-> 0, released |-> {}]
  /\ nodes = << >>

-------------------------------------------------------------------------------
(* The slabs and the pool: what a call makes of the heap h.                *)

\* How many of the storages S the slab s holds.
In(S, s) == Cardinality({x \in S : x.slab = s})

\* markdown_core_slab_drop, once for each storage of S and once more for the
\* slab `and' when there is one.
Dropped(h, S, and) ==
  LET left == [s \in Slabs |-> h.holds[s] - In(S, s) - (IF s = and THEN 1 ELSE 0)]
  IN [h EXCEPT !.holds = left, !.alive = {s \in @ : left[s] # 0}]

\* Mutant of Grown: the pool's hold on the slab it replaces stays.
GrownKeeps(h, s) == [h EXCEPT !.alive = @ \cup {s}, !.holds[s] = 1, !.current = s, !.cut = 1]

\* markdown_core_slab_pool_grow: the slab s for the pool to take from.
Grown(h, s) ==
  LET old == Dropped(h, {}, h.current)
  IN [old EXCEPT !.alive = @ \cup {s}, !.holds[s] = 1, !.current = s, !.cut = 1]

\* Mutant of Room: the header of the slab is not counted.
RoomOver(h, c) == h.current # None /\ SlabSize - h.cut + 1 >= Stride(c)

\* markdown_core_slab_room
Room(h, c) == h.current # None /\ SlabSize - h.cut >= Stride(c)

\* Mutant of Cut: storage that is no node's slot does not hold its slab.
CutUncounted(h, c) ==
  [heap |-> [h EXCEPT !.cut = @ + Stride(c), !.holds[h.current] = IF c = 0 THEN @ + 1 ELSE @],
   got  |-> [slab |-> h.current, at |-> h.cut, class |-> c]]

\* markdown_core_slab_next: storage of class c at the cut, and the heap after it.
Cut(h, c) ==
  [heap |-> [h EXCEPT !.cut = @ + Stride(c), !.holds[h.current] = @ + 1],
   got  |-> [slab |-> h.current, at |-> h.cut, class |-> c]]

Refused(h) == [heap |-> h, got |-> None]

\* What a slot or storage of its own is taken as, the allocator willing.
OwnTakes(h, c) ==
  {Refused(h)} \cup {[heap |-> [h EXCEPT !.own = @ \cup {i}], got |-> [slab |-> None, at |-> i, class |-> c]] : i \in Owns \ h.own}

\* Mutant of PoolTakes: what is handed out again stays linked.
PoolTakesLinked(h, c) ==
  LET again == {x \in h.released : x.class = c}
  IN IF again # {} THEN {[heap |-> h, got |-> x] : x \in again}
     ELSE IF Room(h, c) THEN {Cut(h, c)}
     ELSE {Refused(h)} \cup {Cut(Grown(h, s), c) : s \in Slabs \ h.alive}

\* markdown_core_slab_take with a pool, markdown_core_bytes_take of a class.
PoolTakes(h, c) ==
  LET again == {x \in h.released : x.class = c}
  IN IF again # {} THEN {[heap |-> [h EXCEPT !.released = @ \ {x}], got |-> x] : x \in again}
     ELSE IF Room(h, c) THEN {Cut(h, c)}
     ELSE {Refused(h)} \cup {Cut(Grown(h, s), c) : s \in Slabs \ h.alive}

\* markdown_core_slab_take and S_bytes_take of node.c: every outcome of asking
\* for storage of class c, with the pool or with none.
Takes(h, pooled, c) == IF pooled /\ c <= BytesClasses THEN PoolTakes(h, c) ELSE OwnTakes(h, c)

\* markdown_core_slab_release and markdown_core_bytes_release of each of S.
Released(h, pooled, S) ==
  LET slots == {x \in S : x.slab # None}
      freed == [h EXCEPT !.own = @ \ {x.at : x \in S \ slots}]
  IN IF pooled THEN [freed EXCEPT !.released = @ \cup slots] ELSE Dropped(freed, slots, None)

\* Mutant of Disposed: the slab the pool takes from goes with the pool.
DisposedFrees(h) ==
  [Dropped(h, h.released, h.current) EXCEPT !.released = {}, !.current = None, !.cut = 0, !.alive = @ \ {h.current}]

\* markdown_core_slab_pool_dispose and markdown_core_bytes_pool_dispose.
Disposed(h) == [Dropped(h, h.released, h.current) EXCEPT !.released = {}, !.current = None, !.cut = 0]

-------------------------------------------------------------------------------
(* The nodes.                                                              *)

\* The storage the node in the slot n owns, and that in use.
Owned(n) == {n, nodes[n].data, nodes[n].items} \ {None}
Live == UNION {Owned(n) : n \in DOMAIN nodes}

\* The nodes with n put among them, or changed to `node'.
With(n, node) == [m \in DOMAIN nodes \cup {n} |-> IF m = n THEN node ELSE nodes[m]]

Empty(data) == [data |-> data, items |-> None, count |-> 0]

\* markdown_core_node_pool_new, and S_copy_slot: the slot, and then a record too
\* large for it, without which the slot goes back.
NodeNew(pooled, large) ==
  /\ Cardinality(DOMAIN nodes) < MostNodes
  /\ \E slot \in Takes(heap, pooled, 0) :
       \/ /\ slot.got = None
          /\ heap' = slot.heap
          /\ UNCHANGED nodes
       \/ /\ slot.got # None /\ ~large
          /\ heap' = slot.heap
          /\ nodes' = With(slot.got, Empty(None))
       \/ /\ slot.got # None /\ large
          /\ \E record \in Takes(slot.heap, pooled, RecordClass) :
               IF record.got = None
               THEN heap' = Released(record.heap, pooled, {slot.got}) /\ UNCHANGED nodes
               ELSE heap' = record.heap /\ nodes' = With(slot.got, Empty(record.got))

\* The pointers a storage holds, two to 16 bytes: markdown_core_bytes_size.
Pointers(storage) == 2 * storage.class

IsPower(n) == \E k \in 0..n : n = 2^k

\* markdown_core_node_array_start
ArrayStart(n, pooled) ==
  \E items \in Takes(heap, pooled, 1) :
    /\ heap' = items.heap
    /\ IF items.got = None THEN UNCHANGED nodes
       ELSE nodes' = [nodes EXCEPT ![n].items = items.got, ![n].count = 1]

ArrayAppend(n) == nodes' = [nodes EXCEPT ![n].count = @ + 1] /\ UNCHANGED heap

\* Mutant of ArrayPushFull: a storage as large as its items takes one more.
ArrayPushOver(n, pooled) ==
  LET held == nodes[n].count
      items == nodes[n].items
  IN IF Pointers(items) >= held THEN ArrayAppend(n)
     ELSE \E moved \in Takes(heap, pooled, held) :
            IF moved.got = None THEN heap' = moved.heap /\ UNCHANGED nodes
            ELSE /\ heap' = Released(moved.heap, pooled, {items})
                 /\ nodes' = [nodes EXCEPT ![n].items = moved.got, ![n].count = held + 1]

\* markdown_core_node_array_push_full
ArrayPushFull(n, pooled) ==
  LET held == nodes[n].count
      items == nodes[n].items
  IN IF Pointers(items) > held THEN ArrayAppend(n)
     ELSE \E moved \in Takes(heap, pooled, held) :
            IF moved.got = None THEN heap' = moved.heap /\ UNCHANGED nodes
            ELSE /\ heap' = Released(moved.heap, pooled, {items})
                 /\ nodes' = [nodes EXCEPT ![n].items = moved.got, ![n].count = held + 1]

\* markdown_core_node_array_push
ArrayPush(n, pooled) ==
  LET held == nodes[n].count
  IN /\ n \in DOMAIN nodes
     /\ held < MostItems
     /\ IF held >= 2 /\ IsPower(held) THEN ArrayPushFull(n, pooled)
        ELSE IF nodes[n].items = None THEN ArrayStart(n, pooled)
        ELSE ArrayAppend(n)

\* markdown_core_node_array_pop
ArrayPop(n) ==
  /\ n \in DOMAIN nodes
  /\ nodes[n].count > 0
  /\ nodes' = [nodes EXCEPT ![n].count = @ - 1]
  /\ UNCHANGED heap

\* markdown_core_node_set_kind: the new record is taken before the old one, and
\* the nodes N in its fields, are given back, none of them with a pool.
SetKind(n, large, N) ==
  /\ n \in DOMAIN nodes /\ N \subseteq DOMAIN nodes \ {n}
  /\ \E record \in IF large THEN Takes(heap, FALSE, RecordClass) ELSE {Refused(heap)} :
       IF large /\ record.got = None THEN UNCHANGED vars
       ELSE /\ heap' = Released(record.heap, FALSE, ({nodes[n].data} \ {None}) \cup UNION {Owned(m) : m \in N})
            /\ nodes' = [m \in DOMAIN nodes \ N |-> IF m = n THEN [nodes[n] EXCEPT !.data = record.got] ELSE nodes[m]]

\* markdown_core_node_swap: each slot takes what the other held.
Swap(n, m) ==
  /\ n \in DOMAIN nodes /\ m \in DOMAIN nodes
  /\ nodes' = [nodes EXCEPT ![n] = nodes[m], ![m] = nodes[n]]
  /\ UNCHANGED heap

\* markdown_core_node_pool_release, or markdown_core_node_free without a pool,
\* of a subtree: the nodes N.
NodeRelease(N, pooled) ==
  /\ N # {}
  /\ heap' = Released(heap, pooled, UNION {Owned(n) : n \in N})
  /\ nodes' = [n \in DOMAIN nodes \ N |-> nodes[n]]

\* markdown_core_node_pool_dispose, after which the pool takes anew.
Dispose ==
  /\ heap' = Disposed(heap)
  /\ UNCHANGED nodes

Next ==
  \/ \E pooled, large \in BOOLEAN : NodeNew(pooled, large)
  \/ \E n \in DOMAIN nodes :
       \/ \E pooled \in BOOLEAN : ArrayPush(n, pooled)
       \/ ArrayPop(n)
       \/ \E large \in BOOLEAN, N \in SUBSET (DOMAIN nodes \ {n}) : SetKind(n, large, N)
       \/ \E m \in DOMAIN nodes : Swap(n, m)
  \/ \E N \in SUBSET DOMAIN nodes, pooled \in BOOLEAN : NodeRelease(N, pooled)
  \/ Dispose

Spec == Init /\ [][Next]_vars

-------------------------------------------------------------------------------
(* What makes the pool correct.                                            *)

All == Live \cup heap.released

\* "A slab lives while anything holds it": its count is of the storage in use
\* and released that was cut from it, and of the pool that takes from it,
\* whichever of pool and allocator each was taken from and given back to.
HoldsCounted ==
  \A s \in Slabs : heap.holds[s] = In(All, s) + (IF heap.current = s THEN 1 ELSE 0)

\* "What the parse built outlives the parse and keeps its slabs": nothing in use,
\* released or being cut lies in a slab that was freed, and what is released is
\* not in use.
NothingDangles ==
  /\ \A x \in All : IF x.slab = None THEN x.at \in heap.own ELSE x.slab \in heap.alive
  /\ heap.current # None => heap.current \in heap.alive
  /\ heap.released \cap Live = {}

\* "The slab is freed with its last" hold: no slab and no slot of its own stays
\* allocated that nothing holds.
NothingLeaks ==
  /\ \A s \in heap.alive : heap.current = s \/ \E x \in All : x.slab = s
  /\ heap.own = {x.at : x \in {y \in Live : y.slab = None}}

\* No two storages overlap, and none leaves its slab or lies on its count.
NothingOverlaps ==
  \A x \in {y \in All : y.slab # None} :
    /\ x.at >= 1 /\ x.at + Stride(x.class) <= SlabSize
    /\ \A y \in All \ {x} : x.slab = y.slab => x.at + Stride(x.class) <= y.at \/ y.at + Stride(y.class) <= x.at

\* What a node owns no other node does: no storage is given back twice.
NothingShared ==
  \A n, m \in DOMAIN nodes : n # m => Owned(n) \cap Owned(m) = {}

\* "Only a count at a power of two asks the storage whether the array is full":
\* an array's items never exceed its storage, through pushes, pops and moves.
ArraysFit ==
  \A n \in DOMAIN nodes : nodes[n].count <= IF nodes[n].items = None THEN 0 ELSE Pointers(nodes[n].items)
===============================================================================
