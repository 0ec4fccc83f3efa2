------------------------------ MODULE PlainArray ------------------------------
(***************************************************************************)
(* What a growing array promises its owner (core/array.h): a sequence of   *)
(* elements, of which the first `count' are the array's own and the rest   *)
(* are written in place by the reader the storage is lent to.  There is no *)
(* capacity, no storage ahead and no copy here: an operation either does   *)
(* exactly what its name says or, when storage cannot be had, nothing.     *)
(***************************************************************************)
EXTENDS Naturals, Sequences

CONSTANTS Elem,    \* the elements
          Batches  \* the sequences of elements appended or written at once

VARIABLES values, count

vars == <<values, count>>

Init == values = << >> /\ count = 0

Owned == Len(values) = count

\* An array's own elements, and nothing past them.
Own == SubSeq(values, 1, count)

Push(e) == /\ Owned
           /\ values' = Append(values, e)
           /\ count' = count + 1

AppendAll(b) == /\ Owned
                /\ values' = values \o b
                /\ count' = count + Len(b)

Write(i, e) == /\ Owned
               /\ values' = [values EXCEPT ![i] = e]
               /\ UNCHANGED count

Truncate(n) == /\ n \in 0..count
               /\ values' = SubSeq(values, 1, n)
               /\ count' = n

Replace(from, to, b) == /\ Owned
                        /\ values' = SubSeq(values, 1, from) \o b
                                       \o SubSeq(values, to + 1, count)
                        /\ count' = from + Len(b) + (count - to)

\* A reader writes past the array's own elements; they are kept as written.
WritePast(b) == /\ values' = values \o b
                /\ UNCHANGED count

RewritePast(i, e) == /\ i \in (count + 1)..Len(values)
                     /\ values' = [values EXCEPT ![i] = e]
                     /\ UNCHANGED count

Take(n) == /\ n \in count..Len(values)
           /\ values' = SubSeq(values, 1, n)
           /\ count' = n

Drop == /\ values' = Own
        /\ UNCHANGED count

Next == \/ \E e \in Elem : Push(e)
        \/ \E b \in Batches : AppendAll(b) \/ WritePast(b)
        \/ \E i \in 1..Len(values), e \in Elem : Write(i, e) \/ RewritePast(i, e)
        \/ \E n \in 0..Len(values) : Truncate(n) \/ Take(n)
        \/ \E b \in Batches : \E from \in 0..count : \E to \in from..count : Replace(from, to, b)
        \/ Drop

Spec == Init /\ [][Next]_vars
===============================================================================
