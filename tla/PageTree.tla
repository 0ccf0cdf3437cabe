------------------------------ MODULE PageTree ------------------------------
(***************************************************************************)
(* The elements of a page.  A tree is a record, or the page of EventStore, *)
(* with the fields                                                         *)
(*   parent   of each element, or None                                     *)
(*   order    the elements, siblings in their order                        *)
(*   labels   of each element its TAG, CLASS, ID and ATTR, as              *)
(*            <<type, name>>                                               *)
(* Elements are the only nodes within an element.                          *)
(***************************************************************************)
EXTENDS Integers, FiniteSets, SequencesExt

CONSTANTS Document, None

Children(t, n) == SelectSeq(t.order, LAMBDA x : t.parent[x] = n)
Parent(t, x) == IF x = Document THEN None ELSE t.parent[x]

\* The nodes around a node, the nearest first, up to the document or to the root
\* of a tree that is not in it.
Around(t, x) ==
  LET around[y \in DOMAIN t.parent \union {Document}] ==
        IF Parent(t, y) = None THEN <<>> ELSE <<Parent(t, y)>> \o around[Parent(t, y)]
  IN  around[x]
contains(t, n, x) == Contains(Around(t, x), n)

\* dir(), siblings(): the elements that are met on the way from an element.
Brothers(t, x) == IF Parent(t, x) = None THEN <<>> ELSE Children(t, Parent(t, x))
Place(s, x) == SelectInSeq(s, LAMBDA y : y = x)
dir(t, x, way) ==
  CASE way = "parentNode" -> SelectSeq(Around(t, x), LAMBDA y : y # Document)
    [] way = "previousSibling" -> Reverse(SubSeq(Brothers(t, x), 1, Place(Brothers(t, x), x) - 1))
    [] way = "nextSibling" -> SubSeq(Brothers(t, x), Place(Brothers(t, x), x) + 1, Len(Brothers(t, x)))
siblings(t, x) == SelectSeq(Brothers(t, x), LAMBDA y : y # x)
=============================================================================
