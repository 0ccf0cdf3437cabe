------------------------------ MODULE PageEvents ------------------------------
(***************************************************************************)
(* Events with the selectors: the handlers that are delegated to an        *)
(* element are those whose selector finds it, by Sizzle; and what the      *)
(* searches of the page find.                                              *)
(***************************************************************************)
EXTENDS Events, Selectors

CONSTANTS
  Trees,     \* the documents that are searched
  Searches,  \* the selectors they are searched with, each by its name
  Contexts   \* the nodes in which they are searched

\* jQuery.event.handlers(): is the element among those that are found, or is it
\* selected itself?
HandlersFind(p, groups, node, x) ==
  IF needsContext(groups) THEN Contains(init(p, groups, node, NoMemory(p)), x)
  ELSE superMatcher(p, groups, node, <<x>>, NoMemory(p)).found # <<>>
-----------------------------------------------------------------------------
\* Whatever an earlier search has left with the elements, and whatever has moved
\* since, a search finds the elements that the selector means, each once and in
\* document order; by Sizzle's own engine as by the browser's, within a context as
\* from several, or among given elements.  The walks from these go by kind, with
\* nothing twice (addCombinator(), select(), uniqueSort(), jQuery.fn).
SearchFits(t, m, groups, context) ==
  LET meant == Meant(t, groups, context) IN
  /\ \A qsa \in BOOLEAN : Sizzle(t, groups, context, qsa, m).found = meant
  /\ \A x \in DOMAIN t.parent :
       IsSelected(t, groups, context, x) = (superMatcher(t, groups, context, <<x>>, m).found = <<x>>)
FromSeveral(t, m, groups, elems) ==
  LET from == ToSet(elems)
      Closest(y) == \E x \in from :
        LET up == SelectSeq(<<x>> \o dir(t, x, "parentNode"),
                            LAMBDA z : IsSelected(t, groups, Document, z))
        IN  up # <<>> /\ y = Head(up)
      Walks == {"parent", "parents", "next", "nextAll", "prev", "prevAll", "siblings", "children"}
  IN  /\ find(t, elems, groups, FALSE, m) =
           SelectSeq(Inside(t, Document), LAMBDA y : \E x \in from : IsSelected(t, groups, x, y))
      /\ needsContext(groups) \/ {y \in DOMAIN t.parent : Closest(y)} = ToSet(closest(t, elems, groups, m))
      /\ filter(t, elems, groups, TRUE, m) =
           SelectSeq(elems, LAMBDA x : ~IsSelected(t, groups, Document, x))
      /\ \A walk \in Walks : LET got == traverse(t, elems, walk, groups, m) IN
           /\ IsInjective(got)
           /\ ToSet(got) = {y \in UNION {ToSet(Walked(t, x, walk)) : x \in from} :
                              IsSelected(t, groups, Document, y)}
SelectionFits ==
  /\ SelectorsAgree
  /\ Idle /\ fired = 0 /\ changed = 0 =>
    \A old, t \in Trees : old # t => \A earlier \in DOMAIN Searches :
      LET m == select(old, Searches[earlier], Document, NoMemory(old)).m
      IN  \A s \in DOMAIN Searches :
            /\ \A context \in Contexts : SearchFits(t, m, Searches[s], context)
            /\ earlier = s => FromSeveral(t, m, Searches[s], SetToSeq(Contexts \ {Document}))
=============================================================================
