---------------------------- MODULE EventStore ----------------------------
(***************************************************************************)
(* What jQuery keeps with the elements of the generator's page: handlers,  *)
(* the function by which the browser calls them, and what happens to both  *)
(* when elements are moved, copied and thrown away (jQuery.event, Data,    *)
(* domManip).  A page is a record of all this; it is a PageTree that has   *)
(* also the fields                                                         *)
(*   events    of each node and type, the handlers and how many of them    *)
(*             are delegated                                               *)
(*   handle    of each node the function, as <<the node it is for, the     *)
(*             number of those made before for it>>, or None               *)
(*   listeners given to the browser, as <<node, type, function>>           *)
(*   made      functions made for each node                                *)
(***************************************************************************)
EXTENDS PageTree

CONSTANTS
  Elements, Window, \* the nodes, with Document
  EventTypes,       \* the types of events
  Selector,         \* the selectors, each by its name
  \* Whether jQuery finds an element of a page by a selector, from a node.
  JQueryFinds(_, _, _, _)

Nodes == Elements \union {Document, Window}

ASSUME StoreAssumption ==
  /\ IsFiniteSet(EventTypes) /\ IsFiniteSet(Elements)
  /\ {Document, Window} \intersect Elements = {} /\ Document # Window
  /\ None \notin Nodes \union (Nodes \X Nat)

NoHandlers == [list |-> <<>>, delegated |-> 0]

\* An element and the elements around it, up to the document or to the root of a
\* tree that is not in it.
Lineage(page, e) == <<e>> \o Around(page, e)
getAll(page, e) == {x \in Elements : Contains(Lineage(page, x), e)}

\* jQuery.event.add(): delegated handlers in front, the first handler of a type
\* makes the browser call jQuery, the first of the node makes the function for it.
eventAdd(page, node, h) ==
  LET old == page.events[node][h.type]
      handle == IF page.handle[node] = None THEN <<node, page.made[node] + 1>>
                ELSE page.handle[node]
      new == IF h.sel = None THEN [old EXCEPT !.list = Append(@, h)]
             ELSE [list |-> InsertAt(old.list, old.delegated + 1, h),
                   delegated |-> old.delegated + 1]
  IN  [page EXCEPT !.events[node][h.type] = new, !.handle[node] = handle,
                   !.made[node] = IF page.handle[node] = None THEN @ + 1 ELSE @,
                   !.listeners = IF old.list # <<>> THEN @
                                 ELSE @ \union {<<node, h.type, handle>>}]

\* A field that is None matches everything.
Wanted(h, o) == /\ o.type \in {None, h.type} /\ o.ns \in {None, h.ns}
                /\ o.id \in {None, h.id} /\ o.sel \in {None, h.sel}

\* Data.remove(): nothing is left with the node.
Forgotten(page, node) == [page EXCEPT !.handle[node] = None,
                                      !.events[node] = [t \in EventTypes |-> NoHandlers]]

\* The handlers of a sequence of bindings, added one after the other.
AddedAll(page, bindings) ==
  LET added[k \in 0 .. Len(bindings)] ==
        IF k = 0 THEN page ELSE eventAdd(added[k - 1], bindings[k].node, bindings[k].h)
  IN  added[Len(bindings)]

\* jQuery.event.remove(): with the last handler of a type goes the browser's call,
\* with the last of the node its data.  The handlers are looked at from the end.
Removed(at, j) == [list |-> RemoveAt(at.list, j),
                   delegated |-> IF at.list[j].sel = None THEN at.delegated ELSE at.delegated - 1]
Kept(old, o) ==
  LET n == Len(old.list)
      kept[k \in 0 .. n] ==
        IF k = 0 THEN old
        ELSE IF Wanted(old.list[n + 1 - k], o) THEN Removed(kept[k - 1], n + 1 - k) ELSE kept[k - 1]
  IN  kept[n]
eventRemove(page, node, o) ==
  LET events == [t \in EventTypes |-> Kept(page.events[node][t], o)]
      emptied == {t \in EventTypes : events[t].list = <<>> /\ page.events[node][t].list # <<>>}
      left == [page EXCEPT !.events[node] = [t \in EventTypes |-> IF t \in emptied THEN NoHandlers
                                                             ELSE events[t]],
                           !.listeners = @ \ {<<node, t, page.handle[node]>> : t \in emptied}]
  IN  IF \A t \in EventTypes : events[t].list = <<>> THEN Forgotten(left, node) ELSE left

\* jQuery.cleanData()
cleanData(page, nodes) ==
  [page EXCEPT !.listeners = {l \in @ : l[1] \notin nodes \/ l[3] # page.handle[l[1]]},
               !.handle = [n \in Nodes |-> IF n \in nodes THEN None ELSE @[n]],
               !.events = [n \in Nodes |-> IF n \in nodes THEN [t \in EventTypes |-> NoHandlers]
                                            ELSE @[n]]]

\* cloneCopyEvent(): the copy gets a function of its own.
\* Variant: it gets that of the original with its data.
Copied(page, from, to) ==
  LET types == SetToSeq(EventTypes)
      Of(t) == LET list == page.events[from][t].list
               IN  [i \in DOMAIN list |-> [node |-> to, h |-> list[i]]]
      copied[k \in 0 .. Len(types)] ==
        IF k = 0 THEN page ELSE AddedAll(copied[k - 1], Of(types[k]))
  IN  copied[Len(types)]
cloneCopyEventShared(page, from, to) ==
  Copied([page EXCEPT !.handle[to] = page.handle[from]], from, to)
cloneCopyEvent(page, from, to) == Copied(page, from, to)

\* remove() and detach(), empty() and html().
Taken(page, e) == [page EXCEPT !.parent[e] = None]
remove(page, e) == Taken(cleanData(page, getAll(page, e)), e)
empty(page, e) ==
  LET inside == getAll(page, e) \ {e}
  IN  [cleanData(page, inside) EXCEPT !.parent =
         [x \in Elements |-> IF @[x] = e THEN None ELSE @[x]]]

\* addClass(), removeClass(), hasClass() and toggleClass() of an element; attr()
\* and removeAttr().
Labelled(page, elems, old, new) ==
  [page EXCEPT !.labels = [x \in DOMAIN @ |-> IF x \in elems THEN (@[x] \ old) \union new ELSE @[x]]]
Classed(classes) == {<<"CLASS", c>> : c \in classes}
addClass(page, elems, classes) == Labelled(page, elems, {}, Classed(classes))
removeClass(page, elems, classes) == Labelled(page, elems, Classed(classes), {})
hasClass(page, elems, c) == \E x \in elems : <<"CLASS", c>> \in page.labels[x]
toggleClass(page, x, classes) ==
  LET had == {c \in classes : hasClass(page, {x}, c)}
  IN  addClass(removeClass(page, {x}, had), {x}, classes \ had)
removeAttr(page, elems, names) ==
  Labelled(page, elems, {<<"ATTR", n>> : n \in names}, {})
attr(page, elems, name, value) ==
  IF value = None THEN removeAttr(page, elems, {name})
  ELSE Labelled(page, elems, {}, {<<"ATTR", name>>})

\* clone(), with its handlers.
clone(page, e, copy) == cloneCopyEvent([page EXCEPT !.labels[copy] = page.labels[e]], e, copy)

\* append(), by domManip(): a copy to each target but the last, which gets e.
Placed(page, e, target) ==
  LET inside == getAll(page, e) IN
  [page EXCEPT !.parent[e] = target,
               !.order = SelectSeq(@, LAMBDA x : x \notin inside)
                         \o SelectSeq(@, LAMBDA x : x \in inside)]
append(page, e, targets, copy) ==
  IF Len(targets) = 1 THEN Placed(page, e, targets[1])
  ELSE Placed(Placed(clone(Taken(page, e), e, copy), copy, targets[1]), e, targets[2])

\* jQuery.event.handlers(): each with the element it is called for; the delegated
\* ones of the elements from the target to the node, inner ones first, and then
\* those of the node.
Before(s, x) == IF Contains(s, x) THEN SubSeq(s, 1, SelectInSeq(s, LAMBDA y : y = x) - 1) ELSE s
For(elem, list) == [k \in DOMAIN list |-> [elem |-> elem, h |-> list[k]]]
\* The delegated handlers of a node that are for an element inside.
Matched(page, node, at, x) ==
  LET matched[i \in 0 .. at.delegated] ==
        IF i = 0 THEN <<>>
        ELSE IF x \in Elements /\ JQueryFinds(page, Selector[at.list[i].sel], node, x)
             THEN Append(matched[i - 1], at.list[i]) ELSE matched[i - 1]
  IN  matched[at.delegated]
handlers(page, node, type, target) ==
  LET at == page.events[node][type]
      below == Before(Lineage(page, target), node)
  IN  FlattenSeq([k \in DOMAIN below |-> For(below[k], Matched(page, node, at, below[k]))])
      \o For(node, SubSeq(at.list, at.delegated + 1, Len(at.list)))
=============================================================================
