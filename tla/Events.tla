------------------------------- MODULE Events -------------------------------
(***************************************************************************)
(* Events on the generator's page: the browser and jQuery.event.trigger()  *)
(* bring an event to the nodes of its path, dispatch() calls the handlers, *)
(* and these bind and unbind others, move and throw away elements, click   *)
(* and trigger.  stack holds the calls in progress, the innermost first.   *)
(***************************************************************************)
EXTENDS EventStore

CONSTANTS
  Tree,       \* the elements when the page is there
  Pages,      \* sequences of bindings that are made when the page is there
  Bindings,   \* what may be bound: a node and a handler
  Offs,       \* what may be unbound: a node and what the handlers must be like
  Triggers,   \* what may be triggered: a type, a namespace, an element, and
              \* whether by triggerHandler()
  Clickable,  \* the elements that may be clicked
  Links,      \* those that are links
  Native,     \* the types for which elements have a method
  Copies,     \* elements that are made as copies
  Targets,    \* the sequences of nodes to which something may be appended
  Classes,    \* what classes may be toggled
  Attributes, \* what attributes may be set and removed
  MaxEvents,  \* bound: events
  MaxChanges, \* bound: changes of the page
  \* Whether a selector means an element of a page, from a node.
  SelectorMeans(_, _, _, _)

\* The page is there as a forest: some numbering rises towards the roots.
ASSUME EventsAssumption ==
  /\ \A b \in Bindings : /\ b = [node |-> b.node, h |-> b.h]
                         /\ b.node \in Nodes /\ b.h.type \in EventTypes
  /\ \A bound \in Pages : bound \in Seq(Bindings) /\ IsInjective(bound)
  /\ Tree.parent \in [Elements -> Elements \union {Document, None}]
  /\ \E rank \in [Elements -> 0 .. Cardinality(Elements)] :
       \A x \in Elements : Tree.parent[x] \in Elements => rank[Tree.parent[x]] > rank[x]
  /\ Copies \union Clickable \subseteq Elements
  /\ \A targets \in Targets : targets \in Seq(Elements \union {Document}) /\ Len(targets) \in 1 .. 2
  /\ \A t \in Triggers : /\ t.type \in EventTypes /\ t.elem \in Elements \union {Document}
                         /\ t.only \in BOOLEAN
  /\ {"click"} \union Native \subseteq EventTypes /\ None \notin EventTypes

VARIABLES
  page,       \* see EventStore
  stack,      \* calls in progress
  triggered,  \* jQuery.event.triggered
  fired,      \* events so far
  changed     \* changes so far

eventVars == <<page, stack, triggered, fired, changed>>

Top == Head(stack)
In(call) == stack # <<>> /\ Top.call = call
Idle == stack = <<>>
UserTurn == Idle \/ In("body")

Path(p, e) == LET up == Lineage(p, e)
              IN  IF Contains(up, Document) THEN Append(up, Window) ELSE up

\* The handlers, with their nodes, to which an event must come on a page as it is.
Reached(p, path, type, ns, target) ==
  {nh \in ToSet(path) \X {b.h : b \in Bindings} :
     LET n == nh[1]  h == nh[2] IN
     /\ ns \in {None, h.ns} /\ Contains(p.events[n][type].list, h)
     /\ h.sel # None => \E x \in ToSet(Before(Lineage(p, target), n)) \ {Document} :
                          SelectorMeans(p, Selector[h.sel], n, x)}

\* jQuery finds for the handlers that are delegated what their selectors mean.
SelectorsAgree ==
  \A b \in Bindings : b.h.sel # None =>
    \A n \in Nodes, x \in Elements : Contains(page.events[n][b.h.type].list, b.h) =>
      SelectorMeans(page, Selector[b.h.sel], n, x) = JQueryFinds(page, Selector[b.h.sel], n, x)

\* An event on its way.  Auxiliary are due, the handlers it must come to, because
\* they are bound all the time; heard, those that were called, each with its node
\* and the element it was called for; over and last, how many they were when it
\* was stopped, and at once.
Event(native, type, ns, target, path) ==
  [call |-> "event", native |-> native, type |-> type, ns |-> ns, target |-> target,
   path |-> path, i |-> 1, stopped |-> FALSE, immediate |-> FALSE, prevented |-> FALSE,
   only |-> FALSE, clicked |-> FALSE, ends |-> FALSE,
   due |-> Reached(page, path, type, ns, target), heard |-> <<>>, over |-> 0, last |-> 0]

PageInit ==
        /\ \E bound \in Pages :
             page = AddedAll([parent |-> Tree.parent, order |-> Tree.order, labels |-> Tree.labels,
                              events |-> [n \in Nodes |-> [t \in EventTypes |-> NoHandlers]],
                              handle |-> [n \in Nodes |-> None], listeners |-> {},
                              made |-> [n \in Nodes |-> 0]], bound)
        /\ stack = <<>> /\ triggered = None /\ fired = 0 /\ changed = 0

(***************************************************************************)
(* What scripts and handlers do.                                           *)
(***************************************************************************)
Pruned(p, calls) == [k \in DOMAIN calls |->
  LET c == calls[k] IN
  IF c.call # "event" THEN c
  ELSE [c EXCEPT !.due = @ \intersect Reached(p, c.path, c.type, c.ns, c.target)]]

Change(p) == /\ UserTurn /\ changed < MaxChanges /\ p # page
             /\ page' = p /\ stack' = Pruned(p, stack) /\ changed' = changed + 1
             /\ UNCHANGED <<triggered, fired>>

Bound(b) == Contains(page.events[b.node][b.h.type].list, b.h)
on == \E b \in Bindings : ~Bound(b) /\ Change(eventAdd(page, b.node, b.h))
off == \E o \in Offs : Change(eventRemove(page, o.node, o.like))

Unused == {c \in Copies : /\ page.parent[c] = None /\ page.handle[c] = None
                         /\ \A x \in Elements : page.parent[x] # c}
Manipulate ==
  \E e \in Elements \ Unused :
    \/ Change(remove(page, e))
    \/ Change(Taken(page, e))
    \/ Change(empty(page, e))
    \/ \E targets \in Targets :
         /\ ToSet(targets) \intersect (getAll(page, e) \union Unused) = {}
         /\ IF Len(targets) = 1 THEN Change(append(page, e, targets, e))
            ELSE /\ getAll(page, e) = {e}
                 /\ \E c \in Unused : Change(append(page, e, targets, c))
Restyle == \E e \in Elements \ Unused :
  \/ Change(toggleClass(page, e, Classes))
  \/ \E a \in Attributes, value \in {None, "true"} : Change(attr(page, {e}, a, value))

Fire(event) == /\ UserTurn /\ fired < MaxEvents /\ fired' = fired + 1
               /\ stack' = <<event>> \o stack /\ UNCHANGED <<page, triggered, changed>>
UserClicks == \E e \in Clickable :
  /\ Idle /\ Contains(Lineage(page, e), Document)
  /\ Fire(Event(TRUE, "click", None, e, Path(page, e)))
\* The method click() of an element, which does nothing while it is called.
Clicking == {stack[k].target : k \in {k \in DOMAIN stack : stack[k].call = "event" /\ stack[k].clicked}}
click == \E e \in Clickable \ Clicking :
  Fire([Event(TRUE, "click", None, e, Path(page, e)) EXCEPT !.clicked = TRUE])
trigger == \E t \in Triggers :
  Fire([Event(FALSE, t.type, t.ns, t.elem, IF t.only THEN <<t.elem>> ELSE Path(page, t.elem))
          EXCEPT !.only = t.only])

(***************************************************************************)
(* How an event comes to its handlers.                                     *)
(***************************************************************************)
\* The functions that are called at a node: by the browser those it was given, by
\* trigger() the one of the node.
Functions(n) ==
  IF Top.native THEN {l[3] : l \in {l \in page.listeners : l[1] = n /\ l[2] = Top.type}}
  ELSE IF page.events[n][Top.type].list = <<>> THEN {} ELSE {page.handle[n]}
\* They discard the second event of a trigger().  Variant: they do not.
NeverDiscarded == FALSE
Discarded == triggered = Top.type

Dispatch(node) == [call |-> "dispatch", node |-> node, i |-> 1,
                   queue |-> handlers(page, node, Top.type, Top.target)]

\* The next node of the path that has something to call.
Comes == {i \in Top.i..Len(Top.path) : ~Discarded /\ Functions(Top.path[i]) # {}}
Passed == Comes = {} \/ Top.stopped
Visit == /\ In("event") /\ ~Passed
         /\ LET i == Min(Comes) IN \E f \in Functions(Top.path[i]) :
              stack' = <<Dispatch(f[1]), [Top EXCEPT !.i = i + 1]>> \o Tail(stack)
         /\ UNCHANGED <<page, triggered, fired, changed>>

\* dispatch() goes through a copy of the handlers that was made when it began, and
\* after stopPropagation() through those of the same element only.
\* Variant: through what is bound now.
QueueNow == handlers(page, Top.node, stack[2].type, stack[2].target)
Queue == Top.queue
Called == {i \in Top.i..Len(Queue) :
             /\ stack[2].ns \in {None, Queue[i].h.ns}
             /\ ~stack[2].immediate
             /\ stack[2].stopped => Top.i > 1 /\ Queue[i].elem = Queue[Top.i - 1].elem}
Turn ==
  /\ In("dispatch")
  /\ \/ Called = {} /\ stack' = Tail(stack) /\ UNCHANGED page
     \/ /\ Called # {}
        /\ LET i == Min(Called)
               h == Queue[i].h
               heard == <<[Top EXCEPT !.i = i + 1],
                          [stack[2] EXCEPT !.heard = Append(@, <<Top.node, Queue[i].elem, h>>)]>>
           IN  /\ page' = IF ~h.once THEN page
                          ELSE eventRemove(page, Top.node, [type |-> h.type, ns |-> h.ns,
                                                            id |-> h.id, sel |-> h.sel])
               /\ stack' = Pruned(page', <<[call |-> "body"]>> \o heard \o SubSeq(stack, 3, Len(stack)))
  /\ UNCHANGED <<triggered, fired, changed>>

\* What a handler says of its event, and how it ends.
Once(n, heard) == IF n = 0 THEN Len(heard) ELSE n
Stopped(event) == [event EXCEPT !.stopped = TRUE, !.over = Once(@, event.heard)]
stopPropagation == /\ In("body") /\ ~stack[3].stopped
                   /\ stack' = [stack EXCEPT ![3] = Stopped(@)]
                   /\ UNCHANGED <<page, triggered, fired, changed>>
stopImmediatePropagation ==
  /\ In("body") /\ ~stack[3].immediate
  /\ stack' = [stack EXCEPT ![3] = [Stopped(@) EXCEPT !.immediate = TRUE,
                                      !.last = Len(stack[3].heard)]]
  /\ UNCHANGED <<page, triggered, fired, changed>>
Return == /\ In("body") /\ stack' = Tail(stack)
          /\ UNCHANGED <<page, triggered, fired, changed>>
ReturnFalse == /\ In("body")
               /\ stack' = [Tail(stack) EXCEPT ![2] = [Stopped(@) EXCEPT !.prevented = TRUE]]
               /\ UNCHANGED <<page, triggered, fired, changed>>
\* An exception ends what the browser has called, or the script.
Throw ==
  /\ In("body")
  /\ LET called == {k \in DOMAIN stack : stack[k].call = "event" /\ stack[k].native}
         k == Min(called)
     IN  stack' = IF called = {} THEN <<>>
                  ELSE <<[stack[k] EXCEPT !.due = {d \in @ : d[1] # stack[k - 1].node}]>>
                       \o SubSeq(stack, k + 1, Len(stack))
  /\ UNCHANGED <<page, triggered, fired, changed>>

\* At the end trigger() calls the method of the element, if nobody has prevented it;
\* jQuery.event.triggered is set meanwhile.
Default == /\ ~Top.only /\ ~Top.prevented /\ Top.type \in Native
           /\ ~(Top.type = "click" /\ Top.target \in Links)
           /\ Top.target \notin Clicking
Finish ==
  /\ In("event") /\ Passed
  /\ \/ /\ Top.native \/ ~Default
        /\ stack' = Tail(stack) /\ triggered' = IF Top.ends THEN None ELSE triggered
     \/ /\ ~Top.native /\ Default /\ triggered' = Top.type
        /\ stack' = <<[Event(TRUE, Top.type, None, Top.target, Path(page, Top.target)) EXCEPT
                         !.clicked = TRUE, !.ends = TRUE, !.due = {}, !.heard = Top.heard]>>
                    \o Tail(stack)
  /\ UNCHANGED <<page, fired, changed>>

PageNext ==
        \/ on \/ off \/ Manipulate \/ Restyle \/ UserClicks \/ click \/ trigger
        \/ Visit \/ Turn \/ Finish
        \/ stopPropagation \/ stopImmediatePropagation \/ Return \/ ReturnFalse \/ Throw
PageSpec == PageInit /\ [][PageNext]_eventVars
-----------------------------------------------------------------------------
\* The browser calls jQuery once for each node and type that has handlers, with the
\* function made for that node, and for no other: neither for what was thrown away,
\* nor for the original of a copy.  Delegated handlers are in front, as many as are
\* counted, since dispatch() tells them from the others by their number only.
HandlesFitHandlers ==
  \A n \in Nodes :
    /\ {l \in page.listeners : l[1] = n} =
         {<<n, t, page.handle[n]>> : t \in {t \in EventTypes : page.events[n][t].list # <<>>}}
    /\ page.handle[n] # None => page.handle[n][1] = n
    /\ \A t \in EventTypes : LET at == page.events[n][t] IN
         \A k \in DOMAIN at.list : at.list[k].sel # None <=> k <= at.delegated

\* Whatever handlers do to the page, an event that nobody stops comes to every
\* handler that is bound, and whose selector matches, from its beginning to its end.
NobodyMissed ==
  In("event") /\ Passed /\ ~Top.stopped =>
    \A d \in Top.due : \E k \in DOMAIN Top.heard : Top.heard[k][1] = d[1] /\ Top.heard[k][3] = d[2]

\* No handler hears of an event twice, not even when trigger() has the browser make
\* a second one.  Inner nodes hear of it first, and of the handlers of a node
\* those that are delegated by inner elements; who stops it keeps it from all but
\* the other handlers of the same element, or from these as well.
HeardInOrder ==
  \A k \in DOMAIN stack : stack[k].call = "event" =>
    LET event == stack[k]
        At(n) == SelectInSeq(event.path, LAMBDA m : m = n)
    IN  \A x, y \in DOMAIN event.heard :
          LET p == event.heard[x]
              q == event.heard[y]
          IN  x < y => /\ p # q
                       /\ ~event.ends => /\ At(p[1]) <= At(q[1])
                                         /\ p[1] = q[1] /\ p[3].sel = None => q[3].sel = None
                       /\ event.over \in 1..x => p[1] = q[1] /\ p[2] = q[2]
                       /\ event.last \notin 1..x
=============================================================================
