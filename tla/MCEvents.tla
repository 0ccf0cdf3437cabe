------------------------------ MODULE MCEvents ------------------------------
(* An instance of Events for TLC, with the events of the page: the clicks on a   *)
(* button with something inside, and what bootstrap handles at the document.     *)
EXTENDS PageEvents, TLC

CONSTANTS button, icon, second

Tag(n) == [type |-> "TAG", name |-> n]
Class(n) == [type |-> "CLASS", name |-> n]
Id(n) == [type |-> "ID", name |-> n]
To(n) == [type |-> n]
Not(groups) == [type |-> "not", groups |-> groups]
Nth(a, b, last) == [type |-> "CHILD", a |-> a, b |-> b, last |-> last, ofType |-> FALSE]

MCTree == [
  parent |-> [e \in {button, icon, second} |->
                IF e = button THEN Document ELSE IF e = icon THEN button ELSE None],
  order  |-> <<button, icon, second>>,
  labels |-> [e \in {button, icon, second} |->
                IF e = button THEN {<<"TAG", "button">>, <<"CLASS", "dropdown">>}
                ELSE {<<"TAG", "i">>, <<"ATTR", "toggle">>}]]
MCSelector == [s \in {"toggle"} |->
  <<<<Class("dropdown"), To(" "), [type |-> "ATTR", name |-> "toggle"]>>>>]
Handler(id, type, ns, sel, once) ==
  [id |-> id, type |-> type, ns |-> ns, sel |-> sel, once |-> once]
MCBindings == {
  [node |-> Document, h |-> Handler(1, "click", "bs", "toggle", FALSE)],
  [node |-> button, h |-> Handler(2, "click", None, None, FALSE)],
  [node |-> button, h |-> Handler(3, "click", "bs", None, TRUE)],
  [node |-> icon, h |-> Handler(4, "click", None, None, FALSE)],
  [node |-> Document, h |-> Handler(5, "click", "bs", None, FALSE)],
  [node |-> button, h |-> Handler(6, "shown", "bs", None, TRUE)]}
\* All of them, or two.
InOrder(bindings) == SetToSortSeq(bindings, LAMBDA b, c : b.h.id < c.h.id)
MCPages == {InOrder(MCBindings), InOrder({b \in MCBindings : b.h.id \in {2, 5}})}
Like(type, ns, sel) == [type |-> type, ns |-> ns, sel |-> sel, id |-> None]
MCOffs == {[node |-> Document, like |-> Like("click", "bs", "toggle")],
           [node |-> button, like |-> Like(None, "bs", None)],
           [node |-> button, like |-> Like("click", None, None)]}
Trigger(type, ns, elem, only) == [type |-> type, ns |-> ns, elem |-> elem, only |-> only]
MCTriggers == {Trigger("click", "bs", icon, FALSE), Trigger("click", None, button, TRUE)}
MCTargets == {<<Document>>, <<button, Document>>}

\* Documents of five elements, in a chain, beside each other and between.
Names == {"a", "b", "c", "d", "e"}
Tree5(b, c, d, e, order) ==
  [parent |-> [x \in Names |-> CASE x = "a" -> Document [] x = "b" -> b [] x = "c" -> c
                                 [] x = "d" -> d [] x = "e" -> e],
   order  |-> order,
   labels |-> [x \in Names |->
     {<<"ID", x>>, <<"TAG", IF x \in {"a", "b"} THEN "ul" ELSE "li">>}
     \union (IF x \in {"b", "d"} THEN {<<"CLASS", "nav">>} ELSE {})]]
MCTrees == {Tree5("a", "b", "c", "d", <<"a", "b", "c", "d", "e">>),
            Tree5("a", "a", "a", "a", <<"a", "d", "c", "b", "e">>),
            Tree5("a", "b", "a", "d", <<"a", "d", "e", "b", "c">>)}
li == Tag("li")
MCSearches == [
  inside  |-> <<<<Class("nav"), To(" "), li, To(" "), li>>>>,
  child   |-> <<<<Class("nav"), To(">"), li>>>>,
  beside  |-> <<<<li, To("+"), li>>>>,
  after   |-> <<<<Class("nav"), To("~"), li, To(" "), Nth(0, 1, TRUE)>>>>,
  groups  |-> <<<<li, To(" "), li>>, <<Class("nav")>>>>,
  without |-> <<<<li, Not(<<<<Class("nav"), To(" "), li>>>>)>>>>,
  mixed   |-> <<<<Not(<<<<Class("nav")>>>>), To(" "), li, To(" "),
                  Not(<<<<Tag("ul"), To("~"), li>>>>)>>>>,
  byId    |-> <<<<Id("b"), To(" "), li>>>>,
  odd     |-> <<<<Nth(2, 1, TRUE)>>>>,
  first   |-> <<<<Nth(-1, 2, FALSE), To(">"), li>>>>,
  within  |-> <<<<To(">"), li>>>>]
MCContexts == {Document, "b", "d"}
=============================================================================
