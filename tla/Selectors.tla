----------------------------- MODULE Selectors -----------------------------
(***************************************************************************)
(* How jQuery finds elements of a PageTree: the engine for selectors       *)
(* (Sizzle), and what a browser means by them.  A selector is a sequence   *)
(* of groups, and a group one of tokens: a label, a combinator, "not" with *)
(* its groups, or CHILD.                                                   *)
(***************************************************************************)
EXTENDS PageTree

\* The elements in a node, in document order.
RECURSIVE Inside(_, _)
Inside(t, n) == FlattenSeq([k \in DOMAIN Children(t, n) |->
                  <<Children(t, n)[k]>> \o Inside(t, Children(t, n)[k])])

Nearest(s) == IF s = <<>> THEN s ELSE <<Head(s)>>
relative == [c \in {" ", ">", "+", "~"} |->
               [dir |-> IF c \in {" ", ">"} THEN "parentNode" ELSE "previousSibling",
                first |-> c \in {">", "+"}]]
Relative(token) == token.type \in DOMAIN relative
Label(token) == <<token.type, token.name>>

-----------------------------------------------------------------------------
(***************************************************************************)
(* What a selector means: x is selected by a group in a context when there *)
(* are elements for its parts, related as its combinators say, and the     *)
(* first of them is within the context.                                    *)
(***************************************************************************)
Related(t, c, x) ==
  LET met == IF relative[c].dir = "parentNode" THEN Around(t, x) ELSE dir(t, x, relative[c].dir)
  IN  ToSet(IF relative[c].first THEN Nearest(met) ELSE met)
SameTag(t, x, y) == \A l \in t.labels[x] : l[1] = "TAG" => l \in t.labels[y]

RECURSIVE Means(_, _, _, _, _), IsSelected(_, _, _, _)
Is(t, token, x) ==
  CASE token.type = "not" -> ~IsSelected(t, token.groups, Document, x)
    [] token.type = "CHILD" ->
         LET s == SelectSeq(Brothers(t, x), LAMBDA y : token.ofType => SameTag(t, x, y))
             n == IF token.last THEN Len(s) + 1 - Place(s, x) ELSE Place(s, x)
         IN  \E q \in 0..Len(t.order) : Contains(s, x) /\ n = token.a * q + token.b
    [] OTHER -> Label(token) \in t.labels[x]
Means(t, group, k, context, x) ==
  CASE k = 0 -> context = Document \/ contains(t, context, x)
    [] k = 1 /\ Relative(group[1]) -> context \in Related(t, group[1].type, x)
    [] k > 1 /\ Relative(group[k]) ->
         \E y \in Related(t, group[k].type, x) \ {Document} : Means(t, group, k - 1, context, y)
    [] OTHER -> Is(t, group[k], x) /\ Means(t, group, k - 1, context, x)
IsSelected(t, groups, context, x) ==
  \E g \in DOMAIN groups : Means(t, groups[g], Len(groups[g]), context, x)
Meant(t, groups, context) ==
  SelectSeq(Inside(t, Document), LAMBDA x : IsSelected(t, groups, context, x))

-----------------------------------------------------------------------------
(***************************************************************************)
(* What Sizzle does.  It leaves with the nodes what it has found out about *)
(* them; such a memory m is a record of                                    *)
(*   seen   of each node and direction, which of kept it has, or 0         *)
(*   kept   the results of walks, each with its dirruns and doneName       *)
(*   nth    of each element its number from the end, with the dirruns      *)
(*   run    dirruns                                                        *)
(*   runs   the values of dirruns so far                                   *)
(***************************************************************************)
NoMemory(t) == [seen |-> [x \in DOMAIN t.parent \union {Document} |->
                            [d \in {"parentNode", "previousSibling"} |-> 0]],
                kept |-> <<>>, nth |-> [x \in DOMAIN t.parent |-> <<0, 0>>],
                run |-> 0, runs |-> 0]
NewRun(m) == [m EXCEPT !.run = m.runs + 1, !.runs = @ + 1]

\* A result of a walk counts only for the walks of the same combinator in the same
\* run.  Variant: in every run.
KnownAlways(m, old, name) == old # 0 /\ m.kept[old].name = name
Known(m, old, name) == old # 0 /\ m.kept[old].name = name /\ m.kept[old].run = m.run

\* :nth-last-child() keeps the numbers it has counted.
Counted(t, x, m) ==
  LET s == Brothers(t, x)
      n == IF m.nth[x][1] = m.run THEN m.nth[x][2] ELSE Len(s) + 1 - Place(s, x)
  IN  [n |-> n, m |-> IF m.nth[x][1] = m.run THEN m
                      ELSE [m EXCEPT !.nth = [y \in DOMAIN @ |->
                              IF Contains(s, y) /\ Place(s, y) >= Place(s, x)
                              THEN <<m.run, Len(s) + 1 - Place(s, y)>> ELSE @[y]]]]
CHILD(t, token, x, m) ==
  LET s == SelectSeq(Brothers(t, x), LAMBDA y : token.ofType => SameTag(t, x, y))
      counted == IF token.last /\ ~token.ofType THEN Counted(t, x, m)
                 ELSE [n |-> IF token.last THEN Len(s) + 1 - Place(s, x) ELSE Place(s, x), m |-> m]
      diff == counted.n - token.b
      a == token.a
  IN  IF t.parent[x] = None THEN [ok |-> FALSE, m |-> m]
      ELSE [ok |-> \/ diff = a
                   \/ a # 0 /\ diff * a >= 0 /\ diff % (IF a < 0 THEN -a ELSE a) = 0,
            m |-> counted.m]

\* matcherFromTokens(): the matcher of a group, from its k-th token to the left.
\* r is the search: its tree, the group and what it was compiled as, the context,
\* and whether elements must be in it.  A matcher returns what it finds and m.
Answer(ok, m) == [ok |-> ok, m |-> m]
Only(S) == CHOOSE x \in S : TRUE
RECURSIVE Matches(_, _, _, _), Walk(_, _, _, _, _, _)

\* matcherFromGroupMatchers(), without a seed's elements: is x selected by a group?
\* The groups were compiled from the last to the first.
Selects(t, groups, context, checked, x, m) ==
  FoldRight(LAMBDA g, got :
      IF got.ok THEN got
      ELSE Matches([tree |-> t, group |-> groups[g], name |-> <<groups, g>>,
                    context |-> context, checked |-> checked], Len(groups[g]), x, got.m),
    [g \in DOMAIN groups |-> g], Answer(FALSE, m))

\* :not() runs another search within the run, with a run of its own.
not(r, groups, x, m) == LET got == Selects(r.tree, groups, Document, FALSE, x, NewRun(m))
                        IN  Answer(~got.ok, got.m)
Filter(r, token, x, m) ==
  CASE token.type = "not" -> not(r, token.groups, x, m)
    [] token.type = "CHILD" -> CHILD(r.tree, token, x, m)
    [] OTHER -> Answer(Label(token) \in r.tree.labels[x], m)

\* addCombinator(): goes on to the left from the nearest node in the combinator's
\* direction, or from each until one matches; or looks for the context there.
Left(r, k, y, m) == IF k <= 1 THEN Answer(y = r.context, m) ELSE Matches(r, k - 1, y, m)
addCombinator(r, k, x, m) ==
  LET c == relative[IF k = 0 THEN " " ELSE r.group[k].type]
      ways == IF c.dir = "parentNode" /\ k <= 1 THEN Around(r.tree, x) ELSE dir(r.tree, x, c.dir)
  IN  IF ~c.first THEN Walk(r, k, c.dir, ways, Len(m.kept) + 1,
                            [m EXCEPT !.kept = Append(@, [run |-> m.run, name |-> <<r.name, k>>,
                                                          ok |-> FALSE])])
      ELSE IF ways = <<>> THEN Answer(FALSE, m) ELSE Left(r, k, ways[1], m)
Walk(r, k, d, ways, new, m) ==
  IF ways = <<>> THEN Answer(FALSE, m)
  ELSE IF Known(m, m.seen[Head(ways)][d], <<r.name, k>>)
  THEN LET ok == m.kept[m.seen[Head(ways)][d]].ok IN Answer(ok, [m EXCEPT !.kept[new].ok = ok])
  ELSE Only({IF got.ok THEN Answer(TRUE, [got.m EXCEPT !.kept[new].ok = TRUE])
             ELSE Walk(r, k, d, Tail(ways), new, got.m) :
               got \in {Left(r, k, Head(ways), [m EXCEPT !.seen[Head(ways)][d] = new])}})

Matches(r, k, x, m) ==
  IF k = 0 /\ ~r.checked THEN Answer(TRUE, m)
  ELSE IF k = 0 \/ Relative(r.group[k]) THEN addCombinator(r, k, x, m)
  ELSE Only({IF got.ok THEN Matches(r, k - 1, x, got.m) ELSE got :
               got \in {Filter(r, r.group[k], x, m)}})

\* superMatcher(): what is selected among elems, in a run of its own.
superMatcher(t, groups, context, elems, m) ==
  LET started == NewRun(m)
      Each(so, x) == Only({[found |-> IF got.ok THEN Append(so.found, x) ELSE so.found,
                            m |-> [got.m EXCEPT !.run = m.runs + 1]] :
                             got \in {Selects(t, groups, context, context # Document, x, so.m)}})
  IN  FoldLeft(Each, [found |-> <<>>, m |-> started], elems)

\* select(): looks for the elements of one label first if the selector is one group,
\* within the element of its id if it begins with that.
Search(found, m) == [found |-> found, m |-> m]
RECURSIVE hasSibling(_)
hasSibling(groups) == \E g \in DOMAIN groups : \E k \in DOMAIN groups[g] :
  \/ groups[g][k].type \in {"+", "~"}
  \/ groups[g][k].type = "not" /\ hasSibling(groups[g][k].groups)
needsContext(groups) == groups[1][1].type \in {">", "+", "~"}
\* Where elements are that may be siblings of the context.
Expanded(t, groups, context) ==
  IF hasSibling(groups) /\ Parent(t, context) # None THEN Parent(t, context) ELSE context
getBy(t, token, context) ==
  LET all == SelectSeq(Inside(t, context), LAMBDA x : Label(token) \in t.labels[x])
  IN  IF token.type = "ID" THEN Nearest(all) ELSE all

\* Where to look, and for what that is left of the selector; seed if nothing is.
Plan(seed, groups, context, elems) ==
  [seed |-> seed, groups |-> groups, context |-> context, elems |-> elems]
Whole(t, groups, context) ==
  Plan(FALSE, groups, context, Inside(t, Expanded(t, groups, context)))
Seeded(t, group, context) ==
  LET seeds == {k \in DOMAIN group :
                  /\ group[k].type \in {"TAG", "CLASS"} \union (IF context = Document THEN {"ID"} ELSE {})
                  /\ \A j \in k..Len(group) : ~Relative(group[j])}
      k == Max(seeds)
      found == getBy(t, group[k], context)
  IN  IF seeds = {} \/ needsContext(<<group>>) THEN Whole(t, <<group>>, context)
      ELSE Plan(found = <<>> \/ Len(group) = 1, <<RemoveAt(group, k)>>, context, found)
Planned(t, groups, context) ==
  LET group == groups[1]
      named == getBy(t, group[1], context)
  IN  IF Len(groups) > 1 THEN Whole(t, groups, context)
      ELSE IF ~(Len(group) > 2 /\ group[1].type = "ID" /\ context = Document /\ Relative(group[2]))
      THEN Seeded(t, group, context)
      ELSE IF named = <<>> THEN Plan(TRUE, groups, context, <<>>)
      ELSE Only({Seeded(t, Tail(group), elem) : elem \in {named[1]}})
select(t, groups, context, m) ==
  Only({IF plan.seed THEN Search(plan.elems, m)
        ELSE superMatcher(t, plan.groups, plan.context, plan.elems, m) :
          plan \in {Planned(t, groups, context)}})

\* The browser's querySelectorAll() looks outside the context, whose id is therefore
\* put before each group.
querySelectorAll(t, groups, context) ==
  LET Prefixed(group) == <<[type |-> "ID", name |-> context]>>
                         \o (IF Relative(group[1]) THEN <<>> ELSE <<[type |-> " "]>>) \o group
      named == IF context = Document THEN groups ELSE [g \in DOMAIN groups |-> Prefixed(groups[g])]
      known == [t EXCEPT !.labels = [x \in DOMAIN @ |-> @[x] \union {<<"ID", x>>}]]
  IN  SelectSeq(Inside(t, IF context = Document THEN context ELSE Expanded(t, groups, context)),
                LAMBDA x : IsSelected(known, named, Document, x))

\* Sizzle(), without a seed; qsa says whether the browser can, and the selector was
\* not compiled before.
Sizzle(t, groups, context, qsa, m) ==
  LET token == groups[1][1]
      simple == Len(groups) = 1 /\ Len(groups[1]) = 1 /\ token.type \in {"ID", "TAG", "CLASS"}
  IN  IF simple THEN Search(getBy(t, token, context), m)
      ELSE IF qsa THEN Search(querySelectorAll(t, groups, context), m)
      ELSE select(t, groups, context, m)
matchesSelector(t, x, groups, m) == superMatcher(t, groups, Document, <<x>>, m).found # <<>>

\* uniqueSort(): document order, what is in no document last.
sortOrder(all, x, y) == Contains(all, x) /\ (Place(all, x) < Place(all, y) \/ ~Contains(all, y))
uniqueSort(t, s) ==
  SetToSortSeq(ToSet(s), LAMBDA x, y : sortOrder(Inside(t, Document), x, y))

\* jQuery.fn.find(), filter() and not(), closest(), and jQuery() with a context.
find(t, elems, groups, qsa, m) ==
  LET Each(so, x) == Only({Search(so.found \o got.found, got.m) :
                             got \in {Sizzle(t, groups, x, qsa, so.m)}})
  IN  Only({IF Len(elems) > 1 THEN uniqueSort(t, all.found) ELSE all.found :
              all \in {FoldLeft(Each, Search(<<>>, m), elems)}})
init(t, groups, context, m) == find(t, <<context>>, groups, TRUE, m)
filter(t, elems, groups, negated, m) ==
  superMatcher(t, IF negated THEN <<<<[type |-> "not", groups |-> groups]>>>> ELSE groups,
               Document, elems, m).found
closest(t, elems, groups, m) ==
  LET Near(x) == Nearest(SelectSeq(<<x>> \o dir(t, x, "parentNode"),
                                   LAMBDA y : matchesSelector(t, y, groups, m)))
      matched == FlattenSeq([k \in DOMAIN elems |-> Near(elems[k])])
  IN  IF needsContext(groups) THEN <<>>
      ELSE IF Len(matched) > 1 THEN uniqueSort(t, matched) ELSE matched

\* parents(), nextAll() and so on, without "until".
Walked(t, x, name) ==
  CASE name = "parent" -> Nearest(dir(t, x, "parentNode"))
    [] name = "parents" -> dir(t, x, "parentNode")
    [] name \in {"next", "nextAll"} -> LET s == dir(t, x, "nextSibling")
                                       IN  IF name = "next" THEN Nearest(s) ELSE s
    [] name \in {"prev", "prevAll"} -> LET s == dir(t, x, "previousSibling")
                                       IN  IF name = "prev" THEN Nearest(s) ELSE s
    [] name = "siblings" -> siblings(t, x)
    [] name = "children" -> Children(t, x)
traverse(t, elems, name, groups, m) ==
  LET all == FlattenSeq([k \in DOMAIN elems |-> Walked(t, elems[k], name)])
      matched == filter(t, all, groups, FALSE, m)
      sorted == IF name \in {"children", "next", "prev"} THEN matched ELSE uniqueSort(t, matched)
  IN  IF Len(elems) <= 1 THEN matched
      ELSE IF name \in {"parents", "prevAll"} THEN Reverse(sorted) ELSE sorted
=============================================================================
