--------------------------- MODULE ExchangeProofs ---------------------------
(***************************************************************************)
(* Proofs about Exchange, for every number of requests, callbacks and      *)
(* thenables, and whether or not callbacks throw: what is over is silent,  *)
(* callbacks are called in turn, verdicts stand, and the two callback      *)
(* lists of a deferred implement the promise of Settlement.                *)
(***************************************************************************)
EXTENDS Exchange, FiniteSetTheorems, TLAPS

(***************************************************************************)
(* The inductive invariant.  Kinds of functions on the lists, callback     *)
(* lists, and calls in progress.                                           *)
(***************************************************************************)
How == {"done", "fail", "throws"}
Both == {"done", "fail"}
Ids == 0 .. MaxCallbacks
Fn == [kind : {"user", "settle", "fireHandlers", "then"}, id : Ids]
Cb == [list : Seq(Fn), open : BOOLEAN, queue : Nat, index : Nat, firing : BOOLEAN,
       memory : BOOLEAN, locked : BOOLEAN, once : BOOLEAN, keeps : BOOLEAN]
Frame == [call : {"loop"}, d : Deferreds, l : Lists]
         \union [call : {"body"}, f : Ids]
         \union [call : {"done"}, x : Requests, at : {"complete", "finish"}]

\* The lists of a deferred are fired once: a list is untouched, or in its loop, or
\* at rest and empty, or disabled, and no firing ever waits for another.
ListOK(cb) ==
  /\ cb.once /\ cb.keeps /\ cb.queue = 0 /\ cb.index <= Len(cb.list)
  /\ cb.firing => cb.memory
  /\ cb.memory => cb.open /\ cb.locked
  /\ cb.locked => cb.memory \/ ~cb.open
  /\ ~cb.open => cb.locked /\ cb.list = <<>>
  /\ ~cb.firing => cb.index = 0 /\ (cb.locked => cb.list = <<>>)

\* a are the callbacks that were registered, r those that were called: r is a
\* beginning of a, what is on the list is an end of it, behind the two functions
\* of jQuery.Deferred as long as these are there, and index has come as far as r.
Shift(cb, a) == Len(a) - Len(cb.list)
Begins(r, a) == Len(r) <= Len(a) /\ \A i \in 1 .. Len(r) : r[i] = a[i]
Ends2(cb, a) == \A i \in 1 .. Len(cb.list) :
                  i + Shift(cb, a) >= 1 => cb.list[i] = User(a[i + Shift(cb, a)])
Guarded(cb, a) == \/ Shift(cb, a) >= 0
                  \/ /\ Shift(cb, a) = -2 /\ Len(cb.list) >= 2
                     /\ cb.list[1] = Builtin("settle") /\ cb.list[2] = Builtin("fireHandlers")
InStep(cb, a, r) == Len(r) = IF cb.index + Shift(cb, a) >= 0 THEN cb.index + Shift(cb, a) ELSE 0
Follows(cb, a, r) ==
  /\ Begins(r, a)
  /\ ~cb.open => r = <<>>
  /\ cb.open => Guarded(cb, a) /\ Ends2(cb, a) /\ InStep(cb, a, r)

(***************************************************************************)
(* The operations of CallbackList on a list of this kind.                  *)
(***************************************************************************)
\* fireWith() starts the loop of a list that was never fired, and does nothing to
\* any other.
LEMMA FireForm ==
  ASSUME NEW cb \in Cb, ListOK(cb)
  PROVE  LET c == fireWith(cb) IN
         /\ c \in Cb /\ ListOK(c) /\ c.list = cb.list /\ c.index = cb.index
         /\ (c.open <=> cb.open) /\ c.locked
         /\ (c.firing <=> (cb.firing \/ ~cb.locked)) /\ (cb.locked => c = cb)
  BY DEF Cb, ListOK, fireWith, fire

\* add() puts one more function on a list that is open, and starts the loop of one
\* that is at rest after it was fired.
LEMMA AddForm ==
  ASSUME NEW cb \in Cb, ListOK(cb), NEW f \in Fn
  PROVE  LET c == add(cb, <<f>>) IN
         /\ c \in Cb /\ ListOK(c) /\ c.list = (IF cb.open THEN Append(cb.list, f) ELSE cb.list)
         /\ c.index = cb.index /\ (c.open <=> cb.open) /\ (c.locked <=> cb.locked)
         /\ (c.firing <=> (cb.firing \/ (cb.open /\ cb.locked)))
<1>1. cb.list \in Seq(Fn) /\ <<f>> \in Seq(Fn) BY DEF Cb
<1>2. cb.list \o <<f>> = Append(cb.list, f) /\ Append(cb.list, f) \in Seq(Fn)
      /\ Len(Append(cb.list, f)) = Len(cb.list) + 1
  BY <1>1
<1>3. cb.memory /\ ~cb.firing => Len(cb.list) = 0 BY DEF ListOK
<1>4. CASE ~cb.open BY <1>4 DEF Cb, ListOK, add
<1>5. CASE cb.open /\ ~(cb.memory /\ ~cb.firing)
  <2>1. add(cb, <<f>>) = [cb EXCEPT !.list = Append(@, f)] BY <1>2, <1>5 DEF add
  <2> DEFINE c == add(cb, <<f>>)
  <2>2. c \in Cb
    <3> DEFINE new == Append(cb.list, f)
    <3>1. new \in Seq(Fn) /\ c = [cb EXCEPT !.list = new] BY <1>2, <2>1
    <3> HIDE DEF new, c
    <3> QED BY <3>1 DEF Cb
  <2>3. /\ c.list = Append(cb.list, f) /\ c.index = cb.index
        /\ (c.open <=> cb.open) /\ (c.locked <=> cb.locked) /\ (c.firing <=> cb.firing)
        /\ (c.memory <=> cb.memory) /\ c.queue = 0 /\ c.once /\ c.keeps
    BY <2>1 DEF Cb, ListOK
  <2>4. cb.index \in Nat /\ Len(cb.list) \in Nat BY <1>1 DEF Cb
  <2> HIDE DEF c
  <2>5. ListOK(c) BY <1>2, <1>5, <2>3, <2>4 DEF ListOK
  <2> QED BY <1>5, <2>2, <2>3, <2>5 DEF c, ListOK
<1>6. CASE cb.open /\ cb.memory /\ ~cb.firing
  <2>1. add(cb, <<f>>) = [cb EXCEPT !.list = Append(@, f), !.index = 0,
                            !.locked = TRUE, !.firing = TRUE, !.memory = TRUE]
    BY <1>2, <1>3, <1>6 DEF Cb, ListOK, add, fire
  <2> DEFINE c == add(cb, <<f>>)
  <2>2. c \in Cb
    <3> DEFINE new == Append(cb.list, f)
    <3>1. /\ new \in Seq(Fn)
          /\ c = [cb EXCEPT !.list = new, !.index = 0, !.locked = TRUE, !.firing = TRUE,
                            !.memory = TRUE]
      BY <1>2, <2>1
    <3> HIDE DEF new, c
    <3> QED BY <3>1 DEF Cb
  <2>3. /\ c.list = Append(cb.list, f) /\ c.index = 0 /\ cb.index = 0
        /\ c.open /\ c.locked /\ cb.locked /\ c.firing
        /\ c.memory /\ c.queue = 0 /\ c.once /\ c.keeps
    BY <1>6, <2>1 DEF Cb, ListOK
  <2>4. Len(c.list) = 1 BY <1>1, <1>2, <1>3, <1>6, <2>3
  <2> HIDE DEF c
  <2>5. ListOK(c) BY <2>3, <2>4 DEF ListOK
  <2> QED BY <1>6, <2>2, <2>3, <2>5 DEF c
<1> QED BY <1>4, <1>5, <1>6

\* disable() of a list that is not in its loop.
LEMMA DisableForm ==
  ASSUME NEW cb \in Cb, ListOK(cb), ~cb.firing
  PROVE  LET c == disable(cb) IN
         /\ c \in Cb /\ ListOK(c) /\ c.list = <<>> /\ c.index = 0
         /\ ~c.open /\ c.locked /\ ~c.firing
<1> DEFINE c == disable(cb)
<1>1. <<>> \in Seq(Fn) /\ Len(<<>>) = 0 OBVIOUS
<1>2. c \in Cb BY <1>1 DEF Cb, disable
<1>3. /\ c.list = <<>> /\ c.index = 0 /\ ~c.open /\ c.locked /\ ~c.firing
      /\ c.once /\ c.keeps /\ c.queue = 0 /\ ~c.memory
  BY DEF disable, Cb, ListOK
<1> HIDE DEF c
<1>4. ListOK(c) BY <1>1, <1>3 DEF ListOK
<1> QED BY <1>2, <1>3, <1>4 DEF c

\* The loop goes on to the next function ...
LEMMA CallForm ==
  ASSUME NEW cb \in Cb, ListOK(cb), cb.firing, HasCall(cb)
  PROVE  LET c == AfterCall(cb) IN
         /\ c \in Cb /\ ListOK(c) /\ c.list = cb.list /\ c.index = cb.index + 1
         /\ (c.open <=> cb.open) /\ (c.locked <=> cb.locked) /\ (c.firing <=> cb.firing)
  BY DEF Cb, ListOK, AfterCall, HasCall

\* ... and ends with the list empty.
LEMMA TurnForm ==
  ASSUME NEW cb \in Cb, ListOK(cb), cb.firing, ~HasCall(cb)
  PROVE  LET c == Turn(cb) IN
         /\ c \in Cb /\ ListOK(c) /\ c.list = <<>> /\ c.index = 0
         /\ (c.open <=> cb.open) /\ (c.locked <=> cb.locked) /\ ~c.firing
<1>1. <<>> \in Seq(Fn) /\ Len(<<>>) = 0 OBVIOUS
<1> DEFINE c == Turn(cb)
           open == cb.open /\ (cb.locked => cb.keeps /\ cb.memory)
           memory == cb.keeps /\ cb.memory
           list == IF cb.locked THEN <<>> ELSE cb.list
<1>2. c = [cb EXCEPT !.index = 0, !.firing = FALSE, !.memory = memory, !.list = list,
                     !.open = open]
  BY DEF Cb, ListOK, Turn
<1>3. c \in Cb
  <2>1. open \in BOOLEAN /\ memory \in BOOLEAN /\ list \in Seq(Fn) BY <1>1 DEF Cb
  <2> HIDE DEF open, memory, list, c
  <2> QED BY <1>2, <2>1 DEF Cb
<1>4. /\ c.list = <<>> /\ c.index = 0 /\ c.open /\ cb.open /\ c.locked /\ cb.locked
      /\ ~c.firing /\ c.once /\ c.keeps /\ c.queue = 0 /\ c.memory
  <2>1. cb.memory /\ cb.locked /\ cb.open /\ cb.keeps /\ cb.queue = 0 BY DEF ListOK
  <2> QED BY <1>1, <1>2, <2>1 DEF Cb, ListOK
<1> HIDE DEF c
<1>5. ListOK(c) BY <1>1, <1>4 DEF ListOK
<1> QED BY <1>3, <1>4, <1>5 DEF c

\* Firing, adding, disabling, calling and ending keep the list in step with what
\* was registered and called.
LEMMA FollowsAdd ==
  ASSUME NEW cb \in Cb, ListOK(cb), NEW a \in Seq(Ids), NEW r \in Seq(Ids), NEW id \in Ids,
         Follows(cb, a, r)
  PROVE  /\ Follows(add(cb, <<User(id)>>), Append(a, id), r)
         /\ cb.open => Shift(add(cb, <<User(id)>>), Append(a, id)) = Shift(cb, a)
<1> DEFINE c == add(cb, <<User(id)>>)
           b == Append(a, id)
<1>1. User(id) \in Fn BY DEF User, Fn
<1>2. /\ c.list = (IF cb.open THEN Append(cb.list, User(id)) ELSE cb.list)
      /\ c.index = cb.index /\ (c.open <=> cb.open)
  BY <1>1, AddForm
<1>3. /\ cb.list \in Seq(Fn) /\ cb.index \in Nat /\ Len(cb.list) \in Nat BY DEF Cb
<1>4. /\ Len(b) = Len(a) + 1 /\ b[Len(a) + 1] = id /\ \A i \in 1 .. Len(a) : b[i] = a[i]
      /\ Len(a) \in Nat /\ Len(r) \in Nat
  OBVIOUS
<1> HIDE DEF c, b
<1>5. Begins(r, b) BY <1>4 DEF Begins, Follows
<1>6. ~c.open => r = <<>> BY <1>2 DEF Follows
<1>7. ASSUME cb.open
      PROVE  /\ Guarded(c, b) /\ Ends2(c, b) /\ InStep(c, b, r)
             /\ Shift(c, b) = Shift(cb, a)
  <2>1. /\ Len(c.list) = Len(cb.list) + 1 /\ c.list[Len(cb.list) + 1] = User(id)
        /\ \A i \in 1 .. Len(cb.list) : c.list[i] = cb.list[i]
    BY <1>1, <1>2, <1>3, <1>7
  <2>2. Shift(c, b) = Shift(cb, a) /\ Shift(c, b) \in Int BY <1>3, <1>4, <2>1 DEF Shift
  <2>3. Ends2(c, b)
    <3>1. ASSUME NEW i \in 1 .. Len(c.list), i + Shift(c, b) >= 1
          PROVE  c.list[i] = User(b[i + Shift(c, b)])
      <4>1. CASE i = Len(cb.list) + 1
        <5>1. i + Shift(cb, a) = Len(a) + 1
          <6> DEFINE n == Len(cb.list)
                     k == Len(a)
          <6>1. n \in Nat /\ k \in Nat /\ i = n + 1 /\ Shift(cb, a) = k - n
            BY <1>3, <1>4, <4>1 DEF Shift
          <6> HIDE DEF n, k
          <6>2. i + Shift(cb, a) = k + 1 BY <6>1
          <6> QED BY <6>2 DEF k
        <5> QED BY <1>4, <2>1, <2>2, <4>1, <5>1
      <4>2. CASE i \in 1 .. Len(cb.list)
        <5>1. i + Shift(c, b) \in 1 .. Len(a) BY <1>3, <1>4, <2>1, <2>2, <3>1, <4>2 DEF Shift
        <5>2. cb.list[i] = User(a[i + Shift(cb, a)])
          BY <1>7, <2>2, <3>1, <4>2 DEF Follows, Ends2
        <5> QED BY <1>4, <2>1, <2>2, <4>2, <5>1, <5>2
      <4> QED BY <1>3, <2>1, <4>1, <4>2
    <3> QED BY <3>1 DEF Ends2
  <2>4. Guarded(c, b) BY <1>3, <1>7, <2>1, <2>2 DEF Guarded, Follows
  <2>5. InStep(c, b, r) BY <1>2, <1>7, <2>2 DEF InStep, Follows
  <2> QED BY <2>2, <2>3, <2>4, <2>5
<1> QED BY <1>2, <1>5, <1>6, <1>7 DEF Follows, c, b

LEMMA FollowsCall ==
  ASSUME NEW cb \in Cb, ListOK(cb), NEW a \in Seq(Ids), NEW r \in Seq(Ids),
         cb.firing, HasCall(cb), Follows(cb, a, r)
  PROVE  LET f == NextCall(cb) IN
         /\ f \in Fn
         /\ f.kind = "user" => /\ cb.index + Shift(cb, a) >= 0 /\ cb.index + Shift(cb, a) = Len(r)
                               /\ Len(r) < Len(a) /\ f.id = a[Len(r) + 1] /\ f.id \in Ids
                               /\ Follows(AfterCall(cb), a, Append(r, f.id))
         /\ f.kind # "user" => /\ cb.index + Shift(cb, a) < 0 /\ Shift(cb, a) = -2
                               /\ Follows(AfterCall(cb), a, r)
         /\ f.kind = "settle" => cb.index = 0
         /\ f.kind = "fireHandlers" => cb.index = 1
         /\ f.kind # "then"
<1> DEFINE f == NextCall(cb)
           k == Shift(cb, a)
           c == AfterCall(cb)
<1>1. /\ cb.list \in Seq(Fn) /\ cb.index \in Nat /\ cb.index + 1 \in 1 .. Len(cb.list) /\ cb.open
  BY DEF Cb, HasCall, ListOK
<1>2. f = cb.list[cb.index + 1] /\ f \in Fn BY <1>1 DEF NextCall
<1>3. /\ c.list = cb.list /\ c.index = cb.index + 1 /\ (c.open <=> cb.open) BY CallForm
<1>4. k \in Int /\ Shift(c, a) = k BY <1>1, <1>3 DEF Shift
<1>5. Guarded(cb, a) /\ Ends2(cb, a) /\ InStep(cb, a, r) /\ Begins(r, a)
      /\ Len(r) \in Nat /\ Len(a) \in Nat
  BY <1>1 DEF Follows
<1>6. Guarded(c, a) /\ Ends2(c, a) BY <1>3, <1>4, <1>5 DEF Guarded, Ends2
<1>7. CASE cb.index + k >= 0
  <2>1. Len(r) = cb.index + k /\ cb.index + k < Len(a)
    BY <1>1, <1>4, <1>5, <1>7 DEF InStep, Shift
  <2>2. f = User(a[cb.index + 1 + k])
    <3>1. cb.index + 1 + k >= 1 BY <1>1, <1>4, <1>7
    <3>2. \A i \in 1 .. Len(cb.list) : i + k >= 1 => cb.list[i] = User(a[i + k])
      BY <1>5 DEF Ends2
    <3> HIDE DEF k, f
    <3> QED BY <1>1, <1>2, <3>1, <3>2
  <2>3. f.kind = "user" /\ f.id = a[Len(r) + 1] /\ f.id \in Ids
    <3>1. Len(r) + 1 = cb.index + 1 + k /\ Len(r) + 1 \in 1 .. Len(a)
      BY <1>1, <1>4, <1>5, <2>1
    <3> HIDE DEF k, f
    <3> QED BY <2>2, <3>1 DEF User
  <2> DEFINE s == Append(r, f.id)
  <2>4. Len(s) = Len(r) + 1 /\ s[Len(r) + 1] = f.id /\ \A i \in 1 .. Len(r) : s[i] = r[i]
    BY <2>3
  <2> HIDE DEF s, f, c, k
  <2>5. Begins(s, a)
    <3>1. Len(s) <= Len(a) BY <1>1, <1>4, <1>5, <2>1, <2>4
    <3>2. ASSUME NEW i \in 1 .. Len(s) PROVE s[i] = a[i]
      <4>1. i \in 1 .. Len(r) \/ i = Len(r) + 1 BY <1>5, <2>4
      <4> QED BY <1>5, <2>3, <2>4, <4>1 DEF Begins
    <3> QED BY <3>1, <3>2 DEF Begins
  <2>6. InStep(c, a, s) BY <1>1, <1>3, <1>4, <1>7, <2>1, <2>4 DEF InStep
  <2>7. Follows(c, a, s) BY <1>1, <1>3, <1>6, <2>5, <2>6 DEF Follows
  <2> QED BY <1>2, <1>7, <2>1, <2>3, <2>7 DEF s, f, c, k
<1>8. CASE cb.index + k < 0
  <2>1. k = -2 /\ cb.index \in {0, 1}
    <3>1. k >= 0 \/ k = -2 BY <1>5 DEF Guarded
    <3> HIDE DEF k
    <3> QED BY <1>1, <1>4, <1>8, <3>1
  <2>2. f = (IF cb.index = 0 THEN Builtin("settle") ELSE Builtin("fireHandlers"))
    BY <1>1, <1>2, <1>5, <2>1 DEF Guarded
  <2>3. f.kind = (IF cb.index = 0 THEN "settle" ELSE "fireHandlers") BY <2>2 DEF Builtin
  <2>4. Len(r) = 0 BY <1>1, <1>4, <1>5, <1>8 DEF InStep
  <2> HIDE DEF f, c, k
  <2>5. InStep(c, a, r) BY <1>1, <1>3, <1>4, <2>1, <2>4 DEF InStep
  <2>6. Follows(c, a, r) BY <1>1, <1>3, <1>5, <1>6, <2>5 DEF Follows
  <2>7. c = AfterCall(cb) /\ f = NextCall(cb) /\ k = Shift(cb, a) BY DEF c, f, k
  <2> QED BY <1>2, <1>8, <2>1, <2>3, <2>6, <2>7
<1> QED BY <1>1, <1>4, <1>7, <1>8

LEMMA FollowsTurn ==
  ASSUME NEW cb \in Cb, ListOK(cb), NEW a \in Seq(Ids), NEW r \in Seq(Ids),
         cb.firing, ~HasCall(cb), Follows(cb, a, r)
  PROVE  /\ Follows(Turn(cb), a, r) /\ Len(r) = Len(a)
         /\ Shift(Turn(cb), a) = Len(a)
<1> DEFINE c == Turn(cb)
<1>1. /\ cb.list \in Seq(Fn) /\ cb.index = Len(cb.list) /\ cb.open /\ cb.index \in Nat
  BY DEF Cb, HasCall, ListOK
<1>2. c.list = <<>> /\ c.index = 0 /\ (c.open <=> cb.open) BY TurnForm
<1> HIDE DEF c
<1>3. Shift(c, a) = Len(a) /\ Len(c.list) = 0 /\ Len(a) \in Nat BY <1>2 DEF Shift
<1>4. Len(r) = Len(a) BY <1>1, <1>3 DEF Follows, InStep, Shift
<1>5. Guarded(c, a) /\ Ends2(c, a) /\ InStep(c, a, r)
  BY <1>2, <1>3, <1>4 DEF Guarded, Ends2, InStep
<1> QED BY <1>1, <1>2, <1>3, <1>4, <1>5 DEF Follows, c

(***************************************************************************)
(* Deferreds, lists and calls in progress.                                 *)
(***************************************************************************)
LEMMA Names ==
  /\ \A x \in Requests : /\ Main(x) \in Deferreds /\ Derived(x) \in Deferreds
                         /\ Main(x)[1] = x /\ Derived(x)[1] = x
  /\ \A x, y \in Requests : /\ Main(x) = Main(y) => x = y
                            /\ Derived(x) = Derived(y) => x = y
                            /\ Main(x) # Derived(y)
  /\ \A d \in Deferreds : \E x \in Requests : d = Main(x) \/ d = Derived(x)
  BY DEF Main, Derived, Deferreds

LEMMA ListNames ==
  /\ \A l \in Both : /\ l \in Lists /\ l \in UserLists /\ Handlers(l) \in Lists
                     /\ Opposite(l) \in Both /\ Opposite(l) # l /\ Opposite(Opposite(l)) = l
                     /\ Handlers(l) \in {"onDone", "onFail"}
                     /\ Handlers(Opposite(l)) # Handlers(l)
  /\ \A l, m \in Both : l = m \/ m = Opposite(l)
  /\ UserLists = Both \union {"complete"} /\ UserLists \subseteq Lists
  /\ Lists = UserLists \union {"onDone", "onFail"}
  /\ \A l \in UserLists : l \notin {"onDone", "onFail"}
  /\ \A l \in {"onDone", "onFail"} : \E m \in Both : l = Handlers(m)
  BY DEF Both, Lists, UserLists, Handlers, Opposite

\* Two frames of the same loop, or of the done() of the same request.
Same(f, g) == /\ f.call = g.call /\ f.call # "body"
              /\ f.call = "loop" => f.d = g.d /\ f.l = g.l
              /\ f.call = "done" => f.x = g.x

LEMMA Frames ==
  /\ \A d, l : Loop(d, l).call = "loop" /\ Loop(d, l).d = d /\ Loop(d, l).l = l
  /\ \A id : Body(id).call = "body" /\ Body(id).f = id
  /\ \A x, at : Done(x, at).call = "done" /\ Done(x, at).x = x /\ Done(x, at).at = at
  /\ \A d \in Deferreds, l \in Lists : Loop(d, l) \in Frame
  /\ \A id \in Ids : Body(id) \in Frame
  /\ \A x \in Requests, at \in {"complete", "finish"} : Done(x, at) \in Frame
  /\ \A f \in Frame : /\ f.call \in {"loop", "body", "done"}
                      /\ f.call = "loop" => /\ f = Loop(f.d, f.l)
                                            /\ f.d \in Deferreds /\ f.l \in Lists
                      /\ f.call = "body" => f = Body(f.f) /\ f.f \in Ids
                      /\ f.call = "done" => /\ f = Done(f.x, f.at) /\ f.x \in Requests
                                            /\ f.at \in {"complete", "finish"}
  BY DEF Loop, Body, Done, Frame

\* Calling and returning.
LEMMA Push ==
  ASSUME NEW s \in Seq(Frame), NEW f \in Frame
  PROVE  /\ <<f>> \o s \in Seq(Frame) /\ Len(<<f>> \o s) = Len(s) + 1
         /\ (<<f>> \o s)[1] = f /\ Head(<<f>> \o s) = f /\ <<f>> \o s # <<>>
         /\ \A i \in 1 .. Len(s) : (<<f>> \o s)[i + 1] = s[i]
         /\ \A i \in 2 .. Len(s) + 1 : (<<f>> \o s)[i] = s[i - 1]
         /\ Tail(<<f>> \o s) = s
<1>1. <<f>> \in Seq(Frame) /\ Len(<<f>>) = 1 /\ <<f>>[1] = f OBVIOUS
<1>2. <<f>> \o s \in Seq(Frame) /\ Len(<<f>> \o s) = Len(s) + 1
      /\ \A i \in 1 .. Len(s) + 1 : (<<f>> \o s)[i] = IF i = 1 THEN f ELSE s[i - 1]
  BY <1>1
<1> DEFINE t == <<f>> \o s
<1> HIDE DEF t
<1>3. t \in Seq(Frame) /\ Len(t) = Len(s) + 1
      /\ \A i \in 1 .. Len(s) + 1 : t[i] = IF i = 1 THEN f ELSE s[i - 1]
  BY <1>2 DEF t
<1>4. t[1] = f /\ t # <<>> /\ Head(t) = f BY <1>3
<1>5. \A i \in 1 .. Len(s) : t[i + 1] = s[i] BY <1>3
<1>6. \A i \in 2 .. Len(s) + 1 : t[i] = s[i - 1] BY <1>3
<1>7. Tail(t) = s BY <1>3, <1>5
<1> QED BY <1>3, <1>4, <1>5, <1>6, <1>7 DEF t

LEMMA Pop ==
  ASSUME NEW s \in Seq(Frame), s # <<>>
  PROVE  /\ Tail(s) \in Seq(Frame) /\ Len(Tail(s)) = Len(s) - 1 /\ Len(s) \in Nat \ {0}
         /\ Head(s) = s[1] /\ Head(s) \in Frame
         /\ \A i \in 1 .. Len(s) - 1 : Tail(s)[i] = s[i + 1]
  OBVIOUS

(***************************************************************************)
(* The inductive invariant.                                                *)
(***************************************************************************)
TypeInv ==
  /\ lists \in [Deferreds -> [Lists -> Cb]] /\ stack \in Seq(Frame)
  /\ added \in [Deferreds -> [UserLists -> Seq(Ids)]]
  /\ ran \in [Deferreds -> [UserLists -> Seq(Ids)]]
  /\ state \in [Deferreds -> {"pending", "done", "fail"}]
  /\ completed \in [Requests -> {"unset", "no", "yes"}]
  /\ transport \subseteq Requests /\ timer \subseteq Requests /\ handlers \subseteq Requests
  /\ chained \subseteq Requests /\ active \in Int
  /\ endings \in [answer : SUBSET How, abort : SUBSET How]
  /\ depth \in [Requests -> 0 .. MaxDepth] /\ tasks \subseteq [x : Requests, ok : BOOLEAN]
  /\ verdict \in [Requests -> [0 .. MaxDepth -> {"none"} \union Results]]
  /\ thrown \in BOOLEAN

\* Every list is in one of its four conditions and in step with its callbacks; the
\* complete list has nothing but callbacks, the lists of then() nothing else than its
\* function.
ListFine(l, cb, a, r) ==
  /\ ListOK(cb)
  /\ l \in UserLists => Follows(cb, a, r)
  /\ l = "complete" => /\ cb.open /\ Shift(cb, a) >= 0
                       /\ ~cb.locked => Shift(cb, a) = 0
  /\ l \in {"onDone", "onFail"} => \A i \in 1 .. Len(cb.list) : cb.list[i] = Builtin("then")
ListsInv ==
  \A d \in Deferreds, l \in Lists : ListFine(l, lists[d][l], added[d][l], ran[d][l])

\* A list of an outcome, before the deferred is settled: nothing on it was called, and
\* the list of then() was not fired.
Untouched(ls, as, l) ==
  /\ ls[l].open /\ ls[l].index = 0 /\ Shift(ls[l], as[l]) = -2
  /\ ls[Handlers(l)].open /\ ~ls[Handlers(l)].locked
\* The lists of a settled deferred: those of the other outcome are disabled.
Settles(ls, as, l) ==
  /\ ls[l].open /\ ls[l].locked /\ ls[Handlers(l)].open
  /\ ~ls[Opposite(l)].open /\ ~ls[Handlers(Opposite(l))].open
\* No loop of d is between its first call and the one that fires the list of then():
\* such a loop is always the innermost call.
Past(ls, as, l) == ls[l].index + Shift(ls[l], as[l])
Calm(s, ls, as) ==
  \A l \in Both : /\ s = "pending" => Untouched(ls, as, l) /\ ~ls[l].locked
                  /\ s = l => Settles(ls, as, l) /\ Past(ls, as, l) \in Nat
OnTop(f) == stack # <<>> /\ Head(stack) = f
DeferredInv(d) ==
  \A l \in Both :
    /\ state[d] = "pending" =>
         /\ Untouched(lists[d], added[d], l)
         /\ lists[d][l].locked => lists[d][l].firing /\ OnTop(Loop(d, l))
    /\ state[d] = l =>
         /\ Settles(lists[d], added[d], l) /\ Past(lists[d], added[d], l) >= -1
         /\ Past(lists[d], added[d], l) = -1 =>
              lists[d][l].firing /\ OnTop(Loop(d, l)) /\ ~lists[d][Handlers(l)].locked
StateInv == \A d \in Deferreds : DeferredInv(d)

\* The calls in progress: a loop is called once, when its list starts firing; what
\* belongs to the end of a request is not above a loop of its outcome.
Running == {p \in Deferreds \X Lists : lists[p[1]][p[2]].firing}
Completes == [x \in Requests |-> added[Main(x)]["complete"]]
Finishing(x, f, ids) == \/ f = Loop(Main(x), "complete")
                        \/ f.call = "done" /\ f.x = x
                        \/ f.call = "body" /\ ids[x] = <<f.f>>
Distinct(s) == \A i, j \in 1 .. Len(s) : Same(s[i], s[j]) => i = j
Orderly(s, runs, ids) ==
  /\ Distinct(s)
  /\ \A i \in 1 .. Len(s) : s[i].call = "loop" => <<s[i].d, s[i].l>> \in runs
  /\ \A i \in 1 .. Len(s), x \in Requests, l \in Both :
       Finishing(x, s[i], ids) /\ <<Main(x), l>> \in runs =>
         \E j \in 1 .. Len(s) : j < i /\ s[j] = Loop(Main(x), l)
Covered(s, runs) == \A d \in Deferreds, l \in Lists : <<d, l>> \in runs =>
                      \E i \in 1 .. Len(s) : s[i] = Loop(d, l)
Decided(s, ids, xs) == \A i \in 1 .. Len(s), x \in Requests : Finishing(x, s[i], ids) => x \in xs
StackOK(s, lost, runs, ids, xs) ==
  Orderly(s, runs, ids) /\ (lost \/ Covered(s, runs)) /\ Decided(s, ids, xs)
Fired == {x \in Requests : \E l \in Both : lists[Main(x)][l].locked}
StackInv == StackOK(stack, thrown, Running, Completes, Fired)

\* The numbers of the callbacks are used once.
IdsInv ==
  /\ \E n \in Nat : Registered = 1 .. n
  /\ \A x \in Requests, d \in Deferreds, l \in UserLists, i, j \in Nat :
       /\ i \in 1 .. Len(added[d][l]) /\ j \in 1 .. Len(added[Main(x)]["complete"])
       /\ added[d][l][i] = added[Main(x)]["complete"][j]
       => d = Main(x) /\ l = "complete"

\* A request: sent, over, or in the done() that ends it.
OpenRequests == {x \in Requests : completed[x] = "no"}
Counting(s) == {x \in Requests : \E i \in 1 .. Len(s) : s[i].call = "done" /\ s[i].x = x}
AjaxInv ==
  /\ transport = OpenRequests /\ timer = OpenRequests /\ handlers = OpenRequests
  /\ \A x \in Counting(stack) : completed[x] = "yes"
  /\ active >= Cardinality(OpenRequests \union Counting(stack))
  /\ active <= Cardinality({x \in Requests : completed[x] # "unset"})
  /\ thrown \/ active = Cardinality(OpenRequests \union Counting(stack))
RequestInv ==
  \A x \in Requests :
    /\ completed[x] = "unset" => added[Main(x)]["complete"] = <<>>
    /\ Len(added[Main(x)]["complete"]) <= 1
    /\ completed[x] # "yes" => \A l \in UserLists : ~lists[Main(x)][l].locked
    /\ lists[Main(x)]["complete"].locked => state[Main(x)] # "pending"
    /\ ~lists[Derived(x)]["complete"].locked

\* The verdict on the promise of then(): while it is open, that of each thenable so
\* far is another one; when it is fired, the outcome is that of the last.
VerdictInv ==
  \A x \in Requests :
    /\ (\A l \in Both : ~lists[Derived(x)][l].locked) =>
         \A at \in 0 .. MaxDepth : verdict[x][at] = IF at < depth[x] THEN "thenable" ELSE "none"
    /\ \A l \in Both : lists[Derived(x)][l].locked /\ lists[Derived(x)][l].open =>
         \E last \in 0 .. MaxDepth :
           /\ \A at \in 0 .. last - 1 : verdict[x][at] = "thenable"
           /\ verdict[x][last] = IF l = "done" THEN "value" ELSE "throws"

PromiseInv == TypeInv /\ ListsInv /\ StateInv /\ StackInv /\ IdsInv /\ RequestInv
Inv == PromiseInv /\ AjaxInv /\ VerdictInv

(***************************************************************************)
(* The operations keep a list fine.                                        *)
(***************************************************************************)
LEMMA FireFine ==
  ASSUME NEW cb \in Cb, NEW l, NEW a, NEW r, ListFine(l, cb, a, r)
  PROVE  ListFine(l, fireWith(cb), a, r) /\ Shift(fireWith(cb), a) = Shift(cb, a)
<1> DEFINE c == fireWith(cb)
<1>1. ListOK(c) /\ c.list = cb.list /\ c.index = cb.index /\ (c.open <=> cb.open) /\ c.locked
  BY FireForm DEF ListFine
<1> HIDE DEF c
<1>2. Shift(c, a) = Shift(cb, a) BY <1>1 DEF Shift
<1>3. Follows(cb, a, r) => Follows(c, a, r)
  BY <1>1, <1>2 DEF Follows, Guarded, Ends2, InStep
<1> QED BY <1>1, <1>2, <1>3 DEF ListFine, c

LEMMA AddFine ==
  ASSUME NEW cb \in Cb, NEW l \in UserLists, NEW a \in Seq(Ids), NEW r \in Seq(Ids),
         NEW id \in Ids, ListFine(l, cb, a, r)
  PROVE  /\ ListFine(l, add(cb, <<User(id)>>), Append(a, id), r)
         /\ cb.open => Shift(add(cb, <<User(id)>>), Append(a, id)) = Shift(cb, a)
<1>1. User(id) \in Fn BY DEF User, Fn
<1> DEFINE c == add(cb, <<User(id)>>)
           b == Append(a, id)
<1>2. ListOK(c) /\ (c.open <=> cb.open) /\ (c.locked <=> cb.locked) BY <1>1, AddForm DEF ListFine
<1>3. Follows(c, b, r) /\ (cb.open => Shift(c, b) = Shift(cb, a)) BY FollowsAdd DEF ListFine
<1> HIDE DEF b, c
<1>4. l \notin {"onDone", "onFail"} BY ListNames
<1>5. ListFine(l, c, b, r) BY <1>2, <1>3, <1>4 DEF ListFine
<1> QED BY <1>3, <1>5 DEF b, c

LEMMA AddThenFine ==
  ASSUME NEW cb \in Cb, NEW l \in {"onDone", "onFail"}, NEW a, NEW r, ListFine(l, cb, a, r)
  PROVE  Builtin("then") \in Fn /\ ListFine(l, add(cb, <<Builtin("then")>>), a, r)
<1>1. Builtin("then") \in Fn BY ExchangeAssumption DEF Builtin, Fn, Ids
<1> DEFINE c == add(cb, <<Builtin("then")>>)
<1>2. ListOK(c) /\ c.list = (IF cb.open THEN Append(cb.list, Builtin("then")) ELSE cb.list)
  BY <1>1, AddForm DEF ListFine
<1>3. cb.list \in Seq(Fn) /\ \A i \in 1 .. Len(cb.list) : cb.list[i] = Builtin("then")
  BY DEF Cb, ListFine
<1>4. ASSUME NEW i \in 1 .. Len(c.list) PROVE c.list[i] = Builtin("then")
  <2>1. CASE cb.open
    <3> HIDE DEF c
    <3>1. c.list = Append(cb.list, Builtin("then")) BY <1>2, <2>1
    <3>2. i \in 1 .. Len(cb.list) \/ i = Len(cb.list) + 1 BY <1>1, <1>3, <3>1
    <3> QED BY <1>1, <1>3, <3>1, <3>2
  <2>2. CASE ~cb.open BY <1>2, <1>3, <2>2
  <2> QED BY <2>1, <2>2
<1>5. l \notin UserLists /\ l # "complete" BY DEF UserLists
<1> HIDE DEF c
<1>6. ListFine(l, c, a, r) BY <1>2, <1>4, <1>5 DEF ListFine
<1> QED BY <1>1, <1>6 DEF c

LEMMA DisableFine ==
  ASSUME NEW cb \in Cb, NEW l \in Lists, l # "complete", NEW a, NEW r,
         ListFine(l, cb, a, r), ~cb.firing, l \in UserLists => r = <<>> /\ a \in Seq(Ids)
  PROVE  ListFine(l, disable(cb), a, r)
<1> DEFINE c == disable(cb)
<1>1. ListOK(c) /\ ~c.open /\ c.list = <<>> BY DisableForm DEF ListFine
<1> HIDE DEF c
<1>2. Len(c.list) = 0 BY <1>1
<1>3. l \in UserLists => Follows(c, a, r)
  <2>1. l \in UserLists => Len(r) = 0 /\ Len(a) \in Nat OBVIOUS
  <2>2. l \in UserLists => Begins(r, a) BY <2>1 DEF Begins
  <2> QED BY <1>1, <2>2 DEF Follows
<1> QED BY <1>1, <1>2, <1>3 DEF ListFine, c

\* A call from a list: of a callback, whose number is the next of those registered, or
\* of one of jQuery's own functions, each at its place.
LEMMA CallFine ==
  ASSUME NEW cb \in Cb, NEW l \in Lists, NEW a, NEW r,
         l \in UserLists => a \in Seq(Ids) /\ r \in Seq(Ids),
         ListFine(l, cb, a, r), cb.firing, HasCall(cb)
  PROVE  LET f == NextCall(cb) IN
         /\ f.kind = "user" =>
              /\ l \in UserLists /\ cb.index + Shift(cb, a) >= 0
              /\ Len(r) < Len(a) /\ f.id = a[Len(r) + 1] /\ f.id \in Ids
              /\ ListFine(l, AfterCall(cb), a, Append(r, f.id))
         /\ f.kind # "user" => ListFine(l, AfterCall(cb), a, r)
         /\ f.kind = "settle" => l \in Both /\ cb.index = 0 /\ Shift(cb, a) = -2
         /\ f.kind = "fireHandlers" => l \in Both /\ cb.index = 1 /\ Shift(cb, a) = -2
         /\ f.kind = "then" => l \in {"onDone", "onFail"}
<1> DEFINE f == NextCall(cb)
           c == AfterCall(cb)
<1>1. ListOK(cb) /\ ListOK(c) /\ c.list = cb.list /\ (c.open <=> cb.open) /\ c.locked
  <2>1. ListOK(cb) /\ cb.locked BY DEF ListFine, ListOK
  <2> QED BY <2>1, CallForm
<1>2. Shift(c, a) = Shift(cb, a) BY <1>1 DEF Shift
<1>3. CASE l \in UserLists
  <2>1. Follows(cb, a, r) /\ l \notin {"onDone", "onFail"} BY <1>3, ListNames DEF ListFine
  <2>2. /\ f.kind = "user" => /\ cb.index + Shift(cb, a) >= 0 /\ Len(r) < Len(a)
                              /\ f.id = a[Len(r) + 1] /\ f.id \in Ids
                              /\ Follows(c, a, Append(r, f.id))
        /\ f.kind # "user" => Shift(cb, a) = -2 /\ Follows(c, a, r)
        /\ f.kind = "settle" => cb.index = 0
        /\ f.kind = "fireHandlers" => cb.index = 1
        /\ f.kind # "then"
    BY <1>1, <1>3, <2>1, FollowsCall
  <2> HIDE DEF f, c
  <2>3. f.kind # "user" => l \in Both
    BY <1>3, <2>2 DEF ListFine, UserLists, Both
  <2>4. f.kind = "user" => ListFine(l, c, a, Append(r, f.id))
    BY <1>1, <1>2, <2>1, <2>2 DEF ListFine
  <2>5. f.kind # "user" => ListFine(l, c, a, r)
    BY <1>1, <1>2, <2>1, <2>2 DEF ListFine
  <2>6. f.kind = "settle" => f.kind # "user" OBVIOUS
  <2>7. f.kind = "fireHandlers" => f.kind # "user" OBVIOUS
  <2> QED BY <1>3, <2>2, <2>3, <2>4, <2>5, <2>6, <2>7 DEF f, c
<1>4. CASE l \notin UserLists
  <2>1. l \in {"onDone", "onFail"} /\ l # "complete" BY <1>4, ListNames
  <2>2. f = Builtin("then")
    <3>1. cb.index + 1 \in 1 .. Len(cb.list) BY DEF Cb, HasCall
    <3> QED BY <2>1, <3>1 DEF ListFine, NextCall
  <2>3. f.kind = "then" BY <2>2 DEF Builtin
  <2> HIDE DEF f, c
  <2>4. ListFine(l, c, a, r) BY <1>1, <1>4, <2>1 DEF ListFine
  <2> QED BY <2>1, <2>3, <2>4 DEF f, c
<1> QED BY <1>3, <1>4

LEMMA TurnFine ==
  ASSUME NEW cb \in Cb, NEW l \in Lists, NEW a, NEW r,
         l \in UserLists => a \in Seq(Ids) /\ r \in Seq(Ids),
         ListFine(l, cb, a, r), cb.firing, ~HasCall(cb)
  PROVE  /\ ListFine(l, Turn(cb), a, r)
         /\ l \in UserLists => Len(r) = Len(a) /\ Shift(Turn(cb), a) = Len(a)
<1> DEFINE c == Turn(cb)
<1>1. ListOK(c) /\ c.list = <<>> /\ (c.open <=> cb.open) /\ c.locked
  <2>1. ListOK(cb) /\ cb.locked BY DEF ListFine, ListOK
  <2> QED BY <2>1, TurnForm
<1>2. l \in UserLists => Follows(c, a, r) /\ Len(r) = Len(a) /\ Shift(c, a) = Len(a)
  BY FollowsTurn DEF ListFine
<1>3. Len(a) >= 0 /\ Len(c.list) = 0 BY <1>1
<1>4. "complete" \in UserLists BY DEF UserLists
<1> HIDE DEF c
<1>5. ListFine(l, c, a, r) BY <1>1, <1>2, <1>3, <1>4 DEF ListFine
<1> QED BY <1>2, <1>5 DEF c

(***************************************************************************)
(* Calling and returning keep the calls in order.                          *)
(***************************************************************************)
LEMMA OrderlyPush ==
  ASSUME NEW s \in Seq(Frame), NEW f \in Frame, NEW runs, NEW now, NEW ids, Orderly(s, runs, ids),
         \A i \in 1 .. Len(s) : ~Same(f, s[i]),
         \A e, m : <<e, m>> \in now <=> <<e, m>> \in runs \/ f = Loop(e, m),
         \A x \in Requests, l \in Both : Finishing(x, f, ids) => <<Main(x), l>> \notin runs
  PROVE  Orderly(<<f>> \o s, now, ids)
<1> DEFINE t == <<f>> \o s
<1>1. /\ t \in Seq(Frame) /\ Len(t) = Len(s) + 1 /\ t[1] = f /\ Len(s) \in Nat
      /\ \A i \in 1 .. Len(s) : t[i + 1] = s[i]
      /\ \A i \in 2 .. Len(s) + 1 : t[i] = s[i - 1]
  BY Push
<1> HIDE DEF t
<1>2. Distinct(t)
  <2>1. ASSUME NEW i \in 1 .. Len(t), NEW j \in 1 .. Len(t), Same(t[i], t[j]) PROVE i = j
    <3>1. \A a, b : Same(a, b) => Same(b, a) BY DEF Same
    <3>2. CASE i = 1 /\ j # 1
      <4>1. j - 1 \in 1 .. Len(s) /\ t[j] = s[j - 1] BY <1>1, <3>2
      <4> QED BY <1>1, <2>1, <3>2, <4>1
    <3>3. CASE i # 1 /\ j = 1
      <4>1. i - 1 \in 1 .. Len(s) /\ t[i] = s[i - 1] BY <1>1, <3>3
      <4> QED BY <1>1, <2>1, <3>1, <3>3, <4>1
    <3>4. CASE i # 1 /\ j # 1
      <4>1. i - 1 \in 1 .. Len(s) /\ t[i] = s[i - 1] BY <1>1, <3>4
      <4>2. j - 1 \in 1 .. Len(s) /\ t[j] = s[j - 1] BY <1>1, <3>4
      <4>3. i - 1 = j - 1 BY <2>1, <4>1, <4>2 DEF Orderly, Distinct
      <4> QED BY <4>3
    <3> QED BY <3>2, <3>3, <3>4
  <2> QED BY <2>1 DEF Distinct
<1>3. ASSUME NEW i \in 1 .. Len(t), t[i].call = "loop" PROVE <<t[i].d, t[i].l>> \in now
  <2>1. CASE i = 1 BY <1>1, <1>3, <2>1, Frames
  <2>2. CASE i # 1
    <3>1. i - 1 \in 1 .. Len(s) /\ t[i] = s[i - 1] BY <1>1, <2>2
    <3> QED BY <1>3, <3>1 DEF Orderly
  <2> QED BY <2>1, <2>2
<1>4. ASSUME NEW i \in 1 .. Len(t), NEW x \in Requests, NEW l \in Both,
             Finishing(x, t[i], ids), <<Main(x), l>> \in now
      PROVE  \E j \in 1 .. Len(t) : j < i /\ t[j] = Loop(Main(x), l)
  <2>1. CASE i = 1
    <3>1. Finishing(x, f, ids) /\ f = Loop(Main(x), l) BY <1>1, <1>4, <2>1
    <3>2. f.call = "loop" /\ f.l = l BY <3>1, Frames
    <3>3. l = "complete" BY <3>1, <3>2, Frames DEF Finishing
    <3> QED BY <3>3 DEF Both
  <2>2. CASE i # 1
    <3>1. i - 1 \in 1 .. Len(s) /\ t[i] = s[i - 1] /\ 1 < i BY <1>1, <2>2
    <3>2. CASE <<Main(x), l>> \in runs
      <4>1. PICK j \in 1 .. Len(s) : j < i - 1 /\ s[j] = Loop(Main(x), l)
        BY <1>4, <3>1, <3>2 DEF Orderly
      <4>2. j + 1 \in 1 .. Len(t) /\ j + 1 < i /\ t[j + 1] = Loop(Main(x), l)
        BY <1>1, <3>1, <4>1
      <4> QED BY <4>2
    <3>3. CASE f = Loop(Main(x), l) BY <1>1, <3>1, <3>3
    <3> QED BY <1>4, <3>2, <3>3
  <2> QED BY <2>1, <2>2
<1>5. Orderly(t, now, ids) BY <1>2, <1>3, <1>4 DEF Orderly
<1> QED BY <1>5 DEF t

\* The call of a loop by the list that starts firing.
LEMMA OrderlyLoop ==
  ASSUME NEW s \in Seq(Frame), NEW d \in Deferreds, NEW l \in Lists, NEW runs, NEW now, NEW ids,
         Orderly(s, runs, ids), <<d, l>> \notin runs,
         \A e, m : <<e, m>> \in now <=> <<e, m>> \in runs \/ (e = d /\ m = l),
         \A x \in Requests : d = Main(x) /\ l = "complete" =>
                               \A m \in Both : <<Main(x), m>> \notin runs
  PROVE  Orderly(<<Loop(d, l)>> \o s, now, ids)
<1>1. \A i \in 1 .. Len(s) : ~Same(Loop(d, l), s[i])
  BY Frames DEF Orderly, Same
<1>2. \A x \in Requests : Finishing(x, Loop(d, l), ids) => d = Main(x) /\ l = "complete"
  BY Frames DEF Finishing
<1>3. \A e, m : Loop(d, l) = Loop(e, m) <=> e = d /\ m = l BY Frames
<1>4. Loop(d, l) \in Frame BY Frames
<1> DEFINE f == Loop(d, l)
<1> HIDE DEF f
<1>5. /\ f \in Frame /\ \A i \in 1 .. Len(s) : ~Same(f, s[i])
      /\ \A e, m : <<e, m>> \in now <=> <<e, m>> \in runs \/ f = Loop(e, m)
      /\ \A x \in Requests, m \in Both : Finishing(x, f, ids) => <<Main(x), m>> \notin runs
  BY <1>1, <1>2, <1>3, <1>4 DEF f
<1>6. Orderly(<<f>> \o s, now, ids) BY <1>5, OrderlyPush
<1> QED BY <1>6 DEF f

\* The return of the innermost call; a loop returns when its list is not firing.
LEMMA OrderlyPop ==
  ASSUME NEW s \in Seq(Frame), s # <<>>, NEW runs, NEW ids, Orderly(s, runs, ids), NEW now,
         \A e, m : <<e, m>> \in now <=> <<e, m>> \in runs /\ Head(s) # Loop(e, m)
  PROVE  /\ Orderly(Tail(s), now, ids)
         /\ \A i \in 1 .. Len(Tail(s)) : ~Same(Head(s), Tail(s)[i])
         /\ Covered(s, runs) => Covered(Tail(s), now)
<1> DEFINE t == Tail(s)
<1>1. /\ t \in Seq(Frame) /\ Len(t) = Len(s) - 1 /\ Len(s) \in Nat \ {0} /\ Head(s) = s[1]
      /\ \A i \in 1 .. Len(s) - 1 : t[i] = s[i + 1]
      /\ \A i \in 1 .. Len(s) : s[i] \in Frame
  BY Pop
<1> HIDE DEF t
<1>2. Distinct(t)
  <2>1. ASSUME NEW i \in 1 .. Len(t), NEW j \in 1 .. Len(t), Same(t[i], t[j]) PROVE i = j
    <3>1. /\ i + 1 \in 1 .. Len(s) /\ t[i] = s[i + 1]
          /\ j + 1 \in 1 .. Len(s) /\ t[j] = s[j + 1]
      BY <1>1
    <3>2. i + 1 = j + 1 BY <2>1, <3>1 DEF Orderly, Distinct
    <3> QED BY <3>2
  <2> QED BY <2>1 DEF Distinct
<1>3. ASSUME NEW i \in 1 .. Len(t) PROVE ~Same(Head(s), t[i])
  <2>1. i + 1 \in 1 .. Len(s) /\ t[i] = s[i + 1] /\ 1 \in 1 .. Len(s) /\ i + 1 # 1 BY <1>1
  <2> QED BY <1>1, <2>1 DEF Orderly, Distinct
<1>4. ASSUME NEW i \in 1 .. Len(t), t[i].call = "loop" PROVE <<t[i].d, t[i].l>> \in now
  <2>1. i + 1 \in 1 .. Len(s) /\ t[i] = s[i + 1] /\ t[i] \in Frame BY <1>1
  <2>2. <<t[i].d, t[i].l>> \in runs BY <1>4, <2>1 DEF Orderly
  <2>3. Head(s) # Loop(t[i].d, t[i].l)
    <3>1. t[i] = Loop(t[i].d, t[i].l) BY <1>4, <2>1, Frames
    <3>2. Same(t[i], t[i]) BY <1>4 DEF Same
    <3> QED BY <1>3, <3>1, <3>2
  <2> QED BY <2>2, <2>3
<1>5. ASSUME NEW i \in 1 .. Len(t), NEW x \in Requests, NEW l \in Both,
             Finishing(x, t[i], ids), <<Main(x), l>> \in now
      PROVE  \E j \in 1 .. Len(t) : j < i /\ t[j] = Loop(Main(x), l)
  <2>1. i + 1 \in 1 .. Len(s) /\ t[i] = s[i + 1] BY <1>1
  <2>2. PICK j \in 1 .. Len(s) : j < i + 1 /\ s[j] = Loop(Main(x), l)
    BY <1>5, <2>1 DEF Orderly
  <2>3. j # 1 BY <1>1, <1>5, <2>2
  <2>4. j - 1 \in 1 .. Len(t) /\ j - 1 < i /\ t[j - 1] = Loop(Main(x), l)
    BY <1>1, <2>2, <2>3
  <2> QED BY <2>4
<1>6. ASSUME Covered(s, runs), NEW d \in Deferreds, NEW l \in Lists, <<d, l>> \in now
      PROVE  \E i \in 1 .. Len(t) : t[i] = Loop(d, l)
  <2>1. PICK i \in 1 .. Len(s) : s[i] = Loop(d, l) BY <1>6 DEF Covered
  <2>2. i # 1 BY <1>1, <1>6, <2>1
  <2>3. i - 1 \in 1 .. Len(t) /\ t[i - 1] = Loop(d, l) BY <1>1, <2>1, <2>2
  <2> QED BY <2>3
<1>7. Orderly(t, now, ids) BY <1>2, <1>4, <1>5 DEF Orderly
<1>8. Covered(s, runs) => Covered(t, now) BY <1>6 DEF Covered
<1> QED BY <1>3, <1>7, <1>8 DEF t

LEMMA CoveredPush ==
  ASSUME NEW s \in Seq(Frame), NEW f \in Frame, NEW runs, NEW now, Covered(s, runs),
         \A d \in Deferreds, l \in Lists : <<d, l>> \in now => <<d, l>> \in runs \/ f = Loop(d, l)
  PROVE  Covered(<<f>> \o s, now)
<1> DEFINE t == <<f>> \o s
<1>1. /\ Len(t) = Len(s) + 1 /\ t[1] = f /\ Len(s) \in Nat
      /\ \A i \in 1 .. Len(s) : t[i + 1] = s[i]
  BY Push
<1> HIDE DEF t
<1>2. ASSUME NEW d \in Deferreds, NEW l \in Lists, <<d, l>> \in now
      PROVE  \E i \in 1 .. Len(t) : t[i] = Loop(d, l)
  <2>1. CASE f = Loop(d, l) BY <1>1, <2>1
  <2>2. CASE <<d, l>> \in runs
    <3>1. PICK i \in 1 .. Len(s) : s[i] = Loop(d, l) BY <2>2 DEF Covered
    <3>2. i + 1 \in 1 .. Len(t) /\ t[i + 1] = Loop(d, l) BY <1>1, <3>1
    <3> QED BY <3>2
  <2> QED BY <1>2, <2>1, <2>2
<1> QED BY <1>2 DEF Covered, t

LEMMA StackPush ==
  ASSUME NEW s \in Seq(Frame), NEW f \in Frame, NEW lost, NEW runs, NEW ids, NEW xs, NEW ys,
         StackOK(s, lost, runs, ids, xs), xs \subseteq ys, f.call # "loop",
         \A i \in 1 .. Len(s) : ~Same(f, s[i]),
         \A x \in Requests : Finishing(x, f, ids) =>
                               x \in ys /\ \A l \in Both : <<Main(x), l>> \notin runs
  PROVE  StackOK(<<f>> \o s, lost, runs, ids, ys)
<1>1. \A e, m : f # Loop(e, m) BY Frames
<1>2. Orderly(<<f>> \o s, runs, ids) BY <1>1, OrderlyPush DEF StackOK
<1>3. lost \/ Covered(<<f>> \o s, runs) BY CoveredPush DEF StackOK
<1>4. Decided(<<f>> \o s, ids, ys)
  <2> DEFINE t == <<f>> \o s
  <2>1. Len(t) = Len(s) + 1 /\ t[1] = f /\ \A i \in 2 .. Len(s) + 1 : t[i] = s[i - 1] BY Push
  <2> HIDE DEF t
  <2>2. ASSUME NEW i \in 1 .. Len(t), NEW x \in Requests, Finishing(x, t[i], ids) PROVE x \in ys
    <3>1. CASE i = 1 BY <2>1, <2>2, <3>1
    <3>2. CASE i # 1
      <4>1. i - 1 \in 1 .. Len(s) /\ t[i] = s[i - 1] BY <2>1, <3>2
      <4> QED BY <2>2, <4>1 DEF StackOK, Decided
    <3> QED BY <3>1, <3>2
  <2>3. Decided(t, ids, ys) BY <2>2 DEF Decided
  <2> QED BY <2>3 DEF t
<1> QED BY <1>2, <1>3, <1>4 DEF StackOK

LEMMA StackLoop ==
  ASSUME NEW s \in Seq(Frame), NEW d \in Deferreds, NEW l \in Lists, NEW lost, NEW runs, NEW now,
         NEW ids, NEW xs, NEW ys,
         StackOK(s, lost, runs, ids, xs), xs \subseteq ys, <<d, l>> \notin runs,
         \A e, m : <<e, m>> \in now <=> <<e, m>> \in runs \/ (e = d /\ m = l),
         \A x \in Requests : d = Main(x) /\ l = "complete" =>
                               x \in ys /\ \A m \in Both : <<Main(x), m>> \notin runs
  PROVE  StackOK(<<Loop(d, l)>> \o s, lost, now, ids, ys)
<1> DEFINE f == Loop(d, l)
<1>1. f \in Frame /\ f.call = "loop" /\ f.d = d /\ f.l = l BY Frames
<1>2. Orderly(<<f>> \o s, now, ids) BY OrderlyLoop DEF StackOK
<1>3. lost \/ Covered(<<f>> \o s, now)
  <2>1. \A e \in Deferreds, m \in Lists : <<e, m>> \in now => <<e, m>> \in runs \/ f = Loop(e, m)
    OBVIOUS
  <2> HIDE DEF f
  <2> QED BY <1>1, <2>1, CoveredPush DEF StackOK
<1>4. Decided(<<f>> \o s, ids, ys)
  <2>1. \A x \in Requests : Finishing(x, f, ids) => d = Main(x) /\ l = "complete"
    BY Frames DEF Finishing
  <2> HIDE DEF f
  <2> DEFINE t == <<f>> \o s
  <2>2. Len(t) = Len(s) + 1 /\ t[1] = f /\ \A i \in 2 .. Len(s) + 1 : t[i] = s[i - 1]
    BY <1>1, Push
  <2> HIDE DEF t
  <2>3. ASSUME NEW i \in 1 .. Len(t), NEW x \in Requests, Finishing(x, t[i], ids) PROVE x \in ys
    <3>1. CASE i = 1 BY <2>1, <2>2, <2>3, <3>1
    <3>2. CASE i # 1
      <4>1. i - 1 \in 1 .. Len(s) /\ t[i] = s[i - 1] BY <2>2, <3>2
      <4> QED BY <2>3, <4>1 DEF StackOK, Decided
    <3> QED BY <3>1, <3>2
  <2>4. Decided(t, ids, ys) BY <2>3 DEF Decided
  <2> QED BY <2>4 DEF t
<1> HIDE DEF f
<1>5. StackOK(<<f>> \o s, lost, now, ids, ys) BY <1>2, <1>3, <1>4 DEF StackOK
<1> QED BY <1>5 DEF f

LEMMA StackPop ==
  ASSUME NEW s \in Seq(Frame), s # <<>>, NEW lost, NEW runs, NEW now, NEW ids, NEW xs, NEW ys,
         StackOK(s, lost, runs, ids, xs), xs \subseteq ys,
         \A e, m : <<e, m>> \in now <=> <<e, m>> \in runs /\ Head(s) # Loop(e, m)
  PROVE  StackOK(Tail(s), lost, now, ids, ys)
<1>1. Orderly(Tail(s), now, ids) /\ (lost \/ Covered(Tail(s), now)) BY OrderlyPop DEF StackOK
<1>2. Decided(Tail(s), ids, ys)
  <2>1. Len(Tail(s)) = Len(s) - 1 /\ Len(s) \in Nat \ {0}
        /\ \A i \in 1 .. Len(s) - 1 : Tail(s)[i] = s[i + 1]
    BY Pop
  <2>2. ASSUME NEW i \in 1 .. Len(Tail(s)), NEW x \in Requests, Finishing(x, Tail(s)[i], ids)
        PROVE  x \in ys
    <3>1. i + 1 \in 1 .. Len(s) /\ Tail(s)[i] = s[i + 1] BY <2>1
    <3> QED BY <2>2, <3>1 DEF StackOK, Decided
  <2> QED BY <2>2 DEF Decided
<1> QED BY <1>1, <1>2 DEF StackOK

\* What belongs to the end of a request, when it is the innermost call, has no loop of
\* its outcome in progress.
LEMMA FinishingOnTop ==
  ASSUME NEW s \in Seq(Frame), s # <<>>, NEW runs, NEW ids, Orderly(s, runs, ids),
         NEW x \in Requests, Finishing(x, Head(s), ids)
  PROVE  \A l \in Both : <<Main(x), l>> \notin runs
<1>1. Head(s) = s[1] /\ 1 \in 1 .. Len(s) BY Pop
<1>2. ~ \E j \in 1 .. Len(s) : j < 1 OBVIOUS
<1> QED BY <1>1, <1>2 DEF Orderly

LEMMA StackEmpty ==
  ASSUME NEW runs, NEW ids, NEW xs
  PROVE  StackOK(<<>>, TRUE, runs, ids, xs)
<1>1. Len(<<>>) = 0 OBVIOUS
<1> QED BY <1>1 DEF StackOK, Orderly, Distinct, Decided

\* A list that goes on firing, or not, leaves the calls as they are.
LEMMA StackSame ==
  ASSUME NEW s \in Seq(Frame), NEW lost, NEW runs, NEW now, NEW ids, NEW xs, NEW ys,
         StackOK(s, lost, runs, ids, xs), xs \subseteq ys,
         \A e, m : <<e, m>> \in now <=> <<e, m>> \in runs
  PROVE  StackOK(s, lost, now, ids, ys)
<1>1. \A i \in 1 .. Len(s) : s[i] \in Frame OBVIOUS
<1>2. Orderly(s, now, ids) BY DEF Orderly, StackOK
<1>3. lost \/ Covered(s, now) BY DEF Covered, StackOK
<1> QED BY <1>2, <1>3 DEF StackOK, Decided

(***************************************************************************)
(* What the actions do to the lists.                                       *)
(***************************************************************************)
Moved(d, l, cb) ==
  /\ lists' \in [Deferreds -> [Lists -> Cb]]
  /\ \A e \in Deferreds, m \in Lists :
       lists'[e][m] = IF e = d /\ m = l THEN cb ELSE lists[e][m]

LEMMA Move ==
  ASSUME lists \in [Deferreds -> [Lists -> Cb]], NEW d \in Deferreds, NEW l \in Lists, NEW cb \in Cb,
         lists' = [lists EXCEPT ![d][l] = cb]
  PROVE  Moved(d, l, cb)
  BY DEF Moved

LEMMA OperateShape ==
  ASSUME TypeInv, ListsInv, NEW d \in Deferreds, NEW l \in Lists, NEW under,
         Operate(d, l, fireWith, under)
  PROVE  /\ Moved(d, l, fireWith(lists[d][l]))
         /\ stack' = IF lists[d][l].locked THEN under ELSE <<Loop(d, l)>> \o under
<1> DEFINE cb == lists[d][l]
           c == fireWith(cb)
<1>1. cb \in Cb /\ ListOK(cb) BY DEF TypeInv, ListsInv, ListFine
<1>2. c \in Cb /\ (c.firing <=> (cb.firing \/ ~cb.locked)) BY <1>1, FireForm
<1>3. lists' = [lists EXCEPT ![d][l] = c] BY DEF Operate
<1>4. Moved(d, l, c)
  <2> HIDE DEF c
  <2> QED BY <1>2, <1>3, Move DEF TypeInv
<1>5. lists'[d][l] = c BY <1>4 DEF Moved
<1>6. cb.firing => cb.locked BY <1>1 DEF ListOK, Cb
<1>7. stack' = IF c.firing /\ ~cb.firing THEN <<Loop(d, l)>> \o under ELSE under
  BY <1>5 DEF Operate
<1> HIDE DEF c, cb
<1>8. stack' = IF cb.locked THEN under ELSE <<Loop(d, l)>> \o under
  BY <1>2, <1>6, <1>7
<1> QED BY <1>4, <1>8 DEF c, cb

LEMMA RunningIs ==
  /\ lists \in [Deferreds -> [Lists -> Cb]] =>
       \A e, m : <<e, m>> \in Running <=> e \in Deferreds /\ m \in Lists /\ lists[e][m].firing
  /\ lists' \in [Deferreds -> [Lists -> Cb]] =>
       \A e, m : <<e, m>> \in Running' <=> e \in Deferreds /\ m \in Lists /\ lists'[e][m].firing
  BY DEF Running

LEMMA RunningMoved ==
  ASSUME TypeInv, NEW d \in Deferreds, NEW l \in Lists, NEW c, Moved(d, l, c)
  PROVE  \A e, m : <<e, m>> \in Running' <=>
                     IF e = d /\ m = l THEN c.firing ELSE <<e, m>> \in Running
<1>1. lists \in [Deferreds -> [Lists -> Cb]] /\ lists' \in [Deferreds -> [Lists -> Cb]]
  BY DEF TypeInv, Moved
<1>2. ASSUME NEW e, NEW m
      PROVE  <<e, m>> \in Running' <=> IF e = d /\ m = l THEN c.firing ELSE <<e, m>> \in Running
  <2>1. <<e, m>> \in Running <=> e \in Deferreds /\ m \in Lists /\ lists[e][m].firing
    BY <1>1, RunningIs
  <2>2. <<e, m>> \in Running' <=> e \in Deferreds /\ m \in Lists /\ lists'[e][m].firing
    BY <1>1, RunningIs
  <2> QED BY <2>1, <2>2 DEF Moved
<1> QED BY <1>2

(***************************************************************************)
(* Deferreds whose lists are left alone, or only grow or end, stay as      *)
(* they are.                                                               *)
(***************************************************************************)
LEMMA CalmNow ==
  ASSUME TypeInv, StateInv, NEW d \in Deferreds, \A l \in Both : ~OnTop(Loop(d, l))
  PROVE  Calm(state[d], lists[d], added[d])
<1>1. ASSUME NEW l \in Both PROVE Past(lists[d], added[d], l) \in Int
  <2>1. lists[d][l] \in Cb /\ added[d][l] \in Seq(Ids) BY ListNames DEF TypeInv
  <2>2. lists[d][l].index \in Nat /\ lists[d][l].list \in Seq(Fn) BY <2>1 DEF Cb
  <2>3. Shift(lists[d][l], added[d][l]) \in Int BY <2>1, <2>2 DEF Shift
  <2> QED BY <2>2, <2>3 DEF Past
<1> QED BY <1>1 DEF StateInv, DeferredInv, Calm

LEMMA CalmThen ==
  ASSUME NEW d \in Deferreds, Calm(state'[d], lists'[d], added'[d])
  PROVE  DeferredInv(d)'
  BY DEF Calm, DeferredInv

\* What a deferred is depends on these.
LEMMA CalmSame ==
  ASSUME NEW s, NEW ls, NEW ms, NEW as, NEW bs, Calm(s, ls, as),
         \A m \in Lists : m = "complete" \/ ((ms[m].open <=> ls[m].open)
                                           /\ (ms[m].locked <=> ls[m].locked)),
         \A l \in Both : ls[l].open => /\ ms[l].index = ls[l].index
                                       /\ Shift(ms[l], bs[l]) = Shift(ls[l], as[l])
  PROVE  Calm(s, ms, bs)
<1>1. \A l \in Both : l \in Lists /\ Handlers(l) \in Lists /\ Opposite(l) \in Lists
                      /\ Handlers(Opposite(l)) \in Lists /\ l # "complete"
                      /\ Handlers(l) # "complete" /\ Opposite(l) # "complete"
                      /\ Handlers(Opposite(l)) # "complete"
  BY ListNames DEF Both
<1> QED BY <1>1 DEF Calm, Untouched, Settles, Past

LEMMA IdsSame ==
  ASSUME IdsInv, added' = added
  PROVE  IdsInv' /\ Completes' = Completes
<1>1. Registered' = Registered BY DEF Registered
<1>2. Completes' = Completes BY DEF Completes
<1> QED BY <1>1, <1>2 DEF IdsInv

\* Returns and exceptions.
LEMMA Left ==
  ASSUME PromiseInv, \A d \in Deferreds, l \in Both : ~OnTop(Loop(d, l)),
         UNCHANGED <<lists, added, ran, state, completed>>
  PROVE  /\ ListsInv' /\ StateInv' /\ IdsInv' /\ RequestInv'
         /\ Running' = Running /\ Completes' = Completes /\ Fired' = Fired
<1>1. ListsInv' BY DEF PromiseInv, ListsInv
<1>2. IdsInv' /\ Completes' = Completes BY IdsSame DEF PromiseInv
<1>3. RequestInv' BY DEF PromiseInv, RequestInv
<1>4. StateInv' BY CalmNow, CalmThen DEF PromiseInv, StateInv
<1>5. Running' = Running /\ Fired' = Fired BY DEF Running, Fired
<1> QED BY <1>1, <1>2, <1>3, <1>4, <1>5

LEMMA ReturnKeeps == ASSUME PromiseInv, Return PROVE PromiseInv'
<1>1. stack \in Seq(Frame) /\ stack # <<>> /\ Head(stack).call = "body"
  BY DEF PromiseInv, TypeInv, Return, In, Top
<1>2. \A d, l : Head(stack) # Loop(d, l) BY <1>1, Frames
<1>3. /\ ListsInv' /\ StateInv' /\ IdsInv' /\ RequestInv'
      /\ Running' = Running /\ Completes' = Completes /\ Fired' = Fired
  BY <1>2, Left DEF Return, ajaxVars, promiseVars, history, OnTop
<1>4. StackOK(Tail(stack), thrown, Running, Completes, Fired)
  BY <1>1, <1>2, StackPop DEF PromiseInv, StackInv
<1>5. StackInv' BY <1>3, <1>4 DEF StackInv, Return, history
<1>6. TypeInv' BY <1>1, Pop DEF PromiseInv, TypeInv, Return, ajaxVars, promiseVars, history
<1> QED BY <1>3, <1>5, <1>6 DEF PromiseInv

LEMMA DoneFinishKeeps == ASSUME PromiseInv, doneFinish PROVE PromiseInv'
<1>1. stack \in Seq(Frame) /\ stack # <<>> /\ Head(stack).call = "done"
  BY DEF PromiseInv, TypeInv, doneFinish, In, Top
<1>2. \A d, l : Head(stack) # Loop(d, l) BY <1>1, Frames
<1>3. /\ ListsInv' /\ StateInv' /\ IdsInv' /\ RequestInv'
      /\ Running' = Running /\ Completes' = Completes /\ Fired' = Fired
  BY <1>2, Left DEF doneFinish, promiseVars, history, OnTop
<1>4. StackOK(Tail(stack), thrown, Running, Completes, Fired)
  BY <1>1, <1>2, StackPop DEF PromiseInv, StackInv
<1>5. StackInv' BY <1>3, <1>4 DEF StackInv, doneFinish, history
<1>6. TypeInv' BY <1>1, Pop DEF PromiseInv, TypeInv, doneFinish, promiseVars, history
<1> QED BY <1>3, <1>5, <1>6 DEF PromiseInv

LEMMA ThrowKeeps == ASSUME PromiseInv, Throw PROVE PromiseInv'
<1>1. stack \in Seq(Frame) /\ stack # <<>> /\ Head(stack).call = "body"
  BY DEF PromiseInv, TypeInv, Throw, In, Top
<1>2. \A d, l : Head(stack) # Loop(d, l) BY <1>1, Frames
<1>3. /\ ListsInv' /\ StateInv' /\ IdsInv' /\ RequestInv'
  BY <1>2, Left DEF Throw, ajaxVars, promiseVars, OnTop
<1>4. StackInv' BY StackEmpty DEF StackInv, Throw
<1>5. TypeInv' BY DEF PromiseInv, TypeInv, Throw, ajaxVars, promiseVars
<1> QED BY <1>3, <1>4, <1>5 DEF PromiseInv

(***************************************************************************)
(* The loop of a list.                                                     *)
(***************************************************************************)
LEMMA TopLoop ==
  ASSUME PromiseInv, In("loop")
  PROVE  /\ stack \in Seq(Frame) /\ stack # <<>> /\ Head(stack) = Loop(Top.d, Top.l)
         /\ Top.d \in Deferreds /\ Top.l \in Lists
         /\ lists[Top.d][Top.l] \in Cb /\ lists[Top.d][Top.l].firing
         /\ ListFine(Top.l, lists[Top.d][Top.l], added[Top.d][Top.l], ran[Top.d][Top.l])
         /\ Top.l \in UserLists => /\ added[Top.d][Top.l] \in Seq(Ids)
                                   /\ ran[Top.d][Top.l] \in Seq(Ids)
<1>1. stack \in Seq(Frame) /\ stack # <<>> /\ Top = Head(stack) /\ Top.call = "loop"
  BY DEF PromiseInv, TypeInv, In, Top
<1>2. Top \in Frame /\ Top = stack[1] /\ 1 \in 1 .. Len(stack) BY <1>1, Pop
<1>3. Top = Loop(Top.d, Top.l) /\ Top.d \in Deferreds /\ Top.l \in Lists
  BY <1>1, <1>2, Frames
<1>4. <<Top.d, Top.l>> \in Running
  BY <1>1, <1>2 DEF PromiseInv, StackInv, StackOK, Orderly
<1>5. lists[Top.d][Top.l].firing BY <1>4, RunningIs DEF PromiseInv, TypeInv
<1> QED BY <1>1, <1>3, <1>5 DEF PromiseInv, TypeInv, ListsInv

\* A loop that calls on, past the function that fires the list of then(), is that of
\* the outcome.
LEMMA SettledBy ==
  ASSUME PromiseInv, NEW d \in Deferreds, NEW l \in Both, lists[d][l].firing,
         Past(lists[d], added[d], l) >= 0
  PROVE  state[d] = l /\ Calm(state[d], lists[d], added[d])
<1>1. /\ lists[d][l] \in Cb /\ lists[d][l].open /\ state[d] \in {"pending", "done", "fail"}
      /\ l \in Lists
  BY ListNames DEF PromiseInv, TypeInv, ListsInv, ListFine, ListOK
<1>2. state[d] # "pending"
  BY DEF PromiseInv, StateInv, DeferredInv, Untouched, Past
<1>3. state[d] # Opposite(l)
  BY <1>1, ListNames DEF PromiseInv, StateInv, DeferredInv, Settles
<1>4. state[d] = l BY <1>1, <1>2, <1>3, ListNames DEF Both
<1>5. Past(lists[d], added[d], l) \in Nat
  <2>1. added[d][l] \in Seq(Ids) BY ListNames DEF PromiseInv, TypeInv
  <2>2. lists[d][l].index \in Nat /\ lists[d][l].list \in Seq(Fn) BY <1>1 DEF Cb
  <2>3. Shift(lists[d][l], added[d][l]) \in Int BY <2>1, <2>2 DEF Shift
  <2> QED BY <2>2, <2>3 DEF Past
<1>6. l # "pending" BY DEF Both
<1> QED BY <1>4, <1>5, <1>6 DEF PromiseInv, StateInv, DeferredInv, Calm

\* A list that is neither opened, closed nor fired, and moves on only behind that point.
LEMMA CalmMoved ==
  ASSUME PromiseInv, NEW d \in Deferreds, NEW l \in Lists, NEW c, Moved(d, l, c),
         c.open <=> lists[d][l].open, c.locked <=> lists[d][l].locked,
         state' = state, added' = added,
         \A e \in Deferreds, m \in Both : OnTop(Loop(e, m)) => e = d /\ m = l,
         l \in Both => /\ Past(lists[d], added[d], l) >= 0
                       /\ c.index + Shift(c, added[d][l]) \in Nat /\ lists[d][l].firing
  PROVE  /\ StateInv' /\ Fired' = Fired
<1>1. \A e \in Deferreds, m \in Lists :
        /\ lists'[e][m].open <=> lists[e][m].open
        /\ lists'[e][m].locked <=> lists[e][m].locked
        /\ e # d \/ m # l => lists'[e][m] = lists[e][m]
  BY DEF Moved
<1>2. ASSUME NEW e \in Deferreds, e # d \/ l \notin Both PROVE DeferredInv(e)'
  <2>1. \A m \in Both : ~OnTop(Loop(e, m)) BY <1>2
  <2>2. Calm(state[e], lists[e], added[e]) BY <2>1, CalmNow DEF PromiseInv
  <2>3. \A m \in Both : lists'[e][m] = lists[e][m] BY <1>1, <1>2, ListNames
  <2>4. Calm(state'[e], lists'[e], added'[e]) BY <1>1, <2>2, <2>3, CalmSame
  <2> QED BY <2>4, CalmThen
<1>3. ASSUME l \in Both PROVE DeferredInv(d)'
  <2>1. state[d] = l /\ Calm(state[d], lists[d], added[d]) BY <1>3, SettledBy
  <2>2. Settles(lists[d], added[d], l) BY <1>3, <2>1 DEF Calm
  <2>3. Settles(lists'[d], added'[d], l)
    BY <1>1, <1>3, <2>2, ListNames DEF Settles
  <2>4. Past(lists'[d], added'[d], l) \in Nat BY <1>3 DEF Past, Moved
  <2>5. Calm(state'[d], lists'[d], added'[d]) BY <1>3, <2>1, <2>3, <2>4 DEF Calm, Both
  <2> QED BY <2>5, CalmThen
<1>4. StateInv' BY <1>2, <1>3 DEF StateInv
<1>5. Fired' = Fired BY <1>1, Names, ListNames DEF Fired
<1> QED BY <1>4, <1>5

LEMMA RequestsKept ==
  ASSUME RequestInv, completed' = completed, added' = added, state' = state,
         \A e \in Deferreds, m \in Lists : lists'[e][m].locked <=> lists[e][m].locked
  PROVE  RequestInv'
<1>1. \A x \in Requests, l \in UserLists :
        /\ lists'[Main(x)][l].locked <=> lists[Main(x)][l].locked
        /\ lists'[Derived(x)][l].locked <=> lists[Derived(x)][l].locked
  BY Names, ListNames
<1>2. "complete" \in UserLists BY DEF UserLists
<1> QED BY <1>1, <1>2 DEF RequestInv

LEMMA LoopTurnsKeeps == ASSUME PromiseInv, LoopTurns PROVE PromiseInv'
<1> DEFINE d == Top.d
           l == Top.l
           cb == lists[d][l]
           c == Turn(cb)
           a == added[d][l]
           r == ran[d][l]
<1>1. In("loop") /\ ~HasCall(cb) BY DEF LoopTurns
<1>2. /\ stack \in Seq(Frame) /\ stack # <<>> /\ Head(stack) = Loop(d, l)
      /\ d \in Deferreds /\ l \in Lists /\ cb \in Cb /\ cb.firing
      /\ ListFine(l, cb, a, r)
      /\ l \in UserLists => a \in Seq(Ids) /\ r \in Seq(Ids)
  BY <1>1, TopLoop
<1>3. /\ ListFine(l, c, a, r)
      /\ l \in UserLists => Len(r) = Len(a) /\ Shift(c, a) = Len(a)
  BY <1>1, <1>2, TurnFine
<1>4. /\ c \in Cb /\ c.index = 0 /\ (c.open <=> cb.open) /\ (c.locked <=> cb.locked)
      /\ ~c.firing
  BY <1>1, <1>2, TurnForm DEF ListFine
<1>5. cb.index = Len(cb.list) BY <1>1, <1>2 DEF HasCall, ListFine, ListOK, Cb
<1>6. /\ UNCHANGED <<added, ran, state, completed, thrown>>
      /\ lists' = [lists EXCEPT ![d][l] = c] /\ stack' = Tail(stack)
  BY <1>4 DEF LoopTurns, ajaxVars, promiseVars, history
<1> HIDE DEF c
<1>7. Moved(d, l, c) BY <1>2, <1>4, <1>6, Move DEF PromiseInv, TypeInv
<1>8. \A e, m : OnTop(Loop(e, m)) => e = d /\ m = l BY <1>2, Frames DEF OnTop
<1>9. ListsInv' BY <1>3, <1>6, <1>7 DEF PromiseInv, ListsInv, Moved
<1>10. l \in Both => Past(lists[d], added[d], l) >= 0 /\ c.index + Shift(c, a) \in Nat
  <2>1. ASSUME l \in Both PROVE Past(lists[d], added[d], l) >= 0 /\ c.index + Shift(c, a) \in Nat
    <3>1. l \in UserLists BY <2>1, ListNames
    <3>2. Len(a) \in Nat /\ Len(cb.list) \in Nat BY <1>2, <3>1 DEF Cb
    <3>3. Past(lists[d], added[d], l) = Len(cb.list) + (Len(a) - Len(cb.list))
      BY <1>5 DEF Past, Shift
    <3>4. c.index + Shift(c, a) = 0 + Len(a) BY <1>3, <1>4, <3>1
    <3> HIDE DEF a, cb
    <3> QED BY <3>2, <3>3, <3>4
  <2> QED BY <2>1
<1>11. StateInv' /\ Fired' = Fired
  BY <1>2, <1>4, <1>6, <1>7, <1>8, <1>10, CalmMoved
<1>12. \A e \in Deferreds, m \in Lists : lists'[e][m].locked <=> lists[e][m].locked
  BY <1>4, <1>7 DEF Moved
<1>13. RequestInv' BY <1>6, <1>12, RequestsKept DEF PromiseInv
<1>14. IdsInv' /\ Completes' = Completes BY <1>6, IdsSame DEF PromiseInv
<1>15. StackInv'
  <2>1. \A e, m : <<e, m>> \in Running' <=> <<e, m>> \in Running /\ Head(stack) # Loop(e, m)
    <3>1. \A e, m : Head(stack) = Loop(e, m) <=> e = d /\ m = l BY <1>2, Frames
    <3> HIDE DEF d, l
    <3>2. \A e, m : <<e, m>> \in Running' <=>
                      IF e = d /\ m = l THEN c.firing ELSE <<e, m>> \in Running
      BY <1>2, <1>7, RunningMoved DEF PromiseInv
    <3> QED BY <1>4, <3>1, <3>2
  <2>2. StackOK(Tail(stack), thrown, Running', Completes, Fired)
    BY <1>2, <2>1, StackPop DEF PromiseInv, StackInv
  <2> QED BY <1>6, <1>11, <1>14, <2>2 DEF StackInv
<1>16. TypeInv'
  BY <1>2, <1>6, <1>7, Pop DEF PromiseInv, TypeInv, Moved, LoopTurns, ajaxVars, promiseVars, history
<1> QED BY <1>9, <1>11, <1>13, <1>14, <1>15, <1>16 DEF PromiseInv

\* The facts that all kinds of calls share.
CallBy(d, l, cb, f) ==
  /\ stack \in Seq(Frame) /\ stack # <<>> /\ Head(stack) = Loop(d, l)
  /\ d \in Deferreds /\ l \in Lists /\ cb \in Cb /\ cb.firing /\ cb.locked /\ cb.open
  /\ cb = lists[d][l] /\ f = NextCall(cb) /\ HasCall(cb) /\ ListFine(l, cb, added[d][l], ran[d][l])
  /\ AfterCall(cb) \in Cb /\ AfterCall(cb).index = cb.index + 1 /\ AfterCall(cb).list = cb.list
  /\ AfterCall(cb).firing /\ AfterCall(cb).locked /\ AfterCall(cb).open
  /\ l \in UserLists => added[d][l] \in Seq(Ids) /\ ran[d][l] \in Seq(Ids)
  /\ \A e, m : OnTop(Loop(e, m)) => e = d /\ m = l
  /\ UNCHANGED <<ajaxVars, depth, chained, added, verdict, thrown>>

LEMMA CallShape ==
  ASSUME PromiseInv, CallNext
  PROVE  CallBy(Top.d, Top.l, lists[Top.d][Top.l], NextCall(lists[Top.d][Top.l]))
<1> DEFINE d == Top.d
           l == Top.l
           cb == lists[d][l]
<1>1. In("loop") /\ HasCall(cb) BY DEF CallNext
<1>2. /\ stack \in Seq(Frame) /\ stack # <<>> /\ Head(stack) = Loop(d, l)
      /\ d \in Deferreds /\ l \in Lists /\ cb \in Cb /\ cb.firing
      /\ ListFine(l, cb, added[d][l], ran[d][l])
      /\ l \in UserLists => added[d][l] \in Seq(Ids) /\ ran[d][l] \in Seq(Ids)
  BY <1>1, TopLoop
<1>3. \A e, m : OnTop(Loop(e, m)) => e = d /\ m = l BY <1>2, Frames DEF OnTop
<1>4. ListOK(cb) /\ cb.locked /\ cb.open BY <1>2 DEF ListFine, ListOK, Cb
<1>5. /\ AfterCall(cb) \in Cb /\ AfterCall(cb).index = cb.index + 1
      /\ AfterCall(cb).list = cb.list
      /\ AfterCall(cb).firing /\ AfterCall(cb).locked /\ AfterCall(cb).open
  BY <1>1, <1>2, <1>4, CallForm
<1>6. UNCHANGED <<ajaxVars, depth, chained, added, verdict, thrown>> BY DEF CallNext
<1> QED BY <1>1, <1>2, <1>3, <1>4, <1>5, <1>6 DEF CallBy

\* A callback, or the function of then().
Notes(d, l, f) ==
  /\ f.kind = "user" \/ f.kind = "then"
  /\ \A e \in Deferreds, m \in UserLists :
       ran'[e][m] = IF f.kind = "user" /\ e = d /\ m = l THEN Append(ran[e][m], f.id)
                    ELSE ran[e][m]
LEMMA CallMoves ==
  ASSUME PromiseInv, NEW d, NEW l, NEW cb, NEW f, CallBy(d, l, cb, f),
         state' = state, lists' = [lists EXCEPT ![d][l] = AfterCall(cb)],
         Notes(d, l, f)
  PROVE  /\ ListsInv' /\ StateInv' /\ IdsInv' /\ RequestInv'
         /\ Fired' = Fired /\ Completes' = Completes
         /\ \A e, m : <<e, m>> \in Running' <=> <<e, m>> \in Running
         /\ lists' \in [Deferreds -> [Lists -> Cb]]
<1> DEFINE c == AfterCall(cb)
           a == added[d][l]
           r == ran[d][l]
<1>1. /\ f.kind = "user" => /\ l \in UserLists /\ cb.index + Shift(cb, a) >= 0
                            /\ ListFine(l, c, a, Append(r, f.id))
      /\ f.kind = "then" => l \in {"onDone", "onFail"} /\ ListFine(l, c, a, r)
  BY CallFine DEF CallBy
<1>2. Moved(d, l, c) BY Move DEF CallBy, PromiseInv, TypeInv
<1>9. /\ f.kind = "user" \/ f.kind = "then"
      /\ \A e \in Deferreds, m \in UserLists :
           ran'[e][m] = IF f.kind = "user" /\ e = d /\ m = l THEN Append(ran[e][m], f.id)
                        ELSE ran[e][m]
  BY DEF Notes
<1>3. ListsInv'
  <2>1. ASSUME NEW e \in Deferreds, NEW m \in Lists
        PROVE  ListFine(m, lists'[e][m], added'[e][m], ran'[e][m])
    <3>1. added' = added BY DEF CallBy
    <3>2. CASE e = d /\ m = l
      <4>1. lists'[e][m] = c BY <1>2, <3>2 DEF Moved
      <4>2. CASE f.kind = "user" BY <1>1, <1>9, <3>1, <3>2, <4>1, <4>2
      <4>3. CASE f.kind = "then"
        <5>1. l \in {"onDone", "onFail"} /\ ListFine(l, c, a, r) BY <1>1, <4>3
        <5>2. l \notin UserLists /\ l # "complete" BY <5>1 DEF UserLists
        <5>3. ListFine(l, c, added'[e][m], ran'[e][m])
          BY <5>1, <5>2 DEF ListFine
        <5> QED BY <3>2, <4>1, <5>3
      <4> QED BY <1>9, <4>2, <4>3
    <3>3. CASE ~(e = d /\ m = l)
      <4>1. lists'[e][m] = lists[e][m] BY <1>2, <3>3 DEF Moved
      <4>2. ListFine(m, lists[e][m], added[e][m], ran[e][m]) BY DEF PromiseInv, ListsInv
      <4>3. m \in UserLists => ran'[e][m] = ran[e][m] BY <1>9, <3>3
      <4> QED BY <3>1, <4>1, <4>2, <4>3 DEF ListFine
    <3> QED BY <3>2, <3>3
  <2> QED BY <2>1 DEF ListsInv
<1>4. l \in Both => Past(lists[d], added[d], l) >= 0 /\ c.index + Shift(c, a) \in Nat
  <2>1. ASSUME l \in Both PROVE Past(lists[d], added[d], l) >= 0 /\ c.index + Shift(c, a) \in Nat
    <3>1. l \notin {"onDone", "onFail"} /\ l \in UserLists BY <2>1, ListNames
    <3>2. cb.index + Shift(cb, a) >= 0 /\ cb = lists[d][l] BY <1>1, <1>9, <3>1 DEF CallBy
    <3>3. Shift(c, a) = Shift(cb, a) /\ c.index = cb.index + 1 BY DEF Shift, CallBy
    <3>4. Shift(cb, a) \in Int /\ cb.index \in Nat
      <4>1. Len(a) \in Nat /\ Len(cb.list) \in Nat /\ cb.index \in Nat BY <3>1 DEF CallBy, Cb
      <4> QED BY <4>1 DEF Shift
    <3> HIDE DEF c, a
    <3>5. Past(lists[d], added[d], l) = cb.index + Shift(cb, a) BY <3>2 DEF Past, a
    <3> QED BY <3>2, <3>3, <3>4, <3>5
  <2> QED BY <2>1
<1>5. StateInv' /\ Fired' = Fired
  <2>1. /\ c.open <=> lists[d][l].open
        /\ c.locked <=> lists[d][l].locked
        /\ d \in Deferreds /\ l \in Lists /\ added' = added /\ lists[d][l].firing
        /\ \A e \in Deferreds, m \in Both : OnTop(Loop(e, m)) => e = d /\ m = l
    BY DEF CallBy
  <2> QED BY <1>2, <1>4, <2>1, CalmMoved
<1>6. RequestInv'
  <2>1. \A e \in Deferreds, m \in Lists : lists'[e][m].locked <=> lists[e][m].locked
    BY <1>2 DEF Moved, CallBy
  <2> QED BY <2>1, RequestsKept DEF CallBy, ajaxVars, PromiseInv
<1>7. IdsInv' /\ Completes' = Completes BY IdsSame DEF CallBy, PromiseInv
<1>8. ASSUME NEW e, NEW m PROVE <<e, m>> \in Running' <=> <<e, m>> \in Running
  <2>1. <<e, m>> \in Running' <=> IF e = d /\ m = l THEN c.firing ELSE <<e, m>> \in Running
    BY <1>2, RunningMoved DEF PromiseInv, CallBy
  <2>2. <<d, l>> \in Running BY RunningIs DEF PromiseInv, TypeInv, CallBy
  <2> QED BY <2>1, <2>2 DEF CallBy
<1> QED BY <1>2, <1>3, <1>5, <1>6, <1>7, <1>8 DEF Moved

LEMMA CallUserKeeps ==
  ASSUME PromiseInv, NEW d, NEW l, NEW cb, NEW f, CallBy(d, l, cb, f), f.kind = "user",
         lists' = [lists EXCEPT ![d][l] = AfterCall(cb)], stack' = <<Body(f.id)>> \o stack,
         ran' = [ran EXCEPT ![d][l] = Append(@, f.id)], UNCHANGED <<state, tasks>>
  PROVE  PromiseInv'
<1>1. /\ l \in UserLists /\ f.id \in Ids
      /\ f.id = added[d][l][Len(ran[d][l]) + 1] /\ Len(ran[d][l]) < Len(added[d][l])
  BY CallFine DEF CallBy
<1>2. d \in Deferreds /\ ran \in [Deferreds -> [UserLists -> Seq(Ids)]]
      /\ Append(ran[d][l], f.id) \in Seq(Ids)
  BY <1>1 DEF CallBy, PromiseInv, TypeInv
<1>3. /\ ran' \in [Deferreds -> [UserLists -> Seq(Ids)]]
      /\ \A e \in Deferreds, m \in UserLists :
           ran'[e][m] = IF e = d /\ m = l THEN Append(ran[e][m], f.id) ELSE ran[e][m]
  BY <1>1, <1>2
<1>4. /\ ListsInv' /\ StateInv' /\ IdsInv' /\ RequestInv'
      /\ Fired' = Fired /\ Completes' = Completes
      /\ \A e, m : <<e, m>> \in Running' <=> <<e, m>> \in Running
      /\ lists' \in [Deferreds -> [Lists -> Cb]]
  <2>1. state' = state /\ Notes(d, l, f) BY <1>3 DEF Notes
  <2> QED BY <2>1, CallMoves
<1>5. stack \in Seq(Frame) /\ stack # <<>> /\ Head(stack) = Loop(d, l) BY DEF CallBy
<1>6. Body(f.id) \in Frame /\ Body(f.id).call = "body" /\ Body(f.id).f = f.id BY <1>1, Frames
<1>7. ASSUME NEW x \in Requests, Finishing(x, Body(f.id), Completes)
      PROVE  x \in Fired /\ \A m \in Both : <<Main(x), m>> \notin Running
  <2>1. added[Main(x)]["complete"] = <<f.id>> BY <1>6, <1>7, Frames DEF Finishing, Completes
  <2>2. Len(added[Main(x)]["complete"]) = 1 /\ added[Main(x)]["complete"][1] = f.id BY <2>1
  <2>3. Len(ran[d][l]) + 1 \in 1 .. Len(added[d][l]) BY <1>1, <1>2
  <2>4. d = Main(x) /\ l = "complete"
    <3> DEFINE n == Len(ran[d][l]) + 1
    <3>1. n \in Nat /\ 1 \in Nat /\ n \in 1 .. Len(added[d][l]) BY <2>3
    <3>2. 1 \in 1 .. Len(added[Main(x)]["complete"]) BY <2>2
    <3>3. added[d][l][n] = added[Main(x)]["complete"][1] BY <1>1, <2>2
    <3> HIDE DEF n
    <3> QED BY <1>1, <1>2, <3>1, <3>2, <3>3 DEF PromiseInv, IdsInv
  <2>5. Finishing(x, Head(stack), Completes) BY <1>5, <2>4 DEF Finishing
  <2>6. Head(stack) = stack[1] /\ 1 \in 1 .. Len(stack) BY <1>5, Pop
  <2> QED BY <1>5, <2>5, <2>6, FinishingOnTop DEF PromiseInv, StackInv, StackOK, Decided
<1>8. StackInv'
  <2> DEFINE g == Body(f.id)
  <2>1. \A i \in 1 .. Len(stack) : ~Same(g, stack[i]) BY <1>6 DEF Same
  <2>2. g \in Frame /\ g.call # "loop" BY <1>6
  <2>3. \A x \in Requests : Finishing(x, g, Completes) =>
                              x \in Fired /\ \A m \in Both : <<Main(x), m>> \notin Running
    BY <1>7
  <2> HIDE DEF g
  <2>4. StackOK(<<g>> \o stack, thrown, Running, Completes, Fired)
    BY <1>5, <2>1, <2>2, <2>3, StackPush DEF PromiseInv, StackInv
  <2>5. <<g>> \o stack \in Seq(Frame) BY <1>5, <2>2, Push
  <2>6. StackOK(<<g>> \o stack, thrown, Running', Completes, Fired)
    BY <1>4, <2>4, <2>5, StackSame
  <2>7. stack' = <<g>> \o stack /\ thrown' = thrown BY DEF g, CallBy
  <2> QED BY <1>4, <2>6, <2>7 DEF StackInv
<1>9. TypeInv'
  <2>1. stack' \in Seq(Frame) BY <1>5, <1>6, Push
  <2> QED BY <1>3, <1>4, <2>1 DEF PromiseInv, TypeInv, CallBy, ajaxVars
<1> QED BY <1>4, <1>8, <1>9 DEF PromiseInv

LEMMA CallThenKeeps ==
  ASSUME PromiseInv, NEW d, NEW l, NEW cb, NEW f, CallBy(d, l, cb, f), f.kind = "then",
         lists' = [lists EXCEPT ![d][l] = AfterCall(cb)], UNCHANGED <<stack, state, ran>>,
         tasks' = tasks \union {[x |-> d[1], ok |-> l = "onDone"]}
  PROVE  PromiseInv'
<1>1. /\ ListsInv' /\ StateInv' /\ IdsInv' /\ RequestInv'
      /\ Fired' = Fired /\ Completes' = Completes
      /\ \A e, m : <<e, m>> \in Running' <=> <<e, m>> \in Running
      /\ lists' \in [Deferreds -> [Lists -> Cb]]
  <2>1. state' = state /\ Notes(d, l, f) BY DEF Notes
  <2> QED BY <2>1, CallMoves
<1>2. StackInv'
  <2>1. StackOK(stack, thrown, Running', Completes, Fired)
    BY <1>1, StackSame DEF PromiseInv, StackInv, TypeInv
  <2> QED BY <1>1, <2>1 DEF StackInv, CallBy
<1>3. [x |-> d[1], ok |-> l = "onDone"] \in [x : Requests, ok : BOOLEAN]
  BY Names DEF CallBy
<1>4. TypeInv' BY <1>1, <1>3 DEF PromiseInv, TypeInv, CallBy, ajaxVars
<1> QED BY <1>1, <1>2, <1>4 DEF PromiseInv


\* The two lists of the other outcome are disabled.
SettledAs(d, l, c) ==
  /\ lists' \in [Deferreds -> [Lists -> Cb]]
  /\ \A e \in Deferreds, m \in Lists :
       lists'[e][m] = IF e = d /\ m = l THEN c
                      ELSE IF e = d /\ m \in {Opposite(l), Handlers(Opposite(l))}
                           THEN disable(lists[e][m]) ELSE lists[e][m]
LEMMA SettledShape ==
  ASSUME lists \in [Deferreds -> [Lists -> Cb]], NEW d \in Deferreds, NEW l \in Both, NEW c \in Cb,
         disable(lists[d][Opposite(l)]) \in Cb, disable(lists[d][Handlers(Opposite(l))]) \in Cb,
         lists' = Settled([lists EXCEPT ![d][l] = c], d, l)
  PROVE  SettledAs(d, l, c)
<1> DEFINE o == Opposite(l)
           h == Handlers(Opposite(l))
           x == disable(lists[d][o])
           y == disable(lists[d][h])
<1>1. o \in Lists /\ h \in Lists /\ l \in Lists /\ o # l /\ h # l /\ o # h /\ h \notin Both
  BY ListNames DEF Both
<1>2. lists' = [lists EXCEPT ![d] = [[[lists[d] EXCEPT ![l] = c] EXCEPT ![o] = x] EXCEPT ![h] = y]]
  BY <1>1 DEF Settled
<1>3. x \in Cb /\ y \in Cb /\ x = disable(lists[d][o]) /\ y = disable(lists[d][h]) OBVIOUS
<1> DEFINE row == [[[lists[d] EXCEPT ![l] = c] EXCEPT ![o] = x] EXCEPT ![h] = y]
<1> HIDE DEF o, h, x, y
<1>4. lists[d] \in [Lists -> Cb] OBVIOUS
<1>5. row \in [Lists -> Cb] BY <1>1, <1>3, <1>4
<1>6. \A m \in Lists : row[m] = IF m = l THEN c ELSE IF m = o THEN x
                                 ELSE IF m = h THEN y ELSE lists[d][m]
  BY <1>1, <1>4
<1>7. lists' = [lists EXCEPT ![d] = row] BY <1>2
<1> HIDE DEF row
<1>8. lists' \in [Deferreds -> [Lists -> Cb]] BY <1>5, <1>7
<1>9. ASSUME NEW e \in Deferreds, NEW m \in Lists
      PROVE  lists'[e][m] = IF e = d /\ m = l THEN c
                            ELSE IF e = d /\ m \in {o, h} THEN disable(lists[e][m]) ELSE lists[e][m]
  <2>1. CASE e = d
    <3>1. lists'[e] = row BY <1>7, <2>1
    <3> QED BY <1>3, <1>6, <2>1, <3>1
  <2>2. CASE e # d BY <1>7, <2>2
  <2> QED BY <2>1, <2>2
<1> QED BY <1>8, <1>9 DEF SettledAs, o, h

LEMMA CallSettleKeeps ==
  ASSUME PromiseInv, NEW d, NEW l, NEW cb, NEW f, CallBy(d, l, cb, f), f.kind = "settle",
         state' = [state EXCEPT ![d] = l],
         lists' = Settled([lists EXCEPT ![d][l] = AfterCall(cb)], d, l),
         UNCHANGED <<stack, tasks, ran>>
  PROVE  PromiseInv'
<1> DEFINE c == AfterCall(cb)
           a == added[d][l]
           r == ran[d][l]
           o == Opposite(l)
<1>1. /\ l \in Both /\ cb.index = 0 /\ Shift(cb, a) = -2 /\ ListFine(l, c, a, r)
      /\ l \in Lists /\ d \in Deferreds /\ cb = lists[d][l]
      /\ c \in Cb /\ c.index = 1 /\ Shift(c, a) = -2 /\ c.open /\ c.locked /\ c.firing
      /\ cb.open /\ cb.firing /\ cb.locked
  <2>1. l \in Both /\ cb.index = 0 /\ Shift(cb, a) = -2 /\ ListFine(l, c, a, r)
    BY CallFine DEF CallBy
  <2>2. Shift(c, a) = -2 BY <2>1 DEF Shift, CallBy
  <2> QED BY <2>1, <2>2 DEF CallBy
<1>2. /\ o \in Both /\ o \in Lists /\ o # l /\ Handlers(o) \in Lists /\ Handlers(l) \in Lists
      /\ Handlers(o) # Handlers(l) /\ Opposite(o) = l
      /\ Handlers(o) \in {"onDone", "onFail"} /\ Handlers(l) \in {"onDone", "onFail"}
      /\ o \in UserLists /\ o # "complete" /\ l # "complete" /\ Handlers(o) # "complete"
      /\ l \notin {"onDone", "onFail"} /\ o \notin {"onDone", "onFail"}
  BY <1>1, ListNames DEF Both
<1>3. \A e, m : OnTop(Loop(e, m)) => e = d /\ m = l BY DEF CallBy
<1>4. state[d] = "pending"
  <2>1. state[d] \in {"pending", "done", "fail"} BY <1>1 DEF PromiseInv, TypeInv
  <2>2. Past(lists[d], added[d], l) = -2 BY <1>1 DEF Past
  <2>3. state[d] # l BY <1>1, <2>2 DEF PromiseInv, StateInv, DeferredInv
  <2>4. state[d] # o BY <1>1, <1>2 DEF PromiseInv, StateInv, DeferredInv, Settles
  <2> QED BY <1>1, <2>1, <2>3, <2>4, ListNames DEF Both
<1>5. /\ lists[d][o].open /\ lists[d][o].index = 0 /\ Shift(lists[d][o], added[d][o]) = -2
      /\ ~lists[d][o].locked /\ ~lists[d][Handlers(o)].locked
      /\ lists[d][Handlers(l)].open /\ ~lists[d][Handlers(l)].locked
  <2>1. DeferredInv(d) BY <1>1 DEF PromiseInv, StateInv
  <2>2. ~OnTop(Loop(d, o)) BY <1>2, <1>3
  <2> QED BY <1>1, <1>2, <1>4, <2>1, <2>2 DEF DeferredInv, Untouched
<1>6. /\ lists[d][o] \in Cb /\ lists[d][Handlers(o)] \in Cb
      /\ ListFine(o, lists[d][o], added[d][o], ran[d][o])
      /\ ListFine(Handlers(o), lists[d][Handlers(o)], added[d][Handlers(o)], ran[d][Handlers(o)])
      /\ added[d][o] \in Seq(Ids) /\ ran[d][o] \in Seq(Ids)
  BY <1>1, <1>2 DEF PromiseInv, TypeInv, ListsInv
<1>7. ~lists[d][o].firing /\ ~lists[d][Handlers(o)].firing
  BY <1>5, <1>6 DEF ListFine, ListOK
<1>8. ran[d][o] = <<>>
  <2>1. InStep(lists[d][o], added[d][o], ran[d][o])
    BY <1>2, <1>5, <1>6 DEF ListFine, Follows
  <2>2. Len(ran[d][o]) = 0 BY <1>5, <2>1 DEF InStep
  <2> QED BY <1>6, <2>2
<1>9. /\ disable(lists[d][o]) \in Cb /\ disable(lists[d][Handlers(o)]) \in Cb
      /\ \A m \in {o, Handlers(o)} :
           LET g == disable(lists[d][m]) IN ~g.open /\ g.locked /\ ~g.firing
  BY <1>6, <1>7, DisableForm DEF ListFine
<1>10. /\ lists' \in [Deferreds -> [Lists -> Cb]]
       /\ \A e \in Deferreds, m \in Lists :
              lists'[e][m] = IF e = d /\ m = l THEN c
                             ELSE IF e = d /\ m \in {o, Handlers(o)}
                                  THEN disable(lists[e][m]) ELSE lists[e][m]
  <2>1. lists \in [Deferreds -> [Lists -> Cb]] BY DEF PromiseInv, TypeInv
  <2>2. lists' = Settled([lists EXCEPT ![d][l] = c], d, l) OBVIOUS
  <2>3. c \in Cb /\ d \in Deferreds /\ l \in Both BY <1>1
  <2> HIDE DEF c
  <2>4. disable(lists[d][Opposite(l)]) \in Cb /\ disable(lists[d][Handlers(Opposite(l))]) \in Cb
    BY <1>9
  <2>5. SettledAs(d, l, c) BY <2>1, <2>2, <2>3, <2>4, SettledShape
  <2> QED BY <2>5 DEF SettledAs
<1>11. added' = added /\ ran' = ran /\ stack' = stack /\ completed' = completed /\ thrown' = thrown
  BY DEF CallBy, ajaxVars
<1> HIDE DEF c, o, a, r
<1>12. ListsInv'
  <2>1. ASSUME NEW e \in Deferreds, NEW m \in Lists
        PROVE  ListFine(m, lists'[e][m], added'[e][m], ran'[e][m])
    <3>1. ListFine(m, lists[e][m], added[e][m], ran[e][m]) BY DEF PromiseInv, ListsInv
    <3>2. CASE e = d /\ m = l BY <1>1, <1>10, <1>11, <3>2 DEF a, r
    <3>3. CASE e = d /\ m \in {o, Handlers(o)}
      <4>1. lists'[e][m] = disable(lists[e][m]) BY <1>1, <1>2, <1>10, <3>3
      <4>2. lists[e][m] \in Cb /\ ~lists[e][m].firing /\ m # "complete"
        BY <1>2, <1>6, <1>7, <3>3
      <4>3. m \in UserLists => ran[e][m] = <<>> /\ added[e][m] \in Seq(Ids)
        BY <1>2, <1>6, <1>8, <3>3 DEF UserLists
      <4>4. ListFine(m, disable(lists[e][m]), added[e][m], ran[e][m])
        BY <3>1, <4>2, <4>3, DisableFine
      <4> QED BY <1>11, <4>1, <4>4
    <3>4. CASE ~(e = d /\ m = l) /\ ~(e = d /\ m \in {o, Handlers(o)})
      BY <1>10, <1>11, <3>1, <3>4
    <3> QED BY <3>2, <3>3, <3>4
  <2> QED BY <2>1 DEF ListsInv
<1>13. StateInv'
  <2>1. ASSUME NEW e \in Deferreds, e # d PROVE DeferredInv(e)'
    <3>1. \A m \in Both : ~OnTop(Loop(e, m)) BY <1>3, <2>1
    <3>2. Calm(state[e], lists[e], added[e]) BY <3>1, CalmNow DEF PromiseInv
    <3>3. \A m \in Lists : lists'[e][m] = lists[e][m] BY <1>10, <2>1
    <3>4. state'[e] = state[e] BY <2>1 DEF PromiseInv, TypeInv
    <3>5. Both \subseteq Lists BY ListNames
    <3>6. Calm(state'[e], lists'[e], added'[e])
      <4> DEFINE ms == lists'[e]
      <4>1. \A m \in Lists : ms[m] = lists[e][m] BY <3>3
      <4> HIDE DEF ms
      <4>2. Calm(state[e], ms, added[e]) BY <3>2, <3>5, <4>1, CalmSame
      <4> QED BY <1>11, <3>4, <4>2 DEF ms
    <3> QED BY <3>6, CalmThen
  <2>2. DeferredInv(d)'
    <3>1. state'[d] = l BY <1>1 DEF PromiseInv, TypeInv
    <3>2. /\ lists'[d][l] = c /\ lists'[d][o] = disable(lists[d][o])
          /\ lists'[d][Handlers(o)] = disable(lists[d][Handlers(o)])
          /\ lists'[d][Handlers(l)] = lists[d][Handlers(l)]
      BY <1>1, <1>2, <1>10
    <3>3. Settles(lists'[d], added'[d], l)
      BY <1>1, <1>5, <1>9, <3>2 DEF Settles, o
    <3>4. Past(lists'[d], added'[d], l) = -1 BY <1>1, <1>11, <3>2 DEF Past, a
    <3>5. OnTop(Loop(d, l))' BY <1>11 DEF OnTop, CallBy
    <3>6. ASSUME NEW m \in Both
          PROVE /\ state'[d] # "pending"
                /\ state'[d] = m =>
                     /\ Settles(lists'[d], added'[d], m) /\ Past(lists'[d], added'[d], m) >= -1
                     /\ Past(lists'[d], added'[d], m) = -1 =>
                          lists'[d][m].firing /\ OnTop(Loop(d, m))' /\ ~lists'[d][Handlers(m)].locked
      <4>1. l # "pending" BY <1>1 DEF Both
      <4> QED BY <1>1, <1>5, <3>1, <3>2, <3>3, <3>4, <3>5, <4>1
    <3> QED BY <3>6 DEF DeferredInv, OnTop
  <2> QED BY <2>1, <2>2 DEF StateInv
<1>14. ASSUME NEW e, NEW m PROVE <<e, m>> \in Running' <=> <<e, m>> \in Running
  <2>1. <<e, m>> \in Running <=> e \in Deferreds /\ m \in Lists /\ lists[e][m].firing
    BY RunningIs DEF PromiseInv, TypeInv
  <2>2. <<e, m>> \in Running' <=> e \in Deferreds /\ m \in Lists /\ lists'[e][m].firing
    BY <1>10, RunningIs
  <2>3. CASE e = d /\ m \in {o, Handlers(o)}
    BY <1>1, <1>2, <1>7, <1>9, <1>10, <2>1, <2>2, <2>3
  <2>4. CASE ~(e = d /\ m \in {o, Handlers(o)}) BY <1>1, <1>10, <2>1, <2>2, <2>4
  <2> QED BY <2>3, <2>4
<1>15. \A e \in Deferreds, m \in Lists : lists[e][m].locked => lists'[e][m].locked
  <2>1. ASSUME NEW e \in Deferreds, NEW m \in Lists, lists[e][m].locked PROVE lists'[e][m].locked
    <3>1. CASE e = d /\ m = l BY <1>1, <1>10, <3>1
    <3>2. CASE e = d /\ m \in {o, Handlers(o)} /\ m # l
      <4>1. lists'[e][m] = disable(lists[d][m]) BY <1>10, <3>2
      <4> QED BY <1>9, <3>2, <4>1
    <3>3. CASE ~(e = d /\ m = l) /\ ~(e = d /\ m \in {o, Handlers(o)})
      BY <1>10, <2>1, <3>3
    <3> QED BY <3>1, <3>2, <3>3
  <2> QED BY <2>1
<1>16. Fired \subseteq Fired' BY <1>15, Names, ListNames DEF Fired
<1>17. IdsInv' /\ Completes' = Completes BY <1>11, IdsSame DEF PromiseInv
<1>18. StackInv'
  <2>1. StackOK(stack, thrown, Running', Completes, Fired')
    BY <1>14, <1>16, StackSame DEF PromiseInv, StackInv, TypeInv
  <2> QED BY <1>11, <1>17, <2>1 DEF StackInv
<1>19. RequestInv'
  <2>1. ASSUME NEW x \in Requests
        PROVE  /\ completed[x] # "yes" => \A m \in UserLists : ~lists'[Main(x)][m].locked
               /\ lists'[Main(x)]["complete"].locked => state'[Main(x)] # "pending"
               /\ ~lists'[Derived(x)]["complete"].locked
    <3>1. /\ completed[x] # "yes" => \A m \in UserLists : ~lists[Main(x)][m].locked
          /\ lists[Main(x)]["complete"].locked => state[Main(x)] # "pending"
          /\ ~lists[Derived(x)]["complete"].locked
      BY DEF PromiseInv, RequestInv
    <3>2. Main(x) \in Deferreds /\ Derived(x) \in Deferreds /\ l \in UserLists
          /\ UserLists \subseteq Lists /\ "complete" \in UserLists
      BY <1>1, Names, ListNames
    <3>3. \A e \in Deferreds : lists'[e]["complete"] = lists[e]["complete"]
      BY <1>2, <1>10, <3>2
    <3>4. completed[x] # "yes" => Main(x) # d BY <1>1, <3>1, <3>2
    <3>5. \A e \in Deferreds : e # d => \A m \in Lists : lists'[e][m] = lists[e][m]
      BY <1>10
    <3>6. \A e \in Deferreds : state'[e] = IF e = d THEN l ELSE state[e]
      BY DEF PromiseInv, TypeInv
    <3>7. l # "pending" BY <1>1 DEF Both
    <3> QED BY <3>1, <3>2, <3>3, <3>4, <3>5, <3>6, <3>7
  <2> QED BY <1>11, <2>1 DEF PromiseInv, RequestInv
<1>20. TypeInv'
  <2>1. state' \in [Deferreds -> {"pending", "done", "fail"}]
    BY <1>1 DEF PromiseInv, TypeInv, Both
  <2> QED BY <1>10, <1>11, <2>1 DEF PromiseInv, TypeInv, CallBy, ajaxVars
<1> QED BY <1>12, <1>13, <1>17, <1>18, <1>19, <1>20 DEF PromiseInv


\* A list moves on and another one is fired.
MovedTwo(d, l, c, m, g) ==
  /\ lists' \in [Deferreds -> [Lists -> Cb]]
  /\ \A e \in Deferreds, n \in Lists :
       lists'[e][n] = IF e = d /\ n = l THEN c ELSE IF e = d /\ n = m THEN g ELSE lists[e][n]

LEMMA MoveTwo ==
  ASSUME lists \in [Deferreds -> [Lists -> Cb]], NEW d \in Deferreds, NEW l \in Lists,
         NEW m \in Lists, l # m, NEW c \in Cb, fireWith(lists[d][m]) \in Cb,
         lists' = [[lists EXCEPT ![d][l] = c] EXCEPT ![d][m] = fireWith(@)]
  PROVE  MovedTwo(d, l, c, m, fireWith(lists[d][m]))
<1> DEFINE g == fireWith(lists[d][m])
           row == [[lists[d] EXCEPT ![l] = c] EXCEPT ![m] = g]
<1>1. lists' = [lists EXCEPT ![d] = row] OBVIOUS
<1>2. g \in Cb /\ lists[d] \in [Lists -> Cb] OBVIOUS
<1> HIDE DEF g
<1>3. row \in [Lists -> Cb] BY <1>2
<1>4. \A n \in Lists : row[n] = IF n = l THEN c ELSE IF n = m THEN g ELSE lists[d][n] BY <1>2
<1> HIDE DEF row
<1>5. lists' \in [Deferreds -> [Lists -> Cb]] BY <1>1, <1>3
<1>6. ASSUME NEW e \in Deferreds, NEW n \in Lists
      PROVE  lists'[e][n] = IF e = d /\ n = l THEN c ELSE IF e = d /\ n = m THEN g
                            ELSE lists[e][n]
  <2>1. CASE e = d BY <1>1, <1>4, <2>1
  <2>2. CASE e # d BY <1>1, <2>2
  <2> QED BY <2>1, <2>2
<1> QED BY <1>5, <1>6 DEF MovedTwo, g

LEMMA CallFireHandlersKeeps ==
  ASSUME PromiseInv, NEW d, NEW l, NEW cb, NEW f, CallBy(d, l, cb, f), f.kind = "fireHandlers",
         lists' = [[lists EXCEPT ![d][l] = AfterCall(cb)] EXCEPT ![d][Handlers(l)] = fireWith(@)],
         stack' = <<Loop(d, Handlers(l))>> \o stack, UNCHANGED <<state, tasks, ran>>
  PROVE  PromiseInv'
<1> DEFINE c == AfterCall(cb)
           a == added[d][l]
           r == ran[d][l]
           h == Handlers(l)
           g == fireWith(lists[d][h])
<1>1. /\ l \in Both /\ cb.index = 1 /\ Shift(cb, a) = -2 /\ ListFine(l, c, a, r)
      /\ l \in Lists /\ d \in Deferreds /\ cb = lists[d][l]
      /\ c \in Cb /\ c.index = 2 /\ Shift(c, a) = -2 /\ c.open /\ c.locked /\ c.firing
      /\ cb.open /\ cb.firing /\ cb.locked
  <2>1. l \in Both /\ cb.index = 1 /\ Shift(cb, a) = -2 /\ ListFine(l, c, a, r)
    BY CallFine DEF CallBy
  <2>2. Shift(c, a) = -2 BY <2>1 DEF Shift, CallBy
  <2> QED BY <2>1, <2>2 DEF CallBy
<1>2. /\ h \in Lists /\ h # l /\ h \notin Both /\ h \notin UserLists /\ h # "complete"
      /\ l # "complete"
  BY <1>1, ListNames DEF Both, UserLists
<1>3. \A e, m : OnTop(Loop(e, m)) => e = d /\ m = l BY DEF CallBy
<1>4. state[d] = l
  <2>1. state[d] \in {"pending", "done", "fail"} BY <1>1 DEF PromiseInv, TypeInv
  <2>2. state[d] # "pending" BY <1>1 DEF PromiseInv, StateInv, DeferredInv, Untouched
  <2>3. state[d] # Opposite(l)
    BY <1>1, ListNames DEF PromiseInv, StateInv, DeferredInv, Settles
  <2> QED BY <1>1, <2>1, <2>2, <2>3, ListNames DEF Both
<1>5. Settles(lists[d], added[d], l) /\ ~lists[d][h].locked
  <2>1. Past(lists[d], added[d], l) = -1 BY <1>1 DEF Past
  <2> QED BY <1>1, <1>4, <2>1 DEF PromiseInv, StateInv, DeferredInv
<1>6. /\ lists[d][h] \in Cb /\ ListFine(h, lists[d][h], added[d][h], ran[d][h])
      /\ ~lists[d][h].firing
  <2>1. lists[d][h] \in Cb /\ ListFine(h, lists[d][h], added[d][h], ran[d][h])
    BY <1>1, <1>2 DEF PromiseInv, TypeInv, ListsInv
  <2> QED BY <1>5, <2>1 DEF ListFine, ListOK
<1>7. /\ g \in Cb /\ g.firing /\ g.locked /\ (g.open <=> lists[d][h].open)
      /\ ListFine(h, g, added[d][h], ran[d][h])
  <2>1. ListOK(lists[d][h]) BY <1>6 DEF ListFine
  <2> QED BY <1>5, <1>6, <2>1, FireForm, FireFine
<1>8. MovedTwo(d, l, c, h, g)
  <2>1. lists \in [Deferreds -> [Lists -> Cb]] BY DEF PromiseInv, TypeInv
  <2>2. lists' = [[lists EXCEPT ![d][l] = c] EXCEPT ![d][h] = fireWith(@)] OBVIOUS
  <2> HIDE DEF c, h
  <2> QED BY <1>1, <1>2, <1>7, <2>1, <2>2, MoveTwo
<1>9. added' = added /\ ran' = ran /\ completed' = completed /\ thrown' = thrown
      /\ state' = state /\ stack' = <<Loop(d, h)>> \o stack
      /\ stack \in Seq(Frame) /\ stack # <<>>
  BY DEF CallBy, ajaxVars
<1> HIDE DEF c, h, a, r, g
<1>10. /\ lists' \in [Deferreds -> [Lists -> Cb]]
       /\ \A e \in Deferreds, n \in Lists :
           lists'[e][n] = IF e = d /\ n = l THEN c ELSE IF e = d /\ n = h THEN g ELSE lists[e][n]
  BY <1>8 DEF MovedTwo
<1>11. ListsInv'
  <2>1. ASSUME NEW e \in Deferreds, NEW m \in Lists
        PROVE  ListFine(m, lists'[e][m], added'[e][m], ran'[e][m])
    <3>1. ListFine(m, lists[e][m], added[e][m], ran[e][m]) BY DEF PromiseInv, ListsInv
    <3>2. CASE e = d /\ m = l BY <1>1, <1>9, <1>10, <3>2 DEF a, r
    <3>3. CASE e = d /\ m = h BY <1>2, <1>7, <1>9, <1>10, <3>3
    <3>4. CASE ~(e = d /\ m = l) /\ ~(e = d /\ m = h) BY <1>9, <1>10, <3>1, <3>4
    <3> QED BY <3>2, <3>3, <3>4
  <2> QED BY <2>1 DEF ListsInv
<1>12. StateInv'
  <2>1. ASSUME NEW e \in Deferreds, e # d PROVE DeferredInv(e)'
    <3>1. \A m \in Both : ~OnTop(Loop(e, m)) BY <1>3, <2>1
    <3>2. Calm(state[e], lists[e], added[e]) BY <3>1, CalmNow DEF PromiseInv
    <3> DEFINE ms == lists'[e]
    <3>3. \A m \in Lists : ms[m] = lists[e][m] BY <1>10, <2>1
    <3>4. Both \subseteq Lists BY ListNames
    <3> HIDE DEF ms
    <3>5. Calm(state[e], ms, added[e]) BY <3>2, <3>3, <3>4, CalmSame
    <3>6. Calm(state'[e], lists'[e], added'[e]) BY <1>9, <3>5 DEF ms
    <3> QED BY <3>6, CalmThen
  <2>2. DeferredInv(d)'
    <3>1. \A m \in Lists : m # l /\ m # h => lists'[d][m] = lists[d][m] BY <1>1, <1>10
    <3>2. lists'[d][l] = c /\ lists'[d][h] = g BY <1>1, <1>2, <1>10
    <3>3. /\ Opposite(l) # l /\ Opposite(l) # h /\ Opposite(l) \in Lists
          /\ Handlers(Opposite(l)) # l /\ Handlers(Opposite(l)) # h
          /\ Handlers(Opposite(l)) \in Lists
      BY <1>1, <1>2, ListNames DEF h
    <3>4. Settles(lists'[d], added'[d], l)
      BY <1>1, <1>5, <1>7, <3>1, <3>2, <3>3 DEF Settles, h
    <3>5. Past(lists'[d], added'[d], l) = 0 BY <1>1, <1>9, <3>2 DEF Past, a
    <3>6. Calm(state'[d], lists'[d], added'[d])
      BY <1>1, <1>4, <1>9, <3>4, <3>5 DEF Calm, Both
    <3> QED BY <1>1, <3>6, CalmThen
  <2> QED BY <2>1, <2>2 DEF StateInv
<1>13. ASSUME NEW e, NEW m
       PROVE  <<e, m>> \in Running' <=> <<e, m>> \in Running \/ (e = d /\ m = h)
  <2>1. <<e, m>> \in Running <=> e \in Deferreds /\ m \in Lists /\ lists[e][m].firing
    BY RunningIs DEF PromiseInv, TypeInv
  <2>2. <<e, m>> \in Running' <=> e \in Deferreds /\ m \in Lists /\ lists'[e][m].firing
    BY <1>10, RunningIs
  <2>3. CASE e = d /\ m = h BY <1>1, <1>2, <1>7, <1>10, <2>2, <2>3
  <2>4. CASE ~(e = d /\ m = h) BY <1>1, <1>10, <2>1, <2>2, <2>4
  <2> QED BY <2>3, <2>4
<1>14. \A e \in Deferreds, m \in UserLists : lists'[e][m].locked <=> lists[e][m].locked
  BY <1>1, <1>2, <1>10, ListNames
<1>15. Fired' = Fired
  <2>1. \A x \in Requests, m \in Both : lists'[Main(x)][m].locked <=> lists[Main(x)][m].locked
    BY <1>14, Names, ListNames
  <2> QED BY <2>1 DEF Fired
<1>16. IdsInv' /\ Completes' = Completes BY <1>9, IdsSame DEF PromiseInv
<1>17. StackInv'
  <2>1. <<d, h>> \notin Running
    BY <1>1, <1>2, <1>6, RunningIs DEF PromiseInv, TypeInv
  <2>2. StackOK(stack, thrown, Running, Completes, Fired) BY DEF PromiseInv, StackInv
  <2>3. StackOK(<<Loop(d, h)>> \o stack, thrown, Running', Completes, Fired)
    BY <1>1, <1>2, <1>9, <1>13, <2>1, <2>2, StackLoop
  <2> QED BY <1>9, <1>15, <1>16, <2>3 DEF StackInv
<1>18. RequestInv'
  <2>1. "complete" \in UserLists BY DEF UserLists
  <2> QED BY <1>9, <1>14, <2>1, Names DEF PromiseInv, RequestInv
<1>19. TypeInv'
  <2>1. stack' \in Seq(Frame)
    <3>1. Loop(d, h) \in Frame BY <1>1, <1>2, Frames
    <3> QED BY <1>9, <3>1, Push
  <2> QED BY <1>9, <1>10, <2>1 DEF PromiseInv, TypeInv, CallBy, ajaxVars
<1> QED BY <1>11, <1>12, <1>16, <1>17, <1>18, <1>19 DEF PromiseInv

LEMMA CallNextKeeps == ASSUME PromiseInv, CallNext PROVE PromiseInv'
<1> DEFINE d == Top.d
           l == Top.l
           cb == lists[d][l]
           f == NextCall(cb)
<1>1. CallBy(d, l, cb, f) BY CallShape
<1>2. CASE /\ f.kind = "user"
           /\ lists' = [lists EXCEPT ![d][l] = AfterCall(@)] /\ stack' = <<Body(f.id)>> \o stack
           /\ ran' = [ran EXCEPT ![d][l] = Append(@, f.id)]
           /\ UNCHANGED <<state, tasks>>
  BY <1>1, <1>2, CallUserKeeps
<1>3. CASE /\ f.kind = "settle"
           /\ state' = [state EXCEPT ![d] = l]
           /\ lists' = Settled([lists EXCEPT ![d][l] = AfterCall(@)], d, l)
           /\ UNCHANGED <<stack, tasks, ran>>
  BY <1>1, <1>3, CallSettleKeeps
<1>4. CASE /\ f.kind = "fireHandlers"
           /\ lists' = [[lists EXCEPT ![d][l] = AfterCall(@)] EXCEPT ![d][Handlers(l)] = fireWith(@)]
           /\ stack' = <<Loop(d, Handlers(l))>> \o stack
           /\ UNCHANGED <<state, tasks, ran>>
  BY <1>1, <1>4, CallFireHandlersKeeps
<1>5. CASE /\ f.kind = "then"
           /\ tasks' = tasks \union {[x |-> d[1], ok |-> l = "onDone"]}
           /\ lists' = [lists EXCEPT ![d][l] = AfterCall(@)] /\ UNCHANGED <<stack, state, ran>>
  BY <1>1, <1>5, CallThenKeeps
<1> QED BY <1>2, <1>3, <1>4, <1>5 DEF CallNext


(***************************************************************************)
(* The end of a request.                                                   *)
(***************************************************************************)
\* The lists of a deferred that is fired: one of an outcome, of which none was fired.
LEMMA FiredState ==
  ASSUME PromiseInv, NEW d \in Deferreds, NEW l \in Both, state' = state,
         \A m \in Both : ~lists[d][m].locked,
         \A e \in Deferreds, m \in Both : ~OnTop(Loop(e, m)),
         stack' # <<>>, Head(stack') = Loop(d, l), lists'[d][l].firing,
         lists'[d][l].open <=> lists[d][l].open,
         \A e \in Deferreds, m \in Lists : (e = d /\ m = l) \/ m = "complete" \/
           ((lists'[e][m].open <=> lists[e][m].open) /\ (lists'[e][m].locked <=> lists[e][m].locked)),
         \A e \in Deferreds, m \in Both :
           /\ lists'[e][m].index = lists[e][m].index
           /\ Shift(lists'[e][m], added'[e][m]) = Shift(lists[e][m], added[e][m])
  PROVE  StateInv'
<1>1. ASSUME NEW e \in Deferreds, e # d PROVE DeferredInv(e)'
  <2>1. Calm(state[e], lists[e], added[e]) BY CalmNow DEF PromiseInv
  <2> DEFINE ms == lists'[e]
             bs == added'[e]
  <2>2. \A m \in Lists : m = "complete" \/ ((ms[m].open <=> lists[e][m].open)
                                           /\ (ms[m].locked <=> lists[e][m].locked))
    BY <1>1
  <2>3. \A m \in Both : /\ ms[m].index = lists[e][m].index
                        /\ Shift(ms[m], bs[m]) = Shift(lists[e][m], added[e][m])
    OBVIOUS
  <2> HIDE DEF ms, bs
  <2>4. Calm(state[e], ms, bs) BY <2>1, <2>2, <2>3, CalmSame
  <2>5. Calm(state'[e], lists'[e], added'[e]) BY <2>4 DEF ms, bs
  <2> QED BY <2>5, CalmThen
<1>2. DeferredInv(d)'
  <2>1. Calm(state[d], lists[d], added[d]) BY CalmNow DEF PromiseInv
  <2>2. state[d] = "pending"
    <3>1. state[d] \in {"pending", "done", "fail"} BY DEF PromiseInv, TypeInv
    <3> QED BY <2>1, <3>1 DEF Calm, Settles, Both
  <2>3. ASSUME NEW m \in Both
        PROVE  /\ Untouched(lists'[d], added'[d], m)
               /\ lists'[d][m].locked => lists'[d][m].firing /\ OnTop(Loop(d, m))'
    <3>1. m \in Lists /\ Handlers(m) \in Lists /\ Handlers(m) # l /\ Handlers(m) # "complete"
          /\ m # "complete"
      BY ListNames DEF Both
    <3>2. Untouched(lists[d], added[d], m) BY <2>1, <2>2 DEF Calm
    <3>3. Untouched(lists'[d], added'[d], m) BY <3>1, <3>2 DEF Untouched
    <3>4. m # l => ~lists'[d][m].locked BY <3>1
    <3> QED BY <3>3, <3>4 DEF OnTop
  <2>4. l # "pending" /\ \A m \in Both : m # "pending" BY DEF Both
  <2> QED BY <2>2, <2>3, <2>4 DEF DeferredInv, OnTop
<1> QED BY <1>1, <1>2 DEF StateInv

\* The loop of the outcome of a request is called over the rest of done().
Ending(x, l) == <<Loop(Main(x), l)>> \o (<<Done(x, "complete")>> \o stack)
LEMMA OutcomeCalled ==
  ASSUME PromiseInv, \A y \in Counting(stack) : completed[y] = "yes",
         NEW x \in Requests, completed[x] # "yes", NEW l \in Both, NEW now, NEW ys,
         \A e, m : <<e, m>> \in now <=> <<e, m>> \in Running \/ (e = Main(x) /\ m = l),
         Fired \subseteq ys, x \in ys
  PROVE  /\ StackOK(Ending(x, l), thrown, now, Completes, ys)
         /\ Ending(x, l) \in Seq(Frame) /\ Ending(x, l) # <<>>
         /\ Head(Ending(x, l)) = Loop(Main(x), l)
<1> DEFINE g == Done(x, "complete")
           f == Loop(Main(x), l)
<1>1. Main(x) \in Deferreds /\ l \in Lists /\ l # "complete" BY Names, ListNames DEF Both
<1>2. stack \in Seq(Frame) /\ StackOK(stack, thrown, Running, Completes, Fired)
  BY DEF PromiseInv, TypeInv, StackInv
<1>3. \A m \in Both : <<Main(x), m>> \notin Running
  <2>1. \A m \in Both : ~lists[Main(x)][m].locked BY ListNames DEF PromiseInv, RequestInv
  <2>2. \A m \in Both : m \in Lists BY ListNames
  <2>3. \A m \in Both : ListOK(lists[Main(x)][m])
    BY <1>1, <2>2 DEF PromiseInv, ListsInv, ListFine
  <2>4. \A m \in Both : ~lists[Main(x)][m].firing BY <2>1, <2>3 DEF ListOK
  <2> QED BY <2>4, RunningIs DEF PromiseInv, TypeInv
<1>4. g \in Frame /\ g.call = "done" /\ g.x = x BY Frames
<1>5. \A i \in 1 .. Len(stack) : ~Same(g, stack[i])
  BY <1>4 DEF Same, Counting
<1>6. \A y \in Requests : Finishing(y, g, Completes) => y = x
  BY <1>4, Frames DEF Finishing
<1>7. f \in Frame BY <1>1, Frames
<1> HIDE DEF g
<1>8. /\ StackOK(<<g>> \o stack, thrown, Running, Completes, ys) /\ <<g>> \o stack \in Seq(Frame)
  BY <1>2, <1>3, <1>4, <1>5, <1>6, StackPush, Push
<1> DEFINE t == <<g>> \o stack
<1> HIDE DEF t
<1>9. StackOK(<<Loop(Main(x), l)>> \o t, thrown, now, Completes, ys)
  BY <1>1, <1>3, <1>8, StackLoop DEF t
<1>10. <<f>> \o t \in Seq(Frame) /\ <<f>> \o t # <<>> /\ Head(<<f>> \o t) = f
  <2>1. t \in Seq(Frame) BY <1>8 DEF t
  <2> HIDE DEF f
  <2> QED BY <1>7, <2>1, Push
<1> QED BY <1>9, <1>10 DEF t, g, Ending


\* No loop is the innermost call while the page's own code may act.
LEMMA UserTurnNoLoop == ASSUME TypeInv, UserTurn PROVE \A d, l : ~OnTop(Loop(d, l))
<1>1. CASE Idle BY <1>1 DEF Idle, OnTop
<1>2. CASE In("body") BY <1>2, Frames DEF In, Top, OnTop
<1> QED BY <1>1, <1>2 DEF UserTurn

\* One list is fired and nothing is registered or called.
LEMMA FireLists ==
  ASSUME PromiseInv, NEW d \in Deferreds, NEW l \in Lists, Moved(d, l, fireWith(lists[d][l])),
         added' = added, ran' = ran
  PROVE  /\ ListsInv'
         /\ lists'[d][l].locked
         /\ \A e \in Deferreds, m \in Lists :
              /\ lists'[e][m].open <=> lists[e][m].open
              /\ (e = d /\ m = l) \/ (lists'[e][m].locked <=> lists[e][m].locked)
              /\ lists[e][m].locked => lists'[e][m].locked
              /\ lists'[e][m].index = lists[e][m].index
              /\ Shift(lists'[e][m], added'[e][m]) = Shift(lists[e][m], added[e][m])
         /\ ~lists[d][l].locked => lists'[d][l].firing /\ <<d, l>> \notin Running
         /\ \A e, m : <<e, m>> \in Running' <=>
              <<e, m>> \in Running \/ (~lists[d][l].locked /\ e = d /\ m = l)
<1> DEFINE cb == lists[d][l]
           c == fireWith(cb)
<1>1. cb \in Cb /\ ListFine(l, cb, added[d][l], ran[d][l]) /\ ListOK(cb)
  BY DEF PromiseInv, TypeInv, ListsInv, ListFine
<1>2. /\ ListFine(l, c, added[d][l], ran[d][l]) /\ Shift(c, added[d][l]) = Shift(cb, added[d][l])
  BY <1>1, FireFine
<1>3. /\ c.index = cb.index /\ (c.open <=> cb.open) /\ c.locked
      /\ (c.firing <=> (cb.firing \/ ~cb.locked))
  BY <1>1, FireForm
<1>4. cb.firing => cb.locked BY <1>1 DEF ListOK
<1>5. Moved(d, l, c) OBVIOUS
<1> HIDE DEF c
<1>6. \A e \in Deferreds, m \in Lists : lists'[e][m] = IF e = d /\ m = l THEN c ELSE lists[e][m]
  BY <1>5 DEF Moved
<1>7. ListsInv'
  <2>1. ASSUME NEW e \in Deferreds, NEW m \in Lists
        PROVE  ListFine(m, lists'[e][m], added'[e][m], ran'[e][m])
    <3>1. ListFine(m, lists[e][m], added[e][m], ran[e][m]) BY DEF PromiseInv, ListsInv
    <3>2. CASE e = d /\ m = l BY <1>2, <1>6, <3>2
    <3>3. CASE ~(e = d /\ m = l) BY <1>6, <3>1, <3>3
    <3> QED BY <3>2, <3>3
  <2> QED BY <2>1 DEF ListsInv
<1>8. lists'[d][l].locked /\ (lists'[d][l].firing <=> (cb.firing \/ ~cb.locked)) BY <1>3, <1>6
<1>9. ASSUME NEW e \in Deferreds, NEW m \in Lists
      PROVE  /\ lists'[e][m].open <=> lists[e][m].open
             /\ (e = d /\ m = l) \/ (lists'[e][m].locked <=> lists[e][m].locked)
             /\ lists[e][m].locked => lists'[e][m].locked
             /\ lists'[e][m].index = lists[e][m].index
             /\ Shift(lists'[e][m], added'[e][m]) = Shift(lists[e][m], added[e][m])
  <2>1. CASE e = d /\ m = l BY <1>2, <1>3, <1>6, <2>1
  <2>2. CASE ~(e = d /\ m = l) BY <1>6, <2>2
  <2> QED BY <2>1, <2>2
<1>10. <<d, l>> \in Running <=> cb.firing BY RunningIs DEF PromiseInv, TypeInv
<1>11. ASSUME NEW e, NEW m
       PROVE  <<e, m>> \in Running' <=>
                <<e, m>> \in Running \/ (~cb.locked /\ e = d /\ m = l)
  <2>1. <<e, m>> \in Running' <=> IF e = d /\ m = l THEN c.firing ELSE <<e, m>> \in Running
    BY <1>5, RunningMoved DEF PromiseInv
  <2> QED BY <1>3, <1>10, <2>1
<1> QED BY <1>4, <1>7, <1>8, <1>9, <1>10, <1>11

\* done() of a request: over already, ended by an exception, or calling the callbacks of
\* the outcome.
LEMMA DoneKeeps ==
  ASSUME PromiseInv, \A y \in Counting(stack) : completed[y] = "yes", UserTurn,
         NEW x \in Requests, completed[x] # "unset", NEW how \in How, done(x, how, stack),
         handlers' \subseteq Requests,
         UNCHANGED <<active, endings, promiseVars, added, ran, verdict>>
  PROVE  PromiseInv'
<1>1. \A d, l : ~OnTop(Loop(d, l)) BY UserTurnNoLoop DEF PromiseInv
<1>2. CASE completed[x] = "yes"
  <2>1. UNCHANGED <<lists, completed, timer, transport, thrown, stack>> BY <1>2 DEF done
  <2>2. /\ ListsInv' /\ StateInv' /\ IdsInv' /\ RequestInv'
        /\ Running' = Running /\ Completes' = Completes /\ Fired' = Fired
    BY <1>1, <2>1, Left DEF promiseVars
  <2>3. StackInv' BY <2>1, <2>2 DEF PromiseInv, StackInv
  <2>4. TypeInv' BY <2>1 DEF PromiseInv, TypeInv, promiseVars
  <2> QED BY <2>2, <2>3, <2>4 DEF PromiseInv
<1>3. ASSUME completed[x] # "yes"
      PROVE  /\ completed' = [completed EXCEPT ![x] = "yes"]
             /\ timer' \subseteq Requests /\ transport' \subseteq Requests
             /\ completed' \in [Requests -> {"unset", "no", "yes"}]
             /\ \A y \in Requests : completed'[y] # "yes" => completed'[y] = completed[y]
  BY <1>3 DEF done, PromiseInv, TypeInv
<1>4. CASE completed[x] # "yes" /\ how = "throws"
  <2>1. UNCHANGED lists /\ thrown' = TRUE /\ stack' = <<>> BY <1>4 DEF done
  <2>2. ListsInv' BY <2>1 DEF PromiseInv, ListsInv
  <2>3. IdsInv' BY IdsSame DEF PromiseInv
  <2>4. RequestInv' BY <1>3, <1>4, <2>1 DEF PromiseInv, RequestInv, promiseVars
  <2>5. StateInv' BY <1>1, <2>1, CalmNow, CalmThen DEF PromiseInv, StateInv, promiseVars
  <2>6. StackInv' BY <2>1, StackEmpty DEF StackInv
  <2>7. TypeInv' BY <1>3, <1>4, <2>1 DEF PromiseInv, TypeInv, promiseVars
  <2> QED BY <2>2, <2>3, <2>4, <2>5, <2>6, <2>7 DEF PromiseInv
<1>5. CASE completed[x] # "yes" /\ how # "throws"
  <2> DEFINE d == Main(x)
             under == <<Done(x, "complete")>> \o stack
  <2>1. how \in Both BY <1>5 DEF How, Both
  <2>2. Operate(d, how, fireWith, under) /\ UNCHANGED thrown BY <1>5 DEF done
  <2>3. d \in Deferreds /\ how \in Lists /\ how # "complete" /\ how \in UserLists
    BY <2>1, Names, ListNames DEF Both
  <2>4. \A m \in UserLists : ~lists[d][m].locked BY <1>5 DEF PromiseInv, RequestInv
  <2>5. \A m \in Both : ~lists[d][m].locked BY <2>4, ListNames
  <2>6. /\ Moved(d, how, fireWith(lists[d][how]))
        /\ stack' = <<Loop(d, how)>> \o under
    <3> HIDE DEF under
    <3>1. stack' = IF lists[d][how].locked THEN under ELSE <<Loop(d, how)>> \o under
      BY <2>2, <2>3, OperateShape DEF PromiseInv
    <3>2. Moved(d, how, fireWith(lists[d][how]))
      BY <2>2, <2>3, OperateShape DEF PromiseInv
    <3> QED BY <2>1, <2>5, <3>1, <3>2
  <2>7. /\ ListsInv'
        /\ lists'[d][how].locked
        /\ \A e \in Deferreds, m \in Lists :
              /\ lists'[e][m].open <=> lists[e][m].open
              /\ (e = d /\ m = how) \/ (lists'[e][m].locked <=> lists[e][m].locked)
              /\ lists[e][m].locked => lists'[e][m].locked
              /\ lists'[e][m].index = lists[e][m].index
              /\ Shift(lists'[e][m], added'[e][m]) = Shift(lists[e][m], added[e][m])
        /\ ~lists[d][how].locked => lists'[d][how].firing /\ <<d, how>> \notin Running
        /\ \A e, m : <<e, m>> \in Running' <=>
              <<e, m>> \in Running \/ (~lists[d][how].locked /\ e = d /\ m = how)
    BY <2>3, <2>6, FireLists
  <2>8. IdsInv' /\ Completes' = Completes BY IdsSame DEF PromiseInv
  <2>9. Fired \subseteq Fired' /\ x \in Fired'
    <3>1. \A y \in Requests, m \in Both : lists[Main(y)][m].locked => lists'[Main(y)][m].locked
      BY <2>7, Names, ListNames
    <3> QED BY <2>1, <2>7, <3>1 DEF Fired
  <2>10. \A e, m : <<e, m>> \in Running' <=> <<e, m>> \in Running \/ (e = Main(x) /\ m = how)
    BY <2>1, <2>5, <2>7
  <2>11. /\ StackOK(stack', thrown, Running', Completes, Fired')
         /\ stack' \in Seq(Frame) /\ stack' # <<>> /\ Head(stack') = Loop(d, how)
    <3>1. completed[x] # "yes" /\ how \in Both BY <1>5, <2>1
    <3> HIDE DEF d, under
    <3>2. /\ StackOK(Ending(x, how), thrown, Running', Completes, Fired')
          /\ Ending(x, how) \in Seq(Frame) /\ Ending(x, how) # <<>>
          /\ Head(Ending(x, how)) = Loop(Main(x), how)
      BY <2>9, <2>10, <3>1, OutcomeCalled
    <3> QED BY <2>6, <3>2 DEF d, under, Ending
  <2>12. StackInv' BY <2>2, <2>8, <2>11 DEF StackInv
  <2>13. StateInv'
    <3>1. lists'[d][how].firing BY <2>1, <2>5, <2>7
    <3>2. state' = state BY DEF promiseVars
    <3>3. \A e \in Deferreds, m \in Both :
           /\ lists'[e][m].index = lists[e][m].index
           /\ Shift(lists'[e][m], added'[e][m]) = Shift(lists[e][m], added[e][m])
      BY <2>7, ListNames
    <3>4. \A e \in Deferreds, m \in Lists : (e = d /\ m = how) \/ m = "complete" \/
           ((lists'[e][m].open <=> lists[e][m].open) /\ (lists'[e][m].locked <=> lists[e][m].locked))
      BY <2>7
    <3>5. lists'[d][how].open <=> lists[d][how].open BY <2>3, <2>7
    <3> HIDE DEF d
    <3> QED BY <1>1, <2>1, <2>3, <2>5, <2>11, <3>1, <3>2, <3>3, <3>4, <3>5, FiredState
  <2>14. RequestInv'
    <3>1. \A y \in Requests : completed'[y] # "yes" => y # x
      BY <1>3, <1>5 DEF PromiseInv, TypeInv
    <3>2. \A y \in Requests : y # x => Main(y) # d /\ Derived(y) # d BY Names
    <3>3. \A y \in Requests : Derived(y) # d BY Names
    <3>4. \A y \in Requests :
            /\ lists'[Main(y)]["complete"].locked <=> lists[Main(y)]["complete"].locked
            /\ lists'[Derived(y)]["complete"].locked <=> lists[Derived(y)]["complete"].locked
            /\ y # x => \A m \in UserLists : lists'[Main(y)][m].locked <=> lists[Main(y)][m].locked
      BY <2>3, <2>7, <3>2, Names, ListNames
    <3>5. state' = state BY DEF promiseVars
    <3> QED BY <1>3, <1>5, <3>1, <3>4, <3>5 DEF PromiseInv, RequestInv
  <2>15. TypeInv'
    <3>1. lists' \in [Deferreds -> [Lists -> Cb]] BY <2>6 DEF Moved
    <3> QED BY <1>3, <1>5, <2>2, <2>11, <3>1 DEF PromiseInv, TypeInv, promiseVars
  <2> QED BY <2>7, <2>8, <2>12, <2>13, <2>14, <2>15 DEF PromiseInv
<1> QED BY <1>2, <1>4, <1>5


\* The calls when done() comes to the complete callbacks.
LEMMA CompleteNext ==
  ASSUME PromiseInv, doneComplete
  PROVE  /\ Top.x \in Requests /\ Main(Top.x) \in Deferreds
         /\ \A d, l : ~OnTop(Loop(d, l))
         /\ Top.x \in Counting(stack) /\ Top.x \in Fired
         /\ \A l \in Both : <<Main(Top.x), l>> \notin Running
         /\ <<Done(Top.x, "finish")>> \o Tail(stack) \in Seq(Frame)
         /\ StackOK(<<Done(Top.x, "finish")>> \o Tail(stack), thrown, Running, Completes, Fired)
<1> DEFINE x == Top.x
           s == Tail(stack)
           g == Done(x, "finish")
<1>1. stack \in Seq(Frame) /\ stack # <<>> /\ Top = Head(stack) /\ Top.call = "done"
      /\ Top.at = "complete"
  BY DEF PromiseInv, TypeInv, doneComplete, In, Top
<1>2. Head(stack) = stack[1] /\ Head(stack) \in Frame /\ 1 \in 1 .. Len(stack) /\ s \in Seq(Frame)
  BY <1>1, Pop
<1>3. x \in Requests /\ g \in Frame /\ g.call = "done" /\ g.x = x
  BY <1>1, <1>2, Frames
<1>4. \A d, l : Head(stack) # Loop(d, l) BY <1>1, Frames
<1>5. StackOK(stack, thrown, Running, Completes, Fired) BY DEF PromiseInv, StackInv
<1>6. StackOK(s, thrown, Running, Completes, Fired) BY <1>1, <1>4, <1>5, StackPop
<1>7. \A i \in 1 .. Len(s) : ~Same(Head(stack), s[i])
  <2>1. Orderly(stack, Running, Completes) BY <1>5 DEF StackOK
  <2>2. \A e, m : <<e, m>> \in Running <=> <<e, m>> \in Running /\ Head(stack) # Loop(e, m)
    BY <1>4
  <2> QED BY <1>1, <2>1, <2>2, OrderlyPop
<1>8. \A i \in 1 .. Len(s) : ~Same(g, s[i]) BY <1>1, <1>3, <1>7 DEF Same
<1>9. Finishing(x, Head(stack), Completes) BY <1>1 DEF Finishing
<1>10. x \in Fired BY <1>2, <1>3, <1>5, <1>9 DEF StackOK, Decided
<1>11. \A l \in Both : <<Main(x), l>> \notin Running
  BY <1>1, <1>3, <1>5, <1>9, FinishingOnTop DEF StackOK
<1>12. \A y \in Requests : Finishing(y, g, Completes) => y = x
  BY <1>3, Frames DEF Finishing
<1>13. x \in Counting(stack) BY <1>1, <1>2, <1>3 DEF Counting
<1> HIDE DEF g, s
<1>14. StackOK(<<g>> \o s, thrown, Running, Completes, Fired) /\ <<g>> \o s \in Seq(Frame)
  BY <1>2, <1>3, <1>6, <1>8, <1>10, <1>11, <1>12, StackPush, Push DEF s
<1>15. Main(x) \in Deferreds BY <1>3, Names
<1>16. \A d, l : ~OnTop(Loop(d, l)) BY <1>4 DEF OnTop
<1> QED BY <1>3, <1>10, <1>11, <1>13, <1>14, <1>15, <1>16 DEF g, s

LEMMA DoneCompleteKeeps ==
  ASSUME PromiseInv, \A y \in Counting(stack) : completed[y] = "yes", doneComplete
  PROVE  PromiseInv'
<1> DEFINE x == Top.x
           d == Main(x)
           l == "complete"
           under == <<Done(x, "finish")>> \o Tail(stack)
<1>1. /\ x \in Requests /\ d \in Deferreds /\ \A e, m : ~OnTop(Loop(e, m))
      /\ completed[x] = "yes" /\ x \in Fired /\ \A m \in Both : <<d, m>> \notin Running
      /\ under \in Seq(Frame) /\ StackOK(under, thrown, Running, Completes, Fired)
  BY CompleteNext
<1>2. l \in Lists /\ l \notin Both /\ l \in UserLists BY DEF Lists, Both, UserLists
<1>3. /\ Operate(d, l, fireWith, under)
      /\ UNCHANGED <<completed, transport, timer, handlers, active, endings>>
      /\ UNCHANGED <<state, depth, chained, tasks, added, ran, verdict, thrown>>
  BY DEF doneComplete, ajaxVars, promiseVars, history
<1>4. /\ Moved(d, l, fireWith(lists[d][l]))
      /\ stack' = IF lists[d][l].locked THEN under ELSE <<Loop(d, l)>> \o under
  <2> HIDE DEF under, d, l
  <2> QED BY <1>1, <1>2, <1>3, OperateShape DEF PromiseInv
<1>5. /\ ListsInv'
      /\ \A e \in Deferreds, m \in Lists :
              /\ lists'[e][m].open <=> lists[e][m].open
              /\ (e = d /\ m = l) \/ (lists'[e][m].locked <=> lists[e][m].locked)
              /\ lists[e][m].locked => lists'[e][m].locked
              /\ lists'[e][m].index = lists[e][m].index
              /\ Shift(lists'[e][m], added'[e][m]) = Shift(lists[e][m], added[e][m])
      /\ ~lists[d][l].locked => lists'[d][l].firing /\ <<d, l>> \notin Running
      /\ \A e, m : <<e, m>> \in Running' <=>
              <<e, m>> \in Running \/ (~lists[d][l].locked /\ e = d /\ m = l)
  <2> HIDE DEF under, d, l
  <2>1. PromiseInv /\ d \in Deferreds /\ l \in Lists /\ Moved(d, l, fireWith(lists[d][l]))
        /\ added' = added /\ ran' = ran
    BY <1>1, <1>2, <1>3, <1>4
  <2> QED BY ONLY <2>1, FireLists
<1>6. StateInv'
  <2>1. ASSUME NEW e \in Deferreds PROVE DeferredInv(e)'
    <3>1. Calm(state[e], lists[e], added[e]) BY <1>1, CalmNow DEF PromiseInv
    <3> DEFINE ms == lists'[e]
    <3>2. \A m \in Lists : m = "complete" \/ ((ms[m].open <=> lists[e][m].open)
                                           /\ (ms[m].locked <=> lists[e][m].locked))
      BY <1>5
    <3>3. \A m \in Both : /\ ms[m].index = lists[e][m].index
                          /\ Shift(ms[m], added[e][m]) = Shift(lists[e][m], added[e][m])
      BY <1>3, <1>5, ListNames
    <3> HIDE DEF ms
    <3>4. Calm(state[e], ms, added[e]) BY <3>1, <3>2, <3>3, CalmSame
    <3>5. Calm(state'[e], lists'[e], added'[e]) BY <1>3, <3>4 DEF ms
    <3> QED BY <3>5, CalmThen
  <2> QED BY <2>1 DEF StateInv
<1>7. IdsInv' /\ Completes' = Completes BY <1>3, IdsSame DEF PromiseInv
<1>8. Fired' = Fired
  <2>1. \A y \in Requests, m \in Both : lists'[Main(y)][m].locked <=> lists[Main(y)][m].locked
    BY <1>2, <1>5, Names, ListNames
  <2> QED BY <2>1 DEF Fired
<1>9. StackOK(stack', thrown, Running', Completes, Fired) /\ stack' \in Seq(Frame)
  <2> HIDE DEF under
  <2>1. CASE lists[d][l].locked
    <3>1. stack' = under /\ \A e, m : <<e, m>> \in Running' <=> <<e, m>> \in Running
      BY <1>4, <1>5, <2>1
    <3> QED BY <1>1, <3>1, StackSame
  <2>2. CASE ~lists[d][l].locked
    <3>1. stack' = <<Loop(d, l)>> \o under /\ <<d, l>> \notin Running
          /\ \A e, m : <<e, m>> \in Running' <=> <<e, m>> \in Running \/ (e = d /\ m = l)
      BY <1>4, <1>5, <2>2
    <3>2. \A y \in Requests : d = Main(y) => y = x BY <1>1, Names
    <3>3. Loop(d, l) \in Frame BY <1>1, <1>2, Frames
    <3> HIDE DEF d
    <3>4. StackOK(<<Loop(d, l)>> \o under, thrown, Running', Completes, Fired)
      BY <1>1, <1>2, <3>1, <3>2, StackLoop
    <3>5. <<Loop(d, l)>> \o under \in Seq(Frame) BY <1>1, <3>3, Push
    <3> QED BY <3>1, <3>4, <3>5
  <2> QED BY <2>1, <2>2
<1>10. StackInv' BY <1>3, <1>7, <1>8, <1>9 DEF StackInv
<1>11. RequestInv'
  <2>1. state[d] # "pending"
    <3>1. PICK m \in Both : lists[d][m].locked BY <1>1 DEF Fired
    <3>2. Calm(state[d], lists[d], added[d]) BY <1>1, CalmNow DEF PromiseInv
    <3> QED BY <3>1, <3>2 DEF Calm
  <2>2. ASSUME NEW y \in Requests
        PROVE  /\ completed[y] # "yes" => \A m \in UserLists : ~lists'[Main(y)][m].locked
               /\ lists'[Main(y)]["complete"].locked => state[Main(y)] # "pending"
               /\ ~lists'[Derived(y)]["complete"].locked
    <3>1. /\ Main(y) \in Deferreds /\ Derived(y) \in Deferreds /\ Derived(y) # d
          /\ Main(y) = d => y = x
      BY <1>1, Names
    <3>2. \A e \in Deferreds, m \in UserLists : e # d => (lists'[e][m].locked <=> lists[e][m].locked)
      BY <1>5, ListNames
    <3> HIDE DEF d
    <3>3. CASE Main(y) # d BY <1>2, <3>1, <3>2, <3>3 DEF PromiseInv, RequestInv
    <3>4. CASE Main(y) = d BY <1>1, <1>2, <2>1, <3>1, <3>2, <3>4 DEF PromiseInv, RequestInv
    <3> QED BY <3>3, <3>4
  <2> QED BY <1>3, <2>2 DEF PromiseInv, RequestInv
<1>12. TypeInv'
  <2>1. lists' \in [Deferreds -> [Lists -> Cb]] BY <1>4 DEF Moved
  <2> QED BY <1>3, <1>9, <2>1 DEF PromiseInv, TypeInv
<1> QED BY <1>5, <1>6, <1>7, <1>10, <1>11, <1>12 DEF PromiseInv


(***************************************************************************)
(* then(): a verdict on the promise.                                       *)
(***************************************************************************)
\* At rest a deferred is pending and none of its lists was fired, or both were.
LEMMA AtRest ==
  ASSUME TypeInv, StateInv, ListsInv, Idle, NEW d \in Deferreds
  PROVE  \/ state[d] = "pending" /\ \A m \in Both : ~lists[d][m].locked
         \/ state[d] \in Both /\ \A m \in Both : lists[d][m].locked
<1>1. \A l \in Both : ~OnTop(Loop(d, l)) BY DEF OnTop, Idle
<1>2. Calm(state[d], lists[d], added[d]) BY <1>1, CalmNow
<1>3. state[d] \in {"pending", "done", "fail"} BY DEF TypeInv
<1>4. CASE state[d] = "pending" BY <1>2, <1>4 DEF Calm
<1>5. CASE state[d] \in Both
  <2>1. lists[d][state[d]].locked /\ ~lists[d][Opposite(state[d])].open
    BY <1>2, <1>5 DEF Calm, Settles
  <2>2. ListOK(lists[d][Opposite(state[d])])
    BY <1>5, ListNames DEF ListsInv, ListFine
  <2>3. lists[d][Opposite(state[d])].locked BY <2>1, <2>2 DEF ListOK
  <2> QED BY <1>5, <2>1, <2>3, ListNames
<1> QED BY <1>3, <1>4, <1>5 DEF Both

LEMMA ResolveKeeps ==
  ASSUME PromiseInv, Idle, NEW x \in Requests, NEW at, NEW result, resolve(x, at, result),
         depth' \in [Requests -> 0 .. MaxDepth], tasks' \subseteq tasks,
         verdict' \in [Requests -> [0 .. MaxDepth -> {"none"} \union Results]],
         UNCHANGED <<ajaxVars, state, chained, added, ran, thrown>>
  PROVE  PromiseInv'
<1> DEFINE d == Derived(x)
           l == IF result = "value" THEN "done" ELSE "fail"
<1>1. d \in Deferreds /\ l \in Both /\ l \in Lists /\ l # "complete"
  BY Names, ListNames DEF Both
<1>2. stack = <<>> /\ \A e, m : ~OnTop(Loop(e, m)) BY DEF Idle, OnTop
<1>3. UNCHANGED <<completed, transport, timer, handlers, active, endings>>
      /\ UNCHANGED <<state, chained, added, ran, thrown>>
  BY DEF ajaxVars
<1>4. CASE stack' = <<>> /\ UNCHANGED lists
  <2>1. /\ ListsInv' /\ StateInv' /\ IdsInv' /\ RequestInv'
        /\ Running' = Running /\ Completes' = Completes /\ Fired' = Fired
    BY <1>2, <1>3, <1>4, Left
  <2>2. StackInv' BY <1>2, <1>3, <1>4, <2>1 DEF PromiseInv, StackInv
  <2>3. TypeInv' BY <1>3, <1>4 DEF PromiseInv, TypeInv
  <2> QED BY <2>1, <2>2, <2>3 DEF PromiseInv
<1>5. CASE Operate(d, l, fireWith, <<>>)
  <2>1. /\ Moved(d, l, fireWith(lists[d][l]))
        /\ stack' = IF lists[d][l].locked THEN <<>> ELSE <<Loop(d, l)>> \o <<>>
    <3> HIDE DEF d, l
    <3> QED BY <1>1, <1>5, OperateShape DEF PromiseInv
  <2>2. /\ ListsInv'
        /\ lists'[d][l].locked
        /\ \A e \in Deferreds, m \in Lists :
              /\ lists'[e][m].open <=> lists[e][m].open
              /\ (e = d /\ m = l) \/ (lists'[e][m].locked <=> lists[e][m].locked)
              /\ lists[e][m].locked => lists'[e][m].locked
              /\ lists'[e][m].index = lists[e][m].index
              /\ Shift(lists'[e][m], added'[e][m]) = Shift(lists[e][m], added[e][m])
        /\ ~lists[d][l].locked => lists'[d][l].firing /\ <<d, l>> \notin Running
        /\ \A e, m : <<e, m>> \in Running' <=>
              <<e, m>> \in Running \/ (~lists[d][l].locked /\ e = d /\ m = l)
    <3> HIDE DEF d, l
    <3>1. PromiseInv /\ d \in Deferreds /\ l \in Lists /\ Moved(d, l, fireWith(lists[d][l]))
          /\ added' = added /\ ran' = ran
      BY <1>1, <1>3, <2>1
    <3> QED BY ONLY <3>1, FireLists
  <2>3. IdsInv' /\ Completes' = Completes BY <1>3, IdsSame DEF PromiseInv
  <2>4. \A y \in Requests : Main(y) # d /\ Main(y) \in Deferreds /\ Derived(y) \in Deferreds
    BY Names
  <2>5. Fired' = Fired
    <3>1. \A y \in Requests, m \in Both : lists'[Main(y)][m].locked <=> lists[Main(y)][m].locked
      BY <2>2, <2>4, ListNames
    <3> QED BY <3>1 DEF Fired
  <2>6. RequestInv'
    <3>1. \A y \in Requests, m \in UserLists :
             lists'[Main(y)][m].locked <=> lists[Main(y)][m].locked
      BY <2>2, <2>4, ListNames
    <3>2. \A y \in Requests :
             lists'[Derived(y)]["complete"].locked <=> lists[Derived(y)]["complete"].locked
      BY <1>1, <2>2, <2>4, ListNames
    <3>3. "complete" \in UserLists BY DEF UserLists
    <3> QED BY <1>3, <3>1, <3>2, <3>3 DEF PromiseInv, RequestInv
  <2>7. StateInv' /\ StackInv' /\ stack' \in Seq(Frame)
    <3>1. CASE lists[d][l].locked
      <4>1. stack' = stack /\ \A e, m : <<e, m>> \in Running' <=> <<e, m>> \in Running
        BY <1>2, <2>1, <2>2, <3>1
      <4>2. \A e \in Deferreds, m \in Lists : lists'[e][m].locked <=> lists[e][m].locked
        BY <2>2, <3>1
      <4>3. StateInv'
        <5>1. ASSUME NEW e \in Deferreds PROVE DeferredInv(e)'
          <6>1. Calm(state[e], lists[e], added[e]) BY <1>2, CalmNow DEF PromiseInv
          <6> DEFINE ms == lists'[e]
          <6>2. \A m \in Lists : m = "complete" \/ ((ms[m].open <=> lists[e][m].open)
                                           /\ (ms[m].locked <=> lists[e][m].locked))
            BY <2>2, <4>2
          <6>3. \A m \in Both : /\ ms[m].index = lists[e][m].index
                                /\ Shift(ms[m], added[e][m]) = Shift(lists[e][m], added[e][m])
            BY <1>3, <2>2, ListNames
          <6> HIDE DEF ms
          <6>4. Calm(state[e], ms, added[e]) BY <6>1, <6>2, <6>3, CalmSame
          <6>5. Calm(state'[e], lists'[e], added'[e]) BY <1>3, <6>4 DEF ms
          <6> QED BY <6>5, CalmThen
        <5> QED BY <5>1 DEF StateInv
      <4>4. StackOK(stack, thrown, Running', Completes, Fired)
        BY <4>1, StackSame DEF PromiseInv, StackInv, TypeInv
      <4>5. StackInv' BY <1>3, <2>3, <2>5, <4>1, <4>4 DEF StackInv
      <4> QED BY <4>1, <4>3, <4>5 DEF PromiseInv, TypeInv
    <3>2. CASE ~lists[d][l].locked
      <4>1. \A m \in Both : ~lists[d][m].locked
        BY <1>1, <3>2, AtRest DEF PromiseInv
      <4>2. stack' = <<Loop(d, l)>> \o stack /\ <<d, l>> \notin Running
            /\ \A e, m : <<e, m>> \in Running' <=> <<e, m>> \in Running \/ (e = d /\ m = l)
        BY <1>2, <2>1, <2>2, <3>2
      <4>3. stack \in Seq(Frame) /\ StackOK(stack, thrown, Running, Completes, Fired)
        BY DEF PromiseInv, TypeInv, StackInv
      <4>4. Loop(d, l) \in Frame BY <1>1, Frames
      <4>5. stack' \in Seq(Frame) /\ stack' # <<>> /\ Head(stack') = Loop(d, l)
        BY <4>2, <4>3, <4>4, Push
      <4>6. lists'[d][l].firing /\ (lists'[d][l].open <=> lists[d][l].open)
        BY <1>1, <2>2, <3>2
      <4>7. \A e \in Deferreds, m \in Both :
              /\ lists'[e][m].index = lists[e][m].index
              /\ Shift(lists'[e][m], added'[e][m]) = Shift(lists[e][m], added[e][m])
        BY <2>2, ListNames
      <4>8. \A e \in Deferreds, m \in Lists : (e = d /\ m = l) \/ m = "complete" \/
             ((lists'[e][m].open <=> lists[e][m].open) /\ (lists'[e][m].locked <=> lists[e][m].locked))
        BY <2>2
      <4> HIDE DEF d, l
      <4>9. StateInv' BY <1>1, <1>2, <1>3, <4>1, <4>5, <4>6, <4>7, <4>8, FiredState
      <4>10. StackOK(<<Loop(d, l)>> \o stack, thrown, Running', Completes, Fired)
        BY <1>1, <4>2, <4>3, StackLoop
      <4>11. StackInv' BY <1>3, <2>3, <2>5, <4>2, <4>10 DEF StackInv
      <4> QED BY <4>5, <4>9, <4>11
    <3> QED BY <3>1, <3>2
  <2>8. TypeInv'
    <3>1. lists' \in [Deferreds -> [Lists -> Cb]] BY <2>1 DEF Moved
    <3> QED BY <1>3, <2>7, <3>1 DEF PromiseInv, TypeInv
  <2> QED BY <2>2, <2>3, <2>6, <2>7, <2>8 DEF PromiseInv
<1> QED BY <1>4, <1>5 DEF resolve


(***************************************************************************)
(* Registering.                                                            *)
(***************************************************************************)
\* What is registered, place by place.
LEMMA Places ==
  /\ added \in [Deferreds -> [UserLists -> Seq(Ids)]] =>
       \A z : z \in Registered <=> \E e \in Deferreds, m \in UserLists :
                                     \E i \in 1 .. Len(added[e][m]) : z = added[e][m][i]
  /\ added' \in [Deferreds -> [UserLists -> Seq(Ids)]] =>
       \A z : z \in Registered' <=> \E e \in Deferreds, m \in UserLists :
                                      \E i \in 1 .. Len(added'[e][m]) : z = added'[e][m][i]
<1> DEFINE F(e, m) == {added[e][m][i] : i \in DOMAIN added[e][m]}
           G(e, m) == {added'[e][m][i] : i \in DOMAIN added'[e][m]}
<1>1. ASSUME added \in [Deferreds -> [UserLists -> Seq(Ids)]], NEW z
      PROVE  z \in Registered <=> \E e \in Deferreds, m \in UserLists :
                                    \E i \in 1 .. Len(added[e][m]) : z = added[e][m][i]
  <2>1. \A e \in Deferreds, m \in UserLists : DOMAIN added[e][m] = 1 .. Len(added[e][m])
    BY <1>1
  <2>2. \A e \in Deferreds, m \in UserLists :
          z \in F(e, m) <=> \E i \in 1 .. Len(added[e][m]) : z = added[e][m][i]
    BY <2>1
  <2>3. Registered = UNION {F(e, m) : e \in Deferreds, m \in UserLists} BY DEF Registered
  <2> HIDE DEF F
  <2>4. z \in Registered <=> \E e \in Deferreds, m \in UserLists : z \in F(e, m) BY <2>3
  <2> QED BY <2>2, <2>4
<1>2. ASSUME added' \in [Deferreds -> [UserLists -> Seq(Ids)]], NEW z
      PROVE  z \in Registered' <=> \E e \in Deferreds, m \in UserLists :
                                     \E i \in 1 .. Len(added'[e][m]) : z = added'[e][m][i]
  <2>1. \A e \in Deferreds, m \in UserLists : DOMAIN added'[e][m] = 1 .. Len(added'[e][m])
    BY <1>2
  <2>2. \A e \in Deferreds, m \in UserLists :
          z \in G(e, m) <=> \E i \in 1 .. Len(added'[e][m]) : z = added'[e][m][i]
    BY <2>1
  <2>3. Registered' = UNION {G(e, m) : e \in Deferreds, m \in UserLists} BY DEF Registered
  <2> HIDE DEF G
  <2>4. z \in Registered' <=> \E e \in Deferreds, m \in UserLists : z \in G(e, m) BY <2>3
  <2> QED BY <2>2, <2>4
<1> QED BY <1>1, <1>2

LEMMA FreshIs ==
  ASSUME IdsInv
  PROVE  \E n \in Nat : Registered = 1 .. n /\ Fresh = n + 1
<1>1. PICK n \in Nat : Registered = 1 .. n BY DEF IdsInv
<1>2. Cardinality(1 .. n) = n
  <2>1. Cardinality(1 .. n) = IF 1 > n THEN 0 ELSE n - 1 + 1 BY FS_Interval
  <2> QED BY <2>1
<1> QED BY <1>1, <1>2 DEF Fresh

\* One callback more, on some lists of d.
Grows(d, ls) ==
  /\ added' \in [Deferreds -> [UserLists -> Seq(Ids)]]
  /\ \A e \in Deferreds, m \in UserLists :
       added'[e][m] = IF e = d /\ m \in ls THEN Append(added[e][m], Fresh) ELSE added[e][m]

LEMMA GrowIds ==
  ASSUME TypeInv, IdsInv, NEW d \in Deferreds, NEW ls \in SUBSET UserLists, ls # {},
         Fresh \in Ids, Grows(d, ls), "complete" \in ls => ls = {"complete"}
  PROVE  IdsInv' /\ Registered' = Registered \union {Fresh}
<1>1. PICK n \in Nat : Registered = 1 .. n /\ Fresh = n + 1 BY FreshIs
<1>2. added \in [Deferreds -> [UserLists -> Seq(Ids)]] BY DEF TypeInv
<1>9. ASSUME NEW e \in Deferreds, NEW m \in UserLists, NEW i \in 1 .. Len(added[e][m])
      PROVE  i \in 1 .. Len(added'[e][m]) /\ added'[e][m][i] = added[e][m][i]
  <2> DEFINE s == added[e][m]
  <2>1. s \in Seq(Ids) BY <1>2
  <2>2. added'[e][m] = Append(s, Fresh) \/ added'[e][m] = s BY DEF Grows
  <2>3. i \in 1 .. Len(s) OBVIOUS
  <2> HIDE DEF s
  <2>4. i \in 1 .. Len(Append(s, Fresh)) /\ Append(s, Fresh)[i] = s[i] BY <2>1, <2>3
  <2> QED BY <2>2, <2>3, <2>4 DEF s
<1>3. ASSUME NEW e \in Deferreds, NEW m \in UserLists, NEW i \in 1 .. Len(added'[e][m])
      PROVE  \/ /\ i \in 1 .. Len(added[e][m]) /\ added'[e][m][i] = added[e][m][i]
                /\ added'[e][m][i] \in Registered
             \/ e = d /\ m \in ls /\ added'[e][m][i] = Fresh
  <2>1. added[e][m] \in Seq(Ids) BY <1>2
  <2>2. CASE i \in 1 .. Len(added[e][m])
    <3>1. added'[e][m][i] = added[e][m][i] BY <1>9, <2>2
    <3> QED BY <1>2, <2>2, <3>1, Places
  <2>3. CASE i \notin 1 .. Len(added[e][m])
    <3>1. e = d /\ m \in ls /\ added'[e][m] = Append(added[e][m], Fresh)
      BY <2>3 DEF Grows
    <3>2. i = Len(added[e][m]) + 1 BY <2>1, <2>3, <3>1
    <3> QED BY <2>1, <3>1, <3>2
  <2> QED BY <2>2, <2>3
<1>4. \A e \in Deferreds, m \in UserLists : \A i \in 1 .. Len(added[e][m]) :
        i \in 1 .. Len(added'[e][m]) /\ added'[e][m][i] = added[e][m][i]
  BY <1>9
<1>5. \E m \in UserLists : \E i \in 1 .. Len(added'[d][m]) : added'[d][m][i] = Fresh
  <2>1. PICK m \in UserLists : m \in ls OBVIOUS
  <2>2. added'[d][m] = Append(added[d][m], Fresh) BY <2>1 DEF Grows
  <2>3. added[d][m] \in Seq(Ids) BY <1>2
  <2> DEFINE k == Len(added[d][m]) + 1
  <2>4. k \in 1 .. Len(added'[d][m]) /\ added'[d][m][k] = Fresh BY <2>2, <2>3
  <2> QED BY <2>4
<1>6. Registered' = Registered \union {Fresh}
  <2>1. ASSUME NEW z PROVE z \in Registered' <=> z \in Registered \/ z = Fresh
    <3>1. z \in Registered' => z \in Registered \/ z = Fresh
      <4> SUFFICES ASSUME z \in Registered' PROVE z \in Registered \/ z = Fresh OBVIOUS
      <4>1. PICK e \in Deferreds, m \in UserLists :
              \E i \in 1 .. Len(added'[e][m]) : z = added'[e][m][i]
        BY Places DEF Grows
      <4> QED BY <1>3, <4>1
    <3>2. z \in Registered => z \in Registered'
      <4> SUFFICES ASSUME z \in Registered PROVE z \in Registered' OBVIOUS
      <4>1. PICK e \in Deferreds, m \in UserLists :
              \E i \in 1 .. Len(added[e][m]) : z = added[e][m][i]
        BY <1>2, Places
      <4>2. PICK i \in 1 .. Len(added[e][m]) : z = added[e][m][i] BY <4>1
      <4>3. i \in 1 .. Len(added'[e][m]) /\ z = added'[e][m][i] BY <1>4, <4>2
      <4> QED BY <4>3, Places DEF Grows
    <3>3. Fresh \in Registered' BY <1>5, Places DEF Grows
    <3> QED BY <3>1, <3>2, <3>3
  <2> QED BY <2>1
<1>7. Registered' = 1 .. n + 1 /\ n + 1 \in Nat BY <1>1, <1>6
<1>8. ASSUME NEW x \in Requests, NEW e \in Deferreds, NEW m \in UserLists, NEW i \in Nat,
             NEW j \in Nat, i \in 1 .. Len(added'[e][m]),
             j \in 1 .. Len(added'[Main(x)]["complete"]),
             added'[e][m][i] = added'[Main(x)]["complete"][j]
      PROVE  e = Main(x) /\ m = "complete"
  <2>1. Main(x) \in Deferreds /\ "complete" \in UserLists BY Names DEF UserLists
  <2>2. Fresh \notin Registered BY <1>1
  <2> DEFINE u == added'[e][m][i]
             v == added'[Main(x)]["complete"][j]
  <2>3. \/ i \in 1 .. Len(added[e][m]) /\ u = added[e][m][i] /\ u \in Registered
        \/ e = d /\ m \in ls /\ u = Fresh
    BY <1>3, <1>8
  <2>4. \/ /\ j \in 1 .. Len(added[Main(x)]["complete"])
           /\ v = added[Main(x)]["complete"][j] /\ v \in Registered
        \/ Main(x) = d /\ "complete" \in ls /\ v = Fresh
    BY <1>3, <1>8, <2>1
  <2>5. u = v BY <1>8
  <2> HIDE DEF u, v
  <2>6. CASE u = Fresh BY <2>2, <2>3, <2>4, <2>5, <2>6
  <2>7. CASE u # Fresh
    <3>1. added[e][m][i] = added[Main(x)]["complete"][j] BY <2>3, <2>4, <2>5, <2>7
    <3> QED BY <2>3, <2>4, <2>5, <2>7, <3>1 DEF IdsInv
  <2> QED BY <2>6, <2>7
<1> QED BY <1>6, <1>7, <1>8 DEF IdsInv


\* While nothing is being fired, only one of the two lists calls a newcomer at once.
LEMMA OneOpen ==
  ASSUME PromiseInv, NEW d \in Deferreds, \A l \in Both : ~OnTop(Loop(d, l)),
         NEW m \in Lists, NEW n \in Lists,
         {m, n} \subseteq Both \/ {m, n} \subseteq {"onDone", "onFail"},
         lists[d][m].open /\ lists[d][m].locked, lists[d][n].open /\ lists[d][n].locked
  PROVE  m = n
<1>1. Calm(state[d], lists[d], added[d]) BY CalmNow DEF PromiseInv
<1>2. state[d] \in {"pending", "done", "fail"} BY DEF PromiseInv, TypeInv
<1>3. ASSUME NEW j \in Both,
             \/ lists[d][j].open /\ lists[d][j].locked
             \/ lists[d][Handlers(j)].open /\ lists[d][Handlers(j)].locked
      PROVE  j = state[d]
  <2>1. state[d] # "pending" BY <1>1, <1>3 DEF Calm, Untouched
  <2>2. state[d] \in Both BY <1>2, <2>1 DEF Both
  <2>3. Settles(lists[d], added[d], state[d]) BY <1>1, <2>2 DEF Calm
  <2>4. j # Opposite(state[d]) BY <1>3, <2>3 DEF Settles
  <2> QED BY <2>2, <2>4, ListNames
<1>4. CASE {m, n} \subseteq Both BY <1>3, <1>4
<1>5. CASE {m, n} \subseteq {"onDone", "onFail"}
  <2>1. m \in {"onDone", "onFail"} /\ n \in {"onDone", "onFail"} BY <1>5
  <2>2. PICK j \in Both : m = Handlers(j) BY <2>1, ListNames
  <2>3. PICK k \in Both : n = Handlers(k) BY <2>1, ListNames
  <2> QED BY <1>3, <2>2, <2>3
<1> QED BY <1>4, <1>5

OneLoop(d, ls) ==
  \/ stack' = stack /\ \A e, m : <<e, m>> \in Running' <=> <<e, m>> \in Running
  \/ \E l \in ls : /\ stack' = <<Loop(d, l)>> \o stack /\ <<d, l>> \notin Running
                   /\ \A e, m : <<e, m>> \in Running' <=> <<e, m>> \in Running \/ (e = d /\ m = l)

\* The lists with one function more.
AddedTo(d, ls, f) ==
  /\ lists' \in [Deferreds -> [Lists -> Cb]]
  /\ \A e \in Deferreds, m \in Lists :
       lists'[e][m] = IF e = d /\ m \in ls THEN add(lists[e][m], <<f>>) ELSE lists[e][m]

LEMMA AddToShape ==
  ASSUME PromiseInv, UserTurn, NEW d \in Deferreds, NEW ls \in SUBSET Lists,
         ls \subseteq Both \/ ls = {"onDone", "onFail"}, NEW f \in Fn, AddTo(d, ls, f)
  PROVE  /\ AddedTo(d, ls, f) /\ OneLoop(d, ls)
         /\ \A e \in Deferreds, m \in Lists :
              /\ lists'[e][m].open <=> lists[e][m].open
              /\ lists'[e][m].locked <=> lists[e][m].locked
              /\ lists'[e][m].index = lists[e][m].index
<1>1. \A e \in Deferreds, m \in Lists : lists[e][m] \in Cb /\ ListOK(lists[e][m])
  BY DEF PromiseInv, TypeInv, ListsInv, ListFine
<1>2. AddedTo(d, ls, f)
  <2> DEFINE row == [m \in Lists |-> IF m \in ls THEN add(lists[d][m], <<f>>) ELSE lists[d][m]]
  <2>1. lists' = [lists EXCEPT ![d] = row] BY DEF AddTo
  <2>2. \A m \in Lists : add(lists[d][m], <<f>>) \in Cb BY <1>1, AddForm
  <2>3. row \in [Lists -> Cb] BY <1>1, <2>2
  <2>4. \A m \in Lists : row[m] = IF m \in ls THEN add(lists[d][m], <<f>>) ELSE lists[d][m]
    OBVIOUS
  <2> HIDE DEF row
  <2>5. lists \in [Deferreds -> [Lists -> Cb]] BY DEF PromiseInv, TypeInv
  <2>6. lists' \in [Deferreds -> [Lists -> Cb]] BY <2>1, <2>3, <2>5
  <2>7. ASSUME NEW e \in Deferreds, NEW m \in Lists
        PROVE  lists'[e][m] = IF e = d /\ m \in ls THEN add(lists[e][m], <<f>>) ELSE lists[e][m]
    <3>1. CASE e = d BY <2>1, <2>4, <2>5, <3>1
    <3>2. CASE e # d BY <2>1, <2>5, <3>2
    <3> QED BY <3>1, <3>2
  <2> QED BY <2>6, <2>7 DEF AddedTo
<1>3. ASSUME NEW e \in Deferreds, NEW m \in Lists
      PROVE  /\ lists'[e][m].open <=> lists[e][m].open
             /\ lists'[e][m].locked <=> lists[e][m].locked
             /\ lists'[e][m].index = lists[e][m].index
             /\ lists'[e][m].firing <=>
                  \/ lists[e][m].firing
                  \/ e = d /\ m \in ls /\ lists[e][m].open /\ lists[e][m].locked
  <2>1. CASE e = d /\ m \in ls
    <3>1. lists'[e][m] = add(lists[e][m], <<f>>) BY <1>2, <2>1 DEF AddedTo
    <3> QED BY <1>1, <2>1, <3>1, AddForm
  <2>2. CASE ~(e = d /\ m \in ls)
    <3>1. lists'[e][m] = lists[e][m] BY <1>2, <2>2 DEF AddedTo
    <3> QED BY <2>2, <3>1
  <2> QED BY <2>1, <2>2
<1>4. ASSUME NEW e, NEW m
      PROVE  <<e, m>> \in Running' <=>
               \/ <<e, m>> \in Running
               \/ e = d /\ m \in ls /\ lists[e][m].open /\ lists[e][m].locked
  <2>1. <<e, m>> \in Running <=> e \in Deferreds /\ m \in Lists /\ lists[e][m].firing
    BY RunningIs DEF PromiseInv, TypeInv
  <2>2. <<e, m>> \in Running' <=> e \in Deferreds /\ m \in Lists /\ lists'[e][m].firing
    BY <1>2, RunningIs DEF AddedTo
  <2> QED BY <1>3, <2>1, <2>2
<1> DEFINE begun == {l \in ls : lists'[d][l].firing /\ ~lists[d][l].firing}
<1>5. stack' = IF begun = {} THEN stack ELSE <<Loop(d, CHOOSE l \in begun : TRUE)>> \o stack
  BY DEF AddTo
<1>6. \A l \in Lists : l \in begun <=> /\ l \in ls /\ lists[d][l].open /\ lists[d][l].locked
                                       /\ ~lists[d][l].firing
  BY <1>3
<1>7. begun \subseteq Lists OBVIOUS
<1> HIDE DEF begun
<1>8. CASE begun = {}
  <2>1. \A m \in ls : lists[d][m].open /\ lists[d][m].locked => <<d, m>> \in Running
    BY <1>6, <1>8, RunningIs DEF PromiseInv, TypeInv
  <2>2. \A e, m : <<e, m>> \in Running' <=> <<e, m>> \in Running BY <1>4, <2>1
  <2>3. stack' = stack BY <1>5, <1>8
  <2>4. OneLoop(d, ls) BY <2>2, <2>3 DEF OneLoop
  <2> QED BY <1>2, <1>3, <2>4
<1>9. CASE begun # {}
  <2>1. PICK k \in begun : TRUE BY <1>9
  <2>2. k \in ls /\ k \in Lists /\ lists[d][k].open /\ lists[d][k].locked /\ ~lists[d][k].firing
    BY <1>6, <1>7
  <2>3. \A m \in ls : lists[d][m].open /\ lists[d][m].locked => m = k
    <3>1. \A l \in Both : ~OnTop(Loop(d, l)) BY UserTurnNoLoop DEF PromiseInv
    <3>2. ASSUME NEW m \in ls, lists[d][m].open, lists[d][m].locked PROVE m = k
      <4>1. m \in Lists /\ ({m, k} \subseteq Both \/ {m, k} \subseteq {"onDone", "onFail"})
        BY <2>2
      <4> QED BY <2>2, <3>1, <3>2, <4>1, OneOpen
    <3> QED BY <3>2
  <2>4. \A m \in begun : m = k BY <1>6, <1>7, <2>3
  <2>5. (CHOOSE l \in begun : TRUE) = k BY <2>1, <2>4
  <2>6. stack' = <<Loop(d, k)>> \o stack BY <1>5, <1>9, <2>5
  <2>7. <<d, k>> \notin Running BY <2>2, RunningIs DEF PromiseInv, TypeInv
  <2>8. \A e, m : <<e, m>> \in Running' <=> <<e, m>> \in Running \/ (e = d /\ m = k)
    <3>1. ASSUME NEW e, NEW m
          PROVE  <<e, m>> \in Running' <=> <<e, m>> \in Running \/ (e = d /\ m = k)
      <4>1. <<e, m>> \in Running' <=>
               \/ <<e, m>> \in Running
               \/ e = d /\ m \in ls /\ lists[e][m].open /\ lists[e][m].locked
        BY <1>4
      <4> QED BY <2>2, <2>3, <4>1
    <3> QED BY <3>1
  <2>9. OneLoop(d, ls) BY <2>2, <2>6, <2>7, <2>8 DEF OneLoop
  <2> QED BY <1>2, <1>3, <2>9
<1> QED BY <1>8, <1>9

\* What registering does to the deferreds and the calls in progress.
LEMMA AddToKeeps ==
  ASSUME PromiseInv, UserTurn, NEW d \in Deferreds, NEW ls \in SUBSET Lists,
         ls \subseteq Both \/ ls = {"onDone", "onFail"}, NEW f \in Fn, AddTo(d, ls, f),
         state' = state, thrown' = thrown,
         \A e \in Deferreds, m \in Both : lists[e][m].open =>
           Shift(lists'[e][m], added'[e][m]) = Shift(lists[e][m], added[e][m])
  PROVE  /\ StateInv' /\ Fired' = Fired /\ stack' \in Seq(Frame)
         /\ StackOK(stack', thrown', Running', Completes, Fired')
<1>1. /\ AddedTo(d, ls, f) /\ OneLoop(d, ls)
      /\ \A e \in Deferreds, m \in Lists :
              /\ lists'[e][m].open <=> lists[e][m].open
              /\ lists'[e][m].locked <=> lists[e][m].locked
              /\ lists'[e][m].index = lists[e][m].index
  BY AddToShape
<1>2. StateInv'
  <2>1. ASSUME NEW e \in Deferreds PROVE DeferredInv(e)'
    <3>1. \A l \in Both : ~OnTop(Loop(e, l)) BY UserTurnNoLoop DEF PromiseInv
    <3>2. Calm(state[e], lists[e], added[e]) BY <3>1, CalmNow DEF PromiseInv
    <3> DEFINE ms == lists'[e]
               bs == added'[e]
    <3>3. \A m \in Lists : m = "complete" \/ ((ms[m].open <=> lists[e][m].open)
                                           /\ (ms[m].locked <=> lists[e][m].locked))
      BY <1>1
    <3>4. \A m \in Both : lists[e][m].open =>
                       /\ ms[m].index = lists[e][m].index
                       /\ Shift(ms[m], bs[m]) = Shift(lists[e][m], added[e][m])
      BY <1>1, ListNames
    <3> HIDE DEF ms, bs
    <3>5. Calm(state[e], ms, bs) BY <3>2, <3>3, <3>4, CalmSame
    <3>6. Calm(state'[e], lists'[e], added'[e]) BY <3>5 DEF ms, bs
    <3> QED BY <3>6, CalmThen
  <2> QED BY <2>1 DEF StateInv
<1>3. Fired' = Fired
  <2>1. \A y \in Requests, m \in Both : lists'[Main(y)][m].locked <=> lists[Main(y)][m].locked
    BY <1>1, Names, ListNames
  <2> QED BY <2>1 DEF Fired
<1>4. stack \in Seq(Frame) /\ StackOK(stack, thrown, Running, Completes, Fired)
  BY DEF PromiseInv, TypeInv, StackInv
<1>5. CASE stack' = stack /\ \A e, m : <<e, m>> \in Running' <=> <<e, m>> \in Running
  <2>1. StackOK(stack, thrown, Running', Completes, Fired) BY <1>4, <1>5, StackSame
  <2> QED BY <1>2, <1>3, <1>4, <1>5, <2>1
<1>6. ASSUME NEW l \in ls, stack' = <<Loop(d, l)>> \o stack, <<d, l>> \notin Running,
             \A e, m : <<e, m>> \in Running' <=> <<e, m>> \in Running \/ (e = d /\ m = l)
      PROVE  stack' \in Seq(Frame) /\ StackOK(stack', thrown, Running', Completes, Fired)
  <2>1. l \in Lists /\ l # "complete" BY DEF Both
  <2>2. Loop(d, l) \in Frame BY <2>1, Frames
  <2>3. StackOK(<<Loop(d, l)>> \o stack, thrown, Running', Completes, Fired)
    BY <1>4, <1>6, <2>1, StackLoop
  <2> QED BY <1>4, <1>6, <2>2, <2>3, Push
<1>7. \/ stack' = stack /\ \A e, m : <<e, m>> \in Running' <=> <<e, m>> \in Running
      \/ \E l \in ls : /\ stack' = <<Loop(d, l)>> \o stack /\ <<d, l>> \notin Running
                   /\ \A e, m : <<e, m>> \in Running' <=> <<e, m>> \in Running \/ (e = d /\ m = l)
  BY <1>1 DEF OneLoop
<1>8. stack' \in Seq(Frame) /\ StackOK(stack', thrown, Running', Completes, Fired)
  BY <1>4, <1>5, <1>6, <1>7
<1> QED BY <1>2, <1>3, <1>8


LEMMA RegisterKeeps ==
  ASSUME PromiseInv, NEW d \in Deferreds, NEW ls \in SUBSET Both, ls # {}, Register(d, ls)
  PROVE  PromiseInv' /\ Registered \subseteq Registered'
<1>1. /\ UserTurn /\ AddTo(d, ls, User(Fresh)) /\ Fresh <= MaxCallbacks
      /\ added' = [added EXCEPT ![d] = [l \in UserLists |-> IF l \in ls THEN Append(@[l], Fresh)
                                                            ELSE @[l]]]
      /\ UNCHANGED <<completed, transport, timer, handlers, active, endings>>
      /\ UNCHANGED <<state, depth, chained, tasks, ran, verdict, thrown>>
  BY DEF Register, ajaxVars, promiseVars
<1>2. Fresh \in Ids /\ User(Fresh) \in Fn
  <2>1. PICK n \in Nat : Fresh = n + 1 BY FreshIs DEF PromiseInv
  <2>2. Fresh \in Ids BY <1>1, <2>1, ExchangeAssumption DEF Ids
  <2> QED BY <2>2 DEF User, Fn
<1>3. ls \subseteq UserLists /\ ls \subseteq Lists /\ "complete" \notin ls
  BY ListNames DEF Both
<1>4. Grows(d, ls)
  <2>1. added \in [Deferreds -> [UserLists -> Seq(Ids)]] BY DEF PromiseInv, TypeInv
  <2> DEFINE row == [l \in UserLists |-> IF l \in ls THEN Append(added[d][l], Fresh) ELSE added[d][l]]
  <2>2. added' = [added EXCEPT ![d] = row] BY <1>1
  <2>3. row \in [UserLists -> Seq(Ids)]
    <3>1. \A l \in UserLists : added[d][l] \in Seq(Ids) BY <2>1
    <3>2. \A s \in Seq(Ids) : Append(s, Fresh) \in Seq(Ids) BY <1>2
    <3>3. \A l \in UserLists : (IF l \in ls THEN Append(added[d][l], Fresh) ELSE added[d][l]) \in Seq(Ids)
      BY <3>1, <3>2
    <3> QED BY <3>3
  <2>4. \A l \in UserLists : row[l] = IF l \in ls THEN Append(added[d][l], Fresh) ELSE added[d][l]
    OBVIOUS
  <2> HIDE DEF row
  <2>5. added' \in [Deferreds -> [UserLists -> Seq(Ids)]] BY <2>1, <2>2, <2>3
  <2>6. ASSUME NEW e \in Deferreds, NEW m \in UserLists
        PROVE  added'[e][m] = IF e = d /\ m \in ls THEN Append(added[e][m], Fresh) ELSE added[e][m]
    <3>1. CASE e = d BY <2>1, <2>2, <2>4, <3>1
    <3>2. CASE e # d BY <2>1, <2>2, <3>2
    <3> QED BY <3>1, <3>2
  <2> QED BY <2>5, <2>6 DEF Grows
<1>5. AddedTo(d, ls, User(Fresh)) BY <1>1, <1>2, <1>3, AddToShape
<1>6. /\ ListsInv'
      /\ \A e \in Deferreds, m \in Both : lists[e][m].open =>
           Shift(lists'[e][m], added'[e][m]) = Shift(lists[e][m], added[e][m])
  <2>1. ASSUME NEW e \in Deferreds, NEW m \in Lists
        PROVE  /\ ListFine(m, lists'[e][m], added'[e][m], ran'[e][m])
               /\ m \in Both /\ lists[e][m].open =>
                    Shift(lists'[e][m], added'[e][m]) = Shift(lists[e][m], added[e][m])
    <3>1. ListFine(m, lists[e][m], added[e][m], ran[e][m]) /\ lists[e][m] \in Cb
      BY DEF PromiseInv, TypeInv, ListsInv
    <3>2. CASE e = d /\ m \in ls
      <4>1. m \in UserLists /\ added[e][m] \in Seq(Ids) /\ ran[e][m] \in Seq(Ids)
        BY <1>3, <3>2 DEF PromiseInv, TypeInv
      <4>2. /\ lists'[e][m] = add(lists[e][m], <<User(Fresh)>>)
            /\ added'[e][m] = Append(added[e][m], Fresh) /\ ran'[e][m] = ran[e][m]
        BY <1>1, <1>4, <1>5, <3>2, <4>1 DEF Grows, AddedTo
      <4>3. /\ ListFine(m, add(lists[e][m], <<User(Fresh)>>), Append(added[e][m], Fresh), ran[e][m])
            /\ lists[e][m].open =>
                 Shift(add(lists[e][m], <<User(Fresh)>>), Append(added[e][m], Fresh))
                   = Shift(lists[e][m], added[e][m])
        BY <1>2, <3>1, <4>1, AddFine
      <4> QED BY <4>2, <4>3
    <3>3. CASE ~(e = d /\ m \in ls)
      <4>1. lists'[e][m] = lists[e][m] BY <1>5, <3>3 DEF AddedTo
      <4>2. m \in UserLists => added'[e][m] = added[e][m] BY <1>4, <3>3 DEF Grows
      <4>3. m \in Both \/ m = "complete" => m \in UserLists BY ListNames
      <4>4. ListFine(m, lists[e][m], added'[e][m], ran[e][m])
        BY <3>1, <4>2, <4>3 DEF ListFine
      <4> QED BY <1>1, <4>1, <4>2, <4>3, <4>4
    <3> QED BY <3>2, <3>3
  <2> QED BY <2>1, ListNames DEF ListsInv
<1>7. /\ StateInv' /\ Fired' = Fired /\ stack' \in Seq(Frame)
      /\ StackOK(stack', thrown', Running', Completes, Fired')
  BY <1>1, <1>2, <1>3, <1>6, AddToKeeps
<1>8. IdsInv' /\ Registered' = Registered \union {Fresh}
  BY <1>2, <1>3, <1>4, GrowIds DEF PromiseInv
<1>9. \A e \in Deferreds : added'[e]["complete"] = added[e]["complete"]
  BY <1>3, <1>4 DEF Grows, UserLists
<1>10. Completes' = Completes BY <1>9, Names DEF Completes
<1>11. StackInv' BY <1>7, <1>10 DEF StackInv
<1>12. RequestInv'
  <2>1. \A e \in Deferreds, m \in Lists : lists'[e][m].locked <=> lists[e][m].locked
    BY <1>1, <1>2, <1>3, AddToShape
  <2>2. \A x \in Requests, m \in UserLists : lists'[Main(x)][m].locked <=> lists[Main(x)][m].locked
    BY <2>1, Names, ListNames
  <2>3. \A x \in Requests : lists'[Derived(x)]["complete"].locked <=>
                              lists[Derived(x)]["complete"].locked
    BY <2>1, Names, ListNames
  <2>4. \A x \in Requests : added'[Main(x)]["complete"] = added[Main(x)]["complete"]
    BY <1>9, Names
  <2>5. "complete" \in UserLists BY DEF UserLists
  <2> QED BY <1>1, <2>2, <2>3, <2>4, <2>5 DEF PromiseInv, RequestInv
<1>13. TypeInv' BY <1>1, <1>4, <1>5, <1>7 DEF PromiseInv, TypeInv, AddedTo, Grows
<1> QED BY <1>6, <1>7, <1>8, <1>11, <1>12, <1>13 DEF PromiseInv

LEMMA ThenKeeps == ASSUME PromiseInv, NEW x \in Requests, then(x) PROVE PromiseInv'
<1> DEFINE d == Main(x)
           ls == {"onDone", "onFail"}
           f == Builtin("then")
<1>1. /\ UserTurn /\ AddTo(d, ls, f) /\ chained' = chained \union {x}
      /\ UNCHANGED <<completed, transport, timer, handlers, active, endings>>
      /\ UNCHANGED <<state, depth, tasks, added, ran, verdict, thrown>>
  BY DEF then, ajaxVars, history
<1>2. f \in Fn BY ExchangeAssumption DEF Builtin, Fn, Ids
<1>3. d \in Deferreds /\ ls \subseteq Lists /\ \A m \in UserLists : m \notin ls
  BY Names, ListNames
<1> HIDE DEF f, d
<1>4. /\ AddedTo(d, ls, f)
      /\ \A e \in Deferreds, m \in Lists : lists'[e][m].locked <=> lists[e][m].locked
  BY <1>1, <1>2, <1>3, AddToShape
<1>5. ListsInv'
  <2>1. ASSUME NEW e \in Deferreds, NEW m \in Lists
        PROVE  ListFine(m, lists'[e][m], added'[e][m], ran'[e][m])
    <3>1. ListFine(m, lists[e][m], added[e][m], ran[e][m]) /\ lists[e][m] \in Cb
      BY DEF PromiseInv, TypeInv, ListsInv
    <3>2. CASE e = d /\ m \in ls
      <4>1. lists'[e][m] = add(lists[e][m], <<f>>) BY <1>4, <3>2 DEF AddedTo
      <4> QED BY <1>1, <3>1, <3>2, <4>1, AddThenFine DEF f
    <3>3. CASE ~(e = d /\ m \in ls) BY <1>1, <1>4, <3>1, <3>3 DEF AddedTo
    <3> QED BY <3>2, <3>3
  <2> QED BY <2>1 DEF ListsInv
<1>6. \A e \in Deferreds, m \in Both : lists'[e][m] = lists[e][m]
  BY <1>3, <1>4, ListNames DEF AddedTo
<1>7. /\ StateInv' /\ Fired' = Fired /\ stack' \in Seq(Frame)
      /\ StackOK(stack', thrown', Running', Completes, Fired')
  BY <1>1, <1>2, <1>3, <1>6, AddToKeeps
<1>8. IdsInv' /\ Completes' = Completes BY <1>1, IdsSame DEF PromiseInv
<1>9. StackInv' BY <1>7, <1>8 DEF StackInv
<1>10. RequestInv' BY <1>1, <1>4, RequestsKept DEF PromiseInv
<1>11. TypeInv' BY <1>1, <1>4, <1>7 DEF PromiseInv, TypeInv, AddedTo
<1> QED BY <1>5, <1>7, <1>8, <1>9, <1>10, <1>11 DEF PromiseInv


(***************************************************************************)
(* $.ajax.                                                                 *)
(***************************************************************************)
\* The callbacks in progress are registered ones.
Bodies(s) == \A i \in 1 .. Len(s) : s[i].call = "body" => s[i].f \in Registered
BodiesInv == Bodies(stack)

LEMMA BodiesPush ==
  ASSUME NEW s \in Seq(Frame), Bodies(s), NEW f \in Frame,
         f.call = "body" => f.f \in Registered
  PROVE  Bodies(<<f>> \o s)
<1> DEFINE t == <<f>> \o s
<1>1. /\ Len(t) = Len(s) + 1 /\ t[1] = f /\ Len(s) \in Nat
      /\ \A i \in 2 .. Len(s) + 1 : t[i] = s[i - 1]
  BY Push
<1> HIDE DEF t
<1>2. ASSUME NEW i \in 1 .. Len(t), t[i].call = "body" PROVE t[i].f \in Registered
  <2>1. CASE i = 1 BY <1>1, <1>2, <2>1
  <2>2. CASE i # 1
    <3>1. i - 1 \in 1 .. Len(s) /\ t[i] = s[i - 1] BY <1>1, <2>2
    <3> QED BY <1>2, <3>1 DEF Bodies
  <2> QED BY <2>1, <2>2
<1> QED BY <1>2 DEF Bodies, t

LEMMA BodiesPop ==
  ASSUME NEW s \in Seq(Frame), s # <<>>, Bodies(s)
  PROVE  Bodies(Tail(s))
<1>1. Len(Tail(s)) = Len(s) - 1 /\ Len(s) \in Nat \ {0}
      /\ \A i \in 1 .. Len(s) - 1 : Tail(s)[i] = s[i + 1]
  BY Pop
<1>2. \A i \in 1 .. Len(Tail(s)) : i + 1 \in 1 .. Len(s) /\ Tail(s)[i] = s[i + 1] BY <1>1
<1> QED BY <1>2 DEF Bodies

\* A number that nobody on the calls in progress has.
LEMMA StackIds ==
  ASSUME NEW s \in Seq(Frame), NEW lost, NEW runs, NEW ids, NEW jds, NEW xs,
         StackOK(s, lost, runs, ids, xs),
         \A i \in 1 .. Len(s), x \in Requests : Finishing(x, s[i], jds) => Finishing(x, s[i], ids)
  PROVE  StackOK(s, lost, runs, jds, xs)
  BY DEF StackOK, Orderly, Decided

LEMMA NewId ==
  ASSUME TypeInv, IdsInv, NEW x \in Requests, NEW s \in Seq(Frame), Bodies(s), NEW lost, NEW runs, NEW xs, NEW jds,
         StackOK(s, lost, runs, Completes, xs),
         \A y \in Requests : jds[y] = IF y = x THEN <<Fresh>> ELSE Completes[y]
  PROVE  StackOK(s, lost, runs, jds, xs)
<1>1. PICK n \in Nat : Registered = 1 .. n /\ Fresh = n + 1 BY FreshIs
<1>2. Fresh \notin Registered BY <1>1
<1>3. ASSUME NEW i \in 1 .. Len(s), NEW y \in Requests, Finishing(y, s[i], jds)
      PROVE  Finishing(y, s[i], Completes)
  <2>1. ASSUME s[i].call = "body", jds[y] = <<s[i].f>> PROVE Completes[y] = <<s[i].f>>
    <3>1. s[i].f \in Registered BY <2>1 DEF Bodies
    <3>2. y # x
      <4>1. y = x => <<s[i].f>> = <<Fresh>> BY <2>1
      <4>2. y = x => s[i].f = Fresh BY <4>1
      <4> QED BY <1>2, <3>1, <4>2
    <3> QED BY <2>1, <3>2
  <2> QED BY <1>3, <2>1 DEF Finishing
<1> QED BY <1>3, StackIds

LEMMA AjaxKeeps ==
  ASSUME PromiseInv, BodiesInv, \A y \in Counting(stack) : completed[y] = "yes",
         NEW x \in Requests, ajax(x)
  PROVE  PromiseInv' /\ Registered \subseteq Registered'
<1> DEFINE d == Main(x)
           c == add(lists[d]["complete"], <<User(Fresh)>>)
           with == [lists EXCEPT ![d]["complete"] = c]
<1>1. /\ UserTurn /\ completed[x] = "unset" /\ Fresh <= MaxCallbacks
      /\ added' = [added EXCEPT ![d]["complete"] = Append(@, Fresh)]
      /\ UNCHANGED <<endings, state, depth, chained, tasks, ran, verdict>>
      /\ active' = active + 1
  BY DEF ajax, promiseVars
<1>2. /\ completed' \in [Requests -> {"unset", "no", "yes"}]
      /\ completed'[x] # "unset" /\ \A y \in Requests : y # x => completed'[y] = completed[y]
      /\ transport' \subseteq Requests /\ timer' \subseteq Requests /\ handlers' \subseteq Requests
      /\ thrown' \in BOOLEAN
  BY DEF ajax, PromiseInv, TypeInv
<1>3. \/ completed'[x] = "no" /\ lists' = with /\ UNCHANGED <<stack, thrown>>
      \/ /\ completed'[x] = "yes" /\ lists' = [with EXCEPT ![d]["fail"] = fireWith(@)]
         /\ stack' = <<Loop(d, "fail"), Done(x, "complete")>> \o stack /\ UNCHANGED thrown
      \/ completed'[x] = "yes" /\ lists' = with /\ stack' = <<>> /\ thrown' = TRUE
  BY DEF ajax, PromiseInv, TypeInv
<1>4. Fresh \in Ids /\ User(Fresh) \in Fn
  <2>1. PICK n \in Nat : Fresh = n + 1 BY FreshIs DEF PromiseInv
  <2>2. Fresh \in Ids BY <1>1, <2>1, ExchangeAssumption DEF Ids
  <2> QED BY <2>2 DEF User, Fn
<1>5. d \in Deferreds /\ "complete" \in UserLists /\ "complete" \in Lists /\ "complete" \notin Both
      /\ "fail" \in Both /\ "fail" \in Lists /\ "fail" \in UserLists
  BY Names DEF UserLists, Lists, Both
<1>6. Grows(d, {"complete"})
  <2> DEFINE new == Append(added[d]["complete"], Fresh)
  <2>1. added \in [Deferreds -> [UserLists -> Seq(Ids)]] BY DEF PromiseInv, TypeInv
  <2>2. new \in Seq(Ids) BY <1>4, <1>5, <2>1
  <2>3. added' = [added EXCEPT ![d]["complete"] = new] BY <1>1
  <2>4. new = Append(added[d]["complete"], Fresh) OBVIOUS
  <2> HIDE DEF new, d
  <2>5. added' \in [Deferreds -> [UserLists -> Seq(Ids)]] BY <1>5, <2>1, <2>2, <2>3
  <2>6. \A e \in Deferreds, m \in UserLists :
          added'[e][m] = IF e = d /\ m = "complete" THEN new ELSE added[e][m]
    BY <1>5, <2>1, <2>3
  <2> QED BY <2>4, <2>5, <2>6 DEF Grows
<1>7. /\ c \in Cb /\ (c.open <=> lists[d]["complete"].open)
      /\ ~c.locked /\ ~c.firing /\ ~lists[d]["complete"].firing
      /\ ListFine("complete", c, Append(added[d]["complete"], Fresh), ran[d]["complete"])
  <2> DEFINE cb == lists[d]["complete"]
  <2>1. cb \in Cb /\ ListFine("complete", cb, added[d]["complete"], ran[d]["complete"])
        /\ added[d]["complete"] \in Seq(Ids) /\ ran[d]["complete"] \in Seq(Ids)
    BY <1>5 DEF PromiseInv, TypeInv, ListsInv
  <2>2. ~cb.locked BY <1>1, <1>5 DEF PromiseInv, RequestInv
  <2>3. ListOK(cb) /\ ~cb.firing BY <2>1, <2>2 DEF ListFine, ListOK
  <2> HIDE DEF cb
  <2>4. LET b == add(cb, <<User(Fresh)>>) IN
        /\ b \in Cb /\ (b.open <=> cb.open) /\ ~b.locked /\ ~b.firing
    BY <1>4, <2>1, <2>2, <2>3, AddForm
  <2>5. ListFine("complete", add(cb, <<User(Fresh)>>), Append(added[d]["complete"], Fresh), ran[d]["complete"])
    BY <1>4, <1>5, <2>1, AddFine
  <2> QED BY <2>3, <2>4, <2>5 DEF cb
<1>8. \A m \in UserLists : ~lists[d][m].locked BY <1>1 DEF PromiseInv, RequestInv
<1>9. \A m \in Both : ~lists[d][m].locked BY <1>8, ListNames
<1>10. IdsInv' /\ Registered' = Registered \union {Fresh}
  <2>1. {"complete"} \in SUBSET UserLists /\ {"complete"} # {} BY <1>5
  <2> QED BY <1>4, <1>5, <1>6, <2>1, GrowIds DEF PromiseInv
<1>11. added[d]["complete"] = <<>> BY <1>1 DEF PromiseInv, RequestInv
<1>12. \A y \in Requests : Completes'[y] = IF y = x THEN <<Fresh>> ELSE Completes[y]
  <2>1. added'[d]["complete"] = <<Fresh>>
    <3>1. added'[d]["complete"] = Append(<<>>, Fresh) BY <1>5, <1>6, <1>11 DEF Grows
    <3>2. Append(<<>>, Fresh) = <<Fresh>> BY <1>4
    <3> QED BY <3>1, <3>2
  <2>2. \A y \in Requests : y # x => Main(y) # d /\ Main(y) \in Deferreds BY Names
  <2>3. \A y \in Requests : y # x => added'[Main(y)]["complete"] = added[Main(y)]["complete"]
    BY <1>5, <1>6, <2>2 DEF Grows
  <2> QED BY <2>1, <2>3 DEF Completes
<1>13. \A d1, l1 : ~OnTop(Loop(d1, l1)) BY <1>1, UserTurnNoLoop DEF PromiseInv
<1>14. /\ with \in [Deferreds -> [Lists -> Cb]]
       /\ \A e \in Deferreds, m \in Lists :
            with[e][m] = IF e = d /\ m = "complete" THEN c ELSE lists[e][m]
  <2>1. lists \in [Deferreds -> [Lists -> Cb]] BY DEF PromiseInv, TypeInv
  <2>2. c \in Cb BY <1>7
  <2> HIDE DEF c, d
  <2> QED BY <1>5, <2>1, <2>2
<1>15. \A e \in Deferreds, m \in Lists :
         /\ with[e][m].open <=> lists[e][m].open
         /\ with[e][m].locked <=> lists[e][m].locked
         /\ with[e][m].firing <=> lists[e][m].firing
         /\ ListFine(m, with[e][m], added'[e][m], ran'[e][m])
  <2>1. ASSUME NEW e \in Deferreds, NEW m \in Lists
        PROVE /\ with[e][m].open <=> lists[e][m].open
              /\ with[e][m].locked <=> lists[e][m].locked
              /\ with[e][m].firing <=> lists[e][m].firing
              /\ ListFine(m, with[e][m], added'[e][m], ran'[e][m])
    <3>1. CASE e = d /\ m = "complete"
      <4>1. with[e][m] = c BY <1>14, <3>1
      <4>2. added'[e][m] = Append(added[d]["complete"], Fresh) /\ ran'[e][m] = ran[d]["complete"]
        BY <1>1, <1>5, <1>6, <3>1 DEF Grows
      <4> HIDE DEF c, with, d
      <4> QED BY <1>5, <1>7, <1>8, <3>1, <4>1, <4>2
    <3>2. CASE ~(e = d /\ m = "complete")
      <4>1. with[e][m] = lists[e][m] BY <1>14, <3>2
      <4>2. m \in UserLists => added'[e][m] = added[e][m] BY <1>6, <3>2 DEF Grows
      <4>3. ListFine(m, lists[e][m], added[e][m], ran[e][m]) BY DEF PromiseInv, ListsInv
      <4>4. ListFine(m, lists[e][m], added'[e][m], ran'[e][m])
        BY <1>1, <1>5, <4>2, <4>3 DEF ListFine
      <4> HIDE DEF with
      <4> QED BY <4>1, <4>4
    <3> QED BY <3>1, <3>2
  <2> QED BY <2>1
<1>16. \A e \in Deferreds, m \in Both : with[e][m] = lists[e][m] /\ added'[e][m] = added[e][m]
  BY <1>5, <1>6, <1>14, ListNames DEF Grows
<1>17. stack \in Seq(Frame) /\ StackOK(stack, thrown, Running, Completes, Fired)
  BY DEF PromiseInv, TypeInv, StackInv
<1> HIDE DEF with, c, d
\* What is left to show when it is known what became of the lists.
<1>18. ASSUME StateInv', StackInv', ListsInv', lists' \in [Deferreds -> [Lists -> Cb]],
              stack' \in Seq(Frame),
              completed'[x] = "no" => \A m \in UserLists : ~lists'[d][m].locked,
              \A e \in Deferreds, m \in Lists : (e = d /\ m \in Both) \/
                (lists'[e][m].locked <=> lists[e][m].locked)
       PROVE  PromiseInv'
  <2>1. RequestInv'
    <3>1. ASSUME NEW y \in Requests
          PROVE  /\ completed'[y] = "unset" => added'[Main(y)]["complete"] = <<>>
                 /\ Len(added'[Main(y)]["complete"]) <= 1
                 /\ completed'[y] # "yes" => \A m \in UserLists : ~lists'[Main(y)][m].locked
                 /\ lists'[Main(y)]["complete"].locked => state'[Main(y)] # "pending"
                 /\ ~lists'[Derived(y)]["complete"].locked
      <4>1. /\ Main(y) \in Deferreds /\ Derived(y) \in Deferreds /\ Derived(y) # d
            /\ Main(y) = d => y = x
            /\ y = x => Main(y) = d
        BY Names DEF d
      <4>2. /\ lists'[Derived(y)]["complete"].locked <=> lists[Derived(y)]["complete"].locked
            /\ lists'[Main(y)]["complete"].locked <=> lists[Main(y)]["complete"].locked
        BY <1>5, <1>18, <4>1
      <4>3. CASE y = x
        <5>1. Completes'[y] = <<Fresh>> BY <1>12, <4>3
        <5>2. added'[Main(y)]["complete"] = <<Fresh>> BY <5>1 DEF Completes
        <5>3. Len(added'[Main(y)]["complete"]) <= 1 BY <5>2
        <5>4. completed'[y] # "yes" => completed'[y] = "no" BY <1>2, <4>3
        <5> QED BY <1>1, <1>2, <1>18, <4>1, <4>2, <4>3, <5>3, <5>4 DEF PromiseInv, RequestInv
      <4>4. CASE y # x
        <5>1. Completes'[y] = Completes[y] BY <1>12, <4>4
        <5>2. added'[Main(y)]["complete"] = added[Main(y)]["complete"] BY <5>1 DEF Completes
        <5>3. \A m \in UserLists : lists'[Main(y)][m].locked <=> lists[Main(y)][m].locked
          BY <1>18, <4>1, <4>4, ListNames
        <5> QED BY <1>1, <1>2, <4>2, <4>4, <5>2, <5>3 DEF PromiseInv, RequestInv
      <4> QED BY <4>3, <4>4
    <3> QED BY <3>1 DEF RequestInv
  <2>2. TypeInv'
    <3>1. added' \in [Deferreds -> [UserLists -> Seq(Ids)]] BY <1>6 DEF Grows
    <3>2. active' \in Int BY <1>1 DEF PromiseInv, TypeInv
    <3> QED BY <1>1, <1>2, <1>18, <3>1, <3>2 DEF PromiseInv, TypeInv
  <2> QED BY <1>10, <1>18, <2>1, <2>2 DEF PromiseInv
<1>19. ASSUME lists' = with
       PROVE  /\ StateInv' /\ ListsInv' /\ lists' \in [Deferreds -> [Lists -> Cb]]
              /\ Fired' = Fired /\ \A e, m : <<e, m>> \in Running' <=> <<e, m>> \in Running
              /\ \A e \in Deferreds, m \in Lists : lists'[e][m].locked <=> lists[e][m].locked
  <2>1. ListsInv' BY <1>15, <1>19 DEF ListsInv
  <2>2. ASSUME NEW e \in Deferreds PROVE DeferredInv(e)'
    <3>1. Calm(state[e], lists[e], added[e]) BY <1>13, CalmNow DEF PromiseInv
    <3> DEFINE ms == lists'[e]
               bs == added'[e]
    <3>2. \A m \in Lists : m = "complete" \/ ((ms[m].open <=> lists[e][m].open)
                                           /\ (ms[m].locked <=> lists[e][m].locked))
      BY <1>15, <1>19
    <3>3. \A m \in Both : /\ ms[m].index = lists[e][m].index
                          /\ Shift(ms[m], bs[m]) = Shift(lists[e][m], added[e][m])
      BY <1>16, <1>19
    <3> HIDE DEF ms, bs
    <3>4. Calm(state[e], ms, bs) BY <3>1, <3>2, <3>3, CalmSame
    <3>5. Calm(state'[e], lists'[e], added'[e]) BY <1>1, <3>4 DEF ms, bs
    <3> QED BY <3>5, CalmThen
  <2>3. StateInv' BY <2>2 DEF StateInv
  <2>4. lists' \in [Deferreds -> [Lists -> Cb]] BY <1>14, <1>19
  <2>5. ASSUME NEW e, NEW m PROVE <<e, m>> \in Running' <=> <<e, m>> \in Running
    <3>1. <<e, m>> \in Running <=> e \in Deferreds /\ m \in Lists /\ lists[e][m].firing
      BY RunningIs DEF PromiseInv, TypeInv
    <3>2. <<e, m>> \in Running' <=> e \in Deferreds /\ m \in Lists /\ lists'[e][m].firing
      BY <2>4, RunningIs
    <3> QED BY <1>15, <1>19, <3>1, <3>2
  <2>6. Fired' = Fired
    <3>1. \A y \in Requests, m \in Both : lists'[Main(y)][m].locked <=> lists[Main(y)][m].locked
      BY <1>15, <1>19, Names, ListNames
    <3> QED BY <3>1 DEF Fired
  <2> QED BY <1>15, <1>19, <2>1, <2>3, <2>4, <2>5, <2>6
<1>20. CASE completed'[x] = "no" /\ lists' = with /\ UNCHANGED <<stack, thrown>>
  <2>1. StackOK(stack, thrown, Running', Completes, Fired) BY <1>17, <1>19, <1>20, StackSame
  <2>2. StackOK(stack, thrown, Running', Completes', Fired)
    BY <1>12, <1>17, <2>1, NewId DEF PromiseInv, BodiesInv
  <2>3. StackInv' BY <1>19, <1>20, <2>2 DEF StackInv
  <2>4. \A m \in UserLists : ~lists'[d][m].locked BY <1>5, <1>8, <1>19, <1>20, ListNames
  <2> QED BY <1>10, <1>17, <1>18, <1>19, <1>20, <2>3, <2>4
<1>21. CASE completed'[x] = "yes" /\ lists' = with /\ stack' = <<>> /\ thrown' = TRUE
  <2>1. StackInv' BY <1>21, StackEmpty DEF StackInv
  <2>2. stack' \in Seq(Frame) BY <1>21
  <2> QED BY <1>10, <1>18, <1>19, <1>21, <2>1, <2>2
<1>22. CASE /\ completed'[x] = "yes" /\ lists' = [with EXCEPT ![d]["fail"] = fireWith(@)]
            /\ stack' = <<Loop(d, "fail"), Done(x, "complete")>> \o stack /\ UNCHANGED thrown
  <2> DEFINE cb == lists[d]["fail"]
             g == fireWith(cb)
  <2>1. with[d]["fail"] = cb BY <1>5, <1>16
  <2>2. cb \in Cb /\ ListFine("fail", cb, added[d]["fail"], ran[d]["fail"]) /\ ListOK(cb)
    BY <1>5 DEF PromiseInv, TypeInv, ListsInv, ListFine
  <2>3. /\ g \in Cb /\ g.firing /\ g.index = cb.index /\ (g.open <=> cb.open)
        /\ ListFine("fail", g, added[d]["fail"], ran[d]["fail"])
        /\ Shift(g, added[d]["fail"]) = Shift(cb, added[d]["fail"]) /\ g.locked
    BY <1>5, <1>9, <2>2, FireForm, FireFine
  <2>4. lists' = [with EXCEPT ![d]["fail"] = g] BY <1>22, <2>1
  <2> HIDE DEF cb, g
  <2>5. /\ lists' \in [Deferreds -> [Lists -> Cb]]
        /\ \A e \in Deferreds, m \in Lists :
             lists'[e][m] = IF e = d /\ m = "fail" THEN g ELSE with[e][m]
    BY <1>5, <1>14, <2>3, <2>4
  <2>6. ListsInv'
    <3>1. ASSUME NEW e \in Deferreds, NEW m \in Lists
          PROVE  ListFine(m, lists'[e][m], added'[e][m], ran'[e][m])
      <4>1. CASE e = d /\ m = "fail"
        <5>1. added'[e][m] = added[d]["fail"] BY <1>5, <1>16, <4>1
        <5> QED BY <1>1, <2>3, <2>5, <4>1, <5>1
      <4>2. CASE ~(e = d /\ m = "fail") BY <1>15, <2>5, <4>2
      <4> QED BY <4>1, <4>2
    <3> QED BY <3>1 DEF ListsInv
  <2>7. ASSUME NEW e \in Deferreds, NEW m \in Lists
        PROVE  /\ lists'[e][m].open <=> lists[e][m].open
               /\ (e = d /\ m = "fail") \/ (lists'[e][m].locked <=> lists[e][m].locked)
               /\ lists[e][m].locked => lists'[e][m].locked
    <3>1. CASE e = d /\ m = "fail" BY <2>3, <2>5, <3>1 DEF cb
    <3>2. CASE ~(e = d /\ m = "fail") BY <1>15, <2>5, <3>2
    <3> QED BY <3>1, <3>2
  <2>8. ASSUME NEW e \in Deferreds, NEW m \in Both
        PROVE  /\ lists'[e][m].index = lists[e][m].index
               /\ Shift(lists'[e][m], added'[e][m]) = Shift(lists[e][m], added[e][m])
    <3>1. m \in Lists BY ListNames
    <3>2. CASE e = d /\ m = "fail"
      <4>1. added'[e][m] = added[d]["fail"] BY <1>16, <3>2
      <4> QED BY <2>3, <2>5, <3>1, <3>2, <4>1 DEF cb
    <3>3. CASE ~(e = d /\ m = "fail") BY <1>16, <2>5, <3>1, <3>3
    <3> QED BY <3>2, <3>3
  <2>9. ASSUME NEW e, NEW m
        PROVE  <<e, m>> \in Running' <=> <<e, m>> \in Running \/ (e = Main(x) /\ m = "fail")
    <3>1. <<e, m>> \in Running <=> e \in Deferreds /\ m \in Lists /\ lists[e][m].firing
      BY RunningIs DEF PromiseInv, TypeInv
    <3>2. <<e, m>> \in Running' <=> e \in Deferreds /\ m \in Lists /\ lists'[e][m].firing
      BY <2>5, RunningIs
    <3>3. CASE e = d /\ m = "fail" BY <1>5, <2>3, <2>5, <3>2, <3>3 DEF d
    <3>4. CASE ~(e = d /\ m = "fail") BY <1>15, <2>5, <3>1, <3>2, <3>4 DEF d
    <3> QED BY <3>3, <3>4
  <2>10. Fired \subseteq Fired' /\ x \in Fired'
    <3>1. \A y \in Requests, m \in Both : lists[Main(y)][m].locked => lists'[Main(y)][m].locked
      BY <2>7, Names, ListNames
    <3>2. lists'[Main(x)]["fail"].locked BY <1>5, <2>3, <2>5 DEF d
    <3> QED BY <1>5, <3>1, <3>2 DEF Fired
  <2>11. /\ StackOK(Ending(x, "fail"), thrown, Running', Completes, Fired')
         /\ Ending(x, "fail") \in Seq(Frame) /\ Ending(x, "fail") # <<>>
         /\ Head(Ending(x, "fail")) = Loop(Main(x), "fail")
    <3>1. completed[x] # "yes" /\ "fail" \in Both BY <1>1, <1>5
    <3> QED BY <2>9, <2>10, <3>1, OutcomeCalled
  <2>12. stack' = Ending(x, "fail")
    <3> DEFINE a == Loop(d, "fail")
               b == Done(x, "complete")
               s == stack
    <3>1. a \in Frame /\ b \in Frame /\ s \in Seq(Frame) BY <1>5, <1>17, Frames
    <3> HIDE DEF a, b, s
    <3>4. <<a>> \in Seq(Frame) /\ <<b>> \in Seq(Frame) /\ Len(<<a>>) = 1 /\ <<a>>[1] = a
          /\ Len(<<b>>) = 1 /\ <<b>>[1] = b
      BY <3>1
    <3>5. <<a>> \o <<b>> \in Seq(Frame) /\ Len(<<a>> \o <<b>>) = 2
          /\ (<<a>> \o <<b>>)[1] = a /\ (<<a>> \o <<b>>)[2] = b
      BY <3>4
    <3>6. <<a, b>> \in Seq(Frame) /\ Len(<<a, b>>) = 2 /\ <<a, b>>[1] = a /\ <<a, b>>[2] = b
      BY <3>1
    <3>7. ASSUME NEW u \in Seq(Frame), NEW v \in Seq(Frame), Len(u) = 2, Len(v) = 2,
                 u[1] = v[1], u[2] = v[2]
          PROVE  u = v
      <4>1. \A i \in 1 .. 2 : u[i] = v[i] BY <3>7
      <4> QED BY <3>7, <4>1
    <3>8. <<a, b>> = <<a>> \o <<b>> BY <3>5, <3>6, <3>7
    <3>2. <<a, b>> = <<a>> \o <<b>> /\ <<a>> \in Seq(Frame) /\ <<b>> \in Seq(Frame)
      BY <3>4, <3>8
    <3>3. (<<a>> \o <<b>>) \o s = <<a>> \o (<<b>> \o s) BY <3>1, <3>2
    <3> QED BY <1>22, <3>2, <3>3 DEF Ending, a, b, s, d
  <2>13. Bodies(Ending(x, "fail"))
    <3>1. Done(x, "complete") \in Frame /\ Done(x, "complete").call # "body"
          /\ Loop(Main(x), "fail") \in Frame /\ Loop(Main(x), "fail").call # "body"
      BY <1>5, Names, Frames
    <3> DEFINE t == <<Done(x, "complete")>> \o stack
    <3>2. t \in Seq(Frame) /\ Bodies(t) BY <1>17, <3>1, Push, BodiesPush DEF BodiesInv
    <3> HIDE DEF t
    <3>3. Bodies(<<Loop(Main(x), "fail")>> \o t) BY <3>1, <3>2, BodiesPush
    <3> QED BY <3>3 DEF t, Ending
  <2>14. StackOK(Ending(x, "fail"), thrown, Running', Completes', Fired')
    BY <1>12, <2>11, <2>13, NewId DEF PromiseInv
  <2>15. StackInv' BY <1>22, <2>12, <2>14 DEF StackInv
  <2>16. StateInv'
    <3>1. stack' # <<>> /\ Head(stack') = Loop(d, "fail") BY <2>11, <2>12 DEF d
    <3>2. lists'[d]["fail"].firing /\ (lists'[d]["fail"].open <=> lists[d]["fail"].open)
      BY <1>5, <2>3, <2>5, <2>7
    <3>3. \A e \in Deferreds, m \in Lists : (e = d /\ m = "fail") \/ m = "complete" \/
            ((lists'[e][m].open <=> lists[e][m].open) /\ (lists'[e][m].locked <=> lists[e][m].locked))
      BY <2>7
    <3>4. state' = state /\ "fail" \in Both /\ d \in Deferreds BY <1>1, <1>5
    <3> QED BY <1>9, <1>13, <2>8, <3>1, <3>2, <3>3, <3>4, FiredState
  <2>17. stack' \in Seq(Frame) BY <2>11, <2>12
  <2>18. \A e \in Deferreds, m \in Lists : (e = d /\ m \in Both) \/
                (lists'[e][m].locked <=> lists[e][m].locked)
    BY <1>5, <2>7
  <2> QED BY <1>10, <1>18, <1>22, <2>5, <2>6, <2>15, <2>16, <2>17, <2>18
<1> QED BY <1>3, <1>10, <1>20, <1>21, <1>22


(***************************************************************************)
(* The initial states.                                                     *)
(***************************************************************************)
LEMMA Endings == Answered \subseteq How /\ Cancelled \subseteq How
<1>1. ASSUME NEW H PROVE Ends(H) \subseteq How
  <2> DEFINE F(o, called) == {Told(Prepared(o), h, called).outcome :
                                h \in Hears(Prepared(o)) \intersect H}
  <2>1. \A o, called : F(o, called) \subseteq How
    <3>1. \A s, h, called : Told(s, h, called).outcome \in How BY DEF Told, How
    <3> QED BY <3>1
  <2>2. Ends(H) = UNION {F(o, called) : o \in Options, called \in BOOLEAN} BY DEF Ends
  <2> HIDE DEF F
  <2> QED BY <2>1, <2>2
<1> QED BY <1>1 DEF Answered, Cancelled

LEMMA FirstLists ==
  /\ Deferred \in [Lists -> Cb]
  /\ \A l \in Lists : ListFine(l, Deferred[l], <<>>, <<>>) /\ ~Deferred[l].locked
                      /\ Deferred[l].open /\ ~Deferred[l].firing /\ Deferred[l].index = 0
  /\ \A l \in Both : Shift(Deferred[l], <<>>) = -2
<1> DEFINE e == Callbacks(TRUE, TRUE)
           p == <<Builtin("settle"), Builtin("fireHandlers")>>
           c == add(e, p)
<1>1. p \in Seq(Fn) /\ Len(p) = 2 /\ p[1] = Builtin("settle") /\ p[2] = Builtin("fireHandlers")
  BY ExchangeAssumption DEF Builtin, Fn, Ids
<1>2. <<>> \in Seq(Fn) /\ Len(<<>>) = 0 OBVIOUS
<1>3. /\ e \in Cb /\ e.list = <<>> /\ e.open /\ e.queue = 0 /\ e.index = 0 /\ ~e.firing
      /\ ~e.memory /\ ~e.locked /\ e.once /\ e.keeps
  BY <1>2 DEF Callbacks, Cb
<1>4. <<>> \o p = p
  <2> HIDE DEF p
  <2> QED BY <1>1
<1>5. c = [e EXCEPT !.list = p] BY <1>3, <1>4 DEF add
<1> HIDE DEF p, c, e
<1>6. /\ c \in Cb /\ c.list = p /\ c.open /\ c.queue = 0 /\ c.index = 0 /\ ~c.firing
      /\ ~c.memory /\ ~c.locked /\ c.once /\ c.keeps
  BY <1>1, <1>3, <1>5 DEF Cb
<1>7. ListOK(c) /\ ListOK(e) BY <1>1, <1>2, <1>3, <1>6 DEF ListOK
<1>8. Shift(c, <<>>) = -2 /\ Shift(e, <<>>) = 0 BY <1>1, <1>2, <1>3, <1>6 DEF Shift
<1>9. Begins(<<>>, <<>>) BY <1>2 DEF Begins
<1>10. Follows(c, <<>>, <<>>)
  <2>0. /\ Len(c.list) = 2 /\ c.list[1] = Builtin("settle")
        /\ c.list[2] = Builtin("fireHandlers")
    BY <1>1, <1>6
  <2>1. Guarded(c, <<>>) BY <2>0, <1>8 DEF Guarded
  <2>2. Ends2(c, <<>>)
    <3>1. \A i \in 1 .. 2 : ~(i + (-2) >= 1) OBVIOUS
    <3> QED BY <2>0, <3>1, <1>8 DEF Ends2
  <2>3. InStep(c, <<>>, <<>>) BY <1>2, <1>6, <1>8 DEF InStep
  <2> QED BY <1>6, <1>9, <2>1, <2>2, <2>3 DEF Follows
<1>11. Follows(e, <<>>, <<>>)
  <2>1. Guarded(e, <<>>) BY <1>8 DEF Guarded
  <2>2. Ends2(e, <<>>) BY <1>2, <1>3 DEF Ends2
  <2>3. InStep(e, <<>>, <<>>) BY <1>2, <1>3, <1>8 DEF InStep
  <2> QED BY <1>3, <1>9, <2>1, <2>2, <2>3 DEF Follows
<1>12. \A l \in Lists : Deferred[l] = IF l \in Both THEN c ELSE e
  BY DEF Deferred, Both, c, e, p
<1>13. Deferred \in [Lists -> Cb]
  <2>1. \A l \in Lists : Deferred[l] \in Cb BY <1>3, <1>6, <1>12
  <2>2. DOMAIN Deferred = Lists BY DEF Deferred
  <2>3. Deferred = [l \in Lists |-> Deferred[l]] BY DEF Deferred
  <2> QED BY <2>1, <2>3
<1>14. ASSUME NEW l \in Lists PROVE ListFine(l, Deferred[l], <<>>, <<>>)
  <2>1. CASE l \in Both
    <3>1. l # "complete" /\ l \notin {"onDone", "onFail"} BY <2>1, ListNames DEF Both
    <3> QED BY <1>7, <1>10, <1>12, <2>1, <3>1 DEF ListFine
  <2>2. CASE l \notin Both
    <3>1. Deferred[l] = e BY <1>12, <2>2
    <3> QED BY <1>2, <1>3, <1>7, <1>8, <1>11, <3>1 DEF ListFine
  <2> QED BY <2>1, <2>2
<1> QED BY <1>3, <1>6, <1>8, <1>12, <1>13, <1>14, ListNames

LEMMA InitInv == Init => Inv /\ BodiesInv
<1> SUFFICES ASSUME Init PROVE Inv /\ BodiesInv OBVIOUS
<1>1. /\ lists = [d \in Deferreds |-> Deferred] /\ stack = <<>>
      /\ state = [d \in Deferreds |-> "pending"] /\ completed = [x \in Requests |-> "unset"]
      /\ transport = {} /\ timer = {} /\ handlers = {} /\ active = 0 /\ thrown = FALSE
      /\ added = [d \in Deferreds |-> [l \in UserLists |-> <<>>]]
      /\ ran = [d \in Deferreds |-> [l \in UserLists |-> <<>>]]
      /\ depth = [x \in Requests |-> 0] /\ chained = {} /\ tasks = {}
      /\ verdict = [x \in Requests |-> [at \in 0 .. MaxDepth |-> "none"]]
  BY DEF Init
<1>2. <<>> \in Seq(Frame) /\ <<>> \in Seq(Ids) /\ Len(<<>>) = 0 OBVIOUS
<1>3. \A d \in Deferreds, l \in UserLists : added[d][l] = <<>> /\ ran[d][l] = <<>> BY <1>1
<1>4. \A d \in Deferreds : lists[d] = Deferred BY <1>1
<1>5. TypeInv
  <2>1. endings \in [answer : SUBSET How, abort : SUBSET How] BY Endings DEF Init
  <2>2. 0 \in 0 .. MaxDepth BY ExchangeAssumption
  <2>3. lists \in [Deferreds -> [Lists -> Cb]] BY <1>1, FirstLists
  <2>4. /\ added \in [Deferreds -> [UserLists -> Seq(Ids)]]
        /\ ran \in [Deferreds -> [UserLists -> Seq(Ids)]]
    <3> DEFINE row == [l \in UserLists |-> <<>>]
    <3>1. row \in [UserLists -> Seq(Ids)] BY <1>2
    <3>2. added = [d \in Deferreds |-> row] /\ ran = [d \in Deferreds |-> row] BY <1>1
    <3> HIDE DEF row
    <3> QED BY <3>1, <3>2
  <2>5. verdict \in [Requests -> [0 .. MaxDepth -> {"none"} \union Results]]
    <3> DEFINE row == [at \in 0 .. MaxDepth |-> "none"]
    <3>1. row \in [0 .. MaxDepth -> {"none"} \union Results] OBVIOUS
    <3>2. verdict = [x \in Requests |-> row] BY <1>1
    <3> HIDE DEF row
    <3> QED BY <3>1, <3>2
  <2>6. depth \in [Requests -> 0 .. MaxDepth] BY <1>1, <2>2
  <2>7. /\ state \in [Deferreds -> {"pending", "done", "fail"}]
        /\ completed \in [Requests -> {"unset", "no", "yes"}]
        /\ stack \in Seq(Frame) /\ active \in Int /\ thrown \in BOOLEAN
    <3>1. state \in [Deferreds -> {"pending", "done", "fail"}] BY <1>1
    <3>2. completed \in [Requests -> {"unset", "no", "yes"}] BY <1>1
    <3>3. stack \in Seq(Frame) BY <1>1, <1>2
    <3>4. active \in Int /\ thrown \in BOOLEAN
      <4>1. active \in Int BY <1>1
      <4>2. thrown \in BOOLEAN BY ONLY <1>1
      <4> QED BY <4>1, <4>2
    <3> QED BY <3>1, <3>2, <3>3, <3>4
  <2>8. /\ transport \subseteq Requests /\ timer \subseteq Requests /\ handlers \subseteq Requests
        /\ chained \subseteq Requests /\ tasks \subseteq [x : Requests, ok : BOOLEAN]
    BY <1>1
  <2> QED BY <2>1, <2>3, <2>4, <2>5, <2>6, <2>7, <2>8 DEF TypeInv
<1>6. ListsInv
  <2>1. ASSUME NEW d \in Deferreds, NEW l \in Lists
        PROVE  ListFine(l, lists[d][l], added[d][l], ran[d][l])
    <3>1. ListFine(l, Deferred[l], <<>>, <<>>) BY FirstLists
    <3>2. "complete" \in UserLists BY DEF UserLists
    <3> QED BY <1>3, <1>4, <3>1, <3>2 DEF ListFine
  <2> QED BY <2>1 DEF ListsInv
<1>7. StateInv
  <2>1. ASSUME NEW d \in Deferreds, NEW l \in Both
        PROVE  /\ state[d] = "pending" /\ l # "pending"
               /\ Untouched(lists[d], added[d], l) /\ ~lists[d][l].locked
    BY <1>1, <1>3, <1>4, FirstLists, ListNames DEF Untouched, Both
  <2> QED BY <2>1 DEF StateInv, DeferredInv
<1>8. StackInv
  <2>1. Running = {} BY <1>4, FirstLists DEF Running
  <2>2. StackOK(<<>>, FALSE, {}, Completes, Fired)
    BY <1>2 DEF StackOK, Orderly, Distinct, Covered, Decided
  <2> QED BY <1>1, <2>1, <2>2 DEF StackInv
<1>9. IdsInv
  <2>1. Registered = {} BY <1>2, <1>3, <1>5, Places DEF TypeInv
  <2>2. Registered = 1 .. 0 /\ 0 \in Nat BY <2>1
  <2>3. \A x \in Requests : added[Main(x)]["complete"] = <<>>
    BY <1>3, Names, ListNames DEF UserLists
  <2> QED BY <1>2, <2>2, <2>3 DEF IdsInv
<1>10. RequestInv
  <2>1. \A x \in Requests : added[Main(x)]["complete"] = <<>>
    BY <1>3, Names, ListNames DEF UserLists
  <2> QED BY <1>2, <1>4, <2>1, FirstLists, Names, ListNames DEF RequestInv, UserLists
<1>11. AjaxInv
  <2>1. OpenRequests = {} /\ {x \in Requests : completed[x] # "unset"} = {}
    BY <1>1 DEF OpenRequests
  <2>2. Counting(stack) = {} BY <1>1, <1>2 DEF Counting
  <2>3. Cardinality({}) = 0 BY FS_EmptySet
  <2>4. OpenRequests \union Counting(stack) = {} BY <2>1, <2>2
  <2>5. Cardinality(OpenRequests \union Counting(stack)) = 0
        /\ Cardinality({x \in Requests : completed[x] # "unset"}) = 0
    BY <2>1, <2>3, <2>4
  <2>6. active = 0 /\ transport = {} /\ timer = {} /\ handlers = {} BY <1>1
  <2> QED BY <2>1, <2>2, <2>5, <2>6 DEF AjaxInv
<1>12. VerdictInv
  <2>1. \A x \in Requests, l \in Both : ~lists[Derived(x)][l].locked
    BY <1>4, FirstLists, Names, ListNames
  <2>2. \A at \in 0 .. MaxDepth : ~(at < 0) BY ExchangeAssumption
  <2> QED BY <1>1, <2>1, <2>2 DEF VerdictInv
<1>13. BodiesInv BY <1>1, <1>2 DEF BodiesInv, Bodies
<1> QED BY <1>5, <1>6, <1>7, <1>8, <1>9, <1>10, <1>11, <1>12, <1>13 DEF Inv, PromiseInv


(***************************************************************************)
(* Which requests are in the done() that ends them, and which callbacks    *)
(* are in progress.                                                        *)
(***************************************************************************)
\* A call begins.
LEMMA CountingPush ==
  ASSUME NEW s \in Seq(Frame), NEW f \in Frame
  PROVE  Counting(<<f>> \o s) = IF f.call = "done" THEN Counting(s) \union {f.x} ELSE Counting(s)
<1> DEFINE t == <<f>> \o s
<1>1. /\ Len(t) = Len(s) + 1 /\ t[1] = f /\ Len(s) \in Nat
      /\ \A i \in 1 .. Len(s) : t[i + 1] = s[i]
      /\ \A i \in 2 .. Len(s) + 1 : t[i] = s[i - 1]
  BY Push
<1>2. f.call = "done" => f.x \in Requests BY Frames
<1> HIDE DEF t
<1>3. ASSUME NEW x \in Requests
      PROVE  x \in Counting(t) <=> x \in Counting(s) \/ (f.call = "done" /\ f.x = x)
  <2>1. ASSUME x \in Counting(t) PROVE x \in Counting(s) \/ (f.call = "done" /\ f.x = x)
    <3>1. PICK i \in 1 .. Len(t) : t[i].call = "done" /\ t[i].x = x BY <2>1 DEF Counting
    <3>2. CASE i = 1 BY <1>1, <3>1, <3>2
    <3>3. CASE i # 1
      <4>1. i - 1 \in 1 .. Len(s) /\ t[i] = s[i - 1] BY <1>1, <3>3
      <4> QED BY <3>1, <4>1 DEF Counting
    <3> QED BY <3>2, <3>3
  <2>2. ASSUME x \in Counting(s) PROVE x \in Counting(t)
    <3>1. PICK i \in 1 .. Len(s) : s[i].call = "done" /\ s[i].x = x BY <2>2 DEF Counting
    <3>2. i + 1 \in 1 .. Len(t) /\ t[i + 1] = s[i] BY <1>1
    <3> QED BY <3>1, <3>2 DEF Counting
  <2>3. ASSUME f.call = "done", f.x = x PROVE x \in Counting(t)
    <3>1. 1 \in 1 .. Len(t) BY <1>1
    <3> QED BY <1>1, <2>3, <3>1 DEF Counting
  <2> QED BY <2>1, <2>2, <2>3
<1>4. Counting(t) \subseteq Requests /\ Counting(s) \subseteq Requests BY DEF Counting
<1>5. Counting(t) = IF f.call = "done" THEN Counting(s) \union {f.x} ELSE Counting(s)
  BY <1>2, <1>3, <1>4
<1> QED BY <1>5 DEF t

\* A call returns: there is no other of the same done().
LEMMA CountingPop ==
  ASSUME NEW s \in Seq(Frame), s # <<>>, Distinct(s)
  PROVE  /\ Head(s).call = "done" => /\ Head(s).x \in Counting(s)
                                     /\ Counting(Tail(s)) = Counting(s) \ {Head(s).x}
         /\ Head(s).call # "done" => Counting(Tail(s)) = Counting(s)
<1> DEFINE t == Tail(s)
<1>1. /\ Len(t) = Len(s) - 1 /\ Len(s) \in Nat \ {0} /\ Head(s) = s[1] /\ s[1] \in Frame
      /\ \A i \in 1 .. Len(s) - 1 : t[i] = s[i + 1]
  BY Pop
<1> HIDE DEF t
<1>2. s[1].call = "done" => s[1].x \in Requests BY <1>1, Frames
<1>3. 1 \in 1 .. Len(s) BY <1>1
<1>4. \A i \in 1 .. Len(t) : i + 1 \in 1 .. Len(s) /\ t[i] = s[i + 1] BY <1>1
<1>5. \A i \in 1 .. Len(s) : i = 1 \/ (i - 1 \in 1 .. Len(t) /\ t[i - 1] = s[i]) BY <1>1
<1>6. ASSUME NEW x \in Requests
      PROVE  x \in Counting(s) <=> x \in Counting(t) \/ (s[1].call = "done" /\ s[1].x = x)
  <2>1. ASSUME x \in Counting(s) PROVE x \in Counting(t) \/ (s[1].call = "done" /\ s[1].x = x)
    <3>1. PICK i \in 1 .. Len(s) : s[i].call = "done" /\ s[i].x = x BY <2>1 DEF Counting
    <3> QED BY <1>5, <3>1 DEF Counting
  <2>2. x \in Counting(t) => x \in Counting(s) BY <1>4 DEF Counting
  <2>3. s[1].call = "done" /\ s[1].x = x => x \in Counting(s) BY <1>3 DEF Counting
  <2> QED BY <2>1, <2>2, <2>3
<1>7. ASSUME s[1].call = "done", s[1].x \in Counting(t) PROVE FALSE
  <2>1. PICK i \in 1 .. Len(t) : t[i].call = "done" /\ t[i].x = s[1].x BY <1>7 DEF Counting
  <2>2. i + 1 \in 1 .. Len(s) /\ s[i + 1].call = "done" /\ s[i + 1].x = s[1].x BY <1>4, <2>1
  <2>3. Same(s[1], s[i + 1]) BY <1>7, <2>2 DEF Same
  <2>4. 1 = i + 1 BY <1>3, <2>2, <2>3 DEF Distinct
  <2> QED BY <2>4
<1>8. Counting(t) \subseteq Requests /\ Counting(s) \subseteq Requests BY DEF Counting
<1>9. CASE s[1].call = "done"
  <2>1. s[1].x \in Counting(s) /\ s[1].x \notin Counting(t) BY <1>2, <1>6, <1>7, <1>9
  <2>2. Counting(t) = Counting(s) \ {s[1].x} BY <1>6, <1>8, <1>9, <2>1
  <2> QED BY <1>1, <1>9, <2>1, <2>2 DEF t
<1>10. CASE s[1].call # "done"
  <2>1. Counting(t) = Counting(s) BY <1>6, <1>8, <1>10
  <2> QED BY <1>1, <1>10, <2>1 DEF t
<1> QED BY <1>9, <1>10

LEMMA CountingEmpty == Counting(<<>>) = {} /\ Bodies(<<>>)
<1>1. Len(<<>>) = 0 OBVIOUS
<1> QED BY <1>1 DEF Counting, Bodies

LEMMA CountingEnding ==
  ASSUME TypeInv, NEW x \in Requests, NEW l \in Both
  PROVE  /\ Counting(Ending(x, l)) = Counting(stack) \union {x}
         /\ Bodies(stack) => Bodies(Ending(x, l))
<1> DEFINE f == Loop(Main(x), l)
           g == Done(x, "complete")
           t == <<g>> \o stack
<1>1. /\ f \in Frame /\ f.call = "loop" /\ g \in Frame /\ g.call = "done" /\ g.x = x
  BY Names, ListNames, Frames
<1> HIDE DEF f, g
<1>2. stack \in Seq(Frame) BY DEF TypeInv
<1>3. t \in Seq(Frame) /\ Counting(t) = Counting(stack) \union {x} BY <1>1, <1>2, Push, CountingPush
<1>4. Bodies(stack) => Bodies(t) BY <1>1, <1>2, BodiesPush
<1> HIDE DEF t
<1>5. Counting(<<f>> \o t) = Counting(t) BY <1>1, <1>3, CountingPush
<1>6. Bodies(t) => Bodies(<<f>> \o t) BY <1>1, <1>3, BodiesPush
<1>7. Ending(x, l) = <<f>> \o t BY DEF Ending, f, g, t
<1> QED BY <1>3, <1>4, <1>5, <1>6, <1>7

\* A step in which no done() begins or ends.
Quiet ==
  \/ stack' = stack
  \/ stack # <<>> /\ stack' = Tail(stack) /\ Head(stack).call # "done"
  \/ \E f \in Frame : /\ f.call # "done" /\ (f.call = "body" => f.f \in Registered)
                      /\ stack' = <<f>> \o stack

LEMMA BodiesGrow ==
  ASSUME NEW s \in Seq(Frame), Bodies(s), stack' = s, Registered \subseteq Registered'
  PROVE  BodiesInv'
  BY DEF Bodies, BodiesInv

LEMMA QuietKeeps ==
  ASSUME PromiseInv, BodiesInv, Quiet, Registered \subseteq Registered'
  PROVE  BodiesInv' /\ Counting(stack') = Counting(stack)
<1>1. stack \in Seq(Frame) /\ Bodies(stack) /\ Distinct(stack)
  BY DEF PromiseInv, TypeInv, BodiesInv, StackInv, StackOK, Orderly
<1>2. CASE stack' = stack BY <1>1, <1>2, BodiesGrow
<1>3. CASE stack # <<>> /\ stack' = Tail(stack) /\ Head(stack).call # "done"
  <2>1. Tail(stack) \in Seq(Frame) /\ Bodies(Tail(stack)) BY <1>1, <1>3, Pop, BodiesPop
  <2> QED BY <1>1, <1>3, <2>1, BodiesGrow, CountingPop
<1>4. ASSUME NEW f \in Frame, f.call # "done", f.call = "body" => f.f \in Registered,
             stack' = <<f>> \o stack
      PROVE  BodiesInv' /\ Counting(stack') = Counting(stack)
  <2>1. <<f>> \o stack \in Seq(Frame) /\ Bodies(<<f>> \o stack) BY <1>1, <1>4, Push, BodiesPush
  <2>2. BodiesInv' BY <1>4, <2>1, BodiesGrow
  <2> QED BY <1>1, <1>4, <2>2, CountingPush
<1> QED BY <1>2, <1>3, <1>4 DEF Quiet

\* The steps of this kind.
LEMMA CallNextQuiet == ASSUME PromiseInv, CallNext PROVE Quiet
<1> DEFINE d == Top.d
           l == Top.l
           cb == lists[d][l]
           f == NextCall(cb)
<1>1. CallBy(d, l, cb, f) BY CallShape
<1>2. /\ d \in Deferreds /\ l \in Lists /\ cb \in Cb /\ ListOK(cb) /\ cb.firing /\ HasCall(cb)
      /\ ListFine(l, cb, added[d][l], ran[d][l])
  BY <1>1 DEF CallBy, ListFine
<1>3. \/ f.kind = "user" /\ stack' = <<Body(f.id)>> \o stack
      \/ stack' = stack
      \/ f.kind = "fireHandlers" /\ stack' = <<Loop(d, Handlers(l))>> \o stack
  BY DEF CallNext
<1>4. CASE f.kind = "user" /\ stack' = <<Body(f.id)>> \o stack
  <2>1. l \in UserLists
    <3>1. l \in {"onDone", "onFail"} => f.kind = "then"
      <4>1. cb.index + 1 \in 1 .. Len(cb.list) BY <1>2 DEF HasCall, Cb
      <4>2. l \in {"onDone", "onFail"} => f = Builtin("then") BY <1>2, <4>1 DEF ListFine, NextCall
      <4> QED BY <4>2 DEF Builtin
    <3> QED BY <1>2, <1>4, <3>1, ListNames
  <2>2. added[d][l] \in Seq(Ids) /\ ran[d][l] \in Seq(Ids) BY <1>1, <2>1 DEF CallBy
  <2>3. Follows(cb, added[d][l], ran[d][l]) BY <1>2, <2>1 DEF ListFine
  <2> HIDE DEF cb, d, l
  <2>4. /\ Len(ran[d][l]) < Len(added[d][l]) /\ f.id = added[d][l][Len(ran[d][l]) + 1]
        /\ f.id \in Ids
    BY <1>2, <1>4, <2>2, <2>3, FollowsCall
  <2>5. Len(ran[d][l]) + 1 \in 1 .. Len(added[d][l]) BY <2>2, <2>4
  <2>6. f.id \in Registered BY <1>2, <2>1, <2>4, <2>5, Places DEF PromiseInv, TypeInv
  <2>7. Body(f.id) \in Frame /\ Body(f.id).call = "body" /\ Body(f.id).f = f.id BY <2>4, Frames
  <2> QED BY <1>4, <2>6, <2>7 DEF Quiet
<1>5. CASE f.kind = "fireHandlers" /\ stack' = <<Loop(d, Handlers(l))>> \o stack
  <2>1. Handlers(l) \in Lists BY DEF Handlers, Lists
  <2>2. Loop(d, Handlers(l)) \in Frame /\ Loop(d, Handlers(l)).call = "loop"
    BY <1>2, <2>1, Frames
  <2> QED BY <1>5, <2>2 DEF Quiet
<1> QED BY <1>3, <1>4, <1>5 DEF Quiet

LEMMA LoopTurnsQuiet == ASSUME PromiseInv, LoopTurns PROVE Quiet
<1>1. stack # <<>> /\ Head(stack).call = "loop" BY DEF LoopTurns, In, Top
<1>2. stack' = stack \/ stack' = Tail(stack) BY DEF LoopTurns
<1> QED BY <1>1, <1>2 DEF Quiet

LEMMA ReturnQuiet == ASSUME Return PROVE Quiet
  BY DEF Return, In, Top, Quiet

LEMMA AddToQuiet ==
  ASSUME PromiseInv, NEW d \in Deferreds, NEW ls \in SUBSET Lists, NEW f, AddTo(d, ls, f)
  PROVE  Quiet
<1> DEFINE begun == {l \in ls : lists'[d][l].firing /\ ~lists[d][l].firing}
<1>1. stack' = IF begun = {} THEN stack ELSE <<Loop(d, CHOOSE l \in begun : TRUE)>> \o stack
  BY DEF AddTo
<1>2. begun \subseteq Lists OBVIOUS
<1> HIDE DEF begun
<1>3. begun # {} => (CHOOSE l \in begun : TRUE) \in Lists BY <1>2
<1>4. \A l \in Lists : Loop(d, l) \in Frame /\ Loop(d, l).call = "loop" BY Frames
<1> QED BY <1>1, <1>3, <1>4 DEF Quiet

LEMMA ResolveQuiet ==
  ASSUME PromiseInv, Idle, NEW x \in Requests, NEW at, NEW result, resolve(x, at, result)
  PROVE  Quiet
<1> DEFINE d == Derived(x)
           l == IF result = "value" THEN "done" ELSE "fail"
<1>1. d \in Deferreds /\ l \in Lists BY Names DEF Lists
<1>2. Loop(d, l) \in Frame /\ Loop(d, l).call = "loop" BY <1>1, Frames
<1>3. stack' = <<>> \/ stack' = <<Loop(d, l)>> \o <<>> BY DEF resolve, Operate
<1> HIDE DEF d, l
<1>4. stack = <<>> BY DEF Idle
<1> QED BY <1>2, <1>3, <1>4 DEF Quiet


(***************************************************************************)
(* jQuery.active and the sets it counts: o the requests that are sent, c   *)
(* those in the done() that ends them, a those that were begun.            *)
(***************************************************************************)
Counts(o, c, a, n, lost) ==
  /\ n >= Cardinality(o \union c) /\ n <= Cardinality(a)
  /\ lost \/ n = Cardinality(o \union c)

LEMMA Finite ==
  ASSUME NEW s \in SUBSET Requests
  PROVE  /\ IsFiniteSet(s) /\ Cardinality(s) \in Nat
         /\ \A x \in Requests : /\ x \notin s => Cardinality(s \union {x}) = Cardinality(s) + 1
                                /\ x \in s => Cardinality(s \ {x}) = Cardinality(s) - 1
         /\ \A t \in SUBSET s : Cardinality(t) \in Nat /\ Cardinality(t) <= Cardinality(s)
<1>1. IsFiniteSet(s) BY ExchangeAssumption, FS_Subset
<1>2. Cardinality(s) \in Nat BY <1>1, FS_CardinalityType
<1>3. ASSUME NEW x \in Requests, x \notin s PROVE Cardinality(s \union {x}) = Cardinality(s) + 1
  BY <1>1, <1>3, FS_AddElement
<1>4. ASSUME NEW x \in Requests, x \in s PROVE Cardinality(s \ {x}) = Cardinality(s) - 1
  BY <1>1, <1>4, FS_RemoveElement
<1>5. ASSUME NEW t \in SUBSET s PROVE Cardinality(t) \in Nat /\ Cardinality(t) <= Cardinality(s)
  BY <1>1, FS_Subset, FS_CardinalityType
<1> QED BY <1>1, <1>2, <1>3, <1>4, <1>5

\* A request begins, one that was sent is over, and done() is through.
LEMMA CountsMove ==
  ASSUME NEW o \in SUBSET Requests, NEW c \in SUBSET Requests, NEW a \in SUBSET Requests,
         o \union c \subseteq a, NEW n \in Int, NEW lost \in BOOLEAN, Counts(o, c, a, n, lost),
         NEW x \in Requests
  PROVE  /\ x \notin a => /\ Counts(o \union {x}, c, a \union {x}, n + 1, lost)
                          /\ Counts(o, c \union {x}, a \union {x}, n + 1, lost)
                          /\ Counts(o, {}, a \union {x}, n + 1, TRUE)
         /\ x \in o => /\ Counts(o \ {x}, c \union {x}, a, n, lost)
                       /\ Counts(o \ {x}, {}, a, n, TRUE)
         /\ x \in c /\ x \notin o => Counts(o, c \ {x}, a, n - 1, lost)
         /\ Counts(o, {}, a, n, TRUE)
<1> DEFINE u == o \union c
<1>1. /\ u \in SUBSET Requests /\ u \in SUBSET a /\ o \in SUBSET u /\ o \ {x} \in SUBSET u
      /\ o \union {} = o /\ (o \ {x}) \union {} = o \ {x}
      /\ (o \union {x}) \union c = u \union {x} /\ o \union (c \union {x}) = u \union {x}
  OBVIOUS
<1>2. x \in o => (o \ {x}) \union (c \union {x}) = u OBVIOUS
<1>3. x \in c /\ x \notin o => o \union (c \ {x}) = u \ {x} /\ x \in u OBVIOUS
<1>4. n >= Cardinality(u) /\ n <= Cardinality(a) /\ (lost \/ n = Cardinality(u)) BY DEF Counts
<1>5. x \notin a => x \notin u OBVIOUS
<1> HIDE DEF u
<1>6. /\ Cardinality(u) \in Nat /\ Cardinality(a) \in Nat
      /\ Cardinality(o) \in Nat /\ Cardinality(o) <= Cardinality(u)
      /\ Cardinality(o \ {x}) \in Nat /\ Cardinality(o \ {x}) <= Cardinality(u)
      /\ x \notin u => Cardinality(u \union {x}) = Cardinality(u) + 1
      /\ x \in u => Cardinality(u \ {x}) = Cardinality(u) - 1
      /\ x \notin a => Cardinality(a \union {x}) = Cardinality(a) + 1
  BY <1>1, Finite
<1>7. ASSUME x \notin a
      PROVE  /\ Counts(o \union {x}, c, a \union {x}, n + 1, lost)
             /\ Counts(o, c \union {x}, a \union {x}, n + 1, lost)
             /\ Counts(o, {}, a \union {x}, n + 1, TRUE)
  <2>1. /\ Cardinality((o \union {x}) \union c) = Cardinality(u) + 1
        /\ Cardinality(o \union (c \union {x})) = Cardinality(u) + 1
        /\ Cardinality(o \union {}) = Cardinality(o)
        /\ Cardinality(a \union {x}) = Cardinality(a) + 1
    BY <1>1, <1>5, <1>6, <1>7
  <2>2. Counts(o \union {x}, c, a \union {x}, n + 1, lost) BY <1>4, <1>6, <2>1 DEF Counts
  <2>3. Counts(o, c \union {x}, a \union {x}, n + 1, lost) BY <1>4, <1>6, <2>1 DEF Counts
  <2>4. Counts(o, {}, a \union {x}, n + 1, TRUE) BY <1>4, <1>6, <2>1 DEF Counts
  <2> QED BY <2>2, <2>3, <2>4
<1>8. ASSUME x \in o
      PROVE  Counts(o \ {x}, c \union {x}, a, n, lost) /\ Counts(o \ {x}, {}, a, n, TRUE)
  <2>1. /\ Cardinality((o \ {x}) \union (c \union {x})) = Cardinality(u)
        /\ Cardinality((o \ {x}) \union {}) = Cardinality(o \ {x})
    BY <1>1, <1>2, <1>8
  <2>2. Counts(o \ {x}, c \union {x}, a, n, lost) BY <1>4, <1>6, <2>1 DEF Counts
  <2>3. Counts(o \ {x}, {}, a, n, TRUE) BY <1>4, <1>6, <2>1 DEF Counts
  <2> QED BY <2>2, <2>3
<1>9. ASSUME x \in c, x \notin o PROVE Counts(o, c \ {x}, a, n - 1, lost)
  BY <1>3, <1>4, <1>6, <1>9 DEF Counts
<1>10. Counts(o, {}, a, n, TRUE) BY <1>1, <1>4, <1>6 DEF Counts
<1> QED BY <1>7, <1>8, <1>9, <1>10

Begun == {x \in Requests : completed[x] # "unset"}
LEMMA AjaxIs ==
  /\ AjaxInv <=> /\ transport = OpenRequests /\ timer = OpenRequests /\ handlers = OpenRequests
                 /\ \A x \in Counting(stack) : completed[x] = "yes"
                 /\ Counts(OpenRequests, Counting(stack), Begun, active, thrown)
  /\ OpenRequests \subseteq Requests /\ Counting(stack) \subseteq Requests /\ Begun \subseteq Requests
  /\ AjaxInv => OpenRequests \union Counting(stack) \subseteq Begun
<1>1. AjaxInv <=> /\ transport = OpenRequests /\ timer = OpenRequests /\ handlers = OpenRequests
                  /\ \A x \in Counting(stack) : completed[x] = "yes"
                  /\ Counts(OpenRequests, Counting(stack), Begun, active, thrown)
  BY DEF AjaxInv, Counts, Begun
<1>2. OpenRequests \subseteq Requests /\ Counting(stack) \subseteq Requests /\ Begun \subseteq Requests
  BY DEF OpenRequests, Counting, Begun
<1>3. AjaxInv => OpenRequests \union Counting(stack) \subseteq Begun
  BY <1>1, <1>2 DEF OpenRequests, Begun
<1> QED BY <1>1, <1>2, <1>3

LEMMA AjaxThen ==
  ASSUME transport' = OpenRequests', timer' = OpenRequests', handlers' = OpenRequests',
         \A x \in Counting(stack') : completed'[x] = "yes",
         Counts(OpenRequests', Counting(stack'), Begun', active', thrown')
  PROVE  AjaxInv'
  BY DEF AjaxInv, Counts, Begun

\* What completed says.
LEMMA Completed ==
  ASSUME TypeInv, NEW x \in Requests
  PROVE  /\ completed' = [completed EXCEPT ![x] = "no"] =>
              OpenRequests' = OpenRequests \union {x} /\ Begun' = Begun \union {x}
         /\ completed' = [completed EXCEPT ![x] = "yes"] =>
              OpenRequests' = OpenRequests \ {x} /\ Begun' = Begun \union {x}
         /\ completed' = completed => OpenRequests' = OpenRequests /\ Begun' = Begun
<1>1. completed \in [Requests -> {"unset", "no", "yes"}] BY DEF TypeInv
<1>2. ASSUME completed' = [completed EXCEPT ![x] = "no"]
      PROVE  OpenRequests' = OpenRequests \union {x} /\ Begun' = Begun \union {x}
  <2>1. \A y \in Requests : completed'[y] = IF y = x THEN "no" ELSE completed[y]
    BY <1>1, <1>2
  <2> QED BY <2>1 DEF OpenRequests, Begun
<1>3. ASSUME completed' = [completed EXCEPT ![x] = "yes"]
      PROVE  OpenRequests' = OpenRequests \ {x} /\ Begun' = Begun \union {x}
  <2>1. \A y \in Requests : completed'[y] = IF y = x THEN "yes" ELSE completed[y]
    BY <1>1, <1>3
  <2> QED BY <2>1 DEF OpenRequests, Begun
<1> QED BY <1>2, <1>3 DEF OpenRequests, Begun


LEMMA TwoCalls ==
  ASSUME NEW a \in Frame, NEW b \in Frame, NEW s \in Seq(Frame)
  PROVE  <<a, b>> \o s = <<a>> \o (<<b>> \o s)
<1>1. <<a>> \in Seq(Frame) /\ <<b>> \in Seq(Frame) /\ Len(<<a>>) = 1 /\ <<a>>[1] = a
      /\ Len(<<b>>) = 1 /\ <<b>>[1] = b
  OBVIOUS
<1>2. <<a>> \o <<b>> \in Seq(Frame) /\ Len(<<a>> \o <<b>>) = 2
      /\ (<<a>> \o <<b>>)[1] = a /\ (<<a>> \o <<b>>)[2] = b
  BY <1>1
<1>3. <<a, b>> \in Seq(Frame) /\ Len(<<a, b>>) = 2 /\ <<a, b>>[1] = a /\ <<a, b>>[2] = b
  OBVIOUS
<1>4. ASSUME NEW u \in Seq(Frame), NEW v \in Seq(Frame), Len(u) = 2, Len(v) = 2,
             u[1] = v[1], u[2] = v[2]
      PROVE  u = v
  <2>1. \A i \in 1 .. 2 : u[i] = v[i] BY <1>4
  <2> QED BY <1>4, <2>1
<1>5. <<a, b>> = <<a>> \o <<b>> BY <1>2, <1>3, <1>4
<1>6. (<<a>> \o <<b>>) \o s = <<a>> \o (<<b>> \o s) BY <1>1
<1> QED BY <1>5, <1>6

\* $.ajax: the request is sent, or send() threw.
LEMMA AjaxCounts ==
  ASSUME PromiseInv, AjaxInv, BodiesInv, NEW x \in Requests, ajax(x), Registered \subseteq Registered'
  PROVE  AjaxInv' /\ BodiesInv'
<1>1. TypeInv /\ stack \in Seq(Frame) /\ Bodies(stack) BY DEF PromiseInv, TypeInv, BodiesInv
<1>2. /\ transport = OpenRequests /\ timer = OpenRequests /\ handlers = OpenRequests
      /\ \A y \in Counting(stack) : completed[y] = "yes"
      /\ Counts(OpenRequests, Counting(stack), Begun, active, thrown)
      /\ OpenRequests \subseteq Requests /\ Counting(stack) \subseteq Requests /\ Begun \subseteq Requests
      /\ OpenRequests \union Counting(stack) \subseteq Begun
  BY AjaxIs
<1>3. /\ completed[x] = "unset" /\ active' = active + 1
      /\ active \in Int /\ thrown \in BOOLEAN /\ completed \in [Requests -> {"unset", "no", "yes"}]
  BY DEF ajax, PromiseInv, TypeInv
<1>4. x \notin Begun /\ x \notin OpenRequests BY <1>3 DEF Begun, OpenRequests
<1>5. /\ Counts(OpenRequests \union {x}, Counting(stack), Begun \union {x}, active + 1, thrown)
      /\ Counts(OpenRequests, Counting(stack) \union {x}, Begun \union {x}, active + 1, thrown)
      /\ Counts(OpenRequests, {}, Begun \union {x}, active + 1, TRUE)
  <2>1. OpenRequests \in SUBSET Requests /\ Counting(stack) \in SUBSET Requests
        /\ Begun \in SUBSET Requests /\ OpenRequests \union Counting(stack) \subseteq Begun
        /\ active \in Int /\ thrown \in BOOLEAN /\ x \in Requests
        /\ Counts(OpenRequests, Counting(stack), Begun, active, thrown)
    BY <1>2, <1>3
  <2>2. /\ x \notin Begun => /\ Counts(OpenRequests \union {x}, Counting(stack), Begun \union {x}, active + 1, thrown)
                             /\ Counts(OpenRequests, Counting(stack) \union {x}, Begun \union {x}, active + 1, thrown)
                             /\ Counts(OpenRequests, {}, Begun \union {x}, active + 1, TRUE)
    BY ONLY <2>1, CountsMove
  <2> QED BY <1>4, <2>2
<1>6. CASE /\ completed' = [completed EXCEPT ![x] = "no"]
           /\ transport' = transport \union {x} /\ timer' = timer \union {x}
           /\ handlers' = handlers \union {x} /\ UNCHANGED <<stack, thrown>>
  <2>1. OpenRequests' = OpenRequests \union {x} /\ Begun' = Begun \union {x}
    BY <1>1, <1>6, Completed
  <2>2. \A y \in Counting(stack') : completed'[y] = "yes" BY <1>2, <1>3, <1>6
  <2>3. Counts(OpenRequests', Counting(stack'), Begun', active', thrown')
    BY <1>3, <1>5, <1>6, <2>1
  <2>4. transport' = OpenRequests' /\ timer' = OpenRequests' /\ handlers' = OpenRequests'
    BY <1>2, <1>6, <2>1
  <2>5. AjaxInv' BY <2>2, <2>3, <2>4, AjaxThen
  <2> QED BY <1>1, <1>6, <2>5, BodiesGrow
<1>7. ASSUME completed' = [completed EXCEPT ![x] = "yes"], UNCHANGED <<transport, timer, handlers>>
      PROVE  /\ OpenRequests' = OpenRequests /\ Begun' = Begun \union {x}
             /\ transport' = OpenRequests' /\ timer' = OpenRequests' /\ handlers' = OpenRequests'
             /\ \A y \in Counting(stack) \union {x} : completed'[y] = "yes"
  <2>1. OpenRequests' = OpenRequests \ {x} /\ Begun' = Begun \union {x}
    BY <1>1, <1>7, Completed
  <2>2. OpenRequests' = OpenRequests BY <1>4, <2>1
  <2>3. \A y \in Counting(stack) \union {x} : completed'[y] = "yes" BY <1>2, <1>3, <1>7
  <2> QED BY <1>2, <1>7, <2>1, <2>2, <2>3
<1>8. CASE /\ completed' = [completed EXCEPT ![x] = "yes"]
           /\ stack' = <<Loop(Main(x), "fail"), Done(x, "complete")>> \o stack
           /\ UNCHANGED <<transport, timer, handlers, thrown>>
  <2>1. "fail" \in Both /\ Loop(Main(x), "fail") \in Frame /\ Done(x, "complete") \in Frame
    BY Names, Frames DEF Both, Lists
  <2>2. stack' = Ending(x, "fail") BY <1>1, <1>8, <2>1, TwoCalls DEF Ending
  <2>3. Counting(stack') = Counting(stack) \union {x} /\ Bodies(Ending(x, "fail"))
    BY <1>1, <2>1, <2>2, CountingEnding
  <2>4. Counts(OpenRequests', Counting(stack'), Begun', active', thrown')
    BY <1>3, <1>5, <1>7, <1>8, <2>3
  <2>5. AjaxInv' BY <1>7, <1>8, <2>3, <2>4, AjaxThen
  <2>6. Ending(x, "fail") \in Seq(Frame)
    <3> DEFINE t == <<Done(x, "complete")>> \o stack
    <3>1. t \in Seq(Frame) BY <1>1, <2>1, Push
    <3> HIDE DEF t
    <3>2. <<Loop(Main(x), "fail")>> \o t \in Seq(Frame) BY <2>1, <3>1, Push
    <3> QED BY <3>2 DEF Ending, t
  <2> QED BY <2>2, <2>3, <2>5, <2>6, BodiesGrow
<1>9. CASE /\ completed' = [completed EXCEPT ![x] = "yes"] /\ stack' = <<>> /\ thrown' = TRUE
           /\ UNCHANGED <<transport, timer, handlers>>
  <2>1. Counting(stack') = {} /\ Bodies(<<>>) /\ <<>> \in Seq(Frame) BY <1>9, CountingEmpty
  <2>2. Counts(OpenRequests', Counting(stack'), Begun', active', thrown')
    BY <1>3, <1>5, <1>7, <1>9, <2>1
  <2>3. AjaxInv' BY <1>7, <1>9, <2>1, <2>2, AjaxThen
  <2> QED BY <1>9, <2>1, <2>3, BodiesGrow
<1> QED BY <1>6, <1>8, <1>9 DEF ajax

\* The end of a request: it is silent, and counted until done() is through.
LEMMA DoneCounts ==
  ASSUME PromiseInv, AjaxInv, BodiesInv, NEW x \in Requests, completed[x] # "unset",
         NEW how \in How, done(x, how, stack),
         handlers' = IF x \in OpenRequests THEN handlers \ {x} ELSE handlers,
         UNCHANGED <<active, added>>
  PROVE  AjaxInv' /\ BodiesInv'
<1>1. TypeInv /\ stack \in Seq(Frame) /\ Bodies(stack) BY DEF PromiseInv, TypeInv, BodiesInv
<1>2. /\ transport = OpenRequests /\ timer = OpenRequests /\ handlers = OpenRequests
      /\ \A y \in Counting(stack) : completed[y] = "yes"
      /\ Counts(OpenRequests, Counting(stack), Begun, active, thrown)
      /\ OpenRequests \subseteq Requests /\ Counting(stack) \subseteq Requests /\ Begun \subseteq Requests
      /\ OpenRequests \union Counting(stack) \subseteq Begun
  BY AjaxIs
<1>3. Registered' = Registered BY DEF Registered
<1>4. /\ active \in Int /\ thrown \in BOOLEAN /\ completed \in [Requests -> {"unset", "no", "yes"}]
  BY DEF PromiseInv, TypeInv
<1>5. CASE completed[x] = "yes"
  <2>1. UNCHANGED <<completed, timer, transport, thrown, stack>> BY <1>5 DEF done
  <2>2. x \notin OpenRequests BY <1>5 DEF OpenRequests
  <2>3. OpenRequests' = OpenRequests /\ Begun' = Begun BY <1>1, <2>1, Completed
  <2>4. AjaxInv' BY <1>2, <2>1, <2>2, <2>3, AjaxThen
  <2> QED BY <1>1, <1>3, <2>1, <2>4, BodiesGrow
<1>6. CASE completed[x] # "yes"
  <2>1. completed[x] = "no" /\ x \in OpenRequests /\ x \in Begun
    BY <1>4, <1>6 DEF OpenRequests, Begun
  <2>2. /\ completed' = [completed EXCEPT ![x] = "yes"]
        /\ timer' = timer \ {x} /\ transport' = transport \ {x} /\ handlers' = handlers \ {x}
    BY <1>6, <2>1 DEF done
  <2>3. OpenRequests' = OpenRequests \ {x} /\ Begun' = Begun
    <3>1. OpenRequests' = OpenRequests \ {x} /\ Begun' = Begun \union {x}
      BY <1>1, <2>2, Completed
    <3>2. Begun \union {x} = Begun BY <2>1
    <3> QED BY <3>1, <3>2
  <2>4. transport' = OpenRequests' /\ timer' = OpenRequests' /\ handlers' = OpenRequests'
    BY <1>2, <2>2, <2>3
  <2>5. \A y \in Counting(stack) \union {x} : completed'[y] = "yes" BY <1>2, <1>4, <2>2
  <2>6. /\ Counts(OpenRequests \ {x}, Counting(stack) \union {x}, Begun, active, thrown)
        /\ Counts(OpenRequests \ {x}, {}, Begun, active, TRUE)
    <3>1. OpenRequests \in SUBSET Requests /\ Counting(stack) \in SUBSET Requests
        /\ Begun \in SUBSET Requests /\ OpenRequests \union Counting(stack) \subseteq Begun
        /\ active \in Int /\ thrown \in BOOLEAN /\ x \in Requests
        /\ Counts(OpenRequests, Counting(stack), Begun, active, thrown)
      BY <1>2, <1>4
    <3>2. x \in OpenRequests =>
            /\ Counts(OpenRequests \ {x}, Counting(stack) \union {x}, Begun, active, thrown)
            /\ Counts(OpenRequests \ {x}, {}, Begun, active, TRUE)
      BY ONLY <3>1, CountsMove
    <3> QED BY <2>1, <3>2
  <2>7. CASE how = "throws"
    <3>1. thrown' = TRUE /\ stack' = <<>> BY <1>6, <2>7 DEF done
    <3>2. Counting(stack') = {} /\ Bodies(<<>>) /\ <<>> \in Seq(Frame) BY <3>1, CountingEmpty
    <3>3. Counts(OpenRequests', Counting(stack'), Begun', active', thrown')
      BY <2>3, <2>6, <3>1, <3>2
    <3>4. AjaxInv' BY <2>4, <3>2, <3>3, AjaxThen
    <3> QED BY <1>3, <3>1, <3>2, <3>4, BodiesGrow
  <2>8. CASE how # "throws"
    <3>1. how \in Both /\ Main(x) \in Deferreds /\ how \in Lists
      BY <2>8, Names, ListNames DEF How, Both
    <3>2. Operate(Main(x), how, fireWith, <<Done(x, "complete")>> \o stack) /\ thrown' = thrown
      BY <1>6, <2>8 DEF done
    <3>3. ~lists[Main(x)][how].locked BY <1>6, <3>1, ListNames DEF PromiseInv, RequestInv
    <3>4. stack' = Ending(x, how)
      <4> DEFINE t == <<Done(x, "complete")>> \o stack
      <4>1. Operate(Main(x), how, fireWith, t) BY <3>2
      <4> HIDE DEF t
      <4>2. stack' = IF lists[Main(x)][how].locked THEN t ELSE <<Loop(Main(x), how)>> \o t
        BY <3>1, <4>1, OperateShape DEF PromiseInv
      <4> QED BY <3>3, <4>2 DEF t, Ending
    <3>5. Counting(stack') = Counting(stack) \union {x} /\ Bodies(Ending(x, how))
      BY <1>1, <3>1, <3>4, CountingEnding
    <3>6. Counts(OpenRequests', Counting(stack'), Begun', active', thrown')
      BY <2>3, <2>6, <3>2, <3>5
    <3>7. AjaxInv' BY <2>4, <2>5, <3>5, <3>6, AjaxThen
    <3>8. Ending(x, how) \in Seq(Frame)
      <4>1. Loop(Main(x), how) \in Frame /\ Done(x, "complete") \in Frame BY <3>1, Frames
      <4> DEFINE t == <<Done(x, "complete")>> \o stack
      <4>2. t \in Seq(Frame) BY <1>1, <4>1, Push
      <4> HIDE DEF t
      <4>3. <<Loop(Main(x), how)>> \o t \in Seq(Frame) BY <4>1, <4>2, Push
      <4> QED BY <4>3 DEF Ending, t
    <3> QED BY <1>3, <3>4, <3>5, <3>7, <3>8, BodiesGrow
  <2> QED BY <2>7, <2>8
<1> QED BY <1>5, <1>6

LEMMA CompleteCounts ==
  ASSUME PromiseInv, AjaxInv, BodiesInv, doneComplete
  PROVE  AjaxInv' /\ BodiesInv'
<1> DEFINE x == Top.x
           g == Done(x, "finish")
           f == Loop(Main(x), "complete")
           t == <<g>> \o Tail(stack)
<1>1. /\ stack \in Seq(Frame) /\ stack # <<>> /\ Top = Head(stack) /\ Top.call = "done"
      /\ Bodies(stack) /\ Distinct(stack) /\ TypeInv
  BY DEF PromiseInv, TypeInv, StackInv, StackOK, Orderly, BodiesInv, doneComplete, In, Top
<1>2. x \in Requests /\ Main(x) \in Deferreds /\ "complete" \in Lists
  BY CompleteNext DEF Lists
<1>3. /\ g \in Frame /\ g.call = "done" /\ g.x = x /\ f \in Frame /\ f.call = "loop"
  BY <1>2, Frames
<1>4. Operate(Main(x), "complete", fireWith, t) /\ UNCHANGED <<ajaxVars, added, thrown>>
  BY DEF doneComplete, history
<1>5. Tail(stack) \in Seq(Frame) /\ Bodies(Tail(stack)) BY <1>1, Pop, BodiesPop
<1>6. x \in Counting(stack) /\ Counting(Tail(stack)) = Counting(stack) \ {x}
  BY <1>1, CountingPop
<1> HIDE DEF g, f, x
<1>7. t \in Seq(Frame) /\ Bodies(t) BY <1>3, <1>5, Push, BodiesPush
<1>8. Counting(t) = Counting(stack)
  <2>1. Counting(t) = Counting(Tail(stack)) \union {x} BY <1>3, <1>5, CountingPush
  <2> QED BY <1>6, <2>1
<1> HIDE DEF t
<1>9. stack' = IF lists[Main(x)]["complete"].locked THEN t ELSE <<f>> \o t
  BY <1>1, <1>2, <1>4, OperateShape DEF PromiseInv, f
<1>10. Bodies(<<f>> \o t) /\ <<f>> \o t \in Seq(Frame) /\ Counting(<<f>> \o t) = Counting(t)
  BY <1>3, <1>7, BodiesPush, Push, CountingPush
<1>11. Registered' = Registered BY <1>4 DEF Registered
<1>12. BodiesInv' /\ Counting(stack') = Counting(stack)
  BY <1>7, <1>8, <1>9, <1>10, <1>11, BodiesGrow
<1>13. AjaxInv'
  <2>1. OpenRequests' = OpenRequests /\ Begun' = Begun BY <1>4 DEF OpenRequests, Begun, ajaxVars
  <2> QED BY <1>4, <1>12, <2>1, AjaxIs, AjaxThen DEF ajaxVars
<1> QED BY <1>12, <1>13

LEMMA FinishCounts ==
  ASSUME PromiseInv, AjaxInv, BodiesInv, doneFinish
  PROVE  AjaxInv' /\ BodiesInv'
<1> DEFINE x == Head(stack).x
<1>1. /\ stack \in Seq(Frame) /\ stack # <<>> /\ Head(stack).call = "done"
      /\ Bodies(stack) /\ Distinct(stack) /\ TypeInv
  BY DEF PromiseInv, TypeInv, StackInv, StackOK, Orderly, BodiesInv, doneFinish, In, Top
<1>2. /\ active' = active - 1 /\ stack' = Tail(stack)
      /\ UNCHANGED <<completed, transport, timer, handlers, added, thrown>>
  BY DEF doneFinish, history
<1>3. Tail(stack) \in Seq(Frame) /\ Bodies(Tail(stack)) BY <1>1, Pop, BodiesPop
<1>4. x \in Counting(stack) /\ Counting(Tail(stack)) = Counting(stack) \ {x}
  BY <1>1, CountingPop
<1>5. Registered' = Registered BY <1>2 DEF Registered
<1>6. BodiesInv' BY <1>2, <1>3, <1>5, BodiesGrow
<1>7. /\ transport = OpenRequests /\ timer = OpenRequests /\ handlers = OpenRequests
      /\ \A y \in Counting(stack) : completed[y] = "yes"
      /\ Counts(OpenRequests, Counting(stack), Begun, active, thrown)
      /\ OpenRequests \subseteq Requests /\ Counting(stack) \subseteq Requests /\ Begun \subseteq Requests
      /\ OpenRequests \union Counting(stack) \subseteq Begun
  BY AjaxIs
<1> HIDE DEF x
<1>8. x \in Requests /\ x \notin OpenRequests BY <1>4, <1>7 DEF OpenRequests
<1>9. active \in Int /\ thrown \in BOOLEAN BY <1>1 DEF TypeInv
<1>10. Counts(OpenRequests, Counting(stack) \ {x}, Begun, active - 1, thrown)
  <2> DEFINE u == OpenRequests \union Counting(stack)
  <2>1. u \in SUBSET Requests /\ x \in u /\ OpenRequests \union (Counting(stack) \ {x}) = u \ {x}
        /\ Begun \in SUBSET Requests
    BY <1>4, <1>7, <1>8
  <2>2. /\ active >= Cardinality(u) /\ active <= Cardinality(Begun)
        /\ thrown \/ active = Cardinality(u)
    BY <1>7 DEF Counts
  <2> HIDE DEF u
  <2>3. /\ Cardinality(u \ {x}) = Cardinality(u) - 1 /\ Cardinality(u) \in Nat
        /\ Cardinality(Begun) \in Nat
    BY <1>8, <2>1, Finite
  <2> QED BY <1>9, <2>1, <2>2, <2>3 DEF Counts
<1>11. OpenRequests' = OpenRequests /\ Begun' = Begun BY <1>2 DEF OpenRequests, Begun
<1>12. AjaxInv' BY <1>2, <1>4, <1>7, <1>10, <1>11, AjaxThen
<1> QED BY <1>6, <1>12

\* An exception leaves every call, and every count as it is.
LEMMA ThrowCounts ==
  ASSUME PromiseInv, AjaxInv, Throw
  PROVE  AjaxInv' /\ BodiesInv'
<1>1. /\ stack' = <<>> /\ thrown' = TRUE
      /\ UNCHANGED <<completed, transport, timer, handlers, active, added>>
  BY DEF Throw, ajaxVars
<1>2. Counting(stack') = {} /\ Bodies(<<>>) /\ <<>> \in Seq(Frame) BY <1>1, CountingEmpty
<1>3. Registered' = Registered BY <1>1 DEF Registered
<1>4. BodiesInv' BY <1>1, <1>2, <1>3, BodiesGrow
<1>5. active \in Int /\ thrown \in BOOLEAN BY DEF PromiseInv, TypeInv
<1>6. AjaxInv'
  <2>1. OpenRequests' = OpenRequests /\ Begun' = Begun BY <1>1 DEF OpenRequests, Begun
  <2>2. /\ transport = OpenRequests /\ timer = OpenRequests /\ handlers = OpenRequests
        /\ Counts(OpenRequests, Counting(stack), Begun, active, thrown)
        /\ OpenRequests \subseteq Requests /\ Counting(stack) \subseteq Requests /\ Begun \subseteq Requests
        /\ OpenRequests \union Counting(stack) \subseteq Begun
    BY AjaxIs
  <2>3. Counts(OpenRequests, {}, Begun, active, TRUE)
    <3>1. Cardinality(OpenRequests \union {}) <= Cardinality(OpenRequests \union Counting(stack))
          /\ Cardinality(OpenRequests \union {}) \in Nat
          /\ Cardinality(OpenRequests \union Counting(stack)) \in Nat
          /\ Cardinality(Begun) \in Nat
      <4>1. OpenRequests \union Counting(stack) \in SUBSET Requests
            /\ OpenRequests \union {} \in SUBSET (OpenRequests \union Counting(stack))
        BY <2>2
      <4> QED BY <2>2, <4>1, Finite
    <3>2. /\ active >= Cardinality(OpenRequests \union Counting(stack))
          /\ active <= Cardinality(Begun)
      BY <2>2 DEF Counts
    <3>3. active >= Cardinality(OpenRequests \union {}) BY <1>5, <3>1, <3>2
    <3> QED BY <3>2, <3>3 DEF Counts
  <2> QED BY <1>1, <1>2, <2>1, <2>2, <2>3, AjaxThen
<1> QED BY <1>4, <1>6

\* Every other step.
LEMMA QuietCounts ==
  ASSUME PromiseInv, AjaxInv, BodiesInv, Quiet, Registered \subseteq Registered',
         UNCHANGED <<completed, transport, timer, handlers, active, thrown>>
  PROVE  AjaxInv' /\ BodiesInv'
<1>1. BodiesInv' /\ Counting(stack') = Counting(stack) BY QuietKeeps
<1>2. OpenRequests' = OpenRequests /\ Begun' = Begun BY DEF OpenRequests, Begun
<1> QED BY <1>1, <1>2, AjaxIs, AjaxThen


(***************************************************************************)
(* The verdict on the promise of then().                                   *)
(***************************************************************************)
\* No list of an outcome of such a promise is fired in the step, or opened.
KeptAt(d, l) ==
  /\ lists[d][l].locked => lists'[d][l].locked
  /\ lists'[d][l].locked /\ lists'[d][l].open => lists[d][l].locked /\ lists[d][l].open
Kept == \A x \in Requests, l \in Both : KeptAt(Derived(x), l)

LEMMA KeptIf == (\A e \in Deferreds, l \in Both : KeptAt(e, l)) => Kept
  BY Names DEF Kept, KeptAt

LEMMA VerdictSame ==
  ASSUME VerdictInv, Kept, verdict' = verdict, depth' = depth
  PROVE  VerdictInv'
<1>1. ASSUME NEW x \in Requests, \A l \in Both : ~lists'[Derived(x)][l].locked
      PROVE  \A at \in 0 .. MaxDepth : verdict'[x][at] = IF at < depth'[x] THEN "thenable" ELSE "none"
  <2>1. \A l \in Both : ~lists[Derived(x)][l].locked BY <1>1 DEF Kept, KeptAt
  <2> QED BY <2>1 DEF VerdictInv
<1>2. ASSUME NEW x \in Requests, NEW l \in Both,
             lists'[Derived(x)][l].locked /\ lists'[Derived(x)][l].open
      PROVE  \E last \in 0 .. MaxDepth :
               /\ \A at \in 0 .. last - 1 : verdict'[x][at] = "thenable"
               /\ verdict'[x][last] = IF l = "done" THEN "value" ELSE "throws"
  <2>1. lists[Derived(x)][l].locked /\ lists[Derived(x)][l].open BY <1>2 DEF Kept, KeptAt
  <2> QED BY <2>1 DEF VerdictInv
<1> QED BY <1>1, <1>2 DEF VerdictInv

LEMMA KeptMain ==
  ASSUME TypeInv, NEW x \in Requests, \A e \in Deferreds : e # Main(x) => lists'[e] = lists[e]
  PROVE  Kept
<1>1. \A y \in Requests : lists'[Derived(y)] = lists[Derived(y)] BY Names
<1> QED BY <1>1 DEF Kept, KeptAt

LEMMA AjaxVerdict == ASSUME PromiseInv, VerdictInv, NEW x \in Requests, ajax(x) PROVE VerdictInv'
<1> DEFINE c == add(lists[Main(x)]["complete"], <<User(Fresh)>>)
           with == [lists EXCEPT ![Main(x)]["complete"] = c]
<1>1. lists \in [Deferreds -> [Lists -> Cb]] /\ Main(x) \in Deferreds
  BY Names DEF PromiseInv, TypeInv
<1>2. lists' = with \/ lists' = [with EXCEPT ![Main(x)]["fail"] = fireWith(@)] BY DEF ajax
<1>3. verdict' = verdict /\ depth' = depth BY DEF ajax, promiseVars
<1> HIDE DEF c
<1>4. \A e \in Deferreds : e # Main(x) => lists'[e] = lists[e] BY <1>1, <1>2
<1> QED BY <1>3, <1>4, KeptMain, VerdictSame DEF PromiseInv

LEMMA OperateMain ==
  ASSUME TypeInv, NEW x \in Requests, NEW l, NEW under, Operate(Main(x), l, fireWith, under)
  PROVE  Kept
<1>1. lists \in [Deferreds -> [Lists -> Cb]] /\ Main(x) \in Deferreds BY Names DEF TypeInv
<1>2. lists' = [lists EXCEPT ![Main(x)][l] = fireWith(@)] BY DEF Operate
<1>3. \A e \in Deferreds : e # Main(x) => lists'[e] = lists[e] BY <1>1, <1>2
<1> QED BY <1>3, KeptMain

LEMMA DoneVerdict ==
  ASSUME PromiseInv, VerdictInv, NEW x \in Requests, NEW how, NEW under, done(x, how, under),
         verdict' = verdict, depth' = depth
  PROVE  VerdictInv'
<1>1. lists' = lists \/ Operate(Main(x), how, fireWith, <<Done(x, "complete")>> \o under)
  BY DEF done
<1>2. Kept
  <2>1. CASE lists' = lists BY <2>1 DEF Kept, KeptAt
  <2>2. CASE Operate(Main(x), how, fireWith, <<Done(x, "complete")>> \o under)
    BY <2>2, OperateMain DEF PromiseInv
  <2> QED BY <1>1, <2>1, <2>2
<1> QED BY <1>2, VerdictSame

LEMMA CompleteVerdict == ASSUME PromiseInv, VerdictInv, doneComplete PROVE VerdictInv'
<1>1. Top.x \in Requests BY CompleteNext
<1>2. /\ Operate(Main(Top.x), "complete", fireWith, <<Done(Top.x, "finish")>> \o Tail(stack))
      /\ verdict' = verdict /\ depth' = depth
  BY DEF doneComplete, history, promiseVars
<1>3. Kept BY <1>1, <1>2, OperateMain DEF PromiseInv
<1> QED BY <1>2, <1>3, VerdictSame

LEMMA AddToVerdict ==
  ASSUME PromiseInv, VerdictInv, UserTurn, NEW d \in Deferreds, NEW ls \in SUBSET Lists,
         ls \subseteq Both \/ ls = {"onDone", "onFail"}, NEW f \in Fn, AddTo(d, ls, f),
         verdict' = verdict, depth' = depth
  PROVE  VerdictInv'
<1>1. \A e \in Deferreds, m \in Lists : /\ lists'[e][m].open <=> lists[e][m].open
                                        /\ lists'[e][m].locked <=> lists[e][m].locked
  BY AddToShape
<1>2. Kept BY <1>1, Names, ListNames DEF Kept, KeptAt
<1> QED BY <1>2, VerdictSame

LEMMA CallNextVerdict == ASSUME PromiseInv, VerdictInv, CallNext PROVE VerdictInv'
<1> DEFINE d == Top.d
           l == Top.l
           cb == lists[d][l]
           f == NextCall(cb)
           c == AfterCall(cb)
<1>1. CallBy(d, l, cb, f) BY CallShape
<1>2. /\ d \in Deferreds /\ l \in Lists /\ c \in Cb /\ c.locked /\ c.open /\ cb.locked /\ cb.open
      /\ verdict' = verdict /\ depth' = depth
  BY <1>1 DEF CallBy
<1>3. lists \in [Deferreds -> [Lists -> Cb]] BY DEF PromiseInv, TypeInv
<1>4. \/ lists' = [lists EXCEPT ![d][l] = c]
      \/ lists' = Settled([lists EXCEPT ![d][l] = c], d, l)
      \/ lists' = [[lists EXCEPT ![d][l] = c] EXCEPT ![d][Handlers(l)] = fireWith(@)]
  BY DEF CallNext
<1> HIDE DEF c, cb, f
<1>5. \A e \in Deferreds, m \in Lists :
        LET a == [lists EXCEPT ![d][l] = c] IN
        a[e][m] = IF e = d /\ m = l THEN c ELSE lists[e][m]
  BY <1>2, <1>3
<1>6. \A e \in Deferreds, m \in Lists :
        LET a == [lists EXCEPT ![d][l] = c] IN
        /\ a[e][m].locked <=> lists[e][m].locked
        /\ a[e][m].open <=> lists[e][m].open
  BY <1>2, <1>5 DEF cb
<1> DEFINE a == [lists EXCEPT ![d][l] = c]
<1>7. a \in [Deferreds -> [Lists -> Cb]] BY <1>2, <1>3
<1>8. \A e \in Deferreds, m \in Lists : /\ a[e][m].locked <=> lists[e][m].locked
                                        /\ a[e][m].open <=> lists[e][m].open
  BY <1>6
<1>9. lists' = a \/ lists' = Settled(a, d, l) \/ lists' = [a EXCEPT ![d][Handlers(l)] = fireWith(@)]
  BY <1>4
<1> HIDE DEF a, d, l
<1>10. \A x \in Requests, m \in Both : Derived(x) \in Deferreds /\ m \in Lists BY Names, ListNames
<1>11. ASSUME lists' = a PROVE Kept
  <2>1. ASSUME NEW e \in Deferreds, NEW m \in Both PROVE KeptAt(e, m)
    <3>1. m \in Lists BY ListNames
    <3> QED BY <1>8, <1>11, <3>1 DEF KeptAt
  <2> QED BY <2>1, KeptIf
<1>12. ASSUME lists' = Settled(a, d, l) PROVE Kept
  <2> DEFINE o == Opposite(l)
             h == Handlers(o)
             b == disable(a[d][o])
             g == disable(a[d][h])
  <2>1. o \in Lists /\ h \in Lists /\ o # h BY DEF Opposite, Handlers, Lists
  <2>2. lists' = [a EXCEPT ![d][o] = b, ![d][h] = g]
    <3>1. lists' = [a EXCEPT ![d][o] = disable(@), ![d][h] = disable(@)] BY <1>12 DEF Settled
    <3> HIDE DEF o, h
    <3> QED BY <1>2, <1>7, <2>1, <3>1
  <2>3. ~b.open /\ ~g.open /\ b.locked /\ g.locked
    BY <1>2, <1>7, <2>1 DEF disable, Cb
  <2> HIDE DEF o, h, b, g
  <2>4. \A e \in Deferreds, m \in Lists :
          lists'[e][m] = IF e = d /\ m = h THEN g ELSE IF e = d /\ m = o THEN b ELSE a[e][m]
    BY <1>2, <1>7, <2>1, <2>2
  <2>5. \A e \in Deferreds, m \in Lists :
          /\ a[e][m].locked => lists'[e][m].locked
          /\ lists'[e][m].locked /\ lists'[e][m].open => a[e][m].locked /\ a[e][m].open
    BY <2>3, <2>4
  <2>6. ASSUME NEW e \in Deferreds, NEW m \in Both PROVE KeptAt(e, m)
    <3>1. m \in Lists BY ListNames
    <3> QED BY <1>8, <2>5, <3>1 DEF KeptAt
  <2> QED BY <2>6, KeptIf
<1>13. ASSUME lists' = [a EXCEPT ![d][Handlers(l)] = fireWith(@)] PROVE Kept
  <2>1. Handlers(l) \notin Both BY DEF Handlers, Both
  <2>2. \A e \in Deferreds, m \in Lists : m \in Both => lists'[e][m] = a[e][m]
    BY <1>2, <1>7, <1>13, <2>1
  <2>6. ASSUME NEW e \in Deferreds, NEW m \in Both PROVE KeptAt(e, m)
    <3>1. m \in Lists BY ListNames
    <3> QED BY <1>8, <2>2, <3>1 DEF KeptAt
  <2> QED BY <2>6, KeptIf
<1> QED BY <1>2, <1>9, <1>11, <1>12, <1>13, VerdictSame

LEMMA LoopTurnsVerdict == ASSUME PromiseInv, VerdictInv, LoopTurns PROVE VerdictInv'
<1> DEFINE d == Top.d
           l == Top.l
           cb == lists[d][l]
           c == Turn(cb)
<1>1. /\ In("loop") /\ ~HasCall(cb) /\ lists' = [lists EXCEPT ![d][l] = c]
      /\ verdict' = verdict /\ depth' = depth
  BY DEF LoopTurns, promiseVars, history
<1>2. d \in Deferreds /\ l \in Lists /\ cb \in Cb /\ cb.firing /\ ListOK(cb)
  BY <1>1, TopLoop DEF ListFine
<1>3. (c.open <=> cb.open) /\ (c.locked <=> cb.locked) BY <1>1, <1>2, TurnForm
<1>4. lists \in [Deferreds -> [Lists -> Cb]] BY DEF PromiseInv, TypeInv
<1> HIDE DEF c, d, l
<1>5. \A e \in Deferreds, m \in Lists :
        lists'[e][m] = IF e = d /\ m = l THEN c ELSE lists[e][m]
  BY <1>1, <1>2, <1>4
<1>6. Kept BY <1>3, <1>5, Names, ListNames DEF Kept, KeptAt
<1> QED BY <1>1, <1>6, VerdictSame

\* The handler's result, or a thenable's.
LEMMA ResolveVerdict ==
  ASSUME PromiseInv, VerdictInv, Idle, NEW x \in Requests, NEW at \in 0 .. MaxDepth,
         at <= depth[x], NEW result \in Results, resolve(x, at, result), Note(x, at, result)
  PROVE  VerdictInv'
<1> DEFINE d == Derived(x)
           l0 == IF result = "value" THEN "done" ELSE "fail"
           n == depth[x]
<1>1. /\ d \in Deferreds /\ l0 \in Both /\ l0 \in Lists /\ n \in 0 .. MaxDepth
      /\ MaxDepth \in Nat /\ at \in Nat
      /\ lists \in [Deferreds -> [Lists -> Cb]]
      /\ verdict \in [Requests -> [0 .. MaxDepth -> {"none"} \union Results]]
      /\ depth \in [Requests -> 0 .. MaxDepth]
  BY Names, ListNames, ExchangeAssumption DEF Both, PromiseInv, TypeInv
<1>2. /\ \A y \in Requests : y # x => verdict'[y] = verdict[y]
      /\ \A k \in 0 .. MaxDepth :
           verdict'[x][k] = IF k = at /\ verdict[x][at] = "none" THEN result ELSE verdict[x][k]
  BY <1>1 DEF Note
<1>3. /\ \A y \in Requests : y # x => depth'[y] = depth[y]
      /\ \A e \in Deferreds : e # d => lists'[e] = lists[e]
      /\ \A m \in Both : (lists[d][m].locked => lists'[d][m].locked)
                         /\ (lists'[d][m].open <=> lists[d][m].open)
  <2>1. CASE UNCHANGED lists /\ (depth' = depth \/ depth' = [depth EXCEPT ![x] = @ + 1])
    BY <1>1, <2>1
  <2>2. CASE UNCHANGED depth /\ Operate(d, l0, fireWith, <<>>)
    <3> DEFINE cb == lists[d][l0]
               c == fireWith(cb)
    <3>1. lists' = [lists EXCEPT ![d][l0] = c] BY <2>2 DEF Operate
    <3>2. cb \in Cb /\ ListOK(cb) BY <1>1 DEF PromiseInv, ListsInv, ListFine
    <3>3. c.locked /\ (c.open <=> cb.open) BY <3>2, FireForm
    <3> HIDE DEF c, d, l0
    <3>4. \A e \in Deferreds, m \in Lists : lists'[e][m] = IF e = d /\ m = l0 THEN c ELSE lists[e][m]
      BY <1>1, <3>1
    <3>5. \A e \in Deferreds : e # d => lists'[e] = lists[e] BY <1>1, <3>1
    <3>6. \A y \in Requests : y # x => depth'[y] = depth[y] BY <2>2
    <3>7. \A m \in Both : m \in Lists BY ListNames
    <3>8. (c.open <=> lists[d][l0].open) BY <3>3 DEF cb
    <3>9. ASSUME NEW m \in Both
          PROVE  /\ lists[d][m].locked => lists'[d][m].locked
                 /\ lists'[d][m].open <=> lists[d][m].open
      <4>1. lists'[d][m] = IF m = l0 THEN c ELSE lists[d][m] BY <1>1, <3>4, <3>7
      <4> QED BY <3>3, <3>8, <4>1
    <3> QED BY <3>5, <3>6, <3>9
  <2> QED BY <2>1, <2>2 DEF resolve
<1>4. ASSUME NEW y \in Requests, y # x
      PROVE  /\ verdict'[y] = verdict[y] /\ depth'[y] = depth[y]
             /\ lists'[Derived(y)] = lists[Derived(y)]
  <2>1. Derived(y) \in Deferreds /\ Derived(y) # d BY <1>4, Names
  <2> QED BY <1>2, <1>3, <1>4, <2>1
<1> DEFINE First(v, k) == \A i \in 0 .. MaxDepth : v[i] = IF i < k THEN "thenable" ELSE "none"
           Given(v, l) == \E last \in 0 .. MaxDepth :
                            /\ \A i \in 0 .. last - 1 : v[i] = "thenable"
                            /\ v[last] = IF l = "done" THEN "value" ELSE "throws"
<1>5. /\ (\A m \in Both : ~lists'[d][m].locked) => First(verdict'[x], depth'[x])
      /\ \A m \in Both : lists'[d][m].locked /\ lists'[d][m].open => Given(verdict'[x], m)
  <2>1. CASE \A m \in Both : lists[d][m].locked
    <3>1. \E m \in Both : lists'[d][m].locked BY <1>1, <1>3, <2>1
    <3>2. ASSUME NEW m \in Both, lists'[d][m].locked, lists'[d][m].open
          PROVE  Given(verdict'[x], m)
      <4>1. lists[d][m].locked /\ lists[d][m].open BY <1>3, <2>1, <3>2
      <4>2. PICK last \in 0 .. MaxDepth :
              /\ \A i \in 0 .. last - 1 : verdict[x][i] = "thenable"
              /\ verdict[x][last] = IF m = "done" THEN "value" ELSE "throws"
        BY <4>1 DEF VerdictInv
      <4>3. verdict'[x][last] = verdict[x][last] BY <1>2, <4>2
      <4>4. \A i \in 0 .. last - 1 : i \in 0 .. MaxDepth BY <1>1
      <4>5. \A i \in 0 .. last - 1 : verdict'[x][i] = "thenable" BY <1>2, <4>2, <4>4
      <4> QED BY <4>2, <4>3, <4>5
    <3> QED BY <3>1, <3>2
  <2>2. CASE \A m \in Both : ~lists[d][m].locked
    <3>1. \A i \in 0 .. MaxDepth : verdict[x][i] = IF i < n THEN "thenable" ELSE "none"
      BY <2>2 DEF VerdictInv
    <3>2. CASE at < n
      <4>1. lists' = lists /\ depth' = depth BY <1>1, <3>2 DEF resolve
      <4>2. verdict[x][at] = "thenable" BY <3>1, <3>2
      <4>3. \A i \in 0 .. MaxDepth : verdict'[x][i] = verdict[x][i] BY <1>2, <4>2
      <4> QED BY <2>2, <3>1, <4>1, <4>3
    <3>3. CASE at = n /\ result # "thenable"
      <4>1. Operate(d, l0, fireWith, <<>>) BY <1>1, <3>3 DEF resolve
      <4>2. lists' = [lists EXCEPT ![d][l0] = fireWith(lists[d][l0])] BY <4>1 DEF Operate
      <4>3. fireWith(lists[d][l0]).locked
        BY <1>1, FireForm DEF PromiseInv, ListsInv, ListFine
      <4>4. lists'[d][l0].locked /\ \A m \in Both : m # l0 => lists'[d][m] = lists[d][m]
        <5> DEFINE c == fireWith(lists[d][l0])
        <5>1. lists' = [lists EXCEPT ![d][l0] = c] /\ c.locked BY <4>2, <4>3
        <5> HIDE DEF c, d, l0
        <5>2. \A m \in Lists : lists'[d][m] = IF m = l0 THEN c ELSE lists[d][m] BY <1>1, <5>1
        <5> QED BY <1>1, <5>1, <5>2, ListNames
      <4>5. Given(verdict'[x], l0)
        <5>1. verdict'[x][at] = result BY <1>2, <3>1, <3>3
        <5>2. result = IF l0 = "done" THEN "value" ELSE "throws" BY <3>3 DEF Results
        <5>3. \A i \in 0 .. at - 1 : verdict'[x][i] = "thenable"
          <6>1. \A i \in 0 .. at - 1 : i \in 0 .. MaxDepth /\ i < n /\ i # at BY <1>1, <3>3
          <6> QED BY <1>2, <3>1, <6>1
        <5> QED BY <5>1, <5>2, <5>3
      <4> HIDE DEF Given, l0
      <4> QED BY <1>1, <2>2, <4>4, <4>5
    <3>4. CASE at = n /\ result = "thenable"
      <4>1. lists' = lists /\ n < MaxDepth /\ depth' = [depth EXCEPT ![x] = @ + 1]
        BY <1>1, <3>4 DEF resolve
      <4>2. depth'[x] = n + 1 BY <1>1, <4>1
      <4>3. verdict[x][at] = "none" BY <3>1, <3>4
      <4>4. \A i \in 0 .. MaxDepth : verdict'[x][i] = IF i < n + 1 THEN "thenable" ELSE "none"
        <5>1. ASSUME NEW i \in 0 .. MaxDepth
              PROVE  verdict'[x][i] = IF i < n + 1 THEN "thenable" ELSE "none"
          <6>1. CASE i = at BY <1>1, <1>2, <3>4, <4>3, <6>1
          <6>2. CASE i # at
            <7>1. i < n + 1 <=> i < n BY <1>1, <3>4, <6>2
            <7> QED BY <1>2, <3>1, <6>2, <7>1
          <6> QED BY <6>1, <6>2
        <5> QED BY <5>1
      <4> QED BY <2>2, <4>1, <4>2, <4>4
    <3> QED BY <1>1, <3>2, <3>3, <3>4
  <2> QED BY <1>1, <2>1, <2>2, AtRest DEF PromiseInv
<1>6. ASSUME NEW y \in Requests
      PROVE  /\ (\A m \in Both : ~lists'[Derived(y)][m].locked) => First(verdict'[y], depth'[y])
             /\ \A m \in Both : lists'[Derived(y)][m].locked /\ lists'[Derived(y)][m].open =>
                                  Given(verdict'[y], m)
  <2>1. CASE y = x BY <1>5, <2>1
  <2>2. CASE y # x
    <3>1. /\ (\A m \in Both : ~lists[Derived(y)][m].locked) => First(verdict[y], depth[y])
          /\ \A m \in Both : lists[Derived(y)][m].locked /\ lists[Derived(y)][m].open =>
                                  Given(verdict[y], m)
      BY DEF VerdictInv
    <3> HIDE DEF First, Given
    <3> QED BY <1>4, <2>2, <3>1
  <2> QED BY <2>1, <2>2
<1> QED BY <1>6 DEF VerdictInv


(***************************************************************************)
(* The invariant is inductive.                                             *)
(***************************************************************************)
LEMMA StutterKeeps == ASSUME Inv, BodiesInv, UNCHANGED vars PROVE Inv' /\ BodiesInv'
<1>1. /\ UNCHANGED <<lists, stack, completed, transport, timer, handlers, active, endings>>
      /\ UNCHANGED <<state, depth, chained, tasks, added, ran, verdict, thrown>>
  BY DEF vars, ajaxVars, promiseVars, history
<1>2. PromiseInv /\ AjaxInv /\ VerdictInv BY DEF Inv
<1>3. TypeInv' BY <1>1, <1>2 DEF PromiseInv, TypeInv
<1>4. ListsInv' BY <1>1, <1>2 DEF PromiseInv, ListsInv
<1>5. StateInv' BY <1>1, <1>2 DEF PromiseInv, StateInv, DeferredInv, OnTop
<1>6. IdsInv' /\ Completes' = Completes BY <1>1, <1>2, IdsSame DEF PromiseInv
<1>7. StackInv'
  <2>1. Running' = Running /\ Fired' = Fired BY <1>1 DEF Running, Fired
  <2> QED BY <1>1, <1>2, <1>6, <2>1 DEF PromiseInv, StackInv
<1>8. RequestInv' BY <1>1, <1>2 DEF PromiseInv, RequestInv
<1>9. Registered' = Registered /\ Quiet BY <1>1 DEF Registered, Quiet
<1>10. AjaxInv' /\ BodiesInv' BY <1>1, <1>2, <1>9, QuietCounts
<1>11. VerdictInv' BY <1>1, <1>2, VerdictSame DEF Kept, KeptAt
<1> QED BY <1>3, <1>4, <1>5, <1>6, <1>7, <1>8, <1>10, <1>11 DEF Inv, PromiseInv

LEMMA MachineKeeps == ASSUME Inv, BodiesInv, Machine PROVE Inv' /\ BodiesInv'
<1>1. PromiseInv /\ AjaxInv /\ VerdictInv /\ \A y \in Counting(stack) : completed[y] = "yes"
  BY DEF Inv, AjaxInv
<1>2. CASE CallNext
  <2>1. PromiseInv' BY <1>1, <1>2, CallNextKeeps
  <2>2. UNCHANGED <<completed, transport, timer, handlers, active, thrown>> /\ Registered' = Registered
    BY <1>2 DEF CallNext, ajaxVars, Registered
  <2>3. AjaxInv' /\ BodiesInv' BY <1>1, <1>2, <2>2, CallNextQuiet, QuietCounts
  <2>4. VerdictInv' BY <1>1, <1>2, CallNextVerdict
  <2> QED BY <2>1, <2>3, <2>4 DEF Inv
<1>3. CASE LoopTurns
  <2>1. PromiseInv' BY <1>1, <1>3, LoopTurnsKeeps
  <2>2. UNCHANGED <<completed, transport, timer, handlers, active, thrown>> /\ Registered' = Registered
    BY <1>3 DEF LoopTurns, ajaxVars, history, Registered
  <2>3. AjaxInv' /\ BodiesInv' BY <1>1, <1>3, <2>2, LoopTurnsQuiet, QuietCounts
  <2>4. VerdictInv' BY <1>1, <1>3, LoopTurnsVerdict
  <2> QED BY <2>1, <2>3, <2>4 DEF Inv
<1>4. CASE doneComplete
  <2>1. PromiseInv' BY <1>1, <1>4, DoneCompleteKeeps
  <2>2. AjaxInv' /\ BodiesInv' BY <1>1, <1>4, CompleteCounts
  <2>3. VerdictInv' BY <1>1, <1>4, CompleteVerdict
  <2> QED BY <2>1, <2>2, <2>3 DEF Inv
<1>5. CASE doneFinish
  <2>1. PromiseInv' BY <1>1, <1>5, DoneFinishKeeps
  <2>2. AjaxInv' /\ BodiesInv' BY <1>1, <1>5, FinishCounts
  <2>3. lists' = lists /\ verdict' = verdict /\ depth' = depth
    BY <1>5 DEF doneFinish, promiseVars, history
  <2>4. VerdictInv' BY <1>1, <2>3, VerdictSame DEF Kept, KeptAt
  <2> QED BY <2>1, <2>2, <2>4 DEF Inv
<1>6. CASE Return
  <2>1. PromiseInv' BY <1>1, <1>6, ReturnKeeps
  <2>2. UNCHANGED <<completed, transport, timer, handlers, active, thrown>> /\ Registered' = Registered
    BY <1>6 DEF Return, ajaxVars, history, Registered
  <2>3. AjaxInv' /\ BodiesInv' BY <1>1, <1>6, <2>2, ReturnQuiet, QuietCounts
  <2>4. lists' = lists /\ verdict' = verdict /\ depth' = depth
    BY <1>6 DEF Return, promiseVars, history
  <2>5. VerdictInv' BY <1>1, <2>4, VerdictSame DEF Kept, KeptAt
  <2> QED BY <2>1, <2>3, <2>5 DEF Inv
<1> QED BY <1>2, <1>3, <1>4, <1>5, <1>6 DEF Machine

LEMMA ThrowStep == ASSUME Inv, BodiesInv, Throw PROVE Inv' /\ BodiesInv'
<1>1. PromiseInv /\ AjaxInv /\ VerdictInv BY DEF Inv
<1>2. PromiseInv' BY <1>1, ThrowKeeps
<1>3. AjaxInv' /\ BodiesInv' BY <1>1, ThrowCounts
<1>4. lists' = lists /\ verdict' = verdict /\ depth' = depth BY DEF Throw, promiseVars
<1>5. VerdictInv' BY <1>1, <1>4, VerdictSame DEF Kept, KeptAt
<1> QED BY <1>2, <1>3, <1>5 DEF Inv

LEMMA AjaxStep == ASSUME Inv, BodiesInv, NEW x \in Requests, ajax(x) PROVE Inv' /\ BodiesInv'
<1>1. PromiseInv /\ AjaxInv /\ VerdictInv /\ \A y \in Counting(stack) : completed[y] = "yes"
  BY DEF Inv, AjaxInv
<1>2. PromiseInv' /\ Registered \subseteq Registered' BY <1>1, AjaxKeeps
<1>3. AjaxInv' /\ BodiesInv' BY <1>1, <1>2, AjaxCounts
<1>4. VerdictInv' BY <1>1, AjaxVerdict
<1> QED BY <1>2, <1>3, <1>4 DEF Inv

\* An answer, the timeout, abort(): done() in each of them.
LEMMA DoneStep ==
  ASSUME Inv, BodiesInv, UserTurn, NEW x \in Requests, completed[x] # "unset", NEW how \in How,
         done(x, how, stack),
         handlers' = IF x \in OpenRequests THEN handlers \ {x} ELSE handlers,
         UNCHANGED <<active, endings, promiseVars, added, ran, verdict>>
  PROVE  Inv' /\ BodiesInv'
<1>1. PromiseInv /\ AjaxInv /\ VerdictInv /\ \A y \in Counting(stack) : completed[y] = "yes"
  BY DEF Inv, AjaxInv
<1>2. handlers' \subseteq Requests BY <1>1 DEF PromiseInv, TypeInv
<1>3. PromiseInv' BY <1>1, <1>2, DoneKeeps
<1>4. AjaxInv' /\ BodiesInv' BY <1>1, DoneCounts
<1>5. verdict' = verdict /\ depth' = depth BY DEF promiseVars
<1>6. VerdictInv' BY <1>1, <1>5, DoneVerdict
<1> QED BY <1>3, <1>4, <1>6 DEF Inv

LEMMA EventKeeps ==
  ASSUME Inv, BodiesInv, NEW x \in Requests, XhrEvent(x) \/ TimeoutFires(x) \/ UserAborts(x)
  PROVE  Inv' /\ BodiesInv'
<1>1. /\ transport = OpenRequests /\ timer = OpenRequests /\ handlers = OpenRequests
      /\ endings.answer \subseteq How /\ endings.abort \subseteq How
  BY DEF Inv, AjaxInv, PromiseInv, TypeInv
<1>2. CASE XhrEvent(x)
  <2>1. PICK how \in endings.answer : done(x, how, <<>>) BY <1>2 DEF XhrEvent
  <2>2. /\ UserTurn /\ stack = <<>> /\ x \in OpenRequests /\ handlers' = handlers \ {x}
        /\ UNCHANGED <<active, endings, promiseVars, added, ran, verdict>>
    BY <1>1, <1>2 DEF XhrEvent, Idle, UserTurn
  <2>3. completed[x] # "unset" BY <2>2 DEF OpenRequests
  <2>4. how \in How /\ done(x, how, stack) BY <1>1, <2>1, <2>2
  <2> QED BY <2>2, <2>3, <2>4, DoneStep
<1>3. CASE TimeoutFires(x)
  <2>1. PICK how \in endings.abort : done(x, how, <<>>) BY <1>3 DEF TimeoutFires, abort
  <2>2. /\ UserTurn /\ stack = <<>> /\ x \in OpenRequests /\ handlers' = handlers \ {x}
        /\ UNCHANGED <<active, endings, promiseVars, added, ran, verdict>>
    BY <1>1, <1>3 DEF TimeoutFires, abort, Idle, UserTurn
  <2>3. completed[x] # "unset" BY <2>2 DEF OpenRequests
  <2>4. how \in How /\ done(x, how, stack) BY <1>1, <2>1, <2>2
  <2> QED BY <2>2, <2>3, <2>4, DoneStep
<1>4. CASE UserAborts(x)
  <2>1. PICK how \in endings.abort : done(x, how, stack) BY <1>4 DEF UserAborts, abort
  <2>2. /\ UserTurn /\ completed[x] # "unset"
        /\ handlers' = IF x \in OpenRequests THEN handlers \ {x} ELSE handlers
        /\ UNCHANGED <<active, endings, promiseVars, added, ran, verdict>>
    BY <1>1, <1>4 DEF UserAborts, abort
  <2>3. how \in How BY <1>1, <2>1
  <2> QED BY <2>1, <2>2, <2>3, DoneStep
<1> QED BY <1>2, <1>3, <1>4

LEMMA RegisterStep ==
  ASSUME Inv, BodiesInv, NEW d \in Deferreds, NEW ls \in SUBSET Both, ls # {}, Register(d, ls)
  PROVE  Inv' /\ BodiesInv'
<1>1. PromiseInv /\ AjaxInv /\ VerdictInv BY DEF Inv
<1>2. PromiseInv' /\ Registered \subseteq Registered' BY <1>1, RegisterKeeps
<1>3. /\ UserTurn /\ AddTo(d, ls, User(Fresh)) /\ Fresh <= MaxCallbacks
      /\ UNCHANGED <<completed, transport, timer, handlers, active, thrown, verdict, depth>>
  BY DEF Register, ajaxVars, promiseVars
<1>4. ls \in SUBSET Lists BY ListNames
<1>5. AjaxInv' /\ BodiesInv' BY <1>1, <1>2, <1>3, <1>4, AddToQuiet, QuietCounts
<1>6. User(Fresh) \in Fn
  <2>1. PICK n \in Nat : Fresh = n + 1 BY <1>1, FreshIs DEF PromiseInv
  <2>2. Fresh \in Ids BY <1>3, <2>1, ExchangeAssumption DEF Ids
  <2> QED BY <2>2 DEF User, Fn
<1>7. VerdictInv' BY <1>1, <1>3, <1>4, <1>6, AddToVerdict
<1> QED BY <1>2, <1>5, <1>7 DEF Inv

LEMMA ThenStep == ASSUME Inv, BodiesInv, NEW x \in Requests, then(x) PROVE Inv' /\ BodiesInv'
<1>1. PromiseInv /\ AjaxInv /\ VerdictInv BY DEF Inv
<1>2. PromiseInv' BY <1>1, ThenKeeps
<1>3. /\ UserTurn /\ AddTo(Main(x), {"onDone", "onFail"}, Builtin("then"))
      /\ UNCHANGED <<completed, transport, timer, handlers, active, thrown, verdict, depth, added>>
  BY DEF then, ajaxVars, history
<1>4. {"onDone", "onFail"} \in SUBSET Lists /\ Main(x) \in Deferreds /\ Builtin("then") \in Fn
  BY Names, ExchangeAssumption DEF Lists, Builtin, Fn, Ids
<1>5. Registered' = Registered BY <1>3 DEF Registered
<1>6. AjaxInv' /\ BodiesInv' BY <1>1, <1>3, <1>4, <1>5, AddToQuiet, QuietCounts
<1>7. VerdictInv' BY <1>1, <1>3, <1>4, AddToVerdict
<1> QED BY <1>2, <1>6, <1>7 DEF Inv

LEMMA ResolveStep ==
  ASSUME Inv, BodiesInv, Idle, NEW x \in Requests, NEW at \in 0 .. MaxDepth, at <= depth[x],
         NEW result \in Results, resolve(x, at, result), Note(x, at, result),
         tasks' \subseteq tasks, UNCHANGED <<ajaxVars, state, chained, added, ran, thrown>>
  PROVE  Inv' /\ BodiesInv'
<1>1. PromiseInv /\ AjaxInv /\ VerdictInv BY DEF Inv
<1>2. /\ depth \in [Requests -> 0 .. MaxDepth] /\ MaxDepth \in Nat
      /\ verdict \in [Requests -> [0 .. MaxDepth -> {"none"} \union Results]]
  BY <1>1, ExchangeAssumption DEF PromiseInv, TypeInv
<1>3. depth' \in [Requests -> 0 .. MaxDepth]
  <2>1. depth' = depth \/ (depth[x] < MaxDepth /\ depth' = [depth EXCEPT ![x] = depth[x] + 1])
    BY DEF resolve
  <2>2. depth[x] < MaxDepth => depth[x] + 1 \in 0 .. MaxDepth BY <1>2
  <2> QED BY <1>2, <2>1, <2>2
<1>4. verdict' \in [Requests -> [0 .. MaxDepth -> {"none"} \union Results]]
  <2> DEFINE v == IF verdict[x][at] = "none" THEN result ELSE verdict[x][at]
             row == [verdict[x] EXCEPT ![at] = v]
  <2>1. v \in {"none"} \union Results BY <1>2
  <2>2. verdict' = [verdict EXCEPT ![x] = row] BY DEF Note
  <2> HIDE DEF v
  <2>3. row \in [0 .. MaxDepth -> {"none"} \union Results] BY <1>2, <2>1
  <2> HIDE DEF row
  <2> QED BY <1>2, <2>2, <2>3
<1>5. PromiseInv' BY <1>1, <1>3, <1>4, ResolveKeeps
<1>6. Quiet BY <1>1, ResolveQuiet
<1>7. Registered' = Registered /\ UNCHANGED <<completed, transport, timer, handlers, active, thrown>>
  BY DEF Registered, ajaxVars
<1>8. AjaxInv' /\ BodiesInv' BY <1>1, <1>6, <1>7, QuietCounts
<1>9. VerdictInv' BY <1>1, ResolveVerdict
<1> QED BY <1>5, <1>8, <1>9 DEF Inv

LEMMA VerdictStep ==
  ASSUME Inv, BodiesInv,
         \/ \E x \in Requests, at \in 1 .. MaxDepth : ThenableCalls(x, at)
         \/ \E t \in tasks : Process(t)
  PROVE  Inv' /\ BodiesInv'
<1>1. /\ depth \in [Requests -> 0 .. MaxDepth] /\ MaxDepth \in Nat
      /\ tasks \subseteq [x : Requests, ok : BOOLEAN]
  BY ExchangeAssumption DEF Inv, PromiseInv, TypeInv
<1>2. ASSUME NEW x \in Requests, NEW at \in 1 .. MaxDepth, ThenableCalls(x, at)
      PROVE  Inv' /\ BodiesInv'
  <2>1. PICK result \in Results : resolve(x, at, result) /\ Note(x, at, result)
    BY <1>2 DEF ThenableCalls
  <2>2. /\ Idle /\ at \in 1 .. depth[x] /\ tasks' \subseteq tasks
        /\ UNCHANGED <<ajaxVars, state, chained, added, ran, thrown>>
    BY <1>2 DEF ThenableCalls
  <2>3. at \in 0 .. MaxDepth /\ at <= depth[x] BY <1>1, <2>2
  <2> QED BY <2>1, <2>2, <2>3, ResolveStep
<1>3. ASSUME NEW t \in tasks, Process(t) PROVE Inv' /\ BodiesInv'
  <2>1. PICK result \in Results : resolve(t.x, 0, result) /\ Note(t.x, 0, result)
    BY <1>3 DEF Process
  <2>2. /\ Idle /\ tasks' \subseteq tasks
        /\ UNCHANGED <<ajaxVars, state, chained, added, ran, thrown>>
    BY <1>3 DEF Process
  <2>3. t.x \in Requests BY <1>1, <1>3
  <2>4. 0 \in 0 .. MaxDepth /\ 0 <= depth[t.x] BY <1>1, <2>3
  <2> QED BY <2>1, <2>2, <2>3, <2>4, ResolveStep
<1> QED BY <1>2, <1>3

LEMMA NextKeeps == ASSUME Inv, BodiesInv, [Next]_vars PROVE Inv' /\ BodiesInv'
<1>1. CASE UNCHANGED vars BY <1>1, StutterKeeps
<1>2. CASE Machine BY <1>2, MachineKeeps
<1>3. CASE Throw BY <1>3, ThrowStep
<1>4. ASSUME NEW x \in Requests, ajax(x) PROVE Inv' /\ BodiesInv' BY <1>4, AjaxStep
<1>5. ASSUME NEW x \in Requests, XhrEvent(x) \/ TimeoutFires(x) \/ UserAborts(x)
      PROVE  Inv' /\ BodiesInv'
  BY <1>5, EventKeeps
<1>6. ASSUME NEW x \in Requests, then(x) PROVE Inv' /\ BodiesInv' BY <1>6, ThenStep
<1>7. ASSUME NEW x \in Requests, NEW ls \in (SUBSET {"done", "fail"}) \ {{}},
             Register(Main(x), ls) \/ Register(Derived(x), ls)
      PROVE  Inv' /\ BodiesInv'
  <2>1. ls \in SUBSET Both /\ ls # {}
    <3>1. ls \in SUBSET {"done", "fail"} OBVIOUS
    <3>2. ls # {} OBVIOUS
    <3> QED BY <3>1, <3>2 DEF Both
  <2>2. Main(x) \in Deferreds /\ Derived(x) \in Deferreds BY Names
  <2> QED BY <1>7, <2>1, <2>2, RegisterStep
<1>8. CASE \/ \E x \in Requests, at \in 1 .. MaxDepth : ThenableCalls(x, at)
           \/ \E t \in tasks : Process(t)
  BY <1>8, VerdictStep
<1>9. \/ UNCHANGED vars \/ Machine \/ Throw
      \/ \E x \in Requests : ajax(x)
      \/ \E x \in Requests : XhrEvent(x) \/ TimeoutFires(x) \/ UserAborts(x)
      \/ \E x \in Requests : then(x)
      \/ \E x \in Requests : \E ls \in (SUBSET {"done", "fail"}) \ {{}} :
           Register(Main(x), ls) \/ Register(Derived(x), ls)
      \/ \E x \in Requests, at \in 1 .. MaxDepth : ThenableCalls(x, at)
      \/ \E t \in tasks : Process(t)
  BY DEF Next
<1> QED BY <1>1, <1>2, <1>3, <1>4, <1>5, <1>6, <1>7, <1>8, <1>9


(***************************************************************************)
(* The theorems.                                                           *)
(***************************************************************************)
\* The inductive invariant holds in every state that the page can reach: every list is
\* in one of its four conditions and in step with its callbacks, every deferred is open
\* or settled, the calls in progress are in order, and each event of jQuery.ajax() is
\* counted (jQuery.Callbacks(), jQuery.Deferred(), then() and done()).
THEOREM ExchangeInvariant == Spec => [](Inv /\ BodiesInv)
<1>1. Inv /\ BodiesInv /\ [Next]_vars => (Inv /\ BodiesInv)' BY NextKeeps
<1> QED BY <1>1, InitInv, PTL DEF Spec

LEMMA TypesFit == Inv => TypeOK
<1> SUFFICES ASSUME Inv PROVE TypeOK OBVIOUS
<1>1. TypeInv /\ ListsInv /\ AjaxInv BY DEF Inv, PromiseInv
<1> DEFINE F == [kind : {"user", "settle", "fireHandlers", "then"}, id : 0 .. MaxCallbacks]
           C == [list : Seq(F), open : BOOLEAN, queue : 0 .. 1, index : Nat, firing : BOOLEAN,
                 memory : BOOLEAN, locked : BOOLEAN, once : BOOLEAN, keeps : BOOLEAN]
<1>2. ASSUME NEW d \in Deferreds, NEW l \in Lists PROVE lists[d][l] \in C
  <2> DEFINE cb == lists[d][l]
  <2>1. cb \in Cb /\ cb.queue = 0 BY <1>1, <1>2 DEF TypeInv, ListsInv, ListFine, ListOK
  <2> HIDE DEF cb
  <2>2. cb.list \in Seq(F)
    <3>1. Fn = F BY DEF Fn, Ids
    <3> HIDE DEF F
    <3>2. cb.list \in Seq(Fn) BY <2>1 DEF Cb
    <3> QED BY <3>1, <3>2
  <2>3. cb.queue \in 0 .. 1 BY <2>1
  <2>4. cb = [list |-> cb.list, open |-> cb.open, queue |-> cb.queue, index |-> cb.index,
              firing |-> cb.firing, memory |-> cb.memory, locked |-> cb.locked,
              once |-> cb.once, keeps |-> cb.keeps]
        /\ cb.open \in BOOLEAN /\ cb.index \in Nat /\ cb.firing \in BOOLEAN
        /\ cb.memory \in BOOLEAN /\ cb.locked \in BOOLEAN /\ cb.once \in BOOLEAN
        /\ cb.keeps \in BOOLEAN
    BY <2>1 DEF Cb
  <2> HIDE DEF F
  <2>5. cb \in C BY <2>2, <2>3, <2>4
  <2> QED BY <2>5 DEF cb
<1>3. lists \in [Deferreds -> [Lists -> C]]
  <2> HIDE DEF C
  <2>1. lists \in [Deferreds -> [Lists -> Cb]] BY <1>1 DEF TypeInv
  <2> QED BY <1>2, <2>1
<1>4. active \in 0 .. Cardinality(Requests)
  <2> DEFINE Outcome == {x \in Requests : completed[x] # "unset"}
             Now == OpenRequests \union Counting(stack)
  <2>1. Outcome \subseteq Requests /\ Now \subseteq Requests BY DEF OpenRequests, Counting
  <2>2. /\ IsFiniteSet(Outcome) /\ Cardinality(Outcome) <= Cardinality(Requests)
        /\ IsFiniteSet(Now)
    BY <2>1, ExchangeAssumption, FS_Subset
  <2>3. Cardinality(Outcome) \in Nat /\ Cardinality(Now) \in Nat /\ Cardinality(Requests) \in Nat
    BY <2>2, ExchangeAssumption, FS_CardinalityType
  <2>4. active \in Int /\ active >= Cardinality(Now) /\ active <= Cardinality(Outcome)
    BY <1>1 DEF TypeInv, AjaxInv
  <2> HIDE DEF Outcome, Now
  <2> QED BY <2>2, <2>3, <2>4
<1>5. /\ state \in [Deferreds -> {"pending", "done", "fail"}]
      /\ completed \in [Requests -> {"unset", "no", "yes"}]
      /\ {transport, timer, handlers, chained} \subseteq SUBSET Requests
      /\ depth \in [Requests -> 0 .. MaxDepth] /\ tasks \subseteq [x : Requests, ok : BOOLEAN]
  BY <1>1 DEF TypeInv
<1> HIDE DEF C
<1> QED BY <1>3, <1>4, <1>5 DEF TypeOK, C

\* The types: no firing of a list waits for another (queue stays empty, so within 0 ..
\* 1), the numbers of callbacks stay within their bound, and jQuery.active counts no
\* more than the requests, and is never negative.
THEOREM ExchangeTypes == Spec => []TypeOK
  BY ExchangeInvariant, TypesFit, PTL

LEMMA SilenceFits == Inv => OverIsSilent
<1> SUFFICES ASSUME Inv PROVE OverIsSilent OBVIOUS
<1>1. AjaxInv BY DEF Inv
<1>2. \A x \in Requests : completed[x] # "unset" =>
        (completed[x] = "no" <=> x \in timer) /\ (x \in timer <=> x \in handlers)
  BY <1>1 DEF AjaxInv, OpenRequests
<1>3. ASSUME Idle, ~thrown
      PROVE  active = Cardinality({x \in Requests : completed[x] = "no"})
  <2>1. Counting(stack) = {} BY <1>3 DEF Idle, Counting
  <2>2. OpenRequests \union Counting(stack) = {x \in Requests : completed[x] = "no"}
    BY <2>1 DEF OpenRequests
  <2> QED BY <1>1, <1>3, <2>2 DEF AjaxInv
<1> QED BY <1>2, <1>3 DEF OverIsSilent

\* A request that is over is silent: its timeout is not armed and its XMLHttpRequest
\* has no handlers, whichever of the answer, the timeout and the aborts came first and
\* however often; one that was sent and is not over has both.  When no call is in
\* progress and no callback has thrown, jQuery.active is the number of the latter.
THEOREM RequestsAreSilentOnceOver == Spec => []OverIsSilent
  BY ExchangeInvariant, SilenceFits, PTL

LEMMA VerdictFits == Inv => VerdictStands
<1> SUFFICES ASSUME Inv, NEW x \in Requests, state[Derived(x)] # "pending"
             PROVE  \E last \in 0 .. MaxDepth :
                      /\ \A at \in 0 .. last - 1 : verdict[x][at] = "thenable"
                      /\ verdict[x][last] = IF state[Derived(x)] = "done" THEN "value"
                                            ELSE "throws"
  BY DEF VerdictStands
<1>1. /\ state \in [Deferreds -> {"pending", "done", "fail"}] /\ Derived(x) \in Deferreds
  BY Names DEF Inv, PromiseInv, TypeInv
<1>2. PICK l \in Both : state[Derived(x)] = l BY <1>1 DEF Both
<1>3. lists[Derived(x)][l].locked /\ lists[Derived(x)][l].open
  BY <1>1, <1>2 DEF Inv, PromiseInv, StateInv, DeferredInv, Settles
<1>4. \E last \in 0 .. MaxDepth :
        /\ \A at \in 0 .. last - 1 : verdict[x][at] = "thenable"
        /\ verdict[x][last] = IF l = "done" THEN "value" ELSE "throws"
  BY <1>3 DEF Inv, VerdictInv
<1> QED BY <1>2, <1>4

\* The promise that then() returns takes the first verdict of its handler, and when
\* that is a thenable the first verdict of the thenable, and so on: one that calls
\* again, or after it was overtaken by the thenable that it resolved to, changes
\* nothing (resolve() and maxDepth).
THEOREM FirstVerdictStands == Spec => []VerdictStands
  BY ExchangeInvariant, VerdictFits, PTL


\* A list of an outcome that is at rest after it was fired has called everyone.
LEMMA RestCalled ==
  ASSUME NEW cb \in Cb, NEW a \in Seq(Ids), NEW r \in Seq(Ids), ListOK(cb), Follows(cb, a, r),
         cb.open, cb.locked, ~cb.firing
  PROVE  r = a
<1>1. cb.list = <<>> /\ cb.index = 0 BY DEF ListOK
<1>2. Len(cb.list) = 0 /\ Len(a) \in Nat /\ Len(r) \in Nat BY <1>1
<1>3. Len(r) = Len(a) BY <1>1, <1>2 DEF Follows, InStep, Shift
<1>4. \A i \in 1 .. Len(r) : r[i] = a[i] BY DEF Follows, Begins
<1> QED BY <1>3, <1>4

LEMMA AllCalled ==
  ASSUME Inv, NEW d \in Deferreds, NEW l \in Both, state[d] = l, ~lists[d][l].firing
  PROVE  ran[d][l] = added[d][l]
<1>1. l \in Lists /\ l \in UserLists BY ListNames
<1>2. lists[d][l] \in Cb /\ added[d][l] \in Seq(Ids) /\ ran[d][l] \in Seq(Ids)
  BY <1>1 DEF Inv, PromiseInv, TypeInv
<1>3. ListOK(lists[d][l]) /\ Follows(lists[d][l], added[d][l], ran[d][l])
  BY <1>1 DEF Inv, PromiseInv, ListsInv, ListFine
<1>4. lists[d][l].open /\ lists[d][l].locked
  BY DEF Inv, PromiseInv, StateInv, DeferredInv, Settles
<1> QED BY <1>2, <1>3, <1>4, RestCalled

LEMMA CompleteFits == Inv => CompleteComesLast
<1> SUFFICES ASSUME Inv, NEW x \in Requests
             PROVE  LET d == Main(x) IN
                    /\ Len(ran[d].complete) <= 1
                    /\ ran[d].complete # <<>> => state[d] # "pending"
                    /\ In("body") /\ ran[d].complete = <<Top.f>> =>
                         ran[d][state[d]] = added[d][state[d]]
  BY DEF CompleteComesLast
<1> DEFINE d == Main(x)
           cb == lists[d]["complete"]
           a == added[d]["complete"]
           r == ran[d]["complete"]
<1>1. d \in Deferreds /\ "complete" \in Lists /\ "complete" \in UserLists
  BY Names DEF Lists, UserLists
<1>2. /\ cb \in Cb /\ a \in Seq(Ids) /\ r \in Seq(Ids) /\ stack \in Seq(Frame)
      /\ state \in [Deferreds -> {"pending", "done", "fail"}]
  BY <1>1 DEF Inv, PromiseInv, TypeInv
<1>3. ListFine("complete", cb, a, r) BY <1>1 DEF Inv, PromiseInv, ListsInv
<1>4. Len(a) <= 1 /\ (cb.locked => state[d] # "pending") BY DEF Inv, PromiseInv, RequestInv
<1> HIDE DEF cb, a, r
<1>5. Begins(r, a) /\ InStep(cb, a, r) /\ ListOK(cb) /\ (~cb.locked => Shift(cb, a) = 0)
  BY <1>1, <1>3 DEF ListFine, Follows
<1>6. Len(r) <= 1
  <2>1. Len(r) \in Nat /\ Len(a) \in Nat BY <1>2
  <2> QED BY <1>4, <1>5, <2>1 DEF Begins
<1>7. ASSUME r # <<>> PROVE state[d] # "pending"
  <2>1. Len(r) # 0 BY <1>2, <1>7
  <2>2. cb.locked
    <3> SUFFICES ASSUME ~cb.locked PROVE FALSE OBVIOUS
    <3>1. cb.index = 0 BY <1>5 DEF ListOK
    <3> QED BY <1>5, <2>1, <3>1 DEF InStep
  <2> QED BY <1>4, <2>2
<1>8. ASSUME In("body"), r = <<Top.f>>
      PROVE  ran[d][state[d]] = added[d][state[d]]
  <2>1. stack # <<>> /\ Top = stack[1] /\ 1 \in 1 .. Len(stack) /\ stack[1].call = "body"
    BY <1>2, <1>8 DEF In, Top
  <2>2. a = <<stack[1].f>>
    <3>1. Len(r) = 1 /\ r[1] = Top.f BY <1>8
    <3>2. Len(a) = 1 /\ a[1] = r[1]
      <4>1. Len(a) \in Nat BY <1>2
      <4>2. Len(r) <= Len(a) /\ \A i \in 1 .. Len(r) : r[i] = a[i] BY <1>5 DEF Begins
      <4>3. 1 \in 1 .. Len(r) BY <3>1
      <4>4. Len(a) = 1
        <5> DEFINE n == Len(a)
                   k == Len(r)
        <5>1. n \in Nat /\ k = 1 /\ k <= n /\ n <= 1 BY <1>4, <3>1, <4>1, <4>2
        <5> HIDE DEF n, k
        <5>2. n = 1 BY <5>1
        <5> QED BY <5>2 DEF n
      <4> QED BY <4>2, <4>3, <4>4
    <3> QED BY <1>2, <2>1, <3>1, <3>2
  <2>3. Finishing(x, stack[1], Completes) BY <2>1, <2>2 DEF Finishing, Completes, a
  <2>4. PICK l \in Both : state[d] = l
    <3>1. r # <<>> BY <1>8
    <3> QED BY <1>1, <1>2, <1>7, <3>1 DEF Both
  <2>5. ~lists[d][l].firing
    <3> SUFFICES ASSUME lists[d][l].firing PROVE FALSE OBVIOUS
    <3>1. <<d, l>> \in Running BY <1>1, ListNames DEF Running
    <3>2. Orderly(stack, Running, Completes) BY DEF Inv, PromiseInv, StackInv, StackOK
    <3>3. \E j \in 1 .. Len(stack) : j < 1 /\ stack[j] = Loop(Main(x), l)
      BY <2>1, <2>3, <3>1, <3>2 DEF Orderly
    <3> QED BY <3>3
  <2>6. ran[d][l] = added[d][l] BY <1>1, <2>4, <2>5, AllCalled
  <2> QED BY <2>4, <2>6
<1> QED BY <1>6, <1>7, <1>8 DEF r

LEMMA NobodyFits == Inv => NobodyForgotten
<1> SUFFICES ASSUME Inv, Idle, ~thrown, NEW d \in Deferreds, state[d] # "pending"
             PROVE  ran[d][state[d]] = added[d][state[d]]
  BY DEF NobodyForgotten
<1>1. PICK l \in Both : state[d] = l BY DEF Inv, PromiseInv, TypeInv, Both
<1>2. ~lists[d][l].firing
  <2> SUFFICES ASSUME lists[d][l].firing PROVE FALSE OBVIOUS
  <2>1. l \in Lists BY ListNames
  <2>2. <<d, l>> \in Running BY <2>1 DEF Running
  <2>3. Covered(stack, Running) BY DEF Inv, PromiseInv, StackInv, StackOK
  <2>4. \E i \in 1 .. Len(stack) : stack[i] = Loop(d, l) BY <2>1, <2>2, <2>3 DEF Covered
  <2> QED BY <2>4 DEF Idle
<1>3. ran[d][l] = added[d][l] BY <1>1, <1>2, AllCalled
<1> QED BY <1>1, <1>3

\* Every callback is called in its turn, whatever callbacks register, abort or send
\* while they run and however many lists are firing: the complete callback, in which
\* the page cleans up, is called at most once, after the outcome is known, and while it
\* is what runs every callback of the outcome has been called; and at rest, unless one
\* of them has thrown, nobody who registered for the outcome was forgotten, however
\* late he came (jQuery.Callbacks(), done()).
THEOREM CallbacksComeInTurn == Spec => []CalledInTurn
<1>1. Inv => CalledInTurn BY CompleteFits, NobodyFits DEF CalledInTurn
<1> QED BY <1>1, ExchangeInvariant, PTL


(***************************************************************************)
(* The two lists of a deferred implement the promise of Settlement.        *)
(***************************************************************************)
\* What the promise sees of the registered and of the called.
Seen(rows) == [d \in Deferreds |-> [o \in {"done", "fail"} |-> rows[d][o]]]

LEMMA PromiseStarts == Init => Abstract!Start
<1> SUFFICES ASSUME Init PROVE Abstract!Start OBVIOUS
<1>1. /\ state = [d \in Deferreds |-> "pending"]
      /\ added = [d \in Deferreds |-> [l \in UserLists |-> <<>>]]
      /\ ran = [d \in Deferreds |-> [l \in UserLists |-> <<>>]]
  BY DEF Init
<1>2. \A o \in {"done", "fail"} : o \in UserLists BY DEF UserLists
<1>3. Seen(added) = [d \in Deferreds |-> [o \in {"done", "fail"} |-> <<>>]]
      /\ Seen(ran) = [d \in Deferreds |-> [o \in {"done", "fail"} |-> <<>>]]
  BY <1>1, <1>2 DEF Seen
<1> QED BY <1>1, <1>3 DEF Abstract!Start, Abstract!Outcomes, Seen

\* The loop of a list of an outcome calls a callback when that is the outcome.
LEMMA OutcomeOfCall ==
  ASSUME Inv, NEW d \in Deferreds, NEW l \in Both, lists[d][l].open
  PROVE  /\ lists[d][l].index + Shift(lists[d][l], added[d][l]) >= 0 => state[d] = l
         /\ lists[d][l].index + Shift(lists[d][l], added[d][l]) = -2 => state[d] = "pending"
<1>1. state[d] \in {"pending"} \union Both BY DEF Inv, PromiseInv, TypeInv, Both
<1>2. DeferredInv(d) BY DEF Inv, PromiseInv, StateInv
<1>3. state[d] # Opposite(l) BY <1>2, ListNames DEF DeferredInv, Settles
<1>4. ASSUME state[d] = "pending"
      PROVE  lists[d][l].index + Shift(lists[d][l], added[d][l]) = -2
  BY <1>2, <1>4 DEF DeferredInv, Untouched
<1>5. ASSUME state[d] = l
      PROVE  lists[d][l].index + Shift(lists[d][l], added[d][l]) >= -1
  BY <1>2, <1>5 DEF DeferredInv, Past
<1>6. state[d] \in {"pending", l} BY <1>1, <1>3, ListNames
<1> QED BY <1>4, <1>5, <1>6

LEMMA CallImplements ==
  ASSUME Inv, CallNext
  PROVE  Abstract!Step \/ UNCHANGED <<state, Seen(added), Seen(ran)>>
<1> DEFINE d == Top.d
           l == Top.l
           cb == lists[d][l]
           f == NextCall(cb)
<1>1. CallBy(d, l, cb, f) BY CallShape DEF Inv
<1>2. /\ d \in Deferreds /\ l \in Lists /\ cb \in Cb /\ cb.firing /\ cb.open /\ HasCall(cb)
      /\ ListFine(l, cb, added[d][l], ran[d][l]) /\ added' = added /\ cb = lists[d][l]
      /\ f = NextCall(cb)
      /\ (l \in UserLists => added[d][l] \in Seq(Ids) /\ ran[d][l] \in Seq(Ids))
  BY <1>1 DEF CallBy
<1>3. \/ /\ f.kind = "user" /\ UNCHANGED state /\ ran' = [ran EXCEPT ![d][l] = Append(@, f.id)]
      \/ f.kind = "settle" /\ state' = [state EXCEPT ![d] = l] /\ UNCHANGED ran
      \/ UNCHANGED <<state, ran>>
  BY DEF CallNext
<1> HIDE DEF f, cb, l, d
<1>4. /\ f.kind = "user" =>
           /\ l \in UserLists /\ cb.index + Shift(cb, added[d][l]) >= 0
           /\ Len(ran[d][l]) < Len(added[d][l]) /\ f.id = added[d][l][Len(ran[d][l]) + 1]
           /\ f.id \in Ids
      /\ f.kind = "settle" => l \in Both /\ cb.index = 0 /\ Shift(cb, added[d][l]) = -2
  BY <1>2, CallFine
<1>5. ran \in [Deferreds -> [UserLists -> Seq(Ids)]]
      /\ state \in [Deferreds -> {"pending", "done", "fail"}]
  BY DEF Inv, PromiseInv, TypeInv
<1>6. CASE f.kind = "user" /\ UNCHANGED state /\ ran' = [ran EXCEPT ![d][l] = Append(@, f.id)]
  <2> DEFINE r == Append(ran[d][l], f.id)
  <2>1. ran' = [ran EXCEPT ![d][l] = r] /\ l \in UserLists BY <1>4, <1>6
  <2> HIDE DEF r
  <2>2. \A e \in Deferreds, m \in UserLists :
          ran'[e][m] = IF e = d /\ m = l THEN r ELSE ran[e][m]
    BY <1>2, <1>5, <2>1
  <2>3. CASE l \notin Both
    <3>1. \A e \in Deferreds, o \in {"done", "fail"} : ran'[e][o] = ran[e][o]
      BY <2>2, <2>3, ListNames DEF Both
    <3>2. Seen(ran') = Seen(ran) BY <3>1 DEF Seen
    <3>3. Seen(ran)' = Seen(ran') BY DEF Seen
    <3> QED BY <1>2, <1>6, <3>2, <3>3 DEF Seen
  <2>4. CASE l \in Both
    <3>1. state[d] = l BY <1>2, <1>4, <1>6, <2>4, OutcomeOfCall
    <3>2. Seen(ran)[d][l] = ran[d][l] /\ Seen(added)[d][l] = added[d][l]
      BY <1>2, <2>4 DEF Seen, Both
    <3>3. Seen(ran)' = [Seen(ran) EXCEPT ![d][l] = r]
      <4>1. Seen(ran)' = [e \in Deferreds |-> [o \in {"done", "fail"} |->
                            IF e = d /\ o = l THEN r ELSE ran[e][o]]]
        BY <2>2, ListNames DEF Seen, Both
      <4>2. [Seen(ran) EXCEPT ![d][l] = r] = [e \in Deferreds |-> [o \in {"done", "fail"} |->
                            IF e = d /\ o = l THEN r ELSE ran[e][o]]]
        BY <1>2, <2>4 DEF Seen, Both
      <4> QED BY <4>1, <4>2
    <3>4. state[d] # "pending" BY <2>4, <3>1 DEF Both
    <3>5. Seen(added)' = Seen(added) BY <1>2 DEF Seen
    <3>6. /\ Len(Seen(ran)[d][l]) < Len(Seen(added)[d][l])
          /\ r = Append(Seen(ran)[d][l], Seen(added)[d][l][Len(Seen(ran)[d][l]) + 1])
      BY <1>4, <1>6, <3>2 DEF r
    <3>7. PICK p \in Deferreds : p = d BY <1>2
    <3>8. Abstract!Call(p) BY <1>6, <3>1, <3>3, <3>4, <3>5, <3>6, <3>7 DEF Abstract!Call, Seen
    <3> QED BY <3>8 DEF Abstract!Step
  <2> QED BY <2>3, <2>4
<1>7. CASE f.kind = "settle" /\ state' = [state EXCEPT ![d] = l] /\ UNCHANGED ran
  <2>1. l \in Both /\ cb.index + Shift(cb, added[d][l]) = -2 BY <1>4, <1>7
  <2>2. state[d] = "pending" BY <1>2, <2>1, OutcomeOfCall
  <2>3. Abstract!Settle(d)
    BY <1>2, <1>7, <2>1, <2>2 DEF Abstract!Settle, Abstract!Outcomes, Both
  <2> QED BY <1>2, <2>3 DEF Abstract!Step
<1>8. CASE UNCHANGED <<state, ran>> BY <1>2, <1>8 DEF Seen
<1> QED BY <1>3, <1>6, <1>7, <1>8

LEMMA RegisterImplements ==
  ASSUME Inv, NEW d \in Deferreds, NEW ls \in SUBSET Both, Register(d, ls)
  PROVE  Abstract!Step
<1>1. /\ added' = [added EXCEPT ![d] = [l \in UserLists |-> IF l \in ls THEN Append(@[l], Fresh)
                                                            ELSE @[l]]]
      /\ UNCHANGED <<state, ran>>
  BY DEF Register, promiseVars
<1>2. added \in [Deferreds -> [UserLists -> Seq(Ids)]] BY DEF Inv, PromiseInv, TypeInv
<1> DEFINE row == [l \in UserLists |-> IF l \in ls THEN Append(added[d][l], Fresh) ELSE added[d][l]]
<1>3. added' = [added EXCEPT ![d] = row] BY <1>1
<1>4. \A l \in UserLists : row[l] = IF l \in ls THEN Append(added[d][l], Fresh) ELSE added[d][l]
  OBVIOUS
<1> HIDE DEF row
<1>5. ASSUME NEW e \in Deferreds, NEW o \in {"done", "fail"}
      PROVE  \/ Seen(added)'[e][o] = Seen(added)[e][o]
             \/ e = d /\ Abstract!LongerByOne(Seen(added)[e][o], Seen(added)'[e][o])
  <2>1. o \in UserLists BY DEF UserLists
  <2>2. Seen(added)'[e][o] = added'[e][o] /\ Seen(added)[e][o] = added[e][o] BY DEF Seen
  <2>3. CASE e # d BY <1>2, <1>3, <2>2, <2>3
  <2>4. CASE e = d /\ o \notin ls BY <1>2, <1>3, <1>4, <2>1, <2>2, <2>4
  <2>5. CASE e = d /\ o \in ls
    <3> DEFINE s == added[d][o]
               t == Append(s, Fresh)
    <3>1. added'[e][o] = t BY <1>2, <1>3, <1>4, <2>1, <2>5
    <3>2. s \in Seq(Ids) BY <1>2, <2>1
    <3>0. t \in Seq(Ids)
      <4>1. PICK n \in Nat : Fresh = n + 1 BY FreshIs DEF Inv, PromiseInv
      <4>2. Fresh \in Ids BY <1>1, <4>1, ExchangeAssumption DEF Register, Ids
      <4> QED BY <3>2, <4>2
    <3> HIDE DEF s
    <3>3. Len(t) = Len(s) + 1 /\ \A i \in 1 .. Len(s) : t[i] = s[i] BY <3>2
    <3> HIDE DEF t
    <3>4. SubSeq(t, 1, Len(s)) = s
      <4>1. Len(s) \in Nat /\ Len(s) <= Len(t) BY <3>2, <3>3
      <4>2. /\ SubSeq(t, 1, Len(s)) \in Seq(Ids) /\ Len(SubSeq(t, 1, Len(s))) = Len(s)
            /\ \A i \in 1 .. Len(s) : SubSeq(t, 1, Len(s))[i] = t[i]
        BY <3>0, <4>1
      <4> QED BY <3>2, <3>3, <4>2
    <3>5. Abstract!LongerByOne(s, t) BY <3>3, <3>4 DEF Abstract!LongerByOne
    <3> QED BY <2>2, <2>5, <3>1, <3>5 DEF s
  <2> QED BY <2>3, <2>4, <2>5
<1>6. Seen(ran)' = Seen(ran) BY <1>1 DEF Seen
<1>7. Abstract!Register(d)
  BY <1>1, <1>5, <1>6 DEF Abstract!Register, Abstract!Outcomes, Seen
<1> QED BY <1>7 DEF Abstract!Step

LEMMA PromiseSteps ==
  ASSUME Inv, [Next]_vars
  PROVE  Abstract!Step \/ UNCHANGED <<state, Seen(added), Seen(ran)>>
<1> DEFINE Same2 == UNCHANGED <<state, Seen(added), Seen(ran)>>
<1>1. ASSUME UNCHANGED <<state, added, ran>> PROVE Same2 BY <1>1 DEF Seen
<1>2. ASSUME \/ UNCHANGED vars \/ LoopTurns \/ doneComplete \/ doneFinish \/ Return \/ Throw
      PROVE  UNCHANGED <<state, added, ran>>
  BY <1>2 DEF vars, promiseVars, history, LoopTurns, doneComplete, doneFinish, Return, Throw
<1>3. ASSUME NEW x \in Requests, XhrEvent(x) \/ TimeoutFires(x) \/ UserAborts(x) \/ then(x)
      PROVE  UNCHANGED <<state, added, ran>>
  BY <1>3 DEF XhrEvent, TimeoutFires, UserAborts, then, promiseVars, history
<1>4. ASSUME \/ \E x \in Requests, at \in 1 .. MaxDepth : ThenableCalls(x, at)
             \/ \E t \in tasks : Process(t)
      PROVE  UNCHANGED <<state, added, ran>>
  BY <1>4 DEF ThenableCalls, Process
<1>5. ASSUME NEW x \in Requests, ajax(x) PROVE Same2
  <2>1. /\ added' = [added EXCEPT ![Main(x)].complete = Append(@, Fresh)]
        /\ UNCHANGED <<state, ran>>
    BY <1>5 DEF ajax, promiseVars
  <2>2. added \in [Deferreds -> [UserLists -> Seq(Ids)]] BY DEF Inv, PromiseInv, TypeInv
  <2>3. \A e \in Deferreds, o \in {"done", "fail"} : added'[e][o] = added[e][o]
    BY <2>1, <2>2 DEF UserLists
  <2>4. Seen(added)' = Seen(added) BY <2>3 DEF Seen
  <2>5. Seen(ran)' = Seen(ran) BY <2>1 DEF Seen
  <2> QED BY <2>1, <2>4, <2>5
<1>6. ASSUME NEW x \in Requests, NEW ls \in (SUBSET {"done", "fail"}) \ {{}},
             Register(Main(x), ls) \/ Register(Derived(x), ls)
      PROVE  Abstract!Step
  <2>1. ls \in SUBSET Both BY DEF Both
  <2>2. Main(x) \in Deferreds /\ Derived(x) \in Deferreds BY Names
  <2> QED BY <1>6, <2>1, <2>2, RegisterImplements
<1>7. CASE CallNext BY <1>7, CallImplements
<1>9. \/ UNCHANGED vars \/ LoopTurns \/ doneComplete \/ doneFinish \/ Return \/ Throw
      \/ CallNext
      \/ \E x \in Requests : ajax(x)
      \/ \E x \in Requests : XhrEvent(x) \/ TimeoutFires(x) \/ UserAborts(x) \/ then(x)
      \/ \E x \in Requests : \E ls \in (SUBSET {"done", "fail"}) \ {{}} :
           Register(Main(x), ls) \/ Register(Derived(x), ls)
      \/ \E x \in Requests, at \in 1 .. MaxDepth : ThenableCalls(x, at)
      \/ \E t \in tasks : Process(t)
  BY DEF Next, Machine
<1> QED BY <1>1, <1>2, <1>3, <1>4, <1>5, <1>6, <1>7, <1>9

\* jQuery.Deferred() and the two callback lists of each deferred implement a promise:
\* it settles once, its callbacks of the outcome are called in the order of their
\* registration, each once, and those of the other outcome never, whatever callbacks do
\* while they run, and also after one of them has thrown.
THEOREM DeferredsArePromises == Spec => ImplementsPromise
<1>1. Init => Abstract!Start BY PromiseStarts
<1>2. Inv /\ [Next]_vars =>
        [Abstract!Step]_<<state, [d \in Deferreds |-> [o \in {"done", "fail"} |-> added[d][o]]],
                          [d \in Deferreds |-> [o \in {"done", "fail"} |-> ran[d][o]]]>>
  BY PromiseSteps DEF Seen
<1> QED BY <1>1, <1>2, ExchangeInvariant, PTL DEF Spec, ImplementsPromise, Abstract!Promise
=============================================================================
