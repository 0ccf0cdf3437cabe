------------------------------ MODULE Exchange ------------------------------
(***************************************************************************)
(* jQuery.ajax and the promise of its jqXHR (jQuery.Deferred): requests of *)
(* the page, the events of XMLHttpRequest, the timeout timer, and the      *)
(* callbacks, which may register others, abort or send while they run.     *)
(* JavaScript runs one call at a time: stack holds the calls in progress,  *)
(* the innermost first, and an event begins when it is empty.              *)
(***************************************************************************)
EXTENDS CallbackList, Responses, FiniteSets

CONSTANTS
  Requests,     \* the calls of $.ajax
  Chained,      \* those on whose promise then() may be called
  MaxCallbacks, \* bound: callbacks that are registered
  MaxDepth,     \* bound: thenables that resolve to another one
  Throws        \* callbacks may throw

ASSUME ExchangeAssumption == IsFiniteSet(Requests) /\ {MaxCallbacks, MaxDepth} \subseteq Nat

VARIABLES
  lists,     \* the callback lists of each deferred
  state,     \* of each deferred: "pending", or the list of its outcome
  completed, \* of each request: "unset", "no" once it is sent, "yes"
  transport, \* requests whose transport is defined
  timer,     \* requests whose timeout is armed
  handlers,  \* requests whose XMLHttpRequest has its handlers
  active,    \* jQuery.active
  depth,     \* maxDepth of then(), for each request; 0 before any thenable
  chained,   \* requests whose then() was called
  tasks,     \* functions given to setTimeout by then()
  stack,     \* calls in progress
  endings,   \* auxiliary: how answers and aborts may end under the options; constant
  added, ran,\* auxiliary: the callbacks registered and called, per list
  verdict,   \* auxiliary: the first result of a handler and of each thenable
  thrown     \* auxiliary: a callback has thrown

ajaxVars == <<completed, transport, timer, handlers, active, endings>>
promiseVars == <<state, depth, chained, tasks>>
history == <<added, ran, verdict, thrown>>
vars == <<lists, stack, ajaxVars, promiseVars, history>>

\* Each request has the deferred of its jqXHR and the one that then() returns.
Main(x) == <<x, "jqXHR">>
Derived(x) == <<x, "then">>
Deferreds == Requests \X {"jqXHR", "then"}
Lists == {"done", "fail", "onDone", "onFail", "complete"}
UserLists == {"done", "fail", "complete"}

Builtin(name) == [kind |-> name, id |-> 0]
User(id) == [kind |-> "user", id |-> id]

\* What jQuery.Deferred puts on the lists before anybody else: settle stands for
\* the functions that set the state and disable the lists of the other outcome.
Deferred == [l \in Lists |-> IF l \in {"done", "fail"}
                             THEN add(Callbacks(TRUE, TRUE),
                                      <<Builtin("settle"), Builtin("fireHandlers")>>)
                             ELSE Callbacks(TRUE, TRUE)]

Opposite(l) == IF l = "done" THEN "fail" ELSE "done"
Handlers(l) == IF l = "done" THEN "onDone" ELSE "onFail"

Loop(d, l) == [call |-> "loop", d |-> d, l |-> l]
Body(f) == [call |-> "body", f |-> f]
Done(x, at) == [call |-> "done", x |-> x, at |-> at]

Idle == stack = <<>>
Top == Head(stack)
In(call) == stack # <<>> /\ Top.call = call
UserTurn == Idle \/ In("body")

Registered == UNION {{added[d][l][i] : i \in DOMAIN added[d][l]} :
                       d \in Deferreds, l \in UserLists}
Fresh == Cardinality(Registered) + 1

\* The outcomes of an answer, and of an abort, a timeout or a send() that threw.
Answered == Ends({FromXhr("load", xhr) : xhr \in Answers}
                 \union {FromXhr("error", [status |-> 0, native |-> ""])})
Cancelled == Ends({Aborted("abort"), Aborted("timeout")})

Init ==
  /\ lists = [d \in Deferreds |-> Deferred]
  /\ state = [d \in Deferreds |-> "pending"]
  /\ completed = [x \in Requests |-> "unset"]
  /\ transport = {} /\ timer = {} /\ handlers = {} /\ active = 0
  /\ endings = [answer |-> Answered, abort |-> Cancelled]
  /\ depth = [x \in Requests |-> 0] /\ chained = {} /\ tasks = {} /\ stack = <<>>
  /\ added = [d \in Deferreds |-> [l \in UserLists |-> <<>>]]
  /\ ran = [d \in Deferreds |-> [l \in UserLists |-> <<>>]] /\ thrown = FALSE
  /\ verdict = [x \in Requests |-> [at \in 0 .. MaxDepth |-> "none"]]

(***************************************************************************)
(* Operating on a list of d; when that starts its loop, the loop is called *)
(* on top of under.                                                        *)
(***************************************************************************)
Operate(d, l, op(_), under) ==
  /\ lists' = [lists EXCEPT ![d][l] = op(@)]
  /\ stack' = IF lists'[d][l].firing /\ ~lists[d][l].firing
              THEN <<Loop(d, l)>> \o under ELSE under

\* Variant: the complete callbacks come before the others.
doneCompleteFirst(x, how, under) ==
  IF completed[x] = "yes"
  THEN stack' = under /\ UNCHANGED <<lists, completed, timer, transport, thrown>>
  ELSE /\ completed' = [completed EXCEPT ![x] = "yes"]
       /\ timer' = timer \ {x} /\ transport' = transport \ {x}
       /\ UNCHANGED thrown
       /\ how # "throws"
       /\ lists' = [lists EXCEPT ![Main(x)].complete = fireWith(@), ![Main(x)][how] = fireWith(@)]
       /\ stack' = <<Loop(Main(x), "complete"), Loop(Main(x), how), Done(x, "finish")>> \o under
\* done(), up to the call of the success or error callbacks; a converter that throws
\* under the setting "throws" ends it before, with every call in progress.
done(x, how, under) ==
  IF completed[x] = "yes"
  THEN stack' = under /\ UNCHANGED <<lists, completed, timer, transport, thrown>>
  ELSE /\ completed' = [completed EXCEPT ![x] = "yes"]
       /\ timer' = timer \ {x} /\ transport' = transport \ {x}
       /\ IF how = "throws" THEN thrown' = TRUE /\ stack' = <<>> /\ UNCHANGED lists
          ELSE /\ Operate(Main(x), how, fireWith, <<Done(x, "complete")>> \o under)
               /\ UNCHANGED thrown

\* ... its call of the complete callbacks, and the count of active requests.
doneComplete ==
  /\ In("done") /\ Top.at = "complete"
  /\ Operate(Main(Top.x), "complete", fireWith, <<Done(Top.x, "finish")>> \o Tail(stack))
  /\ UNCHANGED <<ajaxVars, promiseVars, history>>
doneFinish ==
  /\ In("done") /\ Top.at = "finish"
  /\ active' = active - 1 /\ stack' = Tail(stack)
  /\ UNCHANGED <<lists, completed, transport, timer, handlers, endings, promiseVars, history>>

\* Variant: the timeout is not armed.
ajaxWithoutTimeout(x) ==
  /\ UserTurn /\ completed[x] = "unset" /\ Fresh <= MaxCallbacks
  /\ active' = active + 1 /\ completed' = [completed EXCEPT ![x] = "no"]
  /\ added' = [added EXCEPT ![Main(x)].complete = Append(@, Fresh)]
  /\ lists' = [lists EXCEPT ![Main(x)].complete = add(@, <<User(Fresh)>>)]
  /\ transport' = transport \union {x} /\ handlers' = handlers \union {x}
  /\ UNCHANGED <<timer, stack, endings, promiseVars, ran, verdict, thrown>>
\* $.ajax with a complete callback and a timeout; send() may throw.
ajax(x) ==
  /\ UserTurn /\ completed[x] = "unset" /\ Fresh <= MaxCallbacks
  /\ active' = active + 1
  /\ added' = [added EXCEPT ![Main(x)].complete = Append(@, Fresh)]
  /\ UNCHANGED <<endings, promiseVars, ran, verdict>>
  /\ LET with == [lists EXCEPT ![Main(x)].complete = add(@, <<User(Fresh)>>)] IN
     \/ /\ completed' = [completed EXCEPT ![x] = "no"]
        /\ transport' = transport \union {x} /\ timer' = timer \union {x}
        /\ handlers' = handlers \union {x} /\ lists' = with /\ UNCHANGED <<stack, thrown>>
     \/ /\ completed' = [completed EXCEPT ![x] = "yes"]
        /\ \/ /\ lists' = [with EXCEPT ![Main(x)].fail = fireWith(@)]
              /\ stack' = <<Loop(Main(x), "fail"), Done(x, "complete")>> \o stack
              /\ UNCHANGED thrown
           \/ /\ "throws" \in endings.abort /\ lists' = with /\ stack' = <<>> /\ thrown' = TRUE
        /\ UNCHANGED <<transport, timer, handlers>>

\* Variant: the handlers stay on the XMLHttpRequest.
abortKeepsHandlers(x, under) == /\ UNCHANGED <<handlers, active, endings>>
                                /\ \E how \in endings.abort : done(x, how, under)
abort(x, under) ==
  /\ handlers' = IF x \in transport THEN handlers \ {x} ELSE handlers
  /\ UNCHANGED <<active, endings>>
  /\ \E how \in endings.abort : done(x, how, under)

\* An event of the XMLHttpRequest: an answer, good or bad, or an error.
XhrEvent(x) ==
  /\ Idle /\ x \in handlers
  /\ handlers' = handlers \ {x}
  /\ \E how \in endings.answer : done(x, how, <<>>)
  /\ UNCHANGED <<active, endings, promiseVars, added, ran, verdict>>
TimeoutFires(x) ==
  /\ Idle /\ x \in timer
  /\ abort(x, <<>>)
  /\ UNCHANGED <<promiseVars, added, ran, verdict>>
UserAborts(x) ==
  /\ UserTurn /\ completed[x] # "unset"
  /\ abort(x, stack)
  /\ UNCHANGED <<promiseVars, added, ran, verdict>>

(***************************************************************************)
(* Registering: done(), fail(), always() and then().  A list that has been *)
(* fired is fired again for the newcomer; only one of the two can have.    *)
(***************************************************************************)
AddTo(d, ls, f) ==
  /\ lists' = [lists EXCEPT ![d] = [l \in Lists |-> IF l \in ls THEN add(@[l], <<f>>) ELSE @[l]]]
  /\ LET begun == {l \in ls : lists'[d][l].firing /\ ~lists[d][l].firing}
     IN  stack' = IF begun = {} THEN stack
                  ELSE <<Loop(d, CHOOSE l \in begun : TRUE)>> \o stack

Register(d, ls) ==
  /\ UserTurn /\ completed[d[1]] # "unset" /\ Fresh <= MaxCallbacks
  /\ added' = [added EXCEPT ![d] = [l \in UserLists |-> IF l \in ls THEN Append(@[l], Fresh)
                                                       ELSE @[l]]]
  /\ AddTo(d, ls, User(Fresh))
  /\ UNCHANGED <<ajaxVars, promiseVars, ran, verdict, thrown>>

then(x) ==
  /\ UserTurn /\ completed[x] # "unset" /\ x \in Chained \ chained
  /\ chained' = chained \union {x}
  /\ AddTo(Main(x), {"onDone", "onFail"}, Builtin("then"))
  /\ UNCHANGED <<ajaxVars, state, depth, tasks, history>>

(***************************************************************************)
(* The loop of a list: its next function, or the end of the pass.          *)
(***************************************************************************)
\* The lists of the other outcome are disabled.
Settled(all, d, l) == [all EXCEPT ![d][Opposite(l)] = disable(@),
                                  ![d][Handlers(Opposite(l))] = disable(@)]
CallNext ==
  LET d == Top.d  l == Top.l
      cb == lists[d][l]
      f == NextCall(cb)
      after == [lists EXCEPT ![d][l] = AfterCall(@)]
  IN  /\ In("loop") /\ HasCall(lists[Top.d][Top.l])
      /\ UNCHANGED <<ajaxVars, depth, chained, added, verdict, thrown>>
      /\ \/ /\ f.kind = "user"
            /\ lists' = after /\ stack' = <<Body(f.id)>> \o stack
            /\ ran' = [ran EXCEPT ![d][l] = Append(@, f.id)]
            /\ UNCHANGED <<state, tasks>>
         \/ /\ f.kind = "settle"
            /\ state' = [state EXCEPT ![d] = l] /\ lists' = Settled(after, d, l)
            /\ UNCHANGED <<stack, tasks, ran>>
         \/ /\ f.kind = "fireHandlers"
            /\ lists' = [after EXCEPT ![d][Handlers(l)] = fireWith(@)]
            /\ stack' = <<Loop(d, Handlers(l))>> \o stack
            /\ UNCHANGED <<state, tasks, ran>>
         \/ /\ f.kind = "then"
            /\ tasks' = tasks \union {[x |-> d[1], ok |-> l = "onDone"]}
            /\ lists' = after /\ UNCHANGED <<stack, state, ran>>

LoopTurns ==
  LET cb == lists[Top.d][Top.l] IN
  /\ In("loop") /\ ~HasCall(cb)
  /\ lists' = [lists EXCEPT ![Top.d][Top.l] = Turn(@)]
  /\ stack' = IF Turn(cb).firing THEN stack ELSE Tail(stack)
  /\ UNCHANGED <<ajaxVars, promiseVars, history>>

Return == /\ In("body") /\ stack' = Tail(stack)
          /\ UNCHANGED <<lists, ajaxVars, promiseVars, history>>
\* An exception leaves every call in progress, and their loops stay firing.
Throw == /\ Throws /\ In("body") /\ stack' = <<>> /\ thrown' = TRUE
         /\ UNCHANGED <<lists, ajaxVars, promiseVars, added, ran, verdict>>

(***************************************************************************)
(* then(): a handler's value settles the derived deferred, an exception    *)
(* rejects it, a thenable decides for it.  at is the number of thenables   *)
(* between the handler and the one that calls.                             *)
(***************************************************************************)
Results == {"value", "thenable", "throws"}
Note(x, at, result) == verdict' = [verdict EXCEPT ![x][at] = IF @ = "none" THEN result ELSE @]
\* Variant: a thenable that was replaced by the one it resolved to still counts.
resolveAnyDepth(x, at, result) ==
  \/ /\ result # "thenable" /\ UNCHANGED depth
     /\ Operate(Derived(x), IF result = "value" THEN "done" ELSE "fail", fireWith, <<>>)
  \/ /\ result = "thenable" /\ depth[x] < MaxDepth
     /\ depth' = [depth EXCEPT ![x] = @ + 1] /\ stack' = <<>> /\ UNCHANGED lists
resolve(x, at, result) ==
  \/ /\ at < depth[x] /\ stack' = <<>> /\ UNCHANGED <<lists, depth>>
  \/ /\ at >= depth[x] /\ result # "thenable" /\ UNCHANGED depth
     /\ Operate(Derived(x), IF result = "value" THEN "done" ELSE "fail", fireWith, <<>>)
  \/ /\ at >= depth[x] /\ result = "thenable" /\ depth[x] < MaxDepth
     /\ depth' = [depth EXCEPT ![x] = @ + 1] /\ stack' = <<>> /\ UNCHANGED lists

\* The task of a handler ...
Process(t) ==
  /\ Idle /\ tasks' = tasks \ {t}
  /\ \E result \in Results : resolve(t.x, 0, result) /\ Note(t.x, 0, result)
  /\ UNCHANGED <<ajaxVars, state, chained, added, ran, thrown>>
\* ... and a call by a thenable, an event of its own that may come repeatedly.
ThenableCalls(x, at) ==
  /\ Idle /\ at \in 1 .. depth[x]
  /\ \E result \in Results : resolve(x, at, result) /\ Note(x, at, result)
  /\ UNCHANGED <<ajaxVars, state, chained, tasks, added, ran, thrown>>

Machine == CallNext \/ LoopTurns \/ doneComplete \/ doneFinish \/ Return
Next ==
  \/ Machine \/ Throw
  \/ \E x \in Requests :
       \/ ajax(x) \/ XhrEvent(x) \/ TimeoutFires(x) \/ UserAborts(x) \/ then(x)
       \/ \E ls \in (SUBSET {"done", "fail"}) \ {{}} :
            \/ Register(Main(x), ls)
            \/ x \in chained /\ Register(Derived(x), ls)
       \/ \E at \in 1 .. MaxDepth : ThenableCalls(x, at)
  \/ \E t \in tasks : Process(t)

Spec == Init /\ [][Next]_vars
\* Calls that began run on, an armed timer fires, a task is run.
FairSpec == Spec /\ WF_vars(Machine)
                 /\ \A x \in Requests : WF_vars(TimeoutFires(x))
                 /\ WF_vars(\E t \in tasks : Process(t))

-----------------------------------------------------------------------------
(***************************************************************************)
(* Properties.                                                             *)
(***************************************************************************)
TypeOK ==
  /\ lists \in [Deferreds -> [Lists -> [
       list : Seq([kind : {"user", "settle", "fireHandlers", "then"}, id : 0 .. MaxCallbacks]),
       open : BOOLEAN, queue : 0 .. 1, index : Nat, firing : BOOLEAN,
       memory : BOOLEAN, locked : BOOLEAN, once : BOOLEAN, keeps : BOOLEAN]]]
  /\ state \in [Deferreds -> {"pending", "done", "fail"}]
  /\ completed \in [Requests -> {"unset", "no", "yes"}]
  /\ {transport, timer, handlers, chained} \subseteq SUBSET Requests
  /\ active \in 0 .. Cardinality(Requests) /\ depth \in [Requests -> 0 .. MaxDepth]
  /\ tasks \subseteq [x : Requests, ok : BOOLEAN]

\* A request that is over hears of nothing any more: no timeout is armed and no
\* handler is left for a late answer; one that is not over has both.  At rest
\* jQuery.active is the number of those, unless an exception skipped its decrement.
OverIsSilent ==
  /\ \A x \in Requests : completed[x] # "unset" =>
       /\ completed[x] = "no" <=> x \in timer
       /\ x \in timer <=> x \in handlers
  /\ Idle /\ ~thrown => active = Cardinality({x \in Requests : completed[x] = "no"})

\* What the callbacks are told fits the answer: a success is an answer of success
\* whose text can be read as all that was wanted of it, its data is that reading,
\* and responseText and responseJSON are there whenever the text came and could be
\* read, also with an error.  Nothing but a text that cannot be read keeps the
\* callbacks from being called, and only when the request asked for exceptions
\* (ajaxHandleResponses(), ajaxConvert(), done()).
TellsWhatCame(o, h, called) ==
  LET s == Prepared(o)
      told == Told(s, h, called)
      came == CHOOSE type \in DOMAIN h.responses : TRUE
      steps == Readings(Value(came, h.responses[came]), Wanted(o, h.header))
      Read == IF h.responses = Nothing \/ "script" = s.dataTypes[1]
              THEN called \/ "json" \notin ToSet(s.dataTypes) ELSE Last(steps).as # "error"
      good == h.status \in (200 .. 299) \union {304}
      without == h.status \in {204, 304} \/ s.method = "HEAD"
  IN  /\ told.outcome = "throws" => s.throws /\ (h.responses = Nothing \/ ~Read)
      /\ told.outcome = "done" <=> good /\ (without \/ Read) /\ told.outcome # "throws"
      /\ told.text = "success" /\ h.responses # Nothing /\ s.dataTypes[1] # "script" =>
           told.data = Last(steps)
      /\ DOMAIN h.responses = {"text"} /\ s.dataTypes[1] # "script"
         /\ (\A i \in 1 .. Len(steps) - 1 : steps[i].as \notin Objects) =>
           \A type \in {"text", "json"} :
             LET read == {i \in DOMAIN steps : steps[i].as = type}
             IN  told.fields[type] = IF read = {} THEN Undefined
                                     ELSE steps[CHOOSE i \in read : \A j \in read : j <= i]
      /\ told.statusText # ""
OutcomeFits ==
  (\A x \in Requests : completed[x] = "unset") =>
    \A o \in Options, called \in BOOLEAN :
      \A h \in Hears(Prepared(o)) : TellsWhatCame(o, h, called)

\* The page puts its cleaning up in the complete callback: it is called at most
\* once, and only when the outcome is known; while it is what runs, every callback
\* of the outcome that is registered, by whatever callback and however late, has
\* been called.
CompleteComesLast ==
  \A x \in Requests :
    LET d == Main(x) IN
    /\ Len(ran[d].complete) <= 1
    /\ ran[d].complete # <<>> => state[d] # "pending"
    /\ In("body") /\ ran[d].complete = <<Top.f>> => ran[d][state[d]] = added[d][state[d]]

\* At rest every callback of the outcome has been called, whenever it was
\* registered: before, while the list was firing, or after.
NobodyForgotten ==
  Idle /\ ~thrown => \A d \in Deferreds :
    state[d] # "pending" => ran[d][state[d]] = added[d][state[d]]

\* Both: every callback is called when its turn comes.
CalledInTurn == CompleteComesLast /\ NobodyForgotten

\* jQuery.Deferred and the two lists of each deferred are a promise: one
\* outcome, its callbacks in the order of registration, the others never.
Abstract == INSTANCE Settlement WITH
  Promises <- Deferreds, outcome <- state,
  registered <- [d \in Deferreds |-> [o \in {"done", "fail"} |-> added[d][o]]],
  called <- [d \in Deferreds |-> [o \in {"done", "fail"} |-> ran[d][o]]]
ImplementsPromise == Abstract!Promise

\* The promise of then() takes the first verdict of its handler; when that is a
\* thenable, the first verdict of the thenable, and so on, however often the
\* thenables call and whichever of them calls last.
VerdictStands ==
  \A x \in Requests : state[Derived(x)] # "pending" =>
    \E last \in 0 .. MaxDepth :
      /\ \A at \in 0 .. last - 1 : verdict[x][at] = "thenable"
      /\ verdict[x][last] = IF state[Derived(x)] = "done" THEN "value" ELSE "throws"

\* Every request that is sent ends in its complete callback, whatever the server
\* does, because its timeout is armed; an exception may prevent it.
EveryRequestCompletes ==
  \A x \in Requests : completed[x] = "no" ~> (ran[Main(x)].complete # <<>> \/ thrown)
=============================================================================
