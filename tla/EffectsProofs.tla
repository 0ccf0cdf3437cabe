--------------------------- MODULE EffectsProofs ---------------------------
(***************************************************************************)
(* Proofs about the effects of any elements, and of any number of fades    *)
(* and frames: the fades of an element come one at a time, the opacity is  *)
(* lost only through the callback of a fadeOut that throws or stops other  *)
(* fades, and the last fade decides how an element looks.                  *)
(***************************************************************************)
EXTENDS Effects, SequenceTheorems, TLAPS

Fades == [kind : {"in", "out"}, id : 1 .. MaxFades]
Timers == [id : 1 .. MaxFades, elem : Elements, kind : {"in", "out"}, left : 0 .. MaxFrames,
           tweened : BOOLEAN, over : BOOLEAN, orig : Opacity, end : Opacity]
Queues == Seq({InProgress} \union Fades)

-----------------------------------------------------------------------------
(* The list of timers: who is in it counts, not where. *)

In(ts) == {ts[i] : i \in DOMAIN ts}
Distinct(ts) == \A i, j \in DOMAIN ts : ts[i].id = ts[j].id => i = j

LEMMA Bounds ==
  /\ MaxFades \in Nat /\ MaxFrames \in Nat /\ MaxFrames > 0
  /\ \A n \in 1 .. MaxFades : n \in Nat /\ n > 0 /\ n <= MaxFades
  /\ \A n \in 0 .. MaxFrames : n \in Nat
BY EffectsAssumption DEF EffectsAssumption

\* removeAt, push and a tick: what becomes of the set.
LEMMA Removed ==
  ASSUME NEW ts \in Seq(Timers), Distinct(ts), NEW i \in DOMAIN ts, NEW us, us = RemoveAt(ts, i)
  PROVE  /\ us \in Seq(Timers) /\ Distinct(us) /\ In(us) = In(ts) \ {ts[i]}
         /\ \A k \in DOMAIN ts : k < i => k \in DOMAIN us /\ us[k] = ts[k]
<1>1. /\ i \in 1 .. Len(ts) /\ DOMAIN ts = 1 .. Len(ts) /\ Len(ts) \in Nat /\ Len(ts) > 0
      /\ \A k \in 1 .. Len(ts) : ts[k] \in Timers
  OBVIOUS
<1> DEFINE n == Len(ts)
           a == SubSeq(ts, 1, i - 1)
           b == SubSeq(ts, i + 1, n)
<1>2. /\ a \in Seq(Timers) /\ Len(a) = i - 1 /\ \A k \in 1 .. i - 1 : a[k] = ts[k]
  <2>1. PICK m : m = i - 1
    OBVIOUS
  <2>2. /\ m \in Int /\ (IF 1 <= m THEN m - 1 + 1 ELSE 0) = m /\ m - 1 + 1 = m
        /\ \A k \in 1 .. m : ts[k] \in Timers /\ 1 + k - 1 = k
    BY <1>1, <2>1
  <2>3. /\ SubSeq(ts, 1, m) \in Seq(Timers)
        /\ Len(SubSeq(ts, 1, m)) = IF 1 <= m THEN m - 1 + 1 ELSE 0
        /\ \A k \in 1 .. m - 1 + 1 : SubSeq(ts, 1, m)[k] = ts[1 + k - 1]
    BY <2>2, SubSeqProperties
  <2> QED
    BY <2>1, <2>2, <2>3
<1>3. /\ b \in Seq(Timers) /\ Len(b) = n - i /\ \A k \in 1 .. n - i : b[k] = ts[k + i]
  <2>1. PICK m : m = i + 1
    OBVIOUS
  <2>2. /\ m \in Int /\ n \in Int /\ (IF m <= n THEN n - m + 1 ELSE 0) = n - i /\ n - m + 1 = n - i
        /\ \A k \in m .. n : ts[k] \in Timers
        /\ \A k \in 1 .. n - i : m + k - 1 = k + i
    BY <1>1, <2>1
  <2> HIDE DEF n
  <2>3. /\ SubSeq(ts, m, n) \in Seq(Timers)
        /\ Len(SubSeq(ts, m, n)) = IF m <= n THEN n - m + 1 ELSE 0
        /\ \A k \in 1 .. n - m + 1 : SubSeq(ts, m, n)[k] = ts[m + k - 1]
    BY <2>2, SubSeqProperties
  <2> QED
    BY <2>1, <2>2, <2>3
<1>4. us = a \o b
  BY DEF RemoveAt
<1> HIDE DEF a, b
<1>5. /\ us \in Seq(Timers) /\ Len(us) = n - 1
      /\ \A k \in 1 .. n - 1 : us[k] = IF k < i THEN ts[k] ELSE ts[k + 1]
  <2>1. us \in Seq(Timers) /\ Len(us) = n - 1
    <3>1. a \o b \in Seq(Timers) /\ Len(a \o b) = Len(a) + Len(b)
      BY <1>2, <1>3, ConcatProperties
    <3>2. (i - 1) + (n - i) = n - 1
      BY <1>1
    <3> QED
      BY <1>2, <1>3, <1>4, <3>1, <3>2
  <2>2. \A k \in 1 .. Len(a) + Len(b) : (a \o b)[k] = IF k <= Len(a) THEN a[k] ELSE b[k - Len(a)]
    BY <1>2, <1>3, ConcatProperties
  <2>3. ASSUME NEW k \in 1 .. n - 1 PROVE us[k] = IF k < i THEN ts[k] ELSE ts[k + 1]
    <3>1. CASE k < i
      <4>1. us[k] = a[k] /\ a[k] = ts[k]
        <5>1. k \in 1 .. Len(a) + Len(b) /\ k <= Len(a) /\ k \in 1 .. i - 1
          BY <1>1, <1>2, <1>3, <3>1
        <5> QED
          BY <1>2, <1>4, <2>2, <5>1
      <4> QED
        BY <3>1, <4>1
    <3>2. CASE k >= i
      <4>1. us[k] = b[k - (i - 1)] /\ k - (i - 1) \in 1 .. n - i
        <5>1. k \in 1 .. Len(a) + Len(b) /\ ~(k <= Len(a)) /\ k - (i - 1) \in 1 .. n - i
          BY <1>1, <1>2, <1>3, <3>2
        <5> QED
          BY <1>2, <1>4, <2>2, <5>1
      <4>2. b[k - (i - 1)] = ts[(k - (i - 1)) + i]
        BY <1>3, <4>1
      <4>3. (k - (i - 1)) + i = k + 1 /\ ~(k < i)
        BY <1>1, <3>2
      <4> QED
        BY <4>1, <4>2, <4>3
    <3> QED
      BY <1>1, <3>1, <3>2
  <2> QED
    BY <2>1, <2>3
<1> DEFINE from(k) == IF k < i THEN k ELSE k + 1
<1>6. /\ DOMAIN us = 1 .. n - 1
      /\ \A k \in DOMAIN us : from(k) \in DOMAIN ts /\ from(k) # i /\ us[k] = ts[from(k)]
      /\ \A k, l \in DOMAIN us : from(k) = from(l) => k = l
  BY <1>1, <1>5
<1>7. ASSUME NEW j \in DOMAIN ts, j # i PROVE \E k \in DOMAIN us : from(k) = j
  <2>1. CASE j < i
    BY <1>1, <1>6, <1>7, <2>1
  <2>2. CASE j > i
    <3>1. j - 1 \in DOMAIN us /\ from(j - 1) = j
      BY <1>1, <1>6, <2>2
    <3> QED
      BY <3>1
  <2> QED
    BY <1>1, <1>7, <2>1, <2>2
<1> HIDE DEF from, n
<1>8. Distinct(us)
  BY <1>6 DEF Distinct
<1>9. ASSUME NEW j \in DOMAIN ts, j # i PROVE ts[j] # ts[i]
  BY <1>9 DEF Distinct
<1>10. In(us) \subseteq In(ts) \ {ts[i]}
  BY <1>6, <1>9 DEF In
<1>11. In(ts) \ {ts[i]} \subseteq In(us)
  <2> SUFFICES ASSUME NEW j \in DOMAIN ts, ts[j] # ts[i] PROVE ts[j] \in In(us)
    BY DEF In
  <2> QED
    BY <1>6, <1>7 DEF In
<1>12. \A k \in DOMAIN ts : k < i => k \in DOMAIN us /\ us[k] = ts[k]
  BY <1>1, <1>5 DEF n
<1> QED
  BY <1>5, <1>8, <1>10, <1>11, <1>12

LEMMA Appended ==
  ASSUME NEW ts \in Seq(Timers), Distinct(ts), NEW t \in Timers, \A u \in In(ts) : u.id # t.id,
         NEW us, us = Append(ts, t)
  PROVE  us \in Seq(Timers) /\ Distinct(us) /\ In(us) = In(ts) \union {t}
<1>1. /\ us \in Seq(Timers) /\ Len(us) = Len(ts) + 1 /\ us[Len(ts) + 1] = t
      /\ \A k \in 1 .. Len(ts) : us[k] = ts[k]
  BY AppendProperties
<1>2. Len(ts) \in Nat /\ DOMAIN us = 1 .. Len(ts) + 1 /\ DOMAIN ts = 1 .. Len(ts)
  BY <1>1
<1>3. /\ \A k \in DOMAIN ts : us[k] = ts[k] /\ k \in DOMAIN us /\ ts[k] \in In(ts)
      /\ \A k \in DOMAIN us : k \in DOMAIN ts \/ k = Len(ts) + 1
      /\ Len(ts) + 1 \in DOMAIN us
  BY <1>1, <1>2 DEF In
<1>4. Distinct(us)
  BY <1>1, <1>3 DEF Distinct
<1>5. In(us) = In(ts) \union {t}
  BY <1>1, <1>3 DEF In
<1> QED
  BY <1>1, <1>4, <1>5

Put(ts, i, t) == [ts EXCEPT ![i] = t]

LEMMA Updated ==
  ASSUME NEW ts \in Seq(Timers), Distinct(ts), NEW i \in DOMAIN ts, NEW t \in Timers,
         t.id = ts[i].id
  PROVE  /\ Put(ts, i, t) \in Seq(Timers) /\ Distinct(Put(ts, i, t))
         /\ In(Put(ts, i, t)) = (In(ts) \ {ts[i]}) \union {t}
<1>1. PICK us : us = Put(ts, i, t)
  OBVIOUS
<1>2. us \in Seq(Timers) /\ DOMAIN us = DOMAIN ts
  BY <1>1 DEF Put
<1>3. us[i] = t /\ \A j \in DOMAIN ts : j # i => us[j] = ts[j] /\ ts[j] # ts[i]
  BY <1>1, <1>2 DEF Distinct, Put
<1>4. Distinct(us)
  BY <1>2, <1>3 DEF Distinct
<1>5. In(us) = (In(ts) \ {ts[i]}) \union {t}
  BY <1>2, <1>3 DEF In
<1> QED
  BY <1>1, <1>2, <1>4, <1>5

-----------------------------------------------------------------------------
(***************************************************************************)
(* What is true of an element with the queue q, the timers U under way,    *)
(* its look and the fade l that was begun last; st when it was stopped,    *)
(* th when its complete callback threw, sp when a fadeOut is spoilt.       *)
(***************************************************************************)
Under(T, run, e) == {t \in T : t.elem = e /\ (~t.over \/ t.id = run)}
Looks(hid, sv, kind) == sv = "none" /\ (hid <=> kind = "out")
Marked(q) == q # <<>> => q[1] = InProgress /\ \A k \in 2 .. Len(q) : q[k] \in Fades

\* One fade at a time, and the queue is in progress while there is one.
InTurn(q, U, th) ==
  /\ Marked(q) /\ \A t, u \in U : t = u
  /\ ~th => (q # <<>> <=> U # {})
  /\ th => q # <<>> /\ U = {}
\* A fade changes the opacity only when the original one is saved.
Safe(U, op, sv) ==
  /\ sv \in {"none", "original"} /\ (sv = "none" => op = "original")
  /\ \A t \in U : ~t.over => (t.left > 0 => t.tweened) /\ (t.tweened => sv = "original")
\* The last of the queue, or the fade under way, is the one that was begun last.
Leads(q, U, hid, sv, l) ==
  /\ q = <<>> => Looks(hid, sv, l.kind)
  /\ Len(q) > 1 => q[Len(q)] = l
  /\ Len(q) = 1 => \A t \in U : t.kind = l.kind
  /\ \A t \in U : IF t.over \/ ~t.tweened THEN Looks(hid, sv, t.kind) ELSE ~hid
Fits(q, U, hid, op, sv, l, st, th, sp) ==
  /\ InTurn(q, U, th) /\ (~sp => Safe(U, op, sv))
  /\ ~st /\ ~th /\ ~sp => Leads(q, U, hid, sv, l)

\* What the timer t may still do to the opacity: it goes back to the original one, and
\* once it is over and its callback has ended it is a fadeIn, or gone.
Harmless(t, run) ==
  t.tweened => /\ t.kind = "in" => t.end = "original"
               /\ ~t.over => t.orig = "original"
               /\ t.over /\ t.id # run => t.kind = "in"
Sound(T, run, e) == \A t \in T : t.elem = e => Harmless(t, run)

Element(e) == /\ Fits(queue[e], Under(In(timers), running, e), e \in hidden, opacity[e], saved[e],
                      last[e], e \in stopped, e \in threw, e \in spoilt)
              /\ e \notin spoilt => Sound(In(timers), running, e)

\* The timer whose callback runs is at its place, or it is no fadeOut, or spoilt.
PlacedIn(ts, tick, run, sp) ==
  \/ tick \in DOMAIN ts /\ ts[tick].id = run
  \/ \A t \in In(ts) : t.id = run /\ t.tweened /\ t.kind = "out" => t.elem \in sp
Placed == /\ ticking # 0 => inProgress
          /\ running # 0 => ticking # 0 /\ PlacedIn(timers, ticking, running, spoilt)

\* Every fade has a number of its own.
Apart(w, ts) ==
  /\ \A k, m \in 1 .. Len(w) : w[k].id = w[m].id => k = m
  /\ \A k \in 1 .. Len(w) : \A t \in In(ts) : t.id # w[k].id
\* The fades that wait behind the one in progress.
Waits(q, id) == \E k \in 2 .. Len(q) : q[k].id = id
Numbered ==
  /\ Distinct(timers) /\ \A t \in In(timers) : t.id <= begun
  /\ \A e \in Elements : \A k \in 2 .. Len(queue[e]) : queue[e][k].id <= begun
  /\ \A e \in Elements : \A t \in In(timers) : ~Waits(queue[e], t.id)
  /\ \A e \in Elements : \A k, m \in 2 .. Len(queue[e]) : queue[e][k].id = queue[e][m].id => k = m
  /\ \A d, e \in Elements : \A k \in 2 .. Len(queue[e]) : d # e => ~Waits(queue[d], queue[e][k].id)
  /\ running # 0 => \E t \in In(timers) : t.id = running /\ t.over

Typed ==
  /\ queue \in [Elements -> Queues] /\ hidden \subseteq Elements
  /\ opacity \in [Elements -> Opacity] /\ saved \in [Elements -> {"none"} \union Opacity]
  /\ timers \in Seq(Timers) /\ ticking \in Nat /\ running \in 0 .. MaxFades
  /\ inProgress \in BOOLEAN /\ frames \in Nat /\ begun \in 0 .. MaxFades
  /\ last \in [Elements -> [kind : {"in", "out"}, id : 0 .. MaxFades]]
  /\ stopped \subseteq Elements /\ threw \subseteq Elements /\ spoilt \subseteq Elements

EffectsInv == Typed /\ Numbered /\ Placed /\ \A e \in Elements : Element(e)

-----------------------------------------------------------------------------
\* What waits is told from the sentinel.
LEMMA FadeFacts ==
  ASSUME NEW f \in Fades
  PROVE  /\ f # InProgress /\ f.id \in Nat /\ f.id > 0 /\ f.id \in 1 .. MaxFades
         /\ f.kind \in {"in", "out"} /\ InProgress.kind = "inprogress"
<1>1. f.kind \in {"in", "out"} /\ f.id \in 1 .. MaxFades /\ InProgress.kind = "inprogress"
  BY DEF Fades, InProgress
<1>2. f # InProgress
  BY <1>1
<1> QED
  BY <1>1, <1>2, Bounds

\* The queue when the first of w is in progress.
LEMMA NextQueue ==
  ASSUME NEW w \in Seq(Fades), w # <<>>, NEW q, q = <<InProgress>> \o Tail(w)
  PROVE  /\ q \in Queues /\ Marked(q) /\ q # <<>> /\ Len(q) = Len(w)
         /\ Head(w) = w[1] /\ w[1] \in Fades /\ q[1] = InProgress
         /\ \A k \in 2 .. Len(w) : q[k] = w[k]
<1>1. /\ Len(w) \in Nat /\ Len(w) > 0 /\ Tail(w) \in Seq(Fades) /\ Len(Tail(w)) = Len(w) - 1
      /\ Head(w) = w[1] /\ w[1] \in Fades
      /\ \A k \in 1 .. Len(w) - 1 : Tail(w)[k] = w[k + 1]
      /\ \A k \in 1 .. Len(w) : w[k] \in Fades
  OBVIOUS
<1> DEFINE S == {InProgress} \union Fades
           r == Tail(w)
           a == <<InProgress>>
<1>2. a \in Seq(S) /\ Len(a) = 1 /\ a[1] = InProgress
  OBVIOUS
<1>3. r \in Seq(S) /\ Len(r) = Len(w) - 1
  BY <1>1
<1> HIDE DEF r, S, a
<1>4. /\ q \in Seq(S) /\ Len(q) = Len(w)
      /\ \A k \in 1 .. Len(w) : q[k] = IF k <= 1 THEN InProgress ELSE r[k - 1]
  <2>1. q = a \o r
    BY DEF r, a
  <2>2. /\ q \in Seq(S) /\ Len(q) = Len(a) + Len(r)
        /\ \A k \in 1 .. Len(a) + Len(r) :
             q[k] = IF k <= Len(a) THEN a[k] ELSE r[k - Len(a)]
    <3>1. a \in Seq(S) /\ r \in Seq(S)
      BY <1>2, <1>3
    <3>2. /\ a \o r \in Seq(S) /\ Len(a \o r) = Len(a) + Len(r)
          /\ \A k \in 1 .. Len(a) + Len(r) :
               (a \o r)[k] = IF k <= Len(a) THEN a[k] ELSE r[k - Len(a)]
      BY ONLY <3>1, ConcatProperties
    <3> QED
      BY <2>1, <3>2
  <2>3. Len(q) = Len(w)
    BY <1>1, <1>3, <2>2
  <2>4. ASSUME NEW k \in 1 .. Len(w) PROVE q[k] = IF k <= 1 THEN InProgress ELSE r[k - 1]
    <3>1. CASE k = 1
      BY <1>1, <1>2, <1>3, <2>2, <3>1
    <3>2. CASE k # 1
      <4>1. k \in 1 .. Len(a) + Len(r) /\ ~(k <= Len(a)) /\ ~(k <= 1) /\ Len(a) = 1
        BY <1>1, <1>2, <1>3, <3>2
      <4> QED
        BY <2>2, <4>1
    <3> QED
      BY <3>1, <3>2
  <2> QED
    BY <2>2, <2>3, <2>4
<1>5. \A k \in 2 .. Len(w) : q[k] = w[k]
  <2> SUFFICES ASSUME NEW k \in 2 .. Len(w) PROVE q[k] = w[k]
    OBVIOUS
  <2>1. k \in 1 .. Len(w) /\ ~(k <= 1) /\ k - 1 \in 1 .. Len(w) - 1 /\ (k - 1) + 1 = k
    BY <1>1
  <2>2. r[k - 1] = w[(k - 1) + 1]
    BY <1>1, <2>1 DEF r
  <2> QED
    BY <1>4, <2>1, <2>2
<1>6. q \in Queues /\ q[1] = InProgress /\ q # <<>>
  BY <1>1, <1>4 DEF Queues, S
<1> QED
  BY <1>1, <1>4, <1>5, <1>6 DEF Marked

\* The fade w[1] begins with the timer t, when nothing is under way.
Begins(w, q, t, hid, op, sv, hid2, sv2, l, st, sp) ==
  /\ w \in Seq(Fades) /\ w # <<>> /\ q = <<InProgress>> \o Tail(w)
  /\ t \in Timers /\ t.kind = w[1].kind /\ ~t.over /\ (t.left > 0 => t.tweened)
  /\ hid \in BOOLEAN /\ hid2 \in BOOLEAN /\ st \in BOOLEAN /\ sp \in BOOLEAN
  /\ ~sp => sv \in {"none", "original"} /\ (sv = "none" => op = "original")
  /\ t.tweened <=> IF w[1].kind = "in" THEN hid \/ sv # "none" ELSE ~hid
  /\ hid2 <=> hid /\ ~t.tweened
  /\ sv2 = IF t.tweened /\ sv = "none" THEN op ELSE sv
  /\ ~st /\ ~sp => sv = "none" /\ w[Len(w)] = l

LEMMA StartFits ==
  ASSUME NEW w, NEW q, NEW t, NEW hid, NEW op, NEW sv, NEW hid2, NEW sv2, NEW l, NEW st,
         NEW sp, Begins(w, q, t, hid, op, sv, hid2, sv2, l, st, sp)
  PROVE  Fits(q, {t}, hid2, op, sv2, l, st, FALSE, sp)
<1> USE DEF Begins
<1>1. /\ Marked(q) /\ q # <<>> /\ Len(q) = Len(w) /\ w[1] \in Fades
      /\ \A k \in 2 .. Len(w) : q[k] = w[k]
  BY NextQueue
<1>2. InTurn(q, {t}, FALSE)
  BY <1>1 DEF InTurn
<1>3. ~sp => Safe({t}, op, sv2)
  BY DEF Safe
<1>4. ASSUME ~st, ~sp PROVE Leads(q, {t}, hid2, sv2, l)
  <2>1. Len(q) > 1 => q[Len(q)] = l
    BY <1>1, <1>4
  <2>2. Len(q) = 1 => t.kind = l.kind
    BY <1>1, <1>4
  <2>3. w[1].kind \in {"in", "out"}
    BY <1>1, FadeFacts
  <2>4. IF t.over \/ ~t.tweened THEN Looks(hid2, sv2, t.kind) ELSE ~hid2
    BY <1>4, <2>3 DEF Looks
  <2> QED
    BY <1>1, <2>1, <2>2, <2>4 DEF Leads
<1> QED
  BY <1>2, <1>3, <1>4 DEF Fits

-----------------------------------------------------------------------------
Waiting(q) == IF q # <<>> /\ Head(q) = InProgress THEN Tail(q) ELSE q
\* The element e, with nothing under way in ts, when the fades w wait.
Ready(e, w, ts, l, st, sp) ==
  /\ e \in Elements /\ w \in Seq(Fades) /\ ts \in Seq(Timers) /\ Distinct(ts) /\ Apart(w, ts)
  /\ queue \in [Elements -> Queues] /\ hidden \subseteq Elements
  /\ opacity \in [Elements -> Opacity] /\ saved \in [Elements -> {"none"} \union Opacity]
  /\ ~sp => saved[e] \in {"none", "original"} /\ (saved[e] = "none" => opacity[e] = "original")
  /\ st \in BOOLEAN /\ sp \in BOOLEAN
  /\ ~st /\ ~sp => saved[e] = "none" /\ IF w = <<>> THEN e \in hidden <=> l.kind = "out"
                                 ELSE w[Len(w)] = l
\* What dequeue() leaves of it and of the others.
Dequeued(e, w, ts, run, l, st, sp) ==
  /\ queue' \in [Elements -> Queues] /\ hidden' \subseteq Elements
  /\ opacity' \in [Elements -> Opacity] /\ saved' \in [Elements -> {"none"} \union Opacity]
  /\ timers' \in Seq(Timers) /\ Distinct(timers') /\ In(ts) \subseteq In(timers')
  /\ \A t \in In(timers') :
       \/ t \in In(ts)
       \/ w # <<>> /\ t.id = w[1].id /\ t.elem = e /\ (~sp => Harmless(t, run))
  /\ \A k \in DOMAIN ts : k \in DOMAIN timers' /\ timers'[k] = ts[k]
  /\ Len(queue'[e]) = Len(w) /\ \A k \in 2 .. Len(w) : queue'[e][k] = w[k]
  /\ Fits(queue'[e], Under(In(timers'), run, e), e \in hidden', opacity'[e], saved'[e], l, st, FALSE, sp)
  /\ \A d \in Elements \ {e} :
       /\ queue'[d] = queue[d] /\ opacity'[d] = opacity[d] /\ saved'[d] = saved[d]
       /\ d \in hidden' <=> d \in hidden
       /\ Under(In(timers'), run, d) = Under(In(ts), run, d)

\* dequeue() of an element with nothing under way leaves it as it should be, and the
\* others as they are.
LEMMA DequeueGives ==
  ASSUME NEW e, NEW q, NEW w, w = Waiting(q), NEW ts, NEW run \in Nat, NEW l, NEW st,
         NEW sp, Ready(e, w, ts, l, st, sp), dequeue(e, q, ts), Under(In(ts), run, e) = {},
         w # <<>> => w[1].id # run
  PROVE  Dequeued(e, w, ts, run, l, st, sp)
<1>1. CASE w = <<>>
  <2>1. queue' = [queue EXCEPT ![e] = <<>>] /\ timers' = ts /\ UNCHANGED visible
    BY <1>1 DEF dequeue, Waiting
  <2>2. <<>> \in Queues /\ Len(<<>>) = 0
    BY DEF Queues
  <2>3. /\ queue' \in [Elements -> Queues] /\ queue'[e] = <<>>
        /\ \A d \in Elements \ {e} : queue'[d] = queue[d]
    BY <2>1, <2>2 DEF Ready
  <2>4. hidden' = hidden /\ opacity' = opacity /\ saved' = saved
    BY <2>1 DEF visible
  <2>5. ~sp => saved[e] \in {"none", "original"}
    BY DEF Ready
  <2>6. Fits(<<>>, {}, e \in hidden, opacity[e], saved[e], l, st, FALSE, sp)
    BY <1>1, <2>2, <2>5 DEF Ready, Fits, InTurn, Marked, Safe, Leads, Looks
  <2> QED
    BY <1>1, <2>1, <2>2, <2>3, <2>4, <2>6 DEF Ready, Dequeued
<1>2. CASE w # <<>>
  <2>1. /\ queue' = [queue EXCEPT ![e] = <<InProgress>> \o Tail(w)] /\ Start(e, w[1], ts)
        /\ w[1] \in Fades /\ w \in Seq(Fades)
    BY <1>2, NextQueue DEF dequeue, Waiting, Ready
  <2>2. PICK f, qq : f = w[1] /\ qq = <<InProgress>> \o Tail(w)
    OBVIOUS
  <2>3. /\ qq \in Queues /\ Len(qq) = Len(w) /\ \A k \in 2 .. Len(w) : qq[k] = w[k]
    BY <1>2, <2>1, <2>2, NextQueue
  <2>4. /\ queue' \in [Elements -> Queues] /\ queue'[e] = qq
        /\ \A d \in Elements \ {e} : queue'[d] = queue[d]
    BY <2>1, <2>2, <2>3 DEF Ready
  <2> DEFINE tweened == IF f.kind = "in" THEN e \in hidden \/ saved[e] # "none" ELSE e \notin hidden
  <2>5. PICK left \in IF tweened THEN 1 .. MaxFrames ELSE {0} :
          timers' = Append(ts, [id |-> f.id, elem |-> e, kind |-> f.kind, left |-> left,
                                tweened |-> tweened, over |-> FALSE, orig |-> Orig(e),
                                end |-> IF f.kind = "in" THEN Saved(e) ELSE "zero"])
    BY <2>1, <2>2 DEF Start
  <2>6. /\ tweened => saved' = [saved EXCEPT ![e] = Saved(e)] /\ hidden' = hidden \ {e}
        /\ ~tweened => saved' = saved /\ hidden' = hidden
        /\ opacity' = opacity
    BY <2>1, <2>2 DEF Start
  <2>7. PICK t : t = [id |-> f.id, elem |-> e, kind |-> f.kind, left |-> left,
                      tweened |-> tweened, over |-> FALSE, orig |-> Orig(e),
                      end |-> IF f.kind = "in" THEN Saved(e) ELSE "zero"]
    OBVIOUS
  <2>14. /\ Orig(e) \in Opacity /\ Saved(e) \in Opacity
         /\ ~sp => Orig(e) = "original" /\ Saved(e) = "original"
    <3>1. /\ opacity[e] \in Opacity /\ saved[e] \in {"none"} \union Opacity
          /\ ~sp => saved[e] \in {"none", "original"} /\ (saved[e] = "none" => opacity[e] = "original")
      BY DEF Ready
    <3> QED
      BY <3>1 DEF Orig, Saved, Opacity
  <2>8. /\ t \in Timers /\ t.id = f.id /\ t.elem = e /\ t.kind = f.kind /\ ~t.over
        /\ t.tweened <=> tweened
        /\ t.left > 0 => t.tweened
        /\ ~sp => Harmless(t, run)
    <3>1. f.id \in 1 .. MaxFades /\ f.kind \in {"in", "out"} /\ tweened \in BOOLEAN /\ e \in Elements
      BY <2>1, <2>2, FadeFacts DEF Ready
    <3>2. left \in 0 .. MaxFrames /\ (left > 0 => tweened)
      BY <2>5, Bounds
    <3> HIDE DEF tweened
    <3>3. t \in Timers
      <4>1. (IF f.kind = "in" THEN Saved(e) ELSE "zero") \in Opacity
        BY <2>14 DEF Opacity
      <4> QED
        BY <2>7, <2>14, <3>1, <3>2, <4>1 DEF Timers
    <3>4. ~sp => Harmless(t, run)
      BY <2>7, <2>14 DEF Harmless
    <3> QED
      BY <2>7, <3>1, <3>2, <3>3, <3>4
  <2> HIDE DEF tweened
  <2>9. timers' \in Seq(Timers) /\ Distinct(timers') /\ In(timers') = In(ts) \union {t}
    <3>1. \A u \in In(ts) : u.id # t.id
      <4>1. 1 \in 1 .. Len(w)
        BY <1>2, <2>1
      <4> QED
        BY <2>2, <2>8, <4>1 DEF Ready, Apart
    <3>2. ts \in Seq(Timers) /\ Distinct(ts) /\ t \in Timers
      BY <2>8 DEF Ready
    <3>3. timers' = Append(ts, t)
      BY <2>5, <2>7
    <3> QED
      BY <3>1, <3>2, <3>3, Appended
  <2>10. /\ saved' \in [Elements -> {"none"} \union Opacity] /\ hidden' \subseteq Elements
         /\ saved'[e] = (IF tweened /\ saved[e] = "none" THEN opacity[e] ELSE saved[e])
         /\ e \in hidden' <=> e \in hidden /\ ~tweened
         /\ \A d \in Elements \ {e} : saved'[d] = saved[d] /\ (d \in hidden' <=> d \in hidden)
    <3>1. /\ Saved(e) \in {"none"} \union Opacity /\ e \in Elements
          /\ saved \in [Elements -> {"none"} \union Opacity]
      BY <2>14 DEF Ready
    <3>2. CASE tweened
      BY <2>6, <3>1, <3>2 DEF Ready, Saved
    <3>3. CASE ~tweened
      BY <2>6, <3>1, <3>3 DEF Ready
    <3> QED
      BY <3>2, <3>3
  <2>11. Under(In(timers'), run, e) = {t} /\ \A d \in Elements \ {e} :
           Under(In(timers'), run, d) = Under(In(ts), run, d)
    BY <2>8, <2>9 DEF Under
  <2>12. Fits(qq, {t}, e \in hidden', opacity[e], saved'[e], l, st, FALSE, sp)
    <3>1. /\ t.tweened <=> IF w[1].kind = "in" THEN e \in hidden \/ saved[e] # "none" ELSE ~(e \in hidden)
          /\ t.kind = w[1].kind
      BY <2>2, <2>8 DEF tweened
    <3>2. /\ ~sp => saved[e] \in {"none", "original"} /\ (saved[e] = "none" => opacity[e] = "original")
          /\ st \in BOOLEAN /\ sp \in BOOLEAN
          /\ ~st /\ ~sp => saved[e] = "none" /\ w[Len(w)] = l
      BY <1>2 DEF Ready
    <3>3. /\ saved'[e] = IF t.tweened /\ saved[e] = "none" THEN opacity[e] ELSE saved[e]
          /\ e \in hidden' <=> e \in hidden /\ ~t.tweened
      BY <2>8, <2>10
    <3>4. PICK hid \in BOOLEAN : hid <=> e \in hidden
      BY Zenon
    <3>5. PICK hid2 \in BOOLEAN : hid2 <=> e \in hidden'
      BY Zenon
    <3>6. Fits(qq, {t}, hid2, opacity[e], saved'[e], l, st, FALSE, sp)
      <4>1. Begins(w, qq, t, hid, opacity[e], saved[e], hid2, saved'[e], l, st, sp)
        BY <1>2, <2>1, <2>2, <2>8, <3>1, <3>2, <3>3, <3>4, <3>5 DEF Begins
      <4> QED
        BY <4>1, StartFits
    <3> QED
      BY <3>5, <3>6 DEF Fits, Leads, Looks
  <2>13. \A u \in In(timers') :
           u \in In(ts) \/ (u.id = w[1].id /\ u.elem = e /\ (~sp => Harmless(u, run)))
    BY <2>2, <2>8, <2>9
  <2>15. \A k \in DOMAIN ts : k \in DOMAIN timers' /\ timers'[k] = ts[k]
    <3>1. ts \in Seq(Timers) /\ timers' = Append(ts, t)
      BY <2>5, <2>7 DEF Ready
    <3> QED
      BY <3>1
  <2> QED
    BY <1>2, <2>15, <2>3, <2>4, <2>6, <2>9, <2>10, <2>11, <2>12, <2>13 DEF Ready, Dequeued
<1> QED
  BY <1>1, <1>2

-----------------------------------------------------------------------------
\* A number names one timer.
LEMMA ByNumber ==
  ASSUME NEW ts, Distinct(ts)
  PROVE  \A t, u \in In(ts) : t.id = u.id => t = u
BY DEF Distinct, In

LEMMA TimerFacts ==
  ASSUME NEW ts \in Seq(Timers), NEW t \in In(ts)
  PROVE  /\ t \in Timers /\ t.id \in Nat /\ t.id > 0 /\ t.elem \in Elements /\ t.left \in Nat
         /\ t.id \in 1 .. MaxFades /\ t.kind \in {"in", "out"}
         /\ t.tweened \in BOOLEAN /\ t.over \in BOOLEAN
<1>1. t \in Timers
  BY DEF In
<1>2. /\ t.id \in 1 .. MaxFades /\ t.left \in 0 .. MaxFrames /\ t.elem \in Elements
      /\ t.kind \in {"in", "out"} /\ t.tweened \in BOOLEAN /\ t.over \in BOOLEAN
  BY <1>1 DEF Timers
<1> QED
  BY <1>1, <1>2, Bounds

\* What waits in a queue that is in progress, or in none.
LEMMA WaitingOf ==
  ASSUME NEW q \in Queues, Marked(q), NEW w, w = Waiting(q)
  PROVE  /\ w \in Seq(Fades) /\ Len(w) \in Nat /\ Len(q) \in Nat
         /\ q = <<>> => w = <<>>
         /\ q # <<>> => /\ Len(q) = Len(w) + 1 /\ (w = <<>> <=> Len(q) = 1)
                        /\ \A k \in 1 .. Len(w) : w[k] = q[k + 1] /\ k + 1 \in 2 .. Len(q)
                        /\ w # <<>> => Len(q) > 1 /\ w[Len(w)] = q[Len(q)]
<1>1. CASE q = <<>>
  BY <1>1 DEF Waiting
<1>2. CASE q # <<>>
  <2>1. /\ q \in Seq({InProgress} \union Fades) /\ q[1] = InProgress /\ Head(q) = q[1]
        /\ Len(q) \in Nat /\ Len(q) > 0 /\ \A k \in 2 .. Len(q) : q[k] \in Fades
    BY <1>2 DEF Queues, Marked
  <2>2. w = Tail(q)
    BY <1>2, <2>1 DEF Waiting
  <2>3. /\ Len(w) = Len(q) - 1 /\ \A k \in 1 .. Len(w) : w[k] = q[k + 1] /\ k + 1 \in 2 .. Len(q)
        /\ w \in Seq({InProgress} \union Fades)
    BY <1>2, <2>1, <2>2
  <2>4. w \in Seq(Fades)
    <3>1. \A k \in 1 .. Len(w) : w[k] \in Fades
      BY <2>1, <2>3
    <3>2. w = [k \in 1 .. Len(w) |-> w[k]] /\ Len(w) \in Nat
      BY <2>3
    <3> QED
      BY <3>1, <3>2
  <2>5. /\ w = <<>> <=> Len(q) = 1
        /\ w # <<>> => Len(q) > 1 /\ w[Len(w)] = q[Len(q)]
    <3>1. w = <<>> <=> Len(w) = 0
      BY <2>3
    <3>2. w # <<>> => Len(w) \in 1 .. Len(w) /\ Len(w) + 1 = Len(q)
      BY <2>1, <2>3, <3>1
    <3> QED
      BY <2>1, <2>3, <3>1, <3>2
  <2> QED
    BY <1>2, <2>1, <2>3, <2>4, <2>5
<1> QED
  BY <1>1, <1>2

\* An element that the step does not touch.
LEMMA ElementStays ==
  ASSUME NEW d, Element(d), queue'[d] = queue[d], opacity'[d] = opacity[d], saved'[d] = saved[d],
         d \in hidden' <=> d \in hidden, last'[d] = last[d], d \in stopped' <=> d \in stopped,
         d \in threw' <=> d \in threw, d \in spoilt => d \in spoilt',
         Under(In(timers'), running', d) = Under(In(timers), running, d),
         d \notin spoilt /\ Sound(In(timers), running, d) => Sound(In(timers'), running', d)
  PROVE  Element(d)'
BY DEF Element, Fits, InTurn, Safe, Leads, Looks

\* The fades w, which wait on e, have numbers that nobody else waits with.
Fresh(e, w) ==
  \A k \in 1 .. Len(w) : /\ w[k].id <= begun'
                         /\ \A d \in Elements \ {e} : ~Waits(queue[d], w[k].id)

\* Numbers stay apart when the first of those that wait gets a timer.
LEMMA NumbersDequeued ==
  ASSUME Typed, Numbered, NEW e \in Elements, NEW w, NEW ts, NEW run, NEW l, NEW st,
         NEW sp, Dequeued(e, w, ts, run, l, st, sp), Fresh(e, w), w \in Seq(Fades), Apart(w, ts),
         In(ts) \subseteq In(timers), begun' \in Nat, begun <= begun', running' = run,
         run # 0 => \E t \in In(ts) : t.id = run /\ t.over
  PROVE  Numbered'
<1>1. /\ timers \in Seq(Timers) /\ timers' \in Seq(Timers) /\ begun \in Nat
      /\ Distinct(timers') /\ In(ts) \subseteq In(timers')
  BY Bounds DEF Typed, Dequeued
<1>2. /\ Len(queue'[e]) = Len(w) /\ Len(w) \in Nat
      /\ \A k \in 2 .. Len(w) : queue'[e][k] = w[k] /\ k \in 1 .. Len(w)
      /\ \A d \in Elements \ {e} : queue'[d] = queue[d]
      /\ w # <<>> => 1 \in 1 .. Len(w)
  BY DEF Dequeued
<1>3. \A t \in In(timers') : t \in In(ts) \/ (w # <<>> /\ t.id = w[1].id)
  BY DEF Dequeued
<1>4. \A k \in 1 .. Len(w) : w[k].id \in Nat /\ w[k].id <= begun'
  <2>1. \A k \in 1 .. Len(w) : w[k] \in Fades
    OBVIOUS
  <2> QED
    BY <2>1, FadeFacts DEF Fresh
<1>5. ASSUME NEW t \in In(timers') PROVE t.id <= begun'
  <2>1. CASE t \in In(ts)
    BY <1>1, <2>1, TimerFacts DEF Numbered
  <2>2. CASE w # <<>> /\ t.id = w[1].id
    BY <1>2, <1>4, <2>2
  <2> QED
    BY <1>3, <2>1, <2>2
<1>6. ASSUME NEW d \in Elements, NEW k \in 2 .. Len(queue'[d]) PROVE queue'[d][k].id <= begun'
  <2>1. CASE d = e
    BY <1>2, <1>4, <2>1
  <2>2. CASE d # e
    <3>1. queue[d][k].id <= begun /\ queue'[d] = queue[d] /\ k \in 2 .. Len(queue[d])
      BY <1>2, <1>6, <2>2 DEF Numbered
    <3>2. queue[d][k].id \in Nat
      <4>1. queue[d] \in Queues /\ Len(queue[d]) \in Nat
        BY DEF Typed, Queues
      <4>2. queue[d][k] \in {InProgress} \union Fades
        BY <3>1, <4>1 DEF Queues
      <4>3. InProgress.id \in Nat
        BY DEF InProgress
      <4> QED
        BY <4>2, <4>3, FadeFacts
    <3> QED
      BY <1>1, <3>1, <3>2
  <2> QED
    BY <2>1, <2>2
<1>7. ASSUME NEW d \in Elements, NEW t \in In(timers') PROVE ~Waits(queue'[d], t.id)
  <2>1. CASE d = e
    <3>1. \A k \in 2 .. Len(w) : w[k].id # t.id
      <4>1. CASE t \in In(ts)
        BY <1>2, <4>1 DEF Apart
      <4>2. CASE w # <<>> /\ t.id = w[1].id
        BY <1>2, <4>2 DEF Apart
      <4> QED
        BY <1>3, <4>1, <4>2
    <3> QED
      BY <1>2, <2>1, <3>1 DEF Waits
  <2>2. CASE d # e
    <3>1. CASE t \in In(ts)
      BY <1>2, <2>2, <3>1 DEF Numbered
    <3>2. CASE w # <<>> /\ t.id = w[1].id
      BY <1>2, <2>2, <3>2 DEF Fresh
    <3> QED
      BY <1>3, <3>1, <3>2
  <2> QED
    BY <2>1, <2>2
<1>8. ASSUME NEW d \in Elements, NEW k \in 2 .. Len(queue'[d]), NEW m \in 2 .. Len(queue'[d]),
             queue'[d][k].id = queue'[d][m].id
      PROVE  k = m
  <2>1. CASE d = e
    BY <1>2, <1>8, <2>1 DEF Apart
  <2>2. CASE d # e
    BY <1>2, <1>8, <2>2 DEF Numbered
  <2> QED
    BY <2>1, <2>2
<1>9. ASSUME NEW c \in Elements, NEW d \in Elements, NEW k \in 2 .. Len(queue'[d]), c # d
      PROVE  ~Waits(queue'[c], queue'[d][k].id)
  <2>1. CASE d = e
    BY <1>2, <1>9, <2>1 DEF Fresh
  <2>2. CASE d # e /\ c # e
    BY <1>2, <1>9, <2>2 DEF Numbered
  <2>3. CASE d # e /\ c = e
    <3>1. Waits(queue[d], queue'[d][k].id)
      BY <1>2, <1>9, <2>3 DEF Waits
    <3>2. \A m \in 2 .. Len(w) : w[m].id # queue'[d][k].id
      BY <1>2, <2>3, <3>1 DEF Fresh
    <3> QED
      BY <1>2, <2>3, <3>2 DEF Waits
  <2> QED
    BY <2>1, <2>2, <2>3
<1> QED
  BY <1>1, <1>5, <1>6, <1>7, <1>8, <1>9 DEF Numbered

-----------------------------------------------------------------------------
LEMMA ElementFacts ==
  ASSUME EffectsInv, NEW e \in Elements
  PROVE  /\ timers \in Seq(Timers) /\ Distinct(timers) /\ queue[e] \in Queues /\ Marked(queue[e])
         /\ \A t, u \in Under(In(timers), running, e) : t = u
         /\ Under(In(timers), running, e) # {} => e \notin threw /\ queue[e] # <<>>
         /\ queue[e] = <<>> => e \notin threw /\ Under(In(timers), running, e) = {}
         /\ e \notin spoilt => /\ saved[e] \in {"none", "original"}
                               /\ saved[e] = "none" => opacity[e] = "original"
                               /\ Sound(In(timers), running, e)
         /\ e \notin stopped /\ e \notin threw /\ e \notin spoilt =>
              Leads(queue[e], Under(In(timers), running, e), e \in hidden, saved[e], last[e])
<1>1. Element(e) /\ timers \in Seq(Timers) /\ Distinct(timers) /\ queue[e] \in Queues
  BY DEF EffectsInv, Typed, Numbered
<1> QED
  BY <1>1 DEF Element, Fits, InTurn, Safe

\* The numbers of what waits on e.
LEMMA WaitingFresh ==
  ASSUME EffectsInv, NEW e \in Elements, NEW w, w = Waiting(queue[e]), NEW ts,
         In(ts) \subseteq In(timers), begun' = begun
  PROVE  w \in Seq(Fades) /\ Apart(w, ts) /\ Fresh(e, w)
<1>1. /\ w \in Seq(Fades) /\ Len(w) \in Nat
      /\ \A k \in 1 .. Len(w) : w[k] = queue[e][k + 1] /\ k + 1 \in 2 .. Len(queue[e])
  <2>1. queue[e] \in Queues /\ Marked(queue[e])
    BY ElementFacts
  <2> QED
    BY <2>1, WaitingOf
<1>2. \A k, m \in 1 .. Len(w) : k + 1 = m + 1 => k = m
  BY <1>1
<1>3. Apart(w, ts)
  <2>1. ASSUME NEW k \in 1 .. Len(w), NEW m \in 1 .. Len(w), w[k].id = w[m].id PROVE k = m
    <3>1. k + 1 = m + 1
      <4>1. k + 1 \in 2 .. Len(queue[e]) /\ m + 1 \in 2 .. Len(queue[e])
            /\ queue[e][k + 1].id = queue[e][m + 1].id
        BY <1>1, <2>1
      <4>2. \A a, b \in 2 .. Len(queue[e]) : queue[e][a].id = queue[e][b].id => a = b
        BY DEF EffectsInv, Numbered
      <4> QED
        BY ONLY <4>1, <4>2
    <3> QED
      BY <1>2, <3>1
  <2>2. ASSUME NEW k \in 1 .. Len(w), NEW t \in In(ts) PROVE t.id # w[k].id
    <3>1. ~Waits(queue[e], t.id)
      BY DEF EffectsInv, Numbered
    <3> QED
      BY <1>1, <3>1 DEF Waits
  <2> QED
    BY <2>1, <2>2 DEF Apart
<1>4. Fresh(e, w)
  BY <1>1 DEF Fresh, EffectsInv, Numbered
<1> QED
  BY <1>1, <1>3, <1>4

\* After a dequeue on e, with the rest as the step leaves it.
LEMMA Restored ==
  ASSUME EffectsInv, NEW e \in Elements, NEW w, NEW ts, NEW run \in 0 .. MaxFades,
         Dequeued(e, w, ts, run, last'[e], e \in stopped', e \in spoilt'), Fresh(e, w), w \in Seq(Fades),
         Apart(w, ts), In(ts) \subseteq In(timers),
         running' = run, run # 0 => \E t \in In(ts) : t.id = run /\ t.over,
         e \notin threw, threw' = threw,
         begun' \in 0 .. MaxFades, begun <= begun', ticking' \in Nat, inProgress' \in BOOLEAN,
         frames' \in Nat, last' \in [Elements -> [kind : {"in", "out"}, id : 0 .. MaxFades]],
         stopped' \subseteq Elements, spoilt \subseteq spoilt', spoilt' \subseteq Elements, Placed',
         e \notin spoilt' => Sound(In(ts), run, e),
         \A t \in In(timers) : t.id = running => t.id = run \/ t.elem = e,
         \A d \in Elements \ {e} : /\ last'[d] = last[d] /\ (d \in stopped' <=> d \in stopped)
                                   /\ Under(In(ts), run, d) = Under(In(timers), running, d)
  PROVE  EffectsInv'
<1>1. Typed /\ Numbered /\ begun' \in Nat
  BY Bounds DEF EffectsInv
<1>2. Typed'
  BY DEF EffectsInv, Typed, Dequeued
<1>3. Numbered'
  BY <1>1, NumbersDequeued
<1>4. Element(e)'
  <2>1. Fits(queue'[e], Under(In(timers'), running', e), e \in hidden', opacity'[e], saved'[e],
             last'[e], e \in stopped', FALSE, e \in spoilt')
    BY DEF Dequeued
  <2>2. e \notin threw'
    OBVIOUS
  <2>3. e \notin spoilt' => Sound(In(timers'), running', e)
    BY DEF Dequeued, Sound
  <2> QED
    BY <2>1, <2>2, <2>3 DEF Element, Fits, InTurn
<1>5. ASSUME NEW d \in Elements \ {e} PROVE Element(d)'
  <2>1. /\ queue'[d] = queue[d] /\ opacity'[d] = opacity[d] /\ saved'[d] = saved[d]
        /\ d \in hidden' <=> d \in hidden
        /\ Under(In(timers'), running', d) = Under(In(timers), running, d)
    BY <1>5 DEF Dequeued
  <2>2. Element(d)
    BY <1>5 DEF EffectsInv
  <2>3. Sound(In(timers), running, d) => Sound(In(timers'), running', d)
    BY <1>5 DEF Dequeued, Sound, Harmless
  <2> QED
    BY <1>5, <2>1, <2>2, <2>3, ElementStays
<1> QED
  BY <1>2, <1>3, <1>4, <1>5 DEF EffectsInv

\* A dequeue leaves the timer whose callback runs where it is.
LEMMA PlaceKept ==
  ASSUME NEW e, NEW w, NEW ts, NEW run, NEW l, NEW st, NEW sp, Dequeued(e, w, ts, run, l, st, sp),
         w # <<>> => w[1].id # run, NEW tick, NEW S, PlacedIn(ts, tick, run, S)
  PROVE  PlacedIn(timers', tick, run, S)
BY DEF Dequeued, PlacedIn

-----------------------------------------------------------------------------
\* The timer whose complete callback runs.
LEMMA CalledTimer ==
  ASSUME EffectsInv, running # 0
  PROVE  \E t \in In(timers) :
           /\ t.id = running /\ t.over /\ t.elem = Called /\ t = Calling
           /\ t \in Under(In(timers), running, Called)
           /\ \A u \in In(timers) : u.id = running => u = t
           /\ Called \in Elements /\ Called \notin threw
<1>1. PICK t \in In(timers) : t.id = running /\ t.over
  BY DEF EffectsInv, Numbered
<1>2. timers \in Seq(Timers) /\ Distinct(timers)
  BY DEF EffectsInv, Typed, Numbered
<1>3. \A u \in In(timers) : u.id = running => u = t
  BY <1>1, <1>2, ByNumber
<1>4. PICK i : i = CHOOSE j \in DOMAIN timers : timers[j].id = running
  OBVIOUS
<1>5. i \in DOMAIN timers /\ timers[i].id = running
  <2>1. \E j \in DOMAIN timers : timers[j].id = running
    BY <1>1 DEF In
  <2> QED
    BY <1>4, <2>1
<1>6. timers[i] = t /\ Calling = timers[i] /\ Called = timers[i].elem
  BY <1>3, <1>4, <1>5 DEF In, Called, Calling
<1>7. t.elem \in Elements /\ t \in Under(In(timers), running, t.elem)
  BY <1>1, <1>2, TimerFacts DEF Under
<1>8. t.elem \notin threw
  BY <1>7, ElementFacts
<1> QED
  BY <1>1, <1>3, <1>6, <1>7, <1>8

-----------------------------------------------------------------------------
(* The calls of the pages, then the steps of the tick. *)

LEMMA StopFits ==
  ASSUME EffectsInv, NEW e \in Elements, NEW clear \in BOOLEAN, stop(e, clear)
  PROVE  EffectsInv'
<1> DEFINE q == IF clear THEN <<>> ELSE queue[e]
<1>1. PICK i \in Live(e) :
         /\ dequeue(e, q, RemoveAt(timers, i))
         /\ spoilt' = IF running # 0 /\ i < ticking THEN Spoilt ELSE spoilt
  <2>1. Live(e) # {}
    BY DEF stop
  <2>2. PICK i \in Live(e) : i = CHOOSE j \in Live(e) : TRUE
    BY <2>1
  <2> QED
    BY <2>2 DEF stop
<1>2. PICK ts, w : ts = RemoveAt(timers, i) /\ w = Waiting(q)
  OBVIOUS
<1>3. /\ timers \in Seq(Timers) /\ Distinct(timers) /\ i \in DOMAIN timers
      /\ timers[i] \in In(timers) /\ timers[i].elem = e /\ ~timers[i].over
  BY <1>1, ElementFacts DEF Live, In
<1>4. /\ ts \in Seq(Timers) /\ Distinct(ts) /\ In(ts) = In(timers) \ {timers[i]}
      /\ \A k \in DOMAIN timers : k < i => k \in DOMAIN ts /\ ts[k] = timers[k]
  BY <1>2, <1>3, Removed
<1>5. timers[i] \in Under(In(timers), running, e)
  BY <1>3 DEF Under
<1>6. Under(In(ts), running, e) = {} /\ e \notin threw
  <2>1. /\ e \notin threw
        /\ \A t \in Under(In(timers), running, e) : t = timers[i]
    BY <1>5, ElementFacts
  <2> QED
    BY <1>4, <2>1 DEF Under
<1>7. \A d \in Elements \ {e} : Under(In(ts), running, d) = Under(In(timers), running, d)
  BY <1>3, <1>4 DEF Under
<1>8. running # 0 => \E t \in In(ts) : t.id = running /\ t.over
  BY <1>3, <1>4 DEF EffectsInv, Numbered
<1>9. /\ stopped' = stopped \union {e} /\ ticking' = ticking /\ running' = running
      /\ inProgress' = inProgress /\ frames' = frames /\ begun' = begun /\ last' = last
      /\ threw' = threw
  BY DEF stop, clock
<1>10. w \in Seq(Fades) /\ Apart(w, ts) /\ Fresh(e, w)
  <2>1. CASE clear
    <3>1. w = <<>> /\ Len(w) = 0
      BY <1>2, <2>1 DEF Waiting
    <3> QED
      BY <3>1 DEF Apart, Fresh
  <2>2. CASE ~clear
    BY <1>2, <1>4, <1>9, <2>2, WaitingFresh
  <2> QED
    BY <2>1, <2>2
<1>15. spoilt \subseteq spoilt' /\ spoilt' \subseteq Elements
  <2>1. spoilt \subseteq Elements
    BY DEF EffectsInv, Typed
  <2>2. CASE running # 0 /\ i < ticking
    <3>1. spoilt' = Spoilt /\ Called \in Elements
      BY <1>1, <2>2, CalledTimer
    <3> QED
      BY <2>1, <3>1 DEF Spoilt
  <2>3. CASE ~(running # 0 /\ i < ticking)
    BY <1>1, <2>1, <2>3
  <2> QED
    BY <2>2, <2>3
<1>16. running # 0 => ticking # 0 /\ PlacedIn(ts, ticking, running, spoilt')
  <2> SUFFICES ASSUME running # 0 PROVE ticking # 0 /\ PlacedIn(ts, ticking, running, spoilt')
    OBVIOUS
  <2>1. ticking # 0 /\ PlacedIn(timers, ticking, running, spoilt)
    BY DEF EffectsInv, Placed
  <2>2. CASE ticking \in DOMAIN timers /\ timers[ticking].id = running
    <3>1. PICK t \in In(timers) :
            /\ t.id = running /\ t.over /\ t.elem = Called /\ t = Calling
            /\ \A u \in In(timers) : u.id = running => u = t
      BY CalledTimer
    <3>2. i # ticking /\ i \in Nat /\ ticking \in Nat
      <4>1. i \in 1 .. Len(timers) /\ ticking \in 1 .. Len(timers)
        BY <1>3, <2>2
      <4>2. timers[ticking] \in In(timers)
        BY <2>2 DEF In
      <4> QED
        BY <1>3, <2>2, <3>1, <4>1, <4>2
    <3>3. CASE ticking < i
      <4>1. ticking \in DOMAIN ts /\ ts[ticking] = timers[ticking]
        BY <1>4, <2>2, <3>3
      <4> QED
        BY <2>1, <2>2, <4>1 DEF PlacedIn
    <3>4. CASE i < ticking
      <4>1. spoilt' = Spoilt
        BY <1>1, <3>4
      <4>2. \A u \in In(ts) : u.id = running /\ u.tweened /\ u.kind = "out" => u.elem \in spoilt'
        BY <1>4, <3>1, <4>1 DEF Spoilt
      <4> QED
        BY <2>1, <4>2 DEF PlacedIn
    <3> QED
      BY <3>2, <3>3, <3>4
  <2>3. CASE \A t \in In(timers) : t.id = running /\ t.tweened /\ t.kind = "out" => t.elem \in spoilt
    BY <1>4, <1>15, <2>1, <2>3 DEF PlacedIn
  <2> QED
    BY <2>1, <2>2, <2>3 DEF PlacedIn
<1>17. PICK sp \in BOOLEAN : sp <=> e \in spoilt'
  BY Zenon
<1>11. Ready(e, w, ts, last'[e], TRUE, sp)
  <2>1. ~sp => saved[e] \in {"none", "original"} /\ (saved[e] = "none" => opacity[e] = "original")
    BY <1>15, <1>17, ElementFacts
  <2> QED
    BY <1>4, <1>10, <2>1 DEF Ready, EffectsInv, Typed
<1>12. running \in Nat /\ (w # <<>> => w[1].id # running)
  <2>1. running \in Nat
    BY Bounds DEF EffectsInv, Typed
  <2>2. ASSUME w # <<>> PROVE w[1].id # running
    <3>1. 1 \in 1 .. Len(w) /\ w[1] \in Fades
      BY <1>10, <2>2
    <3> QED
      BY <1>8, <1>10, <3>1, FadeFacts DEF Apart
  <2> QED
    BY <2>1, <2>2
<1>13. Dequeued(e, w, ts, running, last'[e], TRUE, sp)
  BY <1>1, <1>2, <1>6, <1>11, <1>12, DequeueGives
<1>14. Dequeued(e, w, ts, running, last'[e], e \in stopped', e \in spoilt')
  BY <1>9, <1>13, <1>17 DEF Dequeued, Fits
<1>18. Placed'
  <2>1. running # 0 => PlacedIn(timers', ticking, running, spoilt')
    BY <1>12, <1>13, <1>16, PlaceKept
  <2> QED
    BY <1>9, <1>16, <2>1 DEF EffectsInv, Placed
<1>19. e \notin spoilt' => Sound(In(ts), running, e)
  BY <1>4, <1>15, ElementFacts DEF Sound
<1> QED
  <2>1. /\ running \in 0 .. MaxFades /\ begun' \in 0 .. MaxFades /\ begun <= begun'
        /\ ticking' \in Nat /\ inProgress' \in BOOLEAN
        /\ frames' \in Nat /\ last' \in [Elements -> [kind : {"in", "out"}, id : 0 .. MaxFades]]
        /\ stopped' \subseteq Elements
    BY <1>9, Bounds DEF EffectsInv, Typed
  <2>2. /\ In(ts) \subseteq In(timers)
        /\ \A d \in Elements \ {e} : last'[d] = last[d] /\ (d \in stopped' <=> d \in stopped)
    BY <1>4, <1>9
  <2> QED
    BY <1>6, <1>7, <1>8, <1>9, <1>10, <1>14, <1>15, <1>18, <1>19, <2>1, <2>2, Restored

-----------------------------------------------------------------------------
LEMMA RunningFacts ==
  ASSUME EffectsInv
  PROVE  /\ running \in Nat /\ running <= begun /\ begun \in Nat
         /\ running # 0 => \E t \in In(timers) : t.id = running /\ t.over
<1>1. running \in Nat /\ begun \in Nat /\ timers \in Seq(Timers)
  BY Bounds DEF EffectsInv, Typed
<1> QED
  BY <1>1 DEF EffectsInv, Numbered

\* The numbers that are in use are old, that of the next fade is new.
LEMMA NewNumber ==
  ASSUME EffectsInv, NEW n, n = begun + 1
  PROVE  /\ \A d \in Elements : \A k \in 2 .. Len(queue[d]) :
              queue[d][k].id \in Nat /\ queue[d][k].id <= begun
         /\ \A d \in Elements : ~Waits(queue[d], n)
         /\ \A t \in In(timers) : t.id # n /\ t.id \in Nat /\ t.id <= begun
<1>1. begun \in Nat /\ timers \in Seq(Timers)
  BY RunningFacts, ElementFacts DEF EffectsInv, Typed
<1>2. \A d \in Elements : \A k \in 2 .. Len(queue[d]) : queue[d][k].id \in Nat /\ queue[d][k].id <= begun
  <2> SUFFICES ASSUME NEW d \in Elements, NEW k \in 2 .. Len(queue[d])
               PROVE  queue[d][k].id \in Nat /\ queue[d][k].id <= begun
    OBVIOUS
  <2>1. Marked(queue[d]) /\ queue[d] \in Queues
    BY ElementFacts
  <2>2. queue[d] # <<>>
    <3>1. SUFFICES ASSUME queue[d] = <<>> PROVE FALSE
      OBVIOUS
    <3>2. Len(queue[d]) = 0
      BY <3>1
    <3> QED
      BY <3>2
  <2>3. queue[d][k] \in Fades
    BY <2>1, <2>2 DEF Marked
  <2> QED
    BY <2>3, FadeFacts DEF EffectsInv, Numbered
<1>3. \A d \in Elements : ~Waits(queue[d], n)
  BY <1>1, <1>2 DEF Waits
<1>4. \A t \in In(timers) : t.id \in Nat /\ t.id <= begun
  BY <1>1, TimerFacts DEF EffectsInv, Numbered
<1> QED
  BY <1>1, <1>2, <1>3, <1>4

\* A fade that waits, and one that begins at once.
LEMMA FadeQueues ==
  ASSUME EffectsInv, NEW e \in Elements, NEW f \in Fades, f.id = begun + 1, queue[e] # <<>>,
         queue' = [queue EXCEPT ![e] = Append(queue[e], f)], last' = [last EXCEPT ![e] = f],
         begun' = begun + 1, begun < MaxFades,
         UNCHANGED <<visible, timers, clock, stopped, threw, spoilt>>
  PROVE  EffectsInv'
<1> DEFINE q == queue[e]
<1>1. PICK r : r = Append(q, f)
  OBVIOUS
<1>2. /\ q \in Queues /\ Marked(q) /\ Len(q) \in Nat /\ Len(q) > 0 /\ e \in Elements
      /\ queue \in [Elements -> Queues] /\ last \in [Elements -> [kind : {"in", "out"}, id : 0 .. MaxFades]]
  BY ElementFacts DEF Queues, EffectsInv, Typed
<1>3. /\ r \in Queues /\ Len(r) = Len(q) + 1 /\ r[Len(r)] = f /\ r # <<>>
      /\ \A k \in 1 .. Len(q) : r[k] = q[k]
  <2> DEFINE S == {InProgress} \union Fades
  <2>1. q \in Seq(S) /\ f \in S
    BY <1>2 DEF Queues
  <2>2. Queues = Seq(S)
    BY DEF Queues
  <2> HIDE DEF q, S
  <2>3. r = Append(q, f)
    BY <1>1 DEF q
  <2>4. /\ r \in Seq(S) /\ Len(r) = Len(q) + 1 /\ r[Len(q) + 1] = f
        /\ \A k \in 1 .. Len(q) : r[k] = q[k]
    BY ONLY <2>1, <2>3, AppendProperties
  <2>5. Len(q) \in Nat /\ Len(r) # 0
    BY <1>2, <2>4
  <2>6. r # <<>>
    BY <2>5
  <2> QED
    BY <2>2, <2>4, <2>6
<1>4. Marked(r)
  <2>1. \A k \in 2 .. Len(r) : k \in 2 .. Len(q) \/ k = Len(r)
    BY <1>2, <1>3
  <2>2. 1 \in 1 .. Len(q) /\ \A k \in 2 .. Len(q) : k \in 1 .. Len(q)
    BY <1>2
  <2> QED
    BY <1>2, <1>3, <2>1, <2>2 DEF Marked
<1> HIDE DEF q
<1>5. queue'[e] = r /\ \A d \in Elements \ {e} : queue'[d] = queue[d]
  BY <1>1, <1>2 DEF q
<1>6. queue' \in [Elements -> Queues]
  BY <1>1, <1>2, <1>3 DEF q
<1>7. last'[e] = f /\ last' \in [Elements -> [kind : {"in", "out"}, id : 0 .. MaxFades]]
      /\ \A d \in Elements \ {e} : last'[d] = last[d]
  <2>1. f \in [kind : {"in", "out"}, id : 0 .. MaxFades]
    BY Bounds DEF Fades
  <2> QED
    BY <1>2, <2>1
<1>8. Typed'
  <2>1. begun' \in 0 .. MaxFades
    BY Bounds DEF EffectsInv, Typed
  <2> QED
    BY <1>6, <1>7, <2>1 DEF EffectsInv, Typed, visible, clock
<1>9. /\ begun \in Nat /\ begun' = begun + 1 /\ timers' = timers /\ running' = running
      /\ timers \in Seq(Timers)
  BY RunningFacts, ElementFacts DEF clock
<1>10. \A d \in Elements : \A k \in 2 .. Len(queue[d]) : queue[d][k].id \in Nat /\ queue[d][k].id <= begun
  BY NewNumber
<1>11. /\ \A d \in Elements : ~Waits(queue[d], f.id)
       /\ \A t \in In(timers) : t.id # f.id /\ t.id \in Nat /\ t.id <= begun
  BY NewNumber
<1>12. /\ \A k \in 2 .. Len(r) : (k \in 2 .. Len(q) /\ r[k] = q[k]) \/ (k = Len(r) /\ r[k] = f)
       /\ \A n : Waits(r, n) => Waits(q, n) \/ n = f.id
  <2>1. \A k \in 2 .. Len(r) : (k \in 2 .. Len(q) /\ r[k] = q[k]) \/ (k = Len(r) /\ r[k] = f)
    BY <1>2, <1>3
  <2> QED
    BY <2>1 DEF Waits
<1>13. Numbered'
  <2>1. \A d \in Elements : \A n : Waits(queue'[d], n) => Waits(queue[d], n) \/ (d = e /\ n = f.id)
    BY <1>5, <1>12 DEF q
  <2>2. ASSUME NEW d \in Elements, NEW k \in 2 .. Len(queue'[d])
        PROVE  \/ k \in 2 .. Len(queue[d]) /\ queue'[d][k] = queue[d][k]
               \/ d = e /\ k = Len(r) /\ queue'[d][k] = f
    BY <1>5, <1>12 DEF q
  <2>3. Distinct(timers') /\ \A t \in In(timers') : t.id <= begun'
    BY <1>9, <1>11 DEF EffectsInv, Numbered
  <2>4. ASSUME NEW d \in Elements, NEW k \in 2 .. Len(queue'[d]) PROVE queue'[d][k].id <= begun'
    BY <1>9, <1>10, <2>2
  <2>5. ASSUME NEW d \in Elements, NEW t \in In(timers') PROVE ~Waits(queue'[d], t.id)
    BY <1>9, <1>11, <2>1 DEF EffectsInv, Numbered
  <2>6. ASSUME NEW d \in Elements, NEW k \in 2 .. Len(queue'[d]), NEW m \in 2 .. Len(queue'[d]),
               queue'[d][k].id = queue'[d][m].id
        PROVE  k = m
    <3>1. CASE k \in 2 .. Len(queue[d]) /\ m \in 2 .. Len(queue[d])
               /\ queue'[d][k] = queue[d][k] /\ queue'[d][m] = queue[d][m]
      <4>1. \A a, b \in 2 .. Len(queue[d]) : queue[d][a].id = queue[d][b].id => a = b
        BY DEF EffectsInv, Numbered
      <4> QED
        BY <2>6, <3>1, <4>1
    <3>2. CASE queue'[d][k] = f /\ k = Len(r) /\ d = e
      BY <1>11, <2>2, <2>6, <3>2 DEF Waits
    <3>3. CASE queue'[d][m] = f /\ m = Len(r) /\ d = e
      BY <1>11, <2>2, <2>6, <3>3 DEF Waits
    <3> QED
      BY <2>2, <3>1, <3>2, <3>3
  <2>7. ASSUME NEW c \in Elements, NEW d \in Elements, NEW k \in 2 .. Len(queue'[d]), c # d
        PROVE  ~Waits(queue'[c], queue'[d][k].id)
    <3>1. CASE k \in 2 .. Len(queue[d]) /\ queue'[d][k] = queue[d][k]
      <4>1. ~Waits(queue[c], queue[d][k].id)
        BY <2>7, <3>1 DEF EffectsInv, Numbered
      <4>2. queue[d][k].id # f.id
        BY <1>11, <3>1 DEF Waits
      <4> QED
        BY <2>1, <3>1, <4>1, <4>2
    <3>2. CASE d = e /\ queue'[d][k] = f
      BY <1>11, <2>1, <2>7, <3>2
    <3> QED
      BY <2>2, <3>1, <3>2
  <2>8. running' # 0 => \E t \in In(timers') : t.id = running' /\ t.over
    BY <1>9, RunningFacts
  <2> QED
    BY <2>3, <2>4, <2>5, <2>6, <2>7, <2>8 DEF Numbered
<1>14. /\ hidden' = hidden /\ opacity' = opacity /\ saved' = saved /\ stopped' = stopped
       /\ threw' = threw /\ spoilt' = spoilt
  BY DEF visible
<1>15. Element(e)'
  <2>1. Element(e) /\ Len(r) > 1
    BY <1>2, <1>3 DEF EffectsInv
  <2> DEFINE U == Under(In(timers), running, e)
  <2>2. /\ Fits(q, U, e \in hidden, opacity[e], saved[e], last[e], e \in stopped, e \in threw,
                e \in spoilt)
        /\ e \notin spoilt => Sound(In(timers), running, e)
    BY <2>1 DEF Element, q
  <2>3. q # <<>>
    BY DEF q
  <2> HIDE DEF U
  <2>4. Fits(r, U, e \in hidden, opacity[e], saved[e], f, e \in stopped, e \in threw, e \in spoilt)
    <3>1. InTurn(r, U, e \in threw)
      BY <1>3, <1>4, <2>2, <2>3 DEF Fits, InTurn
    <3>2. e \notin stopped /\ e \notin threw /\ e \notin spoilt => Leads(r, U, e \in hidden, saved[e], f)
      BY <1>3, <2>1, <2>2 DEF Fits, Leads
    <3> QED
      BY <2>2, <3>1, <3>2 DEF Fits
  <2> QED
    BY <1>5, <1>7, <1>9, <1>14, <2>2, <2>4 DEF Element, U
<1>16. ASSUME NEW d \in Elements \ {e} PROVE Element(d)'
  <2>1. Element(d)
    BY DEF EffectsInv
  <2> QED
    BY <1>5, <1>7, <1>9, <1>14, <2>1, ElementStays
<1>17. Placed'
  BY <1>9, <1>14 DEF EffectsInv, Placed, clock
<1> QED
  BY <1>8, <1>13, <1>15, <1>16, <1>17 DEF EffectsInv

-----------------------------------------------------------------------------
LEMMA FadeBegins ==
  ASSUME EffectsInv, NEW e \in Elements, NEW f \in Fades, f.id = begun + 1, queue[e] = <<>>,
         dequeue(e, <<f>>, timers), last' = [last EXCEPT ![e] = f], begun' = begun + 1,
         begun < MaxFades, fxStart, UNCHANGED <<running, stopped, threw, spoilt>>
  PROVE  EffectsInv'
<1>1. PICK w : w = <<f>>
  OBVIOUS
<1>2. w \in Seq(Fades) /\ w # <<>> /\ Len(w) = 1 /\ w[1] = f /\ Head(w) = f
  BY <1>1
<1>3. w = Waiting(w)
  BY <1>2, FadeFacts DEF Waiting
<1>4. /\ timers \in Seq(Timers) /\ Distinct(timers) /\ begun \in Nat /\ running \in Nat
      /\ running <= begun
  BY ElementFacts, RunningFacts
<1>5. /\ \A d \in Elements : ~Waits(queue[d], f.id)
      /\ \A t \in In(timers) : t.id # f.id
  BY <1>4, NewNumber
<1>6. Apart(w, timers) /\ Fresh(e, w)
  <2>1. \A k \in 1 .. Len(w) : k = 1
    BY <1>2
  <2>2. Apart(w, timers)
    BY <1>2, <1>5, <2>1 DEF Apart
  <2>3. w[1].id <= begun'
    BY <1>2, <1>4
  <2> QED
    BY <1>2, <1>5, <2>1, <2>2, <2>3 DEF Fresh
<1>7. last'[e] = f /\ last' \in [Elements -> [kind : {"in", "out"}, id : 0 .. MaxFades]]
      /\ \A d \in Elements \ {e} : last'[d] = last[d]
  <2>1. f \in [kind : {"in", "out"}, id : 0 .. MaxFades]
    BY Bounds DEF Fades
  <2> QED
    BY <2>1 DEF EffectsInv, Typed
<1>8. PICK st \in BOOLEAN : st <=> e \in stopped'
  BY Zenon
<1>9. Under(In(timers), running, e) = {} /\ e \notin threw
  BY ElementFacts
<1>15. PICK sp \in BOOLEAN : sp <=> e \in spoilt'
  BY Zenon
<1>10. Ready(e, w, timers, last'[e], st, sp)
  <2>1. ~st /\ ~sp => saved[e] = "none"
    BY <1>8, <1>9, <1>15, ElementFacts DEF Leads, Looks
  <2>2. ~sp => saved[e] \in {"none", "original"} /\ (saved[e] = "none" => opacity[e] = "original")
    BY <1>15, ElementFacts
  <2>3. /\ queue \in [Elements -> Queues] /\ hidden \subseteq Elements
        /\ opacity \in [Elements -> Opacity]
        /\ saved \in [Elements -> {"none"} \union Opacity]
    BY DEF EffectsInv, Typed
  <2> QED
    BY <1>2, <1>4, <1>6, <1>7, <1>8, <2>1, <2>2, <2>3 DEF Ready
<1>11. Dequeued(e, w, timers, running, last'[e], st, sp)
  <2>1. w[1].id # running
    BY <1>2, <1>4
  <2>2. dequeue(e, w, timers)
    BY <1>1
  <2> QED
    BY <1>3, <1>4, <1>9, <1>10, <2>1, <2>2, DequeueGives
<1>12. Dequeued(e, w, timers, running, last'[e], e \in stopped', e \in spoilt')
  BY <1>8, <1>11, <1>15 DEF Dequeued, Fits
<1>16. Placed'
  <2>1. /\ ticking # 0 => inProgress
        /\ running # 0 => ticking # 0 /\ PlacedIn(timers, ticking, running, spoilt)
        /\ spoilt' = spoilt /\ running' = running
    BY DEF EffectsInv, Placed
  <2>2. running # 0 => PlacedIn(timers', ticking, running, spoilt)
    <3>1. w[1].id # running
      BY <1>2, <1>4
    <3> QED
      BY <1>11, <2>1, <3>1, PlaceKept
  <2> QED
    BY <2>1, <2>2 DEF Placed, fxStart
<1>17. /\ spoilt \subseteq spoilt' /\ spoilt' \subseteq Elements
       /\ e \notin spoilt' => Sound(In(timers), running, e)
  BY ElementFacts DEF EffectsInv, Typed
<1>13. /\ running \in 0 .. MaxFades /\ begun' \in 0 .. MaxFades /\ begun <= begun'
       /\ ticking' \in Nat /\ inProgress' \in BOOLEAN /\ frames' \in Nat /\ stopped' \subseteq Elements
  <2>1. running \in 0 .. MaxFades /\ stopped' \subseteq Elements
    BY DEF EffectsInv, Typed
  <2>2. begun' \in 0 .. MaxFades /\ begun <= begun'
    BY <1>4, Bounds
  <2>3. ticking' \in Nat /\ inProgress' \in BOOLEAN /\ frames' \in Nat
    <3>1. ticking \in Nat /\ inProgress \in BOOLEAN /\ frames \in Nat
      BY DEF EffectsInv, Typed
    <3>2. CASE inProgress
      BY <3>1, <3>2 DEF fxStart
    <3>3. CASE ~inProgress
      BY <3>1, <3>3 DEF fxStart
    <3> QED
      BY <3>2, <3>3
  <2> QED
    BY <2>1, <2>2, <2>3
<1>14. running # 0 => \E t \in In(timers) : t.id = running /\ t.over
  BY RunningFacts
<1> QED
  BY <1>2, <1>6, <1>7, <1>9, <1>12, <1>13, <1>14, <1>16, <1>17, Restored

LEMMA FadeFits ==
  ASSUME EffectsInv, NEW e \in Elements, NEW kind \in {"in", "out"}, fade(e, kind)
  PROVE  EffectsInv'
<1>1. PICK f : f = [kind |-> kind, id |-> begun + 1]
  OBVIOUS
<1>2. /\ begun < MaxFades /\ begun' = begun + 1 /\ last' = [last EXCEPT ![e] = f]
      /\ UNCHANGED <<running, stopped, threw, spoilt>>
  BY <1>1 DEF fade
<1>3. PICK q : q = Append(queue[e], f)
  OBVIOUS
<1>4. IF Head(q) = InProgress
      THEN /\ queue' = [queue EXCEPT ![e] = q]
           /\ UNCHANGED <<visible, timers, ticking, inProgress, frames>>
      ELSE dequeue(e, q, timers) /\ fxStart
  BY <1>1, <1>3 DEF fade
<1>5. f \in Fades /\ f.id = begun + 1
  BY <1>1, <1>2, RunningFacts, Bounds DEF Fades
<1>6. CASE queue[e] = <<>>
  <2>1. q = <<f>> /\ Head(q) = f
    BY <1>3, <1>6
  <2>2. dequeue(e, <<f>>, timers) /\ fxStart
    BY <1>4, <1>5, <2>1, FadeFacts
  <2> QED
    BY <1>2, <1>5, <1>6, <2>2, FadeBegins
<1>7. CASE queue[e] # <<>>
  <2>1. /\ queue[e] \in Seq({InProgress} \union Fades) /\ queue[e][1] = InProgress
        /\ f \in {InProgress} \union Fades
    BY <1>5, <1>7, ElementFacts DEF Queues, Marked
  <2>2. Head(q) = InProgress
    BY <1>3, <1>7, <2>1
  <2> QED
    BY <1>2, <1>3, <1>4, <1>5, <1>7, <2>2, FadeQueues DEF clock
<1> QED
  BY <1>6, <1>7

-----------------------------------------------------------------------------
\* The end of a complete callback, wherever its timer is by now.
LEMMA ReturnFits ==
  ASSUME EffectsInv, CallbackReturns
  PROVE  EffectsInv'
<1>1. running # 0 /\ running' = 0
  BY DEF CallbackReturns
<1>2. PICK e, ts : e = Called /\ ts = (IF AtItsPlace THEN RemoveAt(timers, ticking) ELSE timers)
  OBVIOUS
<1>3. dequeue(e, queue[e], ts)
  BY <1>2 DEF CallbackReturns
<1>4. PICK t \in In(timers) :
         /\ t.id = running /\ t.over /\ t.elem = e /\ t \in Under(In(timers), running, e)
         /\ \A u \in In(timers) : u.id = running => u = t
         /\ e \in Elements /\ e \notin threw
  BY <1>1, <1>2, CalledTimer
<1>5. timers \in Seq(Timers) /\ Distinct(timers)
  BY DEF EffectsInv, Typed, Numbered
<1>6. ts \in Seq(Timers) /\ Distinct(ts) /\ (In(ts) = In(timers) \/ In(ts) = In(timers) \ {t})
  <2>1. CASE AtItsPlace
    <3>1. ticking \in DOMAIN timers /\ timers[ticking] = t
      BY <1>4, <2>1 DEF AtItsPlace, In
    <3> QED
      BY <1>2, <1>5, <2>1, <3>1, Removed
  <2>2. CASE ~AtItsPlace
    BY <1>2, <1>5, <2>2
  <2> QED
    BY <2>1, <2>2
<1>7. \A u \in In(timers) : u.id # 0
  BY <1>5, TimerFacts
<1>8. Under(In(ts), 0, e) = {}
  <2>1. \A u \in Under(In(timers), running, e) : u = t
    BY <1>4, ElementFacts
  <2> QED
    BY <1>4, <1>6, <1>7, <2>1 DEF Under
<1>9. \A d \in Elements \ {e} : Under(In(ts), 0, d) = Under(In(timers), running, d)
  BY <1>4, <1>6, <1>7 DEF Under
<1>10. PICK w : w = Waiting(queue[e])
  OBVIOUS
<1>11. /\ ticking' \in Nat /\ inProgress' = inProgress /\ frames' = frames /\ begun' = begun
       /\ last' = last /\ stopped' = stopped /\ threw' = threw
  BY DEF CallbackReturns, EffectsInv, Typed, noted
<1>12. w \in Seq(Fades) /\ Apart(w, ts) /\ Fresh(e, w)
  BY <1>4, <1>6, <1>10, <1>11, WaitingFresh
<1>13. PICK st \in BOOLEAN : st <=> e \in stopped'
  BY Zenon
<1>18. PICK sp \in BOOLEAN : sp <=> e \in spoilt'
  BY Zenon
<1>19. spoilt' = spoilt
  BY DEF CallbackReturns, noted
<1>14. Ready(e, w, ts, last'[e], st, sp)
  <2>1. ASSUME ~st, ~sp
        PROVE  saved[e] = "none" /\ IF w = <<>> THEN e \in hidden <=> last'[e].kind = "out"
                                    ELSE w[Len(w)] = last'[e]
    <3>1. Leads(queue[e], Under(In(timers), running, e), e \in hidden, saved[e], last[e])
      BY <1>4, <1>11, <1>13, <1>18, <1>19, <2>1, ElementFacts
    <3>2. queue[e] # <<>> /\ queue[e] \in Queues /\ Marked(queue[e])
      BY <1>4, ElementFacts
    <3>3. /\ w = <<>> <=> Len(queue[e]) = 1
          /\ w # <<>> => Len(queue[e]) > 1 /\ w[Len(w)] = queue[e][Len(queue[e])]
      BY <1>10, <3>2, WaitingOf
    <3>4. Looks(e \in hidden, saved[e], t.kind)
      BY <1>4, <3>1 DEF Leads
    <3>5. w = <<>> => t.kind = last[e].kind
      BY <1>4, <3>1, <3>3 DEF Leads
    <3>6. w # <<>> => w[Len(w)] = last[e]
      BY <3>1, <3>3 DEF Leads
    <3> QED
      BY <1>11, <3>4, <3>5, <3>6 DEF Looks
  <2>2. ~sp => saved[e] \in {"none", "original"} /\ (saved[e] = "none" => opacity[e] = "original")
    BY <1>4, <1>18, <1>19, ElementFacts
  <2>3. /\ queue \in [Elements -> Queues] /\ hidden \subseteq Elements
        /\ opacity \in [Elements -> Opacity]
        /\ saved \in [Elements -> {"none"} \union Opacity]
    BY DEF EffectsInv, Typed
  <2> QED
    BY <1>4, <1>6, <1>12, <2>1, <2>2, <2>3 DEF Ready
<1>15. w # <<>> => w[1].id # 0
  BY <1>12, FadeFacts
<1>16. Dequeued(e, w, ts, 0, last'[e], st, sp)
  BY <1>3, <1>8, <1>10, <1>14, <1>15, DequeueGives
<1>17. Dequeued(e, w, ts, 0, last'[e], e \in stopped', e \in spoilt')
  BY <1>13, <1>16, <1>18 DEF Dequeued, Fits
<1>20. e \notin spoilt' => Sound(In(ts), 0, e)
  <2> SUFFICES ASSUME e \notin spoilt, NEW u \in In(ts), u.elem = e PROVE Harmless(u, 0)
    BY <1>19 DEF Sound
  <2>1. u \in In(timers) /\ Harmless(u, running)
    BY <1>4, <1>6, ElementFacts DEF Sound
  <2>2. CASE u.id # running
    BY <2>1, <2>2 DEF Harmless
  <2>3. CASE u.id = running
    <3>1. u = t
      BY <1>4, <2>1, <2>3
    <3>2. ~AtItsPlace
      <4>1. SUFFICES ASSUME AtItsPlace PROVE FALSE
        OBVIOUS
      <4>2. ticking \in DOMAIN timers /\ timers[ticking] = t
        BY <1>4, <4>1 DEF AtItsPlace, In
      <4>3. In(ts) = In(timers) \ {t}
        BY <1>2, <1>5, <4>1, <4>2, Removed
      <4> QED
        BY <3>1, <4>3
    <3>3. PlacedIn(timers, ticking, running, spoilt)
      BY <1>1 DEF EffectsInv, Placed
    <3>4. ~(u.tweened /\ u.kind = "out")
      BY <2>1, <2>3, <3>2, <3>3 DEF PlacedIn, AtItsPlace
    <3>5. u.kind \in {"in", "out"}
      BY <1>5, <2>1, TimerFacts
    <3> QED
      BY <2>1, <3>1, <3>4, <3>5, <1>4 DEF Harmless
  <2> QED
    BY <2>2, <2>3
<1>21. Placed' /\ spoilt \subseteq spoilt' /\ spoilt' \subseteq Elements
  <2>1. ticking # 0 /\ inProgress /\ inProgress' = inProgress
    BY <1>1, <1>11 DEF EffectsInv, Placed
  <2> QED
    BY <1>1, <1>19, <2>1 DEF Placed, EffectsInv, Typed
<1> QED
  <2>1. /\ 0 \in 0 .. MaxFades /\ begun' \in 0 .. MaxFades /\ begun <= begun'
        /\ inProgress' \in BOOLEAN
        /\ frames' \in Nat /\ last' \in [Elements -> [kind : {"in", "out"}, id : 0 .. MaxFades]]
        /\ stopped' \subseteq Elements
    BY <1>11, Bounds DEF EffectsInv, Typed
  <2>2. /\ In(ts) \subseteq In(timers)
        /\ \A d \in Elements \ {e} : last'[d] = last[d] /\ (d \in stopped' <=> d \in stopped)
    BY <1>6, <1>11
  <2> QED
    BY <1>1, <1>4, <1>9, <1>11, <1>12, <1>17, <1>20, <1>21, <2>1, <2>2, Restored

\* An exception leaves the queue in progress with nothing under way.
LEMMA ThrowFits ==
  ASSUME EffectsInv, CallbackThrows
  PROVE  EffectsInv'
<1>1. /\ running # 0 /\ running' = 0 /\ ticking' = 0 /\ threw' = threw \union {Called}
      /\ spoilt' = Spoilt
  BY DEF CallbackThrows
<1>2. /\ queue' = queue /\ hidden' = hidden /\ opacity' = opacity /\ saved' = saved
      /\ timers' = timers /\ inProgress' = inProgress /\ frames' = frames /\ begun' = begun
      /\ last' = last /\ stopped' = stopped
  BY DEF CallbackThrows, visible
<1>3. PICK t \in In(timers) :
         /\ t.id = running /\ t.over /\ t.elem = Called /\ t = Calling
         /\ t \in Under(In(timers), running, Called)
         /\ \A u \in In(timers) : u.id = running => u = t
         /\ Called \in Elements /\ Called \notin threw
  BY <1>1, CalledTimer
<1>4. PICK e : e = Called
  OBVIOUS
<1>5. \A u \in In(timers) : u.id # 0
  BY TimerFacts DEF EffectsInv, Typed
<1>9. spoilt \subseteq spoilt' /\ spoilt' \subseteq Elements
  BY <1>1, <1>3 DEF Spoilt, EffectsInv, Typed
<1>6. Typed' /\ Numbered' /\ Placed'
  <2>1. Typed'
    BY <1>1, <1>2, <1>3, <1>9, Bounds DEF EffectsInv, Typed
  <2> QED
    BY <1>1, <1>2, <2>1 DEF EffectsInv, Numbered, Waits, Placed
<1>7. Element(e)'
  <2>1. Under(In(timers'), running', e) = {}
    <3>1. \A u \in Under(In(timers), running, e) : u = t
      BY <1>3, <1>4, ElementFacts
    <3> QED
      BY <1>1, <1>2, <1>3, <1>4, <1>5, <3>1 DEF Under
  <2>2. Element(e) /\ queue[e] # <<>> /\ e \in threw'
    BY <1>1, <1>3, <1>4, ElementFacts DEF EffectsInv
  <2>3. ASSUME e \notin spoilt' PROVE Sound(In(timers'), 0, e)
    <3> SUFFICES ASSUME NEW u \in In(timers), u.elem = e PROVE Harmless(u, 0)
      BY <1>2 DEF Sound
    <3>1. Harmless(u, running) /\ u.kind \in {"in", "out"}
      BY <1>4, <1>3, <1>9, <2>3, ElementFacts, TimerFacts DEF Sound
    <3>2. u.id = running => u.over /\ ~(u.tweened /\ u.kind = "out")
      BY <1>1, <1>3, <1>4, <2>3 DEF Spoilt
    <3> QED
      BY <3>1, <3>2 DEF Harmless
  <2> QED
    BY <1>1, <1>2, <1>9, <2>1, <2>2, <2>3 DEF Element, Fits, InTurn, Safe
<1>8. ASSUME NEW d \in Elements \ {e} PROVE Element(d)'
  <2>1. Under(In(timers'), running', d) = Under(In(timers), running, d)
    BY <1>1, <1>2, <1>3, <1>4, <1>5 DEF Under
  <2>2. Element(d) /\ (d \in threw' <=> d \in threw)
    BY <1>1, <1>4 DEF EffectsInv
  <2>3. Sound(In(timers), running, d) => Sound(In(timers'), running', d)
    BY <1>1, <1>2, <1>3, <1>4 DEF Sound, Harmless
  <2> QED
    BY <1>2, <1>9, <2>1, <2>2, <2>3, ElementStays
<1> QED
  BY <1>6, <1>7, <1>8 DEF EffectsInv

-----------------------------------------------------------------------------
\* A step of the tick at the timer t, which becomes u.
LEMMA NumbersTicked ==
  ASSUME EffectsInv, NEW t \in In(timers), NEW u, u.id = t.id, Distinct(timers'),
         In(timers') = (In(timers) \ {t}) \union {u}, queue' = queue, begun' = begun,
         running = 0, running' # 0 => running' = u.id /\ u.over
  PROVE  Numbered'
<1>1. Numbered
  BY DEF EffectsInv
<1>2. \A v \in In(timers') : \E x \in In(timers) : x.id = v.id
  OBVIOUS
<1>3. \A v \in In(timers') : v.id <= begun'
  BY <1>1, <1>2 DEF Numbered
<1>4. \A e \in Elements : \A v \in In(timers') : ~Waits(queue'[e], v.id)
  BY <1>1, <1>2 DEF Numbered
<1> QED
  BY <1>1, <1>3, <1>4 DEF Numbered, Waits

LEMMA OthersTicked ==
  ASSUME EffectsInv, NEW t \in In(timers), NEW u, u.id = t.id, u.elem = t.elem,
         In(timers') = (In(timers) \ {t}) \union {u}, running = 0, running' \in {0, t.id},
         NEW d \in Elements, d # t.elem
  PROVE  Under(In(timers'), running', d) = Under(In(timers), running, d)
<1>1. \A v \in In(timers) : v.id # 0 /\ (v.id = t.id => v = t)
  BY TimerFacts, ByNumber DEF EffectsInv, Typed, Numbered
<1> QED
  BY <1>1 DEF Under

LEMMA TickContinuesFits ==
  ASSUME EffectsInv, TickContinues
  PROVE  EffectsInv'
<1>1. PICK i, t, e : i = ticking /\ t = timers[i] /\ e = t.elem
  OBVIOUS
<1>2. /\ i \in DOMAIN timers /\ running = 0 /\ ~t.over /\ t.left > 0 /\ running' = 0
      /\ ticking' = ticking + 1 /\ opacity' = [opacity EXCEPT ![e] = "partial"]
      /\ queue' = queue /\ hidden' = hidden /\ saved' = saved /\ inProgress' = inProgress
      /\ frames' = frames /\ begun' = begun /\ last' = last /\ stopped' = stopped /\ threw' = threw
      /\ spoilt' = spoilt
  BY <1>1 DEF TickContinues, InLoop, noted
<1>3. /\ timers \in Seq(Timers) /\ Distinct(timers) /\ t \in In(timers) /\ t \in Timers
  BY <1>1, <1>2 DEF EffectsInv, Typed, Numbered, In
<1>4. PICK u : u = [t EXCEPT !.left = t.left - 1]
  OBVIOUS
<1>5. /\ u \in Timers /\ u.id = t.id /\ u.elem = e /\ u.kind = t.kind /\ u.tweened = t.tweened
      /\ ~u.over /\ e \in Elements /\ u.orig = t.orig /\ u.end = t.end
  <2>1. t.left - 1 \in 0 .. MaxFrames
    <3>1. t.left \in 0 .. MaxFrames
      BY <1>3 DEF Timers
    <3>2. MaxFrames \in Nat /\ t.left > 0
      BY <1>2, Bounds
    <3> QED
      BY ONLY <3>1, <3>2
  <2> QED
    BY <1>1, <1>2, <1>3, <1>4, <2>1 DEF Timers
<1>6. timers' = [timers EXCEPT ![i] = u]
  BY <1>1, <1>2, <1>4 DEF TickContinues
<1>7. /\ timers' \in Seq(Timers) /\ Distinct(timers')
      /\ In(timers') = (In(timers) \ {t}) \union {u}
  <2>1. i \in DOMAIN timers /\ u.id = timers[i].id /\ t = timers[i] /\ u \in Timers
    BY <1>1, <1>2, <1>5
  <2>2. timers' = Put(timers, i, u)
    BY <1>6 DEF Put
  <2> QED
    BY <1>3, <2>1, <2>2, Updated
<1>8. Typed'
  <2>1. Typed
    BY DEF EffectsInv
  <2>2. ticking' \in Nat
    BY <1>2, <2>1 DEF Typed
  <2>3. opacity' \in [Elements -> Opacity]
    BY <1>2, <1>5, <2>1 DEF Typed, Opacity
  <2> QED
    BY <1>2, <1>7, <2>1, <2>2, <2>3 DEF Typed
<1>9. Numbered'
  BY <1>2, <1>3, <1>5, <1>7, NumbersTicked
<1>10. \A v \in In(timers) : v.id # 0
  BY <1>3, TimerFacts
<1>11. t \in Under(In(timers), running, e)
  BY <1>1, <1>2, <1>3 DEF Under
<1>12. Element(e)'
  <2>1. \A v \in Under(In(timers), running, e) : v = t
    BY <1>5, <1>11, ElementFacts
  <2>2. Under(In(timers'), running', e) = {u}
    BY <1>2, <1>5, <1>7, <1>10, <2>1 DEF Under
  <2>3. Fits(queue[e], Under(In(timers), running, e), e \in hidden, opacity[e], saved[e],
             last[e], e \in stopped, e \in threw, e \in spoilt)
    BY <1>5 DEF EffectsInv, Element
  <2>4. e \notin spoilt => saved[e] = "original" /\ t.tweened
    BY <1>2, <1>11, <2>3 DEF Fits, Safe
  <2>5. /\ InTurn(queue[e], {u}, e \in threw)
        /\ e \notin spoilt => Safe({u}, opacity'[e], saved[e])
    BY <1>5, <1>11, <2>3, <2>4 DEF Fits, InTurn, Safe
  <2>6. e \notin stopped /\ e \notin threw /\ e \notin spoilt =>
          Leads(queue[e], {u}, e \in hidden, saved[e], last[e])
    BY <1>2, <1>5, <1>11, <2>3 DEF Fits, Leads, Looks
  <2>7. ASSUME e \notin spoilt PROVE Sound(In(timers'), running', e)
    <3>1. Sound(In(timers), running, e)
      BY <1>5, <2>7, ElementFacts
    <3>2. Harmless(t, running)
      BY <1>1, <1>3, <3>1 DEF Sound
    <3>3. Harmless(u, running')
      BY <1>2, <1>5, <3>2 DEF Harmless
    <3> QED
      BY <1>2, <1>7, <3>1, <3>3 DEF Sound
  <2> QED
    BY <1>2, <2>2, <2>5, <2>6, <2>7 DEF Element, Fits
<1>13. ASSUME NEW d \in Elements, d # e PROVE Element(d)'
  <2>1. Under(In(timers'), running', d) = Under(In(timers), running, d)
    BY <1>1, <1>2, <1>3, <1>5, <1>7, <1>13, OthersTicked
  <2>2. Element(d) /\ opacity'[d] = opacity[d]
    BY <1>2, <1>13 DEF EffectsInv, Typed
  <2>3. Sound(In(timers), running, d) => Sound(In(timers'), running', d)
    BY <1>2, <1>5, <1>7, <1>13 DEF Sound
  <2> QED
    BY <1>2, <2>1, <2>2, <2>3, ElementStays
<1>14. Placed'
  <2>1. ticking # 0
    BY <1>1, <1>2, <1>3
  <2> QED
    BY <1>2, <2>1 DEF EffectsInv, Placed
<1> QED
  BY <1>8, <1>9, <1>12, <1>13, <1>14 DEF EffectsInv

LEMMA TickResolvesFits ==
  ASSUME EffectsInv, TickResolves
  PROVE  EffectsInv'
<1>1. PICK i, t, e : i = ticking /\ t = timers[i] /\ e = t.elem
  OBVIOUS
<1>2. /\ i \in DOMAIN timers /\ running = 0 /\ ~t.over /\ running' = t.id
      /\ queue' = queue /\ ticking' = ticking /\ inProgress' = inProgress
      /\ frames' = frames /\ begun' = begun /\ last' = last /\ stopped' = stopped /\ threw' = threw
      /\ spoilt' = spoilt
  BY <1>1 DEF TickResolves, InLoop, noted
<1>3. /\ t.tweened => /\ hidden' = (IF t.kind = "out" THEN hidden \union {e} ELSE hidden)
                      /\ opacity' = [opacity EXCEPT ![e] = t.orig]
                      /\ saved' = [saved EXCEPT ![e] = "none"]
      /\ ~t.tweened => hidden' = hidden /\ opacity' = opacity /\ saved' = saved
  BY <1>1 DEF TickResolves, visible
<1>4. /\ timers \in Seq(Timers) /\ Distinct(timers) /\ t \in In(timers) /\ t \in Timers
  BY <1>1, <1>2 DEF EffectsInv, Typed, Numbered, In
<1>5. PICK u : u = [t EXCEPT !.over = TRUE]
  OBVIOUS
<1>6. /\ u \in Timers /\ u.id = t.id /\ u.elem = e /\ u.kind = t.kind /\ u.over /\ e \in Elements
      /\ t.id \in 1 .. MaxFades /\ t.orig \in Opacity /\ u.end = t.end /\ u.tweened = t.tweened
  BY <1>1, <1>4, <1>5 DEF Timers
<1>7. timers' = [timers EXCEPT ![i] = u]
  BY <1>1, <1>2, <1>5 DEF TickResolves
<1>8. /\ timers' \in Seq(Timers) /\ Distinct(timers')
      /\ In(timers') = (In(timers) \ {t}) \union {u}
  <2>1. i \in DOMAIN timers /\ u.id = timers[i].id /\ t = timers[i] /\ u \in Timers
    BY <1>1, <1>2, <1>6
  <2>2. timers' = Put(timers, i, u)
    BY <1>7 DEF Put
  <2> QED
    BY <1>4, <2>1, <2>2, Updated
<1>9. t \in Under(In(timers), running, e)
  BY <1>1, <1>2, <1>4 DEF Under
<1>10. Fits(queue[e], Under(In(timers), running, e), e \in hidden, opacity[e], saved[e],
            last[e], e \in stopped, e \in threw, e \in spoilt)
  BY <1>6 DEF EffectsInv, Element
<1>17. e \notin spoilt => Sound(In(timers), running, e) /\ Harmless(t, running)
  BY <1>1, <1>4, <1>6, ElementFacts DEF Sound
<1>11. e \notin spoilt /\ t.tweened => t.orig = "original"
  BY <1>2, <1>17 DEF Harmless
<1>12. /\ hidden' \subseteq Elements /\ opacity' \in [Elements -> Opacity]
       /\ saved' \in [Elements -> {"none"} \union Opacity]
       /\ t.tweened => /\ e \notin spoilt => opacity'[e] = "original"
                       /\ saved'[e] = "none"
                       /\ e \in hidden' <=> t.kind = "out" \/ e \in hidden
       /\ ~t.tweened => /\ opacity'[e] = opacity[e] /\ saved'[e] = saved[e]
                        /\ e \in hidden' <=> e \in hidden
       /\ \A d \in Elements : d # e => /\ opacity'[d] = opacity[d] /\ saved'[d] = saved[d]
                                       /\ d \in hidden' <=> d \in hidden
  <2>1. /\ hidden \subseteq Elements /\ opacity \in [Elements -> Opacity]
        /\ saved \in [Elements -> {"none"} \union Opacity]
    BY DEF EffectsInv, Typed
  <2>2. CASE t.tweened
    <3>1. opacity' \in [Elements -> Opacity] /\ opacity'[e] = t.orig
      BY <1>3, <1>6, <2>1, <2>2
    <3>2. saved' \in [Elements -> {"none"} \union Opacity] /\ saved'[e] = "none"
      BY <1>3, <1>6, <2>1, <2>2
    <3> QED
      BY <1>3, <1>6, <1>11, <2>1, <2>2, <3>1, <3>2
  <2>3. CASE ~t.tweened
    BY <1>3, <2>1, <2>3
  <2> QED
    BY <2>2, <2>3
<1>13. Typed'
  <2>1. running' \in 0 .. MaxFades
    BY <1>2, <1>6, Bounds
  <2> QED
    BY <1>2, <1>8, <1>12, <2>1 DEF EffectsInv, Typed
<1>14. Numbered'
  BY <1>2, <1>4, <1>6, <1>8, NumbersTicked
<1>15. Element(e)'
  <2>1. \A v \in Under(In(timers), running, e) : v = t
    BY <1>6, <1>9, ElementFacts
  <2>2. Under(In(timers'), running', e) = {u}
    BY <1>2, <1>4, <1>6, <1>8, <2>1, ByNumber DEF Under
  <2>3. InTurn(queue[e], {u}, e \in threw)
    BY <1>9, <1>10 DEF Fits, InTurn
  <2>4. e \notin spoilt => Safe({u}, opacity'[e], saved'[e])
    BY <1>6, <1>10, <1>12 DEF Fits, Safe
  <2>6. e \notin spoilt => Sound(In(timers'), running', e)
    <3> SUFFICES ASSUME e \notin spoilt, NEW v \in In(timers'), v.elem = e PROVE Harmless(v, t.id)
      BY <1>2 DEF Sound
    <3>1. CASE v = u
      BY <1>2, <1>6, <1>17, <3>1 DEF Harmless
    <3>2. CASE v # u
      <4>1. v \in In(timers) /\ v.id # 0
        BY <1>4, <1>8, <3>2, TimerFacts
      <4> QED
        BY <1>2, <1>17, <4>1 DEF Sound, Harmless
    <3> QED
      BY <3>1, <3>2
  <2>5. ASSUME e \notin stopped /\ e \notin threw /\ e \notin spoilt
        PROVE  Leads(queue[e], {u}, e \in hidden', saved'[e], last[e])
    <3>1. Leads(queue[e], Under(In(timers), running, e), e \in hidden, saved[e], last[e])
      BY <1>10, <2>5 DEF Fits
    <3>2. queue[e] # <<>>
      BY <2>3, <2>5 DEF InTurn
    <3>3. Looks(e \in hidden', saved'[e], u.kind)
      <4>1. IF ~t.tweened THEN Looks(e \in hidden, saved[e], t.kind) ELSE e \notin hidden
        BY <1>2, <1>9, <3>1 DEF Leads
      <4>2. CASE t.tweened
        BY <1>6, <1>12, <4>1, <4>2 DEF Looks
      <4>3. CASE ~t.tweened
        BY <1>6, <1>12, <4>1, <4>3 DEF Looks
      <4> QED
        BY <4>2, <4>3
    <3> QED
      BY <1>6, <1>9, <3>1, <3>2, <3>3 DEF Leads
  <2> QED
    BY <1>2, <2>2, <2>3, <2>4, <2>5, <2>6 DEF Element, Fits
<1>16. ASSUME NEW d \in Elements, d # e PROVE Element(d)'
  <2>1. Under(In(timers'), running', d) = Under(In(timers), running, d)
    BY <1>1, <1>2, <1>4, <1>6, <1>8, <1>16, OthersTicked
  <2>2. Element(d)
    BY <1>16 DEF EffectsInv
  <2>3. Sound(In(timers), running, d) => Sound(In(timers'), running', d)
    BY <1>1, <1>2, <1>6, <1>8, <1>16, TimerFacts DEF Sound, Harmless
  <2> QED
    BY <1>2, <1>12, <1>16, <2>1, <2>2, <2>3, ElementStays
<1>18. Placed'
  <2>1. ticking # 0 /\ ticking \in DOMAIN timers' /\ timers'[ticking].id = t.id
    BY <1>1, <1>2, <1>4, <1>6, <1>7
  <2> QED
    BY <1>2, <2>1 DEF EffectsInv, Placed, PlacedIn
<1> QED
  BY <1>13, <1>14, <1>15, <1>16, <1>18 DEF EffectsInv

LEMMA TickRemovesFits ==
  ASSUME EffectsInv, TickRemoves
  PROVE  EffectsInv'
<1>1. PICK i, t, e : i = ticking /\ t = timers[i] /\ e = t.elem
  OBVIOUS
<1>2. /\ i \in DOMAIN timers /\ running = 0 /\ t.over /\ timers' = RemoveAt(timers, i)
      /\ queue' = queue /\ hidden' = hidden /\ saved' = saved
      /\ opacity' = IF t.tweened THEN [opacity EXCEPT ![e] = t.end] ELSE opacity
      /\ ticking' = ticking /\ running' = running /\ inProgress' = inProgress /\ frames' = frames
      /\ begun' = begun /\ last' = last /\ stopped' = stopped /\ threw' = threw /\ spoilt' = spoilt
  BY <1>1 DEF TickRemoves, InLoop, clock, noted
<1>3. /\ timers \in Seq(Timers) /\ Distinct(timers) /\ t \in In(timers) /\ e \in Elements
      /\ t.end \in Opacity
  <2>1. timers \in Seq(Timers) /\ Distinct(timers) /\ t \in In(timers) /\ t \in Timers
    BY <1>1, <1>2 DEF EffectsInv, Typed, Numbered, In
  <2> QED
    BY <1>1, <2>1 DEF Timers
<1>4. timers' \in Seq(Timers) /\ Distinct(timers') /\ In(timers') = In(timers) \ {t}
  BY <1>1, <1>2, <1>3, Removed
<1>5. /\ opacity' \in [Elements -> Opacity]
      /\ opacity'[e] = IF t.tweened THEN t.end ELSE opacity[e]
      /\ \A d \in Elements \ {e} : opacity'[d] = opacity[d]
  BY <1>2, <1>3 DEF EffectsInv, Typed
<1>6. Typed'
  BY <1>2, <1>4, <1>5 DEF EffectsInv, Typed
<1>7. Numbered' /\ Placed'
  BY <1>2, <1>4 DEF EffectsInv, Numbered, Waits, Placed
<1>8. ASSUME NEW d \in Elements
      PROVE  /\ Element(d) /\ Under(In(timers'), running', d) = Under(In(timers), running, d)
             /\ Sound(In(timers), running, d) => Sound(In(timers'), running', d)
  <2>1. \A v \in In(timers) : v.id # 0
    BY <1>3, TimerFacts
  <2> QED
    BY <1>2, <1>4, <2>1 DEF EffectsInv, Under, Sound
\* Its tween ends where the element is, or where the next fade returns to.
<1>9. e \notin spoilt /\ t.tweened => t.end = "original"
  <2>1. e \notin spoilt => Harmless(t, running)
    BY <1>1, <1>3, ElementFacts DEF Sound
  <2>2. t.id # running
    BY <1>2, <1>3, TimerFacts
  <2> QED
    BY <1>2, <2>1, <2>2 DEF Harmless
<1>10. Element(e)'
  <2>1. e \notin spoilt => (opacity'[e] = "original" \/ opacity'[e] = opacity[e])
    BY <1>5, <1>9
  <2> QED
    BY <1>2, <1>3, <1>8, <2>1 DEF Element, Fits, Safe
<1>11. ASSUME NEW d \in Elements, d # e PROVE Element(d)'
  BY <1>2, <1>5, <1>8, <1>11, ElementStays
<1> QED
  BY <1>6, <1>7, <1>10, <1>11 DEF EffectsInv

\* The steps of the clock alone, and those of nothing.
LEMMA ClockFits ==
  ASSUME EffectsInv, UNCHANGED <<queue, visible, timers, running, noted>>,
         ticking' \in Nat, inProgress' \in BOOLEAN, frames' \in Nat,
         (ticking' = ticking /\ inProgress' = inProgress) \/ (running = 0 /\ (ticking' # 0 => inProgress'))
  PROVE  EffectsInv'
<1>1. /\ queue' = queue /\ hidden' = hidden /\ opacity' = opacity /\ saved' = saved
      /\ timers' = timers /\ running' = running
      /\ begun' = begun /\ last' = last /\ stopped' = stopped /\ threw' = threw
      /\ spoilt' = spoilt
  BY DEF visible, noted
<1>2. Typed'
  BY <1>1 DEF EffectsInv, Typed
<1>3. Numbered'
  BY <1>1 DEF EffectsInv, Numbered, Waits
<1>4. ASSUME NEW d \in Elements PROVE Element(d)'
  BY <1>1, ElementStays DEF EffectsInv
<1>5. Placed'
  BY <1>1 DEF EffectsInv, Placed
<1> QED
  BY <1>2, <1>3, <1>4, <1>5 DEF EffectsInv

-----------------------------------------------------------------------------
LEMMA NextFits ==
  ASSUME EffectsInv, [Next]_vars
  PROVE  EffectsInv'
<1>1. ticking \in Nat /\ inProgress \in BOOLEAN /\ frames \in Nat
  BY DEF EffectsInv, Typed
<1>2. CASE Frame
  <2>1. /\ (ticking' = 1 /\ inProgress) \/ ticking' = ticking
        /\ frames' = frames \/ (frames' = frames - 1 /\ frames > 0)
        /\ inProgress' = inProgress /\ ticking = 0
        /\ UNCHANGED <<queue, visible, timers, running, noted>>
    BY <1>2 DEF Frame, Idle
  <2>3. running = 0
    BY <2>1 DEF EffectsInv, Placed
  <2>2. ticking' \in Nat /\ frames' \in Nat /\ (ticking' # 0 => inProgress')
    BY <1>1, <2>1
  <2> QED
    BY <1>1, <2>1, <2>2, <2>3, ClockFits
<1>3. CASE TickContinues
  BY <1>3, TickContinuesFits
<1>4. CASE TickResolves
  BY <1>4, TickResolvesFits
<1>5. CASE TickRemoves
  BY <1>5, TickRemovesFits
<1>6. CASE TickEnds
  BY <1>1, <1>6, ClockFits DEF TickEnds
<1>7. CASE CallbackReturns
  BY <1>7, ReturnFits
<1>8. CASE CallbackThrows
  BY <1>8, ThrowFits
<1>9. ASSUME NEW e \in Elements, NEW kind \in {"in", "out"}, fade(e, kind) PROVE EffectsInv'
  BY <1>9, FadeFits
<1>10. ASSUME NEW e \in Elements, NEW clear \in BOOLEAN, stop(e, clear) PROVE EffectsInv'
  BY <1>10, StopFits
<1>11. CASE UNCHANGED vars
  BY <1>1, <1>11, ClockFits DEF vars, clock, noted
<1> QED
  BY <1>2, <1>3, <1>4, <1>5, <1>6, <1>7, <1>8, <1>9, <1>10, <1>11 DEF Next, Run

LEMMA InitFits == Init => EffectsInv
<1> SUFFICES ASSUME Init PROVE EffectsInv
  OBVIOUS
<1>1. /\ queue = [e \in Elements |-> <<>>] /\ hidden = {} /\ timers = <<>> /\ running = 0
      /\ opacity = [e \in Elements |-> "original"] /\ saved = [e \in Elements |-> "none"]
      /\ ticking = 0 /\ inProgress = FALSE /\ frames = 0 /\ begun = 0
      /\ last = [e \in Elements |-> [kind |-> "in", id |-> 0]] /\ stopped = {} /\ threw = {}
      /\ spoilt = {}
  BY DEF Init
<1>2. <<>> \in Queues /\ <<>> \in Seq(Timers) /\ Len(<<>>) = 0 /\ In(<<>>) = {} /\ Distinct(<<>>)
  BY DEF Queues, In, Distinct
<1>3. Typed
  <2>1. 0 \in 0 .. MaxFades
    BY Bounds
  <2> QED
    BY <1>1, <1>2, <2>1 DEF Typed, Opacity
<1>4. Numbered /\ Placed
  BY <1>1, <1>2 DEF Numbered, Waits, Placed
<1>5. ASSUME NEW e \in Elements PROVE Element(e)
  <2>1. Under(In(timers), running, e) = {}
    BY <1>1, <1>2 DEF Under
  <2>2. /\ queue[e] = <<>> /\ saved[e] = "none" /\ opacity[e] = "original"
        /\ last[e].kind = "in" /\ e \notin hidden /\ e \notin threw
    BY <1>1
  <2> QED
    BY <1>1, <1>2, <2>1, <2>2 DEF Element, Fits, InTurn, Marked, Safe, Leads, Looks, Sound
<1> QED
  BY <1>3, <1>4, <1>5 DEF EffectsInv

LEMMA EffectsStay == Spec => []EffectsInv
<1>1. EffectsInv /\ [Next]_vars => EffectsInv'
  BY NextFits
<1> QED
  BY <1>1, InitFits, PTL DEF Spec

-----------------------------------------------------------------------------
\* The fades under way on an element, as OneFadeAtATime lists their numbers.
LEMMA UnderwayIs ==
  ASSUME EffectsInv, NEW e \in Elements
  PROVE  LET underway == {timers[i].id : i \in Live(e)} \union {n \in {running} : RunningOn(e)}
         IN  /\ \A n \in underway : \E t \in Under(In(timers), running, e) : t.id = n
             /\ \A t \in Under(In(timers), running, e) : t.id \in underway
<1> DEFINE underway == {timers[i].id : i \in Live(e)} \union {n \in {running} : RunningOn(e)}
<1>1. ASSUME NEW n \in underway PROVE \E t \in Under(In(timers), running, e) : t.id = n
  <2>1. CASE n \in {timers[i].id : i \in Live(e)}
    <3>1. PICK i \in Live(e) : n = timers[i].id
      BY <2>1
    <3> QED
      BY <3>1 DEF Live, Under, In
  <2>2. CASE n = running /\ RunningOn(e)
    BY <2>2 DEF RunningOn, Under, In
  <2> QED
    BY <2>1, <2>2
<1>2. ASSUME NEW t \in Under(In(timers), running, e) PROVE t.id \in underway
  <2>1. PICK i \in DOMAIN timers : t = timers[i]
    BY DEF Under, In
  <2>2. t.elem = e /\ (~t.over \/ t.id = running) /\ t.id # 0
    BY TimerFacts DEF Under, EffectsInv, Typed
  <2>3. CASE ~t.over
    BY <2>1, <2>2, <2>3 DEF Live
  <2>4. CASE t.id = running
    BY <2>1, <2>2, <2>4 DEF RunningOn
  <2> QED
    BY <2>2, <2>3, <2>4
<1> QED
  BY <1>1, <1>2

\* Fades of an element never overlap and none is lost: while its queue is in progress
\* there is exactly one timer or complete callback of it, whatever callbacks begin, stop
\* or throw in the middle of a tick.
THEOREM OneByOne == Spec => []OneFadeAtATime
<1>1. ASSUME EffectsInv PROVE OneFadeAtATime
  <2> SUFFICES ASSUME NEW e \in Elements
               PROVE  LET underway == {timers[i].id : i \in Live(e)} \union {n \in {running} : RunningOn(e)}
                      IN  /\ \A m, n \in underway : m = n
                          /\ \A i \in DOMAIN queue[e] : queue[e][i] = InProgress => i = 1
                          /\ e \notin threw => (queue[e] # <<>> <=> underway # {})
    BY DEF OneFadeAtATime
  <2> DEFINE underway == {timers[i].id : i \in Live(e)} \union {n \in {running} : RunningOn(e)}
             U == Under(In(timers), running, e)
  <2>1. /\ \A n \in underway : \E t \in U : t.id = n
        /\ \A t \in U : t.id \in underway
    BY <1>1, UnderwayIs
  <2>2. /\ InTurn(queue[e], U, e \in threw) /\ queue[e] \in Queues
    BY <1>1 DEF EffectsInv, Element, Fits, Typed
  <2> HIDE DEF underway, U
  <2>3. \A m, n \in underway : m = n
    BY <2>1, <2>2 DEF InTurn
  <2>4. ASSUME NEW i \in DOMAIN queue[e], queue[e][i] = InProgress PROVE i = 1
    <3>1. i \in 1 .. Len(queue[e]) /\ Len(queue[e]) \in Nat
      BY <2>2 DEF Queues
    <3>2. queue[e] # <<>>
      <4>1. SUFFICES ASSUME queue[e] = <<>> PROVE FALSE
        OBVIOUS
      <4> QED
        BY <3>1, <4>1
    <3>3. ASSUME i # 1 PROVE FALSE
      <4>1. i \in 2 .. Len(queue[e])
        BY <3>1, <3>3
      <4>2. queue[e][i] \in Fades
        BY <2>2, <3>2, <4>1 DEF InTurn, Marked
      <4> QED
        BY <2>4, <4>2, FadeFacts
    <3> QED
      BY <3>3
  <2>5. e \notin threw => (queue[e] # <<>> <=> underway # {})
    BY <2>1, <2>2 DEF InTurn
  <2> QED
    BY <2>3, <2>4, <2>5 DEF underway
<1> QED
  BY <1>1, EffectsStay, PTL

\* The opacity that an element had in the beginning is shown or saved, however many
\* fades are queued and stopped half way, and whatever timers run once more after their
\* end, unless the callback of a fadeOut of it threw or stopped a fade with an earlier
\* timer: fxshow is set once and dropped at the end, and a fadeIn ends where it was.
THEOREM NothingFadesAway == Spec => []OpacityKept
<1>1. ASSUME EffectsInv PROVE OpacityKept
  BY <1>1, ElementFacts DEF OpacityKept
<1> QED
  BY <1>1, EffectsStay, PTL

\* An element whose queue is empty looks as its last fade leaves it, unless one was
\* stopped, a callback of it threw, or that of a fadeOut stopped an earlier timer.
THEOREM AsLastBegun == Spec => []LastFadeWins
<1>1. ASSUME EffectsInv PROVE LastFadeWins
  <2> SUFFICES ASSUME NEW e \in Elements, e \notin stopped, e \notin threw, e \notin spoilt,
                      queue[e] = <<>>
               PROVE  opacity[e] = "original" /\ (e \in hidden <=> last[e].kind = "out")
    BY DEF LastFadeWins
  <2> QED
    BY <1>1, ElementFacts DEF Leads, Looks
<1> QED
  BY <1>1, EffectsStay, PTL

\* Queues, styles, timers and the tick's index keep their types.
THEOREM EffectsTyping == Spec => []TypeOK
<1>1. ASSUME EffectsInv PROVE TypeOK
  <2>1. {InProgress} \union Fades \subseteq Fade
    <3>1. InProgress \in Fade
      BY Bounds DEF InProgress, Fade
    <3>2. Fades \subseteq Fade
      BY Bounds DEF Fades, Fade
    <3> QED
      BY <3>1, <3>2
  <2>2. \A q \in Queues : q \in Seq(Fade)
    BY <2>1 DEF Queues
  <2>3. queue \in [Elements -> Seq(Fade)]
    BY <1>1, <2>2 DEF EffectsInv, Typed
  <2> QED
    BY <1>1, <2>3 DEF EffectsInv, Typed, Timers, TypeOK
<1> QED
  BY <1>1, EffectsStay, PTL

-----------------------------------------------------------------------------
\* A tick has been asked for while there are timers.
FramesInv == EffectsInv /\ (timers # <<>> => inProgress) /\ (inProgress => frames > 0)

\* Whenever jQuery.timers is not empty a frame is asked for, also after a callback
\* threw in the middle of a tick: schedule() goes on until a tick leaves no timer.
THEOREM NoTimerForgotten == Spec => []Ticked
<1>1. Init => FramesInv
  BY InitFits DEF Init, FramesInv
<1>2. ASSUME FramesInv, [Next]_vars PROVE FramesInv'
  <2>1. EffectsInv /\ EffectsInv' /\ frames \in Nat
    BY <1>2, NextFits DEF FramesInv, EffectsInv, Typed
  <2>2. CASE Frame
    BY <1>2, <2>1, <2>2 DEF FramesInv, Frame
  <2>3. CASE TickContinues \/ TickResolves \/ TickRemoves
    <3>1. timers # <<>> /\ inProgress' = inProgress /\ frames' = frames
      BY <2>3 DEF TickContinues, TickResolves, TickRemoves, InLoop, clock
    <3> QED
      BY <1>2, <2>1, <3>1 DEF FramesInv
  <2>4. CASE TickEnds
    BY <1>2, <2>1, <2>4 DEF FramesInv, TickEnds
  <2>5. CASE CallbackReturns \/ CallbackThrows
    <3>1. running # 0 /\ inProgress' = inProgress /\ frames' = frames
      BY <2>5 DEF CallbackReturns, CallbackThrows
    <3>2. timers # <<>>
      BY <2>1, <3>1, RunningFacts DEF In
    <3> QED
      BY <1>2, <2>1, <3>1, <3>2 DEF FramesInv
  <2>6. ASSUME NEW e \in Elements, NEW kind \in {"in", "out"}, fade(e, kind) PROVE FramesInv'
    <3>1. \/ UNCHANGED <<timers, inProgress, frames>>
          \/ fxStart
      BY <2>6 DEF fade
    <3>2. CASE fxStart
      BY <1>2, <2>1, <3>2 DEF FramesInv, fxStart
    <3> QED
      BY <1>2, <2>1, <3>1, <3>2 DEF FramesInv
  <2>7. ASSUME NEW e \in Elements, NEW clear \in BOOLEAN, stop(e, clear) PROVE FramesInv'
    <3>1. timers # <<>> /\ inProgress' = inProgress /\ frames' = frames
      BY <2>7 DEF stop, Live, clock
    <3> QED
      BY <1>2, <2>1, <3>1 DEF FramesInv
  <2>8. CASE UNCHANGED vars
    BY <1>2, <2>1, <2>8 DEF FramesInv, vars, clock
  <2> QED
    BY <1>2, <2>2, <2>3, <2>4, <2>5, <2>6, <2>7, <2>8 DEF Next, Run
<1>3. FramesInv => Ticked
  BY DEF FramesInv, Ticked
<1> QED
  BY <1>1, <1>2, <1>3, PTL DEF Spec

=============================================================================
