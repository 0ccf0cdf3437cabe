--------------------------- MODULE GeneratorProofs ---------------------------
(***************************************************************************)
(* The flickers of the generator's page, the uploads, and the conversions  *)
(* that wait for them, for any number of uploads and requests; and the     *)
(* page's events, for any elements, handlers and events.                   *)
(*                                                                         *)
(* What jQuery keeps with the page stays PageSound, whatever scripts do:   *)
(* it is what the browser was given, and the elements are a forest, so     *)
(* that paths end.  With that the calls in progress Proceed: below an      *)
(* event on its way is the dispatch() that has made the call, whose queue  *)
(* holds nothing that was heard.  And what is due to an event (DueFits) is *)
(* at a node it has not come to, in the queue on top of it, or was heard.  *)
(***************************************************************************)
EXTENDS Generator, Events, SumTheorems, SequenceTheorems, FiniteSetTheorems, TLAPS

USE ServerAssumption

\* The server gives its jobs other places and counts, never other kinds.
JobsOK == /\ jobs = [i \in Ids |-> jobs[i]]
          /\ \A i \in Ids : "kind" \in DOMAIN jobs[i]

PageOK == /\ sent \in 0 .. MaxRequests
          /\ heard \in [Ids -> {"unsent", "waiting", "ok", "failed"}]
          /\ owners \subseteq Ids /\ intervals \subseteq Ids
          /\ \A i \in Ids : i > sent => heard[i] = "unsent" /\ i \notin owners \union intervals

Flickers == intervals \intersect owners
OneEach == /\ Flickers = owners \intersect Waiting("put")
           /\ \A a, b \in Flickers : a = b
           /\ "upload" \in labels <=> Flickers # {}
           /\ intervals \ owners = Waiting("convert")
UploadsCounted == uploads = Cardinality(Waiting("put"))

\* The interval of an owner runs as long as its own file is on its way: without
\* this the count could not tell when the button is to be restored.
FlickerInv == JobsOK /\ PageOK /\ OneEach /\ UploadsCounted

-----------------------------------------------------------------------------
LEMMA WaitingFinite ==
  ASSUME NEW kind
  PROVE  IsFiniteSet(Waiting(kind)) /\ Cardinality(Waiting(kind)) \in Nat
<1>1. IsFiniteSet(Ids) BY FS_Interval DEF Ids
<1>2. Waiting(kind) \subseteq Ids BY DEF Waiting
<1> QED BY <1>1, <1>2, FS_Subset, FS_CardinalityType

LEMMA ServerKeepsKinds ==
  ASSUME JobsOK, NEW i \in Ids, Work(i)
  PROVE  JobsOK' /\ \A j \in Ids : jobs'[j].kind = jobs[j].kind
<1>1. ASSUME NEW place, Goto(i, place)
      PROVE  JobsOK' /\ \A j \in Ids : jobs'[j].kind = jobs[j].kind
  BY <1>1 DEF Goto, JobsOK
<1>2. ASSUME NEW place, NEW n, GotoWith(i, place, n)
      PROVE  JobsOK' /\ \A j \in Ids : jobs'[j].kind = jobs[j].kind
  BY <1>2 DEF GotoWith, JobsOK
<1>3. CASE UNCHANGED jobs BY <1>3 DEF JobsOK
<1> DEFINE Moves == \/ \E place : Goto(i, place)
                    \/ \E place, n : GotoWith(i, place, n)
                    \/ UNCHANGED jobs
<1>4. CASE Sweep(i) \/ RemoveFiles(i) \/ RemoveDir(i)
  <2>1. Sweep(i) => Moves BY DEF Sweep
  <2>2. RemoveFiles(i) => Moves BY DEF RemoveFiles
  <2>3. RemoveDir(i) => Moves BY DEF RemoveDir
  <2> QED BY <1>1, <1>2, <1>3, <1>4, <2>1, <2>2, <2>3
<1>5. CASE MakeDir(i) \/ OpenFile(i) \/ WriteFile(i)
  <2>1. MakeDir(i) => Moves BY DEF MakeDir
  <2>2. OpenFile(i) => Moves BY DEF OpenFile
  <2>3. WriteFile(i) => Moves BY DEF WriteFile
  <2> QED BY <1>1, <1>2, <1>3, <1>5, <2>1, <2>2, <2>3
<1>6. CASE Convert(i) \/ Unpack(i) \/ MakeBase64(i) \/ Extract(i)
  <2>1. Convert(i) => Moves BY DEF Convert
  <2>2. Unpack(i) => Moves BY DEF Unpack
  <2>3. MakeBase64(i) => Moves BY DEF MakeBase64
  <2>4. Extract(i) => Moves BY DEF Extract
  <2> QED BY <1>1, <1>2, <1>3, <1>6, <2>1, <2>2, <2>3, <2>4
<1>7. CASE ReadBodies(i) \/ OpenJson(i) \/ CloseJson(i)
  <2>1. ReadBodies(i) => Moves BY DEF ReadBodies
  <2>2. OpenJson(i) => Moves BY DEF OpenJson
  <2>3. CloseJson(i) => Moves BY DEF CloseJson
  <2> QED BY <1>1, <1>2, <1>3, <1>7, <2>1, <2>2, <2>3
<1>8. CASE ReadUrls(i)
  <2>1. Moves BY <1>8 DEF ReadUrls
  <2> QED BY <1>1, <1>2, <1>3, <2>1
<1> QED BY <1>4, <1>5, <1>6, <1>7, <1>8 DEF Work

\* A job that is put at a number that is free.
LEMMA JobPut ==
  ASSUME JobsOK, NEW k \in Ids, NEW kind, NEW d, NEW of, NEW size,
         jobs' = [jobs EXCEPT ![k] = Job(kind, d, of, size)]
  PROVE  /\ JobsOK' /\ jobs'[k].kind = kind
         /\ \A j \in Ids \ {k} : jobs'[j] = jobs[j]
<1>1. Job(kind, d, of, size).kind = kind /\ "kind" \in DOMAIN Job(kind, d, of, size) BY DEF Job
<1> QED BY <1>1 DEF JobsOK

\* Whatever leaves the page and the kinds alone.
LEMMA SamePage ==
  ASSUME FlickerInv, JobsOK', \A j \in Ids : jobs'[j].kind = jobs[j].kind,
         sent' = sent, heard' = heard, uploads' = uploads, owners' = owners,
         intervals' = intervals, labels' = labels
  PROVE  FlickerInv'
<1>1. \A kind : Waiting(kind)' = Waiting(kind) BY DEF Waiting, Is
<1>2. PageOK' BY DEF FlickerInv, PageOK
<1>3. OneEach' BY <1>1 DEF FlickerInv, OneEach, Flickers
<1>4. UploadsCounted' BY <1>1 DEF FlickerInv, UploadsCounted
<1> QED BY <1>2, <1>3, <1>4 DEF FlickerInv

-----------------------------------------------------------------------------
LEMMA UploadClicked ==
  ASSUME FlickerInv, NEW size, ClickUpload(size) PROVE FlickerInv'
<1> DEFINE k == sent + 1
<1>1. /\ k \in Ids /\ sent' = k /\ JobsOK' /\ jobs'[k].kind = "mkdir"
      /\ \A j \in Ids \ {k} : jobs'[j] = jobs[j]
  <2>1. k \in Ids /\ sent' = k
    <3>1. sent < MaxRequests /\ sent' = sent + 1 BY DEF ClickUpload, Send
    <3> QED BY <3>1 DEF FlickerInv, PageOK, Ids
  <2>2. jobs' = [jobs EXCEPT ![k] = Job("mkdir", md5 + 1, "", size)] BY DEF ClickUpload, Send
  <2> QED BY <2>1, <2>2, JobPut DEF FlickerInv
<1>2. /\ heard' = [heard EXCEPT ![k] = "waiting"] /\ uploads' = uploads /\ owners' = owners
      /\ intervals' = intervals /\ labels' = labels
  BY DEF ClickUpload
<1>3. PageOK' BY <1>1, <1>2 DEF FlickerInv, PageOK, Ids
<1>4. heard[k] = "unsent" BY <1>1 DEF FlickerInv, PageOK
<1>5. Waiting("put")' = Waiting("put") /\ Waiting("convert")' = Waiting("convert")
  BY <1>1, <1>2, <1>4 DEF Waiting, Is, FlickerInv, PageOK
<1> QED BY <1>1, <1>2, <1>3, <1>5 DEF FlickerInv, OneEach, Flickers, UploadsCounted

LEMMA ConvertClicked ==
  ASSUME FlickerInv, NEW type \in Types, ClickConvert(type) PROVE FlickerInv'
<1> DEFINE k == sent + 1
<1>1. /\ k \in Ids /\ sent' = k /\ JobsOK' /\ jobs'[k].kind = "convert"
      /\ \A j \in Ids \ {k} : jobs'[j] = jobs[j]
  <2>1. k \in Ids /\ sent' = k BY DEF ClickConvert, Send, FlickerInv, PageOK, Ids
  <2>2. jobs' = [jobs EXCEPT ![k] = Job("convert", menu, type, 0)] BY DEF ClickConvert, Send
  <2> QED BY <2>1, <2>2, JobPut DEF FlickerInv
<1>2. /\ heard' = [heard EXCEPT ![k] = "waiting"] /\ uploads' = uploads /\ owners' = owners
      /\ intervals' = intervals \union {k} /\ labels' = labels \union {"convert"}
  BY DEF ClickConvert
<1>3. PageOK'
  <2>1. ASSUME NEW i \in Ids, i > sent' PROVE heard'[i] = "unsent" /\ i \notin owners' \union intervals'
    <3>1. i > sent /\ i # k BY <1>1, <2>1 DEF FlickerInv, PageOK, Ids
    <3> QED BY <1>2, <3>1 DEF FlickerInv, PageOK
  <2>2. sent' \in 0 .. MaxRequests BY <1>1 DEF FlickerInv, PageOK, Ids
  <2> QED BY <1>1, <1>2, <2>1, <2>2 DEF FlickerInv, PageOK
<1>4. heard[k] = "unsent" /\ k \notin owners BY <1>1 DEF FlickerInv, PageOK, Ids
<1>5. /\ Waiting("put")' = Waiting("put")
      /\ Waiting("convert")' = Waiting("convert") \union {k}
  BY <1>1, <1>2, <1>4 DEF Waiting, Is, FlickerInv, PageOK
<1>6. OneEach' BY <1>2, <1>4, <1>5 DEF FlickerInv, OneEach, Flickers
<1> QED BY <1>1, <1>2, <1>3, <1>5, <1>6 DEF FlickerInv, UploadsCounted

\* The requests K that the answer to a mkdir sends.
LEMMA FilesSent ==
  ASSUME FlickerInv, NEW urls, NEW bodies, uploadFiles(urls, bodies)
  PROVE  /\ sent \in Nat /\ sent' \in 0 .. MaxRequests /\ sent < sent' /\ sent' \in Nat
         /\ sent + 1 \in sent + 1 .. sent' /\ sent + 1 .. sent' \subseteq Ids
         /\ IsFiniteSet(sent + 1 .. sent') /\ Cardinality(sent + 1 .. sent') = sent' - sent
         /\ \A j \in Ids : /\ j \in sent + 1 .. sent' => j > sent /\ j <= sent'
                           /\ j > sent' => j > sent /\ j \notin sent + 1 .. sent'
         /\ \A j \in Ids \ (sent + 1 .. sent') : jobs'[j] = jobs[j]
         /\ \A j \in sent + 1 .. sent' : jobs'[j].kind = "put" /\ "kind" \in DOMAIN jobs'[j]
         /\ JobsOK'
<1>1. sent \in Nat /\ sent' \in Nat /\ sent' <= MaxRequests /\ sent' \in {sent + 1, sent + 2}
      /\ (bodies = 0 => sent' = sent + 1) /\ (bodies # 0 => sent' = sent + 2)
  BY DEF uploadFiles, FlickerInv, PageOK
<1>2. /\ sent' \in 0 .. MaxRequests /\ sent < sent' /\ sent + 1 .. sent' \subseteq Ids
      /\ sent + 1 \in sent + 1 .. sent'
      /\ \A j \in Ids : /\ j \in sent + 1 .. sent' => j > sent /\ j <= sent'
                        /\ j > sent' => j > sent /\ j \notin sent + 1 .. sent'
  BY <1>1 DEF Ids
<1>3. IsFiniteSet(sent + 1 .. sent') /\ Cardinality(sent + 1 .. sent') = sent' - sent
  <2>1. sent + 1 \in Int /\ sent' \in Int /\ ~(sent + 1 > sent')
        /\ sent' - (sent + 1) + 1 = sent' - sent
    BY <1>1
  <2>2. PICK a, b \in Int : a = sent + 1 /\ b = sent'
    BY <2>1
  <2>3. IsFiniteSet(a .. b) /\ Cardinality(a .. b) = IF a > b THEN 0 ELSE b - a + 1
    BY ONLY FS_Interval, a \in Int, b \in Int
  <2> QED
    BY <2>1, <2>2, <2>3
<1>4. PICK p, q : p = Job("put", md5, "urls", urls) /\ q = Job("put", md5, "bodies", bodies)
  OBVIOUS
<1>5. p.kind = "put" /\ "kind" \in DOMAIN p /\ q.kind = "put" /\ "kind" \in DOMAIN q
  BY <1>4 DEF Job
<1>6. jobs' = [j \in Ids |-> IF j = sent + 1 THEN p ELSE IF j = sent + 2 /\ bodies # 0 THEN q
                             ELSE jobs[j]]
  BY <1>4 DEF uploadFiles
<1>7. /\ \A j \in Ids \ (sent + 1 .. sent') : jobs'[j] = jobs[j]
      /\ \A j \in sent + 1 .. sent' : jobs'[j] \in {p, q}
  <2>1. ASSUME NEW j \in Ids
        PROVE  j \in sent + 1 .. sent' <=> j = sent + 1 \/ (j = sent + 2 /\ bodies # 0)
    BY <1>1 DEF Ids
  <2> QED BY <1>2, <1>6, <2>1
<1>8. JobsOK'
  BY <1>2, <1>5, <1>6, <1>7 DEF FlickerInv, JobsOK
<1> QED BY <1>1, <1>2, <1>3, <1>5, <1>7, <1>8

LEMMA MkdirCompleted ==
  ASSUME FlickerInv, NEW i \in Ids, NEW how, MkdirComplete(i, how) PROVE FlickerInv'
<1>1. Is(i, "mkdir") /\ heard[i] = "waiting" /\ i <= sent
  BY DEF MkdirComplete, FlickerInv, PageOK, Ids
<1>2. CASE how # "ok"
  <2>1. /\ heard' = [heard EXCEPT ![i] = "failed"] /\ jobs' = jobs /\ sent' = sent
        /\ uploads' = uploads /\ owners' = owners /\ intervals' = intervals /\ labels' = labels
    BY <1>2 DEF MkdirComplete, Ended
  <2>2. PageOK' BY <1>1, <2>1 DEF FlickerInv, PageOK, Ids
  <2>3. Waiting("put")' = Waiting("put") /\ Waiting("convert")' = Waiting("convert")
    BY <1>1, <2>1 DEF Waiting, Is, FlickerInv, PageOK
  <2> QED BY <2>1, <2>2, <2>3 DEF FlickerInv, JobsOK, OneEach, Flickers, UploadsCounted
<1>3. CASE how = "ok"
  <2>1. PICK bodies \in 0 .. Bodies : uploadFiles(jobs[i].size, bodies)
    BY <1>3 DEF MkdirComplete
  <2>2. PICK K : K = sent + 1 .. sent'
    OBVIOUS
  <2>3. heard' = [j \in Ids |-> IF j = i THEN "ok" ELSE IF j \in K THEN "waiting" ELSE heard[j]]
    BY <1>3, <2>2 DEF MkdirComplete
  <2>4. /\ sent \in Nat /\ sent' \in 0 .. MaxRequests /\ sent < sent' /\ sent + 1 \in K /\ K \subseteq Ids
        /\ IsFiniteSet(K) /\ Cardinality(K) = sent' - sent
        /\ \A j \in Ids : (j \in K => j > sent /\ j <= sent') /\ (j > sent' => j > sent /\ j \notin K)
        /\ \A j \in Ids \ K : jobs'[j] = jobs[j]
        /\ \A j \in K : jobs'[j].kind = "put"
        /\ JobsOK'
    BY <2>1, <2>2, FilesSent
  <2>5. /\ \A k \in K : heard[k] = "unsent" /\ k \notin owners /\ k \notin intervals
        /\ i \notin K
    BY <1>1, <2>4 DEF FlickerInv, PageOK, Ids
  <2>6. /\ Waiting("put")' = Waiting("put") \union K
        /\ Waiting("convert")' = Waiting("convert")
    BY <1>1, <2>3, <2>4, <2>5 DEF Waiting, Is, FlickerInv, PageOK
  <2>7. K \intersect Waiting("put") = {} BY <2>5 DEF Waiting
  <2>8. UploadsCounted'
    <3>1. uploads' = uploads + (sent' - sent) BY <2>1 DEF uploadFiles
    <3>2. PICK W : W = Waiting("put") OBVIOUS
    <3>3. IsFiniteSet(W) /\ Cardinality(W) \in Nat BY <3>2, WaitingFinite
    <3>4. Cardinality(W \union K) = Cardinality(W) + Cardinality(K) - Cardinality(W \intersect K)
      BY <2>4, <3>3, FS_Union
    <3>5. W \intersect K = {} /\ Cardinality({}) = 0 BY <2>7, <3>2, FS_EmptySet
    <3>6. uploads = Cardinality(W) BY <3>2 DEF FlickerInv, UploadsCounted
    <3>7. Cardinality(W \union K) = uploads' BY <2>4, <3>1, <3>3, <3>4, <3>5, <3>6
    <3> QED BY <2>6, <3>2, <3>7 DEF UploadsCounted
  <2>9. CASE uploads = 0
    <3>1. Waiting("put") = {}
      BY <2>9, WaitingFinite, FS_EmptySet DEF FlickerInv, UploadsCounted
    <3>2. /\ owners' = owners \union {sent + 1} /\ intervals' = intervals \union {sent + 1}
          /\ labels' = labels \union {"upload"}
      BY <2>1, <2>9 DEF uploadFiles
    <3>3. PageOK' BY <1>1, <2>3, <2>4, <2>5, <3>2 DEF FlickerInv, PageOK, Ids
    <3>4. OneEach' BY <2>4, <2>5, <2>6, <3>1, <3>2 DEF FlickerInv, OneEach, Flickers
    <3> QED BY <2>4, <2>8, <3>3, <3>4 DEF FlickerInv
  <2>10. CASE uploads # 0
    <3>1. owners' = owners /\ intervals' = intervals /\ labels' = labels
      BY <2>1, <2>10 DEF uploadFiles
    <3>2. PageOK' BY <1>1, <2>3, <2>4, <2>5, <3>1 DEF FlickerInv, PageOK, Ids
    <3>3. OneEach' BY <2>5, <2>6, <3>1 DEF FlickerInv, OneEach, Flickers
    <3> QED BY <2>4, <2>8, <3>2, <3>3 DEF FlickerInv
  <2> QED BY <2>9, <2>10
<1> QED BY <1>2, <1>3

LEMMA PutCompleted ==
  ASSUME FlickerInv, NEW i \in Ids, NEW how, PutComplete(i, how) PROVE FlickerInv'
<1>1. /\ i \in Waiting("put") /\ heard' = [heard EXCEPT ![i] = Ended(how)]
      /\ uploads' = uploads - 1 /\ jobs' = jobs /\ sent' = sent /\ owners' = owners
  BY DEF PutComplete, Waiting, serverVars
<1>2. Ended(how) \in {"ok", "failed"} BY DEF Ended
<1>3. /\ Waiting("put")' = Waiting("put") \ {i}
      /\ Waiting("convert")' = Waiting("convert") /\ i \notin Waiting("convert")
  BY <1>1, <1>2 DEF Waiting, Is, FlickerInv, PageOK
<1>4. UploadsCounted' BY <1>1, <1>3, WaitingFinite, FS_RemoveElement DEF FlickerInv, UploadsCounted
<1>5. PageOK'
  <2>1. intervals' \subseteq intervals BY DEF PutComplete
  <2>2. i <= sent BY <1>1 DEF FlickerInv, PageOK, Ids, Waiting
  <2> QED BY <1>1, <1>2, <2>1, <2>2 DEF FlickerInv, PageOK, Ids
<1>6. CASE i \in owners
  <2>1. intervals' = intervals \ {i} /\ labels' = labels \ {"upload"}
    BY <1>6 DEF PutComplete
  <2> QED BY <1>1, <1>3, <1>4, <1>5, <1>6, <2>1 DEF FlickerInv, JobsOK, OneEach, Flickers
<1>7. CASE i \notin owners
  <2>1. intervals' = intervals /\ labels' = labels BY <1>7 DEF PutComplete
  <2> QED BY <1>1, <1>3, <1>4, <1>5, <1>7, <2>1 DEF FlickerInv, JobsOK, OneEach, Flickers
<1> QED BY <1>6, <1>7

LEMMA ConvertCompleted ==
  ASSUME FlickerInv, NEW i \in Ids, NEW how, ConvertComplete(i, how) PROVE FlickerInv'
<1>1. /\ i \in Waiting("convert") /\ heard' = [heard EXCEPT ![i] = Ended(how)]
      /\ uploads' = uploads /\ jobs' = jobs /\ sent' = sent /\ owners' = owners
      /\ intervals' = intervals \ {i} /\ labels' = labels \ {"convert"}
  BY DEF ConvertComplete, Waiting, serverVars
<1>2. Ended(how) \in {"ok", "failed"} BY DEF Ended
<1>3. /\ Waiting("put")' = Waiting("put")
      /\ Waiting("convert")' = Waiting("convert") \ {i}
  BY <1>1, <1>2 DEF Waiting, Is, FlickerInv, PageOK
<1>4. PageOK'
  <2>1. i <= sent BY <1>1 DEF FlickerInv, PageOK, Ids, Waiting
  <2> QED BY <1>1, <1>2, <2>1 DEF FlickerInv, PageOK, Ids
<1>5. OneEach' BY <1>1, <1>3 DEF FlickerInv, OneEach, Flickers
<1> QED BY <1>1, <1>3, <1>4, <1>5 DEF FlickerInv, JobsOK, UploadsCounted

-----------------------------------------------------------------------------
LEMMA InitFlickers == Init => FlickerInv
<1> SUFFICES ASSUME Init PROVE FlickerInv OBVIOUS
<1>1. JobsOK
  <2>1. "kind" \in DOMAIN NoJob BY DEF NoJob
  <2> QED BY <2>1 DEF Init, ServerInit, JobsOK
<1>5. PageOK BY DEF Init, PageOK, Ids
<1>2. \A kind : Waiting(kind) = {} BY DEF Init, Waiting
<1>3. OneEach BY <1>2 DEF Init, OneEach, Flickers
<1>4. UploadsCounted BY <1>2, FS_EmptySet DEF Init, UploadsCounted
<1> QED BY <1>1, <1>3, <1>4, <1>5 DEF FlickerInv

LEMMA NextFlickers == FlickerInv /\ [Next]_vars => FlickerInv'
<1> SUFFICES ASSUME FlickerInv, [Next]_vars PROVE FlickerInv' OBVIOUS
<1>1. ASSUME NEW i \in Ids, NEW how, Complete(i, how) PROVE FlickerInv'
  BY <1>1, MkdirCompleted, PutCompleted, ConvertCompleted DEF Complete
<1>2. ASSUME NEW i \in Ids, Serve(i) PROVE FlickerInv'
  <2>1. JobsOK' /\ \A j \in Ids : jobs'[j].kind = jobs[j].kind
    BY <1>2, ServerKeepsKinds DEF Serve, FlickerInv
  <2> QED BY <1>2, <2>1, SamePage DEF Serve, pageVars
<1>3. ASSUME NEW d \in Dirs, HourPasses(d) PROVE FlickerInv'
  <2>1. jobs' = jobs BY <1>3 DEF HourPasses, Ages
  <2>2. JobsOK' BY <2>1 DEF FlickerInv, JobsOK
  <2> QED BY <1>3, <2>1, <2>2, SamePage DEF HourPasses
<1>4. CASE UNCHANGED vars
  <2>1. JobsOK' BY <1>4 DEF FlickerInv, JobsOK, vars, serverVars
  <2> QED BY <1>4, <2>1, SamePage DEF vars, serverVars, pageVars
<1> QED BY <1>1, <1>2, <1>3, <1>4, UploadClicked, ConvertClicked DEF Next, Answer, Timeout

\* The count of the uploads on their way is right, and with it the button, in every
\* order of clicks, answers and timeouts.
THEOREM Flickering == Spec => []FlickerCount
<1>1. ASSUME FlickerInv PROVE FlickerCount
  <2>1. Cardinality(Flickers) <= 1
    <3>1. CASE Flickers = {} BY <3>1, FS_EmptySet
    <3>2. CASE Flickers # {}
      <4>1. PICK a : a \in Flickers BY <3>2
      <4>2. Flickers = {a} BY <1>1, <4>1 DEF FlickerInv, OneEach
      <4>3. Cardinality({a}) = 1 BY FS_Singleton
      <4> QED BY <4>2, <4>3
    <3> QED BY <3>1, <3>2
  <2> QED BY <1>1, <2>1 DEF FlickerInv, OneEach, UploadsCounted, FlickerCount, Flickers
<1> QED BY <1>1, InitFlickers, NextFlickers, PTL DEF Spec

-----------------------------------------------------------------------------
(***************************************************************************)
(* What the server holds: jobs, each at a place of its kind, directories,  *)
(* and the two files of an upload in them.                                 *)
(***************************************************************************)
Sweeping == {"sweep", "remove", "rmdir"}
Converting == {"unpack", "makedirs", "extract", "readUrls", "readBodies", "openJson", "close"}
Places(kind) ==
  CASE kind = "mkdir" -> Sweeping \union {"mkdir", "ok", "error"}
    [] kind = "put" -> {"open", "write", "ok", "error"}
    [] kind = "convert" -> Sweeping \union Converting \union {"convert", "ok", "fail", "error"}
    [] OTHER -> {"ok"}
AllPlaces == Sweeping \union Converting \union Replies \union {"mkdir", "open", "write", "convert"}
Most == UrlLines + Bodies

JobType == [kind : {"none", "mkdir", "put", "convert"}, dir : 0 .. MaxUploads,
            of : Files \union Types \union {""}, size : Nat, n : Nat, at : AllPlaces]
DirType == [there : BOOLEAN, old : BOOLEAN, files : [Files -> Absent .. Most]]

JobFits(j) ==
  /\ j \in JobType /\ j.at \in Places(j.kind)
  /\ j.kind = "put" => j.of \in Texts /\ j.size \in 1 .. Lines(j.of)
  /\ j.kind = "convert" => j.of \in Types
  /\ j.kind = "mkdir" => j.dir \in Dirs /\ j.size \in 1 .. UrlLines
  /\ j.at \in Converting => j.dir \in Dirs
  /\ j.kind = "put" /\ j.at \in {"write", "ok"} => j.dir \in Dirs
  /\ j.at = "write" => j.n < j.size
  /\ j.kind = "put" /\ j.at = "ok" => j.n = j.size
  /\ j.at \in {"readBodies", "openJson", "close"} => j.n <= Most
DirFits(d) ==
  /\ d \in DirType
  /\ ~d.there => d.files = Empty.files
  /\ \A f \in Files \ {"json"} : d.files[f] <= Lines(f)
Sound == /\ jobs \in [Ids -> JobType] /\ \A i \in Ids : JobFits(jobs[i])
         /\ dirs \in [Dirs -> DirType] /\ \A d \in Dirs : DirFits(dirs[d])
         /\ text \in [TextLines -> 0 .. MaxRequests]

\* Only what nobody has written to for an hour is swept.
Swept == /\ \A d \in Dirs : dirs[d].old => d \in aged
         /\ \A i \in Ids : Removing(i) => jobs[i].n \in aged

\* A text that was opened is there as long as it cannot have been swept.  Of a text
\* that was opened by several requests, all but one were overlaid, and all when one
\* of them still writes: the text is what that one has written.
Puts(d, f) == {i \in Ids : Is(i, "put") /\ jobs[i].dir = d /\ jobs[i].of = f}
Opened(i) == At(i, "write") \/ At(i, "ok")
Owned(d, f, i) == /\ dirs[d].files[f] = jobs[i].n
                  /\ \A k \in 1 .. jobs[i].n : text[<<d, f, k>>] = i
StaysThere(d, f) == d \notin aged /\ (\E i \in Puts(d, f) : Opened(i)) => dirs[d].files[f] # Absent
OwnText(d, f) ==
  \A i \in Puts(d, f) : Opened(i) /\ i \notin overlaid /\ dirs[d].files[f] # Absent => Owned(d, f, i)
OneWriter(d, f) ==
  \A i, j \in Puts(d, f) : Opened(i) /\ At(j, "write") /\ i # j => i \in overlaid
TextFits(d, f) == StaysThere(d, f) /\ OwnText(d, f) /\ OneWriter(d, f)
TextsFit == \A d \in Dirs, f \in Texts : TextFits(d, f)

ServerInv == Sound /\ Swept /\ TextsFit

LEMMA Sizes ==
  /\ UrlLines \in Nat /\ UrlLines > 0 /\ Bodies \in Nat /\ Bodies > 0 /\ Most \in Nat
  /\ \A f : Lines(f) \in Nat /\ Lines(f) > 0 /\ Lines(f) <= Most
  /\ Absent = -1 /\ MaxUploads \in Nat /\ MaxRequests \in Nat
  /\ \A f \in Files : Empty.files[f] = Absent
<1>1. \A f \in Files : Empty.files[f] = Absent
  BY DEF Empty
<1> QED
  BY <1>1, ServerAssumption DEF Most, Lines, Absent, ServerAssumption

\* A step of the thread of job i.
Moved(i, place, n) == jobs' = [jobs EXCEPT ![i].at = place, ![i].n = n]

LEMMA MovedFields ==
  ASSUME jobs \in [Ids -> JobType], NEW i \in Ids, NEW place \in AllPlaces, NEW n \in Nat,
         Moved(i, place, n)
  PROVE  /\ jobs' \in [Ids -> JobType]
         /\ jobs'[i].kind = jobs[i].kind /\ jobs'[i].dir = jobs[i].dir
         /\ jobs'[i].of = jobs[i].of /\ jobs'[i].size = jobs[i].size /\ jobs'[i].at = place /\ jobs'[i].n = n
         /\ \A j \in Ids \ {i} : jobs'[j] = jobs[j]
<1>1. jobs[i] \in JobType
  OBVIOUS
<1>2. [jobs[i] EXCEPT !.at = place, !.n = n] \in JobType
  BY <1>1 DEF JobType
<1>3. jobs' = [jobs EXCEPT ![i] = [jobs[i] EXCEPT !.at = place, !.n = n]]
  BY DEF Moved
<1>4. jobs'[i] = [jobs[i] EXCEPT !.at = place, !.n = n]
  BY <1>3
<1>5. /\ jobs'[i].kind = jobs[i].kind /\ jobs'[i].dir = jobs[i].dir
      /\ jobs'[i].of = jobs[i].of /\ jobs'[i].size = jobs[i].size /\ jobs'[i].at = place /\ jobs'[i].n = n
  BY <1>1, <1>4 DEF JobType
<1> QED
  BY <1>2, <1>3, <1>5

LEMMA GotoMoves ==
  ASSUME jobs \in [Ids -> JobType], NEW i \in Ids, NEW place
  PROVE  /\ Goto(i, place) => Moved(i, place, jobs[i].n)
         /\ \A n : GotoWith(i, place, n) => Moved(i, place, n)
<1>1. [jobs[i] EXCEPT !.at = place] = [jobs[i] EXCEPT !.at = place, !.n = jobs[i].n]
  BY DEF JobType
<1> QED
  BY <1>1 DEF Goto, GotoWith, Moved

\* What only the writing of a text or an hour changes.
Still == aged' = aged /\ text' = text /\ overlaid' = overlaid

\* The texts of all directories are what they were, and so is who writes them.
SameTexts == \A d \in Dirs, f \in Texts : dirs'[d].files[f] = dirs[d].files[f]

\* A PUT stays one, and is as far as it was.
AsFar(i) ==
  /\ jobs'[i].kind = jobs[i].kind
  /\ jobs[i].kind = "put" =>
       /\ jobs'[i].dir = jobs[i].dir /\ jobs'[i].of = jobs[i].of
       /\ jobs'[i].at = "write" <=> jobs[i].at = "write"
       /\ jobs'[i].at = "ok" <=> jobs[i].at = "ok"
       /\ jobs[i].at \in {"write", "ok"} => jobs'[i].n = jobs[i].n

LEMMA TextsStay ==
  ASSUME TextsFit, SameTexts, aged \subseteq aged', text' = text, overlaid' = overlaid,
         \A i \in Ids : AsFar(i)
  PROVE  TextsFit'
<1> SUFFICES ASSUME NEW d \in Dirs, NEW f \in Texts PROVE TextFits(d, f)'
  BY DEF TextsFit
<1>1. TextFits(d, f) /\ dirs'[d].files[f] = dirs[d].files[f]
  BY DEF TextsFit, SameTexts
<1>2. Puts(d, f)' = Puts(d, f)
  BY DEF Puts, Is, AsFar
<1>3. ASSUME NEW i \in Puts(d, f)
      PROVE  /\ At(i, "write")' <=> At(i, "write")
             /\ Opened(i)' <=> Opened(i)
             /\ Opened(i) /\ Owned(d, f, i) => Owned(d, f, i)'
  <2>1. AsFar(i) /\ jobs[i].kind = "put"
    BY <1>3 DEF Puts, Is
  <2>2. At(i, "write")' <=> At(i, "write")
    BY <2>1 DEF AsFar, At
  <2>3. Opened(i)' <=> Opened(i)
    BY <2>1 DEF AsFar, At, Opened
  <2>4. Opened(i) => jobs'[i].n = jobs[i].n
    BY <2>1 DEF AsFar, At, Opened
  <2>5. Opened(i) /\ Owned(d, f, i) => Owned(d, f, i)'
    BY <1>1, <2>4 DEF Owned
  <2> QED
    BY <2>2, <2>3, <2>5
<1>5. StaysThere(d, f)'
  BY <1>1, <1>2, <1>3 DEF TextFits, StaysThere
<1>6. OwnText(d, f)'
  BY <1>1, <1>2, <1>3 DEF TextFits, OwnText
<1>7. OneWriter(d, f)'
  BY <1>1, <1>2, <1>3 DEF TextFits, OneWriter
<1> QED
  BY <1>5, <1>6, <1>7 DEF TextFits

\* What one step of a job needs, to leave the server as it should be.
LEMMA ServerStep ==
  ASSUME ServerInv, NEW i \in Ids, NEW place \in AllPlaces, NEW n \in Nat, Moved(i, place, n),
         aged' = aged, JobFits(jobs'[i]),
         place \in {"remove", "rmdir"} => n \in aged,
         dirs' \in [Dirs -> DirType],
         \A d \in Dirs : DirFits(dirs'[d]) /\ (dirs'[d].old => dirs[d].old),
         text' \in [TextLines -> 0 .. MaxRequests], TextsFit'
  PROVE  ServerInv'
<1>1. /\ jobs' \in [Ids -> JobType] /\ jobs'[i].at = place /\ jobs'[i].n = n
      /\ \A j \in Ids \ {i} : jobs'[j] = jobs[j]
  BY MovedFields DEF ServerInv, Sound
<1>2. Sound'
  BY <1>1 DEF ServerInv, Sound
<1>3. Swept'
  BY <1>1 DEF ServerInv, Swept, Removing
<1> QED
  BY <1>2, <1>3 DEF ServerInv

\* A step that is neither the beginning nor the end of writing a text.
Quiet(i, place, n) ==
  /\ i \in Ids /\ place \in AllPlaces /\ n \in Nat /\ Moved(i, place, n) /\ Still
  /\ JobFits(jobs'[i])
  /\ ~Is(i, "put") \/ (place = "error" /\ At(i, "open"))
  /\ place \in {"remove", "rmdir"} => n \in aged
DirsKept ==
  /\ dirs' \in [Dirs -> DirType] /\ SameTexts
  /\ \A d \in Dirs : DirFits(dirs'[d]) /\ (dirs'[d].old => dirs[d].old)

LEMMA QuietStep ==
  ASSUME ServerInv, NEW i, NEW place, NEW n, Quiet(i, place, n), DirsKept PROVE ServerInv'
<1>1. /\ jobs'[i].kind = jobs[i].kind /\ jobs'[i].dir = jobs[i].dir
      /\ jobs'[i].of = jobs[i].of /\ jobs'[i].size = jobs[i].size /\ jobs'[i].at = place
      /\ \A j \in Ids \ {i} : jobs'[j] = jobs[j]
  BY MovedFields DEF ServerInv, Sound, Quiet
<1>2. TextsFit'
  <2>1. ASSUME NEW j \in Ids PROVE AsFar(j)
    <3>1. CASE j = i
      BY <1>1, <3>1 DEF Is, At, Quiet, AsFar
    <3>2. CASE j # i
      BY <1>1, <3>2 DEF AsFar
    <3> QED
      BY <3>1, <3>2
  <2>2. text' = text /\ overlaid' = overlaid /\ aged \subseteq aged'
    BY DEF Quiet, Still
  <2> QED
    BY <2>1, <2>2, TextsStay DEF ServerInv, DirsKept
<1>3. text' \in [TextLines -> 0 .. MaxRequests] /\ aged' = aged
  BY DEF Quiet, Still, ServerInv, Sound
<1> QED
  BY <1>2, <1>3, ServerStep DEF Quiet, DirsKept

\* A request that has opened its text, and the lines it has written.
LEMMA OpenedFits ==
  ASSUME ServerInv, NEW d \in Dirs, NEW f \in Texts, NEW j \in Puts(d, f), Opened(j)
  PROVE  /\ j \in Ids /\ jobs[j].n \in Nat /\ jobs[j].size \in Nat /\ jobs[j].n <= jobs[j].size
         /\ jobs[j].size <= Lines(f)
         /\ \A k \in 1 .. jobs[j].size : k \in Nat /\ <<d, f, k>> \in TextLines
<1>1. /\ j \in Ids /\ JobFits(jobs[j]) /\ jobs[j] \in JobType /\ jobs[j].kind = "put"
      /\ jobs[j].of = f
  BY DEF Puts, Is, ServerInv, Sound, JobFits
<1>2. jobs[j].n \in Nat /\ jobs[j].size \in Nat /\ jobs[j].size \in 1 .. Lines(f)
  BY <1>1 DEF JobFits, JobType
<1>3. jobs[j].n <= jobs[j].size
  BY <1>1, <1>2 DEF JobFits, Opened, At
<1>4. jobs[j].size <= Lines(f) /\ Lines(f) \in Nat /\ Lines(f) <= UrlLines + Bodies
      /\ UrlLines + Bodies \in Nat
  BY <1>2, Sizes DEF Most
<1>5. \A k \in 1 .. jobs[j].size : k \in Nat /\ k \in 1 .. UrlLines + Bodies
  BY <1>2, <1>4
<1> QED
  BY <1>1, <1>2, <1>3, <1>4, <1>5 DEF TextLines

\* A text that a step does not write to.
LEMMA OtherText ==
  ASSUME ServerInv, NEW d \in Dirs, NEW f \in Texts, Puts(d, f)' = Puts(d, f),
         \A j \in Puts(d, f) : jobs'[j] = jobs[j], dirs'[d].files[f] = dirs[d].files[f],
         aged' = aged, overlaid \subseteq overlaid',
         \A k \in Nat : <<d, f, k>> \in TextLines => text'[<<d, f, k>>] = text[<<d, f, k>>]
  PROVE  TextFits(d, f)'
<1>1. StaysThere(d, f) /\ OwnText(d, f) /\ OneWriter(d, f)
  BY DEF ServerInv, TextsFit, TextFits
<1>2. \A j \in Puts(d, f) : (Opened(j)' <=> Opened(j)) /\ (At(j, "write")' <=> At(j, "write"))
  BY DEF Opened, At
<1>3. ASSUME NEW j \in Puts(d, f), Opened(j), Owned(d, f, j) PROVE Owned(d, f, j)'
  <2>1. /\ jobs[j].n \in Nat /\ jobs[j].size \in Nat /\ jobs[j].n <= jobs[j].size
        /\ \A k \in 1 .. jobs[j].size : k \in Nat /\ <<d, f, k>> \in TextLines
    BY <1>3, OpenedFits
  <2>2. \A k \in 1 .. jobs[j].n : text'[<<d, f, k>>] = text[<<d, f, k>>]
    BY <2>1
  <2> QED
    BY <1>3, <2>2 DEF Owned
<1>4. StaysThere(d, f)'
  BY <1>1, <1>2 DEF StaysThere
<1>5. OwnText(d, f)'
  BY <1>1, <1>2, <1>3 DEF OwnText
<1>6. OneWriter(d, f)'
  BY <1>1, <1>2 DEF OneWriter
<1> QED
  BY <1>4, <1>5, <1>6 DEF TextFits

\* The other requests that have opened the text of request i.
LEMMA OthersOpened ==
  ASSUME NEW i \in Ids, Is(i, "put"), NEW j \in Puts(jobs[i].dir, jobs[i].of), j # i, Opened(j)
  PROVE  j \in SameFile(i)
BY DEF Puts, Is, Opened, At, SameFile

LEMMA DirsStay == ASSUME ServerInv, dirs' = dirs PROVE DirsKept
BY DEF ServerInv, Sound, SameTexts, DirsKept

-----------------------------------------------------------------------------
\* A file that is written in a directory that is there.
LEMMA WriteFits ==
  ASSUME dirs \in [Dirs -> DirType], NEW d \in Dirs, DirFits(dirs[d]), dirs[d].there,
         NEW f \in Files, NEW n \in 0 .. Most, f # "json" => n <= Lines(f), Write(d, f, n)
  PROVE  /\ dirs' \in [Dirs -> DirType] /\ DirFits(dirs'[d])
         /\ dirs'[d].old => dirs[d].old
         /\ dirs'[d].files[f] = n
         /\ \A g \in Files \ {f} : dirs'[d].files[g] = dirs[d].files[g]
         /\ \A e \in Dirs \ {d} : dirs'[e] = dirs[e]
<1> DEFINE old == dirs[d].old /\ dirs[d].files[f] # Absent
           files == [dirs[d].files EXCEPT ![f] = n]
           r == [dirs[d] EXCEPT !.files = files, !.old = old]
<1>1. /\ dirs[d] \in DirType /\ dirs[d].files \in [Files -> Absent .. Most]
      /\ dirs[d].old \in BOOLEAN /\ dirs[d].there \in BOOLEAN /\ dirs[d].there
  BY DEF DirType
<1>2. dirs' = [dirs EXCEPT ![d] = r]
  BY DEF Write
<1>3. n \in Absent .. Most
  BY Sizes
<1>4. /\ files \in [Files -> Absent .. Most] /\ files[f] = n
      /\ \A g \in Files \ {f} : files[g] = dirs[d].files[g]
  BY <1>1, <1>3
<1>5. old \in BOOLEAN /\ (old => dirs[d].old)
  OBVIOUS
<1> HIDE DEF files, old
<1>6. r \in DirType /\ r.files = files /\ r.old = old /\ (r.there <=> dirs[d].there)
  BY <1>1, <1>4, <1>5 DEF DirType
<1> HIDE DEF r
<1>7. dirs'[d] = r /\ dirs' \in [Dirs -> DirType] /\ \A e \in Dirs \ {d} : dirs'[e] = dirs[e]
  BY <1>2, <1>6
<1>8. \A g \in Files \ {"json"} : files[g] <= Lines(g)
  BY <1>4 DEF DirFits
<1>9. DirFits(r)
  BY <1>1, <1>6, <1>8 DEF DirFits
<1> QED
  BY <1>4, <1>5, <1>6, <1>7, <1>9

LEMMA ServerFacts ==
  ASSUME ServerInv, NEW i \in Ids
  PROVE  /\ jobs \in [Ids -> JobType] /\ JobFits(jobs[i])
         /\ jobs[i].n \in Nat /\ jobs[i].at \in Places(jobs[i].kind)
         /\ jobs[i].kind \in {"none", "mkdir", "put", "convert"}
         /\ dirs \in [Dirs -> DirType] /\ \A d \in Dirs : DirFits(dirs[d])
BY DEF ServerInv, Sound, JobFits, JobType

\* The places of the kinds, and where a job of a kind can be.
LEMMA PlacesOf ==
  /\ Places("mkdir") = Sweeping \union {"mkdir", "ok", "error"}
  /\ Places("put") = {"open", "write", "ok", "error"}
  /\ Places("convert") = Sweeping \union Converting \union {"convert", "ok", "fail", "error"}
  /\ Places("none") = {"ok"}
BY DEF Places

\* A job that goes to a place where it needs no directory.
LEMMA FitsSomewhere ==
  ASSUME NEW j, NEW k, JobFits(j), k \in JobType, k.kind = j.kind, k.dir = j.dir, k.of = j.of, k.size = j.size,
         k.at \in Places(k.kind), k.at \notin Converting, k.at # "write",
         k.kind = "put" => k.at # "ok"
  PROVE  JobFits(k)
BY DEF JobFits, Converting

\* A conversion that goes on in its directory.
LEMMA FitsConverting ==
  ASSUME NEW j, NEW k, JobFits(j), k \in JobType, k.kind = j.kind, k.dir = j.dir, k.of = j.of,
         k.kind = "convert", k.dir \in Dirs, k.at \in Converting \union {"ok"},
         k.at \in {"readBodies", "openJson", "close"} => k.n <= Most
  PROVE  JobFits(k)
<1>1. k.at \in Places(k.kind) /\ k.at # "write"
  BY PlacesOf DEF Converting
<1> QED
  BY <1>1 DEF JobFits

LEMMA SweepServes ==
  ASSUME ServerInv, NEW i \in Ids, Sweep(i), Still PROVE ServerInv'
<1>1. /\ jobs \in [Ids -> JobType] /\ JobFits(jobs[i]) /\ jobs[i].n \in Nat /\ At(i, "sweep")
      /\ jobs[i].kind \in {"mkdir", "convert"} /\ dirs' = dirs
  BY ServerFacts, PlacesOf DEF Sweep, At, Sweeping
<1>2. ASSUME NEW place \in AllPlaces, NEW n \in Nat, Moved(i, place, n),
             place \in Places(jobs[i].kind), place \notin Converting,
             place \in {"remove", "rmdir"} => n \in aged
      PROVE  ServerInv'
  <2>1. /\ jobs'[i] \in JobType /\ jobs'[i].kind = jobs[i].kind /\ jobs'[i].dir = jobs[i].dir
        /\ jobs'[i].of = jobs[i].of /\ jobs'[i].size = jobs[i].size /\ jobs'[i].at = place
    BY <1>1, <1>2, MovedFields
  <2>2. place # "write"
    BY <1>1, <1>2, PlacesOf DEF Sweeping, Converting
  <2>3. JobFits(jobs'[i])
    BY <1>1, <1>2, <2>1, <2>2, FitsSomewhere
  <2>4. ~Is(i, "put")
    BY <1>1 DEF Is
  <2>5. Quiet(i, place, n)
    BY <1>2, <2>3, <2>4 DEF Quiet
  <2>6. DirsKept
    BY <1>1, DirsStay
  <2> QED
    BY <2>5, <2>6, QuietStep
<1>3. CASE Goto(i, jobs[i].kind)
  <2>1. jobs[i].kind \in Places(jobs[i].kind) /\ jobs[i].kind \in AllPlaces
        /\ jobs[i].kind \notin Converting /\ jobs[i].kind \notin {"remove", "rmdir"}
    BY <1>1, PlacesOf DEF AllPlaces, Converting
  <2> QED
    BY <1>1, <1>2, <1>3, <2>1, GotoMoves
<1>4. ASSUME NEW d \in Dirs, dirs[d].old, GotoWith(i, "remove", d) PROVE ServerInv'
  <2>1. "remove" \in Places(jobs[i].kind) /\ "remove" \in AllPlaces /\ "remove" \notin Converting
    BY <1>1, PlacesOf DEF AllPlaces, Converting, Sweeping
  <2>2. d \in Nat /\ d \in aged
    BY <1>4 DEF ServerInv, Swept, Dirs
  <2>3. Moved(i, "remove", d)
    BY <1>1, <1>4, GotoMoves
  <2> QED
    BY <1>2, <2>1, <2>2, <2>3
<1>5. CASE Goto(i, "error")
  <2>1. "error" \in Places(jobs[i].kind) /\ "error" \in AllPlaces /\ "error" \notin Converting
    BY <1>1, PlacesOf DEF AllPlaces, Converting, Replies
  <2> QED
    BY <1>1, <1>2, <1>5, <2>1, GotoMoves
<1> QED
  BY <1>3, <1>4, <1>5 DEF Sweep

\* An exception, and other ends of a request that writes no text.
LEMMA Ends ==
  ASSUME ServerInv, NEW i \in Ids, NEW place, place \in {"error", "fail", "sweep", "rmdir"},
         NEW n \in Nat, Moved(i, place, n), Still, place \in Places(jobs[i].kind),
         ~Is(i, "put") \/ At(i, "open"), place = "rmdir" => n \in aged, DirsKept
  PROVE  ServerInv'
<1>1. place \in AllPlaces /\ place \notin Converting
  BY DEF AllPlaces, Converting, Replies, Sweeping
<1>2. jobs \in [Ids -> JobType] /\ JobFits(jobs[i])
  BY ServerFacts
<1>3. /\ jobs'[i] \in JobType /\ jobs'[i].kind = jobs[i].kind /\ jobs'[i].dir = jobs[i].dir
      /\ jobs'[i].of = jobs[i].of /\ jobs'[i].size = jobs[i].size /\ jobs'[i].at = place
  BY <1>1, <1>2, MovedFields
<1>4. JobFits(jobs'[i])
  BY <1>1, <1>2, <1>3, FitsSomewhere
<1>5. ~Is(i, "put") \/ (place = "error" /\ At(i, "open"))
  BY PlacesOf DEF Is
<1>6. Quiet(i, place, n)
  BY <1>1, <1>4, <1>5 DEF Quiet
<1> QED
  BY <1>6, QuietStep

LEMMA RemoveDirServes ==
  ASSUME ServerInv, NEW i \in Ids, RemoveDir(i), Still PROVE ServerInv'
<1> DEFINE d == jobs[i].n
<1>1. /\ jobs \in [Ids -> JobType] /\ JobFits(jobs[i]) /\ d \in Nat /\ At(i, "rmdir")
      /\ jobs[i].kind \in {"mkdir", "convert"}
      /\ dirs \in [Dirs -> DirType] /\ \A e \in Dirs : DirFits(dirs[e])
  BY ServerFacts, PlacesOf DEF RemoveDir, At
<1>2. ~Is(i, "put") /\ {"error", "sweep"} \subseteq Places(jobs[i].kind)
  BY <1>1, PlacesOf DEF Is, Sweeping
<1>3. CASE Goto(i, "error") /\ UNCHANGED dirs
  BY <1>1, <1>2, <1>3, GotoMoves, DirsStay, Ends
<1>4. CASE /\ There(d) /\ dirs[d].files = Empty.files /\ dirs' = [dirs EXCEPT ![d] = Gone]
           /\ GotoWith(i, "sweep", 0)
  <2>1. d \in Dirs
    BY <1>4 DEF There
  <2>2. Gone \in DirType /\ DirFits(Gone) /\ Gone.files = Empty.files /\ ~Gone.old
    <3>1. [f \in Files |-> Absent] \in [Files -> Absent .. Most]
      BY Sizes
    <3>2. Empty \in DirType /\ Gone.files = Empty.files /\ ~Gone.old /\ Gone \in DirType
      BY <3>1 DEF Empty, Gone, DirType
    <3> QED
      BY <3>2, Sizes DEF DirFits
  <2>3. /\ dirs' \in [Dirs -> DirType] /\ dirs'[d] = Gone
        /\ \A e \in Dirs \ {d} : dirs'[e] = dirs[e]
    BY <1>1, <1>4, <2>1, <2>2
  <2>4. SameTexts
    BY <1>4, <2>2, <2>3 DEF SameTexts
  <2>5. \A e \in Dirs : DirFits(dirs'[e]) /\ (dirs'[e].old => dirs[e].old)
    BY <1>1, <2>2, <2>3
  <2>6. Moved(i, "sweep", 0)
    BY <1>1, <1>4, GotoMoves
  <2> QED
    BY <1>2, <2>3, <2>4, <2>5, <2>6, Ends DEF DirsKept
<1> QED
  BY <1>3, <1>4 DEF RemoveDir

-----------------------------------------------------------------------------
LEMMA RemoveFilesServes ==
  ASSUME ServerInv, NEW i \in Ids, RemoveFiles(i), Still PROVE ServerInv'
<1> DEFINE d == jobs[i].n
<1>1. /\ jobs \in [Ids -> JobType] /\ JobFits(jobs[i]) /\ d \in Nat /\ At(i, "remove")
      /\ jobs[i].kind \in {"mkdir", "convert"}
      /\ dirs \in [Dirs -> DirType] /\ \A e \in Dirs : DirFits(dirs[e])
  BY ServerFacts, PlacesOf DEF RemoveFiles, At
<1>2. /\ ~Is(i, "put") /\ {"error", "rmdir"} \subseteq Places(jobs[i].kind)
      /\ d \in aged
  BY <1>1, PlacesOf DEF Is, Sweeping, ServerInv, Swept, Removing, At
<1>3. CASE Goto(i, "error") /\ UNCHANGED dirs
  BY <1>1, <1>2, <1>3, GotoMoves, DirsStay, Ends
<1>4. ASSUME There(d), dirs' = [dirs EXCEPT ![d].files = [f \in Files |-> Absent]],
             NEW place, place \in {"rmdir", "error"}, Goto(i, place)
      PROVE  ServerInv'
  <2> DEFINE r == [dirs[d] EXCEPT !.files = [f \in Files |-> Absent]]
  <2>1. d \in Dirs
    BY <1>4 DEF There
  <2>2. r \in DirType /\ DirFits(r) /\ (r.old => dirs[d].old) /\ \A f \in Files : r.files[f] = Absent
    <3>1. [f \in Files |-> Absent] \in [Files -> Absent .. Most]
      BY Sizes
    <3>2. dirs[d] \in DirType
      BY <1>1, <2>1
    <3>3. /\ r \in DirType /\ (r.old => dirs[d].old) /\ r.files = [f \in Files |-> Absent]
      BY <3>1, <3>2 DEF DirType
    <3>4. r.files = Empty.files
      BY <3>3 DEF Empty
    <3> HIDE DEF r
    <3> QED
      BY <3>3, <3>4, Sizes DEF DirFits
  <2>3. dirs' = [dirs EXCEPT ![d] = r]
    BY <1>4
  <2> HIDE DEF r, d
  <2>4. /\ dirs' \in [Dirs -> DirType] /\ dirs'[d] = r
        /\ \A e \in Dirs \ {d} : dirs'[e] = dirs[e]
    BY <1>1, <2>1, <2>2, <2>3
  <2>5. \A e \in Dirs : DirFits(dirs'[e]) /\ (dirs'[e].old => dirs[e].old)
    BY <1>1, <2>2, <2>4
  <2>6. Moved(i, place, d)
    BY <1>1, <1>4, GotoMoves DEF d
  <2>7. place \in AllPlaces /\ place \notin Converting /\ place \in Places(jobs[i].kind)
    BY <1>2, <1>4 DEF AllPlaces, Converting, Replies, Sweeping
  <2>8. /\ jobs'[i] \in JobType /\ jobs'[i].kind = jobs[i].kind /\ jobs'[i].dir = jobs[i].dir
        /\ jobs'[i].of = jobs[i].of /\ jobs'[i].size = jobs[i].size /\ jobs'[i].at = place
        /\ \A j \in Ids \ {i} : jobs'[j] = jobs[j]
    BY <1>1, <2>6, <2>7, MovedFields
  <2>9. JobFits(jobs'[i])
    BY <1>1, <1>2, <1>4, <2>7, <2>8, FitsSomewhere DEF Is
  <2>10. TextsFit'
    <3> SUFFICES ASSUME NEW e \in Dirs, NEW f \in Texts PROVE TextFits(e, f)'
      BY DEF TextsFit
    <3>1. Puts(e, f)' = Puts(e, f) /\ \A j \in Puts(e, f) : jobs'[j] = jobs[j]
      BY <1>2, <2>8 DEF Puts, Is
    <3>2. CASE e = d
      <4>1. dirs'[e].files[f] = Absent
        BY <2>2, <2>4, <3>2 DEF Texts, Files
      <4>2. StaysThere(e, f)' /\ OwnText(e, f)'
        BY <1>2, <3>2, <4>1 DEF StaysThere, OwnText, d, Still
      <4>3. OneWriter(e, f)'
        BY <3>1 DEF ServerInv, TextsFit, TextFits, OneWriter, Opened, At, Still
      <4> QED
        BY <4>2, <4>3 DEF TextFits
    <3>3. CASE e # d
      BY <2>4, <3>1, <3>3, OtherText DEF Still
    <3> QED
      BY <3>2, <3>3
  <2>11. d \in Nat /\ d \in aged /\ aged' = aged /\ text' \in [TextLines -> 0 .. MaxRequests]
    BY <1>1, <1>2 DEF d, Still, ServerInv, Sound
  <2> QED
    BY <2>4, <2>5, <2>6, <2>7, <2>9, <2>10, <2>11, ServerStep
<1> QED
  BY <1>3, <1>4 DEF RemoveFiles

LEMMA EmptyFits == Empty \in DirType /\ DirFits(Empty) /\ ~Empty.old /\ Empty.there
                   /\ \A f \in Files : Empty.files[f] = Absent
<1>1. [f \in Files |-> Absent] \in [Files -> Absent .. Most]
  BY Sizes
<1>2. Empty \in DirType /\ ~Empty.old /\ Empty.there
  BY <1>1 DEF Empty, DirType
<1> QED
  BY <1>2, Sizes DEF DirFits

LEMMA MakeDirServes ==
  ASSUME ServerInv, NEW i \in Ids, MakeDir(i), Still PROVE ServerInv'
<1> DEFINE d == jobs[i].dir
           r == IF dirs[d].there THEN dirs[d] ELSE Empty
<1>1. /\ jobs \in [Ids -> JobType] /\ JobFits(jobs[i]) /\ jobs[i].n \in Nat
      /\ jobs[i].kind = "mkdir"
      /\ dirs \in [Dirs -> DirType] /\ \A e \in Dirs : DirFits(dirs[e])
  BY ServerFacts, PlacesOf DEF MakeDir, At, Sweeping, Converting
<1>2. d \in Dirs
  BY <1>1 DEF JobFits
<1>3. /\ r \in DirType /\ DirFits(r) /\ (r.old => dirs[d].old)
      /\ \A f \in Files : r.files[f] = dirs[d].files[f]
  <2>1. CASE dirs[d].there
    BY <1>1, <1>2, <2>1
  <2>2. CASE ~dirs[d].there
    BY <1>1, <1>2, <2>2, EmptyFits, Sizes DEF DirFits
  <2> QED
    BY <2>1, <2>2
<1>4. dirs' = [dirs EXCEPT ![d] = r]
  BY DEF MakeDir
<1> HIDE DEF r
<1>5. DirsKept
  <2>1. /\ dirs' \in [Dirs -> DirType] /\ dirs'[d] = r
        /\ \A e \in Dirs \ {d} : dirs'[e] = dirs[e]
    BY <1>1, <1>2, <1>3, <1>4
  <2>2. SameTexts
    BY <1>3, <2>1 DEF SameTexts, Texts, Files
  <2> QED
    BY <1>1, <1>3, <2>1, <2>2 DEF DirsKept
<1>6. Moved(i, "ok", jobs[i].n) /\ "ok" \in AllPlaces
  BY <1>1, GotoMoves DEF MakeDir, AllPlaces, Replies
<1>7. /\ jobs'[i] \in JobType /\ jobs'[i].kind = jobs[i].kind /\ jobs'[i].dir = jobs[i].dir
      /\ jobs'[i].of = jobs[i].of /\ jobs'[i].size = jobs[i].size /\ jobs'[i].at = "ok"
  BY <1>1, <1>6, MovedFields
<1>8. "ok" \notin Converting /\ "ok" \in Places("mkdir")
  BY PlacesOf DEF Converting
<1>9. JobFits(jobs'[i])
  BY <1>1, <1>7, <1>8, FitsSomewhere
<1>10. Quiet(i, "ok", jobs[i].n)
  BY <1>1, <1>6, <1>9 DEF Quiet, Is
<1> QED
  BY <1>5, <1>10, QuietStep

\* The beginning of a PUT: the text is there and empty, and is being written.
LEMMA OpenFileServes ==
  ASSUME ServerInv, NEW i \in Ids, OpenFile(i), aged' = aged PROVE ServerInv'
<1> DEFINE d == jobs[i].dir
           g == jobs[i].of
<1>1. /\ jobs \in [Ids -> JobType] /\ JobFits(jobs[i]) /\ jobs[i].n \in Nat
      /\ jobs[i].kind = "put" /\ jobs[i].at = "open" /\ g \in Texts /\ g \in Files
      /\ dirs \in [Dirs -> DirType] /\ \A e \in Dirs : DirFits(dirs[e])
  BY ServerFacts DEF OpenFile, At, JobFits, Texts, Files
<1>2. CASE Goto(i, "error") /\ UNCHANGED <<dirs, text, overlaid>>
  <2>1. "error" \in Places(jobs[i].kind) /\ At(i, "open") /\ Still
    BY <1>1, <1>2, PlacesOf DEF At, Still
  <2> QED
    BY <1>1, <1>2, <2>1, GotoMoves, DirsStay, Ends
<1>3. CASE /\ There(d) /\ Write(d, g, 0) /\ GotoWith(i, "write", 0)
           /\ text' = [l \in TextLines |-> IF l[1] = d /\ l[2] = g THEN 0 ELSE text[l]]
           /\ overlaid' = overlaid \union SameFile(i)
                          \union (IF \E j \in SameFile(i) : At(j, "write") THEN {i} ELSE {})
  <2>1. d \in Dirs /\ dirs[d].there
    BY <1>3 DEF There
  <2>2. /\ 0 \in 0 .. Most /\ 0 <= Lines(g) /\ jobs[i].size \in 1 .. Lines(g)
        /\ 0 < jobs[i].size
    BY <1>1, Sizes DEF JobFits
  <2>3. /\ dirs' \in [Dirs -> DirType] /\ DirFits(dirs'[d])
        /\ dirs'[d].old => dirs[d].old
        /\ dirs'[d].files[g] = 0
        /\ \A f \in Files \ {g} : dirs'[d].files[f] = dirs[d].files[f]
        /\ \A e \in Dirs \ {d} : dirs'[e] = dirs[e]
    BY <1>1, <1>3, <2>1, <2>2, WriteFits
  <2>4. Moved(i, "write", 0) /\ "write" \in AllPlaces
    BY <1>1, <1>3, GotoMoves DEF AllPlaces
  <2>5. /\ jobs'[i] \in JobType /\ jobs'[i].kind = jobs[i].kind /\ jobs'[i].dir = d
        /\ jobs'[i].of = g /\ jobs'[i].at = "write" /\ jobs'[i].n = 0
        /\ jobs'[i].size = jobs[i].size
        /\ \A j \in Ids \ {i} : jobs'[j] = jobs[j]
    BY <1>1, <2>4, MovedFields
  <2> HIDE DEF d, g
  <2>6. JobFits(jobs'[i])
    <3>1. "write" \in Places("put") /\ "write" \notin Converting
      BY PlacesOf DEF Converting
    <3> QED
      BY <1>1, <2>1, <2>2, <2>5, <3>1 DEF JobFits
  <2>7. TextsFit'
    <3> SUFFICES ASSUME NEW e \in Dirs, NEW f \in Texts PROVE TextFits(e, f)'
      BY DEF TextsFit
    <3>0. TextFits(e, f) /\ f \in Files
      BY DEF ServerInv, TextsFit, Texts, Files
    <3>1. Puts(e, f)' = Puts(e, f) /\ (i \in Puts(e, f) <=> e = d /\ f = g)
          /\ \A j \in Puts(e, f) \ {i} : jobs'[j] = jobs[j]
      BY <1>1, <2>5 DEF Puts, Is, d, g
    <3>2. CASE e = d /\ f = g
      <4>1. i \in Puts(e, f)' /\ dirs'[e].files[f] = 0 /\ 0 # Absent
        BY <2>3, <3>1, <3>2, Sizes
      <4>2. \A j \in Puts(e, f) : j # i /\ Opened(j) => j \in SameFile(i)
        BY <1>1, <3>2, OthersOpened DEF d, g, Is
      <4>3. \A j \in Puts(e, f) \ {i} : (Opened(j)' <=> Opened(j)) /\ (At(j, "write")' <=> At(j, "write"))
        BY <3>1 DEF Opened, At
      <4>4. ASSUME NEW j \in Puts(e, f) \ {i}, Opened(j)' PROVE j \in overlaid'
        BY <1>3, <4>2, <4>3, <4>4
      <4>5. ASSUME NEW j \in Puts(e, f) \ {i}, At(j, "write")' PROVE i \in overlaid'
        <5>1. At(j, "write") /\ Opened(j)
          BY <4>3, <4>5 DEF Opened
        <5> QED
          BY <1>3, <4>2, <5>1
      <4>6. Owned(e, f, i)'
        BY <2>5, <4>1 DEF Owned
      <4>7. StaysThere(e, f)'
        BY <4>1 DEF StaysThere
      <4>8. OwnText(e, f)'
        BY <3>1, <4>4, <4>6 DEF OwnText
      <4>9. OneWriter(e, f)'
        BY <3>1, <4>4, <4>5 DEF OneWriter
      <4> QED
        BY <4>7, <4>8, <4>9 DEF TextFits
    <3>3. CASE ~(e = d /\ f = g)
      <4>1. dirs'[e].files[f] = dirs[e].files[f]
        BY <2>3, <3>0, <3>3
      <4>2. \A k \in Nat : <<e, f, k>> \in TextLines => text'[<<e, f, k>>] = text[<<e, f, k>>]
        BY <1>3, <3>3
      <4>3. overlaid \subseteq overlaid' /\ i \notin Puts(e, f)
        BY <1>3, <3>1, <3>3
      <4> QED
        BY <3>1, <4>1, <4>2, <4>3, OtherText
    <3> QED
      BY <3>2, <3>3
  <2>8. \A e \in Dirs : DirFits(dirs'[e]) /\ (dirs'[e].old => dirs[e].old)
    BY <1>1, <2>3
  <2>9. text' \in [TextLines -> 0 .. MaxRequests]
    BY <1>3, Sizes DEF ServerInv, Sound
  <2> QED
    BY <2>3, <2>4, <2>6, <2>7, <2>8, <2>9, ServerStep
<1> QED
  BY <1>2, <1>3 DEF OpenFile

\* A line of a text, perhaps the last one.
LEMMA WriteFileServes ==
  ASSUME ServerInv, NEW i \in Ids, WriteFile(i), aged' = aged PROVE ServerInv'
<1> DEFINE d == jobs[i].dir
           g == jobs[i].of
           n == jobs[i].n + 1
           was == dirs[d].files[g]
           now == IF was = Absent THEN Absent ELSE IF n > was THEN n ELSE was
           place == IF n = jobs[i].size THEN "ok" ELSE "write"
<1>1. /\ jobs \in [Ids -> JobType] /\ JobFits(jobs[i]) /\ jobs[i].n \in Nat
      /\ jobs[i].kind = "put" /\ jobs[i].at = "write"
      /\ dirs \in [Dirs -> DirType] /\ \A e \in Dirs : DirFits(dirs[e])
  BY ServerFacts, PlacesOf DEF WriteFile, At, Sweeping, Converting
<1>2. g \in Texts /\ g \in Files /\ g # "json" /\ d \in Dirs /\ n \in Nat
      /\ jobs[i].size \in 1 .. Lines(g) /\ n <= jobs[i].size /\ n <= Lines(g) /\ Lines(g) \in Nat
      /\ n \in 1 .. Lines(g)
  BY <1>1, Sizes DEF JobFits, Texts, Files
<1>3. /\ was \in Absent .. Most /\ was <= Lines(g)
      /\ now \in Absent .. Most /\ now <= Lines(g) /\ (was = Absent <=> now = Absent)
      /\ was = jobs[i].n => now = n
  <2>1. was \in Absent .. Most /\ was <= Lines(g)
    BY <1>1, <1>2 DEF DirFits, DirType
  <2>2. was = jobs[i].n => now = n
    BY <1>1, Sizes
  <2> HIDE DEF was, n
  <2> QED
    BY <1>2, <2>1, <2>2, Sizes
<1>4. /\ dirs' \in [Dirs -> DirType] /\ dirs'[d].files[g] = now
      /\ \A f \in Files \ {g} : dirs'[d].files[f] = dirs[d].files[f]
      /\ \A e \in Dirs \ {d} : dirs'[e] = dirs[e]
      /\ \A e \in Dirs : DirFits(dirs'[e]) /\ (dirs'[e].old => dirs[e].old)
  <2>1. CASE was = Absent
    <3>1. dirs' = dirs
      BY <2>1 DEF WriteFile, File
    <3> QED
      BY <1>1, <1>3, <2>1, <3>1
  <2>2. CASE was # Absent
    <3>1. Write(d, g, now)
      BY <2>2 DEF WriteFile, File
    <3>2. dirs[d].there
      BY <1>1, <1>2, <2>2, Sizes DEF DirFits
    <3>3. now \in 0 .. Most
      <4>1. now \in Absent .. Most /\ now # Absent /\ Absent = -1 /\ Most \in Nat
        BY <1>3, <2>2, Sizes
      <4> HIDE DEF now
      <4> QED
        BY ONLY <4>1
    <3> HIDE DEF now, d, g
    <3>4. /\ dirs' \in [Dirs -> DirType] /\ DirFits(dirs'[d])
          /\ dirs'[d].old => dirs[d].old
          /\ dirs'[d].files[g] = now
          /\ \A f \in Files \ {g} : dirs'[d].files[f] = dirs[d].files[f]
          /\ \A e \in Dirs \ {d} : dirs'[e] = dirs[e]
      BY <1>1, <1>2, <1>3, <3>1, <3>2, <3>3, WriteFits
    <3> QED
      BY <1>1, <3>4
  <2> QED
    BY <2>1, <2>2
<1>5. Moved(i, place, n) /\ place \in AllPlaces
  BY <1>1, GotoMoves DEF WriteFile, AllPlaces, Replies
<1> HIDE DEF now, was, n, d, g
<1>6. /\ jobs'[i] \in JobType /\ jobs'[i].kind = jobs[i].kind /\ jobs'[i].dir = d
      /\ jobs'[i].of = g /\ jobs'[i].at = place /\ jobs'[i].n = n
      /\ jobs'[i].size = jobs[i].size
      /\ \A j \in Ids \ {i} : jobs'[j] = jobs[j]
  BY <1>1, <1>2, <1>5, MovedFields DEF d, g
<1>7. JobFits(jobs'[i])
  <2>1. {"write", "ok"} \subseteq Places("put") /\ "write" \notin Converting
        /\ "ok" \notin Converting
    BY PlacesOf DEF Converting
  <2>2. /\ place = "write" => n < jobs[i].size
        /\ place = "ok" => n = jobs[i].size
    BY <1>2, Sizes
  <2> QED
    BY <1>1, <1>2, <1>6, <2>1, <2>2 DEF JobFits
<1>8. text' \in [TextLines -> 0 .. MaxRequests] /\ overlaid' = overlaid
  <2>1. CASE was = Absent
    BY <2>1 DEF WriteFile, File, was, d, g, ServerInv, Sound
  <2>2. CASE was # Absent
    <3>1. text' = [text EXCEPT ![<<d, g, n>>] = i]
      BY <2>2 DEF WriteFile, File, was, d, g, n
    <3>2. i \in 0 .. MaxRequests /\ text \in [TextLines -> 0 .. MaxRequests]
      BY Sizes DEF Ids, ServerInv, Sound
    <3> QED
      BY <3>1, <3>2 DEF WriteFile
  <2> QED
    BY <2>1, <2>2
<1>9. \A l \in TextLines : l # <<d, g, n>> => text'[l] = text[l]
  <2>1. \/ text' = text
        \/ text' = [text EXCEPT ![<<d, g, n>>] = i]
    BY DEF WriteFile, File, d, g, n
  <2> QED
    BY <2>1 DEF ServerInv, Sound
<1>10. TextsFit'
  <2> SUFFICES ASSUME NEW e \in Dirs, NEW f \in Texts PROVE TextFits(e, f)'
    BY DEF TextsFit
  <2>0. StaysThere(e, f) /\ OwnText(e, f) /\ OneWriter(e, f) /\ f \in Files
    BY DEF ServerInv, TextsFit, TextFits, Texts, Files
  <2>1. Puts(e, f)' = Puts(e, f) /\ (i \in Puts(e, f) <=> e = d /\ f = g)
        /\ \A j \in Puts(e, f) \ {i} : jobs'[j] = jobs[j]
    BY <1>1, <1>6 DEF Puts, Is, d, g
  <2>2. CASE e = d /\ f = g
    <3>1. /\ i \in Puts(e, f) /\ At(i, "write") /\ Opened(i) /\ dirs[e].files[f] = was
          /\ dirs'[e].files[f] = now
      BY <1>1, <1>4, <2>1, <2>2 DEF At, Opened, was
    <3>2. \A j \in Puts(e, f) \ {i} : (Opened(j)' <=> Opened(j)) /\ (At(j, "write")' <=> At(j, "write"))
      BY <2>1 DEF Opened, At
    <3>3. StaysThere(e, f)'
      <4>1. d \notin aged => now # Absent
        BY <1>3, <2>0, <2>2, <3>1 DEF StaysThere
      <4> QED
        BY <2>2, <3>1, <4>1 DEF StaysThere
    <3>4. \A j \in Puts(e, f) \ {i} : Opened(j) => j \in overlaid
      BY <2>0, <3>1 DEF OneWriter
    <3>5. ASSUME i \notin overlaid, now # Absent PROVE Owned(e, f, i)'
      <4>1. was # Absent /\ Owned(e, f, i)
        BY <1>3, <2>0, <3>1, <3>5 DEF OwnText
      <4>2. now = n /\ text' = [text EXCEPT ![<<d, g, n>>] = i]
        BY <1>3, <3>1, <4>1 DEF Owned, WriteFile, File, was, d, g, n
      <4>3. jobs[i].size \in Nat /\ \A k \in 1 .. jobs[i].size : k \in Nat /\ <<e, f, k>> \in TextLines
        BY <3>1, OpenedFits
      <4>4. ASSUME NEW k \in 1 .. n PROVE text'[<<e, f, k>>] = i
        <5>1. k \in Nat /\ <<e, f, k>> \in TextLines
          BY <1>2, <4>3
        <5>2. CASE k = n
          BY <2>2, <4>2, <5>1, <5>2 DEF ServerInv, Sound
        <5>3. CASE k # n
          <6>1. k \in 1 .. jobs[i].n
            BY <1>1, <5>3 DEF n
          <6>2. <<e, f, k>> # <<d, g, n>>
            BY <5>3
          <6> QED
            BY <1>9, <4>1, <5>1, <6>1, <6>2 DEF Owned
        <5> QED
          BY <5>2, <5>3
      <4> QED
        BY <1>6, <3>1, <4>2, <4>4 DEF Owned
    <3>6. OwnText(e, f)'
      BY <1>8, <2>1, <3>1, <3>2, <3>4, <3>5 DEF OwnText
    <3>7. OneWriter(e, f)'
      <4>1. \A j \in Puts(e, f) \ {i} : At(j, "write") => i \in overlaid
        BY <2>0, <3>1 DEF OneWriter
      <4> QED
        BY <1>8, <2>1, <3>2, <3>4, <4>1 DEF OneWriter
    <3> QED
      BY <3>3, <3>6, <3>7 DEF TextFits
  <2>3. CASE ~(e = d /\ f = g)
    <3>1. dirs'[e].files[f] = dirs[e].files[f]
      BY <1>4, <2>0, <2>3
    <3>2. \A k \in Nat : <<e, f, k>> \in TextLines => text'[<<e, f, k>>] = text[<<e, f, k>>]
      BY <1>9, <2>3
    <3> QED
      BY <1>8, <2>1, <2>3, <3>1, <3>2, OtherText
  <2> QED
    BY <2>2, <2>3
<1>11. n \in Nat /\ place \notin {"remove", "rmdir"}
  BY <1>2
<1> HIDE DEF place
<1> QED
  BY <1>4, <1>5, <1>7, <1>8, <1>10, <1>11, ServerStep

-----------------------------------------------------------------------------
\* A conversion that goes on in its directory leaves the texts alone.
LEMMA GoesOn ==
  ASSUME ServerInv, NEW i \in Ids, NEW place \in Converting \union {"ok"}, NEW n \in Nat,
         Moved(i, place, n), Still, jobs[i].kind = "convert", jobs[i].dir \in Dirs,
         place \in {"readBodies", "openJson", "close"} => n <= Most, DirsKept
  PROVE  ServerInv'
<1>1. place \in AllPlaces /\ place \notin {"remove", "rmdir"}
  BY DEF AllPlaces, Converting, Replies
<1>2. jobs \in [Ids -> JobType] /\ JobFits(jobs[i])
  BY ServerFacts
<1>3. /\ jobs'[i] \in JobType /\ jobs'[i].kind = jobs[i].kind /\ jobs'[i].dir = jobs[i].dir
      /\ jobs'[i].of = jobs[i].of /\ jobs'[i].size = jobs[i].size /\ jobs'[i].at = place /\ jobs'[i].n = n
  BY <1>1, <1>2, MovedFields
<1>4. JobFits(jobs'[i])
  BY <1>2, <1>3, FitsConverting
<1>5. Quiet(i, place, n)
  BY <1>1, <1>4 DEF Quiet, Is
<1> QED
  BY <1>5, QuietStep

LEMMA Fails ==
  ASSUME ServerInv, NEW i \in Ids, NEW place \in {"error", "fail"}, Goto(i, place), Still,
         jobs[i].kind = "convert", DirsKept
  PROVE  ServerInv'
<1>1. /\ place \in Places(jobs[i].kind) /\ ~Is(i, "put") /\ jobs[i].n \in Nat
      /\ jobs \in [Ids -> JobType]
  BY ServerFacts, PlacesOf DEF Is
<1> QED
  BY <1>1, GotoMoves, Ends

\* Where a conversion is at work, its directory is one of the server's.
LEMMA ConvertFacts ==
  ASSUME ServerInv, NEW i \in Ids, jobs[i].at \in Converting
  PROVE  /\ jobs[i].kind = "convert" /\ jobs[i].dir \in Dirs /\ jobs[i].of \in Types
         /\ jobs[i].n \in Nat
         /\ jobs[i].at \in {"readBodies", "openJson", "close"} => jobs[i].n <= Most
         /\ dirs[jobs[i].dir] \in DirType /\ DirFits(dirs[jobs[i].dir])
         /\ There(jobs[i].dir) <=> dirs[jobs[i].dir].there
         /\ \A f \in Files : File(i, f) \in Absent .. Most /\ File(i, f) \in Int
         /\ \A f \in Files \ {"json"} : File(i, f) <= Lines(f)
<1>1. JobFits(jobs[i]) /\ dirs \in [Dirs -> DirType] /\ \A d \in Dirs : DirFits(dirs[d])
      /\ jobs[i].n \in Nat /\ jobs[i].kind \in {"none", "mkdir", "put", "convert"}
  BY ServerFacts
<1>2. jobs[i].kind = "convert"
  BY <1>1, PlacesOf DEF JobFits, Converting, Sweeping
<1>3. jobs[i].dir \in Dirs /\ jobs[i].of \in Types
      /\ (jobs[i].at \in {"readBodies", "openJson", "close"} => jobs[i].n <= Most)
  BY <1>1, <1>2 DEF JobFits
<1>4. dirs[jobs[i].dir] \in DirType /\ DirFits(dirs[jobs[i].dir])
  BY <1>1, <1>3
<1>5. \A f \in Files : File(i, f) \in Absent .. Most
  BY <1>4 DEF File, DirType
<1>6. Absent .. Most \subseteq Int
  BY Sizes
<1> QED
  BY <1>1, <1>2, <1>3, <1>4, <1>5, <1>6 DEF There, DirFits, File

\* A conversion that writes its result, or unpacks a body.
LEMMA WritesOther ==
  ASSUME ServerInv, NEW i \in Ids, jobs[i].at \in Converting, dirs[jobs[i].dir].there,
         NEW f \in {"json", "base64"}, NEW n \in 0 .. Most, f = "base64" => n <= Bodies,
         Write(jobs[i].dir, f, n)
  PROVE  DirsKept
<1> DEFINE d == jobs[i].dir
<1>1. dirs \in [Dirs -> DirType] /\ \A e \in Dirs : DirFits(dirs[e])
  BY ServerFacts
<1>2. d \in Dirs /\ f \in Files /\ f \notin Texts /\ Texts \subseteq Files
  BY ConvertFacts DEF Files, Texts
<1>3. f # "json" => n <= Lines(f)
  BY DEF Lines
<1>4. /\ dirs' \in [Dirs -> DirType] /\ DirFits(dirs'[d]) /\ (dirs'[d].old => dirs[d].old)
      /\ \A g \in Files \ {f} : dirs'[d].files[g] = dirs[d].files[g]
      /\ \A e \in Dirs \ {d} : dirs'[e] = dirs[e]
  BY <1>1, <1>2, <1>3, WriteFits
<1> HIDE DEF d
<1>5. SameTexts
  BY <1>2, <1>4 DEF SameTexts
<1> QED
  BY <1>1, <1>4, <1>5 DEF DirsKept
-----------------------------------------------------------------------------
LEMMA ConvertServes ==
  ASSUME ServerInv, NEW i \in Ids, Convert(i), Still PROVE ServerInv'
<1>1. /\ jobs \in [Ids -> JobType] /\ jobs[i].n \in Nat /\ jobs[i].kind = "convert" /\ DirsKept
  BY ServerFacts, PlacesOf, DirsStay DEF Convert, At, Sweeping, Converting
<1>2. CASE ~There(jobs[i].dir)
  BY <1>1, <1>2, Fails DEF Convert
<1>3. CASE There(jobs[i].dir)
  <2>1. PICK place \in {"unpack", "readUrls"} : Goto(i, place)
    BY <1>3 DEF Convert
  <2>2. Moved(i, place, jobs[i].n) /\ place \in Converting
    BY <1>1, <2>1, GotoMoves DEF Converting
  <2> QED
    BY <1>1, <1>3, <2>1, <2>2, GoesOn DEF There
<1> QED
  BY <1>2, <1>3

LEMMA UnpackServes ==
  ASSUME ServerInv, NEW i \in Ids, Unpack(i), Still PROVE ServerInv'
<1>1. /\ jobs \in [Ids -> JobType] /\ jobs[i].n \in Nat /\ jobs[i].kind = "convert" /\ DirsKept
      /\ jobs[i].dir \in Dirs
  BY ServerFacts, ConvertFacts, DirsStay DEF Unpack, At, Converting
<1>2. PICK place \in {"makedirs", "readUrls"} : Goto(i, place)
  BY DEF Unpack
<1>3. Moved(i, place, jobs[i].n) /\ place \in Converting
  BY <1>1, <1>2, GotoMoves DEF Converting
<1> QED
  BY <1>1, <1>2, <1>3, GoesOn

LEMMA MakeBase64Serves ==
  ASSUME ServerInv, NEW i \in Ids, MakeBase64(i), Still PROVE ServerInv'
<1> DEFINE d == jobs[i].dir
           old == IF dirs[d].there THEN dirs[d] ELSE Empty
           files == [old.files EXCEPT !["base64"] = 0]
           r == [old EXCEPT !.files = files, !.old = FALSE]
<1>1. /\ jobs \in [Ids -> JobType] /\ jobs[i].n \in Nat /\ jobs[i].kind = "convert"
      /\ d \in Dirs /\ dirs \in [Dirs -> DirType] /\ \A e \in Dirs : DirFits(dirs[e])
  BY ServerFacts, ConvertFacts DEF MakeBase64, At, Converting
<1>2. CASE Goto(i, "error") /\ UNCHANGED dirs
  BY <1>1, <1>2, DirsStay, Fails
<1>3. CASE Goto(i, "extract") /\ dirs' = [dirs EXCEPT ![d] = r]
  <2>1. /\ old \in DirType /\ DirFits(old) /\ old.there
        /\ \A f \in Files : old.files[f] = dirs[d].files[f]
    <3>1. CASE dirs[d].there
      BY <1>1, <3>1
    <3>2. CASE ~dirs[d].there
      BY <1>1, <3>2, EmptyFits, Sizes DEF DirFits
    <3> QED
      BY <3>1, <3>2
  <2> HIDE DEF old
  <2>2. 0 \in Absent .. Most /\ 0 <= Lines("base64")
    BY Sizes
  <2>3. /\ files \in [Files -> Absent .. Most] /\ files["base64"] = 0
        /\ \A f \in Files \ {"base64"} : files[f] = old.files[f]
    BY <2>1, <2>2 DEF DirType, Files
  <2> HIDE DEF files
  <2>4. r \in DirType /\ r.files = files /\ r.there /\ ~r.old
    BY <2>1, <2>3 DEF DirType
  <2>5. DirFits(r)
    BY <2>1, <2>2, <2>3, <2>4 DEF DirFits
  <2> HIDE DEF r, d
  <2>6. /\ dirs' \in [Dirs -> DirType] /\ dirs'[d] = r
        /\ \A e \in Dirs \ {d} : dirs'[e] = dirs[e]
    BY <1>1, <1>3, <2>4
  <2>7. SameTexts
    BY <2>1, <2>3, <2>4, <2>6 DEF SameTexts, Texts, Files
  <2>8. DirsKept
    BY <1>1, <2>4, <2>5, <2>6, <2>7 DEF DirsKept
  <2>9. Moved(i, "extract", jobs[i].n) /\ "extract" \in Converting
    BY <1>1, <1>3, GotoMoves DEF Converting
  <2> QED
    BY <1>1, <2>8, <2>9, GoesOn DEF d
<1> HIDE DEF r
<1> QED
  BY <1>2, <1>3 DEF MakeBase64, r

-----------------------------------------------------------------------------
LEMMA JobsStay ==
  ASSUME ServerInv, jobs' = jobs, Still, DirsKept PROVE ServerInv'
<1>1. Sound' /\ Swept'
  BY DEF ServerInv, Sound, Swept, Removing, DirsKept, Still
<1>2. TextsFit'
  <2>1. \A j \in Ids : AsFar(j)
    BY DEF AsFar
  <2> QED
    BY <2>1, TextsStay DEF ServerInv, DirsKept, Still
<1> QED
  BY <1>1, <1>2 DEF ServerInv

\* A file is in a directory that is there.
LEMMA FileThere ==
  ASSUME ServerInv, NEW i \in Ids, jobs[i].at \in Converting, NEW f \in Files,
         File(i, f) # Absent
  PROVE  dirs[jobs[i].dir].there
BY ConvertFacts, Sizes DEF File, DirFits

LEMMA ExtractServes ==
  ASSUME ServerInv, NEW i \in Ids, Extract(i), Still PROVE ServerInv'
<1>1. /\ jobs \in [Ids -> JobType] /\ jobs[i].n \in Nat /\ jobs[i].kind = "convert"
      /\ jobs[i].dir \in Dirs /\ jobs[i].at \in Converting
  BY ServerFacts, ConvertFacts DEF Extract, At, Converting
<1>2. CASE Goto(i, "readUrls") /\ UNCHANGED dirs
  <2>1. Moved(i, "readUrls", jobs[i].n) /\ "readUrls" \in Converting
    BY <1>1, <1>2, GotoMoves DEF Converting
  <2> QED
    BY <1>1, <1>2, <2>1, DirsStay, GoesOn
<1>3. CASE Goto(i, "error") /\ UNCHANGED dirs
  BY <1>1, <1>3, DirsStay, Fails
<1>4. CASE /\ File(i, "base64") < File(i, "bodies") /\ File(i, "base64") # Absent
           /\ Write(jobs[i].dir, "base64", File(i, "base64") + 1) /\ UNCHANGED jobs
  <2>1. dirs[jobs[i].dir].there
    BY <1>1, <1>4, FileThere DEF Files
  <2>2. "base64" \in Files /\ File(i, "base64") \in Absent .. Most
    BY <1>1, ConvertFacts DEF Files
  <2>3. File(i, "base64") + 1 \in 0 .. Most /\ File(i, "base64") + 1 <= Bodies
    <3>1. /\ "bodies" \in Files /\ File(i, "bodies") \in Absent .. Most
          /\ File(i, "bodies") <= Bodies
      BY <1>1, ConvertFacts DEF Files, Lines
    <3> QED
      BY <1>4, <2>2, <3>1, Sizes DEF Most
  <2>4. DirsKept
    BY <1>1, <1>4, <2>1, <2>3, WritesOther
  <2> QED
    BY <1>4, <2>4, JobsStay
<1> QED
  BY <1>2, <1>3, <1>4 DEF Extract

LEMMA ReadUrlsServes ==
  ASSUME ServerInv, NEW i \in Ids, ReadUrls(i), Still PROVE ServerInv'
<1>1. /\ jobs \in [Ids -> JobType] /\ jobs[i].n \in Nat /\ jobs[i].kind = "convert" /\ DirsKept
      /\ jobs[i].dir \in Dirs /\ jobs[i].at \in Converting /\ jobs[i].of \in Types
  BY ServerFacts, ConvertFacts, DirsStay DEF ReadUrls, At, Converting
<1>2. CASE \E place \in {"error", "fail"} : Goto(i, place)
  BY <1>1, <1>2, Fails
<1>3. ASSUME NEW place \in {"openJson", "readBodies"}, GotoWith(i, place, File(i, "urls")),
             File(i, "urls") # Absent
      PROVE  ServerInv'
  <2>1. "urls" \in Files /\ File(i, "urls") \in Absent .. Most
    BY <1>1, ConvertFacts DEF Files
  <2>2. File(i, "urls") \in Nat /\ File(i, "urls") <= Most
    BY <1>3, <2>1, Sizes
  <2>3. Moved(i, place, File(i, "urls")) /\ place \in Converting
    BY <1>1, <1>3, GotoMoves DEF Converting
  <2> QED
    BY <1>1, <2>2, <2>3, GoesOn
<1>4. CASE jobs[i].of = "get" /\ File(i, "urls") > 0 /\ GotoWith(i, "openJson", File(i, "urls"))
  BY <1>3, <1>4, Sizes
<1>5. CASE File(i, "urls") # Absent /\ GotoWith(i, "readBodies", File(i, "urls"))
  BY <1>3, <1>5
<1> QED
  BY <1>1, <1>2, <1>4, <1>5 DEF ReadUrls, Types

LEMMA ReadBodiesServes ==
  ASSUME ServerInv, NEW i \in Ids, ReadBodies(i), Still PROVE ServerInv'
<1> DEFINE bodies == File(i, IF jobs[i].of = "bin" THEN "base64" ELSE "bodies")
<1>1. /\ jobs \in [Ids -> JobType] /\ jobs[i].n \in Nat /\ jobs[i].kind = "convert" /\ DirsKept
      /\ jobs[i].dir \in Dirs /\ jobs[i].at \in Converting
  BY ServerFacts, ConvertFacts, DirsStay DEF ReadBodies, At, Converting
<1>2. CASE \E place \in {"error", "fail"} : Goto(i, place)
  BY <1>1, <1>2, Fails
<1>3. CASE bodies > 0 /\ GotoWith(i, "openJson", bodies)
  <2>1. bodies \in Absent .. Most
    BY <1>1, ConvertFacts DEF Files
  <2> HIDE DEF bodies
  <2>2. bodies \in Nat /\ bodies <= Most
    BY <1>3, <2>1, Sizes
  <2>3. Moved(i, "openJson", bodies) /\ "openJson" \in Converting
    BY <1>1, <1>3, GotoMoves DEF Converting
  <2> QED
    BY <1>1, <2>2, <2>3, GoesOn
<1> QED
  BY <1>2, <1>3 DEF ReadBodies

LEMMA OpenJsonServes ==
  ASSUME ServerInv, NEW i \in Ids, OpenJson(i), Still PROVE ServerInv'
<1>1. /\ jobs \in [Ids -> JobType] /\ jobs[i].n \in Nat /\ jobs[i].kind = "convert"
      /\ jobs[i].dir \in Dirs /\ jobs[i].at \in Converting /\ jobs[i].n <= Most
  BY ServerFacts, ConvertFacts DEF OpenJson, At, Converting
<1>2. CASE Goto(i, "error") /\ UNCHANGED dirs
  BY <1>1, <1>2, DirsStay, Fails
<1>3. CASE There(jobs[i].dir) /\ Write(jobs[i].dir, "json", 0) /\ Goto(i, "close")
  <2>1. dirs[jobs[i].dir].there /\ 0 \in 0 .. Most
    BY <1>3, Sizes DEF There
  <2>2. DirsKept
    BY <1>1, <1>3, <2>1, WritesOther
  <2>3. Moved(i, "close", jobs[i].n) /\ "close" \in Converting
    BY <1>1, <1>3, GotoMoves DEF Converting
  <2> QED
    BY <1>1, <2>2, <2>3, GoesOn
<1> QED
  BY <1>2, <1>3 DEF OpenJson

LEMMA CloseJsonServes ==
  ASSUME ServerInv, NEW i \in Ids, CloseJson(i), Still PROVE ServerInv'
<1>1. /\ jobs \in [Ids -> JobType] /\ jobs[i].n \in Nat /\ jobs[i].kind = "convert"
      /\ jobs[i].dir \in Dirs /\ jobs[i].at \in Converting /\ jobs[i].n <= Most
  BY ServerFacts, ConvertFacts DEF CloseJson, At, Converting
<1>2. DirsKept
  <2>1. CASE UNCHANGED dirs
    BY <2>1, DirsStay
  <2>2. CASE File(i, "json") # Absent /\ Write(jobs[i].dir, "json", jobs[i].n)
    <3>1. dirs[jobs[i].dir].there /\ jobs[i].n \in 0 .. Most
      BY <1>1, <2>2, FileThere, Sizes DEF Files
    <3> QED
      BY <1>1, <2>2, <3>1, WritesOther
  <2> QED
    BY <2>1, <2>2 DEF CloseJson
<1>3. Moved(i, "ok", jobs[i].n)
  BY <1>1, GotoMoves DEF CloseJson
<1> QED
  BY <1>1, <1>2, <1>3, GoesOn

LEMMA WorkServes ==
  ASSUME ServerInv, NEW i \in Ids, Work(i), aged' = aged PROVE ServerInv'
<1>1. OpenFile(i) \/ WriteFile(i) \/ Still
  BY DEF Work, Still
<1> QED
  BY <1>1, SweepServes, RemoveFilesServes, RemoveDirServes, MakeDirServes, OpenFileServes,
     WriteFileServes, ConvertServes, UnpackServes, MakeBase64Serves, ExtractServes,
     ReadUrlsServes, ReadBodiesServes, OpenJsonServes, CloseJsonServes
     DEF Work

-----------------------------------------------------------------------------
(***************************************************************************)
(* What a step of the server means to the requests of the page.            *)
(***************************************************************************)
\* A request keeps its kind, its directory and its file; one that has been
\* answered stays as it is, and so do those of the other threads.
Serves(i) ==
  /\ jobs[i].at \notin Replies
  /\ jobs'[i].kind = jobs[i].kind /\ jobs'[i].dir = jobs[i].dir /\ jobs'[i].of = jobs[i].of /\ jobs'[i].size = jobs[i].size
  /\ \A j \in Ids \ {i} : jobs'[j] = jobs[j]

LEMMA WorkMoves ==
  ASSUME ServerInv, NEW i \in Ids, Work(i) PROVE Serves(i)
<1>1. jobs \in [Ids -> JobType]
  BY ServerFacts
<1>2. ASSUME jobs[i].at \notin Replies, NEW place, Goto(i, place) PROVE Serves(i)
  BY <1>1, <1>2 DEF Goto, Serves, JobType
<1>3. ASSUME jobs[i].at \notin Replies, NEW place, NEW n, GotoWith(i, place, n) PROVE Serves(i)
  BY <1>1, <1>3 DEF GotoWith, Serves, JobType
<1>4. ASSUME jobs[i].at \notin Replies, jobs' = jobs PROVE Serves(i)
  BY <1>4 DEF Serves
<1>5. CASE Sweep(i)
  BY <1>2, <1>3, <1>5 DEF Sweep, At, Replies
<1>6. CASE RemoveFiles(i)
  BY <1>2, <1>6 DEF RemoveFiles, At, Replies
<1>7. CASE RemoveDir(i)
  BY <1>2, <1>3, <1>7 DEF RemoveDir, At, Replies
<1>8. CASE MakeDir(i)
  BY <1>2, <1>8 DEF MakeDir, At, Replies
<1>9. CASE OpenFile(i)
  BY <1>2, <1>3, <1>9 DEF OpenFile, At, Replies
<1>10. CASE WriteFile(i)
  BY <1>3, <1>10 DEF WriteFile, At, Replies
<1>11. CASE Convert(i)
  BY <1>2, <1>11 DEF Convert, At, Replies
<1>12. CASE Unpack(i)
  BY <1>2, <1>12 DEF Unpack, At, Replies
<1>13. CASE MakeBase64(i)
  BY <1>2, <1>13 DEF MakeBase64, At, Replies
<1>14. CASE Extract(i)
  BY <1>2, <1>4, <1>14 DEF Extract, At, Replies
<1>15. CASE ReadUrls(i)
  BY <1>2, <1>3, <1>15 DEF ReadUrls, At, Replies
<1>16. CASE ReadBodies(i)
  BY <1>2, <1>3, <1>16 DEF ReadBodies, At, Replies
<1>17. CASE OpenJson(i)
  BY <1>2, <1>17 DEF OpenJson, At, Replies
<1>18. CASE CloseJson(i)
  BY <1>2, <1>18 DEF CloseJson, At, Replies
<1> QED
  BY <1>5, <1>6, <1>7, <1>8, <1>9, <1>10, <1>11, <1>12, <1>13, <1>14, <1>15, <1>16, <1>17,
     <1>18 DEF Work

-----------------------------------------------------------------------------
\* What a conversion of text has read is everything there is.
Sized(i) == \A p \in Puts(jobs[i].dir, InputOf(i)) : p \notin overlaid => jobs[i].n = jobs[p].size
Whole(i) ==
  /\ At(i, "readBodies") => jobs[i].of # "get"
  /\ jobs[i].of # "bin" /\ jobs[i].at \in {"openJson", "close", "ok"} => Sized(i)

\* The same holds of a conversion that does not move, when no text is added to its
\* directory.
LEMMA WholeKept ==
  ASSUME NEW i \in Ids, Whole(i), jobs'[i] = jobs[i], overlaid \subseteq overlaid',
         \A p \in Ids : Is(p, "put")' /\ jobs'[p].dir = jobs[i].dir =>
           /\ Is(p, "put") /\ jobs[p].dir = jobs[i].dir
           /\ jobs[p].of = jobs'[p].of /\ jobs[p].size = jobs'[p].size
  PROVE  Whole(i)'
<1>1. ASSUME Sized(i) PROVE Sized(i)'
  <2>1. InputOf(i)' = InputOf(i)
    BY DEF InputOf
  <2> QED
    BY <1>1, <2>1 DEF Sized, Puts
<1> QED
  BY <1>1 DEF Whole, At

LEMMA WholeStays ==
  ASSUME ServerInv, NEW i \in Ids, Is(i, "convert"), Work(i), Whole(i),
         \A j \in Ids : Is(j, "put") /\ jobs[j].dir = jobs[i].dir => At(j, "ok")
  PROVE  Whole(i)'
<1>1. /\ jobs \in [Ids -> JobType] /\ jobs[i] \in JobType /\ jobs[i].kind = "convert"
      /\ jobs[i].at \in Places("convert")
  BY ServerFacts DEF Is
<1>2. ASSUME NEW place, Goto(i, place), place \notin {"readBodies", "openJson", "close", "ok"}
      PROVE  Whole(i)'
  BY <1>1, <1>2 DEF Goto, Whole, At, JobType
<1>3. ASSUME NEW place, NEW n, GotoWith(i, place, n),
             place \notin {"readBodies", "openJson", "close", "ok"}
      PROVE  Whole(i)'
  BY <1>1, <1>3 DEF GotoWith, Whole, At, JobType
\* A text of the directory is what was sent.
<1>4. ASSUME jobs[i].at \in Converting, NEW f \in Texts, NEW p \in Puts(jobs[i].dir, f),
             p \notin overlaid, File(i, f) # Absent
      PROVE  File(i, f) = jobs[p].size
  <2>1. jobs[i].dir \in Dirs
    BY <1>4, ConvertFacts
  <2>2. p \in Ids /\ Is(p, "put") /\ At(p, "ok") /\ Opened(p)
    BY DEF Puts, Opened
  <2>3. jobs[p].n = jobs[p].size
    BY <2>2 DEF ServerInv, Sound, JobFits, Is, At
  <2>4. Owned(jobs[i].dir, f, p)
    BY <1>4, <2>1, <2>2 DEF ServerInv, TextsFit, TextFits, OwnText, File
  <2> QED
    BY <2>3, <2>4 DEF Owned, File
<1>5. CASE Sweep(i) \/ RemoveFiles(i) \/ RemoveDir(i)
  <2>1. CASE Sweep(i)
    BY <1>1, <1>2, <1>3, <2>1 DEF Sweep
  <2>2. CASE RemoveFiles(i)
    BY <1>2, <2>2 DEF RemoveFiles
  <2>3. CASE RemoveDir(i)
    BY <1>2, <1>3, <2>3 DEF RemoveDir
  <2> QED
    BY <1>5, <2>1, <2>2, <2>3
<1>6. ~MakeDir(i) /\ ~OpenFile(i) /\ ~WriteFile(i)
  BY <1>1, PlacesOf DEF MakeDir, OpenFile, WriteFile, At, Sweeping, Converting
<1>a. /\ overlaid' = overlaid /\ jobs'[i].dir = jobs[i].dir /\ jobs'[i].of = jobs[i].of
      /\ \A f \in Texts : Puts(jobs[i].dir, f)' = Puts(jobs[i].dir, f)
      /\ \A q \in Ids : jobs'[q].size = jobs[q].size
  <2>1. Serves(i) /\ overlaid' = overlaid
    BY <1>6, WorkMoves DEF Work
  <2> QED
    BY <2>1 DEF Serves, Puts, Is
<1>b. ASSUME NEW f \in Texts, jobs[i].at \in Converting, File(i, f) > 0, f = InputOf(i),
             jobs'[i].n = File(i, f)
      PROVE  Sized(i)'
  <2>1. File(i, f) # Absent
    <3>1. Absent = -1
      BY Sizes
    <3> QED
      BY <1>b, <3>1
  <2>2. InputOf(i)' = f
    BY <1>a, <1>b DEF InputOf
  <2>3. \A q \in Puts(jobs[i].dir, f) : q \notin overlaid => File(i, f) = jobs[q].size /\ q \in Ids
    BY <1>4, <1>b, <2>1 DEF Puts
  <2>4. ASSUME NEW q \in Puts(jobs[i].dir, f)', q \notin overlaid' PROVE jobs'[i].n = jobs'[q].size
    BY <1>a, <1>b, <2>3, <2>4
  <2> QED
    BY <2>2, <2>4 DEF Sized
<1>7. CASE Convert(i)
  BY <1>2, <1>7 DEF Convert
<1>8. CASE Unpack(i)
  BY <1>2, <1>8 DEF Unpack
<1>9. CASE MakeBase64(i)
  BY <1>2, <1>9 DEF MakeBase64
<1>10. CASE Extract(i)
  <2>1. CASE jobs' = jobs
    <3>1. /\ InputOf(i)' = InputOf(i) /\ InputOf(i) \in Texts
          /\ Puts(jobs[i].dir, InputOf(i))' = Puts(jobs[i].dir, InputOf(i))
      BY <1>a, <2>1 DEF InputOf, Texts
    <3>2. Sized(i)' <=> Sized(i)
      BY <1>a, <2>1, <3>1 DEF Sized
    <3> QED
      BY <2>1, <3>2 DEF Whole, At
  <2> QED
    BY <1>2, <1>10, <2>1 DEF Extract
<1>11. CASE ReadUrls(i)
  <2>1. jobs[i].at \in Converting /\ "urls" \in Texts
    BY <1>11 DEF ReadUrls, At, Converting, Texts
  <2>2. CASE \E place \in {"fail", "error"} : Goto(i, place)
    BY <1>2, <2>2
  <2>3. CASE jobs[i].of = "get" /\ File(i, "urls") > 0 /\ GotoWith(i, "openJson", File(i, "urls"))
    <3>1. "urls" = InputOf(i)
      BY <2>3 DEF InputOf
    <3>2. jobs'[i].of = "get" /\ jobs'[i].at = "openJson" /\ jobs'[i].n = File(i, "urls")
      BY <1>1, <2>3 DEF GotoWith, JobType
    <3>3. Sized(i)'
      BY <1>b, <2>1, <2>3, <3>1, <3>2
    <3> QED
      BY <3>2, <3>3 DEF Whole, At
  <2>4. CASE jobs[i].of # "get" /\ GotoWith(i, "readBodies", File(i, "urls"))
    <3>1. jobs'[i].of # "get" /\ jobs'[i].at = "readBodies"
      BY <1>1, <2>4 DEF GotoWith, JobType
    <3> QED
      BY <3>1 DEF Whole, At
  <2> QED
    BY <1>11, <2>2, <2>3, <2>4 DEF ReadUrls
<1>12. CASE ReadBodies(i)
  <2> DEFINE bodies == File(i, IF jobs[i].of = "bin" THEN "base64" ELSE "bodies")
  <2>1. CASE \E place \in {"fail", "error"} : Goto(i, place)
    BY <1>2, <2>1
  <2>2. CASE bodies > 0 /\ GotoWith(i, "openJson", bodies)
    <3>1. /\ jobs'[i].of = jobs[i].of /\ jobs'[i].size = jobs[i].size /\ jobs'[i].at = "openJson" /\ jobs'[i].n = bodies
          /\ jobs[i].of # "get"
      BY <1>1, <1>12, <2>2 DEF GotoWith, JobType, ReadBodies, Whole
    <3>2. CASE jobs[i].of = "bin"
      BY <3>1, <3>2 DEF Whole, At
    <3>3. CASE jobs[i].of # "bin"
      <4>1. jobs[i].at \in Converting /\ "bodies" \in Texts
        BY <1>12 DEF ReadBodies, At, Converting, Texts
      <4>2. bodies = File(i, "bodies") /\ "bodies" = InputOf(i)
        BY <3>1, <3>3 DEF InputOf
      <4>3. Sized(i)'
        BY <1>b, <2>2, <3>1, <4>1, <4>2
      <4> QED
        BY <3>1, <4>3 DEF Whole, At
    <3> QED
      BY <3>2, <3>3
  <2> QED
    BY <1>12, <2>1, <2>2 DEF ReadBodies
<1>13. CASE OpenJson(i) \/ CloseJson(i)
  <2>1. CASE Goto(i, "error")
    BY <1>2, <2>1
  <2>2. ASSUME NEW place \in {"close", "ok"}, Goto(i, place), jobs[i].at \in {"openJson", "close"}
        PROVE  Whole(i)'
    <3>1. jobs'[i].of = jobs[i].of /\ jobs'[i].n = jobs[i].n /\ jobs'[i].at = place
      BY <1>1, <2>2 DEF Goto, JobType
    <3>2. Sized(i) => Sized(i)'
      <4>1. InputOf(i)' = InputOf(i) /\ InputOf(i) \in Texts
        BY <3>1 DEF InputOf, Texts
      <4> QED
        BY <1>a, <3>1, <4>1 DEF Sized, Puts
    <3> QED
      BY <2>2, <3>1, <3>2 DEF Whole, At
  <2> QED
    BY <1>13, <2>1, <2>2 DEF OpenJson, CloseJson, At
<1> QED
  BY <1>5, <1>6, <1>7, <1>8, <1>9, <1>10, <1>11, <1>12, <1>13 DEF Work

-----------------------------------------------------------------------------
(***************************************************************************)
(* What the page knows of its requests.                                    *)
(***************************************************************************)
PageFits ==
  /\ md5 \in 0 .. MaxUploads /\ menu \in 0 .. md5
  /\ labels \subseteq {"upload", "convert"} /\ link \in {"none", "file", "undefined"}
  /\ patient \subseteq Ids /\ aged \subseteq Dirs
  /\ \A i \in Ids : /\ heard[i] = "ok" => At(i, "ok")
                    /\ i > sent => jobs[i] = NoJob
                    /\ Is(i, "mkdir") => jobs[i].dir <= md5
\* Of the directory of a patient user's conversion every file is there, and none
\* will be sent to it again.
PatientFits(i) ==
  /\ Is(i, "convert") /\ jobs[i].dir <= md5 /\ Whole(i)
  /\ \A j \in Ids : /\ Is(j, "put") /\ jobs[j].dir = jobs[i].dir => At(j, "ok")
                    /\ Is(j, "mkdir") /\ heard[j] = "waiting" => md5 > jobs[i].dir

\* Every click has a directory of its own, and a PUT that went to another one is
\* crossed: so the others of a directory are at most one of each file.
SameText(p, q) == /\ Is(p, "put") /\ Is(q, "put")
                  /\ jobs[p].dir = jobs[q].dir /\ jobs[p].of = jobs[q].of
Overlays == \A p \in overlaid : p \in Ids /\ \E q \in Ids \ {p} : SameText(p, q)
Alone == \A p, q \in Ids \ crossed : SameText(p, q) => p = q
OneMkdir == \A m, n \in Ids : Is(m, "mkdir") /\ Is(n, "mkdir") /\ jobs[m].dir = jobs[n].dir => m = n
Answered == \A p \in Ids \ crossed : Is(p, "put") =>
              \E m \in Ids : Is(m, "mkdir") /\ jobs[m].dir = jobs[p].dir /\ heard[m] = "ok"
Crossings == Overlays /\ Alone /\ OneMkdir /\ Answered /\ crossed \subseteq Ids

GeneratorInv == /\ FlickerInv /\ ServerInv /\ PageFits /\ Crossings
                /\ \A i \in patient : PatientFits(i)

LEMMA CrossingsStay ==
  ASSUME Crossings, crossed' = crossed,
         \A j \in Ids : /\ jobs'[j].kind = jobs[j].kind /\ jobs'[j].dir = jobs[j].dir
                        /\ jobs'[j].of = jobs[j].of
                        /\ heard[j] = "ok" => heard'[j] = "ok",
         overlaid' = overlaid \/ Overlays'
  PROVE  Crossings'
<1>1. \A p, q \in Ids : SameText(p, q)' <=> SameText(p, q)
  BY DEF SameText, Is
<1>2. Overlays'
  BY <1>1 DEF Crossings, Overlays
<1>3. Alone'
  BY <1>1 DEF Crossings, Alone
<1>4. OneMkdir'
  BY DEF Crossings, OneMkdir, Is
<1>5. Answered'
  BY DEF Crossings, Answered, Is
<1> QED
  BY <1>2, <1>3, <1>4, <1>5 DEF Crossings

\* A click sends a request that is no PUT, and no mkdir to a directory that has one.
LEMMA CrossingsClicked ==
  ASSUME Crossings, NEW k \in Ids, jobs[k].kind = "none", jobs'[k].kind # "put",
         crossed' = crossed, overlaid' = overlaid,
         \A j \in Ids \ {k} : jobs'[j] = jobs[j] /\ heard'[j] = heard[j],
         jobs'[k].kind = "mkdir" =>
           \A j \in Ids : Is(j, "mkdir") => jobs[j].dir # jobs'[k].dir
  PROVE  Crossings'
<1>1. \A p, q \in Ids : SameText(p, q)' <=> SameText(p, q)
  BY DEF SameText, Is
<1>2. Overlays'
  BY <1>1 DEF Crossings, Overlays
<1>3. Alone'
  BY <1>1 DEF Crossings, Alone
<1>4. OneMkdir'
  BY DEF Crossings, OneMkdir, Is
<1>5. Answered'
  <2> SUFFICES ASSUME NEW p \in Ids \ crossed', Is(p, "put")'
               PROVE  \E m \in Ids : Is(m, "mkdir")' /\ jobs'[m].dir = jobs'[p].dir /\ heard'[m] = "ok"
    BY DEF Answered
  <2>1. p # k /\ Is(p, "put") /\ jobs'[p] = jobs[p] /\ p \in Ids \ crossed
    BY DEF Is
  <2>2. PICK m \in Ids : Is(m, "mkdir") /\ jobs[m].dir = jobs[p].dir /\ heard[m] = "ok"
    BY <2>1 DEF Crossings, Answered
  <2>3. m # k
    BY <2>2 DEF Is
  <2> QED
    BY <2>1, <2>2, <2>3 DEF Is
<1> QED
  BY <1>2, <1>3, <1>4, <1>5 DEF Crossings

\* What the page sends is at its first place.
NewJob(j) == JobFits(j) /\ j.at \in {"sweep", "open"}

LEMMA FirstPlaces ==
  /\ "open" \in AllPlaces /\ "sweep" \in AllPlaces /\ 0 \in Nat
  /\ "sweep" \in Places("mkdir") /\ "sweep" \in Places("convert") /\ "open" \in Places("put")
  /\ "sweep" \notin Converting /\ "open" \notin Converting
BY PlacesOf DEF AllPlaces, Sweeping, Converting

LEMMA UploadNumbers == Dirs \subseteq 0 .. MaxUploads
BY ServerAssumption DEF ServerAssumption, Dirs

LEMMA NewPut ==
  ASSUME NEW d \in 0 .. MaxUploads, NEW f \in Texts, NEW size \in 1 .. Lines(f), NEW j,
         j = Job("put", d, f, size)
  PROVE  NewJob(j) /\ j.kind = "put" /\ j.dir = d /\ j.of = f
<1>1. size \in Nat
  BY Sizes
<1> QED
  BY <1>1, FirstPlaces DEF Job, NewJob, JobFits, JobType, Texts, Files

LEMMA NewConvert ==
  ASSUME NEW d \in 0 .. MaxUploads, NEW type \in Types, NEW j, j = Job("convert", d, type, 0)
  PROVE  NewJob(j) /\ j.kind = "convert" /\ j.dir = d /\ j.at = "sweep"
BY FirstPlaces DEF Job, NewJob, JobFits, JobType

LEMMA NothingSent == NoJob.kind = "none" /\ NoJob.dir = 0 /\ NoJob.at = "ok"
BY DEF NoJob

LEMMA DirNumbers == ASSUME NEW j \in JobType PROVE j.dir \in Nat /\ j.dir <= MaxUploads
<1>1. j.dir \in 0 .. MaxUploads
  BY DEF JobType
<1> QED
  BY <1>1, Sizes

LEMMA RequestsServe ==
  ASSUME ServerInv, NEW K \in SUBSET Ids, jobs' \in [Ids -> JobType],
         \A k \in K : jobs[k] = NoJob /\ NewJob(jobs'[k]),
         \A j \in Ids \ K : jobs'[j] = jobs[j], dirs' = dirs, Still
  PROVE  ServerInv'
<1>1. ASSUME NEW k \in K
      PROVE  jobs[k].kind = "none" /\ ~At(k, "write")' /\ ~At(k, "ok")'
  BY NothingSent DEF NewJob, At
<1>2. Sound'
  BY DEF ServerInv, Sound, NewJob, Still
<1>3. Swept'
  BY DEF ServerInv, Swept, Removing, NewJob, Still
<1>4. TextsFit'
  <2> SUFFICES ASSUME NEW d \in Dirs, NEW f \in Texts PROVE TextFits(d, f)'
    BY DEF TextsFit
  <2>1. TextFits(d, f)
    BY DEF ServerInv, TextsFit
  <2>2. \A j \in Puts(d, f) : j \notin K /\ jobs'[j] = jobs[j] /\ j \in Puts(d, f)'
    BY <1>1 DEF Puts, Is
  <2>3. \A j \in Puts(d, f)' : j \in K \/ j \in Puts(d, f)
    BY DEF Puts, Is
  <2>4. \A j \in Puts(d, f)' : Opened(j)' \/ At(j, "write")' => j \in Puts(d, f) /\ j \notin K
    BY <1>1, <2>2, <2>3 DEF Opened
  <2>5. \A j \in Puts(d, f) : /\ Opened(j)' <=> Opened(j)
                              /\ At(j, "write")' <=> At(j, "write")
                              /\ Owned(d, f, j)' <=> Owned(d, f, j)
    BY <2>2 DEF Opened, At, Owned, Still
  <2>6. StaysThere(d, f)'
    BY <2>1, <2>4, <2>5 DEF TextFits, StaysThere, Still
  <2>7. OwnText(d, f)'
    BY <2>1, <2>4, <2>5 DEF TextFits, OwnText, Still
  <2>8. OneWriter(d, f)'
    BY <2>1, <2>4, <2>5 DEF TextFits, OneWriter, Still
  <2> QED
    BY <2>6, <2>7, <2>8 DEF TextFits
<1> QED
  BY <1>2, <1>3, <1>4 DEF ServerInv

-----------------------------------------------------------------------------
LEMMA UploadClickFits ==
  ASSUME GeneratorInv, NEW size, size \in 1 .. UrlLines, ClickUpload(size) PROVE GeneratorInv'
<1> DEFINE k == sent + 1
           job == Job("mkdir", md5 + 1, "", size)
<1>1. k \in Ids /\ sent' = k /\ jobs[k] = NoJob /\ heard[k] = "unsent" /\ sent \in Nat
  <2>1. sent \in 0 .. MaxRequests /\ sent < MaxRequests /\ sent' = k
    BY DEF ClickUpload, Send, GeneratorInv, FlickerInv, PageOK
  <2>2. k \in Ids /\ sent \in Nat /\ k > sent
    BY <2>1, Sizes DEF Ids
  <2> QED
    BY <2>1, <2>2 DEF GeneratorInv, FlickerInv, PageOK, PageFits
<1>2. md5 \in Nat /\ md5' = md5 + 1 /\ md5 + 1 \in Dirs /\ md5' \in 0 .. MaxUploads
  <2>1. md5 \in 0 .. MaxUploads /\ md5 < MaxUploads /\ md5' = md5 + 1
    BY DEF ClickUpload, GeneratorInv, PageFits
  <2> QED
    BY <2>1, Sizes DEF Dirs
<1>3. NewJob(job) /\ job.kind = "mkdir" /\ job.dir = md5'
  <2>1. PICK d \in Dirs : d = md5 + 1
    BY <1>2
  <2>2. d \in 0 .. MaxUploads
    BY UploadNumbers
  <2>3. size \in Nat
    BY ONLY Sizes, size \in 1 .. UrlLines
  <2>4. job = [kind |-> "mkdir", dir |-> d, of |-> "", size |-> size, n |-> 0, at |-> "sweep"]
    BY <2>1 DEF Job
  <2> HIDE DEF job
  <2>5. job \in JobType /\ job.kind = "mkdir" /\ job.dir = d /\ job.size = size /\ job.at = "sweep"
    BY <2>2, <2>3, <2>4, FirstPlaces DEF JobType
  <2> QED
    BY <1>2, <2>1, <2>5, FirstPlaces DEF NewJob, JobFits
<1>4. jobs' = [jobs EXCEPT ![k] = job]
  BY DEF ClickUpload, Send
<1> HIDE DEF job
<1>5. /\ jobs \in [Ids -> JobType] /\ jobs' \in [Ids -> JobType] /\ jobs'[k] = job
      /\ \A j \in Ids \ {k} : jobs'[j] = jobs[j]
  BY <1>1, <1>3, <1>4, ServerFacts DEF GeneratorInv, NewJob, JobFits
<1>6. ServerInv'
  <2>1. dirs' = dirs /\ Still /\ {k} \in SUBSET Ids
    BY <1>1 DEF ClickUpload, Still
  <2> QED
    BY <1>1, <1>3, <1>5, <2>1, RequestsServe DEF GeneratorInv
<1>7. /\ heard' = [heard EXCEPT ![k] = "waiting"] /\ heard \in [Ids -> {"unsent", "waiting", "ok", "failed"}]
      /\ menu' = menu /\ labels' = labels /\ link' = link /\ patient' = patient /\ aged' = aged
  BY DEF ClickUpload, GeneratorInv, FlickerInv, PageOK
<1>8. /\ heard'[k] = "waiting" /\ \A j \in Ids \ {k} : heard'[j] = heard[j]
  BY <1>1, <1>7
<1>9. PageFits'
  <2>1. menu' \in 0 .. md5'
    BY <1>2, <1>7 DEF GeneratorInv, PageFits
  <2>2. ASSUME NEW j \in Ids
        PROVE  /\ heard'[j] = "ok" => At(j, "ok")'
               /\ j > sent' => jobs'[j] = NoJob
               /\ Is(j, "mkdir")' => jobs'[j].dir <= md5'
    <3>1. CASE j = k
      BY <1>1, <1>2, <1>3, <1>5, <1>8, <3>1
    <3>2. CASE j # k
      <4>1. j \in Nat /\ jobs[j].dir \in Nat
        BY <1>5, DirNumbers DEF Ids
      <4> QED
        BY <1>1, <1>2, <1>5, <1>8, <3>2, <4>1 DEF GeneratorInv, PageFits, At, Is
    <3> QED
      BY <3>1, <3>2
  <2> QED
    BY <1>2, <1>7, <2>1, <2>2 DEF GeneratorInv, PageFits
<1>10. ASSUME NEW i \in patient' PROVE PatientFits(i)'
  <2>1. i \in Ids /\ PatientFits(i) /\ i # k
    BY <1>1, <1>7, <1>10, NothingSent DEF GeneratorInv, PageFits, PatientFits, Is
  <2>2. jobs'[i] = jobs[i] /\ jobs[i].dir \in Nat
    BY <1>5, <2>1, DirNumbers
  <2>3. ASSUME NEW j \in Ids
        PROVE  /\ Is(j, "put")' /\ jobs'[j].dir = jobs'[i].dir => At(j, "ok")'
               /\ Is(j, "mkdir")' /\ heard'[j] = "waiting" => md5' > jobs'[i].dir
    <3>1. CASE j = k
      BY <1>2, <1>3, <1>5, <2>1, <2>2, <3>1 DEF Is, PatientFits
    <3>2. CASE j # k
      BY <1>2, <1>5, <1>8, <2>1, <2>2, <3>2 DEF Is, At, PatientFits
    <3> QED
      BY <3>1, <3>2
  <2>4. Is(i, "convert")' /\ jobs'[i].dir <= md5'
    BY <1>2, <2>1, <2>2 DEF PatientFits, Is
  <2>5. Whole(i)'
    <3>1. overlaid' = overlaid /\ Whole(i)
      BY <2>1 DEF ClickUpload, PatientFits
    <3>2. \A q \in Ids : Is(q, "put")' => q # k
      BY <1>3, <1>5 DEF Is
    <3> QED
      BY <1>5, <2>1, <2>2, <3>1, <3>2, WholeKept DEF Is
  <2> QED
    BY <2>3, <2>4, <2>5 DEF PatientFits
<1>11. Crossings'
  <2>1. crossed' = crossed /\ overlaid' = overlaid
    BY DEF ClickUpload
  <2>2. \A j \in Ids : Is(j, "mkdir") => jobs[j].dir # jobs'[k].dir
    <3>1. \A j \in Ids : jobs[j].dir \in Nat
      BY <1>5, DirNumbers
    <3> QED
      BY <1>1, <1>2, <1>3, <1>5, <3>1 DEF GeneratorInv, PageFits
  <2> QED
    BY <1>1, <1>3, <1>5, <1>8, <2>1, <2>2, CrossingsClicked, NothingSent DEF GeneratorInv
<1> QED
  BY <1>6, <1>9, <1>10, <1>11, UploadClicked DEF GeneratorInv

-----------------------------------------------------------------------------
LEMMA PageFacts ==
  ASSUME GeneratorInv
  PROVE  /\ ServerInv /\ jobs \in [Ids -> JobType] /\ sent \in Nat /\ md5 \in Nat
         /\ heard \in [Ids -> {"unsent", "waiting", "ok", "failed"}]
         /\ \A j \in Ids : j \in Nat /\ jobs[j].dir \in Nat
         /\ \A j \in Ids : j > sent => heard[j] = "unsent"
         /\ \A j \in patient : j \in Ids /\ PatientFits(j)
<1>1. ServerInv /\ jobs \in [Ids -> JobType]
  BY DEF GeneratorInv, ServerInv, Sound
<1>2. \A j \in Ids : j \in Nat /\ jobs[j].dir \in Nat
  BY <1>1, DirNumbers DEF Ids
<1>3. sent \in Nat /\ md5 \in Nat
  BY Sizes DEF GeneratorInv, FlickerInv, PageOK, PageFits
<1> QED
  BY <1>1, <1>2, <1>3 DEF GeneratorInv, FlickerInv, PageOK, PageFits

LEMMA ConvertClickFits ==
  ASSUME GeneratorInv, NEW type \in Types, ClickConvert(type) PROVE GeneratorInv'
<1> DEFINE job == Job("convert", menu, type, 0)
<1>0. PICK k : k = sent + 1
  OBVIOUS
<1>1. k \in Ids /\ sent' = k /\ jobs[k] = NoJob /\ heard[k] = "unsent" /\ sent \in Nat
  <2>1. sent \in 0 .. MaxRequests /\ sent < MaxRequests /\ sent' = k
    BY <1>0 DEF ClickConvert, Send, GeneratorInv, FlickerInv, PageOK
  <2>2. k \in Ids /\ sent \in Nat /\ k > sent
    BY <1>0, <2>1, Sizes DEF Ids
  <2> QED
    BY <2>1, <2>2 DEF GeneratorInv, FlickerInv, PageOK, PageFits
<1>2. menu \in 0 .. MaxUploads /\ menu \in Nat /\ menu <= md5
  <2>1. md5 \in 0 .. MaxUploads /\ menu \in 0 .. md5
    BY DEF GeneratorInv, PageFits
  <2> QED
    BY <2>1, Sizes
<1>3. NewJob(job) /\ job.kind = "convert" /\ job.dir = menu /\ job.at = "sweep"
  BY <1>2, NewConvert
<1>4. jobs' = [jobs EXCEPT ![k] = job]
  BY <1>0 DEF ClickConvert, Send
<1> HIDE DEF job
<1>5. /\ jobs \in [Ids -> JobType] /\ jobs' \in [Ids -> JobType] /\ jobs'[k] = job
      /\ \A j \in Ids \ {k} : jobs'[j] = jobs[j]
  BY <1>1, <1>3, <1>4, ServerFacts DEF GeneratorInv, NewJob, JobFits
<1>6. ServerInv'
  <2>1. dirs' = dirs /\ Still /\ {k} \in SUBSET Ids
    BY <1>1 DEF ClickConvert, Still
  <2> QED
    BY <1>1, <1>3, <1>5, <2>1, RequestsServe DEF GeneratorInv
<1>7. /\ heard' = [heard EXCEPT ![k] = "waiting"] /\ md5' = md5 /\ menu' = menu
      /\ labels' = labels \union {"convert"} /\ link' = link /\ aged' = aged
      /\ patient' = IF AllUploaded THEN patient \union {k} ELSE patient
  BY <1>0 DEF ClickConvert
<1>8. heard'[k] = "waiting" /\ \A j \in Ids \ {k} : heard'[j] = heard[j]
  BY <1>1, <1>7, PageFacts
<1>9. PageFits'
  <2>1. ASSUME NEW j \in Ids
        PROVE  /\ heard'[j] = "ok" => At(j, "ok")'
               /\ j > sent' => jobs'[j] = NoJob
               /\ Is(j, "mkdir")' => jobs'[j].dir <= md5'
    <3>1. CASE j = k
      BY <1>0, <1>1, <1>3, <1>5, <1>8, <3>1 DEF Is
    <3>2. CASE j # k
      BY <1>0, <1>1, <1>5, <1>7, <1>8, <3>2, PageFacts DEF GeneratorInv, PageFits, At, Is
    <3> QED
      BY <3>1, <3>2
  <2>2. patient' \subseteq Ids
    BY <1>1, <1>7 DEF GeneratorInv, PageFits
  <2> QED
    BY <1>7, <2>1, <2>2 DEF GeneratorInv, PageFits
<1>10. ASSUME NEW i \in patient, i # k PROVE PatientFits(i)'
  <2>1. i \in Ids /\ PatientFits(i) /\ jobs'[i] = jobs[i]
    BY <1>5, <1>10, PageFacts
  <2>2. ASSUME NEW j \in Ids
        PROVE  /\ Is(j, "put")' /\ jobs'[j].dir = jobs'[i].dir => At(j, "ok")'
               /\ Is(j, "mkdir")' /\ heard'[j] = "waiting" => md5' > jobs'[i].dir
    <3>1. CASE j = k
      BY <1>3, <1>5, <3>1 DEF Is
    <3>2. CASE j # k
      BY <1>5, <1>7, <1>8, <2>1, <3>2 DEF Is, At, PatientFits
    <3> QED
      BY <3>1, <3>2
  <2>3. Whole(i)'
    <3>1. overlaid' = overlaid /\ Whole(i)
      BY <2>1 DEF ClickConvert, PatientFits
    <3>2. \A q \in Ids : Is(q, "put")' => q # k
      BY <1>3, <1>5 DEF Is
    <3> QED
      BY <1>5, <2>1, <3>1, <3>2, WholeKept DEF Is
  <2> QED
    BY <1>7, <2>1, <2>2, <2>3 DEF PatientFits, Is
\* Who waited for all uploads has nothing on the way.
<1>11. ASSUME AllUploaded PROVE PatientFits(k)'
  <2>1. ASSUME NEW j \in Ids, ~Is(j, "none"), ~Is(j, "convert") PROVE heard[j] = "ok" /\ At(j, "ok")
    <3>1. ~(j > sent)
      BY <2>1, NothingSent DEF GeneratorInv, PageFits, Is
    <3>2. j \in 1 .. sent
      BY <1>1, <3>1 DEF Ids
    <3> QED
      BY <1>11, <2>1, <3>2 DEF AllUploaded, GeneratorInv, PageFits
  <2>2. ASSUME NEW j \in Ids
        PROVE  /\ Is(j, "put")' /\ jobs'[j].dir = jobs'[k].dir => At(j, "ok")'
               /\ Is(j, "mkdir")' /\ heard'[j] = "waiting" => md5' > jobs'[k].dir
    <3>1. CASE j = k
      BY <1>3, <1>5, <3>1 DEF Is
    <3>2. CASE j # k
      BY <1>5, <1>8, <2>1, <3>2 DEF Is, At
    <3> QED
      BY <3>1, <3>2
  <2>3. jobs'[k].kind = "convert" /\ jobs'[k].dir <= md5' /\ jobs'[k].at = "sweep"
    BY <1>2, <1>3, <1>5, <1>7
  <2> QED
    BY <2>2, <2>3 DEF PatientFits, Is, Whole, At
<1>12. k \notin patient
  BY <1>1, NothingSent DEF GeneratorInv, PatientFits, Is
<1>13. \A i \in patient' : PatientFits(i)'
  BY <1>7, <1>10, <1>11, <1>12
<1>14. Crossings'
  <2>1. crossed' = crossed /\ overlaid' = overlaid
    BY DEF ClickConvert
  <2> QED
    BY <1>1, <1>3, <1>5, <1>8, <2>1, CrossingsClicked, NothingSent DEF GeneratorInv
<1> QED
  BY <1>6, <1>9, <1>13, <1>14, ConvertClicked DEF GeneratorInv

-----------------------------------------------------------------------------
\* A callback that sends nothing: an answer of the server, or a timeout.
LEMMA HeardFits ==
  ASSUME GeneratorInv, NEW i \in Ids, heard[i] = "waiting",
         NEW how, how = "ok" => At(i, "ok"), heard' = [heard EXCEPT ![i] = Ended(how)],
         UNCHANGED <<serverVars, md5, sent, patient, crossed, aged>>, menu' = menu,
         labels' \subseteq labels, link' \in {"none", "file", "undefined"}, FlickerInv'
  PROVE  GeneratorInv'
<1>1. /\ \A j \in Ids \ {i} : heard'[j] = heard[j]
      /\ heard'[i] \in {"ok", "failed"} /\ (heard'[i] = "ok" => At(i, "ok"))
  BY PageFacts DEF Ended
<1>a. dirs' = dirs /\ jobs' = jobs /\ Still
  BY DEF serverVars, Still
<1>2. ServerInv'
  BY <1>a, JobsStay, DirsStay DEF GeneratorInv
<1>3. PageFits'
  BY <1>1, <1>a DEF GeneratorInv, PageFits, At, Is
<1>4. ASSUME NEW j \in patient' PROVE PatientFits(j)'
  <2>1. PatientFits(j) /\ j \in Ids
    BY <1>4 DEF GeneratorInv, PageFits
  <2>2. Whole(j)'
    BY <1>a, <2>1, WholeKept DEF PatientFits, Is, Still
  <2> QED
    BY <1>1, <1>a, <2>1, <2>2 DEF PatientFits, Is, At
<1>5. Crossings'
  BY <1>1, <1>a, CrossingsStay DEF GeneratorInv, Still
<1> QED
  BY <1>2, <1>3, <1>4, <1>5 DEF GeneratorInv

LEMMA PutFits ==
  ASSUME GeneratorInv, NEW i \in Ids, NEW how, how = "ok" => At(i, "ok"), PutComplete(i, how)
  PROVE  GeneratorInv'
<1>1. FlickerInv'
  BY PutCompleted DEF GeneratorInv
<1>2. /\ labels' \subseteq labels /\ link' = link /\ link \in {"none", "file", "undefined"}
      /\ heard[i] = "waiting" /\ heard' = [heard EXCEPT ![i] = Ended(how)]
      /\ UNCHANGED <<serverVars, md5, sent, patient, crossed, aged>> /\ menu' = menu
  BY DEF PutComplete, GeneratorInv, PageFits
<1> QED
  BY <1>1, <1>2, HeardFits

LEMMA ConvertFits ==
  ASSUME GeneratorInv, NEW i \in Ids, NEW how, how = "ok" => At(i, "ok"), ConvertComplete(i, how)
  PROVE  GeneratorInv'
<1>1. FlickerInv'
  BY ConvertCompleted DEF GeneratorInv
<1>2. /\ labels' \subseteq labels /\ link' \in {"none", "file", "undefined"}
      /\ heard[i] = "waiting" /\ heard' = [heard EXCEPT ![i] = Ended(how)]
      /\ UNCHANGED <<serverVars, md5, sent, patient, crossed, aged>> /\ menu' = menu
  BY DEF ConvertComplete, GeneratorInv, PageFits
<1> QED
  BY <1>1, <1>2, HeardFits

-----------------------------------------------------------------------------
\* The answer to a mkdir sends both files, to the directory of the last click.
LEMMA MkdirFits ==
  ASSUME GeneratorInv, NEW i \in Ids, NEW how, how = "ok" => At(i, "ok"), MkdirComplete(i, how)
  PROVE  GeneratorInv'
<1>1. FlickerInv'
  BY MkdirCompleted DEF GeneratorInv
<1>2. CASE how # "ok"
  <2>1. /\ labels' \subseteq labels /\ link' = link /\ link \in {"none", "file", "undefined"}
        /\ heard[i] = "waiting" /\ heard' = [heard EXCEPT ![i] = Ended(how)]
        /\ UNCHANGED <<serverVars, md5, sent, patient, crossed, aged>> /\ menu' = menu
    BY <1>2 DEF MkdirComplete, serverVars, GeneratorInv, PageFits
  <2> QED
    BY <1>1, <2>1, HeardFits
<1>3. CASE how = "ok"
  <2>0. PICK K : K = sent + 1 .. sent'
    OBVIOUS
  <2>1. PICK bodies \in 0 .. Bodies : uploadFiles(jobs[i].size, bodies)
    BY <1>3 DEF MkdirComplete
  <2>2. /\ menu' = md5 /\ Is(i, "mkdir") /\ heard[i] = "waiting"
        /\ heard' = [j \in Ids |-> IF j = i THEN "ok" ELSE IF j \in K THEN "waiting" ELSE heard[j]]
        /\ crossed' = IF jobs[i].dir = md5 THEN crossed ELSE crossed \union K
        /\ UNCHANGED <<dirs, text, overlaid, md5, link, patient, aged>>
    BY <1>3, <2>0 DEF MkdirComplete
  <2>3. /\ sent \in Nat /\ sent' \in 0 .. MaxRequests /\ K \subseteq Ids
        /\ \A j \in Ids : (j \in K => j > sent /\ j <= sent') /\ (j > sent' => j > sent /\ j \notin K)
        /\ \A j \in Ids \ K : jobs'[j] = jobs[j]
    BY <2>0, <2>1, FilesSent DEF GeneratorInv
  <2>4. \A k \in K : jobs[k] = NoJob /\ k # i
    BY <2>2, <2>3, NothingSent DEF GeneratorInv, PageFits, Is
  <2>5. PICK p, q : /\ p = Job("put", md5, "urls", jobs[i].size)
                    /\ q = Job("put", md5, "bodies", bodies)
    OBVIOUS
  <2>6. /\ md5 \in 0 .. MaxUploads /\ "urls" \in Texts /\ "bodies" \in Texts
        /\ Lines("urls") = UrlLines /\ Lines("bodies") = Bodies
        /\ jobs[i].size \in 1 .. UrlLines
    <3>1. JobFits(jobs[i])
      BY ServerFacts DEF GeneratorInv
    <3> QED
      BY <2>2, <3>1 DEF GeneratorInv, PageFits, Texts, Lines, JobFits, Is
  <2>7. /\ NewJob(p) /\ p.kind = "put" /\ p.dir = md5 /\ p.of = "urls"
        /\ bodies # 0 => NewJob(q) /\ q.kind = "put" /\ q.dir = md5 /\ q.of = "bodies"
    <3>1. bodies # 0 => bodies \in 1 .. Bodies
      BY Sizes
    <3> QED
      BY <2>5, <2>6, <3>1, NewPut
  <2>8. /\ jobs' = [j \in Ids |-> IF j = sent + 1 THEN p ELSE IF j = sent + 2 /\ bodies # 0 THEN q
                                  ELSE jobs[j]]
        /\ \A k \in K : \/ k = sent + 1 /\ jobs'[k] = p
                        \/ k = sent + 2 /\ bodies # 0 /\ jobs'[k] = q
    <3>1. jobs' = [j \in Ids |-> IF j = sent + 1 THEN p ELSE IF j = sent + 2 /\ bodies # 0 THEN q
                                 ELSE jobs[j]]
      BY <2>1, <2>5 DEF uploadFiles
    <3>2. sent' = sent + (IF bodies = 0 THEN 1 ELSE 2)
      BY <2>1 DEF uploadFiles
    <3>3. \A k \in K : k = sent + 1 \/ (k = sent + 2 /\ bodies # 0)
      BY <2>0, <2>3, <3>2
    <3>4. sent + 2 # sent + 1
      BY <2>3
    <3> QED
      BY <2>3, <3>1, <3>3, <3>4
  <2>9. /\ \A k \in K : NewJob(jobs'[k]) /\ jobs'[k].kind = "put" /\ jobs'[k].dir = md5
        /\ \A k, l \in K : jobs'[k].of = jobs'[l].of => k = l
    <3>1. "urls" # "bodies"
      OBVIOUS
    <3> QED
      BY <2>7, <2>8, <3>1
  <2>10. jobs \in [Ids -> JobType] /\ jobs' \in [Ids -> JobType]
    <3>1. \A j \in Ids : jobs'[j] \in JobType
      BY <2>3, <2>9, PageFacts DEF NewJob, JobFits
    <3>2. jobs' = [j \in Ids |-> jobs'[j]]
      BY <2>8
    <3> QED
      BY <3>1, <3>2, PageFacts
  <2>11. ServerInv'
    <3>1. K \in SUBSET Ids /\ dirs' = dirs /\ Still
      BY <2>2, <2>3 DEF Still
    <3> QED
      BY <2>3, <2>4, <2>9, <2>10, <3>1, RequestsServe, PageFacts
  <2>12. /\ heard'[i] = "ok" /\ \A k \in K : heard'[k] = "waiting"
         /\ \A j \in Ids \ K : j # i => heard'[j] = heard[j]
    BY <2>2, <2>3, <2>4
  <2>13. PageFits'
    <3>1. ASSUME NEW j \in Ids
          PROVE  /\ heard'[j] = "ok" => At(j, "ok")'
                 /\ j > sent' => jobs'[j] = NoJob
                 /\ Is(j, "mkdir")' => jobs'[j].dir <= md5'
      <4>1. CASE j \in K
        <5>1. ~(j > sent')
          BY <2>3, <4>1
        <5> QED
          BY <2>9, <2>12, <4>1, <5>1 DEF Is
      <4>2. CASE j \notin K
        <5>1. jobs'[j] = jobs[j] /\ (heard'[j] = "ok" => At(j, "ok"))
          BY <1>3, <2>3, <2>12, <4>2 DEF GeneratorInv, PageFits
        <5>2. j > sent' => j > sent
          BY <2>3
        <5> QED
          BY <2>2, <5>1, <5>2 DEF GeneratorInv, PageFits, At, Is
      <4> QED
        BY <4>1, <4>2
    <3>2. labels' \subseteq {"upload", "convert"}
      BY <2>1 DEF uploadFiles, GeneratorInv, PageFits
    <3>3. menu' \in 0 .. md5'
      BY <2>2, PageFacts
    <3> QED
      BY <2>2, <3>1, <3>2, <3>3 DEF GeneratorInv, PageFits
  <2>14. ASSUME NEW c \in patient' PROVE PatientFits(c)'
    <3>1. c \in Ids /\ PatientFits(c)
      BY <2>2, <2>14, PageFacts
    <3>2. c \notin K /\ md5 > jobs[c].dir /\ jobs[c].dir \in Nat
      BY <2>2, <2>4, <3>1, NothingSent, PageFacts DEF PatientFits, Is
    <3>3. jobs'[c] = jobs[c] /\ md5' = md5 /\ overlaid' = overlaid
      BY <2>2, <2>3, <3>1, <3>2
    <3>4. \A k \in K : jobs'[k].dir # jobs[c].dir
      BY <2>9, <3>2, PageFacts
    <3>5. ASSUME NEW j \in Ids
          PROVE  /\ Is(j, "put")' /\ jobs'[j].dir = jobs'[c].dir => At(j, "ok")'
                 /\ Is(j, "mkdir")' /\ heard'[j] = "waiting" => md5' > jobs'[c].dir
      <4>1. CASE j \in K
        BY <2>9, <3>3, <3>4, <4>1 DEF Is
      <4>2. CASE j \notin K
        BY <2>3, <2>12, <3>1, <3>2, <3>3, <4>2 DEF PatientFits, Is, At
      <4> QED
        BY <4>1, <4>2
    <3>6. Whole(c)'
      <4>1. \A j \in Ids : Is(j, "put")' /\ jobs'[j].dir = jobs[c].dir => jobs'[j] = jobs[j]
        BY <2>3, <3>4
      <4> QED
        BY <3>1, <3>3, <4>1, WholeKept DEF PatientFits, Is
    <3> QED
      BY <3>1, <3>3, <3>5, <3>6 DEF PatientFits, Is
  <2>15. Crossings'
    <3>1. /\ Overlays /\ Alone /\ OneMkdir /\ Answered /\ crossed \subseteq Ids
      BY DEF GeneratorInv, Crossings
    <3>2. \A j \in Ids \ K : jobs'[j] = jobs[j]
      BY <2>3
    <3>3. \A k \in K : jobs[k].kind = "none" /\ jobs'[k].kind = "put"
      BY <2>4, <2>9, NothingSent
    <3>4. \A a, b \in Ids : SameText(a, b) => SameText(a, b)'
      BY <3>2, <3>3 DEF SameText, Is
    <3>5. Overlays'
      BY <2>2, <3>1, <3>4 DEF Overlays
    <3>6. OneMkdir'
      BY <3>1, <3>2, <3>3 DEF OneMkdir, Is
    <3>7. crossed \subseteq crossed' /\ crossed' \subseteq Ids
      BY <2>2, <2>3, <3>1
    <3>8. \A k \in K : k \notin crossed' => jobs[i].dir = md5
      BY <2>2
    <3>9. Answered'
      <4> SUFFICES ASSUME NEW a \in Ids \ crossed', Is(a, "put")'
                   PROVE  \E m \in Ids : Is(m, "mkdir")' /\ jobs'[m].dir = jobs'[a].dir /\ heard'[m] = "ok"
        BY DEF Answered
      <4>1. CASE a \in K
        <5>1. i \notin K /\ jobs'[i] = jobs[i] /\ jobs'[a].dir = md5 /\ jobs[i].dir = md5
          BY <2>4, <2>9, <3>2, <3>8, <4>1
        <5> QED
          BY <2>2, <2>12, <5>1 DEF Is
      <4>2. CASE a \notin K
        <5>1. jobs'[a] = jobs[a] /\ a \in Ids \ crossed /\ Is(a, "put")
          BY <3>2, <3>7, <4>2 DEF Is
        <5>2. PICK m \in Ids : Is(m, "mkdir") /\ jobs[m].dir = jobs[a].dir /\ heard[m] = "ok"
          BY <3>1, <5>1 DEF Answered
        <5>3. m \notin K /\ m # i
          BY <2>2, <3>3, <5>2 DEF Is
        <5> QED
          BY <2>12, <3>2, <5>1, <5>2, <5>3 DEF Is
      <4> QED
        BY <4>1, <4>2
    <3>10. Alone'
      <4> SUFFICES ASSUME NEW a \in Ids \ crossed', NEW b \in Ids \ crossed', SameText(a, b)'
                   PROVE  a = b
        BY DEF Alone
      <4>1. ASSUME NEW x \in K, x \notin crossed', NEW y \in Ids \ K, y \notin crossed'
            PROVE  ~SameText(x, y)' /\ ~SameText(y, x)'
        <5>1. SUFFICES ASSUME SameText(x, y)' \/ SameText(y, x)' PROVE FALSE
          OBVIOUS
        <5>2. jobs[i].dir = md5 /\ jobs'[x].dir = md5 /\ jobs'[y] = jobs[y]
          BY <2>9, <3>2, <3>8, <4>1
        <5>3. Is(y, "put") /\ jobs[y].dir = md5 /\ y \notin crossed
          BY <3>7, <4>1, <5>1, <5>2 DEF SameText, Is
        <5>4. PICK m \in Ids : Is(m, "mkdir") /\ jobs[m].dir = md5 /\ heard[m] = "ok"
          BY <3>1, <5>3 DEF Answered
        <5>5. m = i
          BY <2>2, <3>1, <5>2, <5>4 DEF OneMkdir
        <5> QED
          BY <2>2, <5>4, <5>5
      <4>2. CASE a \in K /\ b \in K
        BY <2>9, <4>2 DEF SameText
      <4>3. CASE a \notin K /\ b \notin K
        <5>1. a \notin crossed /\ b \notin crossed
          BY <3>7
        <5> QED
          BY <3>1, <3>2, <4>3, <5>1 DEF Alone, SameText, Is
      <4> QED
        BY <4>1, <4>2, <4>3
    <3> QED
      BY <3>5, <3>6, <3>7, <3>9, <3>10 DEF Crossings
  <2> QED
    BY <1>1, <2>11, <2>13, <2>14, <2>15 DEF GeneratorInv
<1> QED
  BY <1>2, <1>3

LEMMA CompleteFits ==
  ASSUME GeneratorInv, NEW i \in Ids, NEW how, how = "ok" => At(i, "ok"), Complete(i, how)
  PROVE  GeneratorInv'
BY MkdirFits, PutFits, ConvertFits DEF Complete

-----------------------------------------------------------------------------
LEMMA ServeFits == ASSUME GeneratorInv, NEW i \in Ids, Serve(i) PROVE GeneratorInv'
<1>1. Work(i) /\ UNCHANGED pageVars
  BY DEF Serve
<1>2. FlickerInv' /\ ServerInv' /\ Serves(i) /\ ServerInv
  <2>1. JobsOK' /\ \A j \in Ids : jobs'[j].kind = jobs[j].kind
    BY <1>1, ServerKeepsKinds DEF GeneratorInv, FlickerInv
  <2>2. FlickerInv'
    BY <1>1, <2>1, SamePage DEF GeneratorInv, pageVars
  <2> QED
    BY <1>1, <2>2, WorkServes, WorkMoves DEF GeneratorInv, pageVars
<1>3. \A j \in Ids : /\ jobs'[j].kind = jobs[j].kind /\ jobs'[j].dir = jobs[j].dir
                     /\ jobs'[j].of = jobs[j].of /\ (At(j, "ok") => jobs'[j] = jobs[j])
  BY <1>2 DEF Serves, At, Replies
<1>6. overlaid \subseteq overlaid' /\ (overlaid' = overlaid \/ Overlays')
  <2>1. CASE overlaid' = overlaid
    BY <2>1
  <2>2. CASE OpenFile(i)
    <3>1. /\ overlaid \subseteq overlaid'
          /\ \A j \in overlaid' \ overlaid : j \in SameFile(i) \/ (j = i /\ SameFile(i) # {})
      BY <2>2 DEF OpenFile
    <3>2. Is(i, "put")
      BY <2>2 DEF OpenFile, Is
    <3>3. \A j \in SameFile(i) : j \in Ids \ {i} /\ SameText(j, i) /\ SameText(i, j)
      BY <3>2 DEF SameFile, SameText, Is
    <3>4. \A j \in overlaid' : j \in Ids /\ \E q \in Ids \ {j} : SameText(j, q)
      BY <3>1, <3>3 DEF GeneratorInv, Crossings, Overlays
    <3>5. \A a, b \in Ids : SameText(a, b) => SameText(a, b)'
      BY <1>3 DEF SameText, Is
    <3>6. Overlays'
      BY <3>4, <3>5 DEF Overlays
    <3> QED
      BY <3>1, <3>6
  <2> QED
    BY <1>1, <2>1, <2>2 DEF Work, WriteFile
<1>7. Crossings'
  BY <1>1, <1>3, <1>6, CrossingsStay DEF GeneratorInv, pageVars
<1>4. PageFits'
  <2>1. \A j \in Ids : jobs[j] = NoJob => jobs'[j] = NoJob
    BY <1>3, NothingSent DEF At
  <2> QED
    BY <1>1, <1>3, <2>1 DEF GeneratorInv, PageFits, pageVars, Is, At
<1>5. ASSUME NEW c \in patient' PROVE PatientFits(c)'
  <2>1. c \in Ids /\ PatientFits(c)
    BY <1>1, <1>5, PageFacts DEF pageVars
  <2>2. Whole(c)'
    <3>1. CASE c = i
      BY <1>1, <1>2, <2>1, <3>1, WholeStays DEF PatientFits
    <3>2. CASE c # i
      <4>1. jobs'[c] = jobs[c] /\ \A j \in Ids : jobs'[j].size = jobs[j].size
        BY <1>2, <2>1, <3>2 DEF Serves
      <4> QED
        BY <1>3, <1>6, <2>1, <4>1, WholeKept DEF PatientFits, Is
    <3> QED
      BY <3>1, <3>2
  <2>3. ASSUME NEW j \in Ids
        PROVE  /\ Is(j, "put")' /\ jobs'[j].dir = jobs'[c].dir => At(j, "ok")'
               /\ Is(j, "mkdir")' /\ heard'[j] = "waiting" => md5' > jobs'[c].dir
    BY <1>1, <1>3, <2>1 DEF PatientFits, Is, At, pageVars
  <2> QED
    BY <1>1, <1>3, <2>1, <2>2, <2>3 DEF PatientFits, Is, pageVars
<1> QED
  BY <1>2, <1>4, <1>5, <1>7 DEF GeneratorInv

LEMMA HourFits == ASSUME GeneratorInv, NEW d \in Dirs, HourPasses(d) PROVE GeneratorInv'
<1> DEFINE r == [dirs[d] EXCEPT !.old = TRUE]
<1>1. /\ dirs' = [dirs EXCEPT ![d] = r] /\ jobs' = jobs /\ aged' = aged \union {d}
      /\ UNCHANGED <<md5, menu, sent, heard, uploads, owners, intervals, labels, link, patient>>
      /\ UNCHANGED <<text, overlaid, crossed>>
  BY DEF HourPasses, Ages
<1>2. ServerInv /\ dirs \in [Dirs -> DirType] /\ \A e \in Dirs : DirFits(dirs[e])
  BY DEF GeneratorInv, ServerInv, Sound
<1>3. /\ r \in DirType /\ r.files = dirs[d].files /\ r.there = dirs[d].there
  BY <1>2 DEF DirType
<1> HIDE DEF r
<1>4. /\ dirs' \in [Dirs -> DirType] /\ dirs'[d] = r /\ \A e \in Dirs \ {d} : dirs'[e] = dirs[e]
  BY <1>1, <1>2, <1>3
<1>5. Sound'
  <2>1. DirFits(r)
    BY <1>2, <1>3 DEF DirFits
  <2> QED
    BY <1>1, <1>2, <1>4, <2>1 DEF ServerInv, Sound
<1>6. Swept'
  BY <1>1, <1>2, <1>4 DEF ServerInv, Swept, Removing
<1>7. TextsFit'
  <2>1. SameTexts /\ aged \subseteq aged'
    BY <1>1, <1>3, <1>4 DEF SameTexts
  <2>2. \A j \in Ids : AsFar(j)
    BY <1>1 DEF AsFar
  <2> QED
    BY <1>1, <1>2, <2>1, <2>2, TextsStay DEF ServerInv
<1>8. FlickerInv'
  BY <1>1, SamePage DEF GeneratorInv, FlickerInv, JobsOK
<1>9. PageFits'
  BY <1>1 DEF GeneratorInv, PageFits, Is, At
<1>10. \A c \in patient' : PatientFits(c)'
  BY <1>1, WholeKept DEF GeneratorInv, PageFits, PatientFits, Is, At
<1>11. Crossings'
  BY <1>1, CrossingsStay DEF GeneratorInv
<1> QED
  BY <1>5, <1>6, <1>7, <1>8, <1>9, <1>10, <1>11 DEF GeneratorInv, ServerInv

LEMMA StutterFits == ASSUME GeneratorInv, UNCHANGED vars PROVE GeneratorInv'
<1>1. /\ UNCHANGED serverVars /\ UNCHANGED pageVars /\ dirs' = dirs /\ jobs' = jobs
      /\ Still /\ overlaid' = overlaid /\ crossed' = crossed
      /\ UNCHANGED <<md5, menu, sent, heard, uploads, owners, intervals, labels, link, patient, aged>>
  BY DEF vars, serverVars, pageVars, Still
<1>2. ServerInv'
  BY <1>1, JobsStay, DirsStay DEF GeneratorInv
<1>3. FlickerInv'
  BY <1>1, SamePage DEF GeneratorInv, FlickerInv, JobsOK
<1>4. PageFits'
  BY <1>1 DEF GeneratorInv, PageFits, Is, At
<1>5. \A c \in patient' : PatientFits(c)'
  BY <1>1, WholeKept DEF GeneratorInv, PageFits, PatientFits, Is, At
<1>6. Crossings'
  BY <1>1, CrossingsStay DEF GeneratorInv
<1> QED
  BY <1>2, <1>3, <1>4, <1>5, <1>6 DEF GeneratorInv

LEMMA InitFits == Init => GeneratorInv
<1> SUFFICES ASSUME Init PROVE GeneratorInv
  OBVIOUS
<1>1. /\ dirs = [d \in Dirs |-> Gone] /\ jobs = [i \in Ids |-> NoJob] /\ md5 = 0 /\ menu = 0
      /\ heard = [i \in Ids |-> "unsent"] /\ labels = {} /\ link = "none" /\ patient = {}
      /\ aged = {} /\ crossed = {} /\ overlaid = {} /\ text = [l \in TextLines |-> 0]
  BY DEF Init, ServerInit
<1>2. FlickerInv
  BY InitFlickers
<1>3. Gone \in DirType /\ DirFits(Gone) /\ ~Gone.old /\ \A f \in Files : Gone.files[f] = Absent
  <2>1. [f \in Files |-> Absent] \in [Files -> Absent .. Most]
    BY Sizes
  <2>2. Gone \in DirType /\ ~Gone.old /\ Gone.files = Empty.files
    BY <2>1 DEF Gone, Empty, DirType
  <2> QED
    BY <2>2, Sizes DEF DirFits
<1>4. NoJob \in JobType /\ JobFits(NoJob)
  <2>1. 0 \in 0 .. MaxUploads /\ "ok" \in AllPlaces /\ "ok" \in Places("none")
        /\ "ok" \notin Converting
    BY Sizes, PlacesOf DEF AllPlaces, Replies, Converting
  <2>2. NoJob \in JobType
    BY <2>1 DEF NoJob, JobType
  <2> QED
    BY <2>1, <2>2 DEF NoJob, JobFits
<1>5. Sound /\ Swept
  <2>1. text \in [TextLines -> 0 .. MaxRequests]
    BY <1>1, Sizes
  <2> QED
    BY <1>1, <1>3, <1>4, <2>1, NothingSent DEF Sound, Swept, Removing
<1>6. TextsFit
  <2> SUFFICES ASSUME NEW d \in Dirs, NEW f \in Texts PROVE TextFits(d, f)
    BY DEF TextsFit
  <2>1. Puts(d, f) = {}
    BY <1>1, NothingSent DEF Puts, Is
  <2>2. dirs[d].files[f] = Absent
    BY <1>1, <1>3 DEF Texts, Files
  <2> QED
    BY <2>1, <2>2 DEF TextFits, StaysThere, OwnText, OneWriter
<1>8. Crossings
  BY <1>1, NothingSent DEF Crossings, Overlays, Alone, OneMkdir, Answered, SameText, Is
<1>7. PageFits
  BY <1>1, NothingSent, Sizes DEF PageFits, Is
<1> QED
  BY <1>1, <1>2, <1>5, <1>6, <1>7, <1>8 DEF GeneratorInv, ServerInv

LEMMA NextFits == GeneratorInv /\ [Next]_vars => GeneratorInv'
<1> SUFFICES ASSUME GeneratorInv, [Next]_vars PROVE GeneratorInv'
  OBVIOUS
<1>1. ASSUME NEW i \in Ids, Answer(i) PROVE GeneratorInv'
  BY <1>1, CompleteFits DEF Answer, At
<1>2. ASSUME NEW i \in Ids, Timeout(i) PROVE GeneratorInv'
  BY <1>2, CompleteFits DEF Timeout
<1> QED
  BY <1>1, <1>2, UploadClickFits, ConvertClickFits, ServeFits, HourFits, StutterFits DEF Next

-----------------------------------------------------------------------------
\* The page and the server keep their types: a job is at a place of its code, and
\* no file outgrows what was sent, whoever writes to it at the same time.
THEOREM Typing == Spec => []TypeOK
<1>1. ASSUME GeneratorInv PROVE TypeOK
  <2>1. dirs \in [Dirs -> DirType] /\ jobs \in [Ids -> JobType] /\ PageOK /\ PageFits
    BY <1>1 DEF GeneratorInv, ServerInv, Sound, FlickerInv
  <2>2. DirType = [there : BOOLEAN, old : BOOLEAN, files : [Files -> Absent .. UrlLines + Bodies]]
    BY DEF DirType, Most
  <2>3. JobType = [kind : {"none", "mkdir", "put", "convert"}, dir : 0 .. MaxUploads,
                   of : Files \union Types \union {""}, size : Nat, n : Nat,
                   at : {"sweep", "remove", "rmdir", "mkdir", "open", "write", "convert",
                         "unpack", "makedirs", "extract", "readUrls", "readBodies",
                         "openJson", "close"} \union Replies]
    <3>1. AllPlaces = {"sweep", "remove", "rmdir", "mkdir", "open", "write", "convert",
                       "unpack", "makedirs", "extract", "readUrls", "readBodies",
                       "openJson", "close"} \union Replies
      BY DEF AllPlaces, Sweeping, Converting
    <3> QED
      BY <3>1 DEF JobType
  <2>4. uploads \in Nat
    BY <1>1, WaitingFinite DEF GeneratorInv, FlickerInv, UploadsCounted
  <2>5. menu \in 0 .. MaxUploads /\ md5 \in 0 .. MaxUploads
    <3>1. md5 \in 0 .. MaxUploads /\ menu \in 0 .. md5
      BY <2>1 DEF PageFits
    <3> QED
      BY <3>1, Sizes
  <2>6. text \in [TextLines -> 0 .. MaxRequests] /\ overlaid \subseteq Ids /\ crossed \subseteq Ids
    BY <1>1 DEF GeneratorInv, ServerInv, Sound, Crossings, Overlays
  <2> QED
    BY <2>1, <2>2, <2>3, <2>4, <2>5, <2>6 DEF TypeOK, PageOK, PageFits
<1> QED
  BY <1>1, InitFits, NextFits, PTL DEF Spec

\* An upload that was reported as successful is on the server, whole and with its
\* own lines, whatever sweeps, other uploads and conversions overlap with it, unless
\* another upload went to the same directory; and that takes a click on upload while
\* the answer to an earlier one was still to come.
THEOREM UploadsStay == Spec => []UploadsKept
<1>1. ASSUME GeneratorInv PROVE UploadsKept
  <2>1. ASSUME NEW i \in Ids PROVE Untouched(i)
    <3> SUFFICES ASSUME Is(i, "put"), At(i, "ok"), jobs[i].dir \notin aged, i \notin overlaid
                 PROVE  /\ File(i, jobs[i].of) = jobs[i].size
                        /\ \A k \in 1 .. jobs[i].size : text[<<jobs[i].dir, jobs[i].of, k>>] = i
      BY DEF Untouched
    <3>1. jobs[i].dir \in Dirs /\ jobs[i].of \in Texts /\ jobs[i].n = jobs[i].size
      BY <1>1 DEF GeneratorInv, ServerInv, Sound, JobFits, Is, At
    <3>2. i \in Puts(jobs[i].dir, jobs[i].of) /\ Opened(i)
      BY DEF Puts, Opened
    <3>3. Owned(jobs[i].dir, jobs[i].of, i)
      BY <1>1, <3>1, <3>2 DEF GeneratorInv, ServerInv, TextsFit, TextFits, StaysThere, OwnText
    <3> QED
      BY <3>1, <3>3 DEF Owned, File
  <2>2. OverlaidByClicks
    <3> SUFFICES ASSUME NEW i \in overlaid
                 PROVE  \E j \in crossed : /\ Is(j, "put") /\ jobs[j].dir = jobs[i].dir
                                           /\ jobs[j].of = jobs[i].of
      BY DEF OverlaidByClicks
    <3>1. PICK q \in Ids : i \in Ids /\ q # i /\ SameText(i, q)
      BY <1>1 DEF GeneratorInv, Crossings, Overlays
    <3>2. i \in crossed \/ q \in crossed
      BY <1>1, <3>1 DEF GeneratorInv, Crossings, Alone
    <3> QED
      BY <3>1, <3>2 DEF SameText
  <2> QED
    BY <2>1, <2>2 DEF UploadsKept
<1> QED
  BY <1>1, InitFits, NextFits, PTL DEF Spec

\* A conversion that succeeds contains everything of the text that was uploaded,
\* when the user waited for the uploads and no other went to the same directory, in
\* every interleaving of the threads.
THEOREM PatienceIsRewarded == Spec => []WholeForThePatient
<1>1. ASSUME GeneratorInv PROVE WholeForThePatient
  <2> SUFFICES ASSUME NEW i \in patient, NEW p \in Ids \ overlaid,
                      At(i, "ok"), jobs[i].of \in {"get", "char"}, Is(p, "put"),
                      jobs[p].dir = jobs[i].dir, jobs[p].of = InputOf(i)
               PROVE  jobs[i].n = jobs[p].size
    BY DEF WholeForThePatient
  <2>1. Sized(i)
    BY <1>1 DEF GeneratorInv, PatientFits, Whole, At
  <2>2. p \in Puts(jobs[i].dir, InputOf(i))
    BY DEF Puts
  <2> QED
    BY <2>1, <2>2 DEF Sized
<1> QED
  BY <1>1, InitFits, NextFits, PTL DEF Spec

HIDE ServerAssumption
-----------------------------------------------------------------------------
(***************************************************************************)
(* Functions and sequences.                                                *)
(***************************************************************************)
Leads(N, S, step) == \A k \in 1 .. N : \A x \in S[k - 1] : step[<<k, x>>] \in S[k]
Stepwise(f, N, a, step) == f = [k \in 0 .. N |-> IF k = 0 THEN a ELSE step[<<k, f[k - 1]>>]]

\* A function of the numbers up to N, each value made of the one before, exists,
\* and its values are where the steps lead.
LEMMA Steps ==
  ASSUME NEW N \in Nat, NEW S, NEW a \in S[0], NEW step, Leads(N, S, step)
  PROVE  \E f : Stepwise(f, N, a, step) /\ \A k \in 0 .. N : f[k] \in S[k]
<1>a. \A k \in 1 .. N : \A x \in S[k - 1] : step[<<k, x>>] \in S[k]
  BY DEF Leads
<1> DEFINE T == {kx \in Nat \X UNION {S[k] : k \in 0 .. N} : kx[1] <= N /\ kx[2] \in S[kx[1]]}
           next == [kx \in T |-> IF kx[1] < N THEN <<kx[1] + 1, step[<<kx[1] + 1, kx[2]>>]>> ELSE kx]
<1> DEFINE start == <<0, a>>
<1>1. start \in T
  BY 0 \in 0 .. N, 0 <= N
<1>2. ASSUME NEW kx \in T PROVE next[kx] \in T
  <2>1. PICK k, x : kx = <<k, x>> /\ k \in Nat /\ k <= N /\ x \in S[k]
    OBVIOUS
  <2>2. CASE ~(k < N)
    BY <2>1, <2>2
  <2>3. CASE k < N
    <3>1. k + 1 \in 1 .. N /\ (k + 1) - 1 = k /\ k + 1 \in 0 .. N /\ k + 1 \in Nat /\ k + 1 <= N
      BY <2>1, <2>3
    <3>2. step[<<k + 1, x>>] \in S[k + 1]
      BY <1>a, <2>1, <3>1
    <3>3. next[kx] = <<k + 1, step[<<k + 1, x>>]>>
      BY <2>1, <2>3
    <3> QED
      BY <3>1, <3>2, <3>3
  <2> QED
    BY <2>2, <2>3
<1> HIDE DEF T, next, start
<1>3. PICK g \in [Nat -> T] : g[0] = start /\ \A k \in Nat : g[k + 1] = next[g[k]]
  <2>1. \A kx \in T : next[kx] \in T
    BY <1>2
  <2>2. \E g \in [Nat -> T] : g[0] = start /\ \A k \in Nat : g[k + 1] = next[g[k]]
    BY ONLY <1>1, <2>1, Iterated, Z3
  <2> QED
    BY <2>2
<1> DEFINE Q == {k \in Nat : k <= N => g[k][1] = k}
<1>4. 0 \in Q
  BY <1>3 DEF start
<1>5. ASSUME NEW k \in Nat, k \in Q PROVE k + 1 \in Q
  <2> SUFFICES ASSUME k + 1 <= N PROVE g[k + 1][1] = k + 1
    OBVIOUS
  <2>1. g[k][1] = k /\ g[k] \in T /\ k < N
    BY <1>3, <1>5
  <2>2. next[g[k]] = <<g[k][1] + 1, step[<<g[k][1] + 1, g[k][2]>>]>>
    BY <2>1 DEF next
  <2> QED
    BY <1>3, <2>1, <2>2
<1>6. Nat \subseteq Q
  <2> HIDE DEF Q
  <2> QED
    BY <1>4, <1>5, NumbersByInduction
<1>7. \A k \in 0 .. N : k \in Nat /\ g[k] \in T /\ g[k][1] = k /\ g[k][2] \in S[k]
  <2> SUFFICES ASSUME NEW k \in 0 .. N PROVE k \in Nat /\ g[k] \in T /\ g[k][1] = k /\ g[k][2] \in S[k]
    OBVIOUS
  <2>1. k \in Nat /\ k <= N
    OBVIOUS
  <2>2. g[k] \in T /\ g[k][1] = k
    BY <1>3, <1>6, <2>1
  <2> QED
    BY <2>1, <2>2 DEF T
<1> DEFINE f == [k \in 0 .. N |-> g[k][2]]
<1>8. \A k \in 0 .. N : f[k] \in S[k] /\ f[k] = g[k][2]
  <2>1. \A k \in 0 .. N : f[k] = g[k][2]
    OBVIOUS
  <2> HIDE DEF f
  <2> QED
    BY <1>7, <2>1
<1>9. f[0] = a
  BY <1>3, 0 \in 0 .. N DEF start
<1>10. ASSUME NEW k \in 0 .. N, k # 0 PROVE f[k] = step[<<k, f[k - 1]>>]
  <2>1. PICK j \in Nat : k = j + 1 /\ j = k - 1 /\ j < N /\ j \in 0 .. N
    <3>1. k - 1 \in Nat
      BY <1>10
    <3> QED
      BY <3>1
  <2>2. g[j] \in T /\ g[j][1] = j
    BY <1>7, <2>1
  <2>3. g[k] = next[g[j]]
    BY <1>3, <2>1
  <2>4. next[g[j]] = <<j + 1, step[<<j + 1, g[j][2]>>]>>
    BY <2>1, <2>2 DEF next
  <2>5. f[k] = g[k][2] /\ f[j] = g[j][2]
    BY <1>8, <2>1
  <2> HIDE DEF f
  <2> QED
    BY <2>1, <2>3, <2>4, <2>5
<1>11. f = [k \in 0 .. N |-> f[k]]
  OBVIOUS
<1>12. f = [k \in 0 .. N |-> IF k = 0 THEN a ELSE step[<<k, f[k - 1]>>]]
  <2> HIDE DEF f
  <2>1. \A k \in 0 .. N : f[k] = IF k = 0 THEN a ELSE step[<<k, f[k - 1]>>]
    BY <1>9, <1>10
  <2> QED
    BY <1>11, <2>1
<1> HIDE DEF f
<1> QED
  BY <1>8, <1>12 DEF Stepwise

\* What holds of the values of such a function.
LEMMA StepsHold ==
  ASSUME NEW N \in Nat, NEW P, 0 \in P,
         \A k \in 1 .. N : k - 1 \in P => k \in P
  PROVE  0 .. N \subseteq P
<1> DEFINE Q == {k \in Nat : k <= N => k \in P}
<1>1. 0 \in Q
  OBVIOUS
<1>2. ASSUME NEW k \in Nat, k \in Q PROVE k + 1 \in Q
  <2> SUFFICES ASSUME k + 1 <= N PROVE k + 1 \in P
    OBVIOUS
  <2>1. k + 1 \in 1 .. N /\ (k + 1) - 1 = k /\ k <= N
    OBVIOUS
  <2> QED
    BY <1>2, <2>1
<1>3. Nat \subseteq Q
  <2> HIDE DEF Q
  <2> QED
    BY <1>1, <1>2, NumbersByInduction
<1> QED
  BY <1>3

\* A part of a sequence.
LEMMA Part ==
  ASSUME NEW S, NEW s \in Seq(S), NEW m \in 1 .. Len(s) + 1, NEW n \in m - 1 .. Len(s)
  PROVE  /\ SubSeq(s, m, n) \in Seq(S) /\ Len(SubSeq(s, m, n)) = n - m + 1
         /\ \A i \in 1 .. n - m + 1 : SubSeq(s, m, n)[i] = s[m + i - 1]
<1>1. /\ m \in Int /\ n \in Int /\ Len(s) \in Nat /\ DOMAIN s = 1 .. Len(s)
      /\ (IF m <= n THEN n - m + 1 ELSE 0) = n - m + 1
      /\ \A i \in m .. n : i \in 1 .. Len(s) /\ s[i] \in S
  OBVIOUS
<1>2. /\ SubSeq(s, m, n) \in Seq(S)
      /\ Len(SubSeq(s, m, n)) = IF m <= n THEN n - m + 1 ELSE 0
      /\ \A i \in 1 .. n - m + 1 : SubSeq(s, m, n)[i] = s[m + i - 1]
  BY <1>1, SubSeqProperties
<1> QED
  BY <1>1, <1>2

\* An element put into a sequence.
LEMMA Inserted ==
  ASSUME NEW S, NEW s \in Seq(S), NEW i \in 1 .. Len(s) + 1, NEW e \in S
  PROVE  /\ InsertAt(s, i, e) \in Seq(S) /\ Len(InsertAt(s, i, e)) = Len(s) + 1
         /\ \A k \in 1 .. Len(s) + 1 :
              InsertAt(s, i, e)[k] = IF k < i THEN s[k] ELSE IF k = i THEN e ELSE s[k - 1]
<1> DEFINE a == SubSeq(s, 1, i - 1)
           b == SubSeq(s, i, Len(s))
           n == Len(s)
           u == InsertAt(s, i, e)
<1>0. n \in Nat /\ i \in Nat /\ 1 <= i /\ i <= n + 1
  OBVIOUS
<1>1. a \in Seq(S) /\ Len(a) = i - 1 /\ \A k \in 1 .. i - 1 : a[k] = s[k]
  <2>1. 1 \in 1 .. n + 1 /\ i - 1 \in 1 - 1 .. n /\ (i - 1) - 1 + 1 = i - 1
    BY <1>0
  <2> QED
    BY <2>1, Part
<1>2. b \in Seq(S) /\ Len(b) = n - i + 1 /\ \A k \in 1 .. n - i + 1 : b[k] = s[i + k - 1]
  <2>1. n \in i - 1 .. n
    BY <1>0
  <2> QED
    BY <2>1, Part
<1>3. u = a \o <<e>> \o b
  BY DEF InsertAt
<1> HIDE DEF a, b, n, u
<1> DEFINE d == <<e>>
<1>4. d \in Seq(S) /\ Len(d) = 1 /\ d[1] = e
  OBVIOUS
<1> HIDE DEF d
<1> DEFINE c == a \o d
<1>5. /\ c \in Seq(S) /\ Len(c) = (i - 1) + 1
      /\ \A k \in 1 .. i - 1 : c[k] = a[k]
      /\ c[(i - 1) + 1] = e
  <2>1. /\ c \in Seq(S) /\ Len(c) = Len(a) + Len(d)
        /\ \A k \in 1 .. Len(a) : c[k] = a[k]
        /\ \A k \in 1 .. Len(d) : c[Len(a) + k] = d[k]
    <3>1. a \in Seq(S) /\ d \in Seq(S)
      BY <1>1, <1>4
    <3> QED
      BY ONLY <3>1
  <2> HIDE DEF c
  <2> QED
    BY <1>1, <1>4, <2>1
<1> HIDE DEF c
<1>6. /\ c \o b \in Seq(S) /\ Len(c \o b) = ((i - 1) + 1) + (n - i + 1)
      /\ \A k \in 1 .. (i - 1) + 1 : (c \o b)[k] = c[k]
      /\ \A k \in 1 .. n - i + 1 : (c \o b)[((i - 1) + 1) + k] = b[k]
  <2>1. /\ c \o b \in Seq(S) /\ Len(c \o b) = Len(c) + Len(b)
        /\ \A k \in 1 .. Len(c) : (c \o b)[k] = c[k]
        /\ \A k \in 1 .. Len(b) : (c \o b)[Len(c) + k] = b[k]
    <3>1. c \in Seq(S) /\ b \in Seq(S)
      BY <1>2, <1>5
    <3> QED
      BY ONLY <3>1
  <2> QED
    BY <1>2, <1>5, <2>1
<1>7. u = c \o b
  BY <1>3 DEF c, d
<1>8. Len(u) = n + 1
  BY <1>0, <1>6, <1>7
<1>9. ASSUME NEW k \in 1 .. n + 1
      PROVE  u[k] = IF k < i THEN s[k] ELSE IF k = i THEN e ELSE s[k - 1]
  <2>1. CASE k < i
    <3>1. k \in 1 .. i - 1 /\ k \in 1 .. (i - 1) + 1
      BY <1>0, <2>1
    <3> QED
      BY <1>1, <1>5, <1>6, <1>7, <2>1, <3>1
  <2>2. CASE k = i
    <3>1. (i - 1) + 1 = k /\ k \in 1 .. (i - 1) + 1 /\ ~(k < i)
      BY <1>0, <2>2
    <3> QED
      BY <1>5, <1>6, <1>7, <2>2, <3>1
  <2>3. CASE k > i
    <3>1. PICK j \in 1 .. n - i + 1 : j = k - i
      <4>1. k - i \in 1 .. n - i + 1
        BY <1>0, <2>3
      <4> QED
        BY <4>1
    <3>2. ((i - 1) + 1) + j = k /\ i + j - 1 = k - 1 /\ ~(k < i) /\ k # i
      BY <1>0, <2>3, <3>1
    <3>3. u[((i - 1) + 1) + j] = b[j] /\ b[j] = s[i + j - 1]
      BY <1>2, <1>6, <1>7
    <3> QED
      BY <3>2, <3>3
  <2> QED
    BY <1>0, <2>1, <2>2, <2>3
<1> QED
  BY <1>6, <1>7, <1>8, <1>9 DEF n, u

\* An element taken out of a sequence.
LEMMA TakenOut ==
  ASSUME NEW S, NEW s \in Seq(S), NEW i \in 1 .. Len(s)
  PROVE  /\ RemoveAt(s, i) \in Seq(S) /\ Len(RemoveAt(s, i)) = Len(s) - 1
         /\ \A k \in 1 .. Len(s) - 1 : RemoveAt(s, i)[k] = IF k < i THEN s[k] ELSE s[k + 1]
<1> DEFINE a == SubSeq(s, 1, i - 1)
           b == SubSeq(s, i + 1, Len(s))
           n == Len(s)
           u == RemoveAt(s, i)
<1>0. n \in Nat /\ i \in Nat /\ 1 <= i /\ i <= n
  OBVIOUS
<1>1. a \in Seq(S) /\ Len(a) = i - 1 /\ \A k \in 1 .. i - 1 : a[k] = s[k]
  <2>1. 1 \in 1 .. n + 1 /\ i - 1 \in 1 - 1 .. n /\ (i - 1) - 1 + 1 = i - 1
    BY <1>0
  <2> QED
    BY <2>1, Part
<1>2. b \in Seq(S) /\ Len(b) = n - i /\ \A k \in 1 .. n - i : b[k] = s[k + i]
  <2>1. PICK m \in 1 .. n + 1 : m = i + 1
    BY <1>0
  <2>2. n \in m - 1 .. n /\ n - m + 1 = n - i /\ \A k \in 1 .. n - i : m + k - 1 = k + i
    BY <1>0, <2>1
  <2>3. /\ SubSeq(s, m, n) \in Seq(S) /\ Len(SubSeq(s, m, n)) = n - m + 1
        /\ \A k \in 1 .. n - m + 1 : SubSeq(s, m, n)[k] = s[m + k - 1]
    BY ONLY <2>1, <2>2, s \in Seq(S), n = Len(s), Part
  <2>4. b = SubSeq(s, m, n)
    BY <2>1
  <2> HIDE DEF b
  <2> QED
    BY <2>2, <2>3, <2>4
<1>3. u = a \o b
  BY DEF RemoveAt
<1> HIDE DEF a, b, n, u
<1>6. /\ a \o b \in Seq(S) /\ Len(a \o b) = (i - 1) + (n - i)
      /\ \A k \in 1 .. i - 1 : (a \o b)[k] = a[k]
      /\ \A k \in 1 .. n - i : (a \o b)[(i - 1) + k] = b[k]
  <2>1. /\ a \o b \in Seq(S) /\ Len(a \o b) = Len(a) + Len(b)
        /\ \A k \in 1 .. Len(a) : (a \o b)[k] = a[k]
        /\ \A k \in 1 .. Len(b) : (a \o b)[Len(a) + k] = b[k]
    <3>1. a \in Seq(S) /\ b \in Seq(S)
      BY <1>1, <1>2
    <3> QED
      BY ONLY <3>1
  <2> QED
    BY <1>1, <1>2, <2>1
<1>8. Len(u) = n - 1
  BY <1>0, <1>3, <1>6
<1>9. ASSUME NEW k \in 1 .. n - 1 PROVE u[k] = IF k < i THEN s[k] ELSE s[k + 1]
  <2>1. CASE k < i
    <3>1. k \in 1 .. i - 1
      BY <1>0, <2>1
    <3> QED
      BY <1>1, <1>3, <1>6, <2>1, <3>1
  <2>2. CASE k >= i
    <3>1. PICK j \in 1 .. n - i : j = k - (i - 1)
      <4>1. k - (i - 1) \in 1 .. n - i
        BY <1>0, <2>2
      <4> QED
        BY <4>1
    <3>2. (i - 1) + j = k /\ j + i = k + 1 /\ ~(k < i)
      BY <1>0, <2>2, <3>1
    <3>3. u[(i - 1) + j] = b[j] /\ b[j] = s[j + i]
      BY <1>2, <1>3, <1>6
    <3> QED
      BY <3>2, <3>3
  <2> QED
    BY <1>0, <2>1, <2>2
<1> QED
  BY <1>3, <1>6, <1>8, <1>9 DEF n, u

-----------------------------------------------------------------------------
(***************************************************************************)
(* The handlers of a type, and what the page keeps of them.                *)
(***************************************************************************)
HandlerSet == {b.h : b \in Bindings}
HandlersOf(t) == {h \in HandlerSet : h.type = t}

\* Delegated handlers are in front, and counted.
DelegatedFirst(at) == /\ at.delegated <= Len(at.list)
                      /\ \A k \in DOMAIN at.list : at.list[k].sel # None <=> k <= at.delegated

\* The handlers of a type, none of them twice.
Lists(t) == {at \in [list : Seq(HandlersOf(t)), delegated : Nat] :
               DelegatedFirst(at) /\ IsInjective(at.list)}
Tables == {table \in [EventTypes -> UNION {Lists(t) : t \in EventTypes}] :
             \A t \in EventTypes : table[t] \in Lists(t)}

\* The browser has the function of a node for the types that have handlers.
Wiring(events, handle, listeners) ==
  /\ \A n \in Nodes : handle[n] # None => handle[n][1] = n
  /\ \A n \in Nodes : \A t \in EventTypes :
       events[n][t].list # <<>> => handle[n] # None /\ <<n, t, handle[n]>> \in listeners
  /\ \A n, t, f : <<n, t, f>> \in listeners => events[n][t].list # <<>> /\ f = handle[n]

\* Pages with a tree.
Stores(parent, order, marks) ==
  {p \in [parent : {parent}, order : {order}, labels : {marks},
          events : [Nodes -> Tables],
          handle : [Nodes -> {None} \union (Nodes \X Nat)],
          listeners : SUBSET (Nodes \X EventTypes \X (Nodes \X Nat)),
          made : [Nodes -> Nat]] : Wiring(p.events, p.handle, p.listeners)}

-----------------------------------------------------------------------------
\* A handler that is added to those of a type.
With(at, h) == IF h.sel = None THEN [at EXCEPT !.list = Append(@, h)]
               ELSE [list |-> InsertAt(at.list, at.delegated + 1, h), delegated |-> at.delegated + 1]

\* A handler that was not there is added: delegated ones stay in front, counted.
LEMMA EntryAdded ==
  ASSUME NEW type, NEW at \in Lists(type), NEW h \in HandlersOf(type),
         \A k \in DOMAIN at.list : at.list[k] # h
  PROVE  /\ With(at, h) \in Lists(type) /\ With(at, h).list # <<>>
         /\ \A k \in DOMAIN With(at, h).list :
              With(at, h).list[k] = h \/ \E j \in DOMAIN at.list : With(at, h).list[k] = at.list[j]
<1> DEFINE s == at.list
           d == at.delegated
<1>1. /\ s \in Seq(HandlersOf(type)) /\ d \in Nat /\ at = [list |-> s, delegated |-> d] /\ d <= Len(s)
      /\ Len(s) \in Nat /\ DOMAIN s = 1 .. Len(s)
      /\ \A k \in 1 .. Len(s) : (s[k].sel # None <=> k <= d) /\ s[k] # h
      /\ \A i, j \in 1 .. Len(s) : s[i] = s[j] => i = j
  BY DEF Lists, DelegatedFirst, IsInjective
<1>2. With(at, h) = IF h.sel = None THEN [list |-> Append(s, h), delegated |-> d]
                    ELSE [list |-> InsertAt(s, d + 1, h), delegated |-> d + 1]
  <2>1. [at EXCEPT !.list = Append(@, h)] = [list |-> Append(s, h), delegated |-> d]
    <3>1. PICK x, y : x = s /\ y = d /\ at = [list |-> x, delegated |-> y]
      BY <1>1
    <3>2. PICK z : z = Append(at.list, h) /\ z = Append(x, h)
      BY ONLY <3>1
    <3>3. [at EXCEPT !.list = z] = [list |-> z, delegated |-> y]
      BY ONLY <3>1
    <3>4. [at EXCEPT !.list = Append(@, h)] = [at EXCEPT !.list = z]
      BY ONLY <3>2
    <3> QED
      BY ONLY <3>1, <3>2, <3>3, <3>4
  <2> QED
    BY <2>1 DEF With
<1> HIDE DEF s, d
<1>3. CASE h.sel = None
  <2> DEFINE u == Append(s, h)
  <2>1. /\ u \in Seq(HandlersOf(type)) /\ Len(u) = Len(s) + 1 /\ u[Len(s) + 1] = h
        /\ \A k \in 1 .. Len(s) : u[k] = s[k]
    BY <1>1
  <2>2. With(at, h) = [list |-> u, delegated |-> d]
    BY <1>2, <1>3
  <2> HIDE DEF u
  <2>3. DOMAIN u = 1 .. Len(s) + 1 /\ u # <<>>
    BY <1>1, <2>1
  <2>4. \A k \in 1 .. Len(s) + 1 : u[k].sel # None <=> k <= d
    BY <1>1, <1>3, <2>1
  <2>5. \A i, j \in 1 .. Len(s) + 1 : u[i] = u[j] => i = j
    <3>1. \A i \in 1 .. Len(s) + 1 : i = Len(s) + 1 \/ i \in 1 .. Len(s)
      BY <1>1
    <3> QED
      BY <1>1, <2>1, <3>1
  <2>6. [list |-> u, delegated |-> d] \in Lists(type)
    BY <1>1, <2>1, <2>3, <2>4, <2>5 DEF Lists, DelegatedFirst, IsInjective
  <2>7. \A k \in DOMAIN u : u[k] = h \/ \E j \in DOMAIN s : u[k] = s[j]
    BY <1>1, <2>1, <2>3
  <2> QED
    BY <2>2, <2>3, <2>6, <2>7 DEF s
<1>4. CASE h.sel # None
  <2> DEFINE u == InsertAt(s, d + 1, h)
  <2>1. /\ u \in Seq(HandlersOf(type)) /\ Len(u) = Len(s) + 1
        /\ \A k \in 1 .. Len(s) + 1 :
             u[k] = IF k < d + 1 THEN s[k] ELSE IF k = d + 1 THEN h ELSE s[k - 1]
    <3>1. d + 1 \in 1 .. Len(s) + 1
      BY <1>1
    <3>2. PICK i \in 1 .. Len(s) + 1 : i = d + 1
      BY <3>1
    <3>3. /\ InsertAt(s, i, h) \in Seq(HandlersOf(type)) /\ Len(InsertAt(s, i, h)) = Len(s) + 1
          /\ \A k \in 1 .. Len(s) + 1 :
               InsertAt(s, i, h)[k] = IF k < i THEN s[k] ELSE IF k = i THEN h ELSE s[k - 1]
      BY <1>1, Inserted
    <3> QED
      BY <3>2, <3>3
  <2>2. With(at, h) = [list |-> u, delegated |-> d + 1]
    BY <1>2, <1>4
  <2> HIDE DEF u
  <2>3. DOMAIN u = 1 .. Len(s) + 1 /\ u # <<>>
    BY <1>1, <2>1
  <2>4. ASSUME NEW k \in 1 .. Len(s) + 1, k # d + 1
        PROVE  \E m \in 1 .. Len(s) : u[k] = s[m] /\ m = IF k < d + 1 THEN k ELSE k - 1
    <3>1. (IF k < d + 1 THEN k ELSE k - 1) \in 1 .. Len(s)
      BY <1>1, <2>4
    <3> QED
      BY <1>1, <2>1, <2>4, <3>1
  <2>5. u[d + 1] = h /\ d + 1 \in 1 .. Len(s) + 1
    BY <1>1, <2>1
  <2>6. ASSUME NEW k \in 1 .. Len(s) + 1 PROVE u[k].sel # None <=> k <= d + 1
    <3>1. CASE k = d + 1
      BY <1>1, <1>4, <2>5, <3>1
    <3>2. CASE k # d + 1
      BY <1>1, <2>4, <3>2
    <3> QED
      BY <3>1, <3>2
  <2>7. ASSUME NEW i \in 1 .. Len(s) + 1, NEW j \in 1 .. Len(s) + 1, u[i] = u[j] PROVE i = j
    <3>1. CASE i = d + 1 \/ j = d + 1
      BY <1>1, <2>4, <2>5, <2>7, <3>1
    <3>2. CASE i # d + 1 /\ j # d + 1
      <4>1. PICK m \in 1 .. Len(s) : u[i] = s[m] /\ m = IF i < d + 1 THEN i ELSE i - 1
        BY <2>4, <3>2
      <4>2. PICK n \in 1 .. Len(s) : u[j] = s[n] /\ n = IF j < d + 1 THEN j ELSE j - 1
        BY <2>4, <3>2
      <4>3. m = n
        BY <1>1, <2>7, <4>1, <4>2
      <4> QED
        BY <1>1, <3>2, <4>1, <4>2, <4>3
    <3> QED
      BY <3>1, <3>2
  <2>8. [list |-> u, delegated |-> d + 1] \in Lists(type)
    <3>1. PICK y \in Nat : y = d + 1
      BY <1>1
    <3>2. y <= Len(u) /\ \A k \in DOMAIN u : u[k].sel # None <=> k <= y
      BY <1>1, <2>1, <2>3, <2>6, <3>1
    <3>3. IsInjective(u)
      BY <2>3, <2>7 DEF IsInjective
    <3>4. [list |-> u, delegated |-> y] \in Lists(type)
      BY <2>1, <3>2, <3>3 DEF Lists, DelegatedFirst
    <3> QED
      BY <3>1, <3>4
  <2>9. \A k \in DOMAIN u : u[k] = h \/ \E j \in DOMAIN s : u[k] = s[j]
    BY <1>1, <2>3, <2>4, <2>5
  <2> QED
    BY <2>2, <2>3, <2>8, <2>9 DEF s
<1> QED
  BY <1>3, <1>4

\* A handler that is removed from those of a type.
LEMMA EntryRemoved ==
  ASSUME NEW type, NEW at \in Lists(type), NEW j \in 1 .. Len(at.list)
  PROVE  Removed(at, j) \in Lists(type) /\ Len(Removed(at, j).list) = Len(at.list) - 1
<1> DEFINE s == at.list
           d == at.delegated
           u == RemoveAt(s, j)
           e == IF s[j].sel = None THEN d ELSE d - 1
<1>1. /\ s \in Seq(HandlersOf(type)) /\ d \in Nat /\ d <= Len(s)
      /\ Len(s) \in Nat /\ DOMAIN s = 1 .. Len(s)
      /\ \A k \in 1 .. Len(s) : s[k].sel # None <=> k <= d
      /\ \A i, k \in 1 .. Len(s) : s[i] = s[k] => i = k
  BY DEF Lists, DelegatedFirst, IsInjective
<1>2. Removed(at, j) = [list |-> u, delegated |-> e]
  BY DEF Removed
<1>3. j \in 1 .. Len(s)
  OBVIOUS
<1> HIDE DEF s, d
<1>4. /\ u \in Seq(HandlersOf(type)) /\ Len(u) = Len(s) - 1
      /\ \A k \in 1 .. Len(s) - 1 : u[k] = IF k < j THEN s[k] ELSE s[k + 1]
  BY <1>1, <1>3, TakenOut
<1>5. e \in Nat /\ e <= Len(s) - 1
  BY <1>1, <1>3
<1>6. DOMAIN u = 1 .. Len(s) - 1
  BY <1>4, LenProperties
<1>7. ASSUME NEW k \in 1 .. Len(s) - 1
      PROVE  \E m \in 1 .. Len(s) : u[k] = s[m] /\ m = IF k < j THEN k ELSE k + 1
  <2>1. (IF k < j THEN k ELSE k + 1) \in 1 .. Len(s)
    BY <1>1
  <2> QED
    BY <1>4, <2>1
<1>8. ASSUME NEW k \in 1 .. Len(s) - 1 PROVE u[k].sel # None <=> k <= e
  BY <1>1, <1>3, <1>7
<1>9. ASSUME NEW i \in 1 .. Len(s) - 1, NEW k \in 1 .. Len(s) - 1, u[i] = u[k] PROVE i = k
  <2>1. PICK m \in 1 .. Len(s) : u[i] = s[m] /\ m = IF i < j THEN i ELSE i + 1
    BY <1>7
  <2>2. PICK n \in 1 .. Len(s) : u[k] = s[n] /\ n = IF k < j THEN k ELSE k + 1
    BY <1>7
  <2>3. m = n
    BY <1>1, <1>9, <2>1, <2>2
  <2> QED
    BY <1>1, <2>1, <2>2, <2>3
<1> HIDE DEF u, e
<1>10. [list |-> u, delegated |-> e] \in Lists(type)
  BY <1>4, <1>5, <1>6, <1>8, <1>9 DEF Lists, DelegatedFirst, IsInjective
<1> QED
  BY <1>2, <1>4, <1>10 DEF s

\* What is kept of the handlers of a type.
LEMMA KeptFits ==
  ASSUME NEW type, NEW at \in Lists(type), NEW o
  PROVE  Kept(at, o) \in Lists(type) /\ (at.list = <<>> => Kept(at, o).list = <<>>)
<1> DEFINE n == Len(at.list)
           S == [k \in 0 .. n |-> {x \in Lists(type) : Len(x.list) >= n - k /\ Len(x.list) <= n}]
           step == [kx \in (1 .. n) \X Lists(type) |->
                      IF Wanted(at.list[n + 1 - kx[1]], o) THEN Removed(kx[2], n + 1 - kx[1]) ELSE kx[2]]
           Made(f) == f = [k \in 0 .. n |->
                          IF k = 0 THEN at
                          ELSE IF Wanted(at.list[n + 1 - k], o) THEN Removed(f[k - 1], n + 1 - k)
                               ELSE f[k - 1]]
<1>1. n \in Nat
  BY DEF Lists
<1>2. Kept(at, o) = (CHOOSE f : Made(f))[n]
  BY DEF Kept
<1> HIDE DEF n
<1>3. at \in S[0]
  BY <1>1 DEF n
<1>4. ASSUME NEW k \in 1 .. n, NEW x \in S[k - 1]
      PROVE  /\ step[<<k, x>>] \in S[k]
             /\ step[<<k, x>>] = IF Wanted(at.list[n + 1 - k], o) THEN Removed(x, n + 1 - k) ELSE x
  <2>1. k - 1 \in 0 .. n /\ k \in 0 .. n
    BY <1>1
  <2>2. x \in Lists(type) /\ Len(x.list) >= n - (k - 1) /\ Len(x.list) <= n /\ Len(x.list) \in Nat
    BY <2>1 DEF Lists
  <2>3. step[<<k, x>>] = IF Wanted(at.list[n + 1 - k], o) THEN Removed(x, n + 1 - k) ELSE x
    BY <2>2
  <2>4. n + 1 - k \in 1 .. Len(x.list)
    BY <1>1, <2>2
  <2>5. Removed(x, n + 1 - k) \in Lists(type) /\ Len(Removed(x, n + 1 - k).list) = Len(x.list) - 1
    BY <2>2, <2>4, EntryRemoved
  <2> HIDE DEF step
  <2>6. step[<<k, x>>] \in Lists(type) /\ Len(step[<<k, x>>].list) \in n - k .. n
    <3>1. Len(Removed(x, n + 1 - k).list) \in n - k .. n /\ Len(x.list) \in n - (k - 1) .. n
      BY <1>1, <2>2, <2>5
    <3>2. CASE Wanted(at.list[n + 1 - k], o)
      BY <2>3, <2>5, <3>1, <3>2
    <3>3. CASE ~Wanted(at.list[n + 1 - k], o)
      BY <1>1, <2>2, <2>3, <3>1, <3>3
    <3> QED
      BY <3>2, <3>3
  <2> QED
    BY <2>1, <2>3, <2>6
<1> HIDE DEF S, step
<1>5. PICK f : Stepwise(f, n, at, step) /\ \A k \in 0 .. n : f[k] \in S[k]
  <2>1. Leads(n, S, step)
    BY <1>4 DEF Leads
  <2> QED
    BY ONLY <1>1, <1>3, <2>1, Steps
<1>6. Made(f)
  <2>1. ASSUME NEW k \in 0 .. n
        PROVE  f[k] = IF k = 0 THEN at
                      ELSE IF Wanted(at.list[n + 1 - k], o) THEN Removed(f[k - 1], n + 1 - k)
                           ELSE f[k - 1]
    <3>1. f[k] = IF k = 0 THEN at ELSE step[<<k, f[k - 1]>>]
      BY <1>5 DEF Stepwise
    <3>2. CASE k # 0
      <4>1. k \in 1 .. n /\ k - 1 \in 0 .. n
        BY <1>1, <3>2
      <4>2. f[k - 1] \in S[k - 1]
        BY <1>5, <4>1
      <4> QED
        BY <1>4, <3>1, <4>1, <4>2
    <3> QED
      BY <3>1, <3>2
  <2> QED
    BY <1>5, <2>1 DEF Stepwise
<1> DEFINE g == CHOOSE y : Made(y)
<1>7. Made(g)
  <2> HIDE DEF Made
  <2> QED
    BY <1>6
<1> HIDE DEF g
<1> DEFINE P == {k \in 0 .. n : g[k] \in S[k]}
<1>8. 0 \in P
  <2>1. g[0] = at
    BY <1>1, <1>7, 0 \in 0 .. n
  <2> QED
    BY <1>1, <1>3, <2>1
<1>9. ASSUME NEW k \in 1 .. n, k - 1 \in P PROVE k \in P
  <2>1. k \in 0 .. n /\ k # 0 /\ g[k - 1] \in S[k - 1]
    BY <1>1, <1>9
  <2>2. g[k] = IF Wanted(at.list[n + 1 - k], o) THEN Removed(g[k - 1], n + 1 - k) ELSE g[k - 1]
    BY <1>7, <2>1
  <2>3. g[k] = step[<<k, g[k - 1]>>] /\ step[<<k, g[k - 1]>>] \in S[k]
    BY <1>4, <2>1, <2>2
  <2> QED
    BY <2>1, <2>3
<1>10. n \in P
  <2> HIDE DEF P
  <2>1. 0 .. n \subseteq P
    BY <1>1, <1>8, <1>9, StepsHold
  <2> QED
    BY <1>1, <2>1
<1>11. Kept(at, o) \in Lists(type) /\ Len(Kept(at, o).list) <= n
  BY <1>1, <1>2, <1>10 DEF g, S
<1>12. ASSUME at.list = <<>> PROVE Kept(at, o).list = <<>>
  <2>1. n = 0 /\ Kept(at, o).list \in Seq(HandlersOf(type))
    BY <1>11, <1>12 DEF n, Lists
  <2> QED
    BY <1>11, <2>1
<1> QED
  BY <1>11, <1>12

Handles == {None} \union (Nodes \X Nat)
Listeners == Nodes \X EventTypes \X (Nodes \X Nat)
Page(parent, order, marks, events, handle, listeners, made) ==
  [parent |-> parent, order |-> order, labels |-> marks, events |-> events,
   handle |-> handle, listeners |-> listeners, made |-> made]

\* A page that fits, by its fields.
LEMMA StoreFields ==
  ASSUME NEW a, NEW b, NEW c, NEW p \in Stores(a, b, c)
  PROVE  /\ p = Page(a, b, c, p.events, p.handle, p.listeners, p.made)
         /\ p.parent = a /\ p.order = b /\ p.labels = c
         /\ p.events \in [Nodes -> Tables]
         /\ p.handle \in [Nodes -> Handles]
         /\ p.listeners \in SUBSET Listeners
         /\ p.made \in [Nodes -> Nat]
         /\ Wiring(p.events, p.handle, p.listeners)
<1>1. p \in [parent : {a}, order : {b}, labels : {c},
             events : [Nodes -> Tables],
             handle : [Nodes -> Handles],
             listeners : SUBSET Listeners,
             made : [Nodes -> Nat]] /\ Wiring(p.events, p.handle, p.listeners)
  BY DEF Stores, Handles, Listeners
<1> QED
  BY <1>1 DEF Page

\* A page is made of its fields.
LEMMA StoreMade ==
  ASSUME NEW a, NEW b, NEW c, NEW events \in [Nodes -> Tables],
         NEW handle \in [Nodes -> Handles], NEW listeners \in SUBSET Listeners,
         NEW made \in [Nodes -> Nat],
         Wiring(events, handle, listeners)
  PROVE  Page(a, b, c, events, handle, listeners, made) \in Stores(a, b, c)
<1> DEFINE p == Page(a, b, c, events, handle, listeners, made)
<1>1. /\ p \in [parent : {a}, order : {b}, labels : {c},
             events : [Nodes -> Tables],
             handle : [Nodes -> Handles],
             listeners : SUBSET Listeners,
             made : [Nodes -> Nat]]
      /\ p.events = events /\ p.handle = handle /\ p.listeners = listeners
  BY DEF Page
<1> HIDE DEF p
<1>2. Wiring(p.events, p.handle, p.listeners)
  BY <1>1
<1>3. p \in Stores(a, b, c)
  BY <1>1, <1>2 DEF Stores, Handles, Listeners
<1> QED
  BY <1>3 DEF p

\* A list among the others of its node.
LEMMA TableChanged ==
  ASSUME NEW events \in [Nodes -> Tables], NEW node \in Nodes, NEW type \in EventTypes,
         NEW new \in Lists(type)
  PROVE  /\ [events EXCEPT ![node][type] = new] \in [Nodes -> Tables]
         /\ [events EXCEPT ![node][type] = new][node][type] = new
         /\ \A n \in Nodes, t \in EventTypes : <<n, t>> # <<node, type>> =>
              [events EXCEPT ![node][type] = new][n][t] = events[n][t]
<1> DEFINE table == [events[node] EXCEPT ![type] = new]
<1>1. events[node] \in Tables
  OBVIOUS
<1>2. table \in Tables /\ table[type] = new /\ \A t \in EventTypes : t # type => table[t] = events[node][t]
  BY <1>1 DEF Tables
<1>3. [events EXCEPT ![node][type] = new] = [events EXCEPT ![node] = table]
  OBVIOUS
<1> HIDE DEF table
<1> QED
  BY <1>2, <1>3

\* A handler that a node does not have; and the handlers of a page when a node may
\* have been given one.
Unheld(p, node, h) == \A k \in DOMAIN p.events[node][h.type].list : p.events[node][h.type].list[k] # h
Given(p, q, node, h) ==
  \A n \in Nodes, t \in EventTypes : \A k \in DOMAIN q.events[n][t].list :
    \/ \E j \in DOMAIN p.events[n][t].list : q.events[n][t].list[k] = p.events[n][t].list[j]
    \/ n = node /\ q.events[n][t].list[k] = h

\* A handler is added.
LEMMA AddFits ==
  ASSUME NEW a, NEW b, NEW c, NEW p \in Stores(a, b, c), NEW node \in Nodes, NEW h \in HandlerSet,
         Unheld(p, node, h)
  PROVE  /\ eventAdd(p, node, h) \in Stores(a, b, c)
         /\ Given(p, eventAdd(p, node, h), node, h)
<1> DEFINE old == p.events[node][h.type]
           handle == IF p.handle[node] = None THEN <<node, p.made[node] + 1>> ELSE p.handle[node]
           new == With(old, h)
           events == [p.events EXCEPT ![node][h.type] = new]
           made == [p.made EXCEPT ![node] = IF p.handle[node] = None THEN @ + 1 ELSE @]
           listeners == IF old.list # <<>> THEN p.listeners
                        ELSE p.listeners \union {<<node, h.type, handle>>}
           hs == [p.handle EXCEPT ![node] = handle]
<1>1. /\ p.events \in [Nodes -> Tables]
      /\ p.handle \in [Nodes -> Handles] /\ p.listeners \in SUBSET Listeners
      /\ p.made \in [Nodes -> Nat] /\ Wiring(p.events, p.handle, p.listeners)
      /\ p = Page(a, b, c, p.events, p.handle, p.listeners, p.made)
  BY StoreFields
<1>2. h.type \in EventTypes /\ h \in HandlersOf(h.type)
  BY EventsAssumption DEF HandlerSet, HandlersOf
<1>3. eventAdd(p, node, h) = Page(a, b, c, events, hs, listeners, made)
  <2>1. eventAdd(p, node, h) =
          [p EXCEPT !.events = events, !.handle = hs, !.made = made, !.listeners = listeners]
    BY DEF eventAdd, With
  <2>2. p \in [parent : {a}, order : {b}, labels : {c}, events : {p.events},
              handle : {p.handle}, listeners : {p.listeners}, made : {p.made}]
    BY <1>1 DEF Page
  <2> HIDE DEF events, hs, made, listeners
  <2> QED
    BY ONLY <2>1, <2>2 DEF Page
<1>4. /\ old \in Lists(h.type) /\ new \in Lists(h.type) /\ new.list # <<>>
      /\ \A k \in DOMAIN new.list : new.list[k] = h \/ \E j \in DOMAIN old.list : new.list[k] = old.list[j]
  <2>1. old \in Lists(h.type)
    BY <1>1, <1>2 DEF Tables
  <2>2. \A k \in DOMAIN old.list : old.list[k] # h
    BY DEF Unheld
  <2> HIDE DEF old
  <2> QED
    BY <1>2, <2>1, <2>2, EntryAdded
<1> HIDE DEF new
<1>5. handle \in Nodes \X Nat /\ handle # None /\ handle[1] = node
      /\ (p.handle[node] # None => handle = p.handle[node])
  BY <1>1, StoreAssumption DEF Wiring, Handles
<1>6. /\ events \in [Nodes -> Tables] /\ events[node][h.type] = new
      /\ \A n \in Nodes, t \in EventTypes : <<n, t>> # <<node, h.type>> => events[n][t] = p.events[n][t]
  BY <1>1, <1>2, <1>4, TableChanged
<1>7. made \in [Nodes -> Nat]
  BY <1>1
<1>8. /\ hs \in [Nodes -> Handles] /\ hs[node] = handle
      /\ \A n \in Nodes : n # node => hs[n] = p.handle[n]
  BY <1>1, <1>5 DEF Handles
<1> HIDE DEF handle, made, hs, events
<1>9. listeners \in SUBSET Listeners
  BY <1>1, <1>2, <1>5 DEF Listeners
<1>10. \A n \in Nodes : hs[n] # None => hs[n][1] = n
  BY <1>1, <1>5, <1>8 DEF Wiring
<1>11. ASSUME NEW n \in Nodes, NEW t \in EventTypes, events[n][t].list # <<>>
       PROVE  hs[n] # None /\ <<n, t, hs[n]>> \in listeners
  <2>1. CASE n = node /\ t = h.type
    <3>1. CASE old.list # <<>>
      <4>1. p.handle[node] # None /\ <<node, h.type, p.handle[node]>> \in p.listeners
        BY <1>1, <1>2, <3>1 DEF Wiring
      <4> QED
        BY <1>5, <1>8, <2>1, <3>1, <4>1
    <3>2. CASE old.list = <<>>
      BY <1>5, <1>8, <2>1, <3>2
    <3> QED
      BY <3>1, <3>2
  <2>2. CASE ~(n = node /\ t = h.type)
    <3>1. p.events[n][t].list # <<>>
      BY <1>6, <1>11, <2>2
    <3>2. p.handle[n] # None /\ <<n, t, p.handle[n]>> \in p.listeners
      BY <1>1, <3>1 DEF Wiring
    <3> QED
      BY <1>5, <1>8, <3>2
  <2> QED
    BY <2>1, <2>2
<1>12. ASSUME NEW n, NEW t, NEW f, <<n, t, f>> \in listeners
       PROVE  events[n][t].list # <<>> /\ f = hs[n]
  <2>1. n \in Nodes /\ t \in EventTypes
    BY <1>9, <1>12 DEF Listeners
  <2>2. CASE <<n, t, f>> \in p.listeners
    <3>1. p.events[n][t].list # <<>> /\ f = p.handle[n] /\ p.handle[n] # None
      BY <1>1, <2>1, <2>2 DEF Wiring
    <3> QED
      BY <1>4, <1>5, <1>6, <1>8, <2>1, <3>1
  <2>3. CASE <<n, t, f>> \notin p.listeners
    <3>1. n = node /\ t = h.type /\ f = handle
      BY <1>12, <2>3
    <3> QED
      BY <1>4, <1>6, <1>8, <3>1
  <2> QED
    BY <2>2, <2>3
<1> HIDE DEF listeners
<1>13. Wiring(events, hs, listeners)
  BY <1>10, <1>11, <1>12 DEF Wiring
<1>14. Page(a, b, c, events, hs, listeners, made) \in Stores(a, b, c)
  BY ONLY <1>6, <1>7, <1>8, <1>9, <1>13, StoreMade
<1>15. eventAdd(p, node, h) \in Stores(a, b, c) /\ eventAdd(p, node, h).events = events
  BY <1>3, <1>14 DEF Page
<1>16. ASSUME NEW n \in Nodes, NEW t \in EventTypes, NEW k \in DOMAIN events[n][t].list
       PROVE  \/ \E j \in DOMAIN p.events[n][t].list : events[n][t].list[k] = p.events[n][t].list[j]
              \/ n = node /\ events[n][t].list[k] = h
  <2>1. CASE <<n, t>> = <<node, h.type>>
    BY <1>4, <1>6, <2>1
  <2>2. CASE <<n, t>> # <<node, h.type>>
    BY <1>6, <2>2
  <2> QED
    BY <2>1, <2>2
<1>17. Given(p, eventAdd(p, node, h), node, h)
  BY <1>15, <1>16 DEF Given
<1> QED
  BY <1>15, <1>17

\* A page as a record whose fields are known.
LEMMA StoreRecord ==
  ASSUME NEW a, NEW b, NEW c, NEW p \in Stores(a, b, c)
  PROVE  p \in [parent : {a}, order : {b}, labels : {c}, events : {p.events},
                handle : {p.handle}, listeners : {p.listeners}, made : {p.made}]
  BY StoreFields DEF Page

\* No handlers fit every type.
LEMMA NoneFit ==
  /\ \A t : NoHandlers \in Lists(t)
  /\ NoHandlers.list = <<>> /\ NoHandlers.delegated = 0
  /\ [t \in EventTypes |-> NoHandlers] \in Tables
<1>1. \A t : <<>> \in Seq(HandlersOf(t)) /\ Len(<<>>) = 0 /\ DOMAIN <<>> = {}
  OBVIOUS
<1>2. NoHandlers.list = <<>> /\ NoHandlers.delegated = 0
  BY DEF NoHandlers
<1>3. \A t : NoHandlers \in Lists(t)
  BY <1>1 DEF NoHandlers, Lists, DelegatedFirst, IsInjective
<1>4. [t \in EventTypes |-> NoHandlers] \in Tables
  BY <1>3 DEF Tables
<1> QED
  BY <1>2, <1>3, <1>4

\* Handlers are removed.
LEMMA RemoveFits ==
  ASSUME NEW a, NEW b, NEW c, NEW p \in Stores(a, b, c), NEW node, NEW o
  PROVE  eventRemove(p, node, o) \in Stores(a, b, c)
<1> DEFINE kept == [t \in EventTypes |-> Kept(p.events[node][t], o)]
           emptied == {t \in EventTypes : kept[t].list = <<>> /\ p.events[node][t].list # <<>>}
           of == [t \in EventTypes |-> IF t \in emptied THEN NoHandlers ELSE kept[t]]
           nothing == [t \in EventTypes |-> NoHandlers]
           events == [p.events EXCEPT ![node] = of]
           listeners == p.listeners \ {<<node, t, p.handle[node]>> : t \in emptied}
           left == [p EXCEPT !.events = events, !.listeners = listeners]
           none == [p.events EXCEPT ![node] = nothing]
           hs == [p.handle EXCEPT ![node] = None]
           empty1 == \A t \in EventTypes : kept[t].list = <<>>
<1>1. /\ p.events \in [Nodes -> Tables]
      /\ p.handle \in [Nodes -> Handles] /\ p.listeners \in SUBSET Listeners
      /\ p.made \in [Nodes -> Nat] /\ Wiring(p.events, p.handle, p.listeners)
      /\ p = Page(a, b, c, p.events, p.handle, p.listeners, p.made)
  BY StoreFields
<1>2. eventRemove(p, node, o) = IF empty1 THEN Forgotten(left, node) ELSE left
  BY DEF eventRemove
<1>3. ASSUME node \in Nodes
      PROVE  /\ of \in Tables
             /\ \A t \in EventTypes : p.events[node][t].list = <<>> => kept[t].list = <<>>
  <2>1. \A t \in EventTypes : p.events[node][t] \in Lists(t)
    BY <1>1, <1>3 DEF Tables
  <2>2. \A t \in EventTypes : /\ Kept(p.events[node][t], o) \in Lists(t)
                              /\ p.events[node][t].list = <<>> => Kept(p.events[node][t], o).list = <<>>
    BY <2>1, KeptFits
  <2>3. /\ \A t \in EventTypes : kept[t] \in Lists(t)
        /\ \A t \in EventTypes : p.events[node][t].list = <<>> => kept[t].list = <<>>
    BY <2>2
  <2> HIDE DEF kept
  <2>4. of \in Tables
    <3> HIDE DEF emptied
    <3> QED
      BY <2>3, NoneFit DEF Tables
  <2> QED
    BY <2>3, <2>4
<1>4. /\ \A t \in EventTypes : of[t] = IF t \in emptied THEN NoHandlers ELSE kept[t]
      /\ \A t : t \in emptied <=> /\ t \in EventTypes /\ kept[t].list = <<>>
                                  /\ p.events[node][t].list # <<>>
      /\ nothing \in Tables /\ \A t \in EventTypes : nothing[t].list = <<>>
  <2>1. nothing \in Tables /\ \A t \in EventTypes : nothing[t].list = <<>>
    BY NoneFit
  <2> HIDE DEF nothing, kept
  <2> QED
    BY <2>1
<1>5. p \in [parent : {a}, order : {b}, labels : {c}, events : {p.events},
             handle : {p.handle}, listeners : {p.listeners}, made : {p.made}]
  BY StoreRecord
<1>6. left = Page(a, b, c, events, p.handle, listeners, p.made)
  <2> HIDE DEF events, listeners
  <2>1. left = [p EXCEPT !.events = events, !.listeners = listeners]
    OBVIOUS
  <2> HIDE DEF left
  <2> QED
    BY ONLY <1>5, <2>1 DEF Page
<1>7. Forgotten(left, node) = Page(a, b, c, none, hs, listeners, p.made)
  <2>1. [events EXCEPT ![node] = nothing] = none
    BY <1>1
  <2> HIDE DEF left, events, listeners
  <2>2. Forgotten(left, node) = [left EXCEPT !.handle[node] = None, !.events[node] = nothing]
    BY DEF Forgotten
  <2>3. left \in [parent : {a}, order : {b}, labels : {c}, events : {events},
             handle : {p.handle}, listeners : {listeners}, made : {p.made}]
    BY <1>6 DEF Page
  <2>4. Forgotten(left, node) = [left EXCEPT !.handle = hs, !.events = none]
    <3>1. left.handle = p.handle /\ left.events = events
      BY <2>3
    <3>2. [left EXCEPT !.handle[node] = None, !.events[node] = nothing]
            = [left EXCEPT !.handle = [left.handle EXCEPT ![node] = None],
                           !.events = [left.events EXCEPT ![node] = nothing]]
      OBVIOUS
    <3> QED
      BY <2>1, <2>2, <3>1, <3>2
  <2> HIDE DEF none, hs
  <2> QED
    BY ONLY <2>3, <2>4 DEF Page
<1>8. /\ events \in [Nodes -> Tables] /\ none \in [Nodes -> Tables]
      /\ \A n \in Nodes : n # node => events[n] = p.events[n] /\ none[n] = p.events[n]
      /\ node \in Nodes => events[node] = of /\ none[node] = nothing
  <2> HIDE DEF of, nothing
  <2> QED
    BY <1>1, <1>3, <1>4
<1>9. /\ hs \in [Nodes -> Handles] /\ \A n \in Nodes : n # node => hs[n] = p.handle[n]
      /\ node \in Nodes => hs[node] = None
  BY <1>1 DEF Handles
<1>10. /\ listeners \in SUBSET Listeners
       /\ \A n, t, f : <<n, t, f>> \in listeners <=>
            <<n, t, f>> \in p.listeners /\ ~(n = node /\ t \in emptied /\ f = p.handle[node])
  <2> HIDE DEF emptied
  <2> QED
    BY <1>1
<1> HIDE DEF kept, emptied, of, nothing, events, listeners, none, hs, left
<1>11. \A n, t, f : <<n, t, f>> \in p.listeners => n \in Nodes /\ t \in EventTypes
  BY <1>1 DEF Listeners
<1>12. CASE empty1
  <2>1. \A n \in Nodes : hs[n] # None => hs[n][1] = n
    BY <1>1, <1>9 DEF Wiring
  <2>2. ASSUME NEW n \in Nodes, NEW t \in EventTypes, none[n][t].list # <<>>
        PROVE  hs[n] # None /\ <<n, t, hs[n]>> \in listeners
    <3>1. n # node
      BY <1>4, <1>8, <2>2
    <3>2. p.handle[n] # None /\ <<n, t, p.handle[n]>> \in p.listeners
      BY <1>1, <1>8, <2>2, <3>1 DEF Wiring
    <3> QED
      BY <1>9, <1>10, <3>1, <3>2
  <2>3. ASSUME NEW n, NEW t, NEW f, <<n, t, f>> \in listeners
        PROVE  none[n][t].list # <<>> /\ f = hs[n]
    <3>1. <<n, t, f>> \in p.listeners /\ n \in Nodes /\ t \in EventTypes
      BY <1>10, <1>11, <2>3
    <3>2. p.events[n][t].list # <<>> /\ f = p.handle[n]
      BY <1>1, <3>1 DEF Wiring
    <3>3. n # node
      BY <1>4, <1>10, <1>12, <2>3, <3>1, <3>2
    <3> QED
      BY <1>8, <1>9, <3>1, <3>2, <3>3
  <2>4. Wiring(none, hs, listeners)
    BY <2>1, <2>2, <2>3 DEF Wiring
  <2>5. Page(a, b, c, none, hs, listeners, p.made) \in Stores(a, b, c)
    BY ONLY <1>1, <1>8, <1>9, <1>10, <2>4, StoreMade
  <2> QED
    BY <1>2, <1>7, <1>12, <2>5
<1>13. CASE ~empty1
  <2>1. ASSUME NEW n \in Nodes, NEW t \in EventTypes, events[n][t].list # <<>>
        PROVE  p.handle[n] # None /\ <<n, t, p.handle[n]>> \in listeners
    <3>1. CASE n # node
      <4>1. p.handle[n] # None /\ <<n, t, p.handle[n]>> \in p.listeners
        BY <1>1, <1>8, <2>1, <3>1 DEF Wiring
      <4> QED
        BY <1>10, <3>1, <4>1
    <3>2. CASE n = node
      <4>1. t \notin emptied /\ kept[t].list # <<>>
        BY <1>4, <1>8, <2>1, <3>2, NoneFit
      <4>2. p.events[n][t].list # <<>>
        BY <1>3, <3>2, <4>1
      <4>3. p.handle[n] # None /\ <<n, t, p.handle[n]>> \in p.listeners
        BY <1>1, <4>2 DEF Wiring
      <4> QED
        BY <1>10, <4>1, <4>3
    <3> QED
      BY <3>1, <3>2
  <2>2. ASSUME NEW n, NEW t, NEW f, <<n, t, f>> \in listeners
        PROVE  events[n][t].list # <<>> /\ f = p.handle[n]
    <3>1. <<n, t, f>> \in p.listeners /\ n \in Nodes /\ t \in EventTypes
      BY <1>10, <1>11, <2>2
    <3>2. p.events[n][t].list # <<>> /\ f = p.handle[n]
      BY <1>1, <3>1 DEF Wiring
    <3>3. CASE n # node
      BY <1>8, <3>1, <3>2, <3>3
    <3>4. CASE n = node
      <4>1. t \notin emptied
        BY <1>10, <2>2, <3>2, <3>4
      <4> QED
        BY <1>4, <1>8, <3>1, <3>2, <3>4, <4>1
    <3> QED
      BY <3>3, <3>4
  <2>3. \A n \in Nodes : p.handle[n] # None => p.handle[n][1] = n
    BY <1>1 DEF Wiring
  <2>4. Wiring(events, p.handle, listeners)
    BY <2>1, <2>2, <2>3 DEF Wiring
  <2>5. Page(a, b, c, events, p.handle, listeners, p.made) \in Stores(a, b, c)
    BY ONLY <1>1, <1>8, <1>9, <1>10, <2>4, StoreMade
  <2> QED
    BY <1>2, <1>6, <1>13, <2>5
<1> QED
  BY <1>12, <1>13

\* Elements are thrown away with their handlers.
LEMMA CleanFits ==
  ASSUME NEW a, NEW b, NEW c, NEW p \in Stores(a, b, c), NEW nodes
  PROVE  cleanData(p, nodes) \in Stores(a, b, c)
<1> DEFINE listeners == {l \in p.listeners : l[1] \notin nodes \/ l[3] # p.handle[l[1]]}
           hs == [n \in Nodes |-> IF n \in nodes THEN None ELSE p.handle[n]]
           nothing == [t \in EventTypes |-> NoHandlers]
           events == [n \in Nodes |-> IF n \in nodes THEN nothing ELSE p.events[n]]
<1>1. /\ p.events \in [Nodes -> Tables]
      /\ p.handle \in [Nodes -> Handles] /\ p.listeners \in SUBSET Listeners
      /\ p.made \in [Nodes -> Nat] /\ Wiring(p.events, p.handle, p.listeners)
  BY StoreFields
<1>2. p \in [parent : {a}, order : {b}, labels : {c}, events : {p.events},
             handle : {p.handle}, listeners : {p.listeners}, made : {p.made}]
  BY StoreRecord
<1>3. cleanData(p, nodes) = Page(a, b, c, events, hs, listeners, p.made)
  <2>1. cleanData(p, nodes) = [p EXCEPT !.listeners = listeners, !.handle = hs, !.events = events]
    BY DEF cleanData
  <2> HIDE DEF listeners, hs, events
  <2> QED
    BY ONLY <1>2, <2>1 DEF Page
<1>4. nothing \in Tables /\ \A t \in EventTypes : nothing[t].list = <<>>
  BY NoneFit
<1>5. hs \in [Nodes -> Handles] /\ \A n \in Nodes : hs[n] = IF n \in nodes THEN None ELSE p.handle[n]
  BY <1>1 DEF Handles
<1>6. /\ events \in [Nodes -> Tables]
      /\ \A n \in Nodes : events[n] = IF n \in nodes THEN nothing ELSE p.events[n]
  <2> HIDE DEF nothing
  <2> QED
    BY <1>1, <1>4
<1>7. /\ listeners \in SUBSET Listeners
      /\ \A n, t, f : <<n, t, f>> \in listeners <=>
           <<n, t, f>> \in p.listeners /\ (n \notin nodes \/ f # p.handle[n])
  BY <1>1
<1>8. \A n, t, f : <<n, t, f>> \in p.listeners => n \in Nodes /\ t \in EventTypes
  BY <1>1 DEF Listeners
<1> HIDE DEF listeners, hs, events, nothing
<1>9. \A n \in Nodes : hs[n] # None => hs[n][1] = n
  BY <1>1, <1>5 DEF Wiring
<1>10. ASSUME NEW n \in Nodes, NEW t \in EventTypes, events[n][t].list # <<>>
       PROVE  hs[n] # None /\ <<n, t, hs[n]>> \in listeners
  <2>1. n \notin nodes
    BY <1>4, <1>6, <1>10
  <2>2. p.handle[n] # None /\ <<n, t, p.handle[n]>> \in p.listeners
    BY <1>1, <1>6, <1>10, <2>1 DEF Wiring
  <2> QED
    BY <1>5, <1>7, <2>1, <2>2
<1>11. ASSUME NEW n, NEW t, NEW f, <<n, t, f>> \in listeners
       PROVE  events[n][t].list # <<>> /\ f = hs[n]
  <2>1. <<n, t, f>> \in p.listeners /\ n \in Nodes /\ t \in EventTypes
    BY <1>7, <1>8, <1>11
  <2>2. p.events[n][t].list # <<>> /\ f = p.handle[n]
    BY <1>1, <2>1 DEF Wiring
  <2>3. n \notin nodes
    BY <1>7, <1>11, <2>2
  <2> QED
    BY <1>5, <1>6, <2>1, <2>2, <2>3
<1>12. Wiring(events, hs, listeners)
  BY <1>9, <1>10, <1>11 DEF Wiring
<1>13. Page(a, b, c, events, hs, listeners, p.made) \in Stores(a, b, c)
  BY ONLY <1>1, <1>5, <1>6, <1>7, <1>12, StoreMade
<1> QED
  BY <1>3, <1>13

\* The tree changes, and nothing else.
LEMMA TreeFits ==
  ASSUME NEW a, NEW b, NEW c, NEW p \in Stores(a, b, c), NEW x
  PROVE  /\ [p EXCEPT !.parent = x] \in Stores(x, b, c)
         /\ [p EXCEPT !.order = x] \in Stores(a, x, c)
         /\ [p EXCEPT !.labels = x] \in Stores(a, b, x)
<1>1. /\ p.events \in [Nodes -> Tables]
      /\ p.handle \in [Nodes -> Handles] /\ p.listeners \in SUBSET Listeners
      /\ p.made \in [Nodes -> Nat] /\ Wiring(p.events, p.handle, p.listeners)
  BY StoreFields
<1>2. p \in [parent : {a}, order : {b}, labels : {c}, events : {p.events},
             handle : {p.handle}, listeners : {p.listeners}, made : {p.made}]
  BY StoreRecord
<1>3. \A u, v, w : Page(u, v, w, p.events, p.handle, p.listeners, p.made) \in Stores(u, v, w)
  BY ONLY <1>1, StoreMade
<1>4. [p EXCEPT !.parent = x] = Page(x, b, c, p.events, p.handle, p.listeners, p.made)
  BY ONLY <1>2 DEF Page
<1>5. [p EXCEPT !.order = x] = Page(a, x, c, p.events, p.handle, p.listeners, p.made)
  BY ONLY <1>2 DEF Page
<1>6. [p EXCEPT !.labels = x] = Page(a, b, x, p.events, p.handle, p.listeners, p.made)
  BY ONLY <1>2 DEF Page
<1> QED
  BY <1>3, <1>4, <1>5, <1>6

\* Bindings that may be made one after the other; and the handlers of a page when
\* some of them may have been made.
Addable(p, bs) ==
  /\ Len(bs) \in Nat
  /\ \A k \in 1 .. Len(bs) : /\ bs[k].node \in Nodes /\ bs[k].h \in HandlerSet
                             /\ Unheld(p, bs[k].node, bs[k].h)
  /\ \A j, k \in 1 .. Len(bs) : bs[j].node = bs[k].node /\ bs[j].h = bs[k].h => j = k
Filled(p, q, bs, k) ==
  \A m \in Nodes, t \in EventTypes : \A i \in DOMAIN q.events[m][t].list :
    \/ \E j \in DOMAIN p.events[m][t].list : q.events[m][t].list[i] = p.events[m][t].list[j]
    \/ \E j \in 1 .. k : bs[j].node = m /\ bs[j].h = q.events[m][t].list[i]

\* Handlers are added one after the other, none of them to a node that has it.
LEMMA AllAddFit ==
  ASSUME NEW a, NEW b, NEW c, NEW p \in Stores(a, b, c), NEW bs, Addable(p, bs)
  PROVE  AddedAll(p, bs) \in Stores(a, b, c) /\ Filled(p, AddedAll(p, bs), bs, Len(bs))
<1> DEFINE n == Len(bs)
           From(q, k) == Filled(p, q, bs, k)
           S == [k \in 0 .. n |-> {q \in Stores(a, b, c) : From(q, k)}]
           step == [kx \in (1 .. n) \X Stores(a, b, c) |->
                      eventAdd(kx[2], bs[kx[1]].node, bs[kx[1]].h)]
           Made(f) == f = [k \in 0 .. n |->
                          IF k = 0 THEN p ELSE eventAdd(f[k - 1], bs[k].node, bs[k].h)]
<1>1. AddedAll(p, bs) = (CHOOSE f : Made(f))[n]
  BY DEF AddedAll
<1>2. n \in Nat /\ p \in S[0]
  <2>1. n \in Nat
    BY DEF Addable
  <2>2. Filled(p, p, bs, 0)
    BY DEF Filled
  <2> QED
    BY <2>1, <2>2
<1>a. /\ \A k \in 1 .. n : bs[k].node \in Nodes /\ bs[k].h \in HandlerSet
      /\ \A k \in 1 .. n : Unheld(p, bs[k].node, bs[k].h)
      /\ \A j, k \in 1 .. n : bs[j].node = bs[k].node /\ bs[j].h = bs[k].h => j = k
  BY DEF Addable
<1> HIDE DEF n
<1>3. \A k \in 0 .. n : \A q : q \in S[k] <=> q \in Stores(a, b, c) /\ From(q, k)
  OBVIOUS
<1> HIDE DEF S
<1>4. ASSUME NEW k \in 1 .. n, NEW x \in S[k - 1]
      PROVE  /\ step[<<k, x>>] = eventAdd(x, bs[k].node, bs[k].h)
             /\ eventAdd(x, bs[k].node, bs[k].h) \in S[k]
  <2>1. bs[k].node \in Nodes /\ bs[k].h \in HandlerSet /\ bs[k].h.type \in EventTypes
    <3>1. bs[k].node \in Nodes /\ bs[k].h \in HandlerSet
      BY <1>a
    <3>2. \A h \in HandlerSet : h.type \in EventTypes
      BY EventsAssumption DEF HandlerSet
    <3> QED
      BY <3>1, <3>2
  <2>2. k \in 0 .. n /\ k - 1 \in 0 .. n /\ \A j \in 1 .. k - 1 : j \in 1 .. n /\ j # k /\ j \in 1 .. k
    BY <1>2
  <2>3. x \in Stores(a, b, c) /\ From(x, k - 1)
    BY <1>3, <2>2
  <2>4. Unheld(x, bs[k].node, bs[k].h)
    <3> SUFFICES ASSUME NEW i \in DOMAIN x.events[bs[k].node][bs[k].h.type].list,
                        x.events[bs[k].node][bs[k].h.type].list[i] = bs[k].h
                 PROVE  FALSE
      BY DEF Unheld
    <3>1. ~\E j \in DOMAIN p.events[bs[k].node][bs[k].h.type].list :
             bs[k].h = p.events[bs[k].node][bs[k].h.type].list[j]
      BY <1>a DEF Unheld
    <3>2. PICK j \in 1 .. k - 1 : bs[j].node = bs[k].node /\ bs[j].h = bs[k].h
      <4>1. PICK m \in Nodes, t \in EventTypes : m = bs[k].node /\ t = bs[k].h.type
        BY <2>1
      <4>2. \/ \E j \in DOMAIN p.events[m][t].list : x.events[m][t].list[i] = p.events[m][t].list[j]
            \/ \E j \in 1 .. k - 1 : bs[j].node = m /\ bs[j].h = x.events[m][t].list[i]
        <5>1. i \in DOMAIN x.events[m][t].list
          BY <4>1
        <5>2. From(x, k - 1)
          BY <2>3
        <5> QED
          BY ONLY <5>1, <5>2 DEF Filled
      <4> QED
        BY <3>1, <4>1, <4>2
    <3> QED
      BY <1>a, <2>2, <3>2
  <2> DEFINE q == eventAdd(x, bs[k].node, bs[k].h)
  <2>5. q \in Stores(a, b, c) /\ Given(x, q, bs[k].node, bs[k].h)
    BY ONLY <2>1, <2>3, <2>4, AddFits
  <2>6. step[<<k, x>>] = q
    BY <2>3
  <2> HIDE DEF q
  <2>7. From(q, k)
    BY <2>2, <2>3, <2>5, k \in 1 .. k DEF Given, Filled
  <2> QED
    BY <1>3, <2>2, <2>5, <2>6, <2>7 DEF q
<1> HIDE DEF step
<1>5. PICK f : Stepwise(f, n, p, step) /\ \A k \in 0 .. n : f[k] \in S[k]
  <2>1. Leads(n, S, step)
    BY <1>4 DEF Leads
  <2> QED
    BY ONLY <1>2, <2>1, Steps
<1>6. Made(f)
  <2>1. ASSUME NEW k \in 0 .. n
        PROVE  f[k] = IF k = 0 THEN p ELSE eventAdd(f[k - 1], bs[k].node, bs[k].h)
    <3>1. f[k] = IF k = 0 THEN p ELSE step[<<k, f[k - 1]>>]
      BY <1>5 DEF Stepwise
    <3>2. CASE k # 0
      <4>1. k \in 1 .. n /\ k - 1 \in 0 .. n
        BY <1>2, <3>2
      <4> QED
        BY <1>4, <1>5, <3>1, <4>1
    <3> QED
      BY <3>1, <3>2
  <2> QED
    BY <1>5, <2>1 DEF Stepwise
<1> DEFINE g == CHOOSE y : Made(y)
<1>7. Made(g)
  <2> HIDE DEF Made
  <2> QED
    BY <1>6
<1> HIDE DEF g
<1> DEFINE P == {k \in 0 .. n : g[k] \in S[k]}
<1>8. 0 \in P
  BY <1>2, <1>7, 0 \in 0 .. n
<1>9. ASSUME NEW k \in 1 .. n, k - 1 \in P PROVE k \in P
  <2>1. k \in 0 .. n /\ k # 0 /\ g[k - 1] \in S[k - 1]
    BY <1>2, <1>9
  <2>2. g[k] = eventAdd(g[k - 1], bs[k].node, bs[k].h)
    BY <1>7, <2>1
  <2> QED
    BY <1>4, <2>1, <2>2
<1>10. n \in P
  <2> HIDE DEF P
  <2>1. 0 .. n \subseteq P
    BY <1>2, <1>8, <1>9, StepsHold
  <2> QED
    BY <1>2, <2>1
<1>11. n \in 0 .. n /\ AddedAll(p, bs) \in S[n]
  BY <1>1, <1>2, <1>10 DEF g
<1>12. AddedAll(p, bs) \in Stores(a, b, c) /\ From(AddedAll(p, bs), n)
  BY <1>3, <1>11
<1> QED
  BY <1>12 DEF n

\* The types of events, one after the other.
LEMMA TypesInOrder ==
  /\ Len(SetToSeq(EventTypes)) \in Nat
  /\ \A k \in 1 .. Len(SetToSeq(EventTypes)) : SetToSeq(EventTypes)[k] \in EventTypes
  /\ \A j, k \in 1 .. Len(SetToSeq(EventTypes)) :
       SetToSeq(EventTypes)[j] = SetToSeq(EventTypes)[k] => j = k
<1> DEFINE n == Cardinality(EventTypes)
           s == SetToSeq(EventTypes)
<1>1. n \in Nat /\ IsFiniteSet(EventTypes)
  BY FS_CardinalityType, StoreAssumption
<1>2. PICK f : f \in Bijection(1 .. n, EventTypes)
  BY <1>1, FS_NatBijection, FS_CountingElements DEF ExistsBijection
<1>3. f \in [1 .. n -> EventTypes] /\ IsInjective(f)
  BY <1>2 DEF Bijection, Injection, IsInjective
<1>4. s = CHOOSE x \in [1 .. n -> EventTypes] : IsInjective(x)
  BY DEF SetToSeq
<1>5. s \in [1 .. n -> EventTypes] /\ IsInjective(s)
  BY <1>3, <1>4
<1> HIDE DEF n, s
<1>6. Len(s) = n
  BY <1>1, <1>5
<1>7. /\ Len(s) \in Nat /\ \A k \in 1 .. Len(s) : s[k] \in EventTypes
      /\ \A j, k \in 1 .. Len(s) : s[j] = s[k] => j = k
  BY <1>1, <1>5, <1>6 DEF IsInjective
<1> QED
  BY <1>7 DEF s

\* A node without handlers.
Bare(p, node) == \A t \in EventTypes : p.events[node][t].list = <<>>

\* The handlers of a node are copied to another that has none.
LEMMA CopyFits ==
  ASSUME NEW a, NEW b, NEW c, NEW p \in Stores(a, b, c), NEW from \in Nodes, NEW to \in Nodes,
         Bare(p, to)
  PROVE  Copied(p, from, to) \in Stores(a, b, c)
<1> DEFINE types == SetToSeq(EventTypes)
           n == Len(types)
           list(t) == p.events[from][t].list
           Of(t) == [i \in DOMAIN list(t) |-> [node |-> to, h |-> list(t)[i]]]
           Clear(q, k) == \A t \in EventTypes :
                            (\A j \in 1 .. k : types[j] # t) => q.events[to][t].list = <<>>
           S == [k \in 0 .. n |-> {q \in Stores(a, b, c) : Clear(q, k)}]
           step == [kx \in (1 .. n) \X Stores(a, b, c) |-> AddedAll(kx[2], Of(types[kx[1]]))]
           Made(f) == f = [k \in 0 .. n |-> IF k = 0 THEN p ELSE AddedAll(f[k - 1], Of(types[k]))]
<1>1. Copied(p, from, to) = (CHOOSE f : Made(f))[n]
  BY DEF Copied
<1>2. /\ n \in Nat /\ \A k \in 1 .. n : types[k] \in EventTypes
      /\ \A j, k \in 1 .. n : types[j] = types[k] => j = k
  BY TypesInOrder
<1> HIDE DEF types, n
<1>3. \A k \in 0 .. n : \A q : q \in S[k] <=> q \in Stores(a, b, c) /\ Clear(q, k)
  OBVIOUS
<1>b. p \in S[0]
  <2>1. Clear(p, 0)
    BY DEF Bare
  <2> QED
    BY <1>2, <1>3, <2>1
<1> HIDE DEF S
<1>4. ASSUME NEW k \in 1 .. n, NEW x \in S[k - 1]
      PROVE  step[<<k, x>>] = AddedAll(x, Of(types[k])) /\ AddedAll(x, Of(types[k])) \in S[k]
  <2>1. types[k] \in EventTypes
    BY <1>2
  <2>2. list(types[k]) \in Seq(HandlersOf(types[k])) /\ IsInjective(list(types[k]))
    <3>1. p.events \in [Nodes -> Tables]
      BY StoreFields
    <3>2. p.events[from][types[k]] \in Lists(types[k])
      BY <2>1, <3>1 DEF Tables
    <3> QED
      BY <3>2 DEF Lists
  <2>3. k \in 0 .. n /\ k - 1 \in 0 .. n /\ \A j \in 1 .. k - 1 : j \in 1 .. n /\ j # k /\ j \in 1 .. k
    BY <1>2
  <2>4. x \in Stores(a, b, c) /\ Clear(x, k - 1)
    BY <1>3, <2>3
  <2> DEFINE bs == Of(types[k])
  <2>5. PICK l : l = list(types[k])
    OBVIOUS
  <2>6. bs = [i \in DOMAIN l |-> [node |-> to, h |-> l[i]]]
    BY <2>5
  <2>7. /\ DOMAIN l = 1 .. Len(l) /\ Len(l) \in Nat /\ IsInjective(l)
        /\ \A i \in 1 .. Len(l) : l[i] \in HandlersOf(types[k])
    <3>1. l \in Seq(HandlersOf(types[k])) /\ IsInjective(l)
      BY <2>2, <2>5
    <3> QED
      BY ONLY <3>1
  <2>8. step[<<k, x>>] = AddedAll(x, bs)
    BY <2>4
  <2> HIDE DEF bs, step
  <2>9. /\ Len(bs) = Len(l)
        /\ \A i \in 1 .. Len(l) : bs[i].node = to /\ bs[i].h = l[i]
    BY <2>6, <2>7
  <2>10. ASSUME NEW i \in 1 .. Len(l)
         PROVE  l[i] \in HandlerSet /\ l[i].type = types[k] /\ Unheld(x, to, l[i])
    <3>1. l[i] \in HandlerSet /\ l[i].type = types[k]
      BY <2>7 DEF HandlersOf
    <3>2. \A j \in 1 .. k - 1 : types[j] # types[k]
      BY <1>2, <2>3
    <3>3. x.events[to][types[k]].list = <<>>
      BY <2>1, <2>4, <3>2
    <3> QED
      BY <3>1, <3>3 DEF Unheld
  <2>11. Addable(x, bs)
    BY <2>7, <2>9, <2>10 DEF Addable, IsInjective
  <2> DEFINE q == AddedAll(x, bs)
  <2>12. q \in Stores(a, b, c) /\ Filled(x, q, bs, Len(bs))
    BY ONLY <2>4, <2>11, AllAddFit
  <2> HIDE DEF q
  <2>13. ASSUME NEW t \in EventTypes, \A j \in 1 .. k : types[j] # t
         PROVE  q.events[to][t].list = <<>>
    <3>1. x.events[to][t].list = <<>>
      BY <2>3, <2>4, <2>13
    <3>2. q.events[to][t].list \in Seq(HandlersOf(t))
      <4>1. q.events \in [Nodes -> Tables]
        BY <2>12, StoreFields
      <4> QED
        BY <4>1 DEF Tables, Lists
    <3>3. ASSUME NEW i \in DOMAIN q.events[to][t].list PROVE FALSE
      <4>1. PICK j \in 1 .. Len(bs) : bs[j].node = to /\ bs[j].h = q.events[to][t].list[i]
        BY <2>12, <3>1, <3>3 DEF Filled
      <4>2. q.events[to][t].list[i] = l[j] /\ l[j].type = types[k]
        BY <2>9, <2>10, <4>1
      <4>3. q.events[to][t].list[i].type = t
        BY <3>2 DEF HandlersOf
      <4>4. types[k] # t
        BY <2>13, k \in 1 .. k
      <4> QED
        BY <4>2, <4>3, <4>4
    <3>4. PICK u \in Seq(HandlersOf(t)) : u = q.events[to][t].list
      BY <3>2
    <3>5. \A i \in DOMAIN u : FALSE
      BY <3>3, <3>4
    <3>6. u = <<>>
      <4>1. Len(u) \in Nat /\ DOMAIN u = 1 .. Len(u)
        OBVIOUS
      <4>2. Len(u) = 0
        BY <3>5, <4>1
      <4> QED
        BY <4>2
    <3> QED
      BY <3>4, <3>6
  <2>14. q \in S[k]
    BY <1>3, <2>3, <2>12, <2>13
  <2> QED
    BY <2>8, <2>14 DEF bs, q
<1> HIDE DEF step, Of
<1>5. PICK f : Stepwise(f, n, p, step) /\ \A k \in 0 .. n : f[k] \in S[k]
  <2>1. Leads(n, S, step)
    BY <1>4 DEF Leads
  <2> QED
    BY ONLY <1>2, <1>b, <2>1, Steps
<1>6. Made(f)
  <2>1. ASSUME NEW k \in 0 .. n
        PROVE  f[k] = IF k = 0 THEN p ELSE AddedAll(f[k - 1], Of(types[k]))
    <3>1. f[k] = IF k = 0 THEN p ELSE step[<<k, f[k - 1]>>]
      BY <1>5 DEF Stepwise
    <3>2. CASE k # 0
      <4>1. k \in 1 .. n /\ k - 1 \in 0 .. n
        BY <1>2, <3>2
      <4> QED
        BY <1>4, <1>5, <3>1, <4>1
    <3> QED
      BY <3>1, <3>2
  <2> QED
    BY <1>5, <2>1 DEF Stepwise
<1> DEFINE g == CHOOSE y : Made(y)
<1>7. Made(g)
  <2> HIDE DEF Made
  <2> QED
    BY <1>6
<1> HIDE DEF g
<1> DEFINE P == {k \in 0 .. n : g[k] \in S[k]}
<1>8. 0 \in P
  BY <1>2, <1>b, <1>7, 0 \in 0 .. n
<1>9. ASSUME NEW k \in 1 .. n, k - 1 \in P PROVE k \in P
  <2>1. k \in 0 .. n /\ k # 0 /\ g[k - 1] \in S[k - 1]
    BY <1>2, <1>9
  <2>2. g[k] = AddedAll(g[k - 1], Of(types[k]))
    BY <1>7, <2>1
  <2> QED
    BY <1>4, <2>1, <2>2
<1>10. n \in P
  <2> HIDE DEF P
  <2>1. 0 .. n \subseteq P
    BY <1>2, <1>8, <1>9, StepsHold
  <2> QED
    BY <1>2, <2>1
<1>11. n \in 0 .. n /\ Copied(p, from, to) \in S[n]
  BY <1>1, <1>2, <1>10 DEF g
<1> QED
  BY <1>3, <1>11

-----------------------------------------------------------------------------
(***************************************************************************)
(* The forest of elements.                                                 *)
(***************************************************************************)
Holders == Elements \union {Document}

\* No element is around itself: some numbering rises towards the roots.
Rises(parent, rank) ==
  \A x \in Elements : parent[x] \in Elements => rank[parent[x]] > rank[x]
Forest(parent) ==
  /\ parent \in [Elements -> Elements \union {Document, None}]
  /\ \E R \in Nat : \E rank \in [Elements -> 0 .. R] : Rises(parent, rank)

\* How far a node is from the top, by such a numbering.
LEMMA Depths ==
  ASSUME NEW t, Forest(t.parent)
  PROVE  \E D \in [Holders -> Nat] : \E N \in Nat :
           /\ \A y \in Holders : D[y] < N
           /\ \A y \in Holders : Parent(t, y) # None =>
                Parent(t, y) \in Holders /\ D[Parent(t, y)] < D[y]
<1>0. PICK R \in Nat : \E rank \in [Elements -> 0 .. R] : Rises(t.parent, rank)
  BY DEF Forest
<1>1. PICK rank \in [Elements -> 0 .. R] : Rises(t.parent, rank)
  BY <1>0
<1> DEFINE D == [y \in Holders |-> IF y = Document THEN 0 ELSE R + 1 - rank[y]]
<1>2. Document \notin Elements /\ None \notin Holders
  BY StoreAssumption DEF Nodes, Holders
<1>3. ASSUME NEW y \in Elements
      PROVE  y # Document /\ y \in Holders /\ D[y] = R + 1 - rank[y] /\ D[y] \in 1 .. R + 1
  <2>1. rank[y] \in 0 .. R
    BY <1>1
  <2>2. y # Document /\ y \in Holders
    BY <1>2 DEF Holders
  <2>3. R + 1 - rank[y] \in 1 .. R + 1
    BY <2>1
  <2> QED
    BY <2>2, <2>3
<1>4. D[Document] = 0 /\ Document \in Holders
  BY DEF Holders
<1>5. D \in [Holders -> Nat] /\ \A y \in Holders : D[y] < R + 2
  <2>1. \A y \in Holders : y = Document \/ y \in Elements
    BY DEF Holders
  <2>2. \A y \in Holders : D[y] \in Nat /\ D[y] < R + 2
    BY <1>3, <1>4, <2>1
  <2>3. D = [y \in Holders |-> D[y]]
    OBVIOUS
  <2> HIDE DEF D
  <2> QED
    BY <2>2, <2>3
<1>6. ASSUME NEW y \in Holders, Parent(t, y) # None
      PROVE  Parent(t, y) \in Holders /\ D[Parent(t, y)] < D[y]
  <2>1. y \in Elements /\ Parent(t, y) = t.parent[y]
    BY <1>6 DEF Parent, Holders
  <2>2. t.parent[y] \in Elements \union {Document}
    BY <1>6, <2>1 DEF Forest
  <2>3. CASE t.parent[y] = Document
    <3>1. D[y] \in 1 .. R + 1 /\ D[Document] = 0 /\ Document \in Holders
      BY <1>3, <1>4, <2>1
    <3> HIDE DEF D
    <3> QED
      BY <1>0, <2>1, <2>3, <3>1
  <2>4. CASE t.parent[y] \in Elements
    <3>1. rank[t.parent[y]] > rank[y] /\ rank[y] \in 0 .. R /\ rank[t.parent[y]] \in 0 .. R
      BY <1>1, <2>1, <2>4 DEF Rises
    <3>2. D[t.parent[y]] = R + 1 - rank[t.parent[y]] /\ D[y] = R + 1 - rank[y]
      BY <1>3, <2>1, <2>4
    <3> HIDE DEF D
    <3> QED
      BY <2>1, <2>2, <3>1, <3>2 DEF Holders
  <2> QED
    BY <2>2, <2>3, <2>4
<1> HIDE DEF D
<1> QED
  BY <1>5, <1>6

\* The nodes around a node are its parent and the nodes around that.
Above(t, y, g) == IF Parent(t, y) = None THEN <<>> ELSE <<Parent(t, y)>> \o g[Parent(t, y)]

\* The nodes around an element are its parent and those around that.
LEMMA AroundUnfolds ==
  ASSUME NEW t, Forest(t.parent), NEW x \in Holders
  PROVE  Around(t, x) = IF Parent(t, x) = None THEN <<>>
                        ELSE <<Parent(t, x)>> \o Around(t, Parent(t, x))
<1>1. PICK D \in [Holders -> Nat], N \in Nat :
        /\ \A y \in Holders : D[y] < N
        /\ \A y \in Holders : Parent(t, y) # None =>
             Parent(t, y) \in Holders /\ D[Parent(t, y)] < D[y]
  BY Depths
<1> DEFINE Good(g, k) == \A y \in Holders : D[y] < k => g[y] = Above(t, y, g)
           Q == {k \in Nat : \E g \in [Holders -> Seq(Holders)] : Good(g, k)}
<1>2. 0 \in Q
  <2>1. [y \in Holders |-> <<>>] \in [Holders -> Seq(Holders)]
    OBVIOUS
  <2>2. \A y \in Holders : ~(D[y] < 0)
    BY <1>1
  <2> QED
    BY <2>1, <2>2
<1>3. ASSUME NEW k \in Nat, k \in Q PROVE k + 1 \in Q
  <2>1. PICK g \in [Holders -> Seq(Holders)] : Good(g, k)
    BY <1>3
  <2> DEFINE h == [y \in Holders |-> IF D[y] = k THEN Above(t, y, g) ELSE g[y]]
  <2>2. ASSUME NEW y \in Holders PROVE Above(t, y, g) \in Seq(Holders)
    <3>1. CASE Parent(t, y) = None
      BY <3>1 DEF Above
    <3>2. CASE Parent(t, y) # None
      <4>1. Parent(t, y) \in Holders
        BY <1>1, <3>2
      <4>2. <<Parent(t, y)>> \in Seq(Holders) /\ g[Parent(t, y)] \in Seq(Holders)
        BY <4>1
      <4> QED
        BY <3>2, <4>2 DEF Above
    <3> QED
      BY <3>1, <3>2
  <2>3. h \in [Holders -> Seq(Holders)] /\ \A y \in Holders : h[y] = IF D[y] = k THEN Above(t, y, g) ELSE g[y]
    BY <2>2
  <2> HIDE DEF h
  <2>4. ASSUME NEW y \in Holders, D[y] < k + 1 PROVE h[y] = Above(t, y, h)
    <3>1. Above(t, y, h) = Above(t, y, g)
      <4>1. CASE Parent(t, y) = None
        BY <4>1 DEF Above
      <4>2. CASE Parent(t, y) # None
        <5>1. Parent(t, y) \in Holders /\ D[Parent(t, y)] < D[y]
          BY <1>1, <4>2
        <5>2. D[Parent(t, y)] # k
          BY <2>4, <5>1
        <5> QED
          BY <2>3, <5>1, <5>2 DEF Above
      <4> QED
        BY <4>1, <4>2
    <3>2. D[y] # k => g[y] = Above(t, y, g)
      BY <2>1, <2>4
    <3> QED
      BY <2>3, <3>1, <3>2
  <2>5. Good(h, k + 1) /\ k + 1 \in Nat
    BY <2>4
  <2> HIDE DEF Good
  <2> QED
    BY <2>3, <2>5
<1>4. N \in Q
  <2> HIDE DEF Q
  <2>1. Nat \subseteq Q
    BY <1>2, <1>3, NumbersByInduction
  <2> QED
    BY <2>1
<1> DEFINE Made(g) == g = [y \in Holders |-> Above(t, y, g)]
<1>5. \E g : Made(g)
  <2>1. PICK g \in [Holders -> Seq(Holders)] : Good(g, N)
    BY <1>4
  <2>2. \A y \in Holders : g[y] = Above(t, y, g)
    BY <1>1, <2>1
  <2>3. g = [y \in Holders |-> g[y]]
    OBVIOUS
  <2> QED
    BY <2>2, <2>3
<1> DEFINE a == CHOOSE g : Made(g)
<1>6. Made(a)
  <2> HIDE DEF Made
  <2> QED
    BY <1>5
<1>7. \A z : Around(t, z) = a[z]
  <2>1. DOMAIN t.parent \union {Document} = Holders
    BY DEF Forest, Holders
  <2> QED
    BY <2>1 DEF Around, Above
<1> HIDE DEF a
<1>8. a[x] = Above(t, x, a)
  BY <1>6
<1> QED
  BY <1>7, <1>8 DEF Above

\* They are nodes of the page, each once, and all of them are nearer to the top.
LEMMA AroundsApart ==
  ASSUME NEW t, Forest(t.parent), NEW D \in [Holders -> Nat],
         \A y \in Holders : Parent(t, y) # None =>
           Parent(t, y) \in Holders /\ D[Parent(t, y)] < D[y]
  PROVE  \A y \in Holders : /\ Around(t, y) \in Seq(Holders) /\ IsInjective(Around(t, y))
                           /\ \A i \in 1 .. Len(Around(t, y)) : D[Around(t, y)[i]] < D[y]
<1> DEFINE Fine(y) == /\ Around(t, y) \in Seq(Holders) /\ IsInjective(Around(t, y))
                      /\ \A i \in 1 .. Len(Around(t, y)) : D[Around(t, y)[i]] < D[y]
           Q == {k \in Nat : \A y \in Holders : D[y] < k => Fine(y)}
<1>1. 0 \in Q
  <2>1. \A y \in Holders : ~(D[y] < 0)
    OBVIOUS
  <2> QED
    BY <2>1
<1>2. ASSUME NEW k \in Nat, k \in Q PROVE k + 1 \in Q
  <2>1. ASSUME NEW y \in Holders, D[y] < k + 1 PROVE Fine(y)
    <3>1. CASE Parent(t, y) = None
      <4>1. Around(t, y) = <<>>
        BY <3>1, AroundUnfolds
      <4>2. <<>> \in Seq(Holders) /\ IsInjective(<<>>) /\ Len(<<>>) = 0
        BY DEF IsInjective
      <4> QED
        BY <4>1, <4>2
    <3>2. CASE Parent(t, y) # None
      <4>1. PICK z \in Holders : z = Parent(t, y) /\ D[z] < D[y] /\ D[z] \in Nat /\ D[y] \in Nat
        BY <3>2
      <4>2. PICK s : s = Around(t, z)
        OBVIOUS
      <4>3. /\ s \in Seq(Holders) /\ IsInjective(s)
            /\ \A i \in 1 .. Len(s) : D[s[i]] < D[z]
        <5>1. D[z] < k
          BY <2>1, <4>1
        <5>2. Fine(z)
          BY <1>2, <5>1
        <5> QED
          BY <4>2, <5>2
      <4> DEFINE u == <<z>> \o s
      <4>4. Around(t, y) = u
        BY <3>2, <4>1, <4>2, AroundUnfolds
      <4>5. /\ u \in Seq(Holders) /\ Len(u) = Len(s) + 1 /\ Len(s) \in Nat
            /\ u[1] = z /\ \A i \in 2 .. Len(s) + 1 : u[i] = s[i - 1]
        BY ONLY <4>3, z \in Holders
      <4> HIDE DEF u
      <4>6. ASSUME NEW i \in 1 .. Len(u)
            PROVE  u[i] \in Holders /\ D[u[i]] < D[y] /\ (i # 1 => i - 1 \in 1 .. Len(s) /\ u[i] = s[i - 1] /\ D[u[i]] < D[z])
        <5>0. u[i] \in Holders /\ D[u[i]] \in Nat
          BY <4>5
        <5>1. CASE i = 1
          BY <4>1, <4>5, <5>0, <5>1
        <5>2. CASE i # 1
          <6>1. i - 1 \in 1 .. Len(s) /\ i \in 2 .. Len(s) + 1
            BY <4>5, <5>2
          <6> QED
            BY <4>1, <4>3, <4>5, <5>0, <6>1
        <5> QED
          BY <5>1, <5>2
      <4>7. IsInjective(u)
        <5>1. DOMAIN u = 1 .. Len(u) /\ DOMAIN s = 1 .. Len(s)
          BY <4>3, <4>5
        <5>2. ASSUME NEW i \in 1 .. Len(u), NEW j \in 1 .. Len(u), u[i] = u[j] PROVE i = j
          <6>1. CASE i = 1 \/ j = 1
            <7>1. ~(D[z] < D[z])
              BY <4>1
            <7>2. \A m \in 1 .. Len(u) : m # 1 => u[m] # z
              BY <4>6, <7>1
            <7> QED
              BY <4>5, <5>2, <6>1, <7>2
          <6>2. CASE i # 1 /\ j # 1
            <7>1. i - 1 = j - 1
              BY <4>3, <4>6, <5>1, <5>2, <6>2 DEF IsInjective
            <7> QED
              BY <7>1
          <6> QED
            BY <6>1, <6>2
        <5> QED
          BY <5>1, <5>2 DEF IsInjective
      <4> QED
        BY <4>4, <4>5, <4>6, <4>7
    <3> QED
      BY <3>1, <3>2
  <2> HIDE DEF Fine
  <2> QED
    BY <2>1
<1>3. Nat \subseteq Q
  <2> HIDE DEF Q
  <2> QED
    BY <1>1, <1>2, NumbersByInduction
<1>4. ASSUME NEW y \in Holders PROVE Fine(y)
  <2>1. D[y] + 1 \in Nat /\ D[y] < D[y] + 1
    OBVIOUS
  <2> HIDE DEF Fine
  <2> QED
    BY <1>3, <2>1
<1> QED
  BY <1>4

\* A node and those around it, each once.
LEMMA LineageFits ==
  ASSUME NEW p, Forest(p.parent), NEW x \in Holders
  PROVE  /\ Lineage(p, x) \in Seq(Holders) /\ IsInjective(Lineage(p, x))
         /\ Len(Lineage(p, x)) \in Nat /\ DOMAIN Lineage(p, x) = 1 .. Len(Lineage(p, x))
         /\ 1 \in 1 .. Len(Lineage(p, x)) /\ Lineage(p, x)[1] = x
<1>1. PICK D \in [Holders -> Nat] :
        \A y \in Holders : Parent(p, y) # None =>
          Parent(p, y) \in Holders /\ D[Parent(p, y)] < D[y]
  BY Depths
<1>2. PICK s : s = Around(p, x)
  OBVIOUS
<1>3. s \in Seq(Holders) /\ IsInjective(s) /\ \A i \in 1 .. Len(s) : D[s[i]] < D[x]
  BY <1>1, <1>2, AroundsApart
<1> DEFINE u == <<x>> \o s
<1>4. Lineage(p, x) = u
  BY <1>2 DEF Lineage
<1>5. /\ u \in Seq(Holders) /\ Len(u) = Len(s) + 1 /\ Len(s) \in Nat
      /\ u[1] = x /\ \A i \in 2 .. Len(s) + 1 : u[i] = s[i - 1]
  BY ONLY <1>3, x \in Holders
<1> HIDE DEF u
<1>6. DOMAIN u = 1 .. Len(u) /\ DOMAIN s = 1 .. Len(s)
  BY <1>3, <1>5
<1>7. ASSUME NEW i \in 1 .. Len(u), i # 1
      PROVE  i - 1 \in 1 .. Len(s) /\ u[i] = s[i - 1] /\ u[i] # x
  <2>1. i - 1 \in 1 .. Len(s) /\ i \in 2 .. Len(s) + 1
    BY <1>5, <1>7
  <2>2. ~(D[x] < D[x])
    BY <1>1
  <2> QED
    BY <1>3, <1>5, <2>1, <2>2
<1>8. IsInjective(u)
  <2>1. ASSUME NEW i \in 1 .. Len(u), NEW j \in 1 .. Len(u), u[i] = u[j] PROVE i = j
    <3>1. CASE i = 1 \/ j = 1
      BY <1>5, <1>7, <2>1, <3>1
    <3>2. CASE i # 1 /\ j # 1
      <4>1. i - 1 = j - 1
        BY <1>3, <1>6, <1>7, <2>1, <3>2 DEF IsInjective
      <4> QED
        BY <4>1
    <3> QED
      BY <3>1, <3>2
  <2> QED
    BY <1>6, <2>1 DEF IsInjective
<1> QED
  BY <1>4, <1>5, <1>6, <1>8

\* Who is there: the node, or who is there with its parent.
LEMMA LineageUnfolds ==
  ASSUME NEW p, Forest(p.parent), NEW x \in Holders, NEW e
  PROVE  Contains(Lineage(p, x), e) <=>
           \/ e = x
           \/ Parent(p, x) # None /\ Contains(Lineage(p, Parent(p, x)), e)
<1>1. CASE Parent(p, x) = None
  <2>1. Lineage(p, x) = <<x>> \o <<>>
    BY <1>1, AroundUnfolds DEF Lineage
  <2>2. Len(<<x>> \o <<>>) = 1 /\ (<<x>> \o <<>>)[1] = x
    OBVIOUS
  <2> QED
    BY <1>1, <2>1, <2>2 DEF Contains
<1>2. CASE Parent(p, x) # None
  <2>1. Parent(p, x) \in Holders
    BY <1>2, Depths
  <2>2. PICK s : s = Lineage(p, Parent(p, x)) /\ s \in Seq(Holders)
    BY <2>1, LineageFits
  <2>3. Lineage(p, x) = <<x>> \o s
    BY <1>2, <2>2, AroundUnfolds DEF Lineage
  <2> DEFINE u == <<x>> \o s
  <2>4. /\ Len(u) = Len(s) + 1 /\ Len(s) \in Nat
        /\ u[1] = x /\ \A i \in 1 .. Len(s) : u[i + 1] = s[i]
    BY ONLY <2>2, x \in Holders
  <2> HIDE DEF u
  <2>5. ASSUME Contains(u, e) PROVE e = x \/ Contains(s, e)
    <3>1. PICK i \in 1 .. Len(u) : u[i] = e
      BY <2>5 DEF Contains
    <3>2. CASE i # 1
      <4>1. PICK j \in 1 .. Len(s) : j + 1 = i
        <5>1. i - 1 \in 1 .. Len(s) /\ (i - 1) + 1 = i
          BY <2>4, <3>2
        <5> QED
          BY <5>1
      <4> QED
        BY <2>4, <3>1, <4>1 DEF Contains
    <3> QED
      BY <2>4, <3>1, <3>2
  <2>6. ASSUME e = x PROVE Contains(u, e)
    BY <2>4, <2>6, 1 \in 1 .. Len(u) DEF Contains
  <2>7. ASSUME Contains(s, e) PROVE Contains(u, e)
    <3>1. PICK j \in 1 .. Len(s) : s[j] = e
      BY <2>7 DEF Contains
    <3>2. j + 1 \in 1 .. Len(u)
      BY <2>4
    <3> QED
      BY <2>4, <3>1, <3>2 DEF Contains
  <2> QED
    BY <1>2, <2>2, <2>3, <2>5, <2>6, <2>7 DEF u
<1> QED
  BY <1>1, <1>2

\* The path of an event: nodes, each once.
LEMMA PathFits ==
  ASSUME NEW p, Forest(p.parent), NEW x \in Holders
  PROVE  Path(p, x) \in Seq(Nodes) /\ IsInjective(Path(p, x))
<1>1. PICK u : u = Lineage(p, x) /\ u \in Seq(Holders) /\ IsInjective(u)
  BY LineageFits
<1>2. Holders \subseteq Nodes /\ Window \in Nodes /\ Window \notin Holders
  BY StoreAssumption DEF Holders, Nodes
<1>3. u \in Seq(Nodes) /\ DOMAIN u = 1 .. Len(u) /\ Len(u) \in Nat
  BY <1>1, <1>2
<1> DEFINE v == Append(u, Window)
<1>4. /\ v \in Seq(Nodes) /\ Len(v) = Len(u) + 1 /\ DOMAIN v = 1 .. Len(u) + 1
      /\ v[Len(u) + 1] = Window /\ \A i \in 1 .. Len(u) : v[i] = u[i]
  BY <1>2, <1>3
<1> HIDE DEF v
<1>5. IsInjective(v)
  <2>1. \A i \in 1 .. Len(u) + 1 : i \in 1 .. Len(u) \/ i = Len(u) + 1
    BY <1>3
  <2>2. \A i \in 1 .. Len(u) : u[i] \in Holders
    BY <1>1, <1>3
  <2> QED
    BY <1>1, <1>2, <1>3, <1>4, <2>1, <2>2 DEF IsInjective
<1>6. Path(p, x) = IF Contains(u, Document) THEN v ELSE u
  BY <1>1 DEF Path, v
<1> QED
  BY <1>1, <1>3, <1>4, <1>5, <1>6

-----------------------------------------------------------------------------
\* Elements are taken from their parents.
LEMMA PrunedForest ==
  ASSUME NEW parent, Forest(parent), NEW other \in [Elements -> Elements \union {Document, None}],
         \A x \in Elements : other[x] = parent[x] \/ other[x] \notin Elements
  PROVE  Forest(other)
<1>1. PICK R \in Nat : \E rank \in [Elements -> 0 .. R] : Rises(parent, rank)
  BY DEF Forest
<1>2. PICK rank \in [Elements -> 0 .. R] : Rises(parent, rank)
  BY <1>1
<1>3. Rises(other, rank)
  BY <1>2 DEF Rises
<1> QED
  BY <1>3 DEF Forest

\* An element, with those inside it, is put elsewhere.
LEMMA PlacedForest ==
  ASSUME NEW parent, Forest(parent), NEW e \in Elements, NEW target \in Holders,
         NEW I \in SUBSET Elements, e \in I, target \notin I,
         \A x \in Elements : parent[x] \in I => x \in I,
         \A x \in I : x # e => parent[x] \in I
  PROVE  Forest([parent EXCEPT ![e] = target])
<1>1. PICK R \in Nat : \E rank \in [Elements -> 0 .. R] : Rises(parent, rank)
  BY DEF Forest
<1>2. PICK rank \in [Elements -> 0 .. R] : Rises(parent, rank)
  BY <1>1
<1>3. parent \in [Elements -> Elements \union {Document, None}]
  BY DEF Forest
<1> DEFINE other == [parent EXCEPT ![e] = target]
           N == R + R + 1
           height == [x \in Elements |-> IF x \in I THEN rank[x] ELSE R + 1 + rank[x]]
<1>4. /\ other \in [Elements -> Elements \union {Document, None}]
      /\ other[e] = target /\ \A x \in Elements : x # e => other[x] = parent[x]
  BY <1>3 DEF Holders
<1>5. \A x \in Elements : /\ rank[x] \in 0 .. R
                          /\ height[x] = IF x \in I THEN rank[x] ELSE R + 1 + rank[x]
  BY <1>2
<1>6. N \in Nat /\ height \in [Elements -> 0 .. N]
  <2>1. \A x \in Elements : height[x] \in 0 .. N
    <3> HIDE DEF height
    <3> QED
      BY <1>1, <1>5
  <2> QED
    BY <1>1, <2>1
<1> HIDE DEF other, height, N
<1>7. ASSUME NEW x \in Elements, other[x] \in Elements PROVE height[other[x]] > height[x]
  <2>1. CASE x = e
    <3>1. target \in Elements /\ height[target] = R + 1 + rank[target] /\ height[e] = rank[e]
      BY <1>4, <1>5, <1>7, <2>1
    <3>2. rank[target] \in 0 .. R /\ rank[e] \in 0 .. R
      BY <1>5, <3>1
    <3> QED
      BY <1>1, <1>4, <2>1, <3>1, <3>2
  <2>2. CASE x # e
    <3>1. PICK y \in Elements : y = other[x] /\ y = parent[x]
      BY <1>4, <1>7, <2>2
    <3>2. rank[y] > rank[x] /\ rank[y] \in 0 .. R /\ rank[x] \in 0 .. R
      BY <1>2, <1>5, <3>1 DEF Rises
    <3>3. x \in I <=> y \in I
      BY <2>2, <3>1
    <3> QED
      BY <1>1, <1>5, <3>1, <3>2, <3>3
  <2> QED
    BY <2>1, <2>2
<1>8. Rises(other, height)
  BY <1>7 DEF Rises
<1>9. Forest(other)
  BY <1>4, <1>6, <1>8 DEF Forest
<1> QED
  BY <1>9 DEF other

\* What is inside an element goes with it.
LEMMA InsideGoesAlong ==
  ASSUME NEW p, Forest(p.parent), NEW e \in Elements
  PROVE  /\ e \in getAll(p, e)
         /\ \A x \in Elements : p.parent[x] \in getAll(p, e) => x \in getAll(p, e)
         /\ \A x \in getAll(p, e) : x # e => p.parent[x] \in getAll(p, e)
<1>0. Elements \subseteq Holders /\ None \notin Holders /\ Document \notin Elements
  BY StoreAssumption DEF Holders, Nodes
<1>1. \A x : x \in getAll(p, e) <=> x \in Elements /\ Contains(Lineage(p, x), e)
  BY DEF getAll
<1>2. e \in getAll(p, e)
  BY <1>0, <1>1, LineageUnfolds
<1>3. \A x \in Elements : Parent(p, x) = p.parent[x]
  BY <1>0 DEF Parent
<1>4. ASSUME NEW x \in Elements, p.parent[x] \in getAll(p, e) PROVE x \in getAll(p, e)
  <2>1. p.parent[x] # None /\ Contains(Lineage(p, p.parent[x]), e)
    BY <1>0, <1>1, <1>4
  <2> QED
    BY <1>0, <1>1, <1>3, <2>1, LineageUnfolds
<1>5. ASSUME NEW x \in getAll(p, e), x # e PROVE p.parent[x] \in getAll(p, e)
  <2>1. x \in Elements /\ Contains(Lineage(p, x), e)
    BY <1>1
  <2>2. p.parent[x] # None /\ Contains(Lineage(p, p.parent[x]), e)
    BY <1>0, <1>3, <1>5, <2>1, LineageUnfolds
  <2>3. p.parent[x] \in Holders
    BY <2>1, <2>2 DEF Forest, Holders
  <2>4. p.parent[x] # Document
    <3>1. Parent(p, Document) = None /\ Document \in Holders
      BY DEF Parent, Holders
    <3>2. ~Contains(Lineage(p, Document), e)
      BY <1>0, <3>1, LineageUnfolds
    <3> QED
      BY <2>2, <3>2
  <2> QED
    BY <1>1, <2>2, <2>3, <2>4 DEF Holders
<1> QED
  BY <1>2, <1>4, <1>5

-----------------------------------------------------------------------------
(***************************************************************************)
(* What scripts do to the page.                                            *)
(***************************************************************************)
\* A page whose handlers fit and whose elements are a forest; another with the
\* same tree and the same handlers, as far as they matter.
Fits(p) == \E a, b, c : p \in Stores(a, b, c)
PageSound(p) == Fits(p) /\ Forest(p.parent)
Remade(p, q) == Fits(q) /\ q.parent = p.parent

\* What the page's scripts do to it leaves it fitting.
LEMMA OperationsFit ==
  ASSUME NEW p, Fits(p)
  PROVE  /\ \A node \in Nodes, h \in HandlerSet : Unheld(p, node, h) => Remade(p, eventAdd(p, node, h))
         /\ \A node, o : Remade(p, eventRemove(p, node, o))
         /\ \A nodes : Remade(p, cleanData(p, nodes))
         /\ \A from, to \in Nodes : Bare(p, to) => Remade(p, Copied(p, from, to))
<1>1. PICK a, b, c : p \in Stores(a, b, c)
  BY DEF Fits
<1>2. ASSUME NEW q \in Stores(a, b, c) PROVE Remade(p, q)
  <2>1. p.parent = a /\ q.parent = a
    BY <1>1, StoreFields
  <2> QED
    BY <2>1 DEF Remade, Fits
<1>3. ASSUME NEW node \in Nodes, NEW h \in HandlerSet, Unheld(p, node, h)
      PROVE  Remade(p, eventAdd(p, node, h))
  <2>1. eventAdd(p, node, h) \in Stores(a, b, c)
    BY ONLY <1>1, <1>3, AddFits
  <2> QED
    BY <1>2, <2>1
<1>4. ASSUME NEW node, NEW o PROVE Remade(p, eventRemove(p, node, o))
  BY <1>1, <1>2, RemoveFits
<1>5. ASSUME NEW nodes PROVE Remade(p, cleanData(p, nodes))
  BY <1>1, <1>2, CleanFits
<1>6. ASSUME NEW from \in Nodes, NEW to \in Nodes, Bare(p, to) PROVE Remade(p, Copied(p, from, to))
  <2>1. Copied(p, from, to) \in Stores(a, b, c)
    BY ONLY <1>1, <1>6, CopyFits
  <2> QED
    BY <1>2, <2>1
<1> QED
  BY <1>3, <1>4, <1>5, <1>6

\* So does a change of the tree.
LEMMA TreeChangesFit ==
  ASSUME NEW p, Fits(p), NEW v
  PROVE  /\ /\ Fits([p EXCEPT !.parent = v]) /\ [p EXCEPT !.parent = v].parent = v
            /\ [p EXCEPT !.parent = v].events = p.events
         /\ /\ Remade(p, [p EXCEPT !.order = v]) /\ [p EXCEPT !.order = v].events = p.events
         /\ /\ Remade(p, [p EXCEPT !.labels = v]) /\ [p EXCEPT !.labels = v].events = p.events
<1>1. PICK a, b, c : p \in Stores(a, b, c)
  BY DEF Fits
<1>2. /\ Fits([p EXCEPT !.parent = v]) /\ Fits([p EXCEPT !.order = v]) /\ Fits([p EXCEPT !.labels = v])
  BY <1>1, TreeFits DEF Fits
<1>3. p \in [parent : {a}, order : {b}, labels : {c}, events : {p.events},
             handle : {p.handle}, listeners : {p.listeners}, made : {p.made}]
  BY <1>1, StoreRecord
<1>4. /\ [p EXCEPT !.parent = v].parent = v /\ [p EXCEPT !.parent = v].events = p.events
      /\ [p EXCEPT !.order = v].parent = p.parent /\ [p EXCEPT !.order = v].events = p.events
      /\ [p EXCEPT !.labels = v].parent = p.parent /\ [p EXCEPT !.labels = v].events = p.events
  BY ONLY <1>3
<1> QED
  BY <1>2, <1>4 DEF Remade

\* An element taken out of the tree keeps its handlers, and the tree a forest.
LEMMA TakenFits ==
  ASSUME NEW p, PageSound(p), NEW e \in Elements
  PROVE  /\ PageSound(Taken(p, e)) /\ Taken(p, e).events = p.events
         /\ Taken(p, e).parent = [p.parent EXCEPT ![e] = None]
<1>1. PICK v : v = [p.parent EXCEPT ![e] = None] /\ Taken(p, e) = [p EXCEPT !.parent = v]
  BY DEF Taken
<1>2. Fits(Taken(p, e)) /\ Taken(p, e).events = p.events /\ Taken(p, e).parent = v
  <2>1. Fits(p)
    BY DEF PageSound
  <2>2. /\ Fits([p EXCEPT !.parent = v]) /\ [p EXCEPT !.parent = v].parent = v
        /\ [p EXCEPT !.parent = v].events = p.events
    BY ONLY <2>1, TreeChangesFit
  <2> QED
    BY ONLY <1>1, <2>2
<1>3. Forest(v)
  <2>1. p.parent \in [Elements -> Elements \union {Document, None}] /\ None \notin Elements
    BY StoreAssumption DEF PageSound, Forest, Nodes
  <2>2. /\ v \in [Elements -> Elements \union {Document, None}]
        /\ \A x \in Elements : v[x] = p.parent[x] \/ v[x] \notin Elements
    BY <1>1, <2>1
  <2> QED
    BY ONLY <2>2, PageSound(p), PrunedForest DEF PageSound
<1> QED
  BY <1>1, <1>2, <1>3 DEF PageSound

\* What classes and attributes there are concerns no handler.
LEMMA LabelledFits ==
  ASSUME NEW p, PageSound(p), NEW elems, NEW old, NEW new
  PROVE  PageSound(Labelled(p, elems, old, new))
<1>1. PICK v : Labelled(p, elems, old, new) = [p EXCEPT !.labels = v]
  BY DEF Labelled
<1>2. Remade(p, [p EXCEPT !.labels = v])
  BY TreeChangesFit DEF PageSound
<1> QED
  BY <1>1, <1>2 DEF PageSound, Remade

\* toggleClass() and attr() leave the page fitting,
LEMMA RestyledFits ==
  ASSUME NEW p, PageSound(p), NEW e, NEW classes, NEW name, NEW value
  PROVE  PageSound(toggleClass(p, e, classes)) /\ PageSound(attr(p, {e}, name, value))
<1>1. PageSound(toggleClass(p, e, classes))
  BY LabelledFits DEF toggleClass, addClass, removeClass
<1>2. PageSound(attr(p, {e}, name, value))
  BY LabelledFits DEF attr, removeAttr
<1> QED
  BY <1>1, <1>2

\* remove() and empty(), with what they clean up,
LEMMA RemovesFit ==
  ASSUME NEW p, PageSound(p), NEW e \in Elements
  PROVE  PageSound(remove(p, e)) /\ PageSound(empty(p, e))
<1>1. \A nodes : Remade(p, cleanData(p, nodes))
  BY OperationsFit DEF PageSound
<1>2. PageSound(remove(p, e))
  <2>1. PageSound(cleanData(p, getAll(p, e)))
    BY <1>1 DEF Remade, PageSound
  <2> QED
    BY <2>1, TakenFits DEF remove
<1>3. PICK q, v : /\ Remade(p, q) /\ empty(p, e) = [q EXCEPT !.parent = v]
                  /\ v = [x \in Elements |-> IF q.parent[x] = e THEN None ELSE q.parent[x]]
  BY <1>1 DEF empty
<1>4. Forest(v)
  <2>1. p.parent \in [Elements -> Elements \union {Document, None}] /\ None \notin Elements
    BY StoreAssumption DEF PageSound, Forest, Nodes
  <2>2. /\ v \in [Elements -> Elements \union {Document, None}]
        /\ \A x \in Elements : v[x] = p.parent[x] \/ v[x] \notin Elements
    BY <1>3, <2>1 DEF Remade
  <2> QED
    BY ONLY <2>2, PageSound(p), PrunedForest DEF PageSound
<1>5. Fits([q EXCEPT !.parent = v]) /\ [q EXCEPT !.parent = v].parent = v
  <2>1. Fits(q)
    BY <1>3 DEF Remade
  <2> QED
    BY ONLY <2>1, TreeChangesFit
<1> QED
  BY <1>2, <1>3, <1>4, <1>5 DEF PageSound

\* An element is put elsewhere.
LEMMA PlacedFits ==
  ASSUME NEW p, Fits(p), NEW e, NEW target
  PROVE  /\ Fits(Placed(p, e, target)) /\ Placed(p, e, target).parent = [p.parent EXCEPT ![e] = target]
<1>1. PICK v : Placed(p, e, target) = [p EXCEPT !.parent[e] = target, !.order = v]
  BY DEF Placed
<1>2. Placed(p, e, target) = [[p EXCEPT !.parent[e] = target] EXCEPT !.order = v]
  BY <1>1
<1>3. PICK w : w = [p.parent EXCEPT ![e] = target] /\ [p EXCEPT !.parent[e] = target] = [p EXCEPT !.parent = w]
  OBVIOUS
<1>4. PICK q : q = [p EXCEPT !.parent[e] = target] /\ Fits(q) /\ q.parent = w
  <2>1. Fits([p EXCEPT !.parent = w]) /\ [p EXCEPT !.parent = w].parent = w
    BY ONLY Fits(p), TreeChangesFit
  <2> QED
    BY ONLY <1>3, <2>1
<1>5. Remade(q, [q EXCEPT !.order = v])
  BY <1>4, TreeChangesFit
<1> QED
  BY <1>2, <1>3, <1>4, <1>5 DEF Remade

\* clone(), into an element that is unused,
LEMMA CloneFits ==
  ASSUME NEW p, PageSound(p), NEW e \in Elements, NEW copy \in Elements, Bare(p, copy)
  PROVE  PageSound(clone(p, e, copy)) /\ clone(p, e, copy).parent = p.parent
<1>1. e \in Nodes /\ copy \in Nodes
  BY DEF Nodes
<1>2. PICK q : q = [p EXCEPT !.labels[copy] = p.labels[e]] /\ clone(p, e, copy) = Copied(q, e, copy)
  BY DEF clone, cloneCopyEvent
<1>3. Remade(p, q) /\ Bare(q, copy)
  <2>1. PICK v : q = [p EXCEPT !.labels = v]
    BY <1>2
  <2>2. Remade(p, q) /\ q.events = p.events
    BY ONLY <2>1, PageSound(p), TreeChangesFit DEF PageSound
  <2> QED
    BY <2>2 DEF Bare
<1>4. Remade(q, Copied(q, e, copy))
  BY ONLY <1>1, <1>3, OperationsFit DEF Remade
<1> QED
  BY <1>2, <1>3, <1>4 DEF Remade, PageSound

\* An element without others inside is put elsewhere.
LEMMA AlonePlaced ==
  ASSUME NEW p, PageSound(p), NEW e \in Elements, NEW target \in Holders,
         target # e, \A x \in Elements : p.parent[x] # e
  PROVE  PageSound(Placed(p, e, target))
<1>1. {e} \in SUBSET Elements
  OBVIOUS
<1>2. Forest([p.parent EXCEPT ![e] = target])
  BY <1>1, PlacedForest DEF PageSound
<1> QED
  BY <1>2, PlacedFits DEF PageSound

\* and append(), to one node or two, that are not within what is appended.
LEMMA AppendFits ==
  ASSUME NEW p, PageSound(p), NEW e \in Elements, NEW copy \in Elements, NEW targets,
         NEW n \in Nat, n = Len(targets), n \in 1 .. 2,
         \A i \in 1 .. n : targets[i] \in Holders \ getAll(p, e),
         n # 1 => /\ Bare(p, copy) /\ getAll(p, e) = {e} /\ copy # e
                  /\ \A x \in Elements : p.parent[x] # copy
                  /\ \A i \in 1 .. n : targets[i] # copy
  PROVE  PageSound(append(p, e, targets, copy))
<1>0. e \in getAll(p, e) /\ getAll(p, e) \in SUBSET Elements
  BY InsideGoesAlong DEF PageSound, getAll
<1>1. CASE n = 1
  <2>1. targets[1] \in Holders /\ targets[1] \notin getAll(p, e)
    BY <1>1
  <2>2. Forest([p.parent EXCEPT ![e] = targets[1]])
    BY <1>0, <2>1, PlacedForest, InsideGoesAlong DEF PageSound
  <2>3. PageSound(Placed(p, e, targets[1]))
    <3>1. /\ Fits(Placed(p, e, targets[1]))
          /\ Placed(p, e, targets[1]).parent = [p.parent EXCEPT ![e] = targets[1]]
      BY <2>1, PlacedFits DEF PageSound
    <3> QED
      BY ONLY <2>2, <3>1 DEF PageSound
  <2>4. append(p, e, targets, copy) = Placed(p, e, targets[1])
    BY <1>1 DEF append
  <2> QED
    BY <2>3, <2>4
<1>2. CASE n # 1
  <2>1. /\ targets[1] \in Holders /\ targets[2] \in Holders
        /\ targets[1] # e /\ targets[2] # e /\ targets[1] # copy
    BY <1>0, <1>2
  <2>2. \A x \in Elements : p.parent[x] # e
    <3>1. \A x \in Elements : p.parent[x] = e => x = e
      BY <1>0, <1>2, InsideGoesAlong DEF PageSound
    <3>2. p.parent[e] # e
      <4>1. PICK R \in Nat : \E rank \in [Elements -> 0 .. R] : Rises(p.parent, rank)
        BY DEF PageSound, Forest
      <4>2. PICK rank \in [Elements -> 0 .. R] : Rises(p.parent, rank)
        BY <4>1
      <4>3. rank[e] \in 0 .. R /\ ~(rank[e] > rank[e])
        BY <4>1
      <4> QED
        BY <4>2, <4>3 DEF Rises
    <3> QED
      BY <3>1, <3>2
  <2>3. PICK q : q = clone(Taken(p, e), e, copy)
    OBVIOUS
  <2>4. PageSound(q) /\ q.parent = [p.parent EXCEPT ![e] = None]
    <3>1. /\ PageSound(Taken(p, e)) /\ Bare(Taken(p, e), copy)
          /\ Taken(p, e).parent = [p.parent EXCEPT ![e] = None]
      BY <1>2, TakenFits DEF Bare
    <3> QED
      BY <2>3, <3>1, CloneFits
  <2>5. /\ p.parent \in [Elements -> Elements \union {Document, None}] /\ None \notin Elements
    BY StoreAssumption DEF PageSound, Forest, Nodes
  <2>6. \A x \in Elements : q.parent[x] # copy /\ q.parent[x] # e
    BY <1>2, <2>2, <2>4, <2>5
  <2>7. PageSound(Placed(q, copy, targets[1]))
    BY <2>1, <2>4, <2>6, AlonePlaced
  <2>8. PICK r : /\ r = Placed(q, copy, targets[1]) /\ PageSound(r)
                 /\ r.parent = [q.parent EXCEPT ![copy] = targets[1]]
    <3>1. Fits(q)
      BY <2>4 DEF PageSound
    <3>2. Placed(q, copy, targets[1]).parent = [q.parent EXCEPT ![copy] = targets[1]]
      <4>1. PICK g : g = targets[1]
        OBVIOUS
      <4>2. Placed(q, copy, g).parent = [q.parent EXCEPT ![copy] = g]
        BY ONLY <3>1, PlacedFits
      <4> QED
        BY ONLY <4>1, <4>2
    <3> QED
      BY ONLY <2>7, <3>2
  <2>9. \A x \in Elements : r.parent[x] # e
    BY <2>1, <2>4, <2>5, <2>6, <2>8
  <2>10. PageSound(Placed(r, e, targets[2]))
    BY <2>1, <2>8, <2>9, AlonePlaced
  <2> QED
    BY <1>2, <2>3, <2>8, <2>10 DEF append
<1> QED
  BY <1>1, <1>2

\* The page as it is when its scripts have bound the first handlers fits.
LEMMA FirstPageFits == PageInit => PageSound(page)
<1> SUFFICES ASSUME PageInit PROVE PageSound(page)
  OBVIOUS
<1> DEFINE events == [n \in Nodes |-> [t \in EventTypes |-> NoHandlers]]
           hs == [n \in Nodes |-> None]
           made == [n \in Nodes |-> 0]
<1>1. PICK bound \in Pages :
        page = AddedAll([parent |-> Tree.parent, order |-> Tree.order, labels |-> Tree.labels,
                         events |-> events, handle |-> hs, listeners |-> {}, made |-> made], bound)
  BY DEF PageInit
<1>2. page = AddedAll(Page(Tree.parent, Tree.order, Tree.labels, events, hs, {}, made), bound)
  BY <1>1 DEF Page
<1>3. /\ events \in [Nodes -> Tables] /\ hs \in [Nodes -> Handles]
      /\ made \in [Nodes -> Nat] /\ {} \in SUBSET Listeners
  BY NoneFit DEF Handles
<1>4. /\ \A n \in Nodes : \A t \in EventTypes : events[n][t].list = <<>>
      /\ \A n \in Nodes : hs[n] = None
  BY NoneFit
<1> HIDE DEF events, hs, made
<1>5. Wiring(events, hs, {})
  BY <1>4 DEF Wiring
<1>6. Page(Tree.parent, Tree.order, Tree.labels, events, hs, {}, made)
        \in Stores(Tree.parent, Tree.order, Tree.labels)
  BY ONLY <1>3, <1>5, StoreMade
<1>7. Addable(Page(Tree.parent, Tree.order, Tree.labels, events, hs, {}, made), bound)
  <2>1. bound \in Seq(Bindings) /\ IsInjective(bound)
    BY EventsAssumption
  <2>2. /\ Len(bound) \in Nat /\ \A k \in 1 .. Len(bound) : bound[k] \in Bindings
        /\ \A j, k \in 1 .. Len(bound) : bound[j] = bound[k] => j = k
    BY <2>1 DEF IsInjective
  <2>3. \A d \in Bindings : /\ d.node \in Nodes /\ d.h \in HandlerSet /\ d.h.type \in EventTypes
                            /\ d = [node |-> d.node, h |-> d.h]
    BY EventsAssumption DEF HandlerSet
  <2>4. ASSUME NEW j \in 1 .. Len(bound), NEW k \in 1 .. Len(bound),
               bound[j].node = bound[k].node, bound[j].h = bound[k].h
        PROVE  j = k
    BY <2>2, <2>3, <2>4
  <2>5. ASSUME NEW d \in Bindings
        PROVE  Unheld(Page(Tree.parent, Tree.order, Tree.labels, events, hs, {}, made), d.node, d.h)
    <3>1. events[d.node][d.h.type].list = <<>>
      BY <1>4, <2>3
    <3> QED
      BY <3>1 DEF Unheld, Page
  <2> QED
    BY <2>2, <2>3, <2>4, <2>5 DEF Addable
<1>8. page \in Stores(Tree.parent, Tree.order, Tree.labels)
  BY ONLY <1>2, <1>6, <1>7, AllAddFit
<1>9. page.parent = Tree.parent
  BY <1>8, StoreFields
<1>10. Forest(Tree.parent)
  <2>1. PICK R : R \in Nat /\ R = Cardinality(Elements)
    BY StoreAssumption, FS_CardinalityType
  <2>2. PICK rank \in [Elements -> 0 .. R] :
          \A x \in Elements : Tree.parent[x] \in Elements => rank[Tree.parent[x]] > rank[x]
    BY <2>1, EventsAssumption
  <2>3. Rises(Tree.parent, rank)
    BY <2>2 DEF Rises
  <2> QED
    BY <2>1, <2>3, EventsAssumption DEF Forest
<1> QED
  BY <1>8, <1>9, <1>10 DEF Fits, PageSound

\* Every step of the page leaves what jQuery keeps with it fitting.
LEMMA StepFits == PageSound(page) /\ [PageNext]_eventVars => PageSound(page')
<1> SUFFICES ASSUME PageSound(page), [PageNext]_eventVars PROVE PageSound(page')
  OBVIOUS
<1>0. Fits(page) /\ Forest(page.parent) /\ \A q : Remade(page, q) => PageSound(q)
  BY DEF PageSound, Remade
<1>1. CASE on
  <2>1. PICK bd \in Bindings : ~Bound(bd) /\ page' = eventAdd(page, bd.node, bd.h)
    BY <1>1 DEF on, Change
  <2>2. bd.node \in Nodes /\ bd.h \in HandlerSet /\ bd.h.type \in EventTypes
    BY EventsAssumption DEF HandlerSet
  <2>3. Unheld(page, bd.node, bd.h)
    <3>1. page.events \in [Nodes -> Tables]
      BY <1>0, StoreFields DEF Fits
    <3>2. page.events[bd.node][bd.h.type] \in Lists(bd.h.type)
      BY <2>2, <3>1 DEF Tables
    <3>3. PICK u \in Seq(HandlersOf(bd.h.type)) : u = page.events[bd.node][bd.h.type].list
      BY <3>2 DEF Lists
    <3>4. DOMAIN u = 1 .. Len(u)
      OBVIOUS
    <3> QED
      BY <2>1, <3>3, <3>4 DEF Bound, Contains, Unheld
  <2>4. Remade(page, eventAdd(page, bd.node, bd.h))
    BY ONLY <1>0, <2>2, <2>3, OperationsFit
  <2> QED
    BY <1>0, <2>1, <2>4
<1>2. CASE off
  <2>1. PICK o : page' = eventRemove(page, o.node, o.like)
    BY <1>2 DEF off, Change
  <2>2. Remade(page, eventRemove(page, o.node, o.like))
    BY <1>0, OperationsFit
  <2> QED
    BY <1>0, <2>1, <2>2
<1>3. CASE Manipulate
  <2>1. PICK e \in Elements \ Unused :
          \/ page' = remove(page, e) \/ page' = Taken(page, e) \/ page' = empty(page, e)
          \/ \E targets \in Targets :
               /\ ToSet(targets) \intersect (getAll(page, e) \union Unused) = {}
               /\ \/ Len(targets) = 1 /\ page' = append(page, e, targets, e)
                  \/ /\ Len(targets) # 1 /\ getAll(page, e) = {e}
                     /\ \E copy \in Unused : page' = append(page, e, targets, copy)
    BY <1>3 DEF Manipulate, Change
  <2>2. ASSUME page' \in {remove(page, e), Taken(page, e), empty(page, e)} PROVE PageSound(page')
    <3>1. e \in Elements
      OBVIOUS
    <3>2. PageSound(remove(page, e)) /\ PageSound(empty(page, e))
      BY ONLY <3>1, PageSound(page), RemovesFit
    <3>3. PageSound(Taken(page, e))
      BY ONLY <3>1, PageSound(page), TakenFits
    <3> QED
      BY <2>2, <3>2, <3>3
  <2>3. ASSUME NEW targets \in Targets,
               ToSet(targets) \intersect (getAll(page, e) \union Unused) = {}
        PROVE  \E n \in 1 .. 2 : n = Len(targets) /\ \A i \in 1 .. n :
                 targets[i] \in Holders \ getAll(page, e) /\ targets[i] \notin Unused
    <3>1. targets \in Seq(Holders) /\ Len(targets) \in 1 .. 2
      BY EventsAssumption DEF Holders
    <3>2. \A i \in 1 .. Len(targets) : targets[i] \in Holders /\ targets[i] \in ToSet(targets)
      BY <3>1 DEF ToSet
    <3> QED
      BY <2>3, <3>1, <3>2
  <2>4. ASSUME NEW targets \in Targets, Len(targets) = 1, page' = append(page, e, targets, e),
               ToSet(targets) \intersect (getAll(page, e) \union Unused) = {}
        PROVE  PageSound(page')
    <3>1. PICK n \in 1 .. 2 : n = Len(targets) /\ n = 1 /\ n \in Nat
               /\ \A i \in 1 .. n : targets[i] \in Holders \ getAll(page, e)
      BY <2>3, <2>4
    <3>2. e \in Elements
      OBVIOUS
    <3>3. PageSound(append(page, e, targets, e))
      BY ONLY <3>1, <3>2, PageSound(page), AppendFits
    <3> QED
      BY <2>4, <3>3
  <2>5. ASSUME NEW targets \in Targets, Len(targets) # 1, getAll(page, e) = {e},
               ToSet(targets) \intersect (getAll(page, e) \union Unused) = {},
               NEW copy \in Unused, page' = append(page, e, targets, copy)
        PROVE  PageSound(page')
    <3>1. PICK n \in 1 .. 2 : n = Len(targets) /\ n # 1 /\ n \in Nat
               /\ \A i \in 1 .. n : targets[i] \in Holders \ getAll(page, e) /\ targets[i] \notin Unused
      BY <2>3, <2>5
    <3>2. /\ copy \in Elements /\ copy \in Nodes /\ copy # e /\ page.handle[copy] = None
          /\ \A x \in Elements : page.parent[x] # copy
          /\ \A i \in 1 .. n : targets[i] # copy
      BY <3>1, EventsAssumption DEF Unused, Nodes
    <3>3. Bare(page, copy)
      <4>1. Wiring(page.events, page.handle, page.listeners)
        BY <1>0, StoreFields DEF Fits
      <4> QED
        BY <3>2, <4>1 DEF Wiring, Bare
    <3>4. e \in Elements
      OBVIOUS
    <3>5. PageSound(append(page, e, targets, copy))
      BY ONLY <2>5, <3>1, <3>2, <3>3, <3>4, PageSound(page), AppendFits
    <3> QED
      BY <2>5, <3>5
  <2> QED
    BY <2>1, <2>2, <2>4, <2>5
<1>4. CASE Restyle
  <2>1. PICK e, classes, name, value : page' \in {toggleClass(page, e, classes), attr(page, {e}, name, value)}
    BY <1>4 DEF Restyle, Change
  <2> QED
    BY <2>1, RestyledFits
<1>5. CASE Turn
  <2>1. page' = page \/ \E node, o : page' = eventRemove(page, node, o)
    BY <1>5 DEF Turn
  <2>2. \A node, o : Remade(page, eventRemove(page, node, o))
    BY <1>0, OperationsFit
  <2> QED
    BY <1>0, <2>1, <2>2
<1>6. CASE UNCHANGED page
  BY <1>6
<1>7. CASE UserClicks \/ click \/ trigger \/ Visit \/ Finish
  BY <1>6, <1>7 DEF UserClicks, click, trigger, Fire, Visit, Finish
<1>8. CASE stopPropagation \/ stopImmediatePropagation \/ Return \/ ReturnFalse \/ Throw
  BY <1>6, <1>8 DEF stopPropagation, stopImmediatePropagation, Return, ReturnFalse, Throw
<1>9. CASE UNCHANGED eventVars
  BY <1>6, <1>9 DEF eventVars
<1> QED
  BY <1>1, <1>2, <1>3, <1>4, <1>5, <1>7, <1>8, <1>9 DEF PageNext

\* A page that fits is one of which HandlesFitHandlers says all.
LEMMA FitsWell == Fits(page) => HandlesFitHandlers
<1> SUFFICES ASSUME Fits(page), NEW n \in Nodes
             PROVE  /\ {l \in page.listeners : l[1] = n} =
                         {<<n, t, page.handle[n]>> :
                            t \in {t \in EventTypes : page.events[n][t].list # <<>>}}
                    /\ page.handle[n] # None => page.handle[n][1] = n
                    /\ \A t \in EventTypes :
                         \A k \in DOMAIN page.events[n][t].list :
                           page.events[n][t].list[k].sel # None <=> k <= page.events[n][t].delegated
  BY DEF HandlesFitHandlers
<1>1. PICK a, b, c : page \in Stores(a, b, c)
  BY DEF Fits
<1>2. /\ page.events \in [Nodes -> Tables]
      /\ page.listeners \in SUBSET Listeners
      /\ Wiring(page.events, page.handle, page.listeners)
  BY <1>1, StoreFields
<1>3. page.handle[n] # None => page.handle[n][1] = n
  BY <1>2 DEF Wiring
<1>4. ASSUME NEW t \in EventTypes, NEW k \in DOMAIN page.events[n][t].list
      PROVE  page.events[n][t].list[k].sel # None <=> k <= page.events[n][t].delegated
  <2>1. page.events[n][t] \in Lists(t)
    BY <1>2 DEF Tables
  <2> QED
    BY <2>1 DEF Lists, DelegatedFirst
<1> DEFINE L == {l \in page.listeners : l[1] = n}
           R == {<<n, t, page.handle[n]>> : t \in {t \in EventTypes : page.events[n][t].list # <<>>}}
<1>5. ASSUME NEW l \in L PROVE l \in R
  <2>1. l \in Nodes \X EventTypes \X (Nodes \X Nat) /\ l \in page.listeners /\ l[1] = n
    BY <1>2 DEF Listeners
  <2>2. l = <<n, l[2], l[3]>> /\ l[2] \in EventTypes
    BY <2>1
  <2>3. page.events[n][l[2]].list # <<>> /\ l[3] = page.handle[n]
    BY <1>2, <2>1, <2>2 DEF Wiring
  <2> QED
    BY <2>2, <2>3
<1>6. ASSUME NEW r \in R PROVE r \in L
  <2>1. PICK t \in EventTypes : page.events[n][t].list # <<>> /\ r = <<n, t, page.handle[n]>>
    OBVIOUS
  <2>2. r \in page.listeners
    BY <1>2, <2>1 DEF Wiring
  <2> QED
    BY <2>1, <2>2
<1>7. L = R
  <2> HIDE DEF L, R
  <2> QED
    BY <1>5, <1>6
<1> QED
  BY <1>3, <1>4, <1>7

\* The browser calls jQuery once for each node and type with handlers, by the
\* function made for that node, and for nothing that was thrown away or copied; the
\* delegated handlers are in front, as many as are counted (HandlesFitHandlers):
\* whatever is bound, unbound, moved, copied and thrown away, in whatever order, by
\* jQuery.event.add() and remove(), cleanData(), cloneCopyEvent() and domManip().
THEOREM HandlersAreCalled == PageSpec => []HandlesFitHandlers
<1>1. PageInit => PageSound(page)
  BY FirstPageFits
<1>2. PageSound(page) /\ [PageNext]_eventVars => PageSound(page)'
  BY StepFits DEF PageSound, Fits
<1>3. PageSound(page) => HandlesFitHandlers
  BY FitsWell DEF PageSound
<1> QED
  BY <1>1, <1>2, <1>3, PTL DEF PageSpec

-----------------------------------------------------------------------------
(***************************************************************************)
(* What dispatch() is to call, by jQuery.event.handlers().                 *)
(***************************************************************************)
\* Those of a sequence's first k that are in W, each once.
Picked(s, list, k, W) ==
  /\ \A i, j \in 1 .. Len(s) : s[i] = s[j] => i = j
  /\ \A j \in 1 .. Len(s) : \E m \in 1 .. k : s[j] = list[m]
  /\ \A m \in 1 .. k : m \in W => \E j \in 1 .. Len(s) : s[j] = list[m]

\* One more of the sequence is picked, or passed over.
LEMMA PickedFurther ==
  ASSUME NEW H, NEW list \in Seq(H), NEW W, NEW k \in 1 .. Len(list), NEW s \in Seq(H),
         \A i, j \in 1 .. Len(list) : list[i] = list[j] => i = j,
         Picked(s, list, k - 1, W)
  PROVE  /\ k \in W => Append(s, list[k]) \in Seq(H) /\ Picked(Append(s, list[k]), list, k, W)
         /\ k \notin W => Picked(s, list, k, W)
<1>0. /\ Len(s) \in Nat /\ Len(list) \in Nat /\ list[k] \in H
      /\ \A m \in 1 .. k : m \in 1 .. Len(list) /\ (m = k \/ m \in 1 .. k - 1)
      /\ \A m \in 1 .. k - 1 : m \in 1 .. k /\ m # k
  OBVIOUS
<1>1. CASE k \in W
  <2> DEFINE u == Append(s, list[k])
  <2>1. /\ u \in Seq(H) /\ Len(u) = Len(s) + 1 /\ u[Len(s) + 1] = list[k]
        /\ \A j \in 1 .. Len(s) : u[j] = s[j]
    BY <1>0
  <2> HIDE DEF u
  <2>2. \A j \in 1 .. Len(u) : j = Len(s) + 1 \/ j \in 1 .. Len(s)
    BY <1>0, <2>1
  <2>3. \A j \in 1 .. Len(s) : s[j] # list[k]
    BY <1>0 DEF Picked
  <2>4. \A i, j \in 1 .. Len(u) : u[i] = u[j] => i = j
    BY <2>1, <2>2, <2>3 DEF Picked
  <2>5. \A j \in 1 .. Len(u) : \E m \in 1 .. k : u[j] = list[m]
    BY <1>0, <2>1, <2>2 DEF Picked
  <2>6. ASSUME NEW m \in 1 .. k, m \in W PROVE \E j \in 1 .. Len(u) : u[j] = list[m]
    <3>1. CASE m = k
      <4>1. Len(s) + 1 \in 1 .. Len(u)
        BY <1>0, <2>1
      <4> QED
        BY <2>1, <3>1, <4>1
    <3>2. CASE m # k
      <4>1. PICK j \in 1 .. Len(s) : s[j] = list[m]
        BY <1>0, <2>6, <3>2 DEF Picked
      <4>2. j \in 1 .. Len(u)
        BY <1>0, <2>1
      <4> QED
        BY <2>1, <4>1, <4>2
    <3> QED
      BY <3>1, <3>2
  <2> QED
    BY <1>1, <2>1, <2>4, <2>5, <2>6 DEF Picked, u
<1>2. CASE k \notin W
  BY <1>0, <1>2 DEF Picked
<1> QED
  BY <1>1, <1>2

\* The delegated handlers of a node that are for an element.
Finds(p, node, at, x) ==
  {i \in 1 .. at.delegated : x \in Elements /\ JQueryFinds(p, Selector[at.list[i].sel], node, x)}

\* Of the delegated handlers, those that match are found, each once.
LEMMA MatchedFits ==
  ASSUME NEW p, NEW node, NEW type, NEW at \in Lists(type), NEW x
  PROVE  /\ Matched(p, node, at, x) \in Seq(HandlersOf(type))
         /\ Picked(Matched(p, node, at, x), at.list, at.delegated, Finds(p, node, at, x))
<1> DEFINE n == at.delegated
           H == HandlersOf(type)
           W == Finds(p, node, at, x)
           S == [k \in 0 .. n |-> {s \in Seq(H) : Picked(s, at.list, k, W)}]
           step == [ks \in (1 .. n) \X Seq(H) |->
                      IF ks[1] \in W THEN Append(ks[2], at.list[ks[1]]) ELSE ks[2]]
           Made(f) == f = [i \in 0 .. n |->
                          IF i = 0 THEN <<>>
                          ELSE IF x \in Elements /\ JQueryFinds(p, Selector[at.list[i].sel], node, x)
                               THEN Append(f[i - 1], at.list[i]) ELSE f[i - 1]]
<1>1. Matched(p, node, at, x) = (CHOOSE f : Made(f))[n]
  BY DEF Matched
<1>2. /\ n \in Nat /\ n <= Len(at.list) /\ at.list \in Seq(H) /\ Len(at.list) \in Nat
      /\ \A i, j \in 1 .. Len(at.list) : at.list[i] = at.list[j] => i = j
  <2>1. at.list \in Seq(H) /\ DOMAIN at.list = 1 .. Len(at.list) /\ n \in Nat
    BY DEF Lists
  <2> QED
    BY <2>1 DEF Lists, DelegatedFirst, IsInjective
<1>3. \A i \in 1 .. n : i \in W <=> x \in Elements /\ JQueryFinds(p, Selector[at.list[i].sel], node, x)
  BY DEF Finds
<1> HIDE DEF n, H, W
<1>4. <<>> \in S[0]
  <2>1. <<>> \in Seq(H) /\ Len(<<>>) = 0
    OBVIOUS
  <2>2. Picked(<<>>, at.list, 0, W)
    BY <2>1 DEF Picked
  <2> QED
    BY <1>2, <2>1, <2>2
<1>5. \A k \in 0 .. n : \A s : s \in S[k] <=> s \in Seq(H) /\ Picked(s, at.list, k, W)
  OBVIOUS
<1> HIDE DEF S
<1>6. ASSUME NEW k \in 1 .. n, NEW s \in S[k - 1]
      PROVE  /\ step[<<k, s>>] = IF k \in W THEN Append(s, at.list[k]) ELSE s
             /\ step[<<k, s>>] \in S[k]
  <2>1. k \in 0 .. n /\ k - 1 \in 0 .. n /\ k \in 1 .. Len(at.list)
    BY <1>2
  <2>2. s \in Seq(H) /\ Picked(s, at.list, k - 1, W)
    BY <1>5, <2>1
  <2>3. step[<<k, s>>] = IF k \in W THEN Append(s, at.list[k]) ELSE s
    BY <2>2
  <2>4. PICK list \in Seq(H) : list = at.list
    BY <1>2
  <2>5. /\ k \in W => Append(s, list[k]) \in Seq(H) /\ Picked(Append(s, list[k]), list, k, W)
        /\ k \notin W => Picked(s, list, k, W)
    <3>1. k \in 1 .. Len(list) /\ Picked(s, list, k - 1, W)
      BY <2>1, <2>2, <2>4
    <3>2. \A i, j \in 1 .. Len(list) : list[i] = list[j] => i = j
      BY <1>2, <2>4
    <3> QED
      BY ONLY <2>2, <3>1, <3>2, list \in Seq(H), PickedFurther
  <2> HIDE DEF step
  <2> QED
    BY <1>5, <2>1, <2>2, <2>3, <2>4, <2>5
<1> HIDE DEF step
<1>7. PICK f : Stepwise(f, n, <<>>, step) /\ \A k \in 0 .. n : f[k] \in S[k]
  <2>1. Leads(n, S, step)
    BY <1>6 DEF Leads
  <2> QED
    BY ONLY <1>2, <1>4, <2>1, Steps
<1>8. Made(f)
  <2>1. ASSUME NEW i \in 0 .. n
        PROVE  f[i] = IF i = 0 THEN <<>>
                      ELSE IF x \in Elements /\ JQueryFinds(p, Selector[at.list[i].sel], node, x)
                           THEN Append(f[i - 1], at.list[i]) ELSE f[i - 1]
    <3>1. f[i] = IF i = 0 THEN <<>> ELSE step[<<i, f[i - 1]>>]
      BY <1>7 DEF Stepwise
    <3>2. CASE i # 0
      <4>1. i \in 1 .. n /\ i - 1 \in 0 .. n
        BY <1>2, <3>2
      <4>2. step[<<i, f[i - 1]>>] = IF i \in W THEN Append(f[i - 1], at.list[i]) ELSE f[i - 1]
        BY <1>6, <1>7, <4>1
      <4> QED
        BY <1>3, <3>1, <3>2, <4>1, <4>2
    <3> QED
      BY <3>1, <3>2
  <2> QED
    BY <1>7, <2>1 DEF Stepwise
<1> DEFINE g == CHOOSE y : Made(y)
<1>9. Made(g)
  <2> HIDE DEF Made
  <2> QED
    BY <1>8
<1> HIDE DEF g
<1> DEFINE P == {k \in 0 .. n : g[k] \in S[k]}
<1>10. 0 \in P
  <2>1. g[0] = <<>>
    BY <1>2, <1>9, 0 \in 0 .. n
  <2> QED
    BY <1>2, <1>4, <2>1
<1>11. ASSUME NEW k \in 1 .. n, k - 1 \in P PROVE k \in P
  <2>1. k \in 0 .. n /\ k # 0 /\ g[k - 1] \in S[k - 1]
    BY <1>2, <1>11
  <2>2. g[k] = IF x \in Elements /\ JQueryFinds(p, Selector[at.list[k].sel], node, x)
               THEN Append(g[k - 1], at.list[k]) ELSE g[k - 1]
    BY <1>9, <2>1
  <2>3. g[k] = step[<<k, g[k - 1]>>] /\ step[<<k, g[k - 1]>>] \in S[k]
    BY <1>3, <1>6, <2>1, <2>2
  <2> QED
    BY <2>1, <2>3
<1>12. n \in P
  <2> HIDE DEF P
  <2>1. 0 .. n \subseteq P
    BY <1>2, <1>10, <1>11, StepsHold
  <2> QED
    BY <1>2, <2>1
<1>13. n \in 0 .. n /\ Matched(p, node, at, x) \in S[n]
  BY <1>1, <1>2, <1>12 DEF g
<1>14. Matched(p, node, at, x) \in Seq(H) /\ Picked(Matched(p, node, at, x), at.list, n, W)
  BY <1>5, <1>13
<1> QED
  BY <1>14 DEF n, H, W

\* Sequences that have nothing in common and nothing twice; and what is made of
\* the first k of them.
Apart(parts) ==
  /\ \A k \in 1 .. Len(parts) : \A i, j \in 1 .. Len(parts[k]) : parts[k][i] = parts[k][j] => i = j
  /\ \A k, m \in 1 .. Len(parts) : \A i \in 1 .. Len(parts[k]), j \in 1 .. Len(parts[m]) :
       parts[k][i] = parts[m][j] => k = m
Joined(s, parts, k) ==
  /\ \A i, j \in 1 .. Len(s) : s[i] = s[j] => i = j
  /\ \A i \in 1 .. Len(s) : \E m \in 1 .. k : \E j \in 1 .. Len(parts[m]) : s[i] = parts[m][j]
  /\ \A m \in 1 .. k : \A j \in 1 .. Len(parts[m]) : \E i \in 1 .. Len(s) : s[i] = parts[m][j]

\* One more of the parts is joined.
LEMMA JoinedFurther ==
  ASSUME NEW C, NEW parts \in Seq(Seq(C)), Apart(parts), NEW k \in 1 .. Len(parts),
         NEW s \in Seq(C), Joined(s, parts, k - 1)
  PROVE  s \o parts[k] \in Seq(C) /\ Joined(s \o parts[k], parts, k)
<1>1. PICK t \in Seq(C) : t = parts[k]
  OBVIOUS
<1> DEFINE u == s \o t
<1>2. /\ u \in Seq(C) /\ Len(u) = Len(s) + Len(t) /\ Len(s) \in Nat /\ Len(t) \in Nat
      /\ \A i \in 1 .. Len(s) : u[i] = s[i]
      /\ \A i \in 1 .. Len(t) : u[Len(s) + i] = t[i]
  BY ONLY s \in Seq(C), t \in Seq(C)
<1> HIDE DEF u
<1>3. ASSUME NEW i \in 1 .. Len(u)
      PROVE  \/ i \in 1 .. Len(s) /\ u[i] = s[i]
             \/ \E j \in 1 .. Len(t) : i = Len(s) + j /\ u[i] = t[j]
  <2>1. CASE i > Len(s)
    <3>1. i - Len(s) \in 1 .. Len(t) /\ i = Len(s) + (i - Len(s))
      BY <1>2, <2>1
    <3> QED
      BY <1>2, <3>1
  <2>2. CASE i <= Len(s)
    BY <1>2, <2>2
  <2> QED
    BY <1>2, <2>1, <2>2
<1>4. /\ \A m \in 1 .. k : m \in 1 .. Len(parts) /\ (m = k \/ m \in 1 .. k - 1)
      /\ \A m \in 1 .. k - 1 : m \in 1 .. k /\ m # k
  OBVIOUS
<1>5. ASSUME NEW i \in 1 .. Len(s), NEW j \in 1 .. Len(t) PROVE s[i] # t[j]
  <2>1. PICK m \in 1 .. k - 1 : \E l \in 1 .. Len(parts[m]) : s[i] = parts[m][l]
    BY DEF Joined
  <2>2. PICK l \in 1 .. Len(parts[m]) : s[i] = parts[m][l]
    BY <2>1
  <2>3. m \in 1 .. Len(parts) /\ m # k /\ j \in 1 .. Len(parts[k]) /\ t[j] = parts[k][j]
    BY <1>1, <1>4
  <2> QED
    BY <2>2, <2>3 DEF Apart
<1>6. \A i, j \in 1 .. Len(t) : t[i] = t[j] => i = j
  BY <1>1 DEF Apart
<1>7. ASSUME NEW i \in 1 .. Len(u), NEW j \in 1 .. Len(u), u[i] = u[j] PROVE i = j
  <2>1. CASE i \in 1 .. Len(s) /\ u[i] = s[i]
    <3>1. CASE j \in 1 .. Len(s) /\ u[j] = s[j]
      BY <1>7, <2>1, <3>1 DEF Joined
    <3>2. CASE \E m \in 1 .. Len(t) : j = Len(s) + m /\ u[j] = t[m]
      BY <1>5, <1>7, <2>1, <3>2
    <3> QED
      BY <1>3, <3>1, <3>2
  <2>2. CASE \E m \in 1 .. Len(t) : i = Len(s) + m /\ u[i] = t[m]
    <3>1. CASE j \in 1 .. Len(s) /\ u[j] = s[j]
      BY <1>5, <1>7, <2>2, <3>1
    <3>2. CASE \E m \in 1 .. Len(t) : j = Len(s) + m /\ u[j] = t[m]
      BY <1>6, <1>7, <2>2, <3>2
    <3> QED
      BY <1>3, <3>1, <3>2
  <2> QED
    BY <1>3, <2>1, <2>2
<1>8. ASSUME NEW i \in 1 .. Len(u)
      PROVE  \E m \in 1 .. k : \E j \in 1 .. Len(parts[m]) : u[i] = parts[m][j]
  <2>1. CASE i \in 1 .. Len(s) /\ u[i] = s[i]
    <3>1. PICK m \in 1 .. k - 1 : \E j \in 1 .. Len(parts[m]) : s[i] = parts[m][j]
      BY <2>1 DEF Joined
    <3>2. m \in 1 .. k
      OBVIOUS
    <3> QED
      BY <2>1, <3>1, <3>2
  <2>2. CASE \E j \in 1 .. Len(t) : i = Len(s) + j /\ u[i] = t[j]
    BY <1>1, <2>2, k \in 1 .. k
  <2> QED
    BY <1>3, <2>1, <2>2
<1>9. ASSUME NEW m \in 1 .. k, NEW j \in 1 .. Len(parts[m])
      PROVE  \E i \in 1 .. Len(u) : u[i] = parts[m][j]
  <2>1. CASE m = k
    <3>1. j \in 1 .. Len(t) /\ Len(s) + j \in 1 .. Len(u)
      BY <1>1, <1>2, <2>1
    <3> QED
      BY <1>1, <1>2, <2>1, <3>1
  <2>2. CASE m # k
    <3>1. PICK i \in 1 .. Len(s) : s[i] = parts[m][j]
      BY <1>4, <2>2 DEF Joined
    <3>2. i \in 1 .. Len(u)
      BY <1>2
    <3> QED
      BY <1>2, <3>1, <3>2
  <2> QED
    BY <2>1, <2>2
<1>10. Joined(u, parts, k)
  BY <1>7, <1>8, <1>9 DEF Joined
<1> QED
  BY <1>1, <1>2, <1>10 DEF u

\* Parts that have nothing in common, joined, are a sequence without repetition.
LEMMA FlattenFits ==
  ASSUME NEW C, NEW parts \in Seq(Seq(C)), Apart(parts)
  PROVE  FlattenSeq(parts) \in Seq(C) /\ Joined(FlattenSeq(parts), parts, Len(parts))
<1> DEFINE n == Len(parts)
           S == [k \in 0 .. n |-> {s \in Seq(C) : Joined(s, parts, k)}]
           step == [ks \in (1 .. n) \X Seq(C) |-> ks[2] \o parts[ks[1]]]
           Made(f) == f = [i \in 1 .. n |-> IF i = 1 THEN parts[i] ELSE f[i - 1] \o parts[i]]
<1>1. FlattenSeq(parts) = IF n = 0 THEN parts ELSE (CHOOSE f : Made(f))[n]
  BY DEF FlattenSeq
<1>2. n \in Nat
  OBVIOUS
<1>3. Joined(<<>>, parts, 0) /\ <<>> \in Seq(C)
  BY Len(<<>>) = 0 DEF Joined
<1>4. \A k \in 0 .. n : \A s : s \in S[k] <=> s \in Seq(C) /\ Joined(s, parts, k)
  OBVIOUS
<1>a. <<>> \in S[0]
  BY <1>2, <1>3
<1>5. CASE n = 0
  BY <1>1, <1>3, <1>5
<1>6. CASE n # 0
  <2> HIDE DEF n, S
  <2>1. ASSUME NEW k \in 1 .. n, NEW s \in S[k - 1]
        PROVE  step[<<k, s>>] = s \o parts[k] /\ step[<<k, s>>] \in S[k]
    <3>1. k \in 0 .. n /\ k - 1 \in 0 .. n /\ k \in 1 .. Len(parts)
      BY <1>2 DEF n
    <3>2. s \in Seq(C) /\ Joined(s, parts, k - 1)
      BY <1>4, <3>1
    <3>3. s \o parts[k] \in Seq(C) /\ Joined(s \o parts[k], parts, k)
      BY <3>1, <3>2, JoinedFurther
    <3>4. step[<<k, s>>] = s \o parts[k]
      BY <3>2
    <3> QED
      BY <1>4, <3>1, <3>3, <3>4
  <2> HIDE DEF step
  <2>2. PICK f : Stepwise(f, n, <<>>, step) /\ \A k \in 0 .. n : f[k] \in S[k]
    <3>1. Leads(n, S, step)
      BY <2>1 DEF Leads
    <3>2. <<>> \in S[0]
      BY <1>a
    <3> QED
      BY ONLY <1>2, <3>1, <3>2, Steps
  <2> DEFINE e == [i \in 1 .. n |-> f[i]]
  <2>3. Made(e)
    <3>1. ASSUME NEW i \in 1 .. n PROVE f[i] = IF i = 1 THEN parts[i] ELSE f[i - 1] \o parts[i]
      <4>1. i \in 0 .. n /\ i # 0 /\ i - 1 \in 0 .. n /\ parts[i] \in Seq(C)
        BY <1>2 DEF n
      <4>2. f[i] = step[<<i, f[i - 1]>>] /\ f[i - 1] \in S[i - 1]
        BY <2>2, <4>1 DEF Stepwise
      <4>3. f[i] = f[i - 1] \o parts[i]
        BY <2>1, <4>2
      <4>4. i = 1 => f[i - 1] = <<>>
        BY <1>2, <2>2, 0 \in 0 .. n DEF Stepwise
      <4>5. <<>> \o parts[i] = parts[i]
        BY <4>1
      <4> QED
        BY <4>3, <4>4, <4>5
    <3>2. ASSUME NEW i \in 1 .. n PROVE e[i] = IF i = 1 THEN parts[i] ELSE e[i - 1] \o parts[i]
      <4>1. i # 1 => i - 1 \in 1 .. n
        BY <1>2
      <4> QED
        BY <3>1, <4>1
    <3>3. e = [i \in 1 .. n |-> e[i]]
      OBVIOUS
    <3> HIDE DEF e
    <3> QED
      BY <3>2, <3>3
  <2> DEFINE g == CHOOSE y : Made(y)
  <2>4. Made(g)
    <3> HIDE DEF Made, e
    <3> QED
      BY <2>3
  <2> HIDE DEF g
  <2> DEFINE P == {k \in 0 .. n : k # 0 => g[k] \in S[k]}
  <2>5. 0 \in P
    BY <1>2
  <2>6. ASSUME NEW k \in 1 .. n, k - 1 \in P PROVE k \in P
    <3>1. k \in 0 .. n /\ k # 0 /\ k - 1 \in 0 .. n /\ parts[k] \in Seq(C)
      BY <1>2 DEF n
    <3>2. PICK s \in S[k - 1] : g[k] = s \o parts[k]
      <4>1. g[k] = IF k = 1 THEN parts[k] ELSE g[k - 1] \o parts[k]
        BY <2>4
      <4>2. CASE k = 1
        <5>1. <<>> \in S[k - 1] /\ <<>> \o parts[k] = parts[k]
          <6>1. k - 1 = 0
            BY <4>2
          <6> QED
            BY <1>a, <3>1, <6>1
        <5> QED
          BY <4>1, <4>2, <5>1
      <4>3. CASE k # 1
        <5>1. g[k - 1] \in S[k - 1]
          BY <1>2, <2>6, <4>3
        <5> QED
          BY <4>1, <4>3, <5>1
      <4> QED
        BY <4>2, <4>3
    <3> QED
      BY <2>1, <3>1, <3>2
  <2>7. n \in P
    <3> HIDE DEF P
    <3>1. 0 .. n \subseteq P
      BY <1>2, <2>5, <2>6, StepsHold
    <3> QED
      BY <1>2, <3>1
  <2>8. n \in 0 .. n /\ FlattenSeq(parts) \in S[n]
    BY <1>1, <1>2, <1>6, <2>7 DEF g
  <2>9. FlattenSeq(parts) \in Seq(C) /\ Joined(FlattenSeq(parts), parts, n)
    BY <1>4, <2>8
  <2> QED
    BY <2>9 DEF n
<1> QED
  BY <1>5, <1>6

\* Where something is first in a sequence.
LEMMA PlaceFound ==
  ASSUME NEW S, NEW s \in Seq(S), NEW x, Contains(s, x)
  PROVE  \E i \in 1 .. Len(s) : /\ i = SelectInSeq(s, LAMBDA y : y = x) /\ s[i] = x
                                /\ \A j \in 1 .. i - 1 : s[j] # x
<1> DEFINE I == {i \in 1 .. Len(s) : s[i] = x}
<1>1. I \subseteq Nat /\ I # {}
  BY DEF Contains
<1>2. SelectInSeq(s, LAMBDA y : y = x) = Min(I)
  BY <1>1 DEF SelectInSeq
<1> HIDE DEF I
<1>3. Min(I) \in I /\ \A y \in I : Min(I) <= y
  BY <1>1, LeastNumber
<1>4. PICK i : i = Min(I)
  OBVIOUS
<1>5. i \in 1 .. Len(s) /\ s[i] = x
  BY <1>3, <1>4 DEF I
<1>6. ASSUME NEW j \in 1 .. i - 1 PROVE s[j] # x
  <2>1. j \in 1 .. Len(s) /\ ~(i <= j)
    BY <1>5
  <2> QED
    BY <1>3, <1>4, <2>1 DEF I
<1> QED
  BY <1>2, <1>4, <1>5, <1>6

\* The nodes from the target of an event to a node, without that.
LEMMA BelowFits ==
  ASSUME NEW p, Forest(p.parent), NEW target \in Holders, NEW node
  PROVE  /\ Before(Lineage(p, target), node) \in Seq(Holders)
         /\ IsInjective(Before(Lineage(p, target), node))
         /\ \A i \in 1 .. Len(Before(Lineage(p, target), node)) :
              Before(Lineage(p, target), node)[i] # node
<1>1. PICK s \in Seq(Holders) : s = Lineage(p, target) /\ IsInjective(s) /\ DOMAIN s = 1 .. Len(s)
  BY LineageFits
<1>2. CASE ~Contains(s, node)
  BY <1>1, <1>2 DEF Before, Contains
<1>3. CASE Contains(s, node)
  <2>1. PICK i \in 1 .. Len(s) : /\ i = SelectInSeq(s, LAMBDA y : y = node)
                                 /\ \A j \in 1 .. i - 1 : s[j] # node
    BY <1>3, PlaceFound
  <2> DEFINE u == SubSeq(s, 1, i - 1)
  <2>2. Before(Lineage(p, target), node) = u
    BY <1>1, <1>3, <2>1 DEF Before
  <2>3. /\ u \in Seq(Holders) /\ Len(u) = i - 1 /\ \A j \in 1 .. i - 1 : u[j] = s[j]
    <3>1. 1 \in 1 .. Len(s) + 1 /\ i - 1 \in 1 - 1 .. Len(s) /\ (i - 1) - 1 + 1 = i - 1
          /\ \A j \in 1 .. i - 1 : 1 + j - 1 = j
      OBVIOUS
    <3> QED
      BY <3>1, Part
  <2> HIDE DEF u
  <2>4. DOMAIN u = 1 .. i - 1 /\ \A j \in 1 .. i - 1 : j \in DOMAIN s
    BY <1>1, <2>3
  <2>5. IsInjective(u)
    BY <1>1, <2>3, <2>4 DEF IsInjective
  <2> QED
    BY <2>1, <2>2, <2>3, <2>5
<1> QED
  BY <1>2, <1>3

-----------------------------------------------------------------------------
\* What dispatch() is to call: nothing twice, what is delegated first.
Calls(type) == [elem : Nodes, h : HandlersOf(type)]
InCallOrder(q) ==
  /\ \A i, j \in 1 .. Len(q) : q[i] = q[j] => i = j
  /\ \A i, j \in 1 .. Len(q) : i < j /\ q[i].h.sel = None => q[j].h.sel = None
\* And all that is bound to the node and is for an element on the way to it.
Meets(p, node, h, target) ==
  h.sel # None => \E x \in ToSet(Before(Lineage(p, target), node)) \ {Document} :
                    JQueryFinds(p, Selector[h.sel], node, x)
AllMatched(q, p, node, at, target) ==
  \A k \in 1 .. Len(at.list) : Meets(p, node, at.list[k], target) =>
     \E j \in 1 .. Len(q) : q[j].h = at.list[k]

\* What is delegated, for each of the elements.
Parts(p, node, at, below) == [k \in DOMAIN below |-> For(below[k], Matched(p, node, at, below[k]))]
Shared(P, p, node, at, below) ==
  /\ Apart(P) /\ Len(P) = Len(below)
  /\ \A k \in 1 .. Len(below) :
       /\ \A j \in 1 .. Len(P[k]) : \E m \in 1 .. at.delegated :
            P[k][j] = [elem |-> below[k], h |-> at.list[m]]
       /\ \A m \in Finds(p, node, at, below[k]) : \E j \in 1 .. Len(P[k]) :
            P[k][j] = [elem |-> below[k], h |-> at.list[m]]

\* What the elements inside have matched are such parts,
LEMMA PartsFit ==
  ASSUME NEW p, NEW node, NEW type, NEW at \in Lists(type), NEW below \in Seq(Holders), IsInjective(below)
  PROVE  /\ Parts(p, node, at, below) \in Seq(Seq(Calls(type)))
         /\ Shared(Parts(p, node, at, below), p, node, at, below)
<1> DEFINE H == HandlersOf(type)
           P == Parts(p, node, at, below)
<1>1. DOMAIN below = 1 .. Len(below) /\ Len(below) \in Nat
  OBVIOUS
<1>2. P = [k \in 1 .. Len(below) |-> For(below[k], Matched(p, node, at, below[k]))]
  BY <1>1 DEF Parts
<1> HIDE DEF P, H
<1>3. ASSUME NEW k \in 1 .. Len(below)
      PROVE  \E s \in Seq(H) : /\ P[k] = [j \in 1 .. Len(s) |-> [elem |-> below[k], h |-> s[j]]]
                               /\ Len(s) \in Nat /\ \A j \in 1 .. Len(s) : s[j] \in H
                               /\ P[k] \in Seq(Calls(type)) /\ Len(P[k]) = Len(s)
                               /\ Picked(s, at.list, at.delegated, Finds(p, node, at, below[k]))
  <2>1. PICK s \in Seq(H) : /\ s = Matched(p, node, at, below[k])
                            /\ Picked(s, at.list, at.delegated, Finds(p, node, at, below[k]))
    BY MatchedFits DEF H
  <2>2. DOMAIN s = 1 .. Len(s) /\ Len(s) \in Nat /\ \A j \in 1 .. Len(s) : s[j] \in H
    OBVIOUS
  <2>3. P[k] = [j \in 1 .. Len(s) |-> [elem |-> below[k], h |-> s[j]]]
    BY <1>2, <2>1, <2>2 DEF For
  <2>4. below[k] \in Nodes
    BY DEF Holders, Nodes
  <2>5. \A j \in 1 .. Len(s) : [elem |-> below[k], h |-> s[j]] \in Calls(type)
    BY <2>2, <2>4 DEF Calls, H
  <2>6. P[k] \in Seq(Calls(type)) /\ Len(P[k]) = Len(s)
    <3> DEFINE c == [j \in 1 .. Len(s) |-> [elem |-> below[k], h |-> s[j]]]
    <3>1. c \in [1 .. Len(s) -> Calls(type)]
      BY <2>5
    <3> HIDE DEF c
    <3>2. c \in Seq(Calls(type)) /\ Len(c) = Len(s)
      BY <2>2, <3>1
    <3> QED
      BY <2>3, <3>2 DEF c
  <2> QED
    BY <2>1, <2>2, <2>3, <2>6
<1>4. P \in Seq(Seq(Calls(type))) /\ Len(P) = Len(below)
  <2>1. \A k \in 1 .. Len(below) : P[k] \in Seq(Calls(type))
    BY <1>3
  <2>2. P \in [1 .. Len(below) -> Seq(Calls(type))]
    BY <1>2, <2>1
  <2> QED
    BY <1>1, <2>2
<1>5. ASSUME NEW k \in 1 .. Len(below), NEW j \in 1 .. Len(P[k])
      PROVE  P[k][j].elem = below[k]
  <2>1. PICK s \in Seq(H) : /\ P[k] = [l \in 1 .. Len(s) |-> [elem |-> below[k], h |-> s[l]]]
                            /\ Len(P[k]) = Len(s)
    BY <1>3
  <2>2. P[k][j] = [elem |-> below[k], h |-> s[j]]
    BY <2>1
  <2> QED
    BY <2>2
<1>6. ASSUME NEW k \in 1 .. Len(below), NEW i \in 1 .. Len(P[k]), NEW j \in 1 .. Len(P[k]), P[k][i] = P[k][j]
      PROVE  i = j
  <2>1. PICK s \in Seq(H) : /\ P[k] = [l \in 1 .. Len(s) |-> [elem |-> below[k], h |-> s[l]]]
                            /\ Len(P[k]) = Len(s)
                            /\ Picked(s, at.list, at.delegated, Finds(p, node, at, below[k]))
    BY <1>3
  <2>2. P[k][i].h = s[i] /\ P[k][j].h = s[j]
    BY <2>1
  <2> QED
    BY <1>6, <2>1, <2>2 DEF Picked
<1>7. Apart(P)
  <2>1. \A k, m \in 1 .. Len(below) : below[k] = below[m] => k = m
    BY <1>1 DEF IsInjective
  <2>2. ASSUME NEW k \in 1 .. Len(below), NEW m \in 1 .. Len(below),
               NEW i \in 1 .. Len(P[k]), NEW j \in 1 .. Len(P[m]), P[k][i] = P[m][j]
        PROVE  k = m
    <3>1. below[k] = below[m]
      BY <1>5, <2>2
    <3> QED
      BY <2>1, <3>1
  <2> QED
    BY ONLY <1>4, <1>6, <2>2 DEF Apart
<1>8. ASSUME NEW k \in 1 .. Len(below)
      PROVE  /\ \A j \in 1 .. Len(P[k]) : \E m \in 1 .. at.delegated :
                  P[k][j] = [elem |-> below[k], h |-> at.list[m]]
             /\ \A m \in Finds(p, node, at, below[k]) : \E j \in 1 .. Len(P[k]) :
                  P[k][j] = [elem |-> below[k], h |-> at.list[m]]
  <2>1. PICK s \in Seq(H) : /\ P[k] = [l \in 1 .. Len(s) |-> [elem |-> below[k], h |-> s[l]]]
                            /\ Len(P[k]) = Len(s)
                            /\ Picked(s, at.list, at.delegated, Finds(p, node, at, below[k]))
    BY <1>3
  <2>2. ASSUME NEW j \in 1 .. Len(P[k])
        PROVE  \E m \in 1 .. at.delegated : P[k][j] = [elem |-> below[k], h |-> at.list[m]]
    <3>1. PICK m \in 1 .. at.delegated : s[j] = at.list[m]
      BY <2>1 DEF Picked
    <3> QED
      BY <2>1, <3>1
  <2>3. ASSUME NEW m \in Finds(p, node, at, below[k])
        PROVE  \E j \in 1 .. Len(P[k]) : P[k][j] = [elem |-> below[k], h |-> at.list[m]]
    <3>1. m \in 1 .. at.delegated
      BY DEF Finds
    <3>2. PICK j \in 1 .. Len(s) : s[j] = at.list[m]
      BY <2>1, <3>1 DEF Picked
    <3> QED
      BY <2>1, <3>2
  <2> QED
    BY <2>2, <2>3
<1> QED
  BY <1>4, <1>7, <1>8 DEF P, Shared

\* What is delegated, joined.
Gathered(u, p, node, at, below) ==
  /\ \A i, j \in 1 .. Len(u) : u[i] = u[j] => i = j
  /\ \A i \in 1 .. Len(u) : \E k \in 1 .. Len(below) : \E m \in 1 .. at.delegated :
       u[i] = [elem |-> below[k], h |-> at.list[m]]
  /\ \A k \in 1 .. Len(below) : \A m \in Finds(p, node, at, below[k]) :
       \E i \in 1 .. Len(u) : u[i] = [elem |-> below[k], h |-> at.list[m]]

\* so that the delegated handlers are queued by elements, inner ones first,
LEMMA DelegatedFit ==
  ASSUME NEW p, NEW node, NEW type, NEW at \in Lists(type), NEW below \in Seq(Holders), IsInjective(below)
  PROVE  /\ FlattenSeq(Parts(p, node, at, below)) \in Seq(Calls(type))
         /\ Gathered(FlattenSeq(Parts(p, node, at, below)), p, node, at, below)
<1>0. PICK P \in Seq(Seq(Calls(type))) : P = Parts(p, node, at, below) /\ Shared(P, p, node, at, below)
  BY PartsFit
<1>1. /\ Apart(P) /\ Len(P) = Len(below)
      /\ \A k \in 1 .. Len(below) :
           /\ \A j \in 1 .. Len(P[k]) : \E m \in 1 .. at.delegated :
                P[k][j] = [elem |-> below[k], h |-> at.list[m]]
           /\ \A m \in Finds(p, node, at, below[k]) : \E j \in 1 .. Len(P[k]) :
                P[k][j] = [elem |-> below[k], h |-> at.list[m]]
  BY <1>0 DEF Shared
<1>2. PICK u \in Seq(Calls(type)) : u = FlattenSeq(P) /\ Joined(u, P, Len(P))
  BY ONLY <1>1, FlattenFits
<1>3. ASSUME NEW i \in 1 .. Len(u)
      PROVE  \E k \in 1 .. Len(below) : \E m \in 1 .. at.delegated :
               u[i] = [elem |-> below[k], h |-> at.list[m]]
  <2>1. PICK k \in 1 .. Len(P) : \E j \in 1 .. Len(P[k]) : u[i] = P[k][j]
    BY <1>2 DEF Joined
  <2>2. PICK j \in 1 .. Len(P[k]) : u[i] = P[k][j]
    BY <2>1
  <2>3. PICK m \in 1 .. at.delegated : P[k][j] = [elem |-> below[k], h |-> at.list[m]]
    BY <1>1
  <2> QED
    BY <1>1, <2>2, <2>3
<1>4. ASSUME NEW k \in 1 .. Len(below), NEW m \in Finds(p, node, at, below[k])
      PROVE  \E i \in 1 .. Len(u) : u[i] = [elem |-> below[k], h |-> at.list[m]]
  <2>1. PICK j \in 1 .. Len(P[k]) : P[k][j] = [elem |-> below[k], h |-> at.list[m]]
    BY <1>1
  <2>2. PICK i \in 1 .. Len(u) : u[i] = P[k][j]
    <3>1. k \in 1 .. Len(P)
      BY <1>1
    <3> QED
      BY <1>2, <3>1 DEF Joined
  <2> QED
    BY <2>1, <2>2
<1>5. \A i, j \in 1 .. Len(u) : u[i] = u[j] => i = j
  BY <1>2 DEF Joined
<1>6. Gathered(u, p, node, at, below)
  BY ONLY <1>3, <1>4, <1>5 DEF Gathered
<1> QED
  BY <1>0, <1>2, <1>6

\* The handlers of a node itself.
LEMMA DirectFit ==
  ASSUME NEW node \in Nodes, NEW type, NEW at \in Lists(type)
  PROVE  \E v \in Seq(Calls(type)) :
           /\ v = For(node, SubSeq(at.list, at.delegated + 1, Len(at.list)))
           /\ Len(v) = Len(at.list) - at.delegated
           /\ \A i \in 1 .. Len(v) : v[i] = [elem |-> node, h |-> at.list[at.delegated + i]]
           /\ \A i, j \in 1 .. Len(v) : v[i] = v[j] => i = j
           /\ \A i \in 1 .. Len(v) : v[i].h.sel = None
<1>1. PICK s, d : /\ s = at.list /\ d = at.delegated /\ s \in Seq(HandlersOf(type)) /\ d \in Nat
                  /\ d <= Len(s) /\ DOMAIN s = 1 .. Len(s) /\ Len(s) \in Nat
                  /\ \A k \in 1 .. Len(s) : s[k] \in HandlersOf(type) /\ (s[k].sel # None <=> k <= d)
                  /\ \A i, j \in 1 .. Len(s) : s[i] = s[j] => i = j
  BY DEF Lists, DelegatedFirst, IsInjective
<1> DEFINE t == SubSeq(s, d + 1, Len(s))
<1>2. t \in Seq(HandlersOf(type)) /\ Len(t) = Len(s) - d /\ \A i \in 1 .. Len(s) - d : t[i] = s[d + i]
  <2>1. PICK m \in 1 .. Len(s) + 1 : m = d + 1
    BY <1>1
  <2>2. /\ Len(s) \in m - 1 .. Len(s) /\ Len(s) - m + 1 = Len(s) - d
        /\ \A i \in 1 .. Len(s) - d : m + i - 1 = d + i
    <3>1. Len(s) \in Int /\ d \in Int /\ m = d + 1 /\ d <= Len(s)
      BY <1>1, <2>1
    <3>2. \A i \in 1 .. Len(s) - d : m + i - 1 = d + i
      BY ONLY <3>1
    <3>3. Len(s) \in m - 1 .. Len(s) /\ Len(s) - m + 1 = Len(s) - d
      BY ONLY <3>1
    <3> QED
      BY ONLY <3>2, <3>3
  <2>3. /\ SubSeq(s, m, Len(s)) \in Seq(HandlersOf(type)) /\ Len(SubSeq(s, m, Len(s))) = Len(s) - m + 1
        /\ \A i \in 1 .. Len(s) - m + 1 : SubSeq(s, m, Len(s))[i] = s[m + i - 1]
    <3>1. s \in Seq(HandlersOf(type))
      BY <1>1
    <3> QED
      BY ONLY <2>1, <2>2, <3>1, Part
  <2> QED
    BY <2>1, <2>2, <2>3
<1> HIDE DEF t
<1>3. DOMAIN t = 1 .. Len(t) /\ Len(t) \in Nat
  BY <1>2
<1> DEFINE v == [i \in 1 .. Len(t) |-> [elem |-> node, h |-> t[i]]]
<1>4. For(node, SubSeq(at.list, at.delegated + 1, Len(at.list))) = v
  BY <1>1, <1>3 DEF For, t
<1>5. v \in Seq(Calls(type)) /\ Len(v) = Len(t)
  <2>1. \A i \in 1 .. Len(t) : [elem |-> node, h |-> t[i]] \in Calls(type)
    BY <1>2 DEF Calls
  <2>2. v \in [1 .. Len(t) -> Calls(type)]
    BY <2>1
  <2> HIDE DEF v
  <2> QED
    BY <1>3, <2>2
<1>6. \A i \in 1 .. Len(t) : v[i] = [elem |-> node, h |-> t[i]]
  OBVIOUS
<1> HIDE DEF v
<1>7. ASSUME NEW i \in 1 .. Len(t)
      PROVE  /\ d + i \in 1 .. Len(s) /\ t[i] = s[d + i] /\ ~(d + i <= d)
             /\ v[i] = [elem |-> node, h |-> s[d + i]]
  <2>1. d + i \in 1 .. Len(s) /\ ~(d + i <= d) /\ i \in 1 .. Len(s) - d
    BY <1>1, <1>2
  <2>2. t[i] = s[d + i]
    BY <1>2, <2>1
  <2> QED
    BY <1>6, <2>1, <2>2
<1>8. \A i, j \in 1 .. Len(t) : v[i] = v[j] => i = j
  <2>1. ASSUME NEW i \in 1 .. Len(t), NEW j \in 1 .. Len(t), v[i] = v[j] PROVE i = j
    <3>1. s[d + i] = s[d + j]
      <4>1. v[i] = [elem |-> node, h |-> s[d + i]] /\ v[j] = [elem |-> node, h |-> s[d + j]]
        BY <1>7
      <4>2. v[i].h = s[d + i] /\ v[j].h = s[d + j]
        BY ONLY <4>1
      <4> QED
        BY <2>1, <4>2
    <3>2. d + i = d + j
      BY <1>1, <1>7, <3>1
    <3> QED
      BY <1>1, <3>2
  <2> QED
    BY <2>1
<1>9. ASSUME NEW i \in 1 .. Len(t) PROVE v[i].h.sel = None
  <2>1. v[i].h = s[d + i] /\ d + i \in 1 .. Len(s) /\ ~(d + i <= d)
    <3>1. v[i] = [elem |-> node, h |-> s[d + i]]
      BY <1>7
    <3>2. v[i].h = s[d + i]
      BY ONLY <3>1
    <3> QED
      BY <1>7, <3>2
  <2> QED
    BY <1>1, <2>1
<1>10. /\ Len(v) = Len(at.list) - at.delegated
       /\ \A i \in 1 .. Len(v) : v[i] = [elem |-> node, h |-> at.list[at.delegated + i]]
       /\ \A i, j \in 1 .. Len(v) : v[i] = v[j] => i = j
       /\ \A i \in 1 .. Len(v) : v[i].h.sel = None
  BY <1>1, <1>2, <1>5, <1>7, <1>8, <1>9
<1> QED
  BY <1>4, <1>5, <1>10

\* A fitting queue.
QueueFits(q, type) == q \in Seq(Calls(type)) /\ InCallOrder(q)

\* and with those of the node itself, each handler at most once for an element.
LEMMA HandlersFit ==
  ASSUME NEW p, Forest(p.parent), NEW target \in Holders, NEW node \in Nodes, NEW type,
         p.events[node][type] \in Lists(type)
  PROVE  /\ QueueFits(handlers(p, node, type, target), type)
         /\ AllMatched(handlers(p, node, type, target), p, node, p.events[node][type], target)
<1>1. PICK at \in Lists(type) : at = p.events[node][type]
  OBVIOUS
<1>2. PICK below \in Seq(Holders) :
        /\ below = Before(Lineage(p, target), node) /\ IsInjective(below)
        /\ \A i \in 1 .. Len(below) : below[i] # node
  BY BelowFits
<1>3. PICK u \in Seq(Calls(type)) :
        /\ u = FlattenSeq(Parts(p, node, at, below))
        /\ \A i, j \in 1 .. Len(u) : u[i] = u[j] => i = j
        /\ \A i \in 1 .. Len(u) : \E k \in 1 .. Len(below) : \E m \in 1 .. at.delegated :
             u[i] = [elem |-> below[k], h |-> at.list[m]]
        /\ \A k \in 1 .. Len(below) : \A m \in Finds(p, node, at, below[k]) :
             \E i \in 1 .. Len(u) : u[i] = [elem |-> below[k], h |-> at.list[m]]
  <2>1. PICK u \in Seq(Calls(type)) :
          u = FlattenSeq(Parts(p, node, at, below)) /\ Gathered(u, p, node, at, below)
    BY ONLY <1>2, at \in Lists(type), DelegatedFit
  <2> QED
    BY <2>1 DEF Gathered
<1>4. PICK v \in Seq(Calls(type)) :
           /\ v = For(node, SubSeq(at.list, at.delegated + 1, Len(at.list)))
           /\ Len(v) = Len(at.list) - at.delegated
           /\ \A i \in 1 .. Len(v) : v[i] = [elem |-> node, h |-> at.list[at.delegated + i]]
           /\ \A i, j \in 1 .. Len(v) : v[i] = v[j] => i = j
           /\ \A i \in 1 .. Len(v) : v[i].h.sel = None
  BY DirectFit
<1>a. /\ at.list \in Seq(HandlersOf(type)) /\ at.delegated \in Nat
      /\ at.delegated <= Len(at.list) /\ Len(at.list) \in Nat
      /\ \A k \in 1 .. Len(at.list) : at.list[k].sel # None <=> k <= at.delegated
  <2>1. at.list \in Seq(HandlersOf(type)) /\ DOMAIN at.list = 1 .. Len(at.list)
    BY DEF Lists
  <2> QED
    BY <2>1 DEF Lists, DelegatedFirst
<1> DEFINE q == u \o v
<1>5. handlers(p, node, type, target) = q
  BY <1>1, <1>2, <1>3, <1>4 DEF handlers, Parts
<1>6. /\ q \in Seq(Calls(type)) /\ Len(q) = Len(u) + Len(v) /\ Len(u) \in Nat /\ Len(v) \in Nat
      /\ \A i \in 1 .. Len(u) : q[i] = u[i]
      /\ \A i \in 1 .. Len(v) : q[Len(u) + i] = v[i]
  BY ONLY u \in Seq(Calls(type)), v \in Seq(Calls(type))
<1> HIDE DEF q
<1>7. ASSUME NEW i \in 1 .. Len(u) PROVE u[i].elem # node /\ u[i].h.sel # None
  <2>1. PICK k \in 1 .. Len(below) : \E m \in 1 .. at.delegated :
          u[i] = [elem |-> below[k], h |-> at.list[m]]
    BY <1>3
  <2>2. PICK m \in 1 .. at.delegated : u[i] = [elem |-> below[k], h |-> at.list[m]]
    BY <2>1
  <2>3. m \in 1 .. Len(at.list) /\ m <= at.delegated
    BY <1>a
  <2> QED
    BY <1>2, <1>a, <2>2, <2>3
<1>8. ASSUME NEW i \in 1 .. Len(q)
      PROVE  \/ i \in 1 .. Len(u) /\ q[i] = u[i]
             \/ \E j \in 1 .. Len(v) : i = Len(u) + j /\ q[i] = v[j]
  <2>1. CASE i > Len(u)
    <3>1. i - Len(u) \in 1 .. Len(v) /\ i = Len(u) + (i - Len(u))
      BY <1>6, <2>1
    <3> QED
      BY <1>6, <3>1
  <2>2. CASE i <= Len(u)
    BY <1>6, <2>2
  <2>3. i > Len(u) \/ i <= Len(u)
    BY <1>6
  <2> QED
    BY ONLY <2>1, <2>2, <2>3
<1>9. ASSUME NEW j \in 1 .. Len(v) PROVE v[j].elem = node /\ v[j].h.sel = None
  <2>1. v[j] = [elem |-> node, h |-> at.list[at.delegated + j]]
    BY <1>4
  <2> QED
    BY <1>4, <2>1
<1>10. ASSUME NEW i \in 1 .. Len(q), NEW j \in 1 .. Len(q)
       PROVE  /\ q[i] = q[j] => i = j
              /\ i < j /\ q[i].h.sel = None => q[j].h.sel = None
  <2>1. CASE i \in 1 .. Len(u) /\ q[i] = u[i]
    <3>1. CASE j \in 1 .. Len(u) /\ q[j] = u[j]
      BY <1>3, <1>7, <2>1, <3>1
    <3>2. CASE \E m \in 1 .. Len(v) : j = Len(u) + m /\ q[j] = v[m]
      BY <1>7, <1>9, <2>1, <3>2
    <3> QED
      BY <1>8, <3>1, <3>2
  <2>2. CASE \E m \in 1 .. Len(v) : i = Len(u) + m /\ q[i] = v[m]
    <3>1. CASE j \in 1 .. Len(u) /\ q[j] = u[j]
      <4>1. PICK m \in 1 .. Len(v) : i = Len(u) + m /\ q[i] = v[m]
        BY <2>2
      <4>2. v[m].elem = node /\ u[j].elem # node /\ ~(i < j)
        BY <1>6, <1>7, <1>9, <3>1, <4>1
      <4> QED
        BY <3>1, <4>1, <4>2
    <3>2. CASE \E m \in 1 .. Len(v) : j = Len(u) + m /\ q[j] = v[m]
      BY <1>4, <1>9, <2>2, <3>2
    <3> QED
      BY <1>8, <3>1, <3>2
  <2> QED
    BY <1>8, <2>1, <2>2
<1>11. QueueFits(q, type)
  BY <1>6, <1>10 DEF QueueFits, InCallOrder
<1>12. ASSUME NEW k \in 1 .. Len(at.list), Meets(p, node, at.list[k], target)
       PROVE  \E j \in 1 .. Len(q) : q[j].h = at.list[k]
  <2>1. CASE k > at.delegated
    <3>1. PICK i \in 1 .. Len(v) : at.delegated + i = k
      <4>1. k - at.delegated \in 1 .. Len(v) /\ at.delegated + (k - at.delegated) = k
        BY <1>4, <1>a, <2>1
      <4> QED
        BY <4>1
    <3>2. v[i].h = at.list[k] /\ Len(u) + i \in 1 .. Len(q)
      <4>1. v[i] = [elem |-> node, h |-> at.list[at.delegated + i]]
        BY <1>4
      <4>2. Len(u) + i \in 1 .. Len(q)
        BY <1>6
      <4> QED
        BY <3>1, <4>1, <4>2
    <3> QED
      BY <1>6, <3>2
  <2>2. CASE k <= at.delegated
    <3>1. at.list[k].sel # None /\ k \in 1 .. at.delegated
      BY <1>a, <2>2
    <3>2. PICK x \in ToSet(below) \ {Document} : JQueryFinds(p, Selector[at.list[k].sel], node, x)
      BY <1>2, <1>12, <3>1 DEF Meets
    <3>3. PICK m \in 1 .. Len(below) : x = below[m] /\ x \in Elements
      <4>1. DOMAIN below = 1 .. Len(below)
        OBVIOUS
      <4> QED
        BY <4>1 DEF ToSet, Holders
    <3>4. k \in Finds(p, node, at, below[m])
      BY <3>1, <3>2, <3>3 DEF Finds
    <3>5. PICK i \in 1 .. Len(u) : u[i] = [elem |-> below[m], h |-> at.list[k]]
      BY <1>3, <3>4
    <3>6. i \in 1 .. Len(q) /\ q[i].h = at.list[k]
      BY <1>6, <3>5
    <3> QED
      BY <3>6
  <2> QED
    BY <1>a, <2>1, <2>2
<1>13. AllMatched(q, p, node, at, target)
  BY <1>12 DEF AllMatched
<1> QED
  BY <1>1, <1>5, <1>11, <1>13

-----------------------------------------------------------------------------
(***************************************************************************)
(* Events in progress: who has heard of them, and who is next.             *)
(***************************************************************************)
\* The calls in progress.
AllCalls == [elem : Nodes, h : HandlerSet]
Namespaces == {None} \union {t.ns : t \in Triggers}
EventSet ==
  [call : {"event"}, native : BOOLEAN, type : EventTypes, ns : Namespaces, target : Holders,
   path : Seq(Nodes), i : Nat, stopped : BOOLEAN, immediate : BOOLEAN, prevented : BOOLEAN,
   only : BOOLEAN, clicked : BOOLEAN, ends : BOOLEAN, due : SUBSET (Nodes \X HandlerSet),
   heard : Seq(Nodes \X Nodes \X HandlerSet), over : Nat, last : Nat]
DispatchSet == [call : {"dispatch"}, node : Nodes, i : Nat, queue : Seq(AllCalls)]
BodySet == [call : {"body"}]
CallSet == EventSet \union DispatchSet \union BodySet

\* Where in its path an event was heard; what was heard goes outwards, nothing
\* twice, what is delegated first, and after it was stopped only for one element.
Met(e, x, j) == j \in 1 .. Len(e.path) /\ e.path[j] = e.heard[x][1]
Ordered(e, x, y) ==
  /\ e.heard[x] # e.heard[y]
  /\ e.over \in 1 .. x => e.heard[x][1] = e.heard[y][1] /\ e.heard[x][2] = e.heard[y][2]
  /\ ~e.ends => /\ \A i, j : Met(e, x, i) /\ Met(e, y, j) => i <= j
                /\ e.heard[x][1] = e.heard[y][1] /\ e.heard[x][3].sel = None => e.heard[y][3].sel = None
HearingFits(e) ==
  /\ \A x, y \in 1 .. Len(e.heard) : x < y => Ordered(e, x, y)
  /\ ~e.ends => \A x \in 1 .. Len(e.heard) : \E j \in 1 .. e.i - 1 : Met(e, x, j)
StopFits(e) ==
  /\ e.over <= Len(e.heard) /\ e.last \in {0, Len(e.heard)}
  /\ e.stopped <=> e.over # 0
  /\ e.immediate <=> e.last # 0
  /\ e.immediate => e.stopped
EventFits(e) ==
  /\ e \in EventSet /\ e.i >= 1 /\ (e.ends => e.native)
  /\ \A i, j \in 1 .. Len(e.path) : e.path[i] = e.path[j] => i = j
  /\ StopFits(e) /\ HearingFits(e)

\* What is heard at the node where the event is comes from the queue.
Told(d, j) == <<d.node, d.queue[j].elem, d.queue[j].h>>
DispatchFits(d, e) ==
  /\ d \in DispatchSet /\ d.i \in 1 .. Len(d.queue) + 1 /\ InCallOrder(d.queue)
  /\ ~e.ends /\ e.i - 1 \in 1 .. Len(e.path) /\ d.node = e.path[e.i - 1]
  /\ d.i > 1 => Len(e.heard) > 0 /\ e.heard[Len(e.heard)] = Told(d, d.i - 1)
  /\ \A x \in 1 .. Len(e.heard) : e.heard[x][1] = d.node =>
       \E j \in 1 .. d.i - 1 : e.heard[x] = Told(d, j)

\* A handler is called by dispatch(), and this for an event, which comes on its own
\* or because a handler makes it come.
OnTop(c, s) ==
  /\ c.call = "event" => EventFits(c) /\ (Len(s) # 0 => s[1].call = "body")
  /\ c.call = "dispatch" => Len(s) # 0 /\ s[1].call = "event" /\ DispatchFits(c, s[1])
  /\ c.call = "body" => Len(s) # 0 /\ s[1].call = "dispatch" /\ s[1].i > 1
FrameFits(s, k) ==
  /\ s[k].call = "event" => EventFits(s[k]) /\ (k # Len(s) => s[k + 1].call = "body")
  /\ s[k].call = "dispatch" => k # Len(s) /\ s[k + 1].call = "event" /\ DispatchFits(s[k], s[k + 1])
  /\ s[k].call = "body" => k # Len(s) /\ s[k + 1].call = "dispatch" /\ s[k + 1].i > 1
StackFits(s) == s \in Seq(CallSet) /\ \A k \in 1 .. Len(s) : FrameFits(s, k)

\* A call on top of others.
LEMMA Pushed ==
  ASSUME NEW s, StackFits(s), NEW c \in CallSet, OnTop(c, s)
  PROVE  StackFits(<<c>> \o s)
<1> DEFINE u == <<c>> \o s
<1>1. /\ u \in Seq(CallSet) /\ Len(u) = Len(s) + 1 /\ Len(s) \in Nat
      /\ u[1] = c /\ \A k \in 1 .. Len(s) : u[k + 1] = s[k]
  <2>1. s \in Seq(CallSet)
    BY DEF StackFits
  <2> QED
    BY ONLY <2>1, c \in CallSet
<1> HIDE DEF u
<1>2. FrameFits(u, 1)
  <2>1. CASE Len(s) = 0
    <3>1. Len(u) = 1
      BY <1>1, <2>1
    <3> QED
      BY <1>1, <2>1, <3>1 DEF OnTop, FrameFits
  <2>2. CASE Len(s) # 0
    <3>1. u[1 + 1] = s[1] /\ Len(u) # 1
      BY <1>1, <2>2
    <3> QED
      BY <1>1, <2>2, <3>1 DEF OnTop, FrameFits
  <2> QED
    BY <2>1, <2>2
<1>3. ASSUME NEW k \in 1 .. Len(s) PROVE FrameFits(u, k + 1)
  <2>1. FrameFits(s, k) /\ u[k + 1] = s[k] /\ (k + 1 = Len(u) <=> k = Len(s))
    BY <1>1 DEF StackFits
  <2>2. k # Len(s) => u[(k + 1) + 1] = s[k + 1]
    BY <1>1
  <2> QED
    BY <2>1, <2>2 DEF FrameFits
<1>4. ASSUME NEW k \in 1 .. Len(u) PROVE FrameFits(u, k)
  <2>1. CASE k # 1
    <3>1. PICK j \in 1 .. Len(s) : k = j + 1
      <4>1. k - 1 \in 1 .. Len(s) /\ k = (k - 1) + 1
        BY <1>1, <2>1
      <4> QED
        BY <4>1
    <3> QED
      BY <1>3, <3>1
  <2> QED
    BY <1>2, <2>1
<1>5. StackFits(u)
  BY <1>1, <1>4 DEF StackFits
<1> QED
  BY <1>5 DEF u

\* What is left when some have ended.
LEMMA Dropped ==
  ASSUME NEW s, StackFits(s), NEW m \in 1 .. Len(s) + 1
  PROVE  /\ StackFits(SubSeq(s, m, Len(s))) /\ Len(SubSeq(s, m, Len(s))) = Len(s) - m + 1
         /\ \A k \in 1 .. Len(s) - m + 1 : SubSeq(s, m, Len(s))[k] = s[m + k - 1]
<1> DEFINE u == SubSeq(s, m, Len(s))
<1>1. /\ u \in Seq(CallSet) /\ Len(u) = Len(s) - m + 1 /\ Len(s) \in Nat
      /\ \A k \in 1 .. Len(s) - m + 1 : u[k] = s[m + k - 1]
  <2>1. s \in Seq(CallSet) /\ Len(s) \in m - 1 .. Len(s) /\ Len(s) \in Nat
    BY DEF StackFits
  <2> QED
    BY <2>1, Part
<1> HIDE DEF u
<1>2. ASSUME NEW k \in 1 .. Len(u) PROVE FrameFits(u, k)
  <2>1. PICK j \in 1 .. Len(s) : j = m + k - 1 /\ (k = Len(u) <=> j = Len(s)) /\ k \in 1 .. Len(s) - m + 1
    <3>1. m + k - 1 \in 1 .. Len(s) /\ (k = Len(u) <=> m + k - 1 = Len(s)) /\ k \in 1 .. Len(s) - m + 1
      BY <1>1
    <3> QED
      BY <3>1
  <2>2. FrameFits(s, j) /\ u[k] = s[j]
    BY <1>1, <2>1 DEF StackFits
  <2>3. k # Len(u) => u[k + 1] = s[j + 1]
    <3>1. ASSUME k # Len(u) PROVE u[k + 1] = s[j + 1]
      <4>1. k + 1 \in 1 .. Len(s) - m + 1 /\ m + (k + 1) - 1 = j + 1
        <5>1. m \in Int /\ k \in Int /\ Len(s) \in Int /\ j = m + k - 1
          BY <1>1, <2>1
        <5>2. m + (k + 1) - 1 = j + 1
          BY ONLY <5>1
        <5>3. k # Len(s) - m + 1 /\ k \in 1 .. Len(s) - m + 1
          BY <1>1, <2>1, <3>1
        <5>4. k + 1 \in 1 .. Len(s) - m + 1
          BY ONLY <5>1, <5>3
        <5> QED
          BY <5>2, <5>4
      <4> QED
        BY <1>1, <4>1
    <3> QED
      BY <3>1
  <2> QED
    BY <2>1, <2>2, <2>3 DEF FrameFits
<1>3. StackFits(u)
  BY <1>1, <1>2 DEF StackFits
<1> QED
  BY <1>1, <1>3 DEF u

\* There are three kinds of calls in progress.
LEMMA CallKinds ==
  ASSUME NEW c \in CallSet
  PROVE  /\ c.call \in {"event", "dispatch", "body"}
         /\ c.call = "event" => c \in EventSet
         /\ c.call = "dispatch" => c \in DispatchSet
         /\ c.call = "body" => c \in BodySet
<1>1. \A e \in EventSet : e.call = "event"
  BY DEF EventSet
<1>2. \A d \in DispatchSet : d.call = "dispatch"
  BY DEF DispatchSet
<1>3. \A b \in BodySet : b.call = "body"
  BY DEF BodySet
<1> QED
  BY <1>1, <1>2, <1>3 DEF CallSet

\* The calls under the innermost.
LEMMA Rest ==
  ASSUME NEW s, StackFits(s), s # <<>>
  PROVE  /\ StackFits(Tail(s)) /\ Len(Tail(s)) = Len(s) - 1 /\ Len(s) \in Nat /\ Len(s) >= 1
         /\ \A k \in 1 .. Len(s) - 1 : Tail(s)[k] = s[k + 1]
         /\ Head(s) = s[1] /\ s[1] \in CallSet /\ FrameFits(s, 1)
<1>0. s \in Seq(CallSet)
  BY DEF StackFits
<1>1. Len(s) \in Nat /\ Len(s) >= 1 /\ Head(s) = s[1] /\ s[1] \in CallSet /\ 1 \in 1 .. Len(s)
  BY <1>0
<1>2. PICK m \in 1 .. Len(s) + 1 : m = 2
  BY <1>1
<1>3. Tail(s) = SubSeq(s, m, Len(s))
  <2>1. SubSeq(s, m, Len(s)) \in Seq(CallSet) /\ Len(SubSeq(s, m, Len(s))) = Len(s) - 1
        /\ \A k \in 1 .. Len(s) - 1 : SubSeq(s, m, Len(s))[k] = s[k + 1]
    <3>1. Len(s) - m + 1 = Len(s) - 1 /\ \A k \in 1 .. Len(s) - 1 : m + k - 1 = k + 1
      BY <1>1, <1>2
    <3>2. /\ SubSeq(s, m, Len(s)) \in Seq(CallSet) /\ Len(SubSeq(s, m, Len(s))) = Len(s) - m + 1
          /\ \A k \in 1 .. Len(s) - m + 1 : SubSeq(s, m, Len(s))[k] = s[m + k - 1]
      <4>1. StackFits(SubSeq(s, m, Len(s)))
        BY Dropped
      <4> QED
        BY <4>1, Dropped DEF StackFits
    <3> QED
      BY <3>1, <3>2
  <2>2. Tail(s) \in Seq(CallSet) /\ Len(Tail(s)) = Len(s) - 1
        /\ \A k \in 1 .. Len(s) - 1 : Tail(s)[k] = s[k + 1]
    BY <1>0, <1>1
  <2>3. PICK x, y : x = Tail(s) /\ y = SubSeq(s, m, Len(s))
    OBVIOUS
  <2>4. /\ x \in Seq(CallSet) /\ y \in Seq(CallSet) /\ Len(x) = Len(y)
        /\ \A k \in 1 .. Len(x) : x[k] = y[k]
    BY <2>1, <2>2, <2>3
  <2>5. x = y
    BY ONLY <2>4, SeqEqual
  <2> QED
    BY <2>3, <2>5
<1>4. /\ StackFits(Tail(s)) /\ Len(Tail(s)) = Len(s) - 1
      /\ \A k \in 1 .. Len(s) - 1 : Tail(s)[k] = s[k + 1]
  <2>1. StackFits(Tail(s))
    BY <1>3, Dropped
  <2> QED
    BY <1>0, <1>1, <2>1
<1> QED
  BY <1>1, <1>4 DEF StackFits

\* Events that differ only in what the order does not depend on.
Alike(e, f) ==
  /\ f \in EventSet /\ f.native = e.native /\ f.ends = e.ends /\ f.path = e.path /\ f.i = e.i
  /\ f.heard = e.heard /\ f.over = e.over /\ f.last = e.last
  /\ f.stopped = e.stopped /\ f.immediate = e.immediate

\* Events that differ only in what is due, or prevented, fit alike.
LEMMA AlikeFits ==
  ASSUME NEW e, EventFits(e), NEW f, Alike(e, f)
  PROVE  EventFits(f) /\ \A d : DispatchFits(d, e) => DispatchFits(d, f)
<1>1. \A x, j : Met(f, x, j) <=> Met(e, x, j)
  BY DEF Met, Alike
<1>2. \A x, y : Ordered(e, x, y) => Ordered(f, x, y)
  BY <1>1 DEF Ordered, Alike
<1>3. HearingFits(f)
  BY <1>1, <1>2 DEF EventFits, HearingFits, Alike
<1>4. StopFits(f)
  BY DEF EventFits, StopFits, Alike
<1>5. EventFits(f)
  BY <1>3, <1>4 DEF EventFits, Alike
<1>6. ASSUME NEW d, DispatchFits(d, e) PROVE DispatchFits(d, f)
  BY <1>6 DEF DispatchFits, Alike
<1> QED
  BY <1>5, <1>6

\* An event in progress that becomes another.
LEMMA Replaced ==
  ASSUME NEW s, StackFits(s), NEW k \in 1 .. Len(s), s[k].call = "event",
         NEW e, EventFits(e),
         \A j \in 1 .. Len(s) : j + 1 = k => DispatchFits(s[j], e)
  PROVE  StackFits([s EXCEPT ![k] = e])
<1> DEFINE u == [s EXCEPT ![k] = e]
<1>0. s \in Seq(CallSet) /\ DOMAIN s = 1 .. Len(s) /\ Len(s) \in Nat
  BY DEF StackFits
<1>1. e \in CallSet /\ e.call = "event"
  BY DEF EventFits, EventSet, CallSet
<1>2. /\ u \in Seq(CallSet) /\ Len(u) = Len(s) /\ u[k] = e
      /\ \A j \in 1 .. Len(s) : j # k => u[j] = s[j]
  BY <1>0, <1>1
<1> HIDE DEF u
<1>3. ASSUME NEW j \in 1 .. Len(s) PROVE FrameFits(u, j)
  <2>0. FrameFits(s, j) /\ (j # Len(s) => j + 1 \in 1 .. Len(s) /\ j + 1 # j) /\ j + 1 # j
    <3>1. FrameFits(s, j)
      BY DEF StackFits
    <3>2. (j # Len(s) => j + 1 \in 1 .. Len(s) /\ j + 1 # j) /\ j + 1 # j
      <4>1. Len(s) \in Nat /\ j \in 1 .. Len(s)
        BY <1>0
      <4> QED
        BY ONLY <4>1
    <3> QED
      BY ONLY <3>1, <3>2
  <2>1. CASE j = k
    <3>1. j # Len(s) => u[j + 1] = s[j + 1]
      BY <1>2, <2>0, <2>1
    <3> QED
      BY <1>1, <1>2, <2>0, <2>1, <3>1 DEF FrameFits
  <2>2. CASE j # k /\ j + 1 = k
    BY <1>1, <1>2, <2>0, <2>2 DEF FrameFits
  <2>3. CASE j # k /\ j + 1 # k
    <3>1. j # Len(s) => u[j + 1] = s[j + 1]
      BY <1>2, <2>0, <2>3
    <3> QED
      BY <1>2, <2>0, <2>3, <3>1 DEF FrameFits
  <2> QED
    BY <2>1, <2>2, <2>3
<1>4. StackFits(u)
  BY <1>2, <1>3 DEF StackFits
<1> QED
  BY <1>4 DEF u

\* Events of which less is due.
Less(e, D) == [e EXCEPT !.due = D]

\* An event to which fewer handlers are due fits as it did.
LEMMA LessFits ==
  ASSUME NEW e, EventFits(e), NEW D, D \subseteq e.due
  PROVE  /\ Less(e, D) \in EventSet /\ Alike(e, Less(e, D)) /\ EventFits(Less(e, D))
         /\ Less(e, D).call = "event" /\ Less(e, D).due = D
         /\ \A d : DispatchFits(d, e) => DispatchFits(d, Less(e, D))
<1>1. e \in EventSet /\ D \in SUBSET (Nodes \X HandlerSet)
  BY DEF EventFits, EventSet
<1>2. /\ [e EXCEPT !.due = D] \in EventSet /\ [e EXCEPT !.due = D].due = D
      /\ [e EXCEPT !.due = D].call = "event"
  BY ONLY <1>1 DEF EventSet
<1>3. Alike(e, [e EXCEPT !.due = D])
  BY <1>1, <1>2 DEF Alike
<1> QED
  BY <1>2, <1>3, AlikeFits DEF Less

\* A change of the page takes from what is due, and from nothing else.
LEMMA PrunedFits ==
  ASSUME NEW p, NEW s, StackFits(s)
  PROVE  /\ StackFits(Pruned(p, s)) /\ Len(Pruned(p, s)) = Len(s)
         /\ \A k \in 1 .. Len(s) :
              Pruned(p, s)[k] = IF s[k].call # "event" THEN s[k]
                                ELSE Less(s[k], s[k].due \intersect
                                       Reached(p, s[k].path, s[k].type, s[k].ns, s[k].target))
<1> DEFINE u == Pruned(p, s)
<1>0. s \in Seq(CallSet) /\ DOMAIN s = 1 .. Len(s) /\ Len(s) \in Nat
  BY DEF StackFits
<1>1. u = [k \in 1 .. Len(s) |->
             IF s[k].call # "event" THEN s[k]
             ELSE Less(s[k], s[k].due \intersect
                               Reached(p, s[k].path, s[k].type, s[k].ns, s[k].target))]
  BY <1>0 DEF Pruned, Less
<1>2. \A k \in 1 .. Len(s) :
        u[k] = IF s[k].call # "event" THEN s[k]
               ELSE Less(s[k], s[k].due \intersect
                                 Reached(p, s[k].path, s[k].type, s[k].ns, s[k].target))
  BY <1>1
<1>a. DOMAIN u = 1 .. Len(s) /\ u = [k \in 1 .. Len(s) |-> u[k]]
  BY <1>1
<1> HIDE DEF u
<1>3. ASSUME NEW k \in 1 .. Len(s)
      PROVE  /\ u[k] \in CallSet /\ u[k].call = s[k].call
             /\ s[k].call # "event" => u[k] = s[k]
             /\ s[k].call = "event" =>
                  EventFits(u[k]) /\ \A d : DispatchFits(d, s[k]) => DispatchFits(d, u[k])
  <2>1. CASE s[k].call # "event"
    <3>1. u[k] = s[k]
      BY <1>2, <2>1
    <3>2. s[k] \in CallSet
      <4>1. s \in Seq(CallSet) /\ k \in 1 .. Len(s)
        BY <1>0
      <4> QED
        BY ONLY <4>1
    <3> QED
      BY <2>1, <3>1, <3>2
  <2>2. CASE s[k].call = "event"
    <3>1. PICK D : D \subseteq s[k].due /\ u[k] = Less(s[k], D)
      BY <1>2, <2>2
    <3>2. EventFits(s[k])
      BY <2>2 DEF StackFits, FrameFits
    <3>3. /\ Less(s[k], D) \in EventSet /\ Less(s[k], D).call = "event" /\ EventFits(Less(s[k], D))
          /\ \A d : DispatchFits(d, s[k]) => DispatchFits(d, Less(s[k], D))
      <4>1. PICK e : e = s[k]
        OBVIOUS
      <4> QED
        BY ONLY <3>1, <3>2, <4>1, LessFits
    <3> QED
      BY <2>2, <3>1, <3>3 DEF CallSet
  <2> QED
    BY <2>1, <2>2
<1>4. u \in Seq(CallSet) /\ Len(u) = Len(s)
  <2>1. u \in [1 .. Len(s) -> CallSet]
    BY <1>a, <1>3
  <2> QED
    BY <1>0, <2>1
<1>5. ASSUME NEW k \in 1 .. Len(s) PROVE FrameFits(u, k)
  <2>1. FrameFits(s, k) /\ (k # Len(s) => k + 1 \in 1 .. Len(s))
    <3>1. FrameFits(s, k)
      BY DEF StackFits
    <3>2. k # Len(s) => k + 1 \in 1 .. Len(s)
      <4>1. Len(s) \in Nat /\ k \in 1 .. Len(s)
        BY <1>0
      <4> QED
        BY ONLY <4>1
    <3> QED
      BY ONLY <3>1, <3>2
  <2> QED
    BY <1>3, <1>4, <2>1 DEF FrameFits
<1>6. StackFits(u)
  BY <1>4, <1>5 DEF StackFits
<1> QED
  BY <1>2, <1>4, <1>6 DEF u

\* An event as it begins, on its own or as the end of a trigger().
LEMMA EventBegins ==
  ASSUME NEW native \in BOOLEAN, NEW type \in EventTypes, NEW ns \in Namespaces,
         NEW target \in Holders, NEW path \in Seq(Nodes), IsInjective(path),
         NEW only \in BOOLEAN, NEW clicked \in BOOLEAN
  PROVE  EventFits([Event(native, type, ns, target, path) EXCEPT !.clicked = clicked, !.only = only])
<1> DEFINE due == Reached(page, path, type, ns, target)
           e == [Event(native, type, ns, target, path) EXCEPT !.clicked = clicked, !.only = only]
<1>1. due \in SUBSET (Nodes \X HandlerSet)
  <2>1. ToSet(path) \subseteq Nodes
    <3>1. \A i \in DOMAIN path : path[i] \in Nodes
      OBVIOUS
    <3> QED
      BY <3>1 DEF ToSet
  <2>2. due \subseteq ToSet(path) \X {b.h : b \in Bindings}
    BY DEF Reached
  <2> QED
    BY <2>1, <2>2 DEF HandlerSet
<1>2. PICK o : /\ o = Event(native, type, ns, target, path)
               /\ o \in EventSet /\ o.i = 1 /\ o.path = path /\ o.heard = <<>> /\ o.over = 0
               /\ o.last = 0 /\ ~o.stopped /\ ~o.immediate /\ ~o.ends
  <2> HIDE DEF due
  <2>1. PICK o : o = [call |-> "event", native |-> native, type |-> type, ns |-> ns, target |-> target,
   path |-> path, i |-> 1, stopped |-> FALSE, immediate |-> FALSE, prevented |-> FALSE,
   only |-> FALSE, clicked |-> FALSE, ends |-> FALSE,
   due |-> due, heard |-> <<>>, over |-> 0, last |-> 0]
    OBVIOUS
  <2>2. o = Event(native, type, ns, target, path)
    BY <2>1 DEF Event, due
  <2>3. o \in EventSet
    BY <1>1, <2>1 DEF EventSet
  <2>4. /\ o.i = 1 /\ o.path = path /\ o.heard = <<>> /\ o.over = 0
        /\ o.last = 0 /\ ~o.stopped /\ ~o.immediate /\ ~o.ends
    BY ONLY <2>1
  <2> QED
    BY ONLY <2>2, <2>3, <2>4
<1>3. /\ e \in EventSet
      /\ e.i = 1 /\ e.path = path /\ e.heard = <<>> /\ e.over = 0 /\ e.last = 0
      /\ ~e.stopped /\ ~e.immediate /\ ~e.ends
  <2>1. [o EXCEPT !.clicked = clicked, !.only = only] \in EventSet
    BY <1>2 DEF EventSet
  <2>2. e = [o EXCEPT !.clicked = clicked, !.only = only]
    BY <1>2
  <2> HIDE DEF e
  <2> QED
    BY <1>2, <2>1, <2>2
<1> HIDE DEF e
<1>4. /\ e.i = 1 /\ e.path = path /\ e.heard = <<>> /\ e.over = 0 /\ e.last = 0
      /\ ~e.stopped /\ ~e.immediate /\ ~e.ends
  BY <1>3
<1>5. DOMAIN path = 1 .. Len(path)
  OBVIOUS
<1>6. HearingFits(e) /\ StopFits(e)
  BY <1>4, Len(<<>>) = 0 DEF HearingFits, StopFits
<1>7. EventFits(e)
  BY <1>3, <1>4, <1>5, <1>6 DEF EventFits, IsInjective
<1> QED
  BY <1>7 DEF e

\* The event by which trigger() ends begins with what was heard before.
LEMMA EndBegins ==
  ASSUME NEW type \in EventTypes, NEW target \in Holders, NEW path \in Seq(Nodes), IsInjective(path),
         NEW o, EventFits(o), ~o.ends
  PROVE  EventFits([Event(TRUE, type, None, target, path) EXCEPT
                      !.clicked = TRUE, !.ends = TRUE, !.due = {}, !.heard = o.heard])
<1> DEFINE e == [Event(TRUE, type, None, target, path) EXCEPT
                      !.clicked = TRUE, !.ends = TRUE, !.due = {}, !.heard = o.heard]
<1>1. PICK due : due \in SUBSET (Nodes \X HandlerSet) /\ due = Reached(page, path, type, None, target)
  <2>1. ToSet(path) \subseteq Nodes
    <3>1. \A i \in DOMAIN path : path[i] \in Nodes
      OBVIOUS
    <3> QED
      BY <3>1 DEF ToSet
  <2> QED
    BY <2>1 DEF HandlerSet, Reached
<1>2. o.heard \in Seq(Nodes \X Nodes \X HandlerSet) /\ None \in Namespaces
  BY DEF EventFits, EventSet, Namespaces
<1>3. PICK w : /\ w = Event(TRUE, type, None, target, path)
               /\ w \in EventSet /\ w.i = 1 /\ w.path = path /\ w.over = 0 /\ w.native
               /\ w.last = 0 /\ ~w.stopped /\ ~w.immediate
  <2>1. PICK w : w = [call |-> "event", native |-> TRUE, type |-> type, ns |-> None, target |-> target,
   path |-> path, i |-> 1, stopped |-> FALSE, immediate |-> FALSE, prevented |-> FALSE,
   only |-> FALSE, clicked |-> FALSE, ends |-> FALSE,
   due |-> due, heard |-> <<>>, over |-> 0, last |-> 0]
    OBVIOUS
  <2>2. w = Event(TRUE, type, None, target, path)
    BY <1>1, <2>1 DEF Event
  <2>3. w \in EventSet
    BY <1>1, <1>2, <2>1 DEF EventSet
  <2>4. /\ w.i = 1 /\ w.path = path /\ w.over = 0 /\ w.native
        /\ w.last = 0 /\ ~w.stopped /\ ~w.immediate
    BY ONLY <2>1
  <2> QED
    BY ONLY <2>2, <2>3, <2>4
<1>4. /\ e \in EventSet
      /\ e.i = 1 /\ e.path = path /\ e.heard = o.heard /\ e.over = 0 /\ e.last = 0
      /\ ~e.stopped /\ ~e.immediate /\ e.ends /\ e.native
  <2>1. PICK z : z = o.heard /\ z \in Seq(Nodes \X Nodes \X HandlerSet)
    BY <1>2
  <2>2. [w EXCEPT !.clicked = TRUE, !.ends = TRUE, !.due = {}, !.heard = z] \in EventSet
    BY <1>3, <2>1 DEF EventSet
  <2>3. e = [w EXCEPT !.clicked = TRUE, !.ends = TRUE, !.due = {}, !.heard = z]
    BY <1>3, <2>1
  <2>4. w.i = 1 /\ DOMAIN w = {"call", "native", "type", "ns", "target", "path", "i", "stopped",
          "immediate", "prevented", "only", "clicked", "ends", "due", "heard", "over", "last"}
    BY <1>3 DEF EventSet
  <2> HIDE DEF e
  <2> QED
    BY <1>3, <2>1, <2>2, <2>3, <2>4
<1> HIDE DEF e
<1>5. DOMAIN path = 1 .. Len(path) /\ Len(o.heard) \in Nat
  BY <1>2
<1>6. StopFits(e)
  BY <1>4, <1>5 DEF StopFits
<1>7. HearingFits(e)
  <2>1. \A x, y \in 1 .. Len(o.heard) : x < y => o.heard[x] # o.heard[y]
    BY DEF EventFits, HearingFits, Ordered
  <2>2. \A x : ~(0 \in 1 .. x)
    OBVIOUS
  <2>3. \A x, y \in 1 .. Len(o.heard) : x < y => Ordered(e, x, y)
    BY <1>4, <2>1, <2>2 DEF Ordered
  <2> QED
    BY <1>4, <2>3 DEF HearingFits
<1>8. EventFits(e)
  BY <1>4, <1>5, <1>6, <1>7 DEF EventFits, IsInjective
<1> QED
  BY <1>8 DEF e

\* An event comes to a node of its path, where dispatch() begins.
LEMMA DispatchBegins ==
  ASSUME NEW e, EventFits(e), ~e.ends, NEW i \in e.i .. Len(e.path),
         NEW queue \in Seq(AllCalls), InCallOrder(queue)
  PROVE  /\ EventFits([e EXCEPT !.i = i + 1])
         /\ DispatchFits([call |-> "dispatch", node |-> e.path[i], i |-> 1, queue |-> queue],
                         [e EXCEPT !.i = i + 1])
<1> DEFINE f == [e EXCEPT !.i = i + 1]
           d == [call |-> "dispatch", node |-> e.path[i], i |-> 1, queue |-> queue]
<1>1. /\ e \in EventSet /\ e.i \in Nat /\ e.i >= 1 /\ e.path \in Seq(Nodes) /\ Len(e.path) \in Nat
      /\ e.heard \in Seq(Nodes \X Nodes \X HandlerSet) /\ Len(e.heard) \in Nat
  BY DEF EventFits, EventSet
<1>2. /\ i \in 1 .. Len(e.path) /\ i + 1 \in Nat /\ i + 1 >= 1 /\ (i + 1) - 1 = i
      /\ \A j : j \in 1 .. e.i - 1 => j \in 1 .. i /\ j < i
  BY <1>1
<1>3. /\ f \in EventSet /\ f.i = i + 1 /\ f.native = e.native /\ f.ends = e.ends /\ f.path = e.path
      /\ f.heard = e.heard /\ f.over = e.over /\ f.last = e.last
      /\ f.stopped = e.stopped /\ f.immediate = e.immediate
  BY <1>1, <1>2 DEF EventSet
<1> HIDE DEF f
<1>4. \A x, j : Met(f, x, j) <=> Met(e, x, j)
  BY <1>3 DEF Met
<1>5. ASSUME NEW x \in 1 .. Len(e.heard) PROVE \E j \in 1 .. i : j < i /\ Met(e, x, j)
  BY <1>2 DEF EventFits, HearingFits
<1>6. HearingFits(f)
  <2>1. \A x, y : Ordered(e, x, y) => Ordered(f, x, y)
    BY <1>3, <1>4 DEF Ordered
  <2> QED
    BY <1>2, <1>3, <1>4, <1>5, <2>1 DEF EventFits, HearingFits
<1>7. EventFits(f)
  BY <1>2, <1>3, <1>6 DEF EventFits, StopFits
<1>8. /\ d \in DispatchSet /\ d.i = 1 /\ d.node = e.path[i] /\ d.queue = queue
  <2>1. e.path[i] \in Nodes /\ 1 \in Nat
    BY <1>1, <1>2
  <2> QED
    BY <2>1 DEF DispatchSet
<1> HIDE DEF d
<1>9. ASSUME NEW x \in 1 .. Len(e.heard) PROVE e.heard[x][1] # e.path[i]
  <2>1. PICK j \in 1 .. i : j < i /\ Met(e, x, j)
    BY <1>5
  <2>2. j \in 1 .. Len(e.path) /\ e.path[j] = e.heard[x][1] /\ j # i
    BY <2>1 DEF Met
  <2> QED
    BY <1>2, <2>2 DEF EventFits
<1>10. DispatchFits(d, f)
  <2>1. d.i \in 1 .. Len(d.queue) + 1 /\ ~(d.i > 1)
    BY <1>8
  <2> QED
    BY <1>2, <1>3, <1>8, <1>9, <2>1 DEF DispatchFits
<1> QED
  BY <1>7, <1>10 DEF f, d

\* It is stopped by a handler.
LEMMA StoppedFits ==
  ASSUME NEW e, EventFits(e), Len(e.heard) > 0, NEW f \in EventSet,
         f.native = e.native, f.ends = e.ends, f.path = e.path, f.i = e.i, f.heard = e.heard,
         f.stopped, f.over = Once(e.over, e.heard),
         \/ f.immediate = e.immediate /\ f.last = e.last
         \/ f.immediate /\ f.last = Len(e.heard)
  PROVE  EventFits(f) /\ \A d : DispatchFits(d, e) => DispatchFits(d, f)
<1>1. /\ e \in EventSet /\ e.heard \in Seq(Nodes \X Nodes \X HandlerSet) /\ Len(e.heard) \in Nat
      /\ e.over \in Nat /\ e.over <= Len(e.heard)
  BY DEF EventFits, EventSet, StopFits
<1>2. \A x, j : Met(f, x, j) <=> Met(e, x, j)
  BY DEF Met
<1>3. StopFits(f)
  BY <1>1 DEF StopFits, Once, EventFits
<1>4. ASSUME NEW x \in 1 .. Len(e.heard), NEW y \in 1 .. Len(e.heard), x < y PROVE Ordered(f, x, y)
  <2>1. Ordered(e, x, y)
    BY <1>4 DEF EventFits, HearingFits
  <2>2. f.over \in 1 .. x => e.over \in 1 .. x
    BY <1>1, <1>4 DEF Once
  <2> QED
    BY <1>2, <2>1, <2>2 DEF Ordered
<1>5. HearingFits(f)
  BY <1>2, <1>4 DEF EventFits, HearingFits
<1>6. EventFits(f)
  BY <1>3, <1>5 DEF EventFits
<1>7. ASSUME NEW d, DispatchFits(d, e) PROVE DispatchFits(d, f)
  BY <1>7 DEF DispatchFits
<1> QED
  BY <1>6, <1>7

\* dispatch() calls the next of its handlers.
MayCall(d, e, i) ==
  /\ i \in d.i .. Len(d.queue) /\ ~e.immediate
  /\ e.stopped => d.i > 1 /\ d.queue[i].elem = d.queue[d.i - 1].elem

\* One more handler that the queue allows is heard in order.
LEMMA HeardFurther ==
  ASSUME NEW e, EventFits(e), NEW d, DispatchFits(d, e), NEW i, MayCall(d, e, i)
  PROVE  /\ EventFits([e EXCEPT !.heard = Append(@, Told(d, i))])
         /\ DispatchFits([d EXCEPT !.i = i + 1], [e EXCEPT !.heard = Append(@, Told(d, i))])
         /\ [d EXCEPT !.i = i + 1].i > 1
<1> DEFINE n == Len(e.heard)
           t == Told(d, i)
           T == Nodes \X Nodes \X HandlerSet
           f == [e EXCEPT !.heard = Append(@, t)]
           g == [d EXCEPT !.i = i + 1]
<1>1. /\ e \in EventSet /\ e.heard \in Seq(T) /\ n \in Nat /\ e.i \in Nat
      /\ e.over \in Nat /\ e.over <= n /\ e.last \in {0, n} /\ e.path \in Seq(Nodes)
  BY DEF EventFits, EventSet, StopFits
<1>2. /\ d \in DispatchSet /\ d.node \in Nodes /\ d.queue \in Seq(AllCalls) /\ Len(d.queue) \in Nat
      /\ d.i \in Nat /\ d.i >= 1 /\ i \in Nat /\ i >= d.i /\ i \in 1 .. Len(d.queue)
      /\ d.i - 1 < i /\ \A j \in 1 .. d.i - 1 : j \in 1 .. Len(d.queue) /\ j < i /\ j \in 1 .. i
      /\ d.node = e.path[e.i - 1] /\ e.i - 1 \in 1 .. Len(e.path) /\ ~e.ends
  <2>1. /\ d \in DispatchSet /\ d.node \in Nodes /\ d.queue \in Seq(AllCalls) /\ Len(d.queue) \in Nat
        /\ d.i \in 1 .. Len(d.queue) + 1 /\ i \in d.i .. Len(d.queue)
    BY DEF DispatchFits, DispatchSet, MayCall
  <2>2. d.node = e.path[e.i - 1] /\ e.i - 1 \in 1 .. Len(e.path) /\ ~e.ends
    BY DEF DispatchFits
  <2>3. PICK m, l : m = d.i /\ l = Len(d.queue)
    OBVIOUS
  <2>4. m \in 1 .. l + 1 /\ i \in m .. l /\ l \in Nat
    BY <2>1, <2>3
  <2>5. /\ m \in Nat /\ m >= 1 /\ i \in Nat /\ i >= m /\ i \in 1 .. l
        /\ m - 1 < i /\ \A j \in 1 .. m - 1 : j \in 1 .. l /\ j < i /\ j \in 1 .. i
    BY ONLY <2>4
  <2> QED
    BY ONLY <2>1, <2>2, <2>3, <2>5
<1>3. d.queue[i] \in AllCalls /\ t \in T /\ t[1] = d.node /\ t[2] = d.queue[i].elem /\ t[3] = d.queue[i].h
  <2>1. d.queue[i] \in AllCalls
    BY <1>2
  <2>2. d.queue[i].elem \in Nodes /\ d.queue[i].h \in HandlerSet
    BY <2>1 DEF AllCalls
  <2> QED
    BY <1>2, <2>1, <2>2 DEF Told
<1> HIDE DEF T, t, n
<1>4. PICK s : /\ s = Append(e.heard, t) /\ s \in Seq(T) /\ Len(s) = n + 1 /\ s[n + 1] = t
               /\ \A x \in 1 .. n : s[x] = e.heard[x]
  <2>1. PICK h \in Seq(T) : h = e.heard /\ Len(h) = n
    BY <1>1 DEF n
  <2>2. /\ Append(h, t) \in Seq(T) /\ Len(Append(h, t)) = Len(h) + 1 /\ Append(h, t)[Len(h) + 1] = t
        /\ \A x \in 1 .. Len(h) : Append(h, t)[x] = h[x]
    <3>1. t \in T
      BY <1>3
    <3>2. h \in Seq(T)
      OBVIOUS
    <3> QED
      BY ONLY <3>1, <3>2
  <2> QED
    BY <2>1, <2>2
<1>5. /\ f \in EventSet /\ f.heard = s /\ f.native = e.native /\ f.ends = e.ends /\ f.path = e.path
      /\ f.i = e.i /\ f.over = e.over /\ f.last = e.last
      /\ f.stopped = e.stopped /\ f.immediate = e.immediate
  <2>1. f = [e EXCEPT !.heard = s]
    BY <1>4
  <2> HIDE DEF f
  <2> QED
    BY <1>1, <1>4, <2>1 DEF EventSet, T
<1>6. g \in DispatchSet /\ g.i = i + 1 /\ g.node = d.node /\ g.queue = d.queue
  BY <1>2 DEF DispatchSet
<1> HIDE DEF f, g
<1>7. /\ \A x \in 1 .. n : \A j : Met(f, x, j) <=> Met(e, x, j)
      /\ \A x \in 1 .. n : f.heard[x] = e.heard[x]
      /\ f.heard[n + 1] = t /\ Len(f.heard) = n + 1
      /\ \A x \in 1 .. n + 1 : x \in 1 .. n \/ x = n + 1
  <2>1. \A x \in 1 .. n : f.heard[x] = e.heard[x]
    BY <1>4, <1>5
  <2>2. \A x \in 1 .. n : \A j : Met(f, x, j) <=> Met(e, x, j)
    BY <1>5, <2>1 DEF Met
  <2>3. \A x \in 1 .. n + 1 : x \in 1 .. n \/ x = n + 1
    BY <1>1
  <2> QED
    BY <1>4, <1>5, <2>1, <2>2, <2>3
<1>8. \A j, k \in 1 .. Len(e.path) : e.path[j] = e.path[k] => j = k
  BY DEF EventFits
<1>9. \A j : Met(f, n + 1, j) <=> j = e.i - 1
  <2>1. \A j : Met(f, n + 1, j) <=> j \in 1 .. Len(e.path) /\ e.path[j] = d.node
    BY <1>3, <1>5, <1>7 DEF Met
  <2> QED
    BY <1>2, <1>8, <2>1
<1>10. \A x \in 1 .. n : \E j \in 1 .. e.i - 1 : Met(e, x, j)
  BY <1>2 DEF EventFits, HearingFits, n
<1>11. ASSUME NEW x \in 1 .. n, e.heard[x][1] = d.node
       PROVE  \E j \in 1 .. d.i - 1 : e.heard[x] = Told(d, j)
  BY <1>11 DEF DispatchFits, n
<1>12. ASSUME NEW x \in 1 .. n, NEW y \in 1 .. n, x < y PROVE Ordered(f, x, y)
  <2>1. Ordered(e, x, y)
    BY <1>12 DEF EventFits, HearingFits, n
  <2> QED
    BY <1>5, <1>7, <2>1 DEF Ordered
<1>13. ASSUME NEW x \in 1 .. n PROVE Ordered(f, x, n + 1)
  <2>1. e.heard[x] # t
    <3> SUFFICES ASSUME e.heard[x] = t PROVE FALSE
      OBVIOUS
    <3>1. PICK j \in 1 .. d.i - 1 : t = Told(d, j)
      BY <1>3, <1>11
    <3>2. d.queue[j] \in AllCalls /\ j \in 1 .. Len(d.queue) /\ j # i
      BY <1>2
    <3>3. d.queue[j].elem = d.queue[i].elem /\ d.queue[j].h = d.queue[i].h
      BY <3>1 DEF t, Told
    <3>4. d.queue[j] = d.queue[i]
      BY <1>3, <3>2, <3>3 DEF AllCalls
    <3> QED
      BY <1>2, <3>2, <3>4 DEF DispatchFits, InCallOrder
  <2>2. ASSUME e.over \in 1 .. x PROVE e.heard[x][1] = t[1] /\ e.heard[x][2] = t[2]
    <3>1. e.stopped /\ d.i > 1 /\ d.queue[i].elem = d.queue[d.i - 1].elem
      BY <2>2 DEF EventFits, StopFits, MayCall
    <3>2. n > 0 /\ e.heard[n] = Told(d, d.i - 1)
      BY <3>1 DEF DispatchFits, n
    <3>3. e.heard[n][1] = t[1] /\ e.heard[n][2] = t[2]
      BY <1>3, <3>1, <3>2 DEF Told
    <3>4. CASE x = n
      BY <3>3, <3>4
    <3>5. CASE x # n
      <4>1. n \in 1 .. n /\ x < n
        BY <1>1, <3>2, <3>5
      <4>2. Ordered(e, x, n)
        BY <4>1 DEF EventFits, HearingFits, n
      <4> QED
        BY <2>2, <3>3, <4>2 DEF Ordered
    <3> QED
      BY <3>4, <3>5
  <2>3. ASSUME NEW j, NEW k, Met(f, x, j), Met(f, n + 1, k) PROVE j <= k
    <3>1. PICK l \in 1 .. e.i - 1 : Met(e, x, l)
      BY <1>10
    <3>2. Met(e, x, j) /\ k = e.i - 1
      BY <1>7, <1>9, <2>3
    <3>3. j = l
      BY <1>8, <3>1, <3>2 DEF Met
    <3> QED
      BY <1>1, <3>2, <3>3
  <2>4. ASSUME e.heard[x][1] = t[1], e.heard[x][3].sel = None PROVE t[3].sel = None
    <3>1. PICK j \in 1 .. d.i - 1 : e.heard[x] = Told(d, j)
      BY <1>3, <1>11, <2>4
    <3>2. d.queue[j].h.sel = None /\ j \in 1 .. Len(d.queue) /\ j < i
      BY <1>2, <2>4, <3>1 DEF Told
    <3>3. d.queue[i].h.sel = None
      BY <1>2, <3>2 DEF DispatchFits, InCallOrder
    <3> QED
      BY <1>3, <3>3
  <2> QED
    BY <1>5, <1>7, <2>1, <2>2, <2>3, <2>4 DEF Ordered
<1>14. HearingFits(f)
  <2>1. ASSUME NEW x \in 1 .. n + 1, NEW y \in 1 .. n + 1, x < y PROVE Ordered(f, x, y)
    <3>1. x \in 1 .. n
      BY <1>1, <2>1
    <3> QED
      BY <1>7, <1>12, <1>13, <2>1, <3>1
  <2>2. ASSUME NEW x \in 1 .. n + 1 PROVE \E j \in 1 .. e.i - 1 : Met(f, x, j)
    <3>1. CASE x \in 1 .. n
      BY <1>7, <1>10, <3>1
    <3>2. CASE x = n + 1
      <4>1. e.i - 1 \in 1 .. e.i - 1
        BY <1>2
      <4> QED
        BY <1>9, <3>2, <4>1
    <3> QED
      BY <1>7, <3>1, <3>2
  <2> QED
    BY <1>5, <1>7, <2>1, <2>2 DEF HearingFits
<1>15. StopFits(f)
  <2>1. e.last = 0 /\ ~e.immediate
    BY DEF EventFits, StopFits, MayCall
  <2>2. e.over <= n + 1
    BY <1>1
  <2> QED
    BY <1>5, <1>7, <2>1, <2>2 DEF EventFits, StopFits
<1>16. EventFits(f)
  BY <1>5, <1>14, <1>15 DEF EventFits
<1>17. ASSUME NEW x \in 1 .. n + 1, f.heard[x][1] = d.node
       PROVE  \E j \in 1 .. i : f.heard[x] = Told(g, j)
  <2>1. \A j : Told(g, j) = Told(d, j)
    BY <1>6 DEF Told
  <2>2. CASE x \in 1 .. n
    <3>1. PICK j \in 1 .. d.i - 1 : e.heard[x] = Told(d, j)
      BY <1>7, <1>11, <1>17, <2>2
    <3> QED
      BY <1>2, <1>7, <2>1, <2>2, <3>1
  <2>3. CASE x = n + 1
    <3>1. i \in 1 .. i
      BY <1>2
    <3> QED
      BY <1>7, <2>1, <2>3, <3>1 DEF t
  <2> QED
    BY <1>7, <2>2, <2>3
<1>18. DispatchFits(g, f)
  <2>1. g.i \in 1 .. Len(g.queue) + 1 /\ g.i - 1 = i /\ g.i > 1 /\ n + 1 > 0
    BY <1>1, <1>2, <1>6
  <2>2. f.heard[Len(f.heard)] = Told(g, g.i - 1)
    <3>1. Told(g, i) = t
      BY <1>6 DEF Told, t
    <3> QED
      BY <1>7, <2>1, <3>1
  <2>3. InCallOrder(g.queue)
    BY <1>6 DEF DispatchFits
  <2> QED
    BY <1>2, <1>5, <1>6, <1>7, <1>17, <2>1, <2>2, <2>3 DEF DispatchFits
<1>19. g.i > 1
  BY <1>2, <1>6
<1> QED
  BY <1>16, <1>18, <1>19 DEF f, g, t

-----------------------------------------------------------------------------
(***************************************************************************)
(* The steps leave the calls in progress in order.                         *)
(***************************************************************************)
\* Calls in progress, none of which is the end of a trigger().
NoEnds(s) == \A k \in 1 .. Len(s) : s[k].call = "event" => ~s[k].ends
Going(s) == StackFits(s) /\ NoEnds(s)

\* No call is in progress at first.
LEMMA NothingGoing == Going(<<>>)
<1>1. <<>> \in Seq(CallSet) /\ Len(<<>>) = 0
  OBVIOUS
<1>2. \A k \in 1 .. 0 : FALSE
  OBVIOUS
<1> QED
  BY <1>1, <1>2 DEF Going, StackFits, NoEnds

\* A call is made,
LEMMA GoingPushed ==
  ASSUME NEW s, Going(s), NEW c \in CallSet, OnTop(c, s), c.call = "event" => ~c.ends
  PROVE  Going(<<c>> \o s)
<1> DEFINE u == <<c>> \o s
<1>1. StackFits(u)
  BY Pushed DEF Going
<1>2. /\ Len(u) = Len(s) + 1 /\ Len(s) \in Nat
      /\ u[1] = c /\ \A k \in 1 .. Len(s) : u[k + 1] = s[k]
  <2>1. s \in Seq(CallSet)
    BY DEF Going, StackFits
  <2> QED
    BY ONLY <2>1, c \in CallSet
<1> HIDE DEF u
<1>3. ASSUME NEW k \in 1 .. Len(u), u[k].call = "event" PROVE ~u[k].ends
  <2>1. CASE k = 1
    BY <1>2, <1>3, <2>1
  <2>2. CASE k # 1
    <3>1. PICK j \in 1 .. Len(s) : k = j + 1
      <4>1. k - 1 \in 1 .. Len(s) /\ k = (k - 1) + 1
        BY <1>2, <2>2
      <4> QED
        BY <4>1
    <3> QED
      BY <1>2, <1>3, <3>1 DEF Going, NoEnds
  <2> QED
    BY <2>1, <2>2
<1> QED
  BY <1>1, <1>3 DEF Going, NoEnds, u

\* calls end,
LEMMA GoingDropped ==
  ASSUME NEW s, Going(s), NEW m \in 1 .. Len(s) + 1
  PROVE  Going(SubSeq(s, m, Len(s)))
<1> DEFINE u == SubSeq(s, m, Len(s))
<1>1. StackFits(u) /\ Len(u) = Len(s) - m + 1 /\ \A k \in 1 .. Len(s) - m + 1 : u[k] = s[m + k - 1]
  BY Dropped DEF Going
<1>2. Len(s) \in Nat
  BY DEF Going, StackFits
<1> HIDE DEF u
<1>3. ASSUME NEW k \in 1 .. Len(u), u[k].call = "event" PROVE ~u[k].ends
  <2>1. PICK j \in 1 .. Len(s) : j = m + k - 1 /\ k \in 1 .. Len(s) - m + 1
    <3>1. m + k - 1 \in 1 .. Len(s) /\ k \in 1 .. Len(s) - m + 1
      BY <1>1, <1>2
    <3> QED
      BY <3>1
  <2>2. u[k] = s[j]
    BY <1>1, <2>1
  <2> QED
    BY <1>3, <2>2 DEF Going, NoEnds
<1> QED
  BY <1>1, <1>3 DEF Going, NoEnds, u

\* an event is changed on its way,
LEMMA GoingReplaced ==
  ASSUME NEW s, Going(s), NEW k \in 1 .. Len(s), s[k].call = "event",
         NEW e, EventFits(e), ~e.ends,
         \A j \in 1 .. Len(s) : j + 1 = k => DispatchFits(s[j], e)
  PROVE  Going([s EXCEPT ![k] = e])
<1> DEFINE u == [s EXCEPT ![k] = e]
<1>1. StackFits(u)
  BY Replaced DEF Going
<1>2. s \in Seq(CallSet) /\ DOMAIN s = 1 .. Len(s) /\ Len(s) \in Nat
  BY DEF Going, StackFits
<1>3. Len(u) = Len(s) /\ u[k] = e /\ \A j \in 1 .. Len(s) : j # k => u[j] = s[j]
  BY <1>2
<1> HIDE DEF u
<1>4. NoEnds(u)
  BY <1>3 DEF Going, NoEnds
<1> QED
  BY <1>1, <1>4 DEF Going, u

\* the page is changed under it: the calls that go on are in order.
LEMMA GoingPruned ==
  ASSUME NEW p, NEW s, Going(s)
  PROVE  Going(Pruned(p, s))
<1>1. /\ StackFits(Pruned(p, s)) /\ Len(Pruned(p, s)) = Len(s)
      /\ \A k \in 1 .. Len(s) : Pruned(p, s)[k] =
           IF s[k].call # "event" THEN s[k]
           ELSE Less(s[k], s[k].due \intersect
                             Reached(p, s[k].path, s[k].type, s[k].ns, s[k].target))
  BY PrunedFits DEF Going
<1>2. ASSUME NEW k \in 1 .. Len(s), Pruned(p, s)[k].call = "event" PROVE ~Pruned(p, s)[k].ends
  <2>1. CASE s[k].call # "event"
    BY <1>1, <1>2, <2>1
  <2>2. CASE s[k].call = "event"
    <3>1. PICK e, D : e = s[k] /\ D \subseteq e.due /\ Pruned(p, s)[k] = Less(e, D)
      <4>1. Pruned(p, s)[k] = Less(s[k], s[k].due \intersect
                             Reached(p, s[k].path, s[k].type, s[k].ns, s[k].target))
        BY <1>1, <2>2
      <4> QED
        BY <4>1
    <3>2. EventFits(e) /\ ~e.ends
      BY <2>2, <3>1 DEF Going, NoEnds, StackFits, FrameFits
    <3>3. Alike(e, Less(e, D))
      BY ONLY <3>1, <3>2, LessFits
    <3> QED
      BY <3>1, <3>2, <3>3 DEF Alike
  <2> QED
    BY <2>1, <2>2
<1> QED
  BY <1>1, <1>2 DEF Going, NoEnds

\* A handler is called by dispatch() for an event.
LEMMA InBody ==
  ASSUME NEW s, StackFits(s), s # <<>>, s[1].call = "body"
  PROVE  /\ Len(s) \in Nat /\ Len(s) >= 3 /\ s[2].call = "dispatch" /\ s[3].call = "event"
         /\ s[2].i > 1 /\ DispatchFits(s[2], s[3]) /\ EventFits(s[3]) /\ Len(s[3].heard) > 0
         /\ Len(s) # 3 => s[4].call = "body"
<1>1. Len(s) \in Nat /\ Len(s) >= 1 /\ FrameFits(s, 1)
  BY Rest
<1>2. Len(s) # 1 /\ s[2].call = "dispatch" /\ s[2].i > 1
  <2>1. 1 + 1 = 2
    OBVIOUS
  <2> QED
    BY <1>1, <2>1 DEF FrameFits
<1>3. Len(s) # 2 /\ s[3].call = "event" /\ DispatchFits(s[2], s[3])
  <2>1. 2 \in 1 .. Len(s) /\ 2 + 1 = 3
    <3>1. Len(s) \in Nat /\ Len(s) >= 1 /\ Len(s) # 1
      BY <1>1, <1>2
    <3> QED
      BY ONLY <3>1
  <2>2. FrameFits(s, 2)
    BY <2>1 DEF StackFits
  <2> QED
    BY <1>2, <2>1, <2>2 DEF FrameFits
<1>4. EventFits(s[3]) /\ (Len(s) # 3 => s[4].call = "body") /\ Len(s) >= 3
  <2>1. 3 \in 1 .. Len(s) /\ 3 + 1 = 4 /\ Len(s) >= 3
    <3>1. PICK n : n = Len(s) /\ n \in Nat /\ n >= 1 /\ n # 1 /\ n # 2
      BY <1>1, <1>2, <1>3
    <3>2. 3 \in 1 .. n /\ 3 + 1 = 4 /\ n >= 3
      BY ONLY <3>1
    <3> QED
      BY ONLY <3>1, <3>2
  <2>2. FrameFits(s, 3)
    BY <2>1 DEF StackFits
  <2> QED
    BY <1>3, <2>1, <2>2 DEF FrameFits
<1>5. Len(s[3].heard) > 0
  BY <1>2, <1>3 DEF DispatchFits
<1> QED
  BY <1>1, <1>2, <1>3, <1>4, <1>5

\* An event at a node.
LEMMA InDispatch ==
  ASSUME NEW s, StackFits(s), s # <<>>, s[1].call = "dispatch"
  PROVE  /\ Len(s) \in Nat /\ Len(s) >= 2 /\ s[2].call = "event"
         /\ DispatchFits(s[1], s[2]) /\ EventFits(s[2])
         /\ Len(s) # 2 => s[3].call = "body"
<1>1. Len(s) \in Nat /\ Len(s) >= 1 /\ FrameFits(s, 1)
  BY Rest
<1>2. Len(s) # 1 /\ s[2].call = "event" /\ DispatchFits(s[1], s[2])
  <2>1. 1 + 1 = 2
    OBVIOUS
  <2> QED
    BY <1>1, <2>1 DEF FrameFits
<1>3. EventFits(s[2]) /\ (Len(s) # 2 => s[3].call = "body") /\ Len(s) >= 2
  <2>1. 2 \in 1 .. Len(s) /\ 2 + 1 = 3 /\ Len(s) >= 2
    <3>1. Len(s) \in Nat /\ Len(s) >= 1 /\ Len(s) # 1
      BY <1>1, <1>2
    <3> QED
      BY ONLY <3>1
  <2>2. FrameFits(s, 2)
    BY <2>1 DEF StackFits
  <2> QED
    BY <1>2, <2>1, <2>2 DEF FrameFits
<1> QED
  BY <1>1, <1>2, <1>3

\* Sequences put together from the front.
LEMMA FromTheFront ==
  ASSUME NEW S, NEW s \in Seq(S), NEW a \in S, NEW b \in S
  PROVE  <<a, b>> \o s = <<a>> \o (<<b>> \o s)
<1>1. <<a, b>> = <<a>> \o <<b>>
  <2>1. ASSUME NEW x, NEW y PROVE <<x, y>> = <<x>> \o <<y>>
    <3>1. <<x>> \in Seq({x, y}) /\ <<y>> \in Seq({x, y}) /\ <<x, y>> \in Seq({x, y})
      OBVIOUS
    <3>2. PICK u, v, w : u = <<x>> /\ v = <<y>> /\ w = <<x, y>>
      OBVIOUS
    <3>3. /\ u \in Seq({x, y}) /\ v \in Seq({x, y}) /\ w \in Seq({x, y})
          /\ Len(u) = 1 /\ Len(v) = 1 /\ Len(w) = 2 /\ u[1] = x /\ v[1] = y /\ w[1] = x /\ w[2] = y
      BY <3>1, <3>2
    <3>4. u \o v \in Seq({x, y}) /\ Len(u \o v) = 2 /\ (u \o v)[1] = x /\ (u \o v)[2] = y
      <4>1. /\ u \o v \in Seq({x, y}) /\ Len(u \o v) = Len(u) + Len(v)
            /\ \A i \in 1 .. Len(u) + Len(v) : (u \o v)[i] = IF i <= Len(u) THEN u[i] ELSE v[i - Len(u)]
        BY ONLY <3>3, ConcatProperties
      <4> QED
        BY ONLY <3>3, <4>1
    <3>5. u \o v = w
      <4>1. \A i \in 1 .. 2 : (u \o v)[i] = w[i]
        <5>1. \A i \in 1 .. 2 : i = 1 \/ i = 2
          OBVIOUS
        <5> QED
          BY ONLY <3>3, <3>4, <5>1
      <4> QED
        BY ONLY <3>3, <3>4, <4>1, SeqEqual
    <3> QED
      BY <3>2, <3>5
  <2> QED
    BY ONLY <2>1
<1>2. <<a>> \in Seq(S) /\ <<b>> \in Seq(S)
  OBVIOUS
<1>3. (<<a>> \o <<b>>) \o s = <<a>> \o (<<b>> \o s)
  BY <1>2, ConcatAssociative
<1> QED
  BY ONLY <1>1, <1>3

\* A call in front of calls in front of others.
LEMMA OneMore ==
  ASSUME NEW S, NEW s \in Seq(S), NEW t \in Seq(S), NEW a \in S
  PROVE  <<a>> \o t \o s = <<a>> \o (t \o s)
<1>1. <<a>> \in Seq(S)
  OBVIOUS
<1> QED
  BY <1>1, ConcatAssociative

\* Only the event with which trigger() ends may be on top with that mark, and then
\* jQuery.event.triggered is its type.
Proceeds(s, t) ==
  /\ StackFits(s)
  /\ t = None => NoEnds(s)
  /\ t # None => /\ s # <<>> /\ s[1].call = "event" /\ s[1].ends /\ s[1].type = t
                 /\ NoEnds(Tail(s))

\* When it is not the method of an element that runs, nothing is triggered,
LEMMA Goes ==
  ASSUME NEW s, NEW t, Proceeds(s, t), s # <<>> => s[1].call # "event" \/ ~s[1].ends \/ s[1].type # t
  PROVE  Going(s) /\ t = None
BY DEF Proceeds, Going

\* and so it is the other way round.
LEMMA GoingProceeds ==
  ASSUME NEW s, Going(s)
  PROVE  Proceeds(s, None)
BY DEF Proceeds, Going

\* The innermost call.
LEMMA AtTop ==
  ASSUME Proceeds(stack, triggered), stack # <<>>
  PROVE  /\ Top = stack[1] /\ Top \in CallSet /\ FrameFits(stack, 1) /\ StackFits(stack)
         /\ Len(stack) \in Nat /\ Len(stack) >= 1
         /\ \A call : In(call) <=> stack[1].call = call
BY Rest DEF Proceeds, Top, In

\* When the user or a handler acts, nothing is triggered.
LEMMA OnUserTurn ==
  ASSUME Proceeds(stack, triggered), UserTurn
  PROVE  Going(stack) /\ triggered = None /\ (stack # <<>> => stack[1].call = "body")
<1>1. CASE stack = <<>>
  BY <1>1, Goes
<1>2. CASE stack # <<>>
  BY <1>2, AtTop, Goes DEF UserTurn, Idle
<1> QED
  BY <1>1, <1>2

\* The page changes,
LEMMA ChangeGoes ==
  ASSUME Proceeds(stack, triggered), NEW p, Change(p)
  PROVE  Proceeds(stack, triggered)'
<1>1. Going(stack) /\ triggered = None
  BY OnUserTurn DEF Change
<1>2. stack' = Pruned(p, stack) /\ triggered' = None
  BY <1>1 DEF Change
<1>3. Going(Pruned(p, stack))
  BY <1>1, GoingPruned
<1>4. Proceeds(stack', triggered')
  BY <1>2, <1>3, GoingProceeds
<1> QED
  BY <1>4

\* An event begins.
LEMMA FireGoes ==
  ASSUME Proceeds(stack, triggered), NEW e, EventFits(e), ~e.ends, Fire(e)
  PROVE  Proceeds(stack, triggered)'
<1>1. Going(stack) /\ triggered = None /\ (stack # <<>> => stack[1].call = "body")
  BY OnUserTurn DEF Fire
<1>2. stack' = <<e>> \o stack /\ triggered' = None
  BY <1>1 DEF Fire
<1>3. e \in CallSet /\ e.call = "event"
  BY DEF EventFits, EventSet, CallSet
<1>4. stack \in Seq(CallSet)
  BY <1>1 DEF Going, StackFits
<1>5. Len(stack) # 0 => stack # <<>>
  OBVIOUS
<1>6. OnTop(e, stack)
  BY <1>1, <1>3, <1>5 DEF OnTop
<1>7. Going(<<e>> \o stack)
  BY <1>1, <1>3, <1>6, GoingPushed
<1>8. Proceeds(stack', triggered')
  BY <1>2, <1>7, GoingProceeds
<1> QED
  BY <1>8

\* Begun by the user, by click() or by trigger().
LEMMA Beginnings ==
  ASSUME NEW native \in BOOLEAN, NEW type \in EventTypes, NEW ns \in Namespaces,
         NEW target \in Holders, NEW path \in Seq(Nodes), IsInjective(path), NEW b \in BOOLEAN
  PROVE  /\ EventFits(Event(native, type, ns, target, path))
         /\ EventFits([Event(native, type, ns, target, path) EXCEPT !.clicked = b])
         /\ EventFits([Event(native, type, ns, target, path) EXCEPT !.only = b])
         /\ ~Event(native, type, ns, target, path).ends
         /\ ~[Event(native, type, ns, target, path) EXCEPT !.clicked = b].ends
         /\ ~[Event(native, type, ns, target, path) EXCEPT !.only = b].ends
<1>1. PICK due : due = Reached(page, path, type, ns, target) /\ due \in SUBSET (Nodes \X HandlerSet)
  <2>1. ToSet(path) \subseteq Nodes
    <3>1. \A i \in DOMAIN path : path[i] \in Nodes
      OBVIOUS
    <3> QED
      BY <3>1 DEF ToSet
  <2> QED
    BY <2>1 DEF HandlerSet, Reached
<1>2. PICK o : o = [call |-> "event", native |-> native, type |-> type, ns |-> ns, target |-> target,
   path |-> path, i |-> 1, stopped |-> FALSE, immediate |-> FALSE, prevented |-> FALSE,
   only |-> FALSE, clicked |-> FALSE, ends |-> FALSE,
   due |-> due, heard |-> <<>>, over |-> 0, last |-> 0]
  OBVIOUS
<1>3. o = Event(native, type, ns, target, path)
  BY <1>1, <1>2 DEF Event
<1>4. o \in EventSet
  BY <1>1, <1>2 DEF EventSet
<1>5. PICK f, g, h : /\ f = [o EXCEPT !.clicked = b] /\ g = [o EXCEPT !.only = b]
                     /\ h = [o EXCEPT !.clicked = FALSE, !.only = FALSE]
  OBVIOUS
<1>6. EventFits(h)
  <2>1. FALSE \in BOOLEAN
    OBVIOUS
  <2>2. EventFits([Event(native, type, ns, target, path) EXCEPT !.clicked = FALSE, !.only = FALSE])
    BY <2>1, EventBegins
  <2> QED
    BY <1>3, <1>5, <2>2
<1>7. Alike(h, o)
  BY <1>4, <1>5 DEF Alike, EventSet
<1>8. Alike(h, f)
  BY <1>4, <1>5 DEF Alike, EventSet
<1>9. Alike(h, g)
  BY <1>4, <1>5 DEF Alike, EventSet
<1>10. EventFits(o) /\ EventFits(f) /\ EventFits(g)
  BY <1>6, <1>7, <1>8, <1>9, AlikeFits
<1>11. ~o.ends
  BY ONLY <1>2
<1>12. ~f.ends /\ ~g.ends
  <2>1. f.ends = h.ends /\ g.ends = h.ends /\ o.ends = h.ends
    BY <1>7, <1>8, <1>9 DEF Alike
  <2> QED
    BY <1>11, <2>1
<1> QED
  BY <1>3, <1>5, <1>10, <1>11, <1>12

\* events begin, by a click or by trigger(),
LEMMA StartsGo ==
  ASSUME Proceeds(stack, triggered), Forest(page.parent), UserClicks \/ click \/ trigger
  PROVE  Proceeds(stack, triggered)'
<1>1. "click" \in EventTypes /\ None \in Namespaces /\ TRUE \in BOOLEAN /\ Clickable \subseteq Holders
  BY EventsAssumption DEF Namespaces, Holders
<1>2. CASE UserClicks
  <2>1. PICK x \in Clickable : Fire(Event(TRUE, "click", None, x, Path(page, x)))
    BY <1>2 DEF UserClicks
  <2>2. x \in Holders
    BY <1>1
  <2>3. PICK path \in Seq(Nodes) : path = Path(page, x) /\ IsInjective(path)
    BY <2>2, PathFits
  <2>4. EventFits(Event(TRUE, "click", None, x, path)) /\ ~Event(TRUE, "click", None, x, path).ends
    BY <1>1, <2>2, <2>3, Beginnings
  <2> QED
    BY <2>1, <2>3, <2>4, FireGoes
<1>3. CASE click
  <2>1. PICK x \in Clickable : Fire([Event(TRUE, "click", None, x, Path(page, x)) EXCEPT !.clicked = TRUE])
    BY <1>3 DEF click
  <2>2. x \in Holders
    BY <1>1
  <2>3. PICK path \in Seq(Nodes) : path = Path(page, x) /\ IsInjective(path)
    BY <2>2, PathFits
  <2>4. PICK e : /\ e = [Event(TRUE, "click", None, x, path) EXCEPT !.clicked = TRUE]
                 /\ EventFits(e) /\ ~e.ends
    BY <1>1, <2>2, <2>3, Beginnings
  <2> QED
    BY <2>1, <2>3, <2>4, FireGoes
<1>4. CASE trigger
  <2>1. PICK t \in Triggers :
          Fire([Event(FALSE, t.type, t.ns, t.elem, IF t.only THEN <<t.elem>> ELSE Path(page, t.elem))
                  EXCEPT !.only = t.only])
    BY <1>4 DEF trigger
  <2>2. t.type \in EventTypes /\ t.ns \in Namespaces /\ t.elem \in Holders /\ t.only \in BOOLEAN
    BY EventsAssumption DEF Namespaces, Holders
  <2>3. PICK path \in Seq(Nodes) : /\ path = IF t.only THEN <<t.elem>> ELSE Path(page, t.elem)
                                   /\ IsInjective(path)
    <3>1. Path(page, t.elem) \in Seq(Nodes) /\ IsInjective(Path(page, t.elem))
      BY <2>2, PathFits
    <3>2. <<t.elem>> \in Seq(Nodes) /\ IsInjective(<<t.elem>>)
      BY <2>2 DEF Holders, Nodes, IsInjective
    <3> QED
      BY <3>1, <3>2
  <2>4. PICK e : /\ e = [Event(FALSE, t.type, t.ns, t.elem, path) EXCEPT !.only = t.only]
                 /\ EventFits(e) /\ ~e.ends
    BY <2>2, <2>3, Beginnings
  <2> QED
    BY <2>1, <2>3, <2>4, FireGoes
<1> QED
  BY <1>2, <1>3, <1>4

\* The event on top is exchanged for one like it.
LEMMA TopChanged ==
  ASSUME NEW s, Going(s), s # <<>>, s[1].call = "event", NEW e, EventFits(e), ~e.ends
  PROVE  Going(<<e>> \o Tail(s)) /\ (<<e>> \o Tail(s))[1] = e /\ Len(<<e>> \o Tail(s)) # 0
<1>1. /\ StackFits(Tail(s)) /\ Len(Tail(s)) = Len(s) - 1 /\ Len(s) \in Nat /\ Len(s) >= 1
      /\ \A k \in 1 .. Len(s) - 1 : Tail(s)[k] = s[k + 1]
      /\ FrameFits(s, 1)
  BY Rest DEF Going
<1>2. Going(Tail(s))
  <2>1. 2 \in 1 .. Len(s) + 1
    BY <1>1
  <2>2. ASSUME NEW k \in 1 .. Len(Tail(s)), Tail(s)[k].call = "event" PROVE ~Tail(s)[k].ends
    <3>1. k \in 1 .. Len(s) - 1 /\ k + 1 \in 1 .. Len(s)
      BY <1>1
    <3>2. Tail(s)[k] = s[k + 1]
      BY <1>1, <3>1
    <3> QED
      BY <2>2, <3>1, <3>2 DEF Going, NoEnds
  <2> QED
    BY <1>1, <2>2 DEF Going, NoEnds
<1>3. e \in CallSet /\ e.call = "event"
  BY DEF EventFits, EventSet, CallSet
<1>4. Len(Tail(s)) # 0 => Tail(s)[1].call = "body"
  <2>1. ASSUME Len(Tail(s)) # 0 PROVE Tail(s)[1].call = "body"
    <3>1. PICK n : n = Len(s) /\ n \in Nat /\ n >= 1 /\ n - 1 # 0
      BY <1>1, <2>1
    <3>2. 1 # n /\ 1 \in 1 .. n - 1 /\ 1 + 1 = 2
      BY ONLY <3>1
    <3>3. Tail(s)[1] = s[1 + 1]
      BY <1>1, <3>1, <3>2
    <3> QED
      BY <1>1, <3>1, <3>2, <3>3 DEF FrameFits
  <2> QED
    BY <2>1
<1>5. OnTop(e, Tail(s))
  BY <1>3, <1>4 DEF OnTop
<1>6. Going(<<e>> \o Tail(s))
  BY <1>2, <1>3, <1>5, GoingPushed
<1>7. Tail(s) \in Seq(CallSet)
  BY <1>1 DEF StackFits
<1>8. (<<e>> \o Tail(s))[1] = e /\ Len(<<e>> \o Tail(s)) # 0
  BY ONLY <1>3, <1>7
<1> QED
  BY <1>6, <1>8

\* What is called at a node is the node's function.
LEMMA FunctionsFit ==
  ASSUME Fits(page), Top \in EventSet, NEW n \in Nodes, NEW f \in Functions(n)
  PROVE  f[1] = n
<1>1. /\ page.listeners \in SUBSET Listeners
      /\ Wiring(page.events, page.handle, page.listeners)
  BY StoreFields DEF Fits
<1>2. Top.type \in EventTypes
  BY DEF EventSet
<1>3. CASE Top.native
  <2>1. PICK l \in page.listeners : l[1] = n /\ l[2] = Top.type /\ f = l[3]
    BY <1>3 DEF Functions
  <2>2. l \in Nodes \X EventTypes \X (Nodes \X Nat)
    BY <1>1, <2>1 DEF Listeners
  <2>3. l = <<n, Top.type, f>>
    BY <2>1, <2>2
  <2>4. page.events[n][Top.type].list # <<>> /\ f = page.handle[n]
    BY <1>1, <2>1, <2>3 DEF Wiring
  <2>5. page.handle[n] # None
    BY <1>1, <1>2, <2>4 DEF Wiring
  <2> QED
    BY <1>1, <2>4, <2>5 DEF Wiring
<1>4. CASE ~Top.native
  <2>1. page.events[n][Top.type].list # <<>> /\ f = page.handle[n]
    BY <1>4 DEF Functions
  <2>2. page.handle[n] # None
    BY <1>1, <1>2, <2>1 DEF Wiring
  <2> QED
    BY <1>1, <2>1, <2>2 DEF Wiring
<1> QED
  BY <1>3, <1>4

\* dispatch() begins with the handlers in the order in which it calls them.
LEMMA QueueBegins ==
  ASSUME PageSound(page), NEW n \in Nodes, NEW type \in EventTypes, NEW target \in Holders
  PROVE  /\ handlers(page, n, type, target) \in Seq(AllCalls)
         /\ InCallOrder(handlers(page, n, type, target))
         /\ AllMatched(handlers(page, n, type, target), page, n, page.events[n][type], target)
<1>1. page.events[n][type] \in Lists(type) /\ Forest(page.parent)
  BY StoreFields DEF PageSound, Fits, Tables
<1>2. /\ QueueFits(handlers(page, n, type, target), type)
      /\ AllMatched(handlers(page, n, type, target), page, n, page.events[n][type], target)
  BY <1>1, HandlersFit
<1>3. PICK q : q = handlers(page, n, type, target) /\ q \in Seq(Calls(type))
  BY <1>2 DEF QueueFits
<1>4. Calls(type) \subseteq AllCalls
  BY DEF Calls, AllCalls, HandlersOf
<1>5. q \in Seq(AllCalls)
  BY ONLY <1>3, <1>4
<1> QED
  BY <1>2, <1>3, <1>5 DEF QueueFits

\* The event comes to the node that is the next with something to call.
Visits(i, n, d, e) ==
  /\ Going(stack) /\ triggered = None /\ stack # <<>> /\ Top = stack[1]
  /\ EventFits(Top) /\ ~Top.ends /\ Top.call = "event"
  /\ i \in Comes /\ (\A j \in Comes : i <= j) /\ i \in Top.i .. Len(Top.path) /\ n = Top.path[i]
  /\ d.node = n /\ d.i = 1 /\ d.queue = handlers(page, n, Top.type, Top.target)
  /\ d \in CallSet /\ d.call = "dispatch"
  /\ e = [Top EXCEPT !.i = i + 1] /\ e \in CallSet /\ e.call = "event" /\ ~e.ends
  /\ EventFits(e) /\ DispatchFits(d, e)
  /\ stack' = <<d>> \o (<<e>> \o Tail(stack)) /\ UNCHANGED <<page, triggered>>

\* the event comes to its next node: what that does, in one shape.
LEMMA Visiting ==
  ASSUME Proceeds(stack, triggered), PageSound(page), Visit
  PROVE  \E i, n, d, e : Visits(i, n, d, e)
<1>1. /\ stack # <<>> /\ Top = stack[1] /\ FrameFits(stack, 1) /\ StackFits(stack)
      /\ stack[1].call = "event" /\ ~Passed
  BY AtTop DEF Visit, In
<1>2. EventFits(Top) /\ Comes # {}
  BY <1>1 DEF FrameFits, Passed
<1>3. triggered # Top.type
  BY <1>2 DEF Comes, Discarded
<1>4. Going(stack) /\ triggered = None
  BY <1>1, <1>3, Goes
<1>5. ~Top.ends
  <2>1. 1 \in 1 .. Len(stack)
    BY <1>1, AtTop
  <2> QED
    BY <1>1, <1>4, <2>1 DEF Going, NoEnds
<1>6. /\ Top \in EventSet /\ Top.type \in EventTypes /\ Top.target \in Holders /\ Top.path \in Seq(Nodes)
      /\ Top.i \in Nat /\ Top.i >= 1 /\ Len(Top.path) \in Nat
  BY <1>2 DEF EventFits, EventSet
<1>7. Comes \subseteq Nat
  BY <1>6 DEF Comes
<1>8. PICK i : /\ i = Min(Comes) /\ i \in Top.i .. Len(Top.path)
               /\ i \in Comes /\ \A j \in Comes : i <= j
  <2>1. Min(Comes) \in Comes /\ \A j \in Comes : Min(Comes) <= j
    BY <1>2, <1>7, LeastNumber
  <2> QED
    BY <2>1 DEF Comes
<1>9. PICK n \in Nodes : n = Top.path[i]
  <2>1. i \in 1 .. Len(Top.path)
    BY <1>6, <1>8
  <2> QED
    BY <1>6, <2>1
<1>10. PICK f \in Functions(n) : stack' = <<Dispatch(f[1]), [Top EXCEPT !.i = i + 1]>> \o Tail(stack)
  BY <1>8, <1>9 DEF Visit
<1>11. f[1] = n
  BY <1>6, FunctionsFit DEF PageSound
<1>12. PICK q \in Seq(AllCalls) : q = handlers(page, n, Top.type, Top.target) /\ InCallOrder(q)
  BY <1>6, QueueBegins
<1>13. PICK d, e : /\ d = [call |-> "dispatch", node |-> n, i |-> 1, queue |-> q]
                   /\ e = [Top EXCEPT !.i = i + 1]
  OBVIOUS
<1>14. EventFits(e) /\ DispatchFits(d, e)
  BY <1>2, <1>5, <1>8, <1>9, <1>12, <1>13, DispatchBegins
<1>15. ~e.ends
  BY <1>5, <1>6, <1>13 DEF EventSet
<1>16. stack' = <<d, e>> \o Tail(stack)
  BY <1>10, <1>11, <1>12, <1>13 DEF Dispatch
<1>17. Tail(stack) \in Seq(CallSet)
  BY <1>1, Rest DEF StackFits
<1>18. d \in DispatchSet /\ d.call = "dispatch" /\ d \in CallSet /\ e \in CallSet /\ e.call = "event"
  BY <1>14 DEF DispatchFits, DispatchSet, EventFits, EventSet, CallSet
<1>19. stack' = <<d>> \o (<<e>> \o Tail(stack))
  <2>1. d \in CallSet /\ e \in CallSet /\ Tail(stack) \in Seq(CallSet)
    BY <1>17, <1>18
  <2>2. <<d, e>> \o Tail(stack) = <<d>> \o (<<e>> \o Tail(stack))
    <3>1. PICK r \in Seq(CallSet) : r = Tail(stack)
      BY <2>1
    <3>2. d \in CallSet /\ e \in CallSet /\ r \in Seq(CallSet)
      BY <2>1
    <3>3. <<d, e>> \o r = <<d>> \o (<<e>> \o r)
      BY ONLY <3>2, FromTheFront
    <3> QED
      BY ONLY <3>1, <3>3
  <2> QED
    BY ONLY <1>16, <2>2
<1>20. d.node = n /\ d.i = 1 /\ d.queue = q
  BY ONLY <1>13
<1>21. UNCHANGED <<page, triggered>>
  BY DEF Visit
<1>22. Visits(i, n, d, e)
  BY <1>1, <1>2, <1>4, <1>5, <1>8, <1>9, <1>12, <1>13, <1>14, <1>15, <1>18, <1>19, <1>20, <1>21 DEF Visits
<1> QED
  BY <1>22

\* An event comes to a node, or past one,
LEMMA VisitGoes ==
  ASSUME Proceeds(stack, triggered), PageSound(page), Visit
  PROVE  Proceeds(stack, triggered)'
<1>1. PICK i, n, d, e : Visits(i, n, d, e)
  BY Visiting
<1>2. /\ Going(stack) /\ stack # <<>> /\ stack[1].call = "event" /\ EventFits(e) /\ ~e.ends
      /\ DispatchFits(d, e) /\ d \in CallSet /\ d.call = "dispatch" /\ e.call = "event"
      /\ triggered = None /\ stack' = <<d>> \o (<<e>> \o Tail(stack)) /\ triggered' = triggered
  BY <1>1 DEF Visits
<1>3. PICK u : /\ u = <<e>> \o Tail(stack) /\ Going(u) /\ u[1] = e /\ Len(u) # 0
  <2>1. Going(stack) /\ stack # <<>> /\ stack[1].call = "event" /\ EventFits(e) /\ ~e.ends
    BY <1>2
  <2>2. /\ Going(<<e>> \o Tail(stack)) /\ (<<e>> \o Tail(stack))[1] = e
        /\ Len(<<e>> \o Tail(stack)) # 0
    BY ONLY <2>1, TopChanged
  <2> QED
    BY ONLY <2>2
<1>4. OnTop(d, u)
  BY <1>2, <1>3 DEF OnTop
<1>5. Going(<<d>> \o u)
  BY <1>2, <1>3, <1>4, GoingPushed
<1>6. Proceeds(<<d>> \o u, None)
  BY <1>5, GoingProceeds
<1> QED
  BY <1>2, <1>3, <1>6

\* Under a handler and dispatch() is the event.
LEMMA GoesInBody ==
  ASSUME Proceeds(stack, triggered), In("body")
  PROVE  /\ Going(stack) /\ triggered = None /\ stack # <<>>
         /\ Len(stack) \in Nat /\ Len(stack) >= 3 /\ 3 \in 1 .. Len(stack) /\ stack[3].call = "event"
         /\ EventFits(stack[3]) /\ Len(stack[3].heard) > 0 /\ ~stack[3].ends
         /\ DispatchFits(stack[2], stack[3])
<1>1. stack # <<>> /\ stack[1].call = "body"
  BY AtTop DEF In
<1>2. Going(stack) /\ triggered = None
  BY <1>1, Goes
<1>3. /\ Len(stack) \in Nat /\ Len(stack) >= 3 /\ stack[3].call = "event"
      /\ EventFits(stack[3]) /\ Len(stack[3].heard) > 0 /\ DispatchFits(stack[2], stack[3])
  BY <1>1, <1>2, InBody DEF Going
<1>4. 3 \in 1 .. Len(stack)
  <2>1. Len(stack) \in Nat /\ Len(stack) >= 3
    BY <1>3
  <2> QED
    BY ONLY <2>1
<1> QED
  BY <1>1, <1>2, <1>3, <1>4 DEF Going, NoEnds

\* A call ends.
LEMMA TailGoes ==
  ASSUME NEW s, Going(s), s # <<>>
  PROVE  Going(Tail(s))
<1>1. /\ StackFits(Tail(s)) /\ Len(Tail(s)) = Len(s) - 1 /\ Len(s) \in Nat /\ Len(s) >= 1
      /\ \A k \in 1 .. Len(s) - 1 : Tail(s)[k] = s[k + 1]
  BY Rest DEF Going
<1>2. ASSUME NEW k \in 1 .. Len(Tail(s)), Tail(s)[k].call = "event" PROVE ~Tail(s)[k].ends
  <2>1. k \in 1 .. Len(s) - 1 /\ k + 1 \in 1 .. Len(s)
    BY <1>1
  <2>2. Tail(s)[k] = s[k + 1]
    BY <1>1, <2>1
  <2> QED
    BY <1>2, <2>1, <2>2 DEF Going, NoEnds
<1> QED
  BY <1>1, <1>2 DEF Going, NoEnds

\* The handler's event is stopped.
LEMMA StopGoes ==
  ASSUME NEW s, Going(s), NEW k \in 1 .. Len(s), k > 1, s[k].call = "event", DispatchFits(s[k - 1], s[k]),
         Len(s[k].heard) > 0, NEW f \in EventSet,
         f.native = s[k].native, f.ends = s[k].ends, f.path = s[k].path, f.i = s[k].i,
         f.heard = s[k].heard, f.stopped, f.over = Once(s[k].over, s[k].heard),
         \/ f.immediate = s[k].immediate /\ f.last = s[k].last
         \/ f.immediate /\ f.last = Len(s[k].heard)
  PROVE  Going([s EXCEPT ![k] = f])
<1>1. FrameFits(s, k) /\ ~s[k].ends
  BY DEF Going, StackFits, NoEnds
<1>2. EventFits(s[k])
  BY <1>1 DEF FrameFits
<1>3. EventFits(f) /\ \A d : DispatchFits(d, s[k]) => DispatchFits(d, f)
  <2>1. PICK e : e = s[k] /\ EventFits(e)
    BY <1>2
  <2>2. /\ Len(e.heard) > 0 /\ f.native = e.native /\ f.ends = e.ends /\ f.path = e.path /\ f.i = e.i
        /\ f.heard = e.heard /\ f.stopped /\ f.over = Once(e.over, e.heard) /\ f \in EventSet
        /\ \/ f.immediate = e.immediate /\ f.last = e.last
           \/ f.immediate /\ f.last = Len(e.heard)
    BY <2>1
  <2>3. EventFits(f) /\ \A d : DispatchFits(d, e) => DispatchFits(d, f)
    BY ONLY <2>1, <2>2, StoppedFits
  <2> QED
    BY <2>1, <2>3
<1>4. \A j \in 1 .. Len(s) : j + 1 = k => j = k - 1
  OBVIOUS
<1> QED
  BY <1>1, <1>3, <1>4, GoingReplaced

\* f is the event in its place when the handler has stopped it.
Stops(s, k, f) ==
  /\ Going(s) /\ k \in 1 .. Len(s) /\ k > 1 /\ s[k].call = "event" /\ DispatchFits(s[k - 1], s[k])
  /\ Len(s[k].heard) > 0 /\ f \in EventSet
  /\ f.native = s[k].native /\ f.ends = s[k].ends /\ f.path = s[k].path /\ f.i = s[k].i
  /\ f.heard = s[k].heard /\ f.stopped /\ f.over = Once(s[k].over, s[k].heard)
  /\ \/ f.immediate = s[k].immediate /\ f.last = s[k].last
     \/ f.immediate /\ f.last = Len(s[k].heard)
  /\ f.due = s[k].due /\ f.type = s[k].type /\ f.ns = s[k].ns /\ f.target = s[k].target
  /\ s = stack \/ (s = Tail(stack) /\ stack # <<>> /\ stack[1].call = "body")
  /\ stack' = [s EXCEPT ![k] = f] /\ triggered = None /\ UNCHANGED <<page, triggered>>

\* What the two ways to stop an event do to it, in one shape.
LEMMA Stopping ==
  ASSUME Proceeds(stack, triggered), stopPropagation \/ stopImmediatePropagation
  PROVE  \E s, k, f : Stops(s, k, f)
<1>1. In("body") /\ triggered' = triggered
  BY DEF stopPropagation, stopImmediatePropagation
<1>2. /\ Going(stack) /\ triggered = None /\ stack # <<>>
      /\ Len(stack) \in Nat /\ 3 \in 1 .. Len(stack) /\ stack[3].call = "event"
      /\ EventFits(stack[3]) /\ Len(stack[3].heard) > 0 /\ DispatchFits(stack[2], stack[3])
  BY <1>1, GoesInBody
<1>3. PICK e : e = stack[3] /\ EventFits(e) /\ e \in EventSet /\ e.heard \in Seq(Nodes \X Nodes \X HandlerSet)
  BY <1>2 DEF EventFits, EventSet
<1>4. PICK n, o : n = Len(e.heard) /\ o = Once(e.over, e.heard) /\ n \in Nat /\ o \in Nat
  <2>1. Len(e.heard) \in Nat /\ e.over \in Nat
    BY <1>3 DEF EventSet
  <2> QED
    BY <2>1 DEF Once
<1>5. DOMAIN stack = 1 .. Len(stack)
  BY <1>2 DEF Going, StackFits
<1>6. PICK f : /\ stack' = [stack EXCEPT ![3] = f]
               /\ \/ f = [e EXCEPT !.stopped = TRUE, !.over = o]
                  \/ f = [[e EXCEPT !.stopped = TRUE, !.over = o] EXCEPT !.immediate = TRUE, !.last = n]
  <2>1. CASE stopPropagation
    <3>1. stack' = [stack EXCEPT ![3] = [e EXCEPT !.stopped = TRUE, !.over = o]]
      BY <1>3, <1>4, <2>1 DEF stopPropagation, Stopped
    <3> QED
      BY <3>1
  <2>2. CASE stopImmediatePropagation
    <3>1. stack' = [stack EXCEPT ![3] = [[e EXCEPT !.stopped = TRUE, !.over = o]
                                           EXCEPT !.immediate = TRUE, !.last = n]]
      BY <1>3, <1>4, <2>2 DEF stopImmediatePropagation, Stopped
    <3> QED
      BY <3>1
  <2> QED
    BY <2>1, <2>2
<1>7. /\ f \in EventSet /\ f.native = e.native /\ f.ends = e.ends /\ f.path = e.path /\ f.i = e.i
      /\ f.heard = e.heard /\ f.stopped /\ f.over = o
      /\ \/ f.immediate = e.immediate /\ f.last = e.last
         \/ f.immediate /\ f.last = n
      /\ f.due = e.due /\ f.type = e.type /\ f.ns = e.ns /\ f.target = e.target
  <2>1. CASE f = [e EXCEPT !.stopped = TRUE, !.over = o]
    BY <1>3, <1>4, <2>1 DEF EventSet
  <2>2. CASE f = [[e EXCEPT !.stopped = TRUE, !.over = o] EXCEPT !.immediate = TRUE, !.last = n]
    BY <1>3, <1>4, <2>2 DEF EventSet
  <2> QED
    BY <1>6, <2>1, <2>2
<1>8. PICK k \in 1 .. Len(stack) : k = 3 /\ k > 1 /\ k - 1 = 2
  BY <1>2
<1>9. UNCHANGED <<page, triggered>>
  BY DEF stopPropagation, stopImmediatePropagation
<1>10. Stops(stack, k, f)
  BY <1>2, <1>3, <1>4, <1>6, <1>7, <1>8, <1>9 DEF Stops
<1> QED
  BY <1>10

\* And what return false does.
LEMMA Refusing ==
  ASSUME Proceeds(stack, triggered), ReturnFalse
  PROVE  \E s, k, f : Stops(s, k, f)
<1>1. In("body") /\ stack[1].call = "body"
  BY AtTop DEF ReturnFalse, In
<1>2. /\ Going(stack) /\ triggered = None /\ stack # <<>>
      /\ Len(stack) \in Nat /\ 3 \in 1 .. Len(stack) /\ stack[3].call = "event"
      /\ EventFits(stack[3]) /\ Len(stack[3].heard) > 0 /\ DispatchFits(stack[2], stack[3])
  BY <1>1, GoesInBody
<1>3. PICK s : s = Tail(stack) /\ Going(s)
  BY <1>2, TailGoes
<1>5. QED
  <2>1. /\ Len(s) = Len(stack) - 1 /\ \A k \in 1 .. Len(stack) - 1 : s[k] = stack[k + 1]
    BY <1>2, <1>3, Rest DEF Going
  <2>2. 1 \in 1 .. Len(stack) - 1 /\ 2 \in 1 .. Len(stack) - 1 /\ 1 + 1 = 2 /\ 2 + 1 = 3
    <3>1. Len(stack) \in Nat /\ 3 \in 1 .. Len(stack)
      BY <1>2
    <3> QED
      BY ONLY <3>1
  <2>3. s[1] = stack[2] /\ s[2] = stack[3] /\ 2 \in 1 .. Len(s)
    BY <2>1, <2>2
  <2>4. PICK e : e = s[2] /\ EventFits(e) /\ e \in EventSet /\ e.heard \in Seq(Nodes \X Nodes \X HandlerSet)
    BY <1>2, <2>3 DEF EventFits, EventSet
  <2>5. PICK o : o = Once(e.over, e.heard) /\ o \in Nat
    <3>1. Len(e.heard) \in Nat /\ e.over \in Nat
      BY <2>4 DEF EventSet
    <3> QED
      BY <3>1 DEF Once
  <2>6. PICK f : f = [[e EXCEPT !.stopped = TRUE, !.over = o] EXCEPT !.prevented = TRUE]
    OBVIOUS
  <2>7. DOMAIN s = 1 .. Len(s)
    BY <1>3 DEF Going, StackFits
  <2>8. stack' = [s EXCEPT ![2] = f]
    BY <1>3, <2>3, <2>4, <2>5, <2>6, <2>7 DEF ReturnFalse, Stopped
  <2>9. /\ f \in EventSet /\ f.native = e.native /\ f.ends = e.ends /\ f.path = e.path /\ f.i = e.i
        /\ f.heard = e.heard /\ f.stopped /\ f.over = o
        /\ f.immediate = e.immediate /\ f.last = e.last
        /\ f.due = e.due /\ f.type = e.type /\ f.ns = e.ns /\ f.target = e.target
    BY <2>4, <2>5, <2>6 DEF EventSet
  <2>10. PICK k \in 1 .. Len(s) : k = 2 /\ k > 1 /\ k - 1 = 1
    BY <2>3
  <2>11. UNCHANGED <<page, triggered>>
    BY DEF ReturnFalse
  <2>12. Stops(s, k, f)
    BY <1>1, <1>2, <1>3, <2>3, <2>4, <2>5, <2>8, <2>9, <2>10, <2>11 DEF Stops
  <2> QED
    BY <2>12

\* a handler stops its event,
LEMMA StopsGo ==
  ASSUME Proceeds(stack, triggered), stopPropagation \/ stopImmediatePropagation \/ ReturnFalse
  PROVE  Proceeds(stack, triggered)'
<1>1. PICK s, k, f : Stops(s, k, f)
  BY Stopping, Refusing
<1>2. Going([s EXCEPT ![k] = f])
  BY <1>1, StopGoes DEF Stops
<1>3. Proceeds([s EXCEPT ![k] = f], None)
  BY <1>2, GoingProceeds
<1> QED
  BY <1>1, <1>3 DEF Stops

\* a handler returns,
LEMMA ReturnGoes ==
  ASSUME Proceeds(stack, triggered), Return
  PROVE  Proceeds(stack, triggered)'
<1>1. Going(stack) /\ triggered = None /\ stack # <<>> /\ stack' = Tail(stack) /\ triggered' = triggered
  BY GoesInBody DEF Return
<1> QED
  BY <1>1, TailGoes, GoingProceeds

\* dispatch() calls the next of its handlers.
Turns(i, d, e, g, f, r) ==
  /\ Going(stack) /\ triggered = None /\ stack # <<>> /\ d = stack[1] /\ e = stack[2]
  /\ Len(stack) \in Nat /\ Len(stack) >= 2 /\ Top = d
  /\ d.call = "dispatch" /\ e.call = "event" /\ EventFits(e) /\ DispatchFits(d, e)
  /\ i \in Called /\ (\A x \in Called : i <= x) /\ MayCall(d, e, i)
  /\ f = [e EXCEPT !.heard = Append(@, Told(d, i))] /\ g = [d EXCEPT !.i = i + 1]
  /\ EventFits(f) /\ DispatchFits(g, f) /\ g.i > 1
  /\ ~f.ends /\ f \in CallSet /\ f.call = "event" /\ g \in CallSet /\ g.call = "dispatch"
  /\ r = SubSeq(stack, 3, Len(stack)) /\ Going(r) /\ (Len(r) # 0 => r[1].call = "body")
  /\ Len(r) = Len(stack) - 2 /\ (\A k \in 1 .. Len(stack) - 2 : r[k] = stack[k + 2])
  /\ stack' = Pruned(page', <<[call |-> "body"]>> \o (<<g>> \o (<<f>> \o r)))
  /\ UNCHANGED triggered

\* The next handler is called: what that does to the calls, in one shape.
LEMMA Turning ==
  ASSUME Proceeds(stack, triggered), Turn, ~(Called = {} /\ stack' = Tail(stack) /\ UNCHANGED page)
  PROVE  \E i, d, e, g, f, r : Turns(i, d, e, g, f, r)
<1>1. /\ stack # <<>> /\ Top = stack[1] /\ FrameFits(stack, 1) /\ StackFits(stack)
      /\ stack[1].call = "dispatch" /\ triggered' = triggered
  BY AtTop DEF Turn, In
<1>2. Going(stack) /\ triggered = None
  BY <1>1, Goes
<1>3. PICK d, e : /\ d = Top /\ e = stack[2] /\ e.call = "event"
                  /\ DispatchFits(d, e) /\ EventFits(e)
  BY <1>1, InDispatch
<1>4. Len(stack) \in Nat /\ Len(stack) >= 2 /\ (Len(stack) # 2 => stack[3].call = "body")
  BY <1>1, InDispatch
<1>6. Called # {}
  BY DEF Turn
<1>7. QED
  <2>1. /\ d \in DispatchSet /\ d.i \in Nat /\ d.queue \in Seq(AllCalls) /\ Len(d.queue) \in Nat
    BY <1>3 DEF DispatchFits, DispatchSet
  <2>2. Called \subseteq Nat
    BY <1>3, <2>1 DEF Called, Queue
  <2>3. PICK i : i = Min(Called) /\ MayCall(d, e, i) /\ i \in Called /\ \A x \in Called : i <= x
    <3>1. Min(Called) \in Called /\ \A x \in Called : Min(Called) <= x
      BY <1>6, <2>2, LeastNumber
    <3> QED
      BY <1>3, <3>1 DEF Called, Queue, MayCall
  <2>4. PICK f, g : /\ f = [e EXCEPT !.heard = Append(@, Told(d, i))] /\ g = [d EXCEPT !.i = i + 1]
                    /\ EventFits(f) /\ DispatchFits(g, f) /\ g.i > 1
    <3>1. EventFits(e) /\ DispatchFits(d, e) /\ MayCall(d, e, i)
      BY <1>3, <2>3
    <3>2. /\ EventFits([e EXCEPT !.heard = Append(@, Told(d, i))])
          /\ DispatchFits([d EXCEPT !.i = i + 1], [e EXCEPT !.heard = Append(@, Told(d, i))])
          /\ [d EXCEPT !.i = i + 1].i > 1
      BY ONLY <3>1, HeardFurther
    <3> QED
      BY ONLY <3>2
  <2>5. ~f.ends /\ f \in CallSet /\ f.call = "event" /\ g \in CallSet /\ g.call = "dispatch"
    BY <2>4 DEF DispatchFits, DispatchSet, EventFits, EventSet, CallSet
  <2>6. PICK r : /\ r = SubSeq(stack, 3, Len(stack)) /\ Going(r)
                 /\ (Len(r) # 0 => r[1].call = "body") /\ Len(r) = Len(stack) - 2
                 /\ \A k \in 1 .. Len(stack) - 2 : r[k] = stack[k + 2]
    <3>1. PICK m \in 1 .. Len(stack) + 1 : m = 3
      BY <1>4
    <3>2. /\ Going(SubSeq(stack, m, Len(stack))) /\ Len(SubSeq(stack, m, Len(stack))) = Len(stack) - m + 1
          /\ \A k \in 1 .. Len(stack) - m + 1 : SubSeq(stack, m, Len(stack))[k] = stack[m + k - 1]
      BY <1>2, GoingDropped, Dropped DEF Going
    <3>3. PICK r : r = SubSeq(stack, 3, Len(stack))
      OBVIOUS
    <3>4. Going(r) /\ Len(r) = Len(stack) - 2
      BY <1>4, <3>1, <3>2, <3>3
    <3>5. Len(r) # 0 => r[1].call = "body"
      <4>1. ASSUME Len(r) # 0 PROVE r[1].call = "body"
        <5>1. PICK n : n = Len(stack) /\ n \in Nat /\ n >= 2 /\ n - 2 # 0
          BY <1>4, <3>4, <4>1
        <5>2. n # 2 /\ 1 \in 1 .. n - 3 + 1 /\ 3 + 1 - 1 = 3
          BY ONLY <5>1
        <5>3. r[1] = stack[3 + 1 - 1]
          BY <3>1, <3>2, <3>3, <5>1, <5>2
        <5> QED
          BY <1>4, <5>1, <5>2, <5>3
      <4> QED
        BY <4>1
    <3>6. ASSUME NEW k \in 1 .. Len(stack) - 2 PROVE r[k] = stack[k + 2]
      <4>1. k \in 1 .. Len(stack) - m + 1 /\ m + k - 1 = k + 2
        BY <1>4, <3>1
      <4> QED
        BY <3>2, <3>3, <4>1
    <3> QED
      BY <3>3, <3>4, <3>5, <3>6
  <2>9. PICK c : c = [call |-> "body"] /\ c \in CallSet /\ c.call = "body"
    <3>1. PICK c : c = [call |-> "body"]
      OBVIOUS
    <3>2. c \in BodySet /\ c.call = "body"
      BY <3>1 DEF BodySet
    <3> QED
      BY <3>1, <3>2 DEF CallSet
  <2>11. <<c>> \o <<g, f>> \o r = <<c>> \o (<<g>> \o (<<f>> \o r))
    <3>1. r \in Seq(CallSet) /\ <<g, f>> \in Seq(CallSet) /\ c \in CallSet /\ g \in CallSet /\ f \in CallSet
      <4>1. r \in Seq(CallSet)
        BY <2>6 DEF Going, StackFits
      <4>2. g \in CallSet /\ f \in CallSet
        BY <2>5
      <4>3. <<g, f>> \in Seq(CallSet)
        BY ONLY <4>2
      <4> QED
        BY <2>9, <4>1, <4>2, <4>3
    <3>2. <<g, f>> \o r = <<g>> \o (<<f>> \o r)
      BY ONLY <3>1, FromTheFront
    <3>3. PICK t \in Seq(CallSet) : t = <<g, f>>
      BY <3>1
    <3>4. <<c>> \o t \o r = <<c>> \o (t \o r)
      BY ONLY <3>1, <3>3, OneMore
    <3> QED
      BY ONLY <3>2, <3>3, <3>4
  <2>12. stack' = Pruned(page', <<c>> \o <<g, f>> \o r)
    <3>1. d.node = Top.node /\ Told(d, i) = <<Top.node, Queue[i].elem, Queue[i].h>>
      BY <1>3 DEF Told, Queue
    <3>2. stack' = Pruned(page', <<[call |-> "body"]>>
                     \o <<[Top EXCEPT !.i = i + 1],
                          [stack[2] EXCEPT !.heard = Append(@, <<Top.node, Queue[i].elem, Queue[i].h>>)]>>
                     \o SubSeq(stack, 3, Len(stack)))
      BY <1>6, <2>3 DEF Turn
    <3> QED
      BY <1>3, <2>4, <2>6, <2>9, <3>1, <3>2
  <2>13. stack' = Pruned(page', <<[call |-> "body"]>> \o (<<g>> \o (<<f>> \o r)))
    BY <2>9, <2>11, <2>12
  <2>14. d = stack[1] /\ e = stack[2] /\ Top = d /\ d.call = "dispatch"
    BY <1>1, <1>3
  <2>15. Turns(i, d, e, g, f, r)
    BY <1>1, <1>2, <1>3, <1>4, <2>3, <2>4, <2>5, <2>6, <2>13, <2>14 DEF Turns
  <2> QED
    BY <2>15

\* The stack as it is then.
LEMMA TurnStack ==
  ASSUME NEW i, NEW d, NEW e, NEW g, NEW f, NEW r, Turns(i, d, e, g, f, r)
  PROVE  Going(<<[call |-> "body"]>> \o (<<g>> \o (<<f>> \o r)))
<1>1. QED
  <2>1. Turns(i, d, e, g, f, r)
    OBVIOUS
  <2>4. EventFits(f) /\ DispatchFits(g, f) /\ g.i > 1
    BY <2>1 DEF Turns
  <2>5. ~f.ends /\ f \in CallSet /\ f.call = "event" /\ g \in CallSet /\ g.call = "dispatch"
    BY <2>1 DEF Turns
  <2>6. Going(r) /\ (Len(r) # 0 => r[1].call = "body")
    BY <2>1 DEF Turns
  <2>7. PICK u : u = <<f>> \o r /\ Going(u) /\ Len(u) # 0 /\ u[1] = f
    <3>1. OnTop(f, r)
      BY <2>4, <2>5, <2>6 DEF OnTop
    <3>2. Going(<<f>> \o r)
      BY <2>5, <2>6, <3>1, GoingPushed
    <3>3. r \in Seq(CallSet)
      BY <2>6 DEF Going, StackFits
    <3>4. Len(<<f>> \o r) # 0 /\ (<<f>> \o r)[1] = f
      BY ONLY <2>5, <3>3
    <3> QED
      BY <3>2, <3>4
  <2>8. PICK w : w = <<g>> \o u /\ Going(w) /\ Len(w) # 0 /\ w[1] = g
    <3>1. OnTop(g, u)
      BY <2>4, <2>5, <2>7 DEF OnTop
    <3>2. Going(<<g>> \o u)
      BY <2>5, <2>7, <3>1, GoingPushed
    <3>3. u \in Seq(CallSet)
      BY <2>7 DEF Going, StackFits
    <3>4. Len(<<g>> \o u) # 0 /\ (<<g>> \o u)[1] = g
      BY ONLY <2>5, <3>3
    <3> QED
      BY <3>2, <3>4
  <2>9. PICK c : c = [call |-> "body"] /\ c \in CallSet /\ c.call = "body"
    <3>1. PICK c : c = [call |-> "body"]
      OBVIOUS
    <3>2. c \in BodySet /\ c.call = "body"
      BY <3>1 DEF BodySet
    <3> QED
      BY <3>1, <3>2 DEF CallSet
  <2>10. Going(<<c>> \o w)
    <3>1. OnTop(c, w)
      BY <2>4, <2>5, <2>8, <2>9 DEF OnTop
    <3> QED
      BY <2>8, <2>9, <3>1, GoingPushed
  <2> QED
    BY <2>7, <2>8, <2>9, <2>10

\* dispatch() ends or calls a handler.
LEMMA TurnGoes ==
  ASSUME Proceeds(stack, triggered), Turn
  PROVE  Proceeds(stack, triggered)'
<1>1. CASE Called = {} /\ stack' = Tail(stack) /\ UNCHANGED page
  <2>1. /\ stack # <<>> /\ stack[1].call = "dispatch" /\ triggered' = triggered
    BY AtTop DEF Turn, In
  <2>2. Going(stack) /\ triggered = None
    BY <2>1, Goes
  <2> QED
    BY <1>1, <2>1, <2>2, TailGoes, GoingProceeds
<1>2. CASE ~(Called = {} /\ stack' = Tail(stack) /\ UNCHANGED page)
  <2>1. PICK i, d, e, g, f, r : Turns(i, d, e, g, f, r)
    BY <1>2, Turning
  <2>2. PICK w : /\ w = <<[call |-> "body"]>> \o (<<g>> \o (<<f>> \o r)) /\ Going(w)
    BY <2>1, TurnStack
  <2>3. PICK p : p = page'
    OBVIOUS
  <2>4. Proceeds(Pruned(p, w), None)
    BY <2>2, GoingPruned, GoingProceeds
  <2>5. stack' = Pruned(p, w) /\ triggered' = None
    BY <2>1, <2>2, <2>3 DEF Turns
  <2> QED
    BY <2>4, <2>5
<1> QED
  BY <1>1, <1>2

\* An exception comes to the innermost event that the browser has made.
Throws(k, e, f, r) ==
  /\ Going(stack) /\ triggered = None /\ Len(stack) \in Nat
  /\ k \in 1 .. Len(stack) /\ k # 1 /\ e = stack[k] /\ e.call = "event" /\ EventFits(e) /\ ~e.ends
  /\ f = Less(e, {x \in e.due : x[1] # stack[k - 1].node}) /\ EventFits(f) /\ ~f.ends
  /\ f \in CallSet /\ f.call = "event"
  /\ r = SubSeq(stack, k + 1, Len(stack)) /\ Going(r) /\ (Len(r) # 0 => r[1].call = "body")
  /\ Len(r) = Len(stack) - k /\ (\A j \in 1 .. Len(stack) - k : r[j] = stack[j + k])
  /\ stack' = <<f>> \o r /\ UNCHANGED <<page, triggered>>

\* An exception leaves the event that the browser has called, in one shape.
LEMMA Throwing ==
  ASSUME Proceeds(stack, triggered), Throw, stack' # <<>>
  PROVE  \E k, e, f, r : Throws(k, e, f, r)
<1>1. Going(stack) /\ triggered = None /\ triggered' = triggered
  BY GoesInBody DEF Throw
<1>2. stack \in Seq(CallSet) /\ DOMAIN stack = 1 .. Len(stack) /\ Len(stack) \in Nat
  BY <1>1 DEF Going, StackFits
<1> DEFINE called == {k \in DOMAIN stack : stack[k].call = "event" /\ stack[k].native}
           D(k) == {x \in stack[k].due : x[1] # stack[k - 1].node}
<1>3. called # {}
  BY DEF Throw
<1>4. QED
  <2>1. called \subseteq Nat
    BY <1>2
  <2>2. PICK k : k = Min(called) /\ k \in called
    <3> HIDE DEF called
    <3> QED
      BY <1>3, <2>1, LeastNumber
  <2>3. k \in 1 .. Len(stack) /\ stack[k].call = "event" /\ FrameFits(stack, k) /\ ~stack[k].ends
    <3>1. k \in 1 .. Len(stack) /\ stack[k].call = "event"
      BY <1>2, <2>2
    <3> QED
      BY <1>1, <3>1 DEF Going, StackFits, NoEnds
  <2>4. PICK e, E : /\ e = stack[k] /\ E = D(k) /\ E \subseteq e.due /\ EventFits(e) /\ ~e.ends
    BY <2>3 DEF FrameFits
  <2>5. PICK f : f = Less(e, E) /\ EventFits(f) /\ f.call = "event" /\ f \in CallSet /\ Alike(e, f)
    <3>1. EventFits(e) /\ E \subseteq e.due
      BY <2>4
    <3>2. /\ Less(e, E) \in EventSet /\ Alike(e, Less(e, E)) /\ EventFits(Less(e, E))
          /\ Less(e, E).call = "event"
      BY ONLY <3>1, LessFits
    <3> QED
      BY <3>2 DEF CallSet
  <2>6. ~f.ends
    BY <2>4, <2>5 DEF Alike
  <2>7. PICK r : /\ r = SubSeq(stack, k + 1, Len(stack)) /\ Going(r)
                 /\ (Len(r) # 0 => r[1].call = "body") /\ Len(r) = Len(stack) - k
                 /\ \A j \in 1 .. Len(stack) - k : r[j] = stack[j + k]
    <3>1. PICK m \in 1 .. Len(stack) + 1 : m = k + 1
      BY <1>2, <2>3
    <3>2. PICK r : r = SubSeq(stack, m, Len(stack))
      OBVIOUS
    <3>3. /\ Going(r) /\ Len(r) = Len(stack) - m + 1
          /\ \A j \in 1 .. Len(stack) - m + 1 : r[j] = stack[m + j - 1]
      BY <1>1, <3>2, GoingDropped, Dropped DEF Going
    <3>4. Len(r) # 0 => r[1].call = "body"
      <4>1. ASSUME Len(r) # 0 PROVE r[1].call = "body"
        <5>1. PICK n : n = Len(stack) /\ n \in Nat /\ k \in 1 .. n /\ m = k + 1 /\ n - m + 1 # 0
          BY <1>2, <2>3, <3>1, <3>3, <4>1
        <5>2. k # n /\ 1 \in 1 .. n - m + 1 /\ m + 1 - 1 = k + 1
          BY ONLY <5>1
        <5>3. r[1] = stack[m + 1 - 1]
          BY <3>3, <5>1, <5>2
        <5> QED
          BY <2>3, <5>1, <5>2, <5>3 DEF FrameFits
      <4> QED
        BY <4>1
    <3>5. Len(r) = Len(stack) - k
      BY <1>2, <2>3, <3>1, <3>3
    <3>6. ASSUME NEW j \in 1 .. Len(stack) - k PROVE r[j] = stack[j + k]
      <4>1. j \in 1 .. Len(stack) - m + 1 /\ m + j - 1 = j + k
        BY <1>2, <2>3, <3>1
      <4> QED
        BY <3>3, <4>1
    <3> QED
      BY <3>1, <3>2, <3>3, <3>4, <3>5, <3>6
  <2>10. stack' = <<f>> \o r
    <3>1. stack' = <<[stack[k] EXCEPT !.due = {x \in @ : x[1] # stack[k - 1].node}]>>
                    \o SubSeq(stack, k + 1, Len(stack))
      BY <1>3, <2>2 DEF Throw
    <3>2. f = [stack[k] EXCEPT !.due = {x \in @ : x[1] # stack[k - 1].node}]
      BY <2>4, <2>5 DEF Less
    <3> QED
      BY <2>7, <3>1, <3>2
  <2>11. k # 1
    <3>1. stack[1].call = "body"
      BY AtTop DEF Throw, In
    <3> QED
      BY <2>3, <3>1
  <2>12. UNCHANGED <<page, triggered>>
    BY DEF Throw
  <2>13. Throws(k, e, f, r)
    BY <1>1, <1>2, <2>3, <2>4, <2>5, <2>6, <2>7, <2>10, <2>11, <2>12 DEF Throws
  <2> QED
    BY <2>13

\* an exception ends calls.
LEMMA ThrowGoes ==
  ASSUME Proceeds(stack, triggered), Throw
  PROVE  Proceeds(stack, triggered)'
<1>1. CASE stack' = <<>>
  <2>1. triggered = None /\ triggered' = triggered
    BY GoesInBody DEF Throw
  <2>2. Proceeds(<<>>, None)
    BY NothingGoing, GoingProceeds
  <2> QED
    BY <1>1, <2>1, <2>2
<1>2. CASE stack' # <<>>
  <2>1. PICK k, e, f, r : Throws(k, e, f, r)
    BY <1>2, Throwing
  <2>2. /\ Going(r) /\ f \in CallSet /\ f.call = "event" /\ EventFits(f) /\ ~f.ends
        /\ (Len(r) # 0 => r[1].call = "body")
        /\ stack' = <<f>> \o r /\ triggered' = None
    BY <2>1 DEF Throws
  <2>3. OnTop(f, r)
    BY <2>2 DEF OnTop
  <2>4. Proceeds(<<f>> \o r, None)
    BY <2>2, <2>3, GoingPushed, GoingProceeds
  <2> QED
    BY <2>2, <2>4
<1> QED
  BY <1>1, <1>2

\* An event ends, and perhaps the browser makes another.
LEMMA FinishGoes ==
  ASSUME Proceeds(stack, triggered), Forest(page.parent), Finish
  PROVE  Proceeds(stack, triggered)'
<1>1. /\ stack # <<>> /\ Top = stack[1] /\ FrameFits(stack, 1) /\ StackFits(stack)
      /\ stack[1].call = "event" /\ Len(stack) \in Nat /\ Len(stack) >= 1
  BY AtTop DEF Finish, In
<1>2. EventFits(Top)
  BY <1>1 DEF FrameFits
<1>3. triggered # None <=> Top.ends
  <2>1. 1 \in 1 .. Len(stack)
    BY <1>1
  <2> QED
    BY <1>1, <2>1 DEF Proceeds, NoEnds
<1>4. Top.ends => StackFits(Tail(stack)) /\ NoEnds(Tail(stack))
  BY <1>1, <1>3, Rest DEF Proceeds
<1>5. ~Top.ends => Going(stack)
  BY <1>1, <1>3 DEF Proceeds, Going
<1>6. Going(Tail(stack))
  BY <1>1, <1>4, <1>5, TailGoes DEF Going
<1>7. CASE /\ Top.native \/ ~Default
           /\ stack' = Tail(stack) /\ triggered' = IF Top.ends THEN None ELSE triggered
  <2>1. triggered' = None
    BY <1>3, <1>7
  <2> QED
    BY <1>6, <1>7, <2>1, GoingProceeds
<1>8. CASE ~Top.native /\ Default
  <2>1. ~Top.ends /\ Going(stack)
    BY <1>2, <1>5, <1>8 DEF EventFits
  <2>2. Top.type \in EventTypes /\ Top.target \in Holders
    BY <1>2 DEF EventFits, EventSet
  <2>3. PICK path \in Seq(Nodes) : path = Path(page, Top.target) /\ IsInjective(path)
    BY <2>2, PathFits
  <2>4. PICK o : o = Top /\ EventFits(o) /\ ~o.ends
    BY <1>2, <2>1
  <2>5. PICK e : /\ e = [Event(TRUE, Top.type, None, Top.target, path) EXCEPT
                           !.clicked = TRUE, !.ends = TRUE, !.due = {}, !.heard = o.heard]
                 /\ EventFits(e)
    BY <2>2, <2>3, <2>4, EndBegins
  <2>6. e.ends /\ e.type = Top.type
    <3>1. PICK due, t, g, h : due = Reached(page, path, Top.type, None, Top.target)
                              /\ t = Top.type /\ g = Top.target /\ h = o.heard
      OBVIOUS
    <3>2. PICK w : w = [call |-> "event", native |-> TRUE, type |-> t, ns |-> None, target |-> g,
             path |-> path, i |-> 1, stopped |-> FALSE, immediate |-> FALSE, prevented |-> FALSE,
             only |-> FALSE, clicked |-> FALSE, ends |-> FALSE,
             due |-> due, heard |-> <<>>, over |-> 0, last |-> 0]
      OBVIOUS
    <3>3. e = [w EXCEPT !.clicked = TRUE, !.ends = TRUE, !.due = {}, !.heard = h]
      BY <2>5, <3>1, <3>2 DEF Event
    <3>4. w.type = t /\ "type" \in DOMAIN w /\ "ends" \in DOMAIN w
      BY ONLY <3>2
    <3>5. e.ends /\ e.type = t
      BY ONLY <3>3, <3>4
    <3> QED
      BY <3>1, <3>5
  <2>7. stack' = <<e>> \o Tail(stack) /\ triggered' = Top.type
    BY <1>8, <2>3, <2>4, <2>5 DEF Finish
  <2>8. PICK r : /\ r = Tail(stack) /\ Going(r) /\ r \in Seq(CallSet)
                 /\ Len(r) # 0 => r[1].call = "body"
    <3>1. Tail(stack) \in Seq(CallSet)
      BY <1>6 DEF Going, StackFits
    <3>2. Len(Tail(stack)) = Len(stack) - 1 /\ \A k \in 1 .. Len(stack) - 1 : Tail(stack)[k] = stack[k + 1]
      BY <1>1, Rest
    <3>3. ASSUME Len(Tail(stack)) # 0 PROVE Tail(stack)[1].call = "body"
      <4>1. PICK n : n = Len(stack) /\ n \in Nat /\ n >= 1 /\ n - 1 # 0
        BY <1>1, <3>2, <3>3
      <4>2. 1 # n /\ 1 \in 1 .. n - 1
        BY ONLY <4>1
      <4>3. Tail(stack)[1] = stack[1 + 1]
        BY <3>2, <4>1, <4>2
      <4> QED
        BY <1>1, <4>1, <4>2, <4>3 DEF FrameFits
    <3> QED
      BY <1>6, <3>1, <3>3
  <2>9. e \in CallSet /\ e.call = "event"
    BY <2>5 DEF EventFits, EventSet, CallSet
  <2>10. OnTop(e, r)
    BY <2>5, <2>8, <2>9 DEF OnTop
  <2>11. PICK u : u = <<e>> \o r /\ StackFits(u) /\ u # <<>> /\ u[1] = e /\ Tail(u) = r
    <3>1. StackFits(<<e>> \o r)
      BY <2>8, <2>9, <2>10, Pushed DEF Going
    <3>2. <<e>> \o r # <<>> /\ (<<e>> \o r)[1] = e
      BY ONLY <2>8, <2>9
    <3>3. Tail(<<e>> \o r) = r
      <4>1. e \in CallSet /\ r \in Seq(CallSet)
        BY <2>8, <2>9
      <4>2. PICK u : u = <<e>> \o r
        OBVIOUS
      <4>3. /\ u \in Seq(CallSet) /\ Len(u) = Len(r) + 1 /\ Len(r) \in Nat
            /\ \A k \in 1 .. Len(r) : u[k + 1] = r[k]
        BY ONLY <4>1, <4>2
      <4>4. /\ Tail(u) \in Seq(CallSet) /\ Len(Tail(u)) = Len(r)
            /\ \A k \in 1 .. Len(r) : Tail(u)[k] = u[k + 1]
        <5>1. u # <<>>
          BY <4>3
        <5> QED
          BY ONLY <4>3, <5>1
      <4>5. PICK v : v = Tail(u)
        OBVIOUS
      <4>6. \A k \in 1 .. Len(v) : v[k] = r[k]
        BY <4>3, <4>4, <4>5
      <4>7. v = r
        BY ONLY <4>1, <4>4, <4>5, <4>6, SeqEqual
      <4> QED
        BY <4>2, <4>5, <4>7
    <3> QED
      BY <3>1, <3>2, <3>3
  <2>12. Proceeds(u, Top.type)
    <3>1. Top.type # None
      BY <2>2, EventsAssumption
    <3> QED
      BY <2>6, <2>8, <2>9, <2>11, <3>1 DEF Proceeds, Going
  <2> QED
    BY <2>7, <2>8, <2>11, <2>12
<1> QED
  BY <1>7, <1>8 DEF Finish

\* Nothing is in progress when the page is there.
LEMMA InitGoes == PageInit => Proceeds(stack, triggered)
<1> SUFFICES ASSUME PageInit PROVE Proceeds(stack, triggered)
  OBVIOUS
<1>1. stack = <<>> /\ triggered = None
  BY DEF PageInit
<1> QED
  BY <1>1, NothingGoing, GoingProceeds

\* Every step leaves the calls in progress in order.
LEMMA StepGoes ==
  ASSUME PageSound(page), Proceeds(stack, triggered), [PageNext]_eventVars
  PROVE  Proceeds(stack, triggered)'
<1>1. Forest(page.parent)
  BY DEF PageSound
<1>2. CASE on \/ off \/ Manipulate \/ Restyle
  <2>1. \E p : Change(p)
    BY <1>2 DEF on, off, Manipulate, Restyle
  <2> QED
    BY <2>1, ChangeGoes
<1>3. CASE UserClicks \/ click \/ trigger
  BY <1>1, <1>3, StartsGo
<1>4. CASE Visit
  BY <1>4, VisitGoes
<1>5. CASE Turn
  BY <1>5, TurnGoes
<1>6. CASE Finish
  BY <1>1, <1>6, FinishGoes
<1>7. CASE stopPropagation \/ stopImmediatePropagation \/ ReturnFalse
  BY <1>7, StopsGo
<1>8. CASE Return
  BY <1>8, ReturnGoes
<1>9. CASE Throw
  BY <1>9, ThrowGoes
<1>10. CASE UNCHANGED eventVars
  BY <1>10 DEF eventVars, Proceeds
<1> QED
  BY <1>2, <1>3, <1>4, <1>5, <1>6, <1>7, <1>8, <1>9, <1>10 DEF PageNext

\* Calls that are in order have heard in order.
LEMMA GoingIsInOrder == Proceeds(stack, triggered) => HeardInOrder
<1> SUFFICES ASSUME Proceeds(stack, triggered), NEW k \in DOMAIN stack, stack[k].call = "event",
                    NEW x \in DOMAIN stack[k].heard, NEW y \in DOMAIN stack[k].heard, x < y
             PROVE  /\ stack[k].heard[x] # stack[k].heard[y]
                    /\ ~stack[k].ends =>
                         /\ SelectInSeq(stack[k].path, LAMBDA m : m = stack[k].heard[x][1])
                              <= SelectInSeq(stack[k].path, LAMBDA m : m = stack[k].heard[y][1])
                         /\ stack[k].heard[x][1] = stack[k].heard[y][1] /\ stack[k].heard[x][3].sel = None
                              => stack[k].heard[y][3].sel = None
                    /\ stack[k].over \in 1 .. x => /\ stack[k].heard[x][1] = stack[k].heard[y][1]
                                                   /\ stack[k].heard[x][2] = stack[k].heard[y][2]
                    /\ stack[k].last \notin 1 .. x
  BY DEF HeardInOrder
<1>1. PICK e : e = stack[k] /\ EventFits(e)
  BY DEF Proceeds, StackFits, FrameFits
<1>2. /\ e \in EventSet /\ e.heard \in Seq(Nodes \X Nodes \X HandlerSet) /\ e.path \in Seq(Nodes)
      /\ Len(e.heard) \in Nat /\ x \in 1 .. Len(e.heard) /\ y \in 1 .. Len(e.heard)
  BY <1>1 DEF EventFits, EventSet
<1>3. Ordered(e, x, y)
  BY <1>1, <1>2 DEF EventFits, HearingFits
<1>4. e.last \notin 1 .. x
  <2>1. PICK n, l : n = Len(e.heard) /\ l = e.last
    OBVIOUS
  <2>2. n \in Nat /\ x \in 1 .. n /\ y \in 1 .. n /\ l \in {0, n} /\ x < y
    BY <1>1, <1>2, <2>1 DEF EventFits, StopFits
  <2>3. l \notin 1 .. x
    BY ONLY <2>2
  <2> QED
    BY <2>1, <2>3
<1>5. ASSUME NEW z \in 1 .. Len(e.heard), ~e.ends
      PROVE  Met(e, z, SelectInSeq(e.path, LAMBDA m : m = e.heard[z][1]))
  <2>1. PICK j : Met(e, z, j)
    BY <1>1, <1>5 DEF EventFits, HearingFits
  <2>2. PICK v : v = e.heard[z][1]
    OBVIOUS
  <2>3. Contains(e.path, v)
    BY <2>1, <2>2 DEF Met, Contains
  <2>4. PICK i \in 1 .. Len(e.path) : i = SelectInSeq(e.path, LAMBDA m : m = v) /\ e.path[i] = v
    <3>1. PICK s \in Seq(Nodes) : s = e.path
      BY <1>2
    <3>2. Contains(s, v)
      BY <2>3, <3>1
    <3>3. \E i \in 1 .. Len(s) : /\ i = SelectInSeq(s, LAMBDA m : m = v) /\ s[i] = v
                                 /\ \A w \in 1 .. i - 1 : s[w] # v
      BY ONLY <3>2, PlaceFound
    <3> QED
      BY ONLY <3>1, <3>3
  <2> QED
    BY <2>2, <2>4 DEF Met
<1>6. ~e.ends => SelectInSeq(e.path, LAMBDA m : m = e.heard[x][1])
                  <= SelectInSeq(e.path, LAMBDA m : m = e.heard[y][1])
  BY <1>2, <1>3, <1>5 DEF Ordered
<1> QED
  BY <1>1, <1>3, <1>4, <1>6 DEF Ordered

\* No handler hears of an event twice, not even when trigger() has the browser make
\* a second one; inner nodes hear first, at a node those that are delegated; who
\* stops an event keeps it from all but those it may still come to (HeardInOrder):
\* for every page, path and handler, whatever jQuery.event.dispatch() and trigger()
\* interrupt each other with.
THEOREM EventsAreHeardInOrder == PageSpec => []HeardInOrder
<1> DEFINE Inv == PageSound(page) /\ Proceeds(stack, triggered)
<1>1. PageInit => Inv
  BY FirstPageFits, InitGoes
<1>2. Inv /\ [PageNext]_eventVars => Inv'
  <2> SUFFICES ASSUME Inv, [PageNext]_eventVars PROVE Inv'
    OBVIOUS
  <2>1. PageSound(page')
    BY StepFits
  <2>2. Proceeds(stack, triggered)'
    BY StepGoes
  <2> QED
    BY <2>1, <2>2 DEF PageSound, Fits
<1>3. Inv => HeardInOrder
  BY GoingIsInOrder
<1> QED
  BY <1>1, <1>2, <1>3, PTL DEF PageSpec

-----------------------------------------------------------------------------
(***************************************************************************)
(* What is due to an event.                                                *)
(***************************************************************************)
\* What is due to an event on its way has been heard, is at a node to which the
\* event comes yet, or in the queue of the dispatch() in progress.
Ahead(e, nh) == \E j \in 1 .. Len(e.path) : j >= e.i /\ e.path[j] = nh[1]
WasHeard(e, nh) == \E x \in 1 .. Len(e.heard) : e.heard[x][1] = nh[1] /\ e.heard[x][3] = nh[2]
On(e, nh) == e.stopped \/ WasHeard(e, nh) \/ Ahead(e, nh)
Queued(d, nh) == d.node = nh[1] /\ \E j \in d.i .. Len(d.queue) : d.queue[j].h = nh[2]
Owed(p, e) == /\ e.due \subseteq Reached(p, e.path, e.type, e.ns, e.target)
              /\ e.ends => e.due = {}
DueAt(p, s, k) ==
  s[k].call = "event" =>
    /\ Owed(p, s[k])
    /\ \A nh \in s[k].due : On(s[k], nh) \/ (k # 1 /\ Queued(s[k - 1], nh))
DueFits(p, s) == \A k \in 1 .. Len(s) : DueAt(p, s, k)

\* Some calls on top have ended.
LEMMA DueBelow ==
  ASSUME NEW p, NEW s, NEW u, Len(s) \in Nat, NEW m \in Nat, Len(u) = Len(s) - m,
         \A k \in 1 .. Len(s) - m : u[k] = s[k + m],
         DueFits(p, s), Len(u) # 0 /\ u[1].call = "event" => \A nh \in u[1].due : On(u[1], nh)
  PROVE  DueFits(p, u)
<1>1. ASSUME NEW k \in 1 .. Len(u) PROVE DueAt(p, u, k)
  <2>1. PICK j \in 1 .. Len(s) : j = k + m
    <3>1. k + m \in 1 .. Len(s)
      OBVIOUS
    <3> QED
      BY <3>1
  <2>2. u[k] = s[j] /\ DueAt(p, s, j)
    BY <2>1 DEF DueFits
  <2>3. CASE k = 1
    <3>1. Len(u) # 0
      OBVIOUS
    <3> QED
      BY <2>2, <2>3, <3>1 DEF DueAt
  <2>4. CASE k # 1
    <3>1. k - 1 \in 1 .. Len(s) - m /\ (k - 1) + m = j - 1 /\ j # 1
      BY <2>1, <2>4
    <3>2. u[k - 1] = s[j - 1]
      BY <3>1
    <3> QED
      BY <2>2, <2>4, <3>1, <3>2 DEF DueAt
  <2> QED
    BY <2>3, <2>4
<1> QED
  BY <1>1 DEF DueFits

\* A call begins; under it an event may have had less.
DueUnder(p, s) == \A k \in 1 .. Len(s) : k # 1 => DueAt(p, s, k)

\* A call on top of calls whose dues are kept.
LEMMA DueAbove ==
  ASSUME NEW p, NEW s \in Seq(CallSet), NEW c \in CallSet, DueUnder(p, s),
         Len(s) # 0 /\ s[1].call = "event" =>
           Owed(p, s[1]) /\ \A nh \in s[1].due : On(s[1], nh) \/ Queued(c, nh)
  PROVE  /\ DueUnder(p, <<c>> \o s)
         /\ (c.call = "event" => Owed(p, c) /\ \A nh \in c.due : On(c, nh)) => DueFits(p, <<c>> \o s)
<1> DEFINE u == <<c>> \o s
<1>1. /\ Len(u) = Len(s) + 1 /\ Len(s) \in Nat
      /\ u[1] = c /\ \A k \in 1 .. Len(s) : u[k + 1] = s[k]
  BY ONLY s \in Seq(CallSet), c \in CallSet
<1> HIDE DEF u
<1>2. ASSUME NEW k \in 1 .. Len(u), k # 1 PROVE DueAt(p, u, k)
  <2>1. PICK j \in 1 .. Len(s) : k = j + 1 /\ k - 1 = j
    <3>1. k - 1 \in 1 .. Len(s) /\ k = (k - 1) + 1
      BY <1>1, <1>2
    <3> QED
      BY <3>1
  <2>2. u[k] = s[j]
    BY <1>1, <2>1
  <2>3. CASE j = 1
    <3>1. u[k - 1] = c /\ Len(s) # 0
      BY <1>1, <2>1, <2>3
    <3> QED
      BY <1>2, <2>2, <2>3, <3>1 DEF DueAt
  <2>4. CASE j # 1
    <3>1. PICK i \in 1 .. Len(s) : i = j - 1 /\ k - 1 = i + 1
      <4>1. j - 1 \in 1 .. Len(s) /\ k - 1 = (j - 1) + 1
        BY <1>1, <2>1, <2>4
      <4> QED
        BY <4>1
    <3>2. u[k - 1] = s[j - 1]
      BY <1>1, <3>1
    <3>3. DueAt(p, s, j)
      BY <2>4 DEF DueUnder
    <3> QED
      BY <1>2, <2>2, <2>4, <3>2, <3>3 DEF DueAt
  <2> QED
    BY <2>3, <2>4
<1>3. DueUnder(p, u)
  BY <1>2 DEF DueUnder
<1>4. ASSUME c.call = "event" => Owed(p, c) /\ \A nh \in c.due : On(c, nh) PROVE DueFits(p, u)
  <2>1. ASSUME NEW k \in 1 .. Len(u), k = 1 PROVE DueAt(p, u, k)
    BY <1>1, <1>4, <2>1 DEF DueAt
  <2> QED
    BY <1>2, <2>1 DEF DueFits
<1> QED
  BY <1>3, <1>4 DEF u

\* What is under the top is kept when all is.
LEMMA DueAll ==
  ASSUME NEW p, NEW s, DueFits(p, s)
  PROVE  DueUnder(p, s)
BY DEF DueFits, DueUnder

\* The page has changed, and less is due.
LEMMA DueLess ==
  ASSUME NEW p, NEW q, NEW s, StackFits(s), DueFits(p, s)
  PROVE  DueFits(q, Pruned(q, s))
<1> DEFINE D(k) == s[k].due \intersect Reached(q, s[k].path, s[k].type, s[k].ns, s[k].target)
<1>1. PICK u : /\ u = Pruned(q, s) /\ Len(u) = Len(s)
               /\ \A k \in 1 .. Len(s) : u[k] = IF s[k].call # "event" THEN s[k] ELSE Less(s[k], D(k))
  <2>1. /\ Len(Pruned(q, s)) = Len(s)
        /\ \A k \in 1 .. Len(s) :
              Pruned(q, s)[k] = IF s[k].call # "event" THEN s[k]
                                ELSE Less(s[k], s[k].due \intersect
                                       Reached(q, s[k].path, s[k].type, s[k].ns, s[k].target))
    BY PrunedFits
  <2> QED
    BY <2>1
<1>2. Len(s) \in Nat
  BY DEF StackFits
<1>3. ASSUME NEW k \in 1 .. Len(s), u[k].call = "event"
      PROVE  /\ Owed(q, u[k]) /\ s[k].call = "event" /\ u[k].due \subseteq s[k].due
             /\ \A nh : On(s[k], nh) => On(u[k], nh)
  <2>1. s[k].call = "event" /\ u[k] = Less(s[k], D(k))
    BY <1>1, <1>3
  <2>2. PICK e, E : e = s[k] /\ E = D(k) /\ u[k] = Less(e, E) /\ E \subseteq e.due /\ EventFits(e)
                    /\ E \subseteq Reached(q, e.path, e.type, e.ns, e.target)
    BY <2>1 DEF StackFits, FrameFits
  <2>3. Alike(e, Less(e, E)) /\ Less(e, E).due = E
    BY ONLY <2>2, LessFits
  <2>4. Less(e, E).type = e.type /\ Less(e, E).ns = e.ns /\ Less(e, E).target = e.target
    BY <2>2 DEF EventFits, EventSet, Less
  <2>5. Owed(p, e)
    BY <2>1, <2>2 DEF DueFits, DueAt
  <2>6. \A nh : On(e, nh) => On(u[k], nh)
    <3>1. PICK w : w = u[k] /\ Alike(e, w)
      BY <2>2, <2>3
    <3>2. w.stopped = e.stopped /\ w.heard = e.heard /\ w.path = e.path /\ w.i = e.i
      BY <3>1 DEF Alike
    <3>3. \A nh : On(e, nh) => On(w, nh)
      BY ONLY <3>2 DEF On, WasHeard, Ahead
    <3> QED
      BY <3>1, <3>3
  <2>7. Owed(q, u[k])
    BY <2>2, <2>3, <2>4, <2>5 DEF Alike, Owed
  <2> QED
    BY <2>1, <2>2, <2>3, <2>6, <2>7
<1>4. ASSUME NEW k \in 1 .. Len(s), u[k].call = "event" PROVE DueAt(q, u, k)
  <2>1. DueAt(p, s, k)
    BY DEF DueFits
  <2>2. k # 1 => u[k - 1] = s[k - 1] \/ s[k - 1].call = "event"
    <3>1. k # 1 => k - 1 \in 1 .. Len(s)
      BY <1>2
    <3> QED
      BY <1>1, <3>1
  <2>3. k # 1 => s[k - 1].call # "event"
    <3>1. ASSUME k # 1, s[k - 1].call = "event" PROVE FALSE
      <4>1. PICK j \in 1 .. Len(s) : j = k - 1 /\ j + 1 = k /\ j # Len(s)
        <5>1. k - 1 \in 1 .. Len(s) /\ (k - 1) + 1 = k /\ k - 1 # Len(s)
          BY <1>2, <3>1
        <5> QED
          BY <5>1
      <4>2. FrameFits(s, j) /\ s[j].call = "event" /\ s[j + 1].call = "event"
        BY <1>3, <1>4, <3>1, <4>1 DEF StackFits
      <4> QED
        BY <4>1, <4>2 DEF FrameFits
    <3> QED
      BY <3>1
  <2> QED
    BY <1>3, <1>4, <2>1, <2>2, <2>3 DEF DueAt
<1>5. DueFits(q, u)
  BY <1>1, <1>4 DEF DueFits, DueAt
<1> QED
  BY <1>1, <1>5

\* An event is stopped.
LEMMA DueStopped ==
  ASSUME NEW p, NEW s, StackFits(s), DueFits(p, s), NEW k \in 1 .. Len(s), s[k].call = "event",
         NEW f, Owed(p, s[k]) => Owed(p, f), f.stopped, f.call = "event"
  PROVE  DueFits(p, [s EXCEPT ![k] = f])
<1>1. s \in Seq(CallSet) /\ DOMAIN s = 1 .. Len(s) /\ Len(s) \in Nat
  BY DEF StackFits
<1>2. PICK u : /\ u = [s EXCEPT ![k] = f] /\ Len(u) = Len(s) /\ u[k] = f
               /\ \A j \in 1 .. Len(s) : j # k => u[j] = s[j]
  <2>1. PICK u : u = [s EXCEPT ![k] = f]
    OBVIOUS
  <2>2. DOMAIN u = 1 .. Len(s) /\ u[k] = f /\ \A j \in 1 .. Len(s) : j # k => u[j] = s[j]
    BY <1>1, <2>1
  <2>3. Len(u) = Len(s)
    BY <1>1, <2>1
  <2> QED
    BY <2>1, <2>2, <2>3
<1>3. ASSUME NEW j \in 1 .. Len(s) PROVE DueAt(p, u, j)
  <2>1. DueAt(p, s, j)
    BY DEF DueFits
  <2>2. CASE j = k
    BY <1>2, <2>1, <2>2 DEF DueAt, On
  <2>3. CASE j # k /\ (j = 1 \/ j - 1 # k)
    <3>1. j # 1 => j - 1 \in 1 .. Len(s)
      BY <1>1
    <3> QED
      BY <1>2, <2>1, <2>3, <3>1 DEF DueAt
  <2>4. CASE j # k /\ j # 1 /\ j - 1 = k
    <3>1. k + 1 = j /\ k # Len(s)
      <4>1. PICK n : n = Len(s) /\ n \in Nat /\ j \in 1 .. n /\ k \in 1 .. n /\ j - 1 = k
        BY <1>1, <2>4
      <4>2. k + 1 = j /\ k # n
        BY ONLY <4>1
      <4> QED
        BY <4>1, <4>2
    <3>2. s[j].call = "body"
      BY <3>1 DEF StackFits, FrameFits
    <3> QED
      BY <1>2, <2>4, <3>2 DEF DueAt
  <2> QED
    BY <2>2, <2>3, <2>4
<1>4. DueFits(p, u)
  BY <1>2, <1>3 DEF DueFits
<1> QED
  BY <1>2, <1>4

\* What is due to an event of the stack is on its way to it.
LEMMA DueEvent ==
  ASSUME NEW p, NEW s, DueFits(p, s), NEW k \in 1 .. Len(s), s[k].call = "event"
  PROVE  Owed(p, s[k]) /\ \A nh \in s[k].due : On(s[k], nh) \/ (k # 1 /\ Queued(s[k - 1], nh))
BY DEF DueFits, DueAt

\* What an event must come to is bound to a node of its path.
LEMMA DueIsBound ==
  ASSUME PageSound(page), SelectorsAgree, NEW e \in EventSet, Owed(page, e), NEW nh \in e.due
  PROVE  /\ nh[1] \in Nodes /\ nh[2] \in HandlerSet /\ e.ns \in {None, nh[2].ns}
         /\ \E k \in 1 .. Len(page.events[nh[1]][e.type].list) :
              page.events[nh[1]][e.type].list[k] = nh[2]
         /\ Meets(page, nh[1], nh[2], e.target)
<1>1. PICK n, h : n = nh[1] /\ h = nh[2]
  OBVIOUS
<1>2. /\ e.due \in SUBSET (Nodes \X HandlerSet) /\ e.type \in EventTypes /\ e.target \in Holders
  BY DEF EventSet
<1>3. n \in Nodes /\ h \in HandlerSet
  BY <1>1, <1>2
<1>4. nh \in Reached(page, e.path, e.type, e.ns, e.target)
  BY DEF Owed
<1>5. /\ e.ns \in {None, h.ns} /\ Contains(page.events[n][e.type].list, h)
      /\ h.sel # None => \E x \in ToSet(Before(Lineage(page, e.target), n)) \ {Document} :
                           SelectorMeans(page, Selector[h.sel], n, x)
  BY <1>1, <1>4 DEF Reached
<1>6. page.events[n][e.type] \in Lists(e.type) /\ Forest(page.parent)
  BY <1>2, <1>3, StoreFields DEF PageSound, Fits, Tables
<1>7. PICK u \in Seq(HandlersOf(e.type)) : u = page.events[n][e.type].list
  BY <1>6 DEF Lists
<1>8. PICK k \in 1 .. Len(u) : u[k] = h
  BY <1>5, <1>7 DEF Contains
<1>9. h \in HandlersOf(e.type)
  BY <1>8
<1>10. h.type = e.type
  BY <1>9 DEF HandlersOf
<1>11. Meets(page, n, h, e.target)
  <2> SUFFICES ASSUME h.sel # None
               PROVE  \E x \in ToSet(Before(Lineage(page, e.target), n)) \ {Document} :
                        JQueryFinds(page, Selector[h.sel], n, x)
    BY DEF Meets
  <2>1. PICK x \in ToSet(Before(Lineage(page, e.target), n)) \ {Document} :
          SelectorMeans(page, Selector[h.sel], n, x)
    BY <1>5
  <2>2. x \in Elements
    <3>1. Before(Lineage(page, e.target), n) \in Seq(Holders)
      BY <1>2, <1>6, BelowFits
    <3>2. PICK v \in Seq(Holders) : v = Before(Lineage(page, e.target), n)
      BY <3>1
    <3>3. x \in ToSet(v)
      BY <3>2
    <3>4. PICK i \in DOMAIN v : x = v[i]
      BY <3>3 DEF ToSet
    <3>5. x \in Holders
      BY <3>4
    <3> QED
      BY <3>5 DEF Holders
  <2>3. PICK b \in Bindings : b.h = h
    BY <1>3 DEF HandlerSet
  <2>4. JQueryFinds(page, Selector[h.sel], n, x)
    <3>1. Contains(page.events[n][b.h.type].list, b.h) /\ b.h.sel # None
      BY <1>5, <1>10, <2>3
    <3>2. SelectorMeans(page, Selector[b.h.sel], n, x) = JQueryFinds(page, Selector[b.h.sel], n, x)
      BY <1>3, <2>2, <3>1 DEF SelectorsAgree
    <3> QED
      BY <2>1, <2>3, <3>2
  <2> QED
    BY <2>4
<1> QED
  BY <1>1, <1>3, <1>5, <1>7, <1>8, <1>11

\* So there is something to call at that node.
LEMMA DueIsCalled ==
  ASSUME PageSound(page), Top \in EventSet, NEW n \in Nodes, NEW k,
         k \in 1 .. Len(page.events[n][Top.type].list)
  PROVE  Functions(n) # {}
<1>1. Top.type \in EventTypes
  BY DEF EventSet
<1>2. page.events[n][Top.type] \in Lists(Top.type)
  BY <1>1, StoreFields DEF PageSound, Fits, Tables
<1>3. page.events[n][Top.type].list # <<>>
  <2>1. Len(<<>>) = 0
    OBVIOUS
  <2>2. ~(k \in 1 .. 0)
    OBVIOUS
  <2> QED
    BY <2>1, <2>2
<1>4. <<n, Top.type, page.handle[n]>> \in page.listeners
  BY <1>1, <1>3, StoreFields DEF PageSound, Fits, Wiring
<1>5. CASE Top.native
  <2>1. PICK l \in page.listeners : l[1] = n /\ l[2] = Top.type
    <3>1. PICK l : l = <<n, Top.type, page.handle[n]>>
      OBVIOUS
    <3>2. l \in page.listeners /\ l[1] = n /\ l[2] = Top.type
      BY <1>4, <3>1
    <3> QED
      BY <3>2
  <2>2. l[3] \in Functions(n)
    BY <1>5, <2>1 DEF Functions
  <2> QED
    BY <2>2
<1>6. CASE ~Top.native
  BY <1>3, <1>6 DEF Functions
<1> QED
  BY <1>5, <1>6

\* The event of a stack that is Going is not discarded.
LEMMA PassesNone ==
  ASSUME PageSound(page), SelectorsAgree, Top \in EventSet, Top.i \in Nat, Top.i >= 1,
         ~Discarded, Owed(page, Top), NEW nh \in Top.due,
         NEW j \in 1 .. Len(Top.path), j >= Top.i, Top.path[j] = nh[1]
  PROVE  j \in Comes
<1>1. PICK n, k : n = nh[1] /\ n \in Nodes /\ k \in 1 .. Len(page.events[n][Top.type].list)
  BY DueIsBound
<1>2. Functions(Top.path[j]) # {}
  BY <1>1, DueIsCalled
<1>3. j \in Top.i .. Len(Top.path)
  <2>1. Len(Top.path) \in Nat
    BY DEF EventSet
  <2> QED
    BY <2>1
<1> QED
  BY <1>2, <1>3 DEF Comes

\* A handler or an event ends.
LEMMA DueTail ==
  ASSUME NEW p, NEW s, StackFits(s), s # <<>>, s[1].call # "dispatch", DueFits(p, s)
  PROVE  /\ Tail(s) \in Seq(CallSet) /\ DueFits(p, Tail(s))
         /\ Len(Tail(s)) # 0 => Tail(s)[1].call # "event"
<1>1. /\ StackFits(Tail(s)) /\ Len(Tail(s)) = Len(s) - 1 /\ Len(s) \in Nat /\ Len(s) >= 1
      /\ (\A k \in 1 .. Len(s) - 1 : Tail(s)[k] = s[k + 1]) /\ s[1] \in CallSet /\ FrameFits(s, 1)
  BY Rest
<1>2. PICK r \in Seq(CallSet) : r = Tail(s)
  BY <1>1 DEF StackFits
<1>3. Len(r) # 0 => r[1].call # "event"
  <2>1. ASSUME Len(r) # 0 PROVE r[1].call # "event"
    <3>1. PICK l : l = Len(s) /\ l \in Nat /\ l - 1 # 0 /\ l >= 1
      BY <1>1, <1>2, <2>1
    <3>2. 1 # l /\ 1 \in 1 .. l - 1
      BY ONLY <3>1
    <3>3. r[1] = s[1 + 1]
      BY <1>1, <1>2, <3>1, <3>2
    <3>4. s[1].call \in {"event", "body"}
      BY <1>1, CallKinds
    <3> QED
      BY <1>1, <3>1, <3>2, <3>3, <3>4 DEF FrameFits
  <2> QED
    BY <2>1
<1>4. DueFits(p, r)
  <2>1. 1 \in Nat /\ Len(r) = Len(s) - 1 /\ \A k \in 1 .. Len(s) - 1 : r[k] = s[k + 1]
    BY <1>1, <1>2
  <2> QED
    BY <1>1, <1>3, <2>1, DueBelow
<1> QED
  BY <1>2, <1>3, <1>4

\* An event that comes to a node queues what is due there.
LEMMA VisitDue ==
  ASSUME Proceeds(stack, triggered), PageSound(page), SelectorsAgree, DueFits(page, stack), Visit
  PROVE  DueFits(page, stack)'
<1>1. PICK i, n, d, e : Visits(i, n, d, e)
  BY Visiting
<1>2. /\ stack # <<>> /\ Top = stack[1] /\ EventFits(Top) /\ ~Top.ends /\ Top.call = "event"
      /\ i \in Comes /\ (\A j \in Comes : i <= j) /\ i \in Top.i .. Len(Top.path) /\ n = Top.path[i]
      /\ d.node = n /\ d.i = 1 /\ d.queue = handlers(page, n, Top.type, Top.target)
      /\ d \in CallSet /\ d.call = "dispatch"
      /\ e = [Top EXCEPT !.i = i + 1] /\ e \in CallSet /\ e.call = "event" /\ EventFits(e)
      /\ stack' = <<d>> \o (<<e>> \o Tail(stack)) /\ page' = page /\ StackFits(stack)
  BY <1>1 DEF Visits, Going
<1>3. /\ Top \in EventSet /\ Top.i \in Nat /\ Top.i >= 1 /\ Top.type \in EventTypes
      /\ Top.target \in Holders /\ Top.path \in Seq(Nodes) /\ Len(Top.path) \in Nat
  BY <1>2 DEF EventFits, EventSet
<1>4. Len(stack) \in Nat /\ 1 \in 1 .. Len(stack) /\ Len(Tail(stack)) = Len(stack) - 1
      /\ \A k \in 1 .. Len(stack) - 1 : Tail(stack)[k] = stack[k + 1]
  BY <1>2, Rest
<1>5. Owed(page, Top) /\ \A nh \in Top.due : On(Top, nh)
  BY <1>2, <1>4, DueEvent
<1>6. /\ e.due = Top.due /\ e.path = Top.path /\ e.type = Top.type /\ e.ns = Top.ns
      /\ e.target = Top.target /\ e.ends = Top.ends /\ e.i = i + 1 /\ e.stopped = Top.stopped
      /\ e.heard = Top.heard
  <2>1. i + 1 \in Nat
    BY <1>3, <1>2
  <2> QED
    BY <1>2, <1>3, <2>1 DEF EventSet
<1>7. ~Discarded
  BY <1>2 DEF Comes
<1>8. i \in 1 .. Len(Top.path) /\ n \in Nodes
  <2>1. i \in 1 .. Len(Top.path)
    BY <1>2, <1>3
  <2> QED
    BY <1>2, <1>3, <2>1
<1>9. ASSUME NEW nh \in e.due PROVE On(e, nh) \/ Queued(d, nh)
  <2>1. CASE Top.stopped \/ WasHeard(Top, nh)
    BY <1>6, <2>1 DEF On, WasHeard
  <2>2. CASE Ahead(Top, nh)
    <3>1. PICK j \in 1 .. Len(Top.path) : j >= Top.i /\ Top.path[j] = nh[1]
      BY <2>2 DEF Ahead
    <3>2. j \in Comes
      BY <1>3, <1>5, <1>6, <1>7, <3>1, PassesNone
    <3>3. CASE j = i
      <4>1. n = nh[1]
        BY <1>2, <3>1, <3>3
      <4>2. PICK k \in 1 .. Len(page.events[n][Top.type].list) :
              page.events[n][Top.type].list[k] = nh[2] /\ Meets(page, n, nh[2], Top.target)
        BY <1>3, <1>5, <1>6, <4>1, DueIsBound
      <4>3. /\ handlers(page, n, Top.type, Top.target) \in Seq(AllCalls)
            /\ AllMatched(handlers(page, n, Top.type, Top.target), page, n,
                        page.events[n][Top.type], Top.target)
        BY <1>3, <1>8, QueueBegins
      <4>4. PICK q : q = d.queue /\ q \in Seq(AllCalls) /\ AllMatched(q, page, n, page.events[n][Top.type], Top.target)
        BY <1>2, <4>3
      <4>5. PICK l \in 1 .. Len(q) : q[l].h = nh[2]
        BY <4>2, <4>4 DEF AllMatched
      <4>6. l \in d.i .. Len(d.queue)
        BY <1>2, <4>4, <4>5
      <4> QED
        BY <1>2, <4>1, <4>4, <4>5, <4>6 DEF Queued
    <3>4. CASE j # i
      <4>1. j >= i + 1
        <5>1. i \in Nat /\ j \in Nat /\ i <= j
          BY <1>2, <1>3, <3>2
        <5> QED
          BY ONLY <5>1, <3>4
      <4>2. Ahead(e, nh)
        BY <1>6, <3>1, <4>1 DEF Ahead
      <4> QED
        BY <4>2 DEF On
    <3> QED
      BY <3>3, <3>4
  <2> QED
    BY <1>5, <1>6, <2>1, <2>2 DEF On
<1>10. Owed(page, e)
  BY <1>5, <1>6 DEF Owed
<1>11. PICK r \in Seq(CallSet) : r = Tail(stack) /\ DueFits(page, r) /\ (Len(r) # 0 => r[1].call # "event")
  BY <1>2, DueTail
<1>12. PICK u \in Seq(CallSet) : u = <<e>> \o r /\ u[1] = e /\ DueUnder(page, u)
  <2>1. DueUnder(page, <<e>> \o r)
    BY <1>2, <1>11, DueAbove, DueAll
  <2>2. <<e>> \o r \in Seq(CallSet) /\ (<<e>> \o r)[1] = e
    BY ONLY <1>2, r \in Seq(CallSet)
  <2> QED
    BY <2>1, <2>2
<1>13. DueFits(page, <<d>> \o u)
  <2>1. u[1].call = "event" => Owed(page, u[1]) /\ \A nh \in u[1].due : On(u[1], nh) \/ Queued(d, nh)
    BY <1>9, <1>10, <1>12
  <2>2. d.call = "event" => Owed(page, d) /\ \A nh \in d.due : On(d, nh)
    BY <1>2
  <2> QED
    BY <1>2, <1>12, <2>1, <2>2, DueAbove
<1> QED
  BY <1>2, <1>11, <1>12, <1>13

\* dispatch() calls what is in its queue, unless the event is stopped.
LEMMA QueuedIsCalled ==
  ASSUME PageSound(page), SelectorsAgree, NEW e, e = stack[2], EventFits(e), Owed(page, e), ~e.stopped,
         NEW nh \in e.due, NEW j \in Top.i .. Len(Top.queue), Top.queue[j].h = nh[2]
  PROVE  j \in Called
<1>1. e \in EventSet /\ ~e.immediate
  BY DEF EventFits, StopFits
<1>2. e.ns \in {None, nh[2].ns}
  BY <1>1, DueIsBound
<1> QED
  BY <1>1, <1>2 DEF Called, Queue

\* What is called was due no longer, what was unbound is due no more.
LEMMA TurnDue ==
  ASSUME Proceeds(stack, triggered), PageSound(page), SelectorsAgree, DueFits(page, stack), Turn
  PROVE  DueFits(page, stack)'
<1>1. CASE Called = {} /\ stack' = Tail(stack) /\ UNCHANGED page
  <2>1. stack # <<>> /\ stack[1].call = "dispatch" /\ Top = stack[1] /\ StackFits(stack)
    BY AtTop DEF Turn, In
  <2>2. /\ Len(stack) \in Nat /\ Len(stack) >= 2 /\ stack[2].call = "event" /\ EventFits(stack[2])
        /\ DispatchFits(stack[1], stack[2])
    BY <2>1, InDispatch
  <2>3. PICK e : e = stack[2] /\ e.call = "event" /\ EventFits(e)
    BY <2>2
  <2>4. Owed(page, e) /\ \A nh \in e.due : On(e, nh) \/ Queued(stack[1], nh)
    <3>1. PICK k \in 1 .. Len(stack) : k = 2 /\ k # 1 /\ k - 1 = 1
      BY <2>2
    <3>2. Owed(page, stack[k]) /\ \A nh \in stack[k].due : On(stack[k], nh) \/ (k # 1 /\ Queued(stack[k - 1], nh))
      BY <2>2, <3>1, DueEvent
    <3> QED
      BY <2>3, <3>1, <3>2
  <2>5. \A nh \in e.due : On(e, nh)
    <3> SUFFICES ASSUME NEW nh \in e.due, ~On(e, nh) PROVE FALSE
      OBVIOUS
    <3>1. ~e.stopped
      BY DEF On
    <3>2. PICK j \in Top.i .. Len(Top.queue) : Top.queue[j].h = nh[2]
      BY <2>1, <2>4 DEF Queued
    <3> QED
      BY <1>1, <2>3, <2>4, <3>1, <3>2, QueuedIsCalled
  <2>6. PICK u : /\ u = Tail(stack) /\ Len(u) = Len(stack) - 1
                 /\ \A k \in 1 .. Len(stack) - 1 : u[k] = stack[k + 1]
    BY <2>1, Rest
  <2>7. u[1] = e
    <3>1. 1 \in 1 .. Len(stack) - 1 /\ 1 + 1 = 2
      BY <2>2
    <3> QED
      BY <2>3, <2>6, <3>1
  <2>8. DueFits(page, u)
    <3>1. 1 \in Nat /\ Len(stack) \in Nat
      BY <2>2
    <3> QED
      BY <2>5, <2>6, <2>7, <3>1, DueBelow
  <2> QED
    BY <1>1, <2>6, <2>8
<1>2. CASE ~(Called = {} /\ stack' = Tail(stack) /\ UNCHANGED page)
  <2>1. PICK i, d, e, g, f, r : Turns(i, d, e, g, f, r)
    BY <1>2, Turning
  <2>2. /\ d = stack[1] /\ e = stack[2] /\ Len(stack) \in Nat /\ Len(stack) >= 2 /\ Top = d
        /\ e.call = "event" /\ EventFits(e) /\ DispatchFits(d, e)
        /\ i \in Called /\ (\A x \in Called : i <= x) /\ MayCall(d, e, i)
        /\ f = [e EXCEPT !.heard = Append(@, Told(d, i))] /\ g = [d EXCEPT !.i = i + 1]
        /\ EventFits(f) /\ DispatchFits(g, f)
        /\ f \in CallSet /\ f.call = "event" /\ g \in CallSet /\ g.call = "dispatch"
        /\ Len(r) # 0 => r[1].call = "body"
    BY <2>1 DEF Turns
  <2>3. /\ r \in Seq(CallSet) /\ Len(r) = Len(stack) - 2 /\ \A k \in 1 .. Len(stack) - 2 : r[k] = stack[k + 2]
    BY <2>1 DEF Turns, Going, StackFits
  <2>4. PICK h, w : /\ h = e.heard /\ w = f.heard /\ Len(h) \in Nat /\ Len(w) = Len(h) + 1
                    /\ w[Len(h) + 1] = Told(d, i) /\ \A x \in 1 .. Len(h) : w[x] = h[x]
    <3>1. PICK h, t : h = e.heard /\ t = Told(d, i)
      OBVIOUS
    <3>2. PICK T : h \in Seq(T) /\ t \in T /\ f.heard = Append(h, t)
      <4>1. PICK U : h \in Seq(U) /\ f.heard = Append(h, t)
        BY <2>2, <3>1 DEF EventFits, EventSet
      <4>2. PICK T : T = U \union {t}
        OBVIOUS
      <4>3. U \subseteq T /\ t \in T
        BY <4>2
      <4>4. h \in Seq(T)
        BY ONLY <4>1, <4>3
      <4> QED
        BY <4>1, <4>3, <4>4
    <3>3. /\ Len(Append(h, t)) = Len(h) + 1
          /\ Append(h, t)[Len(h) + 1] = t /\ \A x \in 1 .. Len(h) : Append(h, t)[x] = h[x]
      BY ONLY <3>2, AppendProperties
    <3>4. Len(h) \in Nat
      BY ONLY <3>2
    <3> QED
      BY <3>1, <3>2, <3>3, <3>4
  <2>5. /\ f.due = e.due /\ f.path = e.path /\ f.type = e.type /\ f.ns = e.ns /\ f.target = e.target
        /\ f.ends = e.ends /\ f.i = e.i /\ f.stopped = e.stopped
    BY <2>2 DEF EventFits, EventSet
  <2>6. /\ g.node = d.node /\ g.queue = d.queue /\ g.i = i + 1 /\ i \in Nat /\ i >= d.i
        /\ d.i \in Nat /\ Len(d.queue) \in Nat /\ i \in d.i .. Len(d.queue)
    <3>1. d \in DispatchSet /\ i \in d.i .. Len(d.queue)
      BY <2>2 DEF DispatchFits, MayCall
    <3>2. d.i \in Nat /\ Len(d.queue) \in Nat
      BY <3>1 DEF DispatchSet
    <3>3. i \in Nat /\ i >= d.i
      BY ONLY <3>1, <3>2
    <3>4. g.node = d.node /\ g.queue = d.queue /\ g.i = i + 1
      BY <2>2, <3>1 DEF DispatchSet
    <3> QED
      BY <3>1, <3>2, <3>3, <3>4
  <2>7. Owed(page, e) /\ \A nh \in e.due : On(e, nh) \/ Queued(d, nh)
    <3>1. PICK k \in 1 .. Len(stack) : k = 2 /\ k # 1 /\ k - 1 = 1
      BY <2>2
    <3>2. Owed(page, stack[k]) /\ \A nh \in stack[k].due : On(stack[k], nh) \/ (k # 1 /\ Queued(stack[k - 1], nh))
      BY <2>2, <3>1, DueEvent
    <3> QED
      BY <2>2, <3>1, <3>2
  <2>8. ASSUME NEW nh \in f.due PROVE On(f, nh) \/ Queued(g, nh)
    <3>1. CASE On(e, nh)
      <4>1. CASE e.stopped \/ Ahead(e, nh)
        BY <2>5, <4>1 DEF On, Ahead
      <4>2. CASE WasHeard(e, nh)
        <5>1. PICK x \in 1 .. Len(h) : h[x][1] = nh[1] /\ h[x][3] = nh[2]
          BY <2>4, <4>2 DEF WasHeard
        <5>2. x \in 1 .. Len(w) /\ w[x] = h[x]
          BY <2>4
        <5>3. WasHeard(f, nh)
          BY <2>4, <5>1, <5>2 DEF WasHeard
        <5> QED
          BY <5>3 DEF On
      <4> QED
        BY <3>1, <4>1, <4>2 DEF On
    <3>2. CASE Queued(d, nh) /\ ~On(e, nh)
      <4>1. PICK j \in d.i .. Len(d.queue) : d.queue[j].h = nh[2] /\ d.node = nh[1]
        BY <3>2 DEF Queued
      <4>2. ~e.stopped
        BY <3>2 DEF On
      <4>3. j \in Called
        BY <2>2, <2>5, <2>7, <4>1, <4>2, QueuedIsCalled
      <4>4. CASE j = i
        <5>1. Len(h) + 1 \in 1 .. Len(w)
          BY <2>4
        <5>2. w[Len(h) + 1][1] = nh[1] /\ w[Len(h) + 1][3] = nh[2]
          BY <2>4, <4>1, <4>4 DEF Told
        <5>3. WasHeard(f, nh)
          BY <2>4, <5>1, <5>2 DEF WasHeard
        <5> QED
          BY <5>3 DEF On
      <4>5. CASE j # i
        <5>1. i <= j
          BY <2>2, <4>3
        <5>2. j \in i + 1 .. Len(d.queue)
          BY <2>6, <4>5, <5>1
        <5> QED
          BY <2>6, <4>1, <5>2 DEF Queued
      <4> QED
        BY <4>4, <4>5
    <3> QED
      BY <2>5, <2>7, <3>1, <3>2
  <2>9. Owed(page, f)
    BY <2>5, <2>7 DEF Owed
  <2>10. DueFits(page, r)
    <3>1. 2 \in Nat /\ (Len(r) # 0 => r[1].call # "event")
      BY <2>2
    <3> QED
      BY <2>2, <2>3, <3>1, DueBelow
  <2>11. PICK u \in Seq(CallSet) : u = <<f>> \o r /\ u[1] = f /\ DueUnder(page, u)
    <3>1. Len(r) # 0 => r[1].call # "event"
      BY <2>2
    <3>2. DueUnder(page, <<f>> \o r)
      BY <2>2, <2>3, <2>10, <3>1, DueAbove, DueAll
    <3>3. <<f>> \o r \in Seq(CallSet) /\ (<<f>> \o r)[1] = f
      BY ONLY <2>2, <2>3
    <3> QED
      BY <3>2, <3>3
  <2>12. PICK v \in Seq(CallSet) : v = <<g>> \o u /\ v[1] = g /\ DueUnder(page, v)
    <3>1. u[1].call = "event" => Owed(page, u[1]) /\ \A nh \in u[1].due : On(u[1], nh) \/ Queued(g, nh)
      BY <2>8, <2>9, <2>11
    <3>2. DueUnder(page, <<g>> \o u)
      BY <2>2, <2>11, <3>1, DueAbove
    <3>3. <<g>> \o u \in Seq(CallSet) /\ (<<g>> \o u)[1] = g
      BY ONLY <2>2, u \in Seq(CallSet)
    <3> QED
      BY <3>2, <3>3
  <2>13. PICK c : c = [call |-> "body"] /\ c \in CallSet /\ c.call # "event"
    <3>1. PICK c : c = [call |-> "body"]
      OBVIOUS
    <3>2. c \in BodySet /\ c.call = "body"
      BY <3>1 DEF BodySet
    <3> QED
      BY <3>1, <3>2 DEF CallSet
  <2>14. PICK z : z = <<c>> \o v /\ DueFits(page, z)
    <3>1. v[1].call # "event"
      BY <2>2, <2>12
    <3>2. DueFits(page, <<c>> \o v)
      BY <2>12, <2>13, <3>1, DueAbove
    <3> QED
      BY <3>2
  <2>15. z = <<[call |-> "body"]>> \o (<<g>> \o (<<f>> \o r))
    BY <2>11, <2>12, <2>13, <2>14
  <2>16. StackFits(z)
    <3>1. Going(<<[call |-> "body"]>> \o (<<g>> \o (<<f>> \o r)))
      BY <2>1, TurnStack
    <3> QED
      BY <2>15, <3>1 DEF Going
  <2>17. PICK q : q = page' /\ stack' = Pruned(q, z)
    BY <2>1, <2>15 DEF Turns
  <2>18. DueFits(q, Pruned(q, z))
    BY <2>14, <2>16, DueLess
  <2> QED
    BY <2>17, <2>18
<1> QED
  BY <1>1, <1>2

\* An exception forgives what is due at the node it leaves.
LEMMA ThrowDue ==
  ASSUME Proceeds(stack, triggered), DueFits(page, stack), Throw
  PROVE  DueFits(page, stack)'
<1>1. CASE stack' = <<>>
  <2>1. \A k \in 1 .. 0 : FALSE
    OBVIOUS
  <2>2. DueFits(page', <<>>)
    BY <2>1, Len(<<>>) = 0 DEF DueFits
  <2> QED
    BY <1>1, <2>2
<1>2. CASE stack' # <<>>
  <2>1. PICK k, e, f, r : Throws(k, e, f, r)
    BY <1>2, Throwing
  <2>2. PICK E : E = {x \in e.due : x[1] # stack[k - 1].node}
    OBVIOUS
  <2>3. /\ Len(stack) \in Nat /\ k \in 1 .. Len(stack) /\ k # 1 /\ e = stack[k] /\ e.call = "event"
        /\ EventFits(e) /\ f = Less(e, E) /\ f \in CallSet /\ f.call = "event" /\ E \subseteq e.due
        /\ (Len(r) # 0 => r[1].call = "body")
        /\ Len(r) = Len(stack) - k /\ (\A j \in 1 .. Len(stack) - k : r[j] = stack[j + k])
        /\ stack' = <<f>> \o r /\ page' = page
    BY <2>1, <2>2 DEF Throws
  <2>4. r \in Seq(CallSet)
    BY <2>1 DEF Throws, Going, StackFits
  <2>5. Owed(page, e) /\ \A nh \in e.due : On(e, nh) \/ Queued(stack[k - 1], nh)
    BY <2>3, DueEvent
  <2>6. Alike(e, Less(e, E)) /\ Less(e, E).due = E
    BY <2>3, LessFits
  <2>7. /\ f.due = E /\ f.stopped = e.stopped /\ f.heard = e.heard /\ f.path = e.path /\ f.i = e.i
        /\ f.ends = e.ends
    BY <2>3, <2>6 DEF Alike
  <2>8. f.type = e.type /\ f.ns = e.ns /\ f.target = e.target
    BY <2>3 DEF EventFits, EventSet, Less
  <2>9. Owed(page, f)
    BY <2>3, <2>5, <2>7, <2>8 DEF Owed
  <2>10. \A nh \in f.due : On(f, nh)
    <3>1. \A nh \in E : On(e, nh)
      BY <2>2, <2>5 DEF Queued
    <3> QED
      BY <2>7, <3>1 DEF On, WasHeard, Ahead
  <2>11. DueFits(page, r)
    <3>1. k \in Nat /\ (Len(r) # 0 => r[1].call # "event")
      BY <2>3
    <3> QED
      BY <2>3, <3>1, DueBelow
  <2>12. DueFits(page, <<f>> \o r)
    <3>1. Len(r) # 0 => r[1].call # "event"
      BY <2>3
    <3> QED
      BY <2>3, <2>4, <2>9, <2>10, <2>11, <3>1, DueAbove, DueAll
  <2> QED
    BY <2>3, <2>12
<1> QED
  BY <1>1, <1>2

\* To an event that is stopped nothing is due.
LEMMA StopDue ==
  ASSUME Proceeds(stack, triggered), DueFits(page, stack),
         stopPropagation \/ stopImmediatePropagation \/ ReturnFalse
  PROVE  DueFits(page, stack)'
<1>1. PICK s, k, f : Stops(s, k, f)
  BY Stopping, Refusing
<1>2. /\ StackFits(s) /\ k \in 1 .. Len(s) /\ s[k].call = "event" /\ f \in EventSet /\ f.stopped
      /\ s = stack \/ (s = Tail(stack) /\ stack # <<>> /\ stack[1].call = "body")
      /\ stack' = [s EXCEPT ![k] = f] /\ page' = page
  BY <1>1 DEF Stops, Going
<1>3. Owed(page, s[k]) => Owed(page, f)
  BY <1>1 DEF Stops, Owed
<1>4. DueFits(page, s)
  <2>1. StackFits(stack)
    BY DEF Proceeds
  <2> QED
    BY <1>2, <2>1, DueTail
<1>5. f.call = "event"
  BY <1>2 DEF EventSet
<1>6. DueFits(page, [s EXCEPT ![k] = f])
  BY <1>2, <1>3, <1>4, <1>5, DueStopped
<1> QED
  BY <1>2, <1>6

\* A handler that returns owes nothing itself.
LEMMA ReturnDue ==
  ASSUME Proceeds(stack, triggered), DueFits(page, stack), Return
  PROVE  DueFits(page, stack)'
<1>1. stack # <<>> /\ stack[1].call = "body" /\ StackFits(stack) /\ stack' = Tail(stack) /\ page' = page
  BY AtTop DEF Return, In
<1>2. DueFits(page, Tail(stack))
  BY <1>1, DueTail
<1> QED
  BY <1>1, <1>2

\* Of what is due only what is still bound remains.
LEMMA ChangeDue ==
  ASSUME Proceeds(stack, triggered), DueFits(page, stack), NEW q, Change(q)
  PROVE  DueFits(page, stack)'
<1>1. page' = q /\ stack' = Pruned(q, stack) /\ StackFits(stack)
  BY DEF Change, Proceeds
<1>2. DueFits(q, Pruned(q, stack))
  BY <1>1, DueLess
<1> QED
  BY <1>1, <1>2

\* An event as it begins comes yet to all the nodes of its path.
LEMMA BeginsAhead ==
  ASSUME NEW native, NEW type \in EventTypes, NEW ns, NEW target, NEW path \in Seq(Nodes), NEW b,
         NEW e, \/ e = Event(native, type, ns, target, path)
                \/ e = [Event(native, type, ns, target, path) EXCEPT !.clicked = b]
                \/ e = [Event(native, type, ns, target, path) EXCEPT !.only = b]
  PROVE  Owed(page, e) /\ \A nh \in e.due : On(e, nh)
<1>1. PICK due : due = Reached(page, path, type, ns, target)
  OBVIOUS
<1>2. PICK o : o = [call |-> "event", native |-> native, type |-> type, ns |-> ns, target |-> target,
   path |-> path, i |-> 1, stopped |-> FALSE, immediate |-> FALSE, prevented |-> FALSE,
   only |-> FALSE, clicked |-> FALSE, ends |-> FALSE,
   due |-> due, heard |-> <<>>, over |-> 0, last |-> 0]
  OBVIOUS
<1>3. o = Event(native, type, ns, target, path)
  BY <1>1, <1>2 DEF Event
<1>4. /\ o.due = due /\ o.path = path /\ o.type = type /\ o.ns = ns /\ o.target = target /\ ~o.ends
      /\ o.i = 1
  BY ONLY <1>2
<1>5. e = o \/ e = [o EXCEPT !.clicked = b] \/ e = [o EXCEPT !.only = b]
  BY <1>3
<1>6. \A c \in {"due", "path", "type", "ns", "target", "ends", "i"} : c \in DOMAIN o
  BY ONLY <1>2
<1>7. /\ e.due = due /\ e.path = path /\ e.type = type /\ e.ns = ns /\ e.target = target /\ ~e.ends
      /\ e.i = 1
  BY ONLY <1>4, <1>5, <1>6
<1>8. Owed(page, e)
  BY <1>1, <1>7 DEF Owed
<1>9. ASSUME NEW nh \in e.due PROVE On(e, nh)
  <2>1. nh[1] \in ToSet(path)
    BY <1>1, <1>7, <1>9 DEF Reached
  <2>2. PICK j \in 1 .. Len(path) : path[j] = nh[1]
    BY <2>1 DEF ToSet
  <2>3. j >= 1
    OBVIOUS
  <2> QED
    BY <1>7, <2>2, <2>3 DEF On, Ahead
<1> QED
  BY <1>8, <1>9

\* An event begins with what is due ahead of it,
LEMMA FireDue ==
  ASSUME Proceeds(stack, triggered), DueFits(page, stack),
         NEW e, EventFits(e), Owed(page, e), \A nh \in e.due : On(e, nh), Fire(e)
  PROVE  DueFits(page, stack)'
<1>1. stack # <<>> => stack[1].call = "body"
  BY OnUserTurn DEF Fire
<1>2. stack' = <<e>> \o stack /\ page' = page
  BY DEF Fire
<1>3. e \in CallSet /\ stack \in Seq(CallSet)
  BY DEF EventFits, CallSet, Proceeds, StackFits
<1>4. Len(stack) # 0 => stack[1].call # "event"
  <2>1. Len(stack) # 0 => stack # <<>>
    OBVIOUS
  <2> QED
    BY <1>1, <2>1
<1>5. DueFits(page, <<e>> \o stack)
  BY <1>3, <1>4, DueAbove, DueAll
<1> QED
  BY <1>2, <1>5

\* by a click or by trigger(),
LEMMA StartDue ==
  ASSUME Proceeds(stack, triggered), Forest(page.parent), DueFits(page, stack),
         UserClicks \/ click \/ trigger
  PROVE  DueFits(page, stack)'
<1>1. "click" \in EventTypes /\ None \in Namespaces /\ TRUE \in BOOLEAN /\ Clickable \subseteq Holders
  BY EventsAssumption DEF Namespaces, Holders
<1>2. CASE UserClicks
  <2>1. PICK x \in Clickable : Fire(Event(TRUE, "click", None, x, Path(page, x)))
    BY <1>2 DEF UserClicks
  <2>2. x \in Holders
    BY <1>1
  <2>3. PICK path \in Seq(Nodes) : path = Path(page, x) /\ IsInjective(path)
    BY <2>2, PathFits
  <2>4. PICK e : /\ e = Event(TRUE, "click", None, x, path)
                 /\ EventFits(e) /\ ~e.ends
    BY <1>1, <2>2, <2>3, Beginnings
  <2>5. Owed(page, e) /\ \A nh \in e.due : On(e, nh)
    BY <1>1, <2>4, BeginsAhead
  <2> QED
    BY <2>1, <2>3, <2>4, <2>5, FireDue
<1>3. CASE click
  <2>1. PICK x \in Clickable : Fire([Event(TRUE, "click", None, x, Path(page, x)) EXCEPT !.clicked = TRUE])
    BY <1>3 DEF click
  <2>2. x \in Holders
    BY <1>1
  <2>3. PICK path \in Seq(Nodes) : path = Path(page, x) /\ IsInjective(path)
    BY <2>2, PathFits
  <2>4. PICK e : /\ e = [Event(TRUE, "click", None, x, path) EXCEPT !.clicked = TRUE]
                 /\ EventFits(e) /\ ~e.ends
    BY <1>1, <2>2, <2>3, Beginnings
  <2>5. Owed(page, e) /\ \A nh \in e.due : On(e, nh)
    BY <1>1, <2>4, BeginsAhead
  <2> QED
    BY <2>1, <2>3, <2>4, <2>5, FireDue
<1>4. CASE trigger
  <2>1. PICK t \in Triggers :
          Fire([Event(FALSE, t.type, t.ns, t.elem, IF t.only THEN <<t.elem>> ELSE Path(page, t.elem))
                  EXCEPT !.only = t.only])
    BY <1>4 DEF trigger
  <2>2. t.type \in EventTypes /\ t.ns \in Namespaces /\ t.elem \in Holders /\ t.only \in BOOLEAN
    BY EventsAssumption DEF Namespaces, Holders
  <2>3. PICK path \in Seq(Nodes) : /\ path = IF t.only THEN <<t.elem>> ELSE Path(page, t.elem)
                                   /\ IsInjective(path)
    <3>1. Path(page, t.elem) \in Seq(Nodes) /\ IsInjective(Path(page, t.elem))
      BY <2>2, PathFits
    <3>2. <<t.elem>> \in Seq(Nodes) /\ IsInjective(<<t.elem>>)
      BY <2>2 DEF Holders, Nodes, IsInjective
    <3> QED
      BY <3>1, <3>2
  <2>4. PICK e : /\ e = [Event(FALSE, t.type, t.ns, t.elem, path) EXCEPT !.only = t.only]
                 /\ EventFits(e) /\ ~e.ends
    BY <2>2, <2>3, Beginnings
  <2>5. Owed(page, e) /\ \A nh \in e.due : On(e, nh)
    BY <2>2, <2>4, BeginsAhead
  <2> QED
    BY <2>1, <2>3, <2>4, <2>5, FireDue
<1> QED
  BY <1>2, <1>3, <1>4

\* and ends without debts, its second one with none.
LEMMA FinishDue ==
  ASSUME Proceeds(stack, triggered), Forest(page.parent), DueFits(page, stack), Finish
  PROVE  DueFits(page, stack)'
<1>1. /\ stack # <<>> /\ Top = stack[1] /\ FrameFits(stack, 1) /\ StackFits(stack)
      /\ stack[1].call = "event" /\ page' = page
  BY AtTop DEF Finish, In
<1>2. EventFits(Top)
  BY <1>1 DEF FrameFits
<1>3. PICK r \in Seq(CallSet) : r = Tail(stack) /\ DueFits(page, r) /\ (Len(r) # 0 => r[1].call # "event")
  BY <1>1, DueTail
<1>4. CASE stack' = Tail(stack)
  BY <1>1, <1>3, <1>4
<1>5. CASE ~Top.native /\ Default /\ stack' # Tail(stack)
  <2>1. ~Top.ends
    BY <1>2, <1>5 DEF EventFits
  <2>2. Top.type \in EventTypes /\ Top.target \in Holders
    BY <1>2 DEF EventFits, EventSet
  <2>3. PICK path \in Seq(Nodes) : path = Path(page, Top.target) /\ IsInjective(path)
    BY <2>2, PathFits
  <2>4. PICK o : o = Top /\ EventFits(o) /\ ~o.ends
    BY <1>2, <2>1
  <2>5. PICK e : /\ e = [Event(TRUE, Top.type, None, Top.target, path) EXCEPT
                           !.clicked = TRUE, !.ends = TRUE, !.due = {}, !.heard = o.heard]
                 /\ EventFits(e)
    BY <2>2, <2>3, <2>4, EndBegins
  <2>6. e.due = {}
    <3>1. PICK due, t, g, h : due = Reached(page, path, Top.type, None, Top.target)
                              /\ t = Top.type /\ g = Top.target /\ h = o.heard
      OBVIOUS
    <3>2. PICK w : w = [call |-> "event", native |-> TRUE, type |-> t, ns |-> None, target |-> g,
             path |-> path, i |-> 1, stopped |-> FALSE, immediate |-> FALSE, prevented |-> FALSE,
             only |-> FALSE, clicked |-> FALSE, ends |-> FALSE,
             due |-> due, heard |-> <<>>, over |-> 0, last |-> 0]
      OBVIOUS
    <3>3. e = [w EXCEPT !.clicked = TRUE, !.ends = TRUE, !.due = {}, !.heard = h]
      BY <2>5, <3>1, <3>2 DEF Event
    <3>4. "due" \in DOMAIN w
      BY ONLY <3>2
    <3> QED
      BY ONLY <3>3, <3>4
  <2>7. stack' = <<e>> \o r
    BY <1>3, <1>5, <2>3, <2>4, <2>5 DEF Finish
  <2>8. Owed(page, e) /\ \A nh \in e.due : On(e, nh)
    BY <2>6 DEF Owed
  <2>9. e \in CallSet
    BY <2>5 DEF EventFits, CallSet
  <2>10. DueFits(page, <<e>> \o r)
    BY <1>3, <2>8, <2>9, DueAbove, DueAll
  <2> QED
    BY <1>1, <2>7, <2>10
<1> QED
  BY <1>4, <1>5 DEF Finish

\* Every step keeps what is due within what is ahead, queued or heard.
LEMMA StepDue ==
  ASSUME PageSound(page), Proceeds(stack, triggered), DueFits(page, stack), SelectorsAgree,
         [PageNext]_eventVars
  PROVE  DueFits(page, stack)'
<1>1. Forest(page.parent)
  BY DEF PageSound
<1>2. CASE on \/ off \/ Manipulate \/ Restyle
  <2>1. \E p : Change(p)
    BY <1>2 DEF on, off, Manipulate, Restyle
  <2> QED
    BY <2>1, ChangeDue
<1>3. CASE UserClicks \/ click \/ trigger
  BY <1>1, <1>3, StartDue
<1>4. CASE Visit
  BY <1>4, VisitDue
<1>5. CASE Turn
  BY <1>5, TurnDue
<1>6. CASE Finish
  BY <1>1, <1>6, FinishDue
<1>7. CASE stopPropagation \/ stopImmediatePropagation \/ ReturnFalse
  BY <1>7, StopDue
<1>8. CASE Return
  BY <1>8, ReturnDue
<1>9. CASE Throw
  BY <1>9, ThrowDue
<1>10. CASE UNCHANGED eventVars
  BY <1>10 DEF eventVars, DueFits, DueAt, Owed, On, WasHeard, Ahead, Queued, Reached
<1> QED
  BY <1>2, <1>3, <1>4, <1>5, <1>6, <1>7, <1>8, <1>9, <1>10 DEF PageNext

\* At the end nothing is ahead nor queued: what is due was heard.
LEMMA DueIsHeard ==
  ASSUME PageSound(page), Proceeds(stack, triggered), DueFits(page, stack), SelectorsAgree
  PROVE  NobodyMissed
<1> SUFFICES ASSUME In("event"), Passed, ~Top.stopped, NEW nh \in Top.due
             PROVE  \E k \in DOMAIN Top.heard : Top.heard[k][1] = nh[1] /\ Top.heard[k][3] = nh[2]
  BY DEF NobodyMissed
<1>1. /\ stack # <<>> /\ Top = stack[1] /\ FrameFits(stack, 1) /\ stack[1].call = "event"
      /\ 1 \in 1 .. Len(stack)
  BY AtTop DEF In
<1>2. EventFits(Top) /\ Comes = {}
  BY <1>1 DEF FrameFits, Passed
<1>3. Top \in EventSet /\ Top.i \in Nat /\ Top.i >= 1
  BY <1>2 DEF EventFits, EventSet
<1>4. Owed(page, Top) /\ On(Top, nh)
  BY <1>1, DueEvent
<1>5. ~Discarded
  <2> SUFFICES ASSUME Discarded PROVE FALSE
    OBVIOUS
  <2>1. triggered # None
    BY <1>3, EventsAssumption DEF Discarded, EventSet
  <2>2. Top.ends
    BY <1>1, <2>1 DEF Proceeds
  <2> QED
    BY <1>4, <2>2 DEF Owed
<1>6. WasHeard(Top, nh)
  <2> SUFFICES ASSUME Ahead(Top, nh) PROVE FALSE
    BY <1>4 DEF On
  <2>1. PICK j \in 1 .. Len(Top.path) : j >= Top.i /\ Top.path[j] = nh[1]
    BY DEF Ahead
  <2>2. j \in Comes
    BY <1>3, <1>4, <1>5, <2>1, PassesNone
  <2> QED
    BY <1>2, <2>2
<1>7. DOMAIN Top.heard = 1 .. Len(Top.heard)
  BY <1>3 DEF EventSet
<1> QED
  BY <1>6, <1>7 DEF WasHeard

\* Whatever handlers do to the page, bind and unbind, an event that nobody stops
\* comes to every handler that is bound, and whose selector matches, from its
\* beginning to its end (NobodyMissed), through jQuery.event.trigger(), dispatch()
\* and handlers(): as long as the engine finds what the selectors mean, which is
\* SelectorsAgree, that SelectionFits says of every page that is reached.
THEOREM NobodyIsMissed == PageSpec /\ []SelectorsAgree => []NobodyMissed
<1> DEFINE Inv == PageSound(page) /\ Proceeds(stack, triggered) /\ DueFits(page, stack)
<1>1. PageInit => Inv
  <2> SUFFICES ASSUME PageInit PROVE DueFits(page, stack)
    BY FirstPageFits, InitGoes
  <2>1. \A k \in 1 .. 0 : FALSE
    OBVIOUS
  <2>2. DueFits(page, <<>>)
    BY <2>1, Len(<<>>) = 0 DEF DueFits
  <2> QED
    BY <2>2 DEF PageInit
<1>2. Inv /\ SelectorsAgree /\ [PageNext]_eventVars => Inv'
  <2> SUFFICES ASSUME Inv, SelectorsAgree, [PageNext]_eventVars PROVE Inv'
    OBVIOUS
  <2>1. PageSound(page')
    BY StepFits
  <2>2. Proceeds(stack, triggered)'
    BY StepGoes
  <2>3. DueFits(page, stack)'
    BY StepDue
  <2> QED
    BY <2>1, <2>2, <2>3 DEF PageSound, Fits
<1>3. Inv /\ SelectorsAgree => NobodyMissed
  BY DueIsHeard
<1> QED
  BY <1>1, <1>2, <1>3, PTL DEF PageSpec
=============================================================================
