----------------------------- MODULE Generator -----------------------------
(***************************************************************************)
(* The page of the JSON generator (index.html) and its server: the clicks  *)
(* on upload and convert, the requests they send, and their complete       *)
(* callbacks, which an answer or the timeout calls, whichever comes first. *)
(* The server goes on with a request the page has given up.                *)
(***************************************************************************)
EXTENDS JsonServer

CONSTANT MaxConverts \* bound: conversions that are clicked

VARIABLES
  md5,            \* the global variable: the number of the last upload clicked
  menu,           \* the md5 attribute of file-menu
  sent,           \* requests sent
  heard,          \* of each request: "waiting", then how it ended for the page
  uploads,        \* g_uploadFlickerRefCount
  owners,         \* PUTs whose uploadFlicker is an interval of their own
  intervals,      \* the requests whose interval is running
  labels,         \* the buttons that show that they are busy
  link,           \* what the download button names
  patient,        \* auxiliary: conversions clicked when all uploads had succeeded
  crossed,        \* auxiliary: PUTs to the directory of a later click than their own
  aged            \* auxiliary: directories to which nothing was written for an hour

pageVars == <<md5, menu, sent, heard, uploads, owners, intervals, labels, link,
              patient, crossed, aged>>
vars == <<serverVars, pageVars>>

Init == /\ ServerInit /\ md5 = 0 /\ menu = 0 /\ sent = 0
        /\ heard = [i \in Ids |-> "unsent"]
        /\ uploads = 0 /\ owners = {} /\ intervals = {} /\ labels = {}
        /\ link = "none" /\ patient = {} /\ crossed = {} /\ aged = {}

Is(i, kind) == jobs[i].kind = kind
Ended(how) == IF how = "ok" THEN "ok" ELSE "failed"
Waiting(kind) == {i \in Ids : Is(i, kind) /\ heard[i] = "waiting"}
Send(job) == /\ sent < MaxRequests /\ sent' = sent + 1
             /\ jobs' = [jobs EXCEPT ![sent + 1] = job]

(***************************************************************************)
(* The clicks.                                                             *)
(***************************************************************************)
\* Variant: every upload of a page has the same md5.
ClickUploadSameMd5(size) ==
  /\ md5 < MaxUploads
  /\ md5' = 1
  /\ Send(Job("mkdir", 1, "", size))
  /\ heard' = [heard EXCEPT ![sent + 1] = "waiting"]
  /\ UNCHANGED <<dirs, text, overlaid, menu, uploads, owners, intervals, labels, link, patient,
                 crossed, aged>>
\* urlsFile, which has size lines, is chosen now and kept until it is sent.
ClickUpload(size) ==
  /\ md5 < MaxUploads
  /\ md5' = md5 + 1
  /\ Send(Job("mkdir", md5 + 1, "", size))
  /\ heard' = [heard EXCEPT ![sent + 1] = "waiting"]
  /\ UNCHANGED <<dirs, text, overlaid, menu, uploads, owners, intervals, labels, link, patient,
                 crossed, aged>>

\* A user is patient who converts after every upload reported success.
AllUploaded == \A i \in 1 .. sent : Is(i, "convert") \/ heard[i] = "ok"
ClickConvert(type) ==
  /\ Cardinality({i \in Ids : Is(i, "convert")}) < MaxConverts
  /\ Send(Job("convert", menu, type, 0))
  /\ heard' = [heard EXCEPT ![sent + 1] = "waiting"]
  /\ intervals' = intervals \union {sent + 1}
  /\ labels' = labels \union {"convert"}
  /\ patient' = IF AllUploaded THEN patient \union {sent + 1} ELSE patient
  /\ UNCHANGED <<dirs, text, overlaid, md5, menu, uploads, owners, link, crossed, aged>>

(***************************************************************************)
(* The complete callbacks.                                                 *)
(***************************************************************************)
\* uploadFile() for both files, or for urlsFile when no bodiesFile is chosen now
\* (size 0), under the md5 of now: the first starts the flicker when no file is on
\* its way.
uploadFiles(urls, bodies) ==
  /\ sent' = sent + (IF bodies = 0 THEN 1 ELSE 2) /\ sent' <= MaxRequests
  /\ jobs' = [i \in Ids |-> IF i = sent + 1 THEN Job("put", md5, "urls", urls)
                            ELSE IF i = sent + 2 /\ bodies # 0
                            THEN Job("put", md5, "bodies", bodies)
                            ELSE jobs[i]]
  /\ uploads' = uploads + (sent' - sent)
  /\ IF uploads = 0
     THEN /\ owners' = owners \union {sent + 1}
          /\ intervals' = intervals \union {sent + 1}
          /\ labels' = labels \union {"upload"}
     ELSE UNCHANGED <<owners, intervals, labels>>

MkdirComplete(i, how) ==
  /\ Is(i, "mkdir") /\ heard[i] = "waiting"
  /\ IF how = "ok"
     THEN /\ \E bodies \in 0 .. Bodies : uploadFiles(jobs[i].size, bodies)
          /\ menu' = md5
          /\ crossed' = IF jobs[i].dir = md5 THEN crossed ELSE crossed \union (sent + 1 .. sent')
          /\ heard' = [j \in Ids |-> IF j = i THEN "ok"
                                     ELSE IF j \in sent + 1 .. sent' THEN "waiting" ELSE heard[j]]
     ELSE /\ heard' = [heard EXCEPT ![i] = Ended(how)]
          /\ UNCHANGED <<jobs, menu, sent, uploads, owners, intervals, labels, crossed>>
  /\ UNCHANGED <<dirs, text, overlaid, md5, link, patient, aged>>

\* Variant: the callback of a PUT that does not own the interval returns early.
PutCompleteByOwner(i, how) ==
  /\ Is(i, "put") /\ heard[i] = "waiting"
  /\ heard' = [heard EXCEPT ![i] = Ended(how)]
  /\ IF i \in owners
     THEN intervals' = intervals \ {i} /\ labels' = labels \ {"upload"} /\ uploads' = uploads - 1
     ELSE UNCHANGED <<intervals, labels, uploads>>
  /\ UNCHANGED <<serverVars, md5, menu, sent, owners, link, patient, crossed, aged>>
PutComplete(i, how) ==
  /\ Is(i, "put") /\ heard[i] = "waiting"
  /\ heard' = [heard EXCEPT ![i] = Ended(how)]
  /\ uploads' = uploads - 1
  /\ IF i \in owners THEN intervals' = intervals \ {i} /\ labels' = labels \ {"upload"}
     ELSE UNCHANGED <<intervals, labels>>
  /\ UNCHANGED <<serverVars, md5, menu, sent, owners, link, patient, crossed, aged>>

\* Variant: only a success stops the flicker.
ConvertCompleteSuccess(i, how) ==
  /\ Is(i, "convert") /\ heard[i] = "waiting"
  /\ heard' = [heard EXCEPT ![i] = Ended(how)]
  /\ IF how = "ok" THEN intervals' = intervals \ {i} /\ labels' = labels \ {"convert"}
     ELSE UNCHANGED <<intervals, labels>>
  /\ link' = CASE how = "ok" -> "file" [] how = "fail" -> "undefined" [] OTHER -> link
  /\ UNCHANGED <<serverVars, md5, menu, sent, uploads, owners, patient, crossed, aged>>
\* A failed conversion is linked too, as "undefined"; after status 500 the link
\* stays as it was.
ConvertComplete(i, how) ==
  /\ Is(i, "convert") /\ heard[i] = "waiting"
  /\ heard' = [heard EXCEPT ![i] = Ended(how)]
  /\ intervals' = intervals \ {i} /\ labels' = labels \ {"convert"}
  /\ link' = CASE how = "ok" -> "file" [] how = "fail" -> "undefined" [] OTHER -> link
  /\ UNCHANGED <<serverVars, md5, menu, sent, uploads, owners, patient, crossed, aged>>

Complete(i, how) == MkdirComplete(i, how) \/ PutComplete(i, how) \/ ConvertComplete(i, how)
Answer(i) == jobs[i].at \in Replies /\ Complete(i, jobs[i].at)
Timeout(i) == Complete(i, "timeout")

\* An hour is longer than every timeout of the page.
HourPasses(d) == /\ \A i \in Ids : heard[i] = "waiting" => jobs[i].dir # d
                 /\ Ages(d) /\ aged' = aged \union {d}
                 /\ UNCHANGED <<md5, menu, sent, heard, uploads, owners, intervals, labels, link,
                                patient, crossed>>

Serve(i) == Work(i) /\ UNCHANGED pageVars
Next == \/ \E size \in 1 .. UrlLines : ClickUpload(size)
        \/ \E type \in Types : ClickConvert(type)
        \/ \E i \in Ids : Answer(i) \/ Timeout(i) \/ Serve(i)
        \/ \E d \in Dirs : HourPasses(d)

Spec == Init /\ [][Next]_vars
\* The timeouts of the page fire; nothing is assumed of the server.
FairSpec == Spec /\ WF_vars(\E i \in Ids : Timeout(i))

-----------------------------------------------------------------------------
(***************************************************************************)
(* Properties.                                                             *)
(***************************************************************************)
TypeOK ==
  /\ dirs \in [Dirs -> [there : BOOLEAN, old : BOOLEAN,
                        files : [Files -> Absent .. UrlLines + Bodies]]]
  /\ jobs \in [Ids -> [kind : {"none", "mkdir", "put", "convert"}, dir : 0 .. MaxUploads,
                       of : Files \union Types \union {""}, size : Nat, n : Nat,
                       at : {"sweep", "remove", "rmdir", "mkdir", "open", "write", "convert",
                             "unpack", "makedirs", "extract", "readUrls", "readBodies",
                             "openJson", "close"} \union Replies]]
  /\ text \in [TextLines -> 0 .. MaxRequests] /\ overlaid \subseteq Ids
  /\ md5 \in 0 .. MaxUploads /\ menu \in 0 .. MaxUploads /\ sent \in 0 .. MaxRequests
  /\ heard \in [Ids -> {"unsent", "waiting", "ok", "failed"}]
  /\ uploads \in Nat /\ owners \subseteq Ids /\ intervals \subseteq Ids
  /\ labels \subseteq {"upload", "convert"} /\ link \in {"none", "file", "undefined"}
  /\ patient \subseteq Ids /\ crossed \subseteq Ids /\ aged \subseteq Dirs

\* g_uploadFlickerRefCount counts the files that are on their way, also when an
\* upload is clicked while another is under way or one of its files times out.
\* An upload interval belongs to one of them, there is at most one, and with none
\* on its way the button has its text again.
FlickerCount ==
  LET flickers == intervals \intersect owners IN
  /\ uploads = Cardinality(Waiting("put"))
  /\ flickers \subseteq Waiting("put") /\ Cardinality(flickers) <= 1
  /\ "upload" \in labels <=> flickers # {}
  /\ intervals \ owners = Waiting("convert")

\* A file whose upload was reported as successful is on the server, whole and
\* with this request's own lines, for an hour at least, whatever other requests
\* sweep, unless another upload wrote over it or into it.
Untouched(i) ==
  Is(i, "put") /\ At(i, "ok") /\ jobs[i].dir \notin aged /\ i \notin overlaid =>
    /\ File(i, jobs[i].of) = jobs[i].size
    /\ \A k \in 1 .. jobs[i].size : text[<<jobs[i].dir, jobs[i].of, k>>] = i
\* That happens only when the user clicked on upload again before the directory of
\* the first click was there: md5 is global, and both uploads go to the second one.
OverlaidByClicks ==
  \A i \in overlaid : \E j \in crossed : /\ Is(j, "put") /\ jobs[j].dir = jobs[i].dir
                                         /\ jobs[j].of = jobs[i].of
UploadsKept == OverlaidByClicks /\ \A i \in Ids : Untouched(i)

\* A conversion of text that succeeds contains every URL, or every body, of the
\* file that was uploaded, when the user waited for the uploads and no other upload
\* wrote into that file, however requests and sweeps overlap.
InputOf(i) == IF jobs[i].of = "get" THEN "urls" ELSE "bodies"
WholeForThePatient ==
  \A i \in patient, p \in Ids \ overlaid :
    /\ At(i, "ok") /\ jobs[i].of \in {"get", "char"}
    /\ Is(p, "put") /\ jobs[p].dir = jobs[i].dir /\ jobs[p].of = InputOf(i)
    => jobs[i].n = jobs[p].size

\* Every flicker stops, whatever becomes of the requests at the server: when the
\* user has clicked all there is to click, both buttons come to rest.
FlickersStop == <>[](intervals = {} /\ labels = {})
=============================================================================
