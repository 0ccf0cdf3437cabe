----------------------------- MODULE JsonServer -----------------------------
(***************************************************************************)
(* wrkJsonServer.py and jsonGenerator.py: a thread per request works in    *)
(* the directories under data/, one per upload.  A step of a job is what   *)
(* it does between two moments at which other jobs can see or disturb it.  *)
(* A file is the number of its lines (of a base64 directory the number of  *)
(* unpacked bodies, of a result the number of its requests); each line of  *)
(* an uploaded file is known by the PUT that wrote it.                     *)
(***************************************************************************)
EXTENDS Integers, FiniteSets, Functions

CONSTANTS
  MaxRequests, \* bound: requests that are sent
  MaxUploads,  \* bound: directories, named by the number of the upload
  UrlLines,    \* bound: lines of an urls.txt
  Bodies       \* bound: lines of a bodies.txt, or files in it when it is an archive

ASSUME ServerAssumption ==
  /\ MaxRequests \in Nat /\ MaxUploads \in Nat
  /\ UrlLines \in Nat \ {0} /\ Bodies \in Nat \ {0}

VARIABLES
  dirs, \* the directories: there or not, older than an hour or not, its files
  jobs, \* the request of each number, and how far its thread is
  text, \* the request that wrote each line of the uploaded files, 0 for none
  overlaid \* auxiliary: PUTs whose file another PUT opened after them, or was
           \* writing to when they opened it

serverVars == <<dirs, jobs, text, overlaid>>

Ids == 1 .. MaxRequests
Dirs == 1 .. MaxUploads
Files == {"urls", "bodies", "base64", "json"}
Texts == {"urls", "bodies"}
Types == {"get", "char", "bin"}
Lines(f) == IF f = "urls" THEN UrlLines ELSE Bodies
TextLines == Dirs \X Texts \X (1 .. UrlLines + Bodies)
Absent == -1

\* of: the file that is put, or the type of the conversion.  size: the lines of the
\* body.  n: the lines written or read, or the directory that is being removed.
Job(kind, dir, of, size) ==
  [kind |-> kind, dir |-> dir, of |-> of, size |-> size, n |-> 0,
   at |-> IF kind = "put" THEN "open" ELSE "sweep"]
NoJob == [kind |-> "none", dir |-> 0, of |-> "", size |-> 0, n |-> 0, at |-> "ok"]

Replies == {"ok", "fail", "error"} \* resultCode 1, resultCode 0, status 500
Empty == [there |-> TRUE, old |-> FALSE, files |-> [f \in Files |-> Absent]]
Gone == [Empty EXCEPT !.there = FALSE]

ServerInit == /\ dirs = [d \in Dirs |-> Gone]
              /\ jobs = [i \in Ids |-> NoJob]
              /\ text = [l \in TextLines |-> 0] /\ overlaid = {}

At(i, place) == jobs[i].at = place
Goto(i, place) == jobs' = [jobs EXCEPT ![i].at = place]
GotoWith(i, place, n) == jobs' = [jobs EXCEPT ![i].at = place, ![i].n = n]
\* The directory '12' of a page that uploaded nothing is number 0.
There(d) == d \in Dirs /\ dirs[d].there
File(i, f) == dirs[jobs[i].dir].files[f]

\* A new entry renews the ctime of a directory, a new content does not.
Write(d, f, n) == dirs' = [dirs EXCEPT ![d].files[f] = n,
                                       ![d].old = @ /\ dirs[d].files[f] # Absent]

(***************************************************************************)
(* remove_expire_dir(), before every GET: each directory that is older     *)
(* than an hour.  One that another job removes meanwhile raises.           *)
(***************************************************************************)
Removing(j) == jobs[j].at \in {"remove", "rmdir"}
\* Variant: the age is not looked at.
SweepAnyAge(i) ==
  /\ At(i, "sweep")
  /\ \/ Goto(i, jobs[i].kind)
     \/ \E d \in Dirs : There(d) /\ GotoWith(i, "remove", d)
  /\ UNCHANGED dirs
Sweep(i) ==
  /\ At(i, "sweep")
  /\ LET expired == {d \in Dirs : There(d) /\ dirs[d].old} IN
     \/ expired = {} /\ Goto(i, jobs[i].kind)
     \/ \E d \in expired : GotoWith(i, "remove", d)
     \/ \E j \in Ids \ {i} : Removing(j) /\ Goto(i, "error")
  /\ UNCHANGED dirs

\* remove_dir(): its files, then itself, when it is there and nobody has put
\* something into it; files that a second sweep removes at the same time raise.
RemoveFiles(i) ==
  LET d == jobs[i].n IN
  /\ At(i, "remove")
  /\ \/ ~There(d) /\ Goto(i, "error") /\ UNCHANGED dirs
     \/ There(d) /\ dirs' = [dirs EXCEPT ![d].files = [f \in Files |-> Absent]]
        /\ \/ Goto(i, "rmdir")
           \/ \E j \in Ids \ {i} : Removing(j) /\ Goto(i, "error")
RemoveDir(i) ==
  LET d == jobs[i].n IN
  /\ At(i, "rmdir")
  /\ IF There(d) /\ dirs[d].files = Empty.files
     THEN dirs' = [dirs EXCEPT ![d] = Gone]
          /\ GotoWith(i, "sweep", 0)
     ELSE Goto(i, "error") /\ UNCHANGED dirs

(***************************************************************************)
(* upload: GET makes the directory, PUT writes a file in it.               *)
(***************************************************************************)
MakeDir(i) ==
  /\ At(i, "mkdir")
  /\ dirs' = [dirs EXCEPT ![jobs[i].dir] = IF @.there THEN @ ELSE Empty]
  /\ Goto(i, "ok")

\* The other requests that have opened the file for writing.
SameFile(i) == {j \in Ids \ {i} : /\ jobs[j].kind = "put" /\ jobs[j].at \in {"write", "ok"}
                                  /\ jobs[j].dir = jobs[i].dir /\ jobs[j].of = jobs[i].of}

\* Variant: the file is opened without being emptied.
OpenFileAsItIs(i) ==
  LET d == jobs[i].dir  f == jobs[i].of IN
  /\ At(i, "open") /\ jobs[i].kind = "put"
  /\ IF There(d)
     THEN /\ Write(d, f, IF File(i, f) = Absent THEN 0 ELSE File(i, f)) /\ GotoWith(i, "write", 0)
          /\ overlaid' = overlaid \union SameFile(i)
                         \union (IF \E j \in SameFile(i) : At(j, "write") THEN {i} ELSE {})
     ELSE Goto(i, "error") /\ UNCHANGED <<dirs, overlaid>>
  /\ UNCHANGED text
OpenFile(i) ==
  LET d == jobs[i].dir  f == jobs[i].of IN
  /\ At(i, "open") /\ jobs[i].kind = "put"
  /\ IF There(d)
     THEN /\ Write(d, f, 0) /\ GotoWith(i, "write", 0)
          /\ text' = [l \in TextLines |-> IF l[1] = d /\ l[2] = f THEN 0 ELSE text[l]]
          /\ overlaid' = overlaid \union SameFile(i)
                         \union (IF \E j \in SameFile(i) : At(j, "write") THEN {i} ELSE {})
     ELSE Goto(i, "error") /\ UNCHANGED <<dirs, text, overlaid>>

\* A line at the place of this request in the file, whoever else writes to it; what
\* is written to a file that was removed meanwhile, nobody sees.
WriteFile(i) ==
  LET d == jobs[i].dir  f == jobs[i].of  n == jobs[i].n + 1 IN
  /\ At(i, "write")
  /\ IF File(i, f) = Absent THEN UNCHANGED <<dirs, text>>
     ELSE /\ Write(d, f, IF n > File(i, f) THEN n ELSE File(i, f))
          /\ text' = [text EXCEPT ![<<d, f, n>>] = i]
  /\ GotoWith(i, IF n = jobs[i].size THEN "ok" ELSE "write", n)
  /\ UNCHANGED overlaid

(***************************************************************************)
(* convert: None ("fail") and exceptions ("error") at each step.           *)
(***************************************************************************)
Convert(i) ==
  /\ At(i, "convert")
  /\ Goto(i, IF ~There(jobs[i].dir) THEN "fail"
             ELSE IF jobs[i].of = "bin" THEN "unpack" ELSE "readUrls")
  /\ UNCHANGED dirs

\* A base64 directory that exists is taken as it is.
Unpack(i) ==
  /\ At(i, "unpack")
  /\ Goto(i, IF File(i, "base64") = Absent THEN "makedirs" ELSE "readUrls")
  /\ UNCHANGED dirs
MakeBase64(i) ==
  /\ At(i, "makedirs")
  /\ IF There(jobs[i].dir) /\ File(i, "base64") # Absent THEN Goto(i, "error") /\ UNCHANGED dirs
     ELSE /\ Goto(i, "extract")
          /\ dirs' = [dirs EXCEPT ![jobs[i].dir] = [(IF @.there THEN @ ELSE Empty) EXCEPT
                                                       !.files["base64"] = 0, !.old = FALSE]]
\* The file is what one request sent, from its first line to its last.
OfOneRequest(d, f) ==
  \E p \in Ids : /\ jobs[p].kind = "put" /\ dirs[d].files[f] = jobs[p].size
                 /\ \A k \in 1 .. jobs[p].size : text[<<d, f, k>>] = p
\* patoolib unpacks one file after the other; of an archive that is not whole, or
\* is made of two, it may unpack some before it raises.
Extract(i) ==
  LET whole == OfOneRequest(jobs[i].dir, "bodies")
      more == File(i, "base64") < File(i, "bodies")
  IN  /\ At(i, "extract")
      /\ \/ whole /\ ~more /\ Goto(i, "readUrls") /\ UNCHANGED dirs
         \/ ~whole /\ Goto(i, "error") /\ UNCHANGED dirs
         \/ File(i, "base64") = Absent /\ Goto(i, "error") /\ UNCHANGED dirs
         \/ /\ more /\ File(i, "base64") # Absent
            /\ Write(jobs[i].dir, "base64", File(i, "base64") + 1)
            /\ UNCHANGED jobs

\* The lines of urls.txt: all there is for GET, else (char and bin) as many as bodies
\* or one.
ReadUrls(i) ==
  LET type == jobs[i].of  n == File(i, "urls") IN
  /\ At(i, "readUrls")
  /\ CASE type = "get" -> IF n > 0 THEN GotoWith(i, "openJson", n) ELSE Goto(i, "fail")
       [] type = "char" -> IF n = Absent \/ File(i, "bodies") = Absent THEN Goto(i, "fail")
                           ELSE GotoWith(i, "readBodies", n)
       [] OTHER        -> IF File(i, "base64") = Absent THEN Goto(i, "fail")
                          ELSE IF n = Absent THEN Goto(i, "error")
                          ELSE GotoWith(i, "readBodies", n)
  /\ UNCHANGED dirs

\* Variant: bodies without a URL are left out, URLs without a body too.
ReadBodiesLenient(i) ==
  LET bodies == File(i, IF jobs[i].of = "bin" THEN "base64" ELSE "bodies") IN
  /\ At(i, "readBodies")
  /\ IF bodies > 0 /\ jobs[i].n > 0
     THEN GotoWith(i, "openJson", IF jobs[i].n < bodies THEN jobs[i].n ELSE bodies)
     ELSE Goto(i, "fail")
  /\ UNCHANGED dirs
ReadBodies(i) ==
  LET bodies == File(i, IF jobs[i].of = "bin" THEN "base64" ELSE "bodies") IN
  /\ At(i, "readBodies")
  /\ IF bodies = Absent THEN Goto(i, "error")
     ELSE IF jobs[i].n \in {bodies, 1} /\ bodies > 0 THEN GotoWith(i, "openJson", bodies)
     ELSE Goto(i, "fail")
  /\ UNCHANGED dirs

OpenJson(i) ==
  /\ At(i, "openJson")
  /\ IF There(jobs[i].dir) THEN Write(jobs[i].dir, "json", 0) /\ Goto(i, "close")
     ELSE Goto(i, "error") /\ UNCHANGED dirs
CloseJson(i) ==
  /\ At(i, "close") /\ Goto(i, "ok")
  /\ IF File(i, "json") = Absent THEN UNCHANGED dirs
     ELSE Write(jobs[i].dir, "json", jobs[i].n)

Work(i) ==
  \/ OpenFile(i) \/ WriteFile(i)
  \/ /\ \/ Sweep(i) \/ RemoveFiles(i) \/ RemoveDir(i) \/ MakeDir(i)
        \/ Convert(i) \/ Unpack(i) \/ MakeBase64(i) \/ Extract(i)
        \/ ReadUrls(i) \/ ReadBodies(i) \/ OpenJson(i) \/ CloseJson(i)
     /\ UNCHANGED <<text, overlaid>>

\* Nobody has written to the directory for an hour.
Ages(d) == /\ There(d) /\ ~dirs[d].old
           /\ dirs' = [dirs EXCEPT ![d].old = TRUE] /\ UNCHANGED <<jobs, text, overlaid>>
=============================================================================
