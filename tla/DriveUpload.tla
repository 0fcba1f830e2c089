---------------------------- MODULE DriveUpload ----------------------------
(***************************************************************************)
(* Resumable uploads to Drive: the requests of uploads/[id]/route.ts, the  *)
(* uploads table and finishUpload of lib/drive/model.ts, the files of      *)
(* lib/drive/storage.ts, and the browser's upload() that sends pieces,     *)
(* loses connections and carries on.                                       *)
(*                                                                         *)
(* A file's bytes are Size units, 1 to Size.  One request at a time works  *)
(* on an upload; a newer one stops the one before it and waits for it.     *)
(***************************************************************************)
EXTENDS Integers, Sequences, FiniteSets

CONSTANTS
  Uploads,
  Requests,     \* requests that may be under way at once
  Size, Piece,  \* bytes of a file, and in one request
  MaxTries,     \* failures in a row before the browser gives up
  MaxMishaps    \* bound on the Portal's stops, and on what changes around the uploads

ASSUME UploadAssumption ==
  /\ IsFiniteSet(Uploads) /\ IsFiniteSet(Requests)
  /\ Uploads \cap {"first", "other", "none"} = {}
  /\ Size \in Nat \ {0} /\ Piece \in 1..Size
  /\ MaxTries \in Nat /\ MaxMishaps \in Nat

VARIABLES
  row,        \* the uploads table: bytes received, or None
  kind,       \* a member's new file, an edit of the one existing file, or a guest's
  base,       \* the contentVersion each edit began from
  part,       \* what is in uploads/<id>.part, or Missing
  safe,       \* how much of it a power cut leaves
  blob,       \* what is in files/ for each upload, or Missing
  file,       \* the existing file: whose bytes it has, contentVersion, not in the trash
  beside,     \* uploads that became a file of their own
  folderOk,   \* the folder they go to is not in the trash
  linkOpen,   \* the space's link lets people add
  req,        \* requests
  queue,      \* for each upload, who works on it and who waits, oldest first
  unlinking,  \* swept uploads whose bytes are still to be removed
  browser,    \* upload() for each file
  mishaps,
  told,       \* the most a browser has been told has arrived
  overtaken,  \* uploads a stop of the Portal caught between moving the bytes and recording the file
  saw,        \* whose bytes the file had when an edit of it began
  over        \* whose bytes an upload's took the place of

disk == <<part, safe, blob>>
db == <<row, kind, base, file, beside>>
server == <<req, queue>>
notes == <<told, overtaken, saw, over>>
vars == <<db, disk, folderOk, linkOpen, server, unlinking, browser, mishaps, notes>>

None == -1
Missing == <<0>>
NoReq == "none"
First == "first"          \* the bytes the existing file began with
Other == "other"          \* the bytes of an edit that came another way

Whole == [i \in 1..Size |-> i]
Idle == [pc |-> "free", kind |-> "none", up |-> NoReq, from |-> 0, to |-> 0, got |-> 0, cut |-> FALSE, stopped |-> FALSE]
Ended == {"done", "failed", "stopped", "cancelled"}

Bytes == Uploads \cup {First, Other, NoReq}

TypeOK ==
  /\ row \in [Uploads -> {None} \cup 0..Size]
  /\ kind \in [Uploads -> {"new", "edit", "guest"}]
  /\ base \in [Uploads -> Nat]
  /\ part \in [Uploads -> {Missing} \cup Seq(1..Size)]
  /\ safe \in [Uploads -> 0..Size]
  /\ blob \in [Uploads -> {Missing} \cup Seq(1..Size)]
  /\ file \in [blob : Bytes, version : Nat, live : BOOLEAN]
  /\ beside \subseteq Uploads
  /\ folderOk \in BOOLEAN /\ linkOpen \in BOOLEAN
  /\ req \in [Requests -> [pc : {"free", "flying", "waiting", "reading", "keep", "finish", "dropOld", "unlink"},
                           kind : {"none", "PATCH", "HEAD", "DELETE"}, up : Uploads \cup {NoReq},
                           from : 0..Size, to : 0..Size, got : 0..Size, cut : BOOLEAN, stopped : BOOLEAN]]
  /\ queue \in [Uploads -> Seq(Requests)]
  /\ unlinking \subseteq Uploads
  /\ browser \in [Uploads -> [pc : {"new", "send", "ask", "wait"} \cup Ended, offset : 0..Size,
                              tries : 0..MaxTries, req : Requests \cup {NoReq}]]
  /\ mishaps \in 0..MaxMishaps
  /\ told \in [Uploads -> 0..Size]
  /\ overtaken \subseteq Uploads
  /\ saw \in [Uploads -> Bytes] /\ over \in [Uploads -> Bytes]

Init ==
  /\ row = [u \in Uploads |-> None]
  /\ kind = [u \in Uploads |-> "new"]
  /\ base = [u \in Uploads |-> 0]
  /\ part = [u \in Uploads |-> Missing]
  /\ safe = [u \in Uploads |-> 0]
  /\ blob = [u \in Uploads |-> Missing]
  /\ file = [blob |-> First, version |-> 1, live |-> TRUE]
  /\ beside = {}
  /\ folderOk = TRUE /\ linkOpen = TRUE
  /\ req = [r \in Requests |-> Idle]
  /\ queue = [u \in Uploads |-> <<>>]
  /\ unlinking = {}
  /\ browser = [u \in Uploads |-> [pc |-> "new", offset |-> 0, tries |-> 0, req |-> NoReq]]
  /\ mishaps = 0
  /\ told = [u \in Uploads |-> 0]
  /\ overtaken = {}
  /\ saw = [u \in Uploads |-> NoReq] /\ over = [u \in Uploads |-> NoReq]

-----------------------------------------------------------------------------
(***************************************************************************)
(* The browser: upload() of the Drive page's api.ts.                       *)
(***************************************************************************)

\* POST /uploads: startUpload, startReplace or startGuestUpload.
Start(u) ==
  /\ browser[u].pc = "new"
  /\ \E k \in {"new", "edit", "guest"} :
       /\ IF k = "edit" THEN file.live ELSE folderOk /\ (k = "guest" => linkOpen)
       /\ kind' = [kind EXCEPT ![u] = k]
  /\ row' = [row EXCEPT ![u] = 0]
  /\ base' = [base EXCEPT ![u] = file.version]
  /\ saw' = [saw EXCEPT ![u] = file.blob]
  /\ browser' = [browser EXCEPT ![u].pc = "send"]
  /\ UNCHANGED <<file, beside, disk, folderOk, linkOpen, server, unlinking, mishaps, told, overtaken, over>>

Fly(u, r, method) ==
  /\ req[r].pc = "free"
  /\ req' = [req EXCEPT ![r] = [Idle EXCEPT !.pc = "flying", !.kind = method, !.up = u, !.from = browser[u].offset,
               !.to = IF browser[u].offset + Piece < Size THEN browser[u].offset + Piece ELSE Size]]
  /\ UNCHANGED <<db, disk, folderOk, linkOpen, queue, unlinking, mishaps, notes>>

Send(u, r) ==
  /\ browser[u].pc = "send"
  /\ Fly(u, r, "PATCH")
  /\ browser' = [browser EXCEPT ![u].pc = "wait", ![u].req = r]

Ask(u, r) ==
  /\ browser[u].pc = "ask"
  /\ Fly(u, r, "HEAD")
  /\ browser' = [browser EXCEPT ![u].pc = "wait", ![u].req = r]

\* A PATCH that went wrong: a wait, then the question how far it got; a HEAD that did: on as before.
Failed(u, method) ==
  IF method = "HEAD" THEN [browser[u] EXCEPT !.pc = "send", !.req = NoReq]
  ELSE IF browser[u].tries >= MaxTries THEN [browser[u] EXCEPT !.pc = "failed", !.req = NoReq]
  ELSE [browser[u] EXCEPT !.pc = "ask", !.tries = @ + 1, !.req = NoReq]

\* The connection drops. What was sent may still be on its way, or being worked on.
Drop(u) ==
  /\ browser[u].pc = "wait"
  /\ LET r == browser[u].req IN
       /\ browser' = [browser EXCEPT ![u] = Failed(u, req[r].kind)]
       /\ \/ req' = [req EXCEPT ![r].cut = TRUE]
          \/ req[r].pc = "flying" /\ req' = [req EXCEPT ![r] = Idle]
  /\ UNCHANGED <<db, disk, folderOk, linkOpen, queue, unlinking, mishaps, notes>>

\* The person gives up, and a client that says so sends a DELETE.
Cancel(u, r) ==
  /\ browser[u].pc \in {"send", "ask", "wait"}
  /\ browser' = [browser EXCEPT ![u].pc = "stopped", ![u].req = r]
  /\ req[r].pc = "free"
  /\ req' = [[q \in Requests |-> IF q = browser[u].req THEN [req[q] EXCEPT !.cut = TRUE] ELSE req[q]]
               EXCEPT ![r] = [Idle EXCEPT !.pc = "flying", !.kind = "DELETE", !.up = u]]
  /\ UNCHANGED <<db, disk, folderOk, linkOpen, queue, unlinking, mishaps, notes>>

-----------------------------------------------------------------------------
(***************************************************************************)
(* The server: takeOver, then HEAD, PATCH or DELETE.                       *)
(***************************************************************************)

\* What the sender makes of an answer. offset: the Upload-Offset.
Answered(u, method, status, offset, made) ==
  LET b == [browser[u] EXCEPT !.req = NoReq]
  IN CASE method = "DELETE" -> [b EXCEPT !.pc = IF status = "ok" THEN "cancelled" ELSE "failed"]
       [] method = "HEAD" -> [b EXCEPT !.pc = "send", !.offset = IF status = "ok" THEN offset ELSE b.offset]
       [] method \notin {"DELETE", "HEAD"} /\ status = "ok" ->
            [b EXCEPT !.pc = IF made THEN "done" ELSE IF offset >= Size THEN "failed" ELSE "send",
                      !.offset = offset, !.tries = 0]
       [] method \notin {"DELETE", "HEAD"} /\ status = "conflict" -> Failed(u, "PATCH")
       [] method \notin {"DELETE", "HEAD"} /\ status \notin {"ok", "conflict"} -> [b EXCEPT !.pc = "failed"]

\* A request is answered, and its sender hears of it when it still waits.
Answer(r, status, offset, made) ==
  LET u == req[r].up IN
  /\ queue' = [queue EXCEPT ![u] = Tail(@)]
  /\ req' = [req EXCEPT ![r] = Idle]
  /\ IF browser[u].req # r \/ req[r].cut THEN UNCHANGED <<browser, told>>
     ELSE /\ told' = [told EXCEPT ![u] =
               IF status = "ok" /\ req[r].kind # "DELETE" /\ offset > @ THEN offset ELSE @]
          /\ browser' = [browser EXCEPT ![u] = Answered(u, req[r].kind, status, offset, made)]

Working(u, r) == queue[u] # <<>> /\ Head(queue[u]) = r

\* Mutant: it stops no one.
takeOver_Gently(u, r) ==
  /\ req[r].pc = "flying" /\ req[r].up = u
  /\ queue' = [queue EXCEPT ![u] = Append(@, r)]
  /\ req' = [req EXCEPT ![r].pc = "waiting"]
  /\ UNCHANGED <<db, disk, folderOk, linkOpen, unlinking, browser, mishaps, notes>>

\* takeOver: it takes its place and stops the one before it.
takeOver(u, r) ==
  /\ req[r].pc = "flying" /\ req[r].up = u
  /\ queue' = [queue EXCEPT ![u] = Append(@, r)]
  /\ req' = [q \in Requests |->
       IF q = r THEN [req[q] EXCEPT !.pc = "waiting"]
       ELSE IF queue[u] # <<>> /\ q = queue[u][Len(queue[u])] THEN [req[q] EXCEPT !.stopped = TRUE]
       ELSE req[q]]
  /\ UNCHANGED <<db, disk, folderOk, linkOpen, unlinking, browser, mishaps, notes>>

uploadFor(u) == row[u] # None /\ (kind[u] = "guest" => linkOpen)

OnDisk(u) == IF part[u] = Missing THEN 0 ELSE Len(part[u])
Least(a, b) == IF a < b THEN a ELSE b

\* Mutant: bytes past the record are left there.
settle_NoTruncate(u) ==
  LET n == Least(OnDisk(u), row[u]) IN
  /\ part' = [part EXCEPT ![u] = IF @ = Missing THEN <<>> ELSE @]
  /\ row' = [row EXCEPT ![u] = n]
  /\ UNCHANGED <<safe, blob, kind, base, file, beside>>

\* settle: the bytes on disk and the record made to agree; opening the file makes it.
settle(u) ==
  LET n == Least(OnDisk(u), row[u]) IN
  /\ part' = [part EXCEPT ![u] = IF @ = Missing THEN <<>> ELSE SubSeq(@, 1, n)]
  /\ safe' = [safe EXCEPT ![u] = Least(@, n)]
  /\ row' = [row EXCEPT ![u] = n]
  /\ UNCHANGED <<blob, kind, base, file, beside>>

\* Its turn has come, and the upload isn't there (or isn't theirs any more).
Unknown(u, r) ==
  /\ Working(u, r) /\ req[r].pc = "waiting" /\ ~uploadFor(u)
  /\ Answer(r, "missing", 0, FALSE)
  /\ UNCHANGED <<db, disk, folderOk, linkOpen, unlinking, mishaps, overtaken, saw, over>>

HeadAnswer(u, r) ==
  /\ Working(u, r) /\ req[r].pc = "waiting" /\ uploadFor(u) /\ req[r].kind = "HEAD"
  /\ settle(u)
  /\ Answer(r, "ok", row'[u], FALSE)
  /\ UNCHANGED <<folderOk, linkOpen, unlinking, mishaps, overtaken, saw, over>>

\* PATCH: a newer request writes instead, or its bytes don't start where the last ones ended.
OutOfStep(u, r) ==
  /\ Working(u, r) /\ req[r].pc = "waiting" /\ uploadFor(u) /\ req[r].kind = "PATCH"
  /\ settle(u)
  /\ req[r].stopped \/ req[r].from # row'[u]
  /\ Answer(r, "conflict", row'[u], FALSE)
  /\ UNCHANGED <<folderOk, linkOpen, unlinking, mishaps, overtaken, saw, over>>

PatchBegins(u, r) ==
  /\ Working(u, r) /\ req[r].pc = "waiting" /\ uploadFor(u) /\ req[r].kind = "PATCH"
  /\ settle(u)
  /\ ~req[r].stopped /\ req[r].from = row'[u]
  /\ req' = [req EXCEPT ![r].pc = "reading"]
  /\ UNCHANGED <<folderOk, linkOpen, queue, unlinking, browser, mishaps, notes>>

\* flush: bytes that came reach the file. Once the sweep has removed it they go nowhere.
Receive(u, r) ==
  /\ Working(u, r) /\ req[r].pc = "reading"
  /\ ~req[r].stopped /\ ~req[r].cut /\ req[r].from + req[r].got < req[r].to
  /\ req' = [req EXCEPT ![r].got = @ + 1]
  /\ part' = [part EXCEPT ![u] = IF @ = Missing THEN @ ELSE Append(@, req[r].from + req[r].got + 1)]
  /\ UNCHANGED <<safe, blob, db, folderOk, linkOpen, queue, unlinking, browser, mishaps, notes>>

Record(u, n) == row' = [row EXCEPT ![u] = IF @ = None THEN @ ELSE n]

\* Mutant: recorded without being flushed to disk.
checkpoint_NoSync(u, r) ==
  /\ Record(u, req[r].from + req[r].got)
  /\ UNCHANGED <<part, safe, blob, kind, base, file, beside>>

\* checkpoint: what was written is flushed to disk, and then recorded.
checkpoint(u, r) ==
  /\ safe' = [safe EXCEPT ![u] = OnDisk(u)]
  /\ Record(u, req[r].from + req[r].got)
  /\ UNCHANGED <<part, blob, kind, base, file, beside>>

Checkpoint(u, r) ==
  /\ Working(u, r) /\ req[r].pc = "reading" /\ req[r].got > 0
  /\ checkpoint(u, r)
  /\ UNCHANGED <<folderOk, linkOpen, server, unlinking, browser, mishaps, notes>>

\* No more bytes: all of them came, the connection dropped, or a newer request has come.
ReadEnds(u, r) ==
  /\ Working(u, r) /\ req[r].pc = "reading"
  /\ req[r].stopped \/ req[r].cut \/ req[r].from + req[r].got = req[r].to
  /\ IF req[r].got > 0 THEN checkpoint(u, r) ELSE UNCHANGED <<db, disk>>
  /\ IF req[r].from + req[r].got = Size
     THEN /\ req' = [req EXCEPT ![r].pc = "keep"]
          /\ UNCHANGED <<queue, browser, told>>
     ELSE Answer(r, "ok", req[r].from + req[r].got, FALSE)
  /\ UNCHANGED <<folderOk, linkOpen, unlinking, mishaps, overtaken, saw, over>>

\* keepUpload: the bytes are moved to files/, or aren't there any more to move.
keepUpload(u, r) ==
  /\ Working(u, r) /\ req[r].pc = "keep" /\ part[u] # Missing
  /\ blob' = [blob EXCEPT ![u] = part[u]]
  /\ part' = [part EXCEPT ![u] = Missing]
  /\ safe' = [safe EXCEPT ![u] = 0]
  /\ req' = [req EXCEPT ![r].pc = "finish"]
  /\ UNCHANGED <<db, folderOk, linkOpen, queue, unlinking, browser, mishaps, notes>>

KeepFails(u, r) ==
  /\ Working(u, r) /\ req[r].pc = "keep" /\ part[u] = Missing
  /\ Answer(r, "error", 0, FALSE)
  /\ UNCHANGED <<db, disk, folderOk, linkOpen, unlinking, mishaps, overtaken, saw, over>>

endUpload(u) == row' = [row EXCEPT ![u] = None]

\* Mutant: ... or whatever is there.
Replaces_Any(u) == kind[u] = "edit" /\ file.live

\* finishUpload: new bytes replace those they were edited from ...
Replaces(u) == kind[u] = "edit" /\ file.live /\ file.version = base[u]

FinishReplace(u, r) ==
  /\ Working(u, r) /\ req[r].pc = "finish" /\ Replaces(u)
  /\ file' = [file EXCEPT !.blob = u, !.version = @ + 1]
  /\ over' = [over EXCEPT ![u] = file.blob]
  /\ endUpload(u)
  /\ req' = [req EXCEPT ![r].pc = "dropOld"]
  /\ UNCHANGED <<kind, base, beside, disk, folderOk, linkOpen, queue, unlinking, browser, mishaps, told, overtaken, saw>>

\* ... and anything else is a file of its own, beside the edit that came first or where the file was.
Takes(u) == kind[u] = "edit" \/ (folderOk /\ (kind[u] = "guest" => linkOpen))
FinishBeside(u, r) ==
  /\ Working(u, r) /\ req[r].pc = "finish" /\ ~Replaces(u) /\ Takes(u)
  /\ beside' = beside \cup {u}
  /\ endUpload(u)
  /\ Answer(r, "ok", Size, TRUE)
  /\ UNCHANGED <<kind, base, file, disk, folderOk, linkOpen, unlinking, mishaps, overtaken, saw, over>>

\* The folder is gone, or the link closed: the bytes and the upload are thrown away.
FinishRefused(u, r) ==
  /\ Working(u, r) /\ req[r].pc = "finish" /\ ~Replaces(u) /\ ~Takes(u)
  /\ blob' = [blob EXCEPT ![u] = Missing]
  /\ endUpload(u)
  /\ Answer(r, "error", 0, FALSE)
  /\ UNCHANGED <<kind, base, file, beside, part, safe, folderOk, linkOpen, unlinking, mishaps, overtaken, saw, over>>

\* The bytes that were replaced go.
DropOld(u, r) ==
  /\ Working(u, r) /\ req[r].pc = "dropOld"
  /\ blob' = [v \in Uploads |-> IF v = over[u] THEN Missing ELSE blob[v]]
  /\ Answer(r, "ok", Size, TRUE)
  /\ UNCHANGED <<db, part, safe, folderOk, linkOpen, unlinking, mishaps, overtaken, saw, over>>

\* Mutant: it doesn't wait for the one before it.
DeleteRow_AtOnce(u, r) ==
  /\ queue[u] # <<>> /\ queue[u][Len(queue[u])] = r
  /\ req[r].pc = "waiting" /\ uploadFor(u) /\ req[r].kind = "DELETE"
  /\ queue' = [queue EXCEPT ![u] = <<r>> \o SubSeq(@, 1, Len(@) - 1)]
  /\ endUpload(u)
  /\ req' = [req EXCEPT ![r].pc = "unlink"]
  /\ UNCHANGED <<kind, base, file, beside, disk, folderOk, linkOpen, unlinking, browser, mishaps, notes>>

\* DELETE: the row, then the bytes.
DeleteRow(u, r) ==
  /\ Working(u, r) /\ req[r].pc = "waiting" /\ uploadFor(u) /\ req[r].kind = "DELETE"
  /\ endUpload(u)
  /\ req' = [req EXCEPT ![r].pc = "unlink"]
  /\ UNCHANGED <<kind, base, file, beside, disk, folderOk, linkOpen, queue, unlinking, browser, mishaps, notes>>

Unlink(u, r) ==
  /\ Working(u, r) /\ req[r].pc = "unlink"
  /\ part' = [part EXCEPT ![u] = Missing]
  /\ safe' = [safe EXCEPT ![u] = 0]
  /\ Answer(r, "ok", 0, FALSE)
  /\ UNCHANGED <<db, blob, folderOk, linkOpen, unlinking, mishaps, overtaken, saw, over>>

-----------------------------------------------------------------------------
(***************************************************************************)
(* Around them: the sweep, the space's people, and the Portal stopping.    *)
(***************************************************************************)

\* staleUploads: idle for a week (nobody is left to send), or a guest's whose link closed.
Abandoned(u) == browser[u].pc \in Ended /\ \A r \in Requests : req[r].up # u
staleUploads(u) ==
  /\ row[u] # None
  /\ Abandoned(u) \/ (kind[u] = "guest" /\ ~linkOpen)
  /\ endUpload(u)
  /\ unlinking' = unlinking \cup {u}
  /\ UNCHANGED <<kind, base, file, beside, disk, folderOk, linkOpen, server, browser, mishaps, notes>>

removePart(u) ==
  /\ u \in unlinking
  /\ unlinking' = unlinking \ {u}
  /\ part' = [part EXCEPT ![u] = Missing]
  /\ safe' = [safe EXCEPT ![u] = 0]
  /\ UNCHANGED <<db, blob, folderOk, linkOpen, server, browser, mishaps, notes>>

Around == mishaps < MaxMishaps /\ mishaps' = mishaps + 1 /\ UNCHANGED <<row, kind, base, beside, part, safe, server, unlinking, browser, notes>>
CloseLink == Around /\ linkOpen /\ linkOpen' = FALSE /\ UNCHANGED <<file, blob, folderOk>>
TrashFolder == Around /\ folderOk /\ folderOk' = FALSE /\ UNCHANGED <<file, blob, linkOpen>>
TrashFile == Around /\ file.live /\ file' = [file EXCEPT !.live = FALSE] /\ UNCHANGED <<blob, folderOk, linkOpen>>

\* Someone else's edit lands whole.
OtherEdit ==
  /\ Around /\ file.live
  /\ file' = [file EXCEPT !.blob = Other, !.version = @ + 1]
  /\ blob' = [u \in Uploads |-> IF u = file.blob THEN Missing ELSE blob[u]]
  /\ UNCHANGED <<folderOk, linkOpen>>

\* The Portal or the whole machine stops: requests end, and bytes not flushed may be gone.
Restart ==
  /\ mishaps < MaxMishaps
  /\ mishaps' = mishaps + 1
  /\ \E kept \in [Uploads -> 0..Size] :
       /\ \A u \in Uploads : kept[u] \in safe[u]..OnDisk(u)
       /\ part' = [u \in Uploads |-> IF part[u] = Missing THEN Missing ELSE SubSeq(part[u], 1, kept[u])]
       /\ safe' = kept
  /\ overtaken' = overtaken \cup {req[r].up : r \in {q \in Requests : req[q].pc = "finish"}}
  /\ req' = [r \in Requests |-> IF req[r].pc = "flying" THEN req[r] ELSE Idle]
  /\ queue' = [u \in Uploads |-> <<>>]
  /\ unlinking' = {}
  /\ browser' = [u \in Uploads |->
       IF browser[u].req \in Requests /\ req[browser[u].req].pc # "flying" /\ req[browser[u].req].kind # "DELETE"
       THEN Failed(u, req[browser[u].req].kind) ELSE browser[u]]
  /\ UNCHANGED <<db, blob, folderOk, linkOpen, told, saw, over>>

Serve(u, r) ==
  \/ takeOver(u, r) \/ Unknown(u, r) \/ HeadAnswer(u, r) \/ OutOfStep(u, r) \/ PatchBegins(u, r)
  \/ ReadEnds(u, r) \/ keepUpload(u, r) \/ KeepFails(u, r) \/ FinishReplace(u, r)
  \/ FinishBeside(u, r) \/ FinishRefused(u, r) \/ DropOld(u, r) \/ DeleteRow(u, r) \/ Unlink(u, r)

Next ==
  \/ \E u \in Uploads :
       \/ Start(u) \/ Drop(u) \/ staleUploads(u) \/ removePart(u)
       \/ \E r \in Requests :
            Send(u, r) \/ Ask(u, r) \/ Cancel(u, r) \/ Serve(u, r) \/ Receive(u, r) \/ Checkpoint(u, r)
  \/ CloseLink \/ TrashFolder \/ TrashFile \/ OtherEdit \/ Restart

\* The event loop runs what is ready, and a request on its way arrives. Nobody has to send bytes.
Fairness == \A u \in Uploads, r \in Requests : WF_vars(Serve(u, r))

Spec == Init /\ [][Next]_vars /\ Fairness

-----------------------------------------------------------------------------
(***************************************************************************)
(* Properties.                                                             *)
(***************************************************************************)

\* route.ts, "an upload resumes from exactly where it stopped": whatever is dropped, retried, late
\* or cut short, every file that came of an upload holds its bytes, each once and in order.
Shown == beside \cup ({file.blob} \cap Uploads)
FilesWhole == \A u \in Shown : blob[u] = Whole

\* model.ts, startReplace, "kept beside it as a copy rather than overwriting theirs": bytes take the
\* place only of those they were edited from, so no edit is lost under another's.
EditsBeside == \A u \in Uploads : over[u] \in {NoReq, saw[u]}

\* route.ts, "a crash or power cut at any point loses only the last few megabytes, never the
\* upload": what a browser was told has arrived stays arrived, but for an upload whose end was cut
\* short between keeping its bytes and recording the file: it is asked for again from the start.
ToldStaysUnlessOvertaken == \A u \in Uploads \ overtaken : row[u] # None => told[u] <= row[u]

\* route.ts, "Gives up on an upload": once a cancel is answered no file comes of the upload, also
\* from pieces that were on their way or being written when it came.
CancelHolds == \A u \in Uploads : browser[u].pc = "cancelled" => u \notin beside /\ over[u] = NoReq

\* route.ts, takeOver: whoever waits for an upload gets their turn, although whoever has it may be
\* waiting for bytes that never come.
TurnComes == \A r \in Requests : req[r].pc = "waiting" ~> req[r].pc # "waiting"
=============================================================================
