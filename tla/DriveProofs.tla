----------------------------- MODULE DriveProofs -----------------------------
(***************************************************************************)
(* Theorems about DriveUpload, for any number of uploads and requests and  *)
(* files of any size: an edit never takes the place of one it has not      *)
(* seen; every file that came of an upload is whole; what was told has     *)
(* arrived; a cancel holds; and everything keeps its type.                 *)
(*                                                                         *)
(* All but the first of these rest on WholeInv: whoever works on an        *)
(* upload is the first in its line, has written what it read after what    *)
(* was there, and nobody works on an upload that is over.                  *)
(*                                                                         *)
(* Then about DriveFeed, for any folders, files, people and log: the tree  *)
(* hangs together, nothing goes before its thirty days, and a device that  *)
(* has heard all there is shows what there is.  They rest on TreeInv and   *)
(* on Steady and Following, below.                                         *)
(***************************************************************************)
EXTENDS DriveUpload, DriveFeed, FiniteSetTheorems, WellFoundedInduction, TLAPS


Shape ==
  /\ DOMAIN browser = Uploads /\ \A u \in Uploads : "pc" \in DOMAIN browser[u]
  /\ kind \in [Uploads -> {"new", "edit", "guest"}] /\ base \in [Uploads -> Nat]
  /\ DOMAIN saw = Uploads /\ DOMAIN over = Uploads
  /\ {"blob", "version", "live"} \subseteq DOMAIN file /\ file.version \in Nat

\* Before an upload has begun it edits nothing.
NotBegun == \A u \in Uploads : browser[u].pc = "new" => kind[u] = "new" /\ over[u] = NoReq

\* The version an edit began from tells whether the file still has the bytes it saw then.
VersionTells ==
  \A u \in Uploads : kind[u] = "edit" =>
    base[u] <= file.version /\ (base[u] = file.version => saw[u] = file.blob)

EditInv == Shape /\ NotBegun /\ VersionTells /\ EditsBeside

\* No upload is begun anew, and what it began from stays.
Onward ==
  /\ DOMAIN browser' = Uploads /\ \A u \in Uploads : "pc" \in DOMAIN browser'[u]
  /\ \A u \in Uploads : browser'[u].pc = "new" => browser[u].pc = "new"
  /\ UNCHANGED <<kind, base, saw>>

LEMMA OnwardKeeps ==
  ASSUME EditInv, Onward, UNCHANGED <<file, over>>
  PROVE  EditInv'
BY DEF EditInv, Shape, NotBegun, VersionTells, EditsBeside, Onward

\* A browser's record is replaced by one that has begun.
LEMMA BrowserReplaced ==
  ASSUME EditInv, UNCHANGED <<kind, base, saw>>, NEW u, NEW b,
         browser' = [browser EXCEPT ![u] = b], u \in Uploads => "pc" \in DOMAIN b /\ b.pc # "new"
  PROVE  Onward
BY DEF EditInv, Shape, Onward

LEMMA FailedBegun ==
  ASSUME EditInv, NEW u \in Uploads, NEW method
  PROVE  "pc" \in DOMAIN Failed(u, method) /\ Failed(u, method).pc # "new"
<1>1. "pc" \in DOMAIN browser[u]
  BY DEF EditInv, Shape
<1>2. CASE method = "HEAD"
  BY <1>1, <1>2 DEF Failed
<1>3. CASE method # "HEAD" /\ browser[u].tries >= MaxTries
  BY <1>1, <1>3 DEF Failed
<1>4. CASE method # "HEAD" /\ ~(browser[u].tries >= MaxTries)
  BY <1>1, <1>4 DEF Failed
<1> QED BY <1>2, <1>3, <1>4

LEMMA AnswerBegun ==
  ASSUME EditInv, NEW u \in Uploads, NEW method, NEW status, NEW offset, NEW filed
  PROVE  /\ "pc" \in DOMAIN Answered(u, method, status, offset, filed)
         /\ Answered(u, method, status, offset, filed).pc # "new"
<1>1. "pc" \in DOMAIN browser[u]
  BY DEF EditInv, Shape
<1>2. CASE method = "DELETE"
  BY <1>1, <1>2 DEF Answered
<1>3. CASE method = "HEAD"
  BY <1>1, <1>3 DEF Answered
<1>4. CASE method \notin {"DELETE", "HEAD"} /\ status = "ok"
  BY <1>1, <1>4 DEF Answered
<1>5. CASE method \notin {"DELETE", "HEAD"} /\ status = "conflict"
  BY <1>5, FailedBegun DEF Answered
<1>6. CASE method \notin {"DELETE", "HEAD"} /\ status \notin {"ok", "conflict"}
  BY <1>1, <1>6 DEF Answered
<1> QED BY <1>2, <1>3, <1>4, <1>5, <1>6

LEMMA AnswerOnward ==
  ASSUME EditInv, NEW r, NEW status, NEW offset, NEW filed, Answer(r, status, offset, filed), UNCHANGED <<kind, base, saw>>
  PROVE  Onward
<1>1. CASE UNCHANGED browser
  BY <1>1 DEF EditInv, Shape, Onward
<1>2. CASE ~UNCHANGED browser
  <2>1. browser' = [browser EXCEPT ![req[r].up] = Answered(req[r].up, req[r].kind, status, offset, filed)]
    BY <1>2 DEF Answer
  <2>2. req[r].up \in Uploads => /\ "pc" \in DOMAIN Answered(req[r].up, req[r].kind, status, offset, filed)
                                /\ Answered(req[r].up, req[r].kind, status, offset, filed).pc # "new"
    BY AnswerBegun
  <2> QED BY <2>1, <2>2, BrowserReplaced
<1> QED BY <1>1, <1>2

LEMMA BrowserSteps ==
  ASSUME EditInv, NEW u \in Uploads, NEW r, Send(u, r) \/ Ask(u, r) \/ Drop(u) \/ Cancel(u, r)
  PROVE  EditInv'
<1>1. UNCHANGED <<kind, base, saw, file, over>>
  BY DEF Send, Ask, Drop, Cancel, Fly, db, notes
<1>0. "pc" \in DOMAIN browser[u]
  BY DEF EditInv, Shape
<1>2. CASE Send(u, r) \/ Ask(u, r) \/ Cancel(u, r)
  <2>1. \E pc \in {"wait", "stopped"} : browser' = [browser EXCEPT ![u] = [browser[u] EXCEPT !.pc = pc, !.req = r]]
    BY <1>2 DEF Send, Ask, Cancel
  <2> QED BY <1>0, <1>1, <2>1, BrowserReplaced, OnwardKeeps
<1>3. CASE Drop(u)
  <2>1. \E method : browser' = [browser EXCEPT ![u] = Failed(u, method)]
    BY <1>3 DEF Drop
  <2> QED BY <1>1, <2>1, FailedBegun, BrowserReplaced, OnwardKeeps
<1> QED BY <1>2, <1>3

LEMMA Answers ==
  ASSUME EditInv, NEW u \in Uploads, NEW r,
         \/ Unknown(u, r) \/ HeadAnswer(u, r) \/ OutOfStep(u, r) \/ KeepFails(u, r) \/ FinishBeside(u, r)
         \/ FinishRefused(u, r) \/ DropOld(u, r) \/ Unlink(u, r)
  PROVE  EditInv'
<1>1. UNCHANGED <<kind, base, saw, file, over>>
  BY DEF Unknown, HeadAnswer, OutOfStep, KeepFails, FinishBeside, FinishRefused, DropOld, Unlink, settle, db
<1>2. \E status, offset, filed : Answer(r, status, offset, filed)
  BY DEF Unknown, HeadAnswer, OutOfStep, KeepFails, FinishBeside, FinishRefused, DropOld, Unlink
<1> QED BY <1>1, <1>2, AnswerOnward, OnwardKeeps

LEMMA BrowserStays ==
  ASSUME EditInv, UNCHANGED <<browser, kind, base, saw>>
  PROVE  Onward
BY DEF EditInv, Shape, Onward

LEMMA Reads ==
  ASSUME EditInv, NEW u \in Uploads, NEW r,
         \/ takeOver(u, r) \/ PatchBegins(u, r) \/ Receive(u, r) \/ Checkpoint(u, r) \/ ReadEnds(u, r)
         \/ keepUpload(u, r) \/ DeleteRow(u, r)
  PROVE  EditInv'
<1>1. UNCHANGED <<kind, base, saw, file, over>>
  BY DEF takeOver, PatchBegins, Receive, Checkpoint, ReadEnds, keepUpload, DeleteRow, settle, checkpoint, db, notes
<1>2. browser' = browser \/ \E status, offset, filed : Answer(r, status, offset, filed)
  BY DEF takeOver, PatchBegins, Receive, Checkpoint, ReadEnds, keepUpload, DeleteRow
<1> QED BY <1>1, <1>2, AnswerOnward, BrowserStays, OnwardKeeps

LEMMA AroundThem ==
  ASSUME EditInv, \/ \E u \in Uploads : staleUploads(u) \/ removePart(u)
                  \/ CloseLink \/ TrashFolder \/ UNCHANGED vars
  PROVE  EditInv'
<1>1. UNCHANGED <<kind, base, saw, file, over, browser>>
  BY DEF staleUploads, removePart, CloseLink, TrashFolder, Around, vars, db, notes
<1> QED BY <1>1, BrowserStays, OnwardKeeps

\* The file's version goes up whenever its bytes change.
LEMMA FileChanges ==
  ASSUME EditInv, TrashFile \/ OtherEdit
  PROVE  EditInv'
<1>1. UNCHANGED <<kind, base, saw, over, browser>>
  BY DEF TrashFile, OtherEdit, Around, notes
<1>2. /\ {"blob", "version", "live"} \subseteq DOMAIN file'
      /\ \/ file'.version = file.version /\ file'.blob = file.blob
         \/ file'.version = file.version + 1
  BY DEF TrashFile, OtherEdit, EditInv, Shape
<1>3. file'.version \in Nat
  BY <1>2 DEF EditInv, Shape
<1>4. VersionTells'
  BY <1>1, <1>2 DEF EditInv, Shape, VersionTells
<1> QED BY <1>1, <1>2, <1>3, <1>4 DEF EditInv, Shape, NotBegun, EditsBeside

LEMMA Replaced ==
  ASSUME EditInv, NEW u \in Uploads, NEW r, FinishReplace(u, r)
  PROVE  EditInv'
<1>1. UNCHANGED <<kind, base, saw, browser>> /\ kind[u] = "edit" /\ file.version = base[u]
  BY DEF FinishReplace, Replaces
<1>2. {"blob", "version", "live"} \subseteq DOMAIN file' /\ file'.version = file.version + 1
  BY DEF FinishReplace, EditInv, Shape
<1>3. DOMAIN over' = Uploads /\ over'[u] = saw[u] /\ \A v \in Uploads \ {u} : over'[v] = over[v]
  BY <1>1 DEF FinishReplace, EditInv, Shape, VersionTells
<1>4. VersionTells'
  BY <1>1, <1>2 DEF EditInv, Shape, VersionTells
<1>5. file'.version \in Nat
  BY <1>2 DEF EditInv, Shape
<1>6. NotBegun' /\ EditsBeside'
  BY <1>1, <1>3 DEF EditInv, NotBegun, EditsBeside
<1> QED BY <1>1, <1>2, <1>3, <1>4, <1>5, <1>6 DEF EditInv, Shape

LEMMA Started ==
  ASSUME EditInv, NEW u \in Uploads, Start(u)
  PROVE  EditInv'
<1>1. UNCHANGED <<file, over>> /\ browser[u].pc = "new" /\ over[u] = NoReq
  BY DEF Start, EditInv, NotBegun
<1>2. /\ kind' \in [Uploads -> {"new", "edit", "guest"}] /\ base' \in [Uploads -> Nat]
      /\ base'[u] = file.version
      /\ \A v \in Uploads \ {u} : kind'[v] = kind[v] /\ base'[v] = base[v]
  BY DEF Start, EditInv, Shape
<1>3. DOMAIN saw' = Uploads /\ saw'[u] = file.blob /\ \A v \in Uploads \ {u} : saw'[v] = saw[v]
  BY DEF Start, EditInv, Shape
<1>4. /\ DOMAIN browser' = Uploads /\ \A v \in Uploads : "pc" \in DOMAIN browser'[v]
      /\ browser'[u].pc = "send" /\ \A v \in Uploads \ {u} : browser'[v] = browser[v]
  BY DEF Start, EditInv, Shape
<1>5. Shape'
  BY <1>1, <1>2, <1>3, <1>4 DEF EditInv, Shape
<1>6. NotBegun'
  BY <1>1, <1>2, <1>4 DEF EditInv, NotBegun
<1>7. VersionTells'
  BY <1>1, <1>2, <1>3 DEF EditInv, Shape, VersionTells
<1>8. EditsBeside'
  BY <1>1, <1>3 DEF EditInv, EditsBeside
<1> QED BY <1>5, <1>6, <1>7, <1>8 DEF EditInv

\* A stop of the Portal drops the bytes not flushed and no edit.
LEMMA Stopped ==
  ASSUME EditInv, Restart
  PROVE  EditInv'
<1>1. UNCHANGED <<kind, base, saw, file, over>>
  BY DEF Restart, db
<1>2. Onward
  BY <1>1 DEF Restart, Failed, EditInv, Shape, Onward
<1> QED BY <1>1, <1>2, OnwardKeeps

LEMMA EditStep ==
  ASSUME EditInv, [Next]_vars
  PROVE  EditInv'
<1>1. CASE \E u \in Uploads : Start(u) \/ Drop(u)
  BY <1>1, Started, BrowserSteps
<1>2. CASE \E u \in Uploads, r \in Requests : Send(u, r) \/ Ask(u, r) \/ Cancel(u, r)
  BY <1>2, BrowserSteps
<1>3. CASE \E u \in Uploads, r \in Requests : Serve(u, r) \/ Receive(u, r) \/ Checkpoint(u, r)
  BY <1>3, Answers, Reads, Replaced DEF Serve
<1>4. CASE (\E u \in Uploads : staleUploads(u) \/ removePart(u)) \/ CloseLink \/ TrashFolder \/ UNCHANGED vars
  BY <1>4, AroundThem
<1>5. CASE TrashFile \/ OtherEdit \/ Restart
  BY <1>5, FileChanges, Stopped
<1> QED BY <1>1, <1>2, <1>3, <1>4, <1>5 DEF Next

\* model.ts, startReplace: new bytes take the place only of those they were edited from, however
\* edits, other people's edits, retries and stops interleave.
THEOREM NoEditLost == Spec => []EditsBeside
<1>1. Init => EditInv
  BY DEF Init, EditInv, Shape, NotBegun, VersionTells, EditsBeside
<1>2. EditInv /\ [Next]_vars => EditInv'
  BY EditStep
<1>3. EditInv => EditsBeside
  BY DEF EditInv
<1> QED BY <1>1, <1>2, <1>3, PTL DEF Spec

-----------------------------------------------------------------------------
(***************************************************************************)
(* Requests and the lines they wait in.                                    *)
(***************************************************************************)
Upto(n) == [i \in 1..n |-> i]
Active == {"reading", "keep", "finish"}
InHand == Active \cup {"dropOld", "unlink"}
Phases == {"free", "flying", "waiting"} \cup InHand

Requested == [pc : Phases, kind : {"none", "PATCH", "HEAD", "DELETE"}, up : Uploads \cup {NoReq},
              from : 0..Size, to : 0..Size, got : 0..Size, cut : BOOLEAN, stopped : BOOLEAN]

ReqOK(q) ==
  /\ q \in Requested
  /\ q.from + q.got <= q.to
  /\ q.pc \in {"flying", "waiting"} => q.got = 0
  /\ q.pc \in Active \cup {"dropOld"} => q.kind = "PATCH"
  /\ q.pc = "unlink" => q.kind = "DELETE"
  /\ q.pc # "free" => q.up \in Uploads
ReqType == req \in [Requests -> Requested] /\ \A r \in Requests : ReqOK(req[r])

\* Who works on an upload is the first in its line; the others wait.
QueueOK ==
  /\ queue \in [Uploads -> Seq(Requests)]
  /\ \A u \in Uploads : \A i \in 1..Len(queue[u]) :
       /\ req[queue[u][i]].up = u /\ req[queue[u][i]].pc \in {"waiting"} \cup InHand
       /\ i > 1 => req[queue[u][i]].pc = "waiting"
       /\ \A k \in 1..Len(queue[u]) : queue[u][i] = queue[u][k] => i = k
  /\ \A r \in Requests : req[r].pc \in InHand => queue[req[r].up] # <<>> /\ queue[req[r].up][1] = r
LineInv == ReqType /\ QueueOK

LEMMA UptoLaws ==
  ASSUME NEW n \in Nat
  PROVE  /\ Upto(n) \in Seq(Nat) /\ Len(Upto(n)) = n /\ Upto(n) # Missing
         /\ Append(Upto(n), n + 1) = Upto(n + 1)
         /\ \A k \in 0..n : SubSeq(Upto(n), 1, k) = Upto(k)
<1>1. Upto(n) \in Seq(Nat) /\ Len(Upto(n)) = n
  BY DEF Upto
<1>2. Upto(n) # Missing
  <2>1. Missing[1] = 0 /\ Len(Missing) = 1
    BY DEF Missing
  <2>2. n = 1 => Upto(n)[1] = 1
    BY DEF Upto
  <2>3. Upto(n) = Missing => n = 1
    BY <1>1, <2>1
  <2> QED BY <2>1, <2>2, <2>3
<1>3. Append(Upto(n), n + 1) = Upto(n + 1)
  BY DEF Upto
<1>4. \A k \in 0..n : SubSeq(Upto(n), 1, k) = Upto(k)
  BY <1>1 DEF Upto
<1> QED BY <1>1, <1>2, <1>3, <1>4

LEMMA RequestMarks ==
  ASSUME NEW q, ReqOK(q), NEW b \in BOOLEAN
  PROVE  /\ ReqOK([q EXCEPT !.stopped = b]) /\ ReqOK([q EXCEPT !.cut = b])
         /\ q.pc = "flying" => ReqOK([q EXCEPT !.pc = "waiting"])
<1>1. q \in Requested
  BY DEF ReqOK
<1>2. ReqOK([q EXCEPT !.stopped = b])
  <2>1. [q EXCEPT !.stopped = b] \in Requested
    BY <1>1 DEF Requested
  <2> QED BY <1>1, <2>1 DEF ReqOK, Requested
<1>3. ReqOK([q EXCEPT !.cut = b])
  <2>1. [q EXCEPT !.cut = b] \in Requested
    BY <1>1 DEF Requested
  <2> QED BY <1>1, <2>1 DEF ReqOK, Requested
<1>4. ASSUME q.pc = "flying" PROVE ReqOK([q EXCEPT !.pc = "waiting"])
  <2>1. [q EXCEPT !.pc = "waiting"] \in Requested
    BY <1>1 DEF Requested, Phases
  <2> QED BY <1>1, <1>4, <2>1 DEF ReqOK, Requested, Active
<1> QED BY <1>2, <1>3, <1>4

\* Whoever is in a line is a request, and in one place of it.
LEMMA LineFacts ==
  ASSUME LineInv, NEW u \in Uploads, NEW i \in 1..Len(queue[u])
  PROVE  /\ queue[u] \in Seq(Requests) /\ queue[u][i] \in Requests
         /\ req[queue[u][i]].up = u /\ req[queue[u][i]].pc \in {"waiting"} \cup InHand
         /\ i > 1 => req[queue[u][i]].pc = "waiting"
         /\ \A k \in 1..Len(queue[u]) : queue[u][i] = queue[u][k] => i = k
BY DEF LineInv, QueueOK

LEMMA WorkerFacts ==
  ASSUME LineInv, NEW u \in Uploads, NEW r \in Requests, Working(u, r)
  PROVE  /\ req[r].up = u /\ Len(queue[u]) > 0 /\ queue[u][1] = r
         /\ \A q \in Requests : req[q].pc \in InHand /\ req[q].up = u => q = r
BY DEF LineInv, QueueOK, Working

\* A request flies, or is cut or stopped.
LEMMA Marked ==
  ASSUME LineInv, UNCHANGED queue, req' \in [Requests -> Requested],
         \A q \in Requests : /\ ReqOK(req'[q])
                             /\ \/ req'[q].pc = req[q].pc /\ req'[q].up = req[q].up
                                \/ req[q].pc \in {"free", "flying"} /\ req'[q].pc \in {"free", "flying"}
  PROVE  LineInv'
<1>1. ReqType'
  BY DEF ReqType
<1>2. QueueOK'
  <2>1. \A q \in Requests : req[q].pc \in {"waiting"} \cup InHand \/ req'[q].pc \in {"waiting"} \cup InHand
                            => req'[q].pc = req[q].pc /\ req'[q].up = req[q].up
    BY DEF InHand, Active
  <2>2. \A u \in Uploads : \A i \in 1..Len(queue[u]) : queue[u][i] \in Requests
    BY DEF LineInv, QueueOK
  <2>3. /\ queue \in [Uploads -> Seq(Requests)]
        /\ \A u \in Uploads : \A i \in 1..Len(queue[u]) :
             /\ req[queue[u][i]].up = u /\ req[queue[u][i]].pc \in {"waiting"} \cup InHand
             /\ i > 1 => req[queue[u][i]].pc = "waiting"
             /\ \A k \in 1..Len(queue[u]) : queue[u][i] = queue[u][k] => i = k
        /\ \A q \in Requests : req[q].pc \in InHand => queue[req[q].up] # <<>> /\ queue[req[q].up][1] = q
    BY DEF LineInv, QueueOK
  <2>4. ASSUME NEW u \in Uploads, NEW i \in 1..Len(queue[u])
        PROVE  /\ req'[queue[u][i]].up = u /\ req'[queue[u][i]].pc \in {"waiting"} \cup InHand
               /\ i > 1 => req'[queue[u][i]].pc = "waiting"
    <3>1. queue[u][i] \in Requests /\ req[queue[u][i]].pc \in {"waiting"} \cup InHand
      BY <2>2, <2>3
    <3>2. req'[queue[u][i]].pc = req[queue[u][i]].pc /\ req'[queue[u][i]].up = req[queue[u][i]].up
      BY <2>1, <3>1
    <3> QED BY <2>3, <3>2
  <2>5. ASSUME NEW q \in Requests, req'[q].pc \in InHand
        PROVE  queue[req'[q].up] # <<>> /\ queue[req'[q].up][1] = q
    <3>1. req'[q].pc = req[q].pc /\ req'[q].up = req[q].up
      BY <2>1, <2>5
    <3> QED BY <2>3, <2>5, <3>1
  <2> QED BY <2>3, <2>4, <2>5 DEF QueueOK
<1> QED BY <1>1, <1>2 DEF LineInv

\* Who works goes on to the next thing to do.
LEMMA GoesOn ==
  ASSUME LineInv, NEW u \in Uploads, NEW r \in Requests, Working(u, r), UNCHANGED queue,
         NEW q, req' = [req EXCEPT ![r] = q], ReqOK(q), q.pc \in InHand, q.up = u
  PROVE  LineInv'
<1>1. ReqType'
  BY DEF LineInv, ReqType, ReqOK
<1>2. req'[r] = q /\ \A p \in Requests \ {r} : req'[p] = req[p]
  BY DEF LineInv, ReqType
<1>3. QueueOK'
  <2>1. req[r].up = u /\ queue[u] # <<>> /\ queue[u][1] = r /\ r \in Requests
    BY WorkerFacts
  <2>2. ASSUME NEW v \in Uploads, NEW i \in 1..Len(queue[v])
        PROVE  /\ req'[queue[v][i]].up = v /\ req'[queue[v][i]].pc \in {"waiting"} \cup InHand
               /\ i > 1 => req'[queue[v][i]].pc = "waiting"
               /\ \A k \in 1..Len(queue[v]) : queue[v][i] = queue[v][k] => i = k
    <3>1. CASE queue[v][i] = r
      <4>1. v = u
        BY <2>1, <3>1, LineFacts
      <4>2. i = 1
        BY <2>1, <3>1, <4>1, LineFacts DEF LineInv, QueueOK
      <4> QED BY <1>2, <3>1, <4>1, <4>2, LineFacts
    <3>2. CASE queue[v][i] # r
      BY <1>2, <3>2, LineFacts
    <3> QED BY <3>1, <3>2
  <2>3. \A p \in Requests : req'[p].pc \in InHand => queue[req'[p].up] # <<>> /\ queue[req'[p].up][1] = p
    BY <1>2, <2>1 DEF LineInv, QueueOK
  <2> QED BY <2>2, <2>3 DEF LineInv, QueueOK
<1> QED BY <1>1, <1>3 DEF LineInv

LEMMA Answering ==
  ASSUME LineInv, NEW u \in Uploads, NEW r \in Requests, Working(u, r),
         NEW status, NEW offset, NEW filed, Answer(r, status, offset, filed)
  PROVE  LineInv' /\ req' = [req EXCEPT ![r] = Idle]
<1>0. req[r].up = u /\ queue' = [queue EXCEPT ![u] = Tail(@)] /\ req' = [req EXCEPT ![r] = Idle]
  BY WorkerFacts DEF Answer
<1>1. req'[r] = Idle /\ \A p \in Requests \ {r} : req'[p] = req[p]
  BY <1>0 DEF LineInv, ReqType
<1>2. ReqOK(Idle)
  BY UploadAssumption DEF ReqOK, Idle, Requested, Phases, InHand, Active
<1>3. ReqType'
  <2>1. Idle \in Requested
    BY <1>2 DEF ReqOK
  <2> QED BY <1>0, <1>1, <1>2, <2>1 DEF LineInv, ReqType
<1>4. /\ queue[u] \in Seq(Requests) /\ queue'[u] \in Seq(Requests) /\ Len(queue'[u]) = Len(queue[u]) - 1
      /\ \A i \in 1..Len(queue'[u]) : queue'[u][i] = queue[u][i + 1]
  BY <1>0, WorkerFacts DEF LineInv, QueueOK
<1>5. queue' \in [Uploads -> Seq(Requests)] /\ \A v \in Uploads \ {u} : queue'[v] = queue[v]
  BY <1>0, <1>4 DEF LineInv, QueueOK
<1>6. \A i \in 1..Len(queue'[u]) : i + 1 \in 1..Len(queue[u]) /\ queue'[u][i] # r /\ queue'[u][i] \in Requests
  <2>1. SUFFICES ASSUME NEW i \in 1..Len(queue'[u])
                 PROVE  i + 1 \in 1..Len(queue[u]) /\ queue'[u][i] # r /\ queue'[u][i] \in Requests
    OBVIOUS
  <2>2. i + 1 \in 1..Len(queue[u]) /\ 1 \in 1..Len(queue[u]) /\ queue'[u][i] = queue[u][i + 1] /\ i \in Nat /\ i > 0
    BY <1>4
  <2>3. queue[u][1] = r /\ (queue[u][i + 1] = queue[u][1] => i + 1 = 1)
    BY <2>2, LineFacts, WorkerFacts
  <2> QED BY <2>2, <2>3, LineFacts
<1>7. \A v \in Uploads \ {u} : \A i \in 1..Len(queue[v]) : queue[v][i] # r /\ queue[v][i] \in Requests
  BY <1>0 DEF LineInv, QueueOK
<1>8. \A p \in Requests : req'[p].pc \in InHand => p # r /\ req[p].up \in Uploads \ {u}
  BY <1>1, WorkerFacts DEF Idle, InHand, Active, LineInv, ReqType, ReqOK, Phases
<1>9. QueueOK'
  <2>1. \A i \in 1..Len(queue'[u]) :
           /\ req'[queue'[u][i]].up = u /\ req'[queue'[u][i]].pc = "waiting"
           /\ \A k \in 1..Len(queue'[u]) : queue'[u][i] = queue'[u][k] => i = k
    <3>1. SUFFICES ASSUME NEW i \in 1..Len(queue'[u])
                   PROVE  /\ req'[queue'[u][i]].up = u /\ req'[queue'[u][i]].pc = "waiting"
                          /\ \A k \in 1..Len(queue'[u]) : queue'[u][i] = queue'[u][k] => i = k
      OBVIOUS
    <3>2. i + 1 \in 1..Len(queue[u]) /\ i \in Nat /\ i > 0 /\ queue'[u][i] = queue[u][i + 1]
      BY <1>4, <1>6
    <3>3. req[queue[u][i + 1]].up = u /\ req[queue[u][i + 1]].pc = "waiting"
      BY <3>2, LineFacts
    <3>4. ASSUME NEW k \in 1..Len(queue'[u]), queue'[u][i] = queue'[u][k] PROVE i = k
      <4>1. k + 1 \in 1..Len(queue[u]) /\ queue'[u][k] = queue[u][k + 1] /\ k \in Nat
        BY <1>4, <1>6
      <4>2. i + 1 = k + 1
        <5>1. queue[u][i + 1] = queue[u][k + 1]
          BY <3>2, <3>4, <4>1
        <5> QED BY <3>2, <4>1, <5>1, LineFacts
      <4> QED BY <3>2, <4>1, <4>2
    <3> QED BY <1>1, <1>6, <3>2, <3>3, <3>4
  <2>2. \A v \in Uploads \ {u} : \A i \in 1..Len(queue'[v]) :
           /\ req'[queue'[v][i]].up = v /\ req'[queue'[v][i]].pc \in {"waiting"} \cup InHand
           /\ i > 1 => req'[queue'[v][i]].pc = "waiting"
           /\ \A k \in 1..Len(queue'[v]) : queue'[v][i] = queue'[v][k] => i = k
    BY <1>1, <1>5, <1>7 DEF LineInv, QueueOK
  <2>3. \A p \in Requests : req'[p].pc \in InHand => queue'[req'[p].up] # <<>> /\ queue'[req'[p].up][1] = p
    BY <1>1, <1>5, <1>8 DEF LineInv, QueueOK
  <2> QED BY <1>5, <2>1, <2>2, <2>3 DEF QueueOK
<1> QED BY <1>0, <1>3, <1>9 DEF LineInv

LEMMA TakesPlace ==
  ASSUME LineInv, NEW u \in Uploads, NEW r \in Requests, takeOver(u, r)
  PROVE  /\ LineInv'
         /\ \A q \in Requests : /\ req'[q].up = req[q].up /\ req'[q].from = req[q].from /\ req'[q].got = req[q].got
                                /\ req'[q].pc = IF q = r THEN "waiting" ELSE req[q].pc
<1>1. /\ req[r].pc = "flying" /\ req[r].up = u /\ queue' = [queue EXCEPT ![u] = Append(@, r)]
      /\ \A q \in Requests : req'[q] = IF q = r THEN [req[q] EXCEPT !.pc = "waiting"]
            ELSE IF queue[u] # <<>> /\ q = queue[u][Len(queue[u])] THEN [req[q] EXCEPT !.stopped = TRUE] ELSE req[q]
  BY DEF takeOver
<1>2. \A q \in Requests : /\ req'[q].up = req[q].up /\ req'[q].from = req[q].from /\ req'[q].got = req[q].got
                          /\ req'[q].pc = IF q = r THEN "waiting" ELSE req[q].pc
  <2>1. ASSUME NEW b \in Requested
        PROVE  /\ LET c == [b EXCEPT !.pc = "waiting"] IN
                    c.up = b.up /\ c.from = b.from /\ c.got = b.got /\ c.pc = "waiting"
               /\ LET c == [b EXCEPT !.stopped = TRUE] IN
                    c.up = b.up /\ c.from = b.from /\ c.got = b.got /\ c.pc = b.pc
    BY DEF Requested
  <2>2. \A q \in Requests : req[q] \in Requested
    BY DEF LineInv, ReqType
  <2>3. ASSUME NEW q \in Requests
        PROVE  /\ req'[q].up = req[q].up /\ req'[q].from = req[q].from /\ req'[q].got = req[q].got
               /\ req'[q].pc = IF q = r THEN "waiting" ELSE req[q].pc
    <3>1. CASE q = r
      <4>1. req'[q] = [req[q] EXCEPT !.pc = "waiting"]
        BY <1>1, <3>1
      <4> QED BY <2>1, <2>2, <3>1, <4>1
    <3>2. CASE q # r /\ req'[q] = [req[q] EXCEPT !.stopped = TRUE]
      BY <2>1, <2>2, <3>2
    <3>3. CASE q # r /\ req'[q] = req[q]
      BY <3>3
    <3> QED BY <1>1, <3>1, <3>2, <3>3
  <2> QED BY <2>3
<1>3. ReqType'
  <2>1. ASSUME NEW q \in Requests PROVE ReqOK(req'[q])
    <3>1. CASE q = r
      <4>1. ReqOK(req[q]) /\ req[q].pc = "flying" /\ TRUE \in BOOLEAN
        BY <1>1, <3>1 DEF LineInv, ReqType
      <4>2. ReqOK([req[q] EXCEPT !.pc = "waiting"])
        BY <4>1, RequestMarks
      <4>3. req'[q] = [req[q] EXCEPT !.pc = "waiting"]
        BY <1>1, <3>1
      <4> QED BY <4>2, <4>3
    <3>2. CASE q # r
      <4>1. req'[q] = req[q] \/ req'[q] = [req[q] EXCEPT !.stopped = TRUE]
        BY <1>1, <3>2
      <4>2. ReqOK(req[q]) /\ TRUE \in BOOLEAN
        BY DEF LineInv, ReqType
      <4>3. ReqOK([req[q] EXCEPT !.stopped = TRUE])
        BY <4>2, RequestMarks
      <4> QED BY <4>1, <4>2, <4>3
    <3> QED BY <3>1, <3>2
  <2>2. req' = [q \in Requests |-> req'[q]]
    BY DEF takeOver
  <2>3. \A q \in Requests : req'[q] \in Requested
    BY <2>1 DEF ReqOK
  <2>4. req' \in [Requests -> Requested]
    BY <2>2, <2>3
  <2> QED BY <2>1, <2>4 DEF ReqType
<1>4. /\ queue[u] \in Seq(Requests) /\ queue'[u] \in Seq(Requests) /\ Len(queue'[u]) = Len(queue[u]) + 1
      /\ queue'[u][Len(queue[u]) + 1] = r
      /\ \A i \in 1..Len(queue[u]) : queue'[u][i] = queue[u][i]
      /\ queue' \in [Uploads -> Seq(Requests)] /\ \A v \in Uploads \ {u} : queue'[v] = queue[v]
  BY <1>1 DEF LineInv, QueueOK
<1>5. \A v \in Uploads : \A i \in 1..Len(queue[v]) : queue[v][i] # r /\ queue[v][i] \in Requests
  BY <1>1 DEF LineInv, QueueOK, InHand, Active
<1>6. QueueOK'
  <2>0. ASSUME NEW v \in Uploads, NEW i \in 1..Len(queue[v])
        PROVE  /\ req'[queue[v][i]].up = v /\ req'[queue[v][i]].pc \in {"waiting"} \cup InHand
               /\ i > 1 => req'[queue[v][i]].pc = "waiting"
               /\ \A k \in 1..Len(queue[v]) : queue[v][i] = queue[v][k] => i = k
    <3>1. queue[v][i] # r /\ queue[v][i] \in Requests
      BY <1>5
    <3>2. req'[queue[v][i]].up = req[queue[v][i]].up /\ req'[queue[v][i]].pc = req[queue[v][i]].pc
      BY <1>2, <3>1
    <3>3. /\ req[queue[v][i]].up = v /\ req[queue[v][i]].pc \in {"waiting"} \cup InHand
          /\ i > 1 => req[queue[v][i]].pc = "waiting"
          /\ \A k \in 1..Len(queue[v]) : queue[v][i] = queue[v][k] => i = k
      BY DEF LineInv, QueueOK
    <3> QED BY <3>2, <3>3
  <2>1. \A v \in Uploads \ {u} : \A i \in 1..Len(queue'[v]) :
           /\ req'[queue'[v][i]].up = v /\ req'[queue'[v][i]].pc \in {"waiting"} \cup InHand
           /\ i > 1 => req'[queue'[v][i]].pc = "waiting"
           /\ \A k \in 1..Len(queue'[v]) : queue'[v][i] = queue'[v][k] => i = k
    BY <1>4, <2>0
  <2>2. \A i \in 1..Len(queue[u]) :
           /\ req'[queue'[u][i]].up = u /\ req'[queue'[u][i]].pc \in {"waiting"} \cup InHand
           /\ i > 1 => req'[queue'[u][i]].pc = "waiting"
           /\ queue'[u][i] # r
           /\ \A k \in 1..Len(queue[u]) : queue'[u][i] = queue'[u][k] => i = k
    BY <1>4, <1>5, <2>0
  <2>3. req'[r].up = u /\ req'[r].pc = "waiting"
    BY <1>1, <1>2
  <2>4. \A i \in 1..Len(queue'[u]) :
           /\ req'[queue'[u][i]].up = u /\ req'[queue'[u][i]].pc \in {"waiting"} \cup InHand
           /\ i > 1 => req'[queue'[u][i]].pc = "waiting"
           /\ \A k \in 1..Len(queue'[u]) : queue'[u][i] = queue'[u][k] => i = k
    <3>1. \A i \in 1..Len(queue'[u]) : i = Len(queue[u]) + 1 \/ i \in 1..Len(queue[u])
      BY <1>4
    <3> QED BY <1>4, <2>2, <2>3, <3>1
  <2>5. \A p \in Requests : req'[p].pc \in InHand => queue'[req'[p].up] # <<>> /\ queue'[req'[p].up][1] = p
    <3>1. SUFFICES ASSUME NEW p \in Requests, req'[p].pc \in InHand
                   PROVE  queue'[req'[p].up] # <<>> /\ queue'[req'[p].up][1] = p
      OBVIOUS
    <3>2. req'[p].pc = req[p].pc /\ req'[p].up = req[p].up
      BY <1>2, <3>1 DEF InHand, Active
    <3>3. queue[req[p].up] # <<>> /\ queue[req[p].up][1] = p /\ req[p].up \in Uploads
      <4>1. req[p].pc \in InHand /\ req[p].pc # "free"
        BY <3>1, <3>2 DEF InHand, Active
      <4> QED BY <4>1 DEF LineInv, ReqType, ReqOK, QueueOK
    <3>4. CASE req[p].up = u
      BY <1>4, <3>2, <3>3, <3>4
    <3> QED BY <1>4, <3>2, <3>3, <3>4
  <2> QED BY <1>4, <2>1, <2>4, <2>5 DEF QueueOK
<1> QED BY <1>2, <1>3, <1>6 DEF LineInv

-----------------------------------------------------------------------------
(***************************************************************************)
(* The bytes of an upload, and what comes of it.                           *)
(***************************************************************************)
Browser == [pc : {"new", "send", "ask", "wait"} \cup Ended, offset : 0..Size, tries : Int, req : Requests \cup {NoReq}]

DataType ==
  /\ row \in [Uploads -> {None} \cup 0..Size] /\ safe \in [Uploads -> 0..Size] /\ told \in [Uploads -> 0..Size]
  /\ DOMAIN part = Uploads /\ DOMAIN blob = Uploads /\ DOMAIN over = Uploads
  /\ browser \in [Uploads -> Browser]
  /\ beside \subseteq Uploads /\ unlinking \subseteq Uploads /\ {"blob", "version", "live"} \subseteq DOMAIN file

\* What is on disk of an upload is its first bytes, and at least what is safe.
PartAt(u) ==
  /\ part[u] = Missing \/ \E n \in 0..Size : part[u] = Upto(n)
  /\ safe[u] <= OnDisk(u)

\* A request that works on an upload has written what it read after what was there, or the sweep has it.
WorkAt(r) ==
  LET u == req[r].up  n == req[r].from + req[r].got IN
  /\ req[r].pc \in {"reading", "keep"} =>
       /\ part[u] = Upto(n) \/ (part[u] = Missing /\ row[u] = None)
       /\ row[u] = None \/ row[u] \in req[r].from..n
  /\ req[r].pc = "keep" => n = Size
  /\ req[r].pc = "finish" => blob[u] = Whole
  /\ req[r].pc = "dropOld" => row[u] = None

\* What a browser was told is recorded, and what is recorded is safe until the bytes are moved.
SafeAt(u) ==
  u \notin overtaken /\ row[u] # None =>
    /\ told[u] <= row[u]
    /\ row[u] <= safe[u] \/ \E r \in Requests : req[r].pc = "finish" /\ req[r].up = u

\* Nothing is known of an upload before it begins, and what the sweep took has no record.
FreshAt(u) ==
  /\ browser[u].pc = "new" =>
       row[u] = None /\ told[u] = 0 /\ u \notin unlinking /\ \A r \in Requests : req[r].up # u
  /\ u \in unlinking => row[u] = None

BytesOK ==
  /\ \A u \in Uploads : PartAt(u) /\ SafeAt(u) /\ FreshAt(u)
  /\ \A r \in Requests : WorkAt(r)

\* An upload that is over is not begun again, and nobody works on its bytes.
Closed(u) ==
  row[u] = None /\ browser[u].pc # "new" /\ \A r \in Requests : req[r].up = u => req[r].pc \notin Active
Dropping(u) == browser[u].pc = "cancelled" \/ \E r \in Requests : req[r].pc = "unlink" /\ req[r].up = u
Placed(u) == u \in beside \/ file.blob = u \/ over[u] # NoReq \/ \E v \in Uploads : over[v] = u

ClosedOK == \A u \in Uploads :
  /\ Placed(u) \/ Dropping(u) => Closed(u)
  /\ Dropping(u) => u \notin beside /\ over[u] = NoReq

\* Bytes that were replaced are no one's any more, and the file's are not also a file beside it.
OnceOnly ==
  /\ file.blob \notin beside
  /\ \A v \in Uploads : over[v] \in Uploads => over[v] \notin beside /\ over[v] # file.blob

PlacesOK == ClosedOK /\ OnceOnly /\ FilesWhole
WholeInv == LineInv /\ DataType /\ BytesOK /\ PlacesOK

\* What a step does for the request that works on an upload stays with that upload.
OnlyAt(u) ==
  /\ DataType' /\ LineInv'
  /\ \A v \in Uploads \ {u} :
       /\ row'[v] = row[v] /\ part'[v] = part[v] /\ safe'[v] = safe[v]
       /\ blob'[v] = blob[v] \/ Closed(v)
       /\ told'[v] = told[v] /\ browser'[v] = browser[v]
  /\ row[u] = None => row'[u] = None
  /\ browser'[u].pc # "new" 
  /\ UNCHANGED <<overtaken, unlinking>>

LEMMA Begun ==
  ASSUME WholeInv, NEW u \in Uploads, NEW r \in Requests, Working(u, r)
  PROVE  browser[u].pc # "new" /\ req[r].up = u
BY WorkerFacts DEF WholeInv, BytesOK, FreshAt

LEMMA ServerBytes ==
  ASSUME WholeInv, NEW u \in Uploads, NEW r \in Requests, Working(u, r), OnlyAt(u),
         NEW q, req' = [req EXCEPT ![r] = q], q.up \in {u, NoReq}, PartAt(u)', SafeAt(u)', WorkAt(r)'
  PROVE  BytesOK'
<1>1. req'[r] = q /\ req[r].up = u /\ \A p \in Requests \ {r} : req'[p] = req[p]
  BY WorkerFacts DEF WholeInv, LineInv, ReqType
<1>2. \A p \in Requests \ {r} : req[p].pc \in InHand => req[p].up \in Uploads \ {u}
  BY WorkerFacts DEF WholeInv, LineInv, ReqType, ReqOK, InHand, Active
<1>3. ASSUME NEW p \in Requests \ {r} PROVE WorkAt(p)'
  <2>1. CASE req[p].pc \in InHand
    <3>1. WorkAt(p) /\ req[p].up \in Uploads \ {u}
      BY <1>2, <2>1 DEF WholeInv, BytesOK
    <3>2. req[p].pc = "finish" => ~Closed(req[p].up)
      BY DEF Closed, Active
    <3> QED BY <1>1, <3>1, <3>2 DEF WorkAt, OnlyAt
  <2>2. CASE req[p].pc \notin InHand
    BY <1>1, <2>2 DEF WorkAt, InHand, Active
  <2> QED BY <2>1, <2>2
<1>4. ASSUME NEW v \in Uploads \ {u} PROVE PartAt(v)' /\ SafeAt(v)' /\ FreshAt(v)'
  <2>1. PartAt(v) /\ SafeAt(v) /\ FreshAt(v)
    BY DEF WholeInv, BytesOK
  <2>2. PartAt(v)'
    BY <2>1 DEF PartAt, OnlyAt, OnDisk
  <2>3. SafeAt(v)'
    <3>1. \A p \in Requests : req[p].up = v => p # r
      BY <1>1
    <3> QED BY <1>1, <2>1, <3>1 DEF SafeAt, OnlyAt
  <2>4. FreshAt(v)'
    <3>1. \A p \in Requests : req[p].up # v => req'[p].up # v
      BY <1>1, UploadAssumption DEF NoReq
    <3> QED BY <2>1, <3>1 DEF FreshAt, OnlyAt
  <2> QED BY <2>2, <2>3, <2>4
<1>5. FreshAt(u)'
  BY DEF WholeInv, BytesOK, FreshAt, OnlyAt
<1> QED BY <1>3, <1>4, <1>5 DEF BytesOK

\* Places are kept by whoever works where no file is filed, none replaced and none removed.
LEMMA PlacesKept ==
  ASSUME WholeInv, UNCHANGED <<beside, over>>, file'.blob = file.blob,
         \A u \in Uploads : /\ Closed(u) => Closed(u)' /\ blob'[u] = blob[u]
                            /\ Dropping(u)' => Dropping(u) \/ (Closed(u)' /\ u \notin beside /\ over[u] = NoReq)
  PROVE  PlacesOK'
<1>1. \A u \in Uploads : Placed(u)' <=> Placed(u)
  BY DEF Placed
<1>2. ClosedOK'
  BY <1>1 DEF WholeInv, PlacesOK, ClosedOK
<1>3. OnceOnly'
  BY DEF WholeInv, PlacesOK, OnceOnly
<1>4. FilesWhole'
  <2>1. Shown' = Shown /\ \A u \in Shown : u \in Uploads /\ Placed(u)
    BY DEF Shown, Placed, WholeInv, DataType
  <2>2. \A u \in Shown : blob'[u] = blob[u]
    BY <2>1 DEF WholeInv, PlacesOK, ClosedOK
  <2> QED BY <2>1, <2>2 DEF FilesWhole, WholeInv, PlacesOK
<1> QED BY <1>2, <1>3, <1>4 DEF PlacesOK

LEMMA ServerCloses ==
  ASSUME WholeInv, NEW u \in Uploads, NEW r \in Requests, Working(u, r), OnlyAt(u),
         NEW q, req' = [req EXCEPT ![r] = q], q.up \in {u, NoReq},
         q.pc \in Active => req[r].pc \in Active \/ row[u] # None
  PROVE  \A v \in Uploads : Closed(v) => Closed(v)'
<1>1. req'[r] = q /\ req[r].up = u /\ \A p \in Requests \ {r} : req'[p] = req[p]
  BY WorkerFacts DEF WholeInv, LineInv, ReqType
<1>2. ASSUME NEW v \in Uploads \ {u}, Closed(v) PROVE Closed(v)'
  BY <1>1, <1>2, UploadAssumption DEF Closed, OnlyAt, NoReq
<1>3. ASSUME Closed(u) PROVE Closed(u)'
  BY <1>1, <1>3 DEF Closed, OnlyAt
<1> QED BY <1>2, <1>3

LEMMA ServerStep ==
  ASSUME WholeInv, NEW u \in Uploads, NEW r \in Requests, Working(u, r), OnlyAt(u),
         NEW q, req' = [req EXCEPT ![r] = q], q.up \in {u, NoReq}, PartAt(u)', SafeAt(u)', WorkAt(r)',
         q.pc \in Active => req[r].pc \in Active \/ row[u] # None,
         UNCHANGED <<beside, over, file>>, \A v \in Uploads : Closed(v) => blob'[v] = blob[v],
         Dropping(u)' => Dropping(u) \/ (Closed(u)' /\ u \notin beside /\ over[u] = NoReq)
  PROVE  WholeInv'
<1>1. req'[r] = q /\ req[r].up = u /\ \A p \in Requests \ {r} : req'[p] = req[p]
  BY WorkerFacts DEF WholeInv, LineInv, ReqType
<1>2. BytesOK'
  BY ServerBytes
<1>3. \A v \in Uploads : Closed(v) => Closed(v)'
  BY ServerCloses
<1>4. ASSUME NEW v \in Uploads \ {u}, Dropping(v)' PROVE Dropping(v)
  BY <1>1, <1>4, UploadAssumption DEF Dropping, OnlyAt, NoReq
<1>5. PlacesOK'
  BY <1>3, <1>4, PlacesKept
<1> QED BY <1>2, <1>5 DEF WholeInv, OnlyAt

LEMMA FailedType ==
  ASSUME DataType, NEW u \in Uploads, NEW method
  PROVE  Failed(u, method) \in Browser /\ Failed(u, method).pc \in {"send", "failed", "ask"}
<1>1. browser[u] \in Browser
  BY DEF DataType
<1>2. CASE method = "HEAD"
  BY <1>1, <1>2 DEF Failed, Browser
<1>3. CASE method # "HEAD" /\ browser[u].tries >= MaxTries
  BY <1>1, <1>3 DEF Failed, Browser, Ended
<1>4. CASE method # "HEAD" /\ ~(browser[u].tries >= MaxTries)
  <2>1. browser[u].tries + 1 \in Int /\ DOMAIN browser[u] = {"pc", "offset", "tries", "req"}
    BY <1>1 DEF Browser
  <2>2. Failed(u, method) = [browser[u] EXCEPT !.pc = "ask", !.tries = browser[u].tries + 1, !.req = NoReq]
    BY <1>4, <2>1 DEF Failed
  <2> QED BY <1>1, <2>1, <2>2 DEF Browser
<1> QED BY <1>2, <1>3, <1>4

LEMMA AnsweredType ==
  ASSUME DataType, NEW u \in Uploads, NEW method, NEW status, NEW offset \in 0..Size, NEW filed
  PROVE  LET b == Answered(u, method, status, offset, filed) IN
         b \in Browser /\ b.pc # "new" /\ (b.pc = "cancelled" => method = "DELETE" /\ status = "ok")
<1>1. browser[u] \in Browser
  BY DEF DataType
<1>2. CASE method = "DELETE"
  BY <1>1, <1>2 DEF Answered, Browser, Ended
<1>3. CASE method = "HEAD"
  BY <1>1, <1>3 DEF Answered, Browser, Ended
<1>4. CASE method \notin {"DELETE", "HEAD"} /\ status = "ok"
  <2>1. \E pc \in {"done", "failed", "send"} : Answered(u, method, status, offset, filed) =
          [[browser[u] EXCEPT !.req = NoReq] EXCEPT !.pc = pc, !.offset = offset, !.tries = 0]
    BY <1>4 DEF Answered
  <2>2. [browser[u] EXCEPT !.req = NoReq] \in Browser
    BY <1>1 DEF Browser
  <2>3. PICK pc \in {"done", "failed", "send"} : Answered(u, method, status, offset, filed) =
          [[browser[u] EXCEPT !.req = NoReq] EXCEPT !.pc = pc, !.offset = offset, !.tries = 0]
    BY <2>1
  <2>4. ASSUME NEW b \in Browser
        PROVE  [b EXCEPT !.pc = pc, !.offset = offset, !.tries = 0] \in Browser
               /\ [b EXCEPT !.pc = pc, !.offset = offset, !.tries = 0].pc = pc
    <3>1. [b EXCEPT !.pc = pc] \in Browser /\ [b EXCEPT !.pc = pc].pc = pc
      BY DEF Browser, Ended
    <3>2. ASSUME NEW c \in Browser
          PROVE  [c EXCEPT !.offset = offset, !.tries = 0] \in Browser
                 /\ [c EXCEPT !.offset = offset, !.tries = 0].pc = c.pc
      <4>1. [c EXCEPT !.offset = offset] \in Browser /\ [c EXCEPT !.offset = offset].pc = c.pc
        BY DEF Browser
      <4>2. \A d \in Browser : [d EXCEPT !.tries = 0] \in Browser /\ [d EXCEPT !.tries = 0].pc = d.pc
        BY DEF Browser
      <4> QED BY <4>1, <4>2
    <3>3. [b EXCEPT !.pc = pc, !.offset = offset, !.tries = 0] = [[b EXCEPT !.pc = pc] EXCEPT !.offset = offset, !.tries = 0]
      OBVIOUS
    <3> QED BY <3>1, <3>2, <3>3
  <2> QED BY <2>2, <2>3, <2>4, <1>4
<1>5. CASE method \notin {"DELETE", "HEAD"} /\ status = "conflict"
  BY <1>5, FailedType DEF Answered
<1>6. CASE method \notin {"DELETE", "HEAD"} /\ status \notin {"ok", "conflict"}
  BY <1>1, <1>6 DEF Answered, Browser, Ended
<1> QED BY <1>2, <1>3, <1>4, <1>5, <1>6

\* What an answer changes for the one who sent the request.
LEMMA AnswerAt ==
  ASSUME WholeInv, NEW u \in Uploads, NEW r \in Requests, Working(u, r),
         NEW status, NEW offset \in 0..Size, NEW filed, Answer(r, status, offset, filed)
  PROVE  /\ browser' \in [Uploads -> Browser] /\ told' \in [Uploads -> 0..Size]
         /\ \A v \in Uploads \ {u} : browser'[v] = browser[v] /\ told'[v] = told[v]
         /\ browser'[u].pc # "new"
         /\ told'[u] = told[u] \/ (told'[u] = offset /\ status = "ok" /\ req[r].kind # "DELETE")
         /\ browser'[u].pc = "cancelled" =>
              browser[u].pc = "cancelled" \/ (req[r].kind = "DELETE" /\ status = "ok")
<1>0. req[r].up = u /\ browser[u].pc # "new" /\ DataType
  BY Begun DEF WholeInv
<1>1. CASE UNCHANGED <<browser, told>>
  BY <1>0, <1>1 DEF DataType
<1>2. CASE ~UNCHANGED <<browser, told>>
  <2>1. /\ told' = [told EXCEPT ![u] = IF status = "ok" /\ req[r].kind # "DELETE" /\ offset > @ THEN offset ELSE @]
        /\ browser' = [browser EXCEPT ![u] = Answered(u, req[r].kind, status, offset, filed)]
    BY <1>0, <1>2 DEF Answer
  <2>2. /\ Answered(u, req[r].kind, status, offset, filed) \in Browser
        /\ Answered(u, req[r].kind, status, offset, filed).pc # "new"
        /\ Answered(u, req[r].kind, status, offset, filed).pc = "cancelled" => req[r].kind = "DELETE" /\ status = "ok"
    BY <1>0, AnsweredType
  <2>3. browser' \in [Uploads -> Browser] /\ browser'[u] = Answered(u, req[r].kind, status, offset, filed)
        /\ \A v \in Uploads \ {u} : browser'[v] = browser[v]
    BY <1>0, <2>1, <2>2 DEF DataType
  <2>4. told' \in [Uploads -> 0..Size] /\ (\A v \in Uploads \ {u} : told'[v] = told[v])
        /\ (told'[u] = told[u] \/ (told'[u] = offset /\ status = "ok" /\ req[r].kind # "DELETE"))
    BY <1>0, <2>1 DEF DataType
  <2> QED BY <2>2, <2>3, <2>4
<1> QED BY <1>1, <1>2

LEMMA AnswerStep ==
  ASSUME WholeInv, NEW u \in Uploads, NEW r \in Requests, Working(u, r),
         NEW status, NEW offset \in 0..Size, NEW filed, Answer(r, status, offset, filed),
         req[r].kind = "DELETE" /\ status = "ok" => Dropping(u),
         row' \in [Uploads -> {None} \cup 0..Size], safe' \in [Uploads -> 0..Size],
         DOMAIN part' = Uploads, DOMAIN blob' = Uploads,
         \A v \in Uploads \ {u} : row'[v] = row[v] /\ part'[v] = part[v] /\ safe'[v] = safe[v] /\ blob'[v] = blob[v],
         row[u] = None => row'[u] = None,
         UNCHANGED <<overtaken, unlinking, beside, over, file>>, Closed(u) => blob'[u] = blob[u],
         PartAt(u)', SafeAt(u)'
  PROVE  WholeInv'
<1>1. LineInv' /\ req' = [req EXCEPT ![r] = Idle]
  BY Answering DEF WholeInv
<1>2. OnlyAt(u)
  <2>1. /\ browser' \in [Uploads -> Browser] /\ told' \in [Uploads -> 0..Size] /\ browser'[u].pc # "new"
        /\ \A v \in Uploads \ {u} : browser'[v] = browser[v] /\ told'[v] = told[v]
    BY AnswerAt
  <2>2. DataType'
    BY <2>1 DEF WholeInv, DataType
  <2> QED BY <1>1, <2>1, <2>2 DEF OnlyAt
<1>3. Idle.up = NoReq /\ Idle.pc = "free"
  BY DEF Idle
<1>4. req'[r] = Idle /\ req[r].up = u /\ \A p \in Requests \ {r} : req'[p] = req[p]
  BY <1>1, WorkerFacts DEF WholeInv, LineInv, ReqType
<1>5. WorkAt(r)'
  BY <1>3, <1>4 DEF WorkAt
<1>6. Dropping(u)' => Dropping(u)
  BY <1>3, <1>4, AnswerAt DEF Dropping
<1> QED BY <1>1, <1>2, <1>3, <1>5, <1>6, ServerStep DEF Active

\* While a request waits its turn nobody else works on the upload.
LEMMA NobodyElse ==
  ASSUME WholeInv, NEW u \in Uploads, NEW r \in Requests, Working(u, r)
  PROVE  /\ \A q \in Requests : req[q].pc = "finish" /\ req[q].up = u => q = r
         /\ PartAt(u) /\ SafeAt(u) /\ WorkAt(r) /\ DataType /\ ReqOK(req[r]) /\ req[r].up = u
BY WorkerFacts DEF InHand, Active, WholeInv, BytesOK, LineInv, ReqType

\* Bytes and record agree once more, and nothing told is lost by it.
LEMMA Settled ==
  ASSUME WholeInv, NEW u \in Uploads, NEW r \in Requests, Working(u, r), req[r].pc = "waiting", row[u] # None,
         settle(u)
  PROVE  /\ row'[u] \in 0..Size /\ part'[u] = Upto(row'[u]) /\ safe'[u] <= row'[u] /\ row'[u] <= row[u]
         /\ row' \in [Uploads -> {None} \cup 0..Size] /\ safe' \in [Uploads -> 0..Size]
         /\ DOMAIN part' = Uploads /\ OnDisk(u)' = row'[u]
         /\ \A v \in Uploads \ {u} : row'[v] = row[v] /\ part'[v] = part[v] /\ safe'[v] = safe[v]
         /\ UNCHANGED <<blob, file, beside>>
         /\ u \notin overtaken => row'[u] = row[u] /\ told[u] <= row[u] /\ row[u] <= safe'[u]
<1> DEFINE n == Least(OnDisk(u), row[u])
<1>0. PartAt(u) /\ SafeAt(u) /\ DataType /\ row[u] \in 0..Size /\ safe[u] \in 0..Size /\ Size \in Nat
  BY NobodyElse, UploadAssumption DEF DataType
<1>1. PICK k \in 0..Size : (part[u] = Missing /\ k = 0) \/ part[u] = Upto(k)
  BY <1>0 DEF PartAt
<1>2. OnDisk(u) = k /\ n \in 0..k /\ n <= row[u] /\ n \in 0..Size
  <2>1. OnDisk(u) = k
    <3>1. Upto(k) # Missing /\ Len(Upto(k)) = k
      BY <1>0, <1>1, UptoLaws
    <3> QED BY <1>1, <3>1 DEF OnDisk
  <2>2. k \in Nat /\ row[u] \in Nat /\ k <= Size
    BY <1>0, <1>1
  <2> QED BY <1>0, <2>1, <2>2 DEF Least
<1>3. part'[u] = Upto(n)
  <2>1. CASE part[u] = Missing
    <3>1. k = 0 /\ n = 0
      BY <1>1, <1>2, <2>1, UptoLaws
    <3>2. part'[u] = <<>>
      BY <2>1 DEF settle, WholeInv, DataType
    <3>3. Upto(0) = <<>>
      BY UptoLaws
    <3> QED BY <3>1, <3>2, <3>3
  <2>2. CASE part[u] # Missing
    <3>1. part'[u] = SubSeq(part[u], 1, n)
      BY <1>0, <2>2 DEF settle, DataType
    <3>2. part[u] = Upto(k) /\ k \in Nat
      BY <1>0, <1>1, <2>2
    <3>3. SubSeq(Upto(k), 1, n) = Upto(n)
      BY <1>2, <3>2, UptoLaws
    <3> QED BY <3>1, <3>2, <3>3
  <2> QED BY <2>1, <2>2
<1>4. row' = [row EXCEPT ![u] = n] /\ safe' = [safe EXCEPT ![u] = Least(@, n)] /\ UNCHANGED <<blob, file, beside>>
  BY DEF settle
<1>5. row'[u] = n /\ row' \in [Uploads -> {None} \cup 0..Size] /\ \A v \in Uploads \ {u} : row'[v] = row[v]
  BY <1>0, <1>2, <1>4 DEF DataType
<1>6. safe'[u] = Least(safe[u], n) /\ Least(safe[u], n) <= n /\ Least(safe[u], n) \in 0..Size
  BY <1>0, <1>2, <1>4 DEF DataType, Least
<1>7. safe' \in [Uploads -> 0..Size] /\ \A v \in Uploads \ {u} : safe'[v] = safe[v]
  BY <1>0, <1>4, <1>6 DEF DataType
<1>8. DOMAIN part' = Uploads /\ \A v \in Uploads \ {u} : part'[v] = part[v]
  BY <1>0 DEF settle, DataType
<1>9. OnDisk(u)' = n
  <2>1. n \in Nat
    BY <1>0, <1>2
  <2>2. Upto(n) # Missing /\ Len(Upto(n)) = n
    BY <2>1, UptoLaws
  <2> QED BY <1>3, <2>2 DEF OnDisk
<1>10. u \notin overtaken => n = row[u] /\ told[u] <= row[u] /\ row[u] <= safe'[u]
  <2>1. ~\E q \in Requests : req[q].pc = "finish" /\ req[q].up = u
    BY NobodyElse
  <2>2. u \notin overtaken => told[u] <= row[u] /\ row[u] <= safe[u] /\ safe[u] <= k
    BY <1>0, <1>2, <2>1 DEF SafeAt, PartAt
  <2>3. u \notin overtaken => n = row[u]
    BY <1>0, <1>2, <2>2 DEF Least
  <2>4. u \notin overtaken => safe'[u] = n
    BY <1>0, <1>6, <2>2, <2>3 DEF Least
  <2> QED BY <1>0, <2>2, <2>3, <2>4
<1> QED BY <1>2, <1>3, <1>4, <1>5, <1>6, <1>7, <1>8, <1>9, <1>10

LEMMA UnknownStep ==
  ASSUME WholeInv, NEW u \in Uploads, NEW r \in Requests, Unknown(u, r) \/ KeepFails(u, r)
  PROVE  WholeInv'
<1>1. Working(u, r) /\ UNCHANGED <<row, file, beside, part, safe, blob, unlinking, overtaken, over>>
  BY DEF Unknown, KeepFails, db, disk
<1>0. 0 \in 0..Size
  BY UploadAssumption
<1>2. PICK status \in {"missing", "error"} : Answer(r, status, 0, FALSE)
  BY DEF Unknown, KeepFails
<1>3. PartAt(u) /\ SafeAt(u) /\ DataType
  BY <1>1, NobodyElse
<1>4. PartAt(u)'
  BY <1>1, <1>3 DEF PartAt, OnDisk
<1>5. req[r].pc # "finish" /\ req[r].up = u
  BY <1>1, WorkerFacts DEF Unknown, KeepFails, WholeInv
<1>6. SafeAt(u)'
  <2>1. told'[u] = told[u]
    BY <1>0, <1>1, <1>2, AnswerAt
  <2>2. \A q \in Requests : req[q].pc = "finish" => req'[q] = req[q]
    BY <1>1, <1>2, <1>5, Answering DEF WholeInv, LineInv, ReqType
  <2> QED BY <1>1, <1>3, <2>1, <2>2 DEF SafeAt
<1> QED BY <1>0, <1>1, <1>2, <1>3, <1>4, <1>6, AnswerStep DEF DataType

\* HEAD tells how far an upload got; so does a PATCH that cannot go on from there.
LEMMA TellsHowFar ==
  ASSUME WholeInv, NEW u \in Uploads, NEW r \in Requests, HeadAnswer(u, r) \/ OutOfStep(u, r)
  PROVE  WholeInv'
<1>1. /\ Working(u, r) /\ req[r].pc = "waiting" /\ row[u] # None /\ settle(u)
      /\ req[r].kind # "DELETE" /\ UNCHANGED <<unlinking, overtaken, over>>
  BY DEF HeadAnswer, OutOfStep, uploadFor
<1>2. PICK status \in {"ok", "conflict"} : Answer(r, status, row'[u], FALSE)
  BY DEF HeadAnswer, OutOfStep
<1>3. /\ row'[u] \in 0..Size /\ part'[u] = Upto(row'[u]) /\ safe'[u] <= row'[u] /\ row'[u] <= row[u]
      /\ row' \in [Uploads -> {None} \cup 0..Size] /\ safe' \in [Uploads -> 0..Size]
      /\ DOMAIN part' = Uploads /\ OnDisk(u)' = row'[u]
      /\ \A v \in Uploads \ {u} : row'[v] = row[v] /\ part'[v] = part[v] /\ safe'[v] = safe[v]
      /\ UNCHANGED <<blob, file, beside>>
      /\ u \notin overtaken => row'[u] = row[u] /\ told[u] <= row[u] /\ row[u] <= safe'[u]
  BY <1>1, Settled
<1>4. PartAt(u)'
  BY <1>3 DEF PartAt
<1>5. SafeAt(u)'
  <2>1. told'[u] = told[u] \/ told'[u] = row'[u]
    BY <1>1, <1>2, <1>3, AnswerAt
  <2>2. row'[u] <= row'[u]
    BY <1>3, UploadAssumption
  <2> QED BY <1>1, <1>3, <2>1, <2>2 DEF SafeAt
<1> QED BY <1>1, <1>2, <1>3, <1>4, <1>5, AnswerStep DEF WholeInv, DataType

\* Its pc, or what it has got, goes on.
LEMMA RequestGoesOn ==
  ASSUME NEW q, ReqOK(q), q.up \in Uploads, q.kind = "PATCH", NEW pc \in Active \cup {"dropOld"}
  PROVE  /\ ReqOK([q EXCEPT !.pc = pc]) /\ [q EXCEPT !.pc = pc].pc = pc
         /\ [q EXCEPT !.pc = pc].up = q.up /\ [q EXCEPT !.pc = pc].from = q.from /\ [q EXCEPT !.pc = pc].got = q.got
<1>1. q \in Requested /\ pc \in Phases /\ pc \notin {"flying", "waiting", "unlink", "free"}
  BY DEF ReqOK, Phases, InHand, Active
<1>2. [q EXCEPT !.pc = pc] \in Requested
  BY <1>1 DEF Requested
<1>3. /\ [q EXCEPT !.pc = pc].pc = pc /\ [q EXCEPT !.pc = pc].kind = q.kind /\ [q EXCEPT !.pc = pc].to = q.to
      /\ [q EXCEPT !.pc = pc].up = q.up /\ [q EXCEPT !.pc = pc].from = q.from /\ [q EXCEPT !.pc = pc].got = q.got
  BY <1>1 DEF Requested
<1> QED BY <1>1, <1>2, <1>3 DEF ReqOK

LEMMA BeginsReading ==
  ASSUME WholeInv, NEW u \in Uploads, NEW r \in Requests, PatchBegins(u, r)
  PROVE  WholeInv'
<1> DEFINE q == [req[r] EXCEPT !.pc = "reading"]
<1>1. /\ Working(u, r) /\ req[r].pc = "waiting" /\ row[u] # None /\ settle(u) /\ req[r].kind = "PATCH"
      /\ req[r].from = row'[u] /\ req' = [req EXCEPT ![r] = q]
      /\ UNCHANGED <<queue, browser, told, unlinking, overtaken, over>>
  BY DEF PatchBegins, uploadFor, notes
<1>2. /\ row'[u] \in 0..Size /\ part'[u] = Upto(row'[u]) /\ safe'[u] <= row'[u] /\ row'[u] <= row[u]
      /\ row' \in [Uploads -> {None} \cup 0..Size] /\ safe' \in [Uploads -> 0..Size]
      /\ DOMAIN part' = Uploads /\ OnDisk(u)' = row'[u]
      /\ \A v \in Uploads \ {u} : row'[v] = row[v] /\ part'[v] = part[v] /\ safe'[v] = safe[v]
      /\ UNCHANGED <<blob, file, beside>>
      /\ u \notin overtaken => row'[u] = row[u] /\ told[u] <= row[u] /\ row[u] <= safe'[u]
  BY <1>1, Settled
<1>3. ReqOK(req[r]) /\ req[r].up = u /\ req[r].got = 0 /\ browser[u].pc # "new"
  BY <1>1, NobodyElse, Begun DEF ReqOK
<1>4. ReqOK(q) /\ q.pc = "reading" /\ q.up = u /\ q.from = req[r].from /\ q.got = 0
  <2>1. "reading" \in Active \cup {"dropOld"}
    BY DEF Active
  <2> QED BY <1>1, <1>3, <2>1, RequestGoesOn
<1>5. LineInv' /\ req'[r] = q
  BY <1>1, <1>4, GoesOn DEF WholeInv, InHand, Active, LineInv, ReqType
<1>6. OnlyAt(u)
  BY <1>1, <1>2, <1>3, <1>5 DEF OnlyAt, WholeInv, DataType
<1>7. PartAt(u)' /\ SafeAt(u)'
  BY <1>1, <1>2 DEF PartAt, SafeAt
<1>8. WorkAt(r)'
  <2>1. req'[r].from + req'[r].got = row'[u] /\ row'[u] \in req'[r].from..row'[u] /\ req'[r].up = u
    BY <1>1, <1>2, <1>4, <1>5
  <2> QED BY <1>2, <1>4, <1>5, <2>1 DEF WorkAt
<1>9. Dropping(u)' => Dropping(u)
  BY <1>1, <1>4, <1>5 DEF Dropping, WholeInv, LineInv, ReqType
<1> QED BY <1>1, <1>2, <1>4, <1>6, <1>7, <1>8, <1>9, ServerStep

LEMMA Receives ==
  ASSUME WholeInv, NEW u \in Uploads, NEW r \in Requests, Receive(u, r)
  PROVE  WholeInv'
<1> DEFINE q == [req[r] EXCEPT !.got = @ + 1]
           n == req[r].from + req[r].got
<1>1. /\ Working(u, r) /\ req[r].pc = "reading" /\ n < req[r].to /\ req' = [req EXCEPT ![r] = q]
      /\ UNCHANGED <<queue, browser, told, unlinking, overtaken, over, safe, blob, row, file, beside>>
  BY DEF Receive, notes, db
<1>2. /\ PartAt(u) /\ SafeAt(u) /\ WorkAt(r) /\ DataType /\ ReqOK(req[r]) /\ req[r].up = u
      /\ browser[u].pc # "new" /\ req[r].kind = "PATCH"
  BY <1>1, NobodyElse, Begun DEF ReqOK, Active
<1>3. /\ n \in 0..Size /\ n + 1 \in 0..Size /\ n + 1 = req[r].from + (req[r].got + 1) /\ req[r].got + 1 \in 0..Size
      /\ req[r].from \in 0..Size /\ n \in Nat /\ n + 1 <= req[r].to
  BY <1>1, <1>2, UploadAssumption DEF ReqOK, Requested
<1>4. ReqOK(q) /\ q.pc = "reading" /\ q.up = u /\ q.from = req[r].from /\ q.got = req[r].got + 1
  <2>1. q \in Requested /\ q.pc = "reading" /\ q.up = u /\ q.from = req[r].from /\ q.got = req[r].got + 1
        /\ q.to = req[r].to /\ q.kind = "PATCH"
    <3>1. req[r] \in Requested
      BY <1>2 DEF ReqOK
    <3> QED BY <1>1, <1>2, <1>3, <3>1 DEF Requested
  <2> QED BY <1>1, <1>2, <1>3, <2>1 DEF ReqOK
<1>5. LineInv' /\ req'[r] = q
  BY <1>1, <1>4, GoesOn DEF WholeInv, InHand, Active, LineInv, ReqType
<1>6. OnlyAt(u)
  BY <1>1, <1>2, <1>5 DEF OnlyAt, WholeInv, DataType, Receive
<1>7. /\ part[u] = Upto(n) \/ (part[u] = Missing /\ row[u] = None)
      /\ row[u] = None \/ row[u] \in req[r].from..n
  BY <1>1, <1>2 DEF WorkAt
<1>8. part'[u] = IF part[u] = Missing THEN Missing ELSE Append(part[u], n + 1)
  BY <1>2 DEF Receive, DataType
<1>9. part'[u] = Upto(n + 1) \/ (part'[u] = Missing /\ row'[u] = None)
  BY <1>1, <1>3, <1>7, <1>8, UptoLaws
<1>10. WorkAt(r)'
  <2>1. req'[r].up = u /\ req'[r].pc = "reading" /\ req'[r].from = req[r].from /\ req'[r].from + req'[r].got = n + 1
    BY <1>3, <1>4, <1>5
  <2>2. row'[u] = None \/ row'[u] \in req[r].from..(n + 1)
    BY <1>1, <1>3, <1>7
  <2> QED BY <1>9, <2>1, <2>2 DEF WorkAt
<1>11. PartAt(u)'
  <2>1. CASE part[u] = Missing
    BY <1>1, <1>2, <1>8, <2>1 DEF PartAt, OnDisk
  <2>2. CASE part[u] # Missing
    <3>1. part[u] = Upto(n) /\ part'[u] = Upto(n + 1) /\ OnDisk(u) = n /\ OnDisk(u)' = n + 1
      <4>1. Upto(n) # Missing /\ Len(Upto(n)) = n /\ Append(Upto(n), n + 1) = Upto(n + 1)
            /\ Upto(n + 1) # Missing /\ Len(Upto(n + 1)) = n + 1
        <5>1. n + 1 \in Nat
          BY <1>3
        <5> QED BY <1>3, <5>1, UptoLaws
      <4> QED BY <1>7, <1>8, <2>2, <4>1 DEF OnDisk
    <3> QED BY <1>1, <1>2, <1>3, <3>1 DEF PartAt, DataType
  <2> QED BY <2>1, <2>2
<1>12. SafeAt(u)'
  <2>1. \A p \in Requests : req[p].pc = "finish" => req'[p] = req[p]
    BY <1>1 DEF WholeInv, LineInv, ReqType
  <2> QED BY <1>1, <1>2, <2>1 DEF SafeAt
<1>13. Dropping(u)' => Dropping(u)
  BY <1>1, <1>4, <1>5 DEF Dropping, WholeInv, LineInv, ReqType
<1> QED BY <1>1, <1>4, <1>6, <1>10, <1>11, <1>12, <1>13, ServerStep DEF Active

\* What has been read is flushed, then recorded.
LEMMA Checkpointed ==
  ASSUME WholeInv, NEW u \in Uploads, NEW r \in Requests, Working(u, r), req[r].pc = "reading", checkpoint(u, r)
  PROVE  LET n == req[r].from + req[r].got IN
         /\ n \in 0..Size /\ row' = [row EXCEPT ![u] = IF row[u] = None THEN None ELSE n]
         /\ row' \in [Uploads -> {None} \cup 0..Size] /\ safe' \in [Uploads -> 0..Size]
         /\ row'[u] = IF row[u] = None THEN None ELSE n
         /\ \A v \in Uploads \ {u} : row'[v] = row[v] /\ safe'[v] = safe[v]
         /\ UNCHANGED <<part, blob, file, beside>> /\ DOMAIN part = Uploads /\ DOMAIN blob = Uploads
         /\ part[u] = Upto(n) \/ (part[u] = Missing /\ row[u] = None)
         /\ row[u] # None => safe'[u] = n /\ row[u] \in req[r].from..n
         /\ PartAt(u)'
<1> DEFINE n == req[r].from + req[r].got
<1>1. PartAt(u) /\ WorkAt(r) /\ DataType /\ ReqOK(req[r]) /\ req[r].up = u /\ Size \in Nat
  BY NobodyElse, UploadAssumption
<1>2. n \in 0..Size
  BY <1>1 DEF ReqOK, Requested
<1>3. /\ row' = [row EXCEPT ![u] = IF row[u] = None THEN None ELSE n]
      /\ safe' = [safe EXCEPT ![u] = OnDisk(u)] /\ UNCHANGED <<part, blob, file, beside>>
  BY DEF checkpoint, Record
<1>4. /\ part[u] = Upto(n) \/ (part[u] = Missing /\ row[u] = None)
      /\ row[u] = None \/ row[u] \in req[r].from..n
  BY <1>1 DEF WorkAt
<1>5. OnDisk(u) \in 0..Size /\ (row[u] # None => OnDisk(u) = n)
  <2>1. CASE part[u] = Missing
    <3>0. n \in Nat
      BY <1>1, <1>2
    <3>1. Upto(n) # Missing
      <4> HIDE DEF n
      <4> QED BY <3>0, UptoLaws
    <3>2. row[u] = None
      BY <1>4, <2>1, <3>1
    <3>3. OnDisk(u) = 0
      BY <2>1 DEF OnDisk
    <3> QED BY <1>1, <3>2, <3>3
  <2>2. CASE part[u] # Missing
    <3>0. n \in Nat
      BY <1>1, <1>2
    <3>1. Len(Upto(n)) = n
      <4> HIDE DEF n
      <4> QED BY <3>0, UptoLaws
    <3> QED BY <1>2, <1>4, <2>2, <3>1 DEF OnDisk
  <2> QED BY <2>1, <2>2
<1>6. safe' \in [Uploads -> 0..Size] /\ safe'[u] = OnDisk(u) /\ \A v \in Uploads \ {u} : safe'[v] = safe[v]
  BY <1>1, <1>3, <1>5 DEF DataType
<1>7. /\ row' \in [Uploads -> {None} \cup 0..Size] /\ row'[u] = IF row[u] = None THEN None ELSE n
      /\ \A v \in Uploads \ {u} : row'[v] = row[v]
  BY <1>1, <1>2, <1>3 DEF DataType
<1>8. PartAt(u)'
  BY <1>1, <1>3, <1>5, <1>6 DEF PartAt, OnDisk
<1> QED BY <1>1, <1>2, <1>3, <1>4, <1>5, <1>6, <1>7, <1>8 DEF DataType

LEMMA Checkpoints ==
  ASSUME WholeInv, NEW u \in Uploads, NEW r \in Requests, Checkpoint(u, r)
  PROVE  WholeInv'
<1> DEFINE n == req[r].from + req[r].got
<1>1. /\ Working(u, r) /\ req[r].pc = "reading" /\ checkpoint(u, r)
      /\ UNCHANGED <<req, queue, browser, told, unlinking, overtaken, over>>
  BY DEF Checkpoint, notes, server
<1>2. /\ n \in 0..Size /\ row' \in [Uploads -> {None} \cup 0..Size] /\ safe' \in [Uploads -> 0..Size]
      /\ row'[u] = IF row[u] = None THEN None ELSE n
      /\ \A v \in Uploads \ {u} : row'[v] = row[v] /\ safe'[v] = safe[v]
      /\ UNCHANGED <<part, blob, file, beside>> /\ DOMAIN part = Uploads /\ DOMAIN blob = Uploads
      /\ part[u] = Upto(n) \/ (part[u] = Missing /\ row[u] = None)
      /\ row[u] # None => safe'[u] = n /\ row[u] \in req[r].from..n
      /\ PartAt(u)'
  BY <1>1, Checkpointed
<1>3. SafeAt(u) /\ WorkAt(r) /\ DataType /\ ReqOK(req[r]) /\ req[r].up = u /\ browser[u].pc # "new"
  BY <1>1, NobodyElse, Begun
<1>4. OnlyAt(u)
  <2>1. LineInv'
    BY <1>1 DEF WholeInv, LineInv, ReqType, QueueOK
  <2> QED BY <1>1, <1>2, <1>3, <2>1 DEF OnlyAt, DataType
<1>5. WorkAt(r)'
  <2>1. row[u] # None => n \in req[r].from..n
    BY <1>2, <1>3 DEF ReqOK, Requested
  <2> QED BY <1>1, <1>2, <1>3, <2>1 DEF WorkAt
<1>6. SafeAt(u)'
  <2>1. told[u] \in 0..Size /\ (u \notin overtaken /\ row[u] # None => told[u] <= row[u] /\ row[u] <= n)
    BY <1>2, <1>3 DEF SafeAt, DataType
  <2>2. u \notin overtaken /\ row[u] # None => told[u] <= n
    BY <1>2, <1>3, <2>1 DEF DataType
  <2> QED BY <1>1, <1>2, <2>2 DEF SafeAt
<1>7. req' = [req EXCEPT ![r] = req[r]]
  BY <1>1 DEF WholeInv, LineInv, ReqType
<1>8. Dropping(u)' => Dropping(u)
  BY <1>1 DEF Dropping
<1> QED BY <1>1, <1>2, <1>3, <1>4, <1>5, <1>6, <1>7, <1>8, ServerStep

\* The end of a PATCH's bytes: it is answered, or goes on to keep the file.
LEMMA ReadsAll ==
  ASSUME WholeInv, NEW u \in Uploads, NEW r \in Requests, ReadEnds(u, r)
  PROVE  WholeInv'
<1> DEFINE n == req[r].from + req[r].got
<1>1. Working(u, r) /\ req[r].pc = "reading" /\ UNCHANGED <<unlinking, overtaken, over>>
  BY DEF ReadEnds
<1>2. /\ PartAt(u) /\ SafeAt(u) /\ WorkAt(r) /\ DataType /\ ReqOK(req[r]) /\ req[r].up = u /\ browser[u].pc # "new"
      /\ req[r].kind = "PATCH"
  BY <1>1, NobodyElse, Begun DEF ReqOK, Active
<1>3. /\ n \in 0..Size /\ row' \in [Uploads -> {None} \cup 0..Size] /\ safe' \in [Uploads -> 0..Size]
      /\ row'[u] = IF row[u] = None THEN None ELSE n
      /\ \A v \in Uploads \ {u} : row'[v] = row[v] /\ safe'[v] = safe[v]
      /\ UNCHANGED <<part, blob, file, beside>> /\ DOMAIN part = Uploads /\ DOMAIN blob = Uploads
      /\ part[u] = Upto(n) \/ (part[u] = Missing /\ row[u] = None)
      /\ row[u] # None => row[u] \in req[r].from..n
      /\ PartAt(u)'
      /\ u \notin overtaken /\ row[u] # None => told[u] <= n /\ n <= safe'[u]
  <2>1. CASE req[r].got > 0
    <3>1. checkpoint(u, r)
      BY <2>1 DEF ReadEnds
    <3>2. u \notin overtaken /\ row[u] # None => told[u] <= row[u] /\ row[u] <= n /\ safe'[u] = n
      BY <1>1, <1>2, <3>1, Checkpointed DEF SafeAt
    <3>3. told[u] \in Nat /\ (row[u] # None => row[u] \in Nat) /\ n \in Nat
      BY <1>2, UploadAssumption DEF DataType, ReqOK, Requested
    <3>4. u \notin overtaken /\ row[u] # None => told[u] <= n /\ n <= safe'[u]
      BY <3>2, <3>3
    <3> QED BY <1>1, <3>1, <3>4, Checkpointed
  <2>2. CASE ~(req[r].got > 0)
    <3>1. UNCHANGED <<row, part, safe, blob, file, beside>>
      BY <2>2 DEF ReadEnds, db, disk
    <3>2. req[r].got = 0 /\ n = req[r].from /\ n \in 0..Size
      BY <1>2, <2>2, UploadAssumption DEF ReqOK, Requested
    <3>3. /\ part[u] = Upto(n) \/ (part[u] = Missing /\ row[u] = None)
          /\ row[u] # None => row[u] \in req[r].from..n /\ row[u] = n
      BY <1>1, <1>2, <3>2 DEF WorkAt
    <3>4. PartAt(u)'
      BY <1>2, <3>1 DEF PartAt, OnDisk
    <3>5. u \notin overtaken /\ row[u] # None => told[u] <= row[u] /\ row[u] <= safe[u]
      BY <1>1, <1>2, NobodyElse DEF SafeAt
    <3> QED BY <1>2, <3>1, <3>2, <3>3, <3>4, <3>5 DEF DataType
  <2> QED BY <2>1, <2>2
<1>4. CASE n # Size
  <2>1. Answer(r, "ok", n, FALSE)
    BY <1>4 DEF ReadEnds
  <2>2. SafeAt(u)'
    <3>1. told'[u] = told[u] \/ told'[u] = n
      <4>1. n \in 0..Size
        BY <1>3
      <4> HIDE DEF n
      <4> QED BY <1>1, <2>1, <4>1, AnswerAt
    <3>2. n <= n
      BY <1>3, UploadAssumption
    <3> QED BY <1>1, <1>3, <3>1, <3>2 DEF SafeAt
  <2> QED BY <1>1, <1>2, <1>3, <2>1, <2>2, AnswerStep
<1>5. CASE n = Size
  <2> DEFINE q == [req[r] EXCEPT !.pc = "keep"]
  <2>1. req' = [req EXCEPT ![r] = q] /\ UNCHANGED <<queue, browser, told>>
    BY <1>5 DEF ReadEnds
  <2>2. ReqOK(q) /\ q.pc = "keep" /\ q.up = u /\ q.from = req[r].from /\ q.got = req[r].got
    <3>1. "keep" \in Active \cup {"dropOld"}
      BY DEF Active
    <3> QED BY <1>2, <3>1, RequestGoesOn
  <2>3. LineInv' /\ req'[r] = q
    BY <1>1, <2>1, <2>2, GoesOn DEF WholeInv, InHand, Active, LineInv, ReqType
  <2>4. OnlyAt(u)
    BY <1>1, <1>2, <1>3, <2>1, <2>3 DEF OnlyAt, DataType
  <2>5. WorkAt(r)'
    <3>1. row'[u] = None \/ row'[u] \in req[r].from..n
      BY <1>2, <1>3 DEF ReqOK, Requested
    <3> QED BY <1>3, <1>5, <2>2, <2>3, <3>1 DEF WorkAt
  <2>6. SafeAt(u)'
    BY <1>1, <1>3, <2>1 DEF SafeAt
  <2>7. Dropping(u)' => Dropping(u)
    BY <1>1, <2>1, <2>2, <2>3 DEF Dropping, WholeInv, LineInv, ReqType
  <2> QED BY <1>1, <1>3, <2>1, <2>2, <2>4, <2>5, <2>6, <2>7, ServerStep DEF Active
<1> QED BY <1>4, <1>5

LEMMA Keeps ==
  ASSUME WholeInv, NEW u \in Uploads, NEW r \in Requests, keepUpload(u, r)
  PROVE  WholeInv'
<1> DEFINE q == [req[r] EXCEPT !.pc = "finish"]
<1>1. /\ Working(u, r) /\ req[r].pc = "keep" /\ part[u] # Missing /\ req' = [req EXCEPT ![r] = q]
      /\ UNCHANGED <<queue, browser, told, unlinking, overtaken, over, row, file, beside>>
  BY DEF keepUpload, notes, db
<1>2. /\ SafeAt(u) /\ WorkAt(r) /\ DataType /\ ReqOK(req[r]) /\ req[r].up = u /\ browser[u].pc # "new"
      /\ req[r].kind = "PATCH"
  BY <1>1, NobodyElse, Begun DEF ReqOK, Active
<1>3. ReqOK(q) /\ q.pc = "finish" /\ q.up = u
  <2>1. "finish" \in Active \cup {"dropOld"}
    BY DEF Active
  <2> QED BY <1>2, <2>1, RequestGoesOn
<1>4. LineInv' /\ req'[r] = q
  BY <1>1, <1>3, GoesOn DEF WholeInv, InHand, Active, LineInv, ReqType
<1>5. /\ part' = [part EXCEPT ![u] = Missing] /\ safe' = [safe EXCEPT ![u] = 0]
      /\ blob' = [blob EXCEPT ![u] = part[u]] /\ 0 \in 0..Size
  BY UploadAssumption DEF keepUpload
<1>6. OnlyAt(u)
  BY <1>1, <1>2, <1>4, <1>5 DEF OnlyAt, DataType
<1>7. part'[u] = Missing /\ safe'[u] = 0 /\ blob'[u] = part[u]
  BY <1>2, <1>5 DEF DataType
<1>8. PartAt(u)'
  BY <1>7 DEF PartAt, OnDisk
<1>9. WorkAt(r)'
  <2>1. part[u] = Whole
    BY <1>1, <1>2 DEF WorkAt, Upto, Whole
  <2> QED BY <1>3, <1>4, <1>7, <2>1 DEF WorkAt
<1>10. SafeAt(u)'
  BY <1>1, <1>2, <1>3, <1>4 DEF SafeAt
<1>11. Dropping(u)' => Dropping(u)
  BY <1>1, <1>3, <1>4 DEF Dropping, WholeInv, LineInv, ReqType
<1>12. \A v \in Uploads : Closed(v) => blob'[v] = blob[v]
  BY <1>1, <1>2, <1>5 DEF Closed, Active, DataType
<1> QED BY <1>1, <1>3, <1>6, <1>8, <1>9, <1>10, <1>11, <1>12, ServerStep DEF Active

LEMMA Refuses ==
  ASSUME WholeInv, NEW u \in Uploads, NEW r \in Requests, FinishRefused(u, r)
  PROVE  WholeInv'
<1>1. /\ Working(u, r) /\ req[r].pc = "finish" /\ Answer(r, "error", 0, FALSE)
      /\ blob' = [blob EXCEPT ![u] = Missing] /\ row' = [row EXCEPT ![u] = None]
      /\ UNCHANGED <<file, beside, part, safe, unlinking, overtaken, over>>
  BY DEF FinishRefused, endUpload
<1>0. 0 \in 0..Size
  BY UploadAssumption
<1>2. PartAt(u) /\ DataType /\ req[r].up = u
  BY <1>1, NobodyElse
<1>3. /\ row' \in [Uploads -> {None} \cup 0..Size] /\ row'[u] = None /\ \A v \in Uploads \ {u} : row'[v] = row[v]
      /\ DOMAIN blob' = Uploads /\ \A v \in Uploads \ {u} : blob'[v] = blob[v]
  BY <1>1, <1>2 DEF DataType
<1>4. PartAt(u)' /\ SafeAt(u)'
  BY <1>1, <1>2, <1>3 DEF PartAt, SafeAt, OnDisk
<1>5. Closed(u) => blob'[u] = blob[u]
  BY <1>1, <1>2 DEF Closed, Active
<1> QED BY <1>0, <1>1, <1>2, <1>3, <1>4, <1>5, AnswerStep DEF DataType

LEMMA Unlinks ==
  ASSUME WholeInv, NEW u \in Uploads, NEW r \in Requests, Unlink(u, r)
  PROVE  WholeInv'
<1>1. /\ Working(u, r) /\ req[r].pc = "unlink" /\ Answer(r, "ok", 0, FALSE)
      /\ part' = [part EXCEPT ![u] = Missing] /\ safe' = [safe EXCEPT ![u] = 0]
      /\ UNCHANGED <<row, file, beside, blob, unlinking, overtaken, over>>
  BY DEF Unlink, db
<1>0. 0 \in 0..Size
  BY UploadAssumption
<1>2. DataType /\ req[r].up = u /\ Dropping(u) /\ row[u] = None
  <2>1. DataType /\ req[r].up = u /\ Dropping(u)
    BY <1>1, NobodyElse DEF Dropping
  <2> QED BY <2>1 DEF WholeInv, PlacesOK, ClosedOK, Closed
<1>3. /\ safe' \in [Uploads -> 0..Size] /\ safe'[u] = 0 /\ \A v \in Uploads \ {u} : safe'[v] = safe[v]
      /\ DOMAIN part' = Uploads /\ part'[u] = Missing /\ \A v \in Uploads \ {u} : part'[v] = part[v]
  BY <1>0, <1>1, <1>2 DEF DataType
<1>4. PartAt(u)' /\ SafeAt(u)'
  BY <1>1, <1>2, <1>3 DEF PartAt, SafeAt, OnDisk
<1> QED BY <1>0, <1>1, <1>2, <1>3, <1>4, AnswerStep DEF DataType

\* DELETE takes the record while nobody else works, so nothing can have come of the upload, or come of it later.
LEMMA DeletesRow ==
  ASSUME WholeInv, NEW u \in Uploads, NEW r \in Requests, DeleteRow(u, r)
  PROVE  WholeInv'
<1> DEFINE q == [req[r] EXCEPT !.pc = "unlink"]
<1>1. /\ Working(u, r) /\ req[r].pc = "waiting" /\ row[u] # None /\ req[r].kind = "DELETE"
      /\ req' = [req EXCEPT ![r] = q] /\ row' = [row EXCEPT ![u] = None]
      /\ UNCHANGED <<queue, browser, told, unlinking, overtaken, over, file, beside, part, safe, blob>>
  BY DEF DeleteRow, notes, uploadFor, endUpload, disk
<1>2. PartAt(u) /\ DataType /\ ReqOK(req[r]) /\ req[r].up = u /\ browser[u].pc # "new"
  BY <1>1, NobodyElse, Begun
<1>3. ReqOK(q) /\ q.pc = "unlink" /\ q.up = u
  <2>1. req[r] \in Requested
    BY <1>2 DEF ReqOK
  <2>2. q \in Requested /\ q.pc = "unlink"
    BY <2>1 DEF Requested, Phases, InHand
  <2>3. q.from = req[r].from /\ q.got = req[r].got /\ q.to = req[r].to /\ q.kind = req[r].kind /\ q.up = req[r].up
    BY <2>1 DEF Requested
  <2> QED BY <1>1, <1>2, <2>2, <2>3 DEF ReqOK, Active
<1>4. LineInv' /\ req'[r] = q /\ \A p \in Requests \ {r} : req'[p] = req[p]
  BY <1>1, <1>3, GoesOn DEF WholeInv, InHand, LineInv, ReqType
<1>5. row' \in [Uploads -> {None} \cup 0..Size] /\ row'[u] = None /\ \A v \in Uploads \ {u} : row'[v] = row[v]
  BY <1>1, <1>2 DEF DataType
<1>6. OnlyAt(u)
  BY <1>1, <1>2, <1>4, <1>5 DEF OnlyAt, DataType
<1>7. PartAt(u)' /\ SafeAt(u)' /\ WorkAt(r)'
  BY <1>1, <1>2, <1>3, <1>4, <1>5 DEF PartAt, SafeAt, WorkAt, OnDisk
<1>8. ~Placed(u)
  BY <1>1 DEF WholeInv, PlacesOK, ClosedOK, Closed
<1>9. \A p \in Requests \ {r} : req[p].up = u => req[p].pc \notin Active
  BY <1>1, WorkerFacts DEF WholeInv, InHand
<1>10. Closed(u)' /\ u \notin beside /\ over[u] = NoReq
  BY <1>1, <1>2, <1>3, <1>4, <1>5, <1>8, <1>9 DEF Closed, Placed, Active
<1> QED BY <1>1, <1>3, <1>6, <1>7, <1>10, ServerStep DEF Active

-----------------------------------------------------------------------------
\* An upload's bytes become a file: nothing had come of it yet, and nothing will come of it again.
LEMMA NotPlacedYet ==
  ASSUME WholeInv, NEW u \in Uploads, NEW r \in Requests, Working(u, r), req[r].pc = "finish"
  PROVE  ~Placed(u) /\ ~Dropping(u) /\ blob[u] = Whole
<1>1. ~Closed(u)
  BY WorkerFacts DEF WholeInv, Closed, Active
<1> QED BY <1>1, NobodyElse DEF WholeInv, PlacesOK, ClosedOK, WorkAt

LEMMA MakesFile ==
  ASSUME WholeInv, NEW u \in Uploads, NEW r \in Requests, FinishBeside(u, r)
  PROVE  WholeInv'
<1>1. /\ Working(u, r) /\ req[r].pc = "finish" /\ Answer(r, "ok", Size, TRUE)
      /\ beside' = beside \cup {u} /\ row' = [row EXCEPT ![u] = None]
      /\ UNCHANGED <<file, blob, part, safe, unlinking, overtaken, over>>
  BY DEF FinishBeside, endUpload, disk
<1>2. PartAt(u) /\ DataType /\ ReqOK(req[r]) /\ req[r].up = u /\ Size \in 0..Size /\ req[r].kind = "PATCH"
  BY <1>1, NobodyElse, UploadAssumption DEF ReqOK, Active
<1>3. LineInv' /\ req' = [req EXCEPT ![r] = Idle] /\ req'[r] = Idle /\ \A p \in Requests \ {r} : req'[p] = req[p]
  BY <1>1, Answering DEF WholeInv, LineInv, ReqType
<1>4. row' \in [Uploads -> {None} \cup 0..Size] /\ row'[u] = None /\ \A v \in Uploads \ {u} : row'[v] = row[v]
  BY <1>1, <1>2 DEF DataType
<1>5. OnlyAt(u)
  <2>1. /\ browser' \in [Uploads -> Browser] /\ told' \in [Uploads -> 0..Size] /\ browser'[u].pc # "new"
        /\ \A v \in Uploads \ {u} : browser'[v] = browser[v] /\ told'[v] = told[v]
    BY <1>1, <1>2, AnswerAt
  <2>2. DataType'
    BY <1>1, <1>2, <1>4, <2>1 DEF DataType
  <2> QED BY <1>1, <1>3, <1>4, <2>1, <2>2 DEF OnlyAt
<1>6. Idle.up = NoReq /\ Idle.pc = "free"
  BY DEF Idle
<1>7. PartAt(u)' /\ SafeAt(u)' /\ WorkAt(r)'
  BY <1>1, <1>2, <1>3, <1>4, <1>6 DEF PartAt, SafeAt, WorkAt, OnDisk
<1>8. BytesOK'
  BY <1>1, <1>3, <1>5, <1>6, <1>7, ServerBytes
<1>9. \A v \in Uploads : Closed(v) => Closed(v)'
  BY <1>1, <1>3, <1>5, <1>6, ServerCloses DEF Active
<1>10. Closed(u)'
  <2>1. \A p \in Requests \ {r} : req[p].up = u => req[p].pc \notin Active
    BY <1>1, WorkerFacts DEF WholeInv, InHand
  <2> QED BY <1>3, <1>4, <1>5, <1>6, <2>1 DEF Closed, OnlyAt, Active
<1>11. ~Placed(u) /\ ~Dropping(u) /\ blob[u] = Whole
  BY <1>1, NotPlacedYet
<1>12. \A v \in Uploads : Dropping(v)' => Dropping(v)
  <2>1. browser'[u].pc = "cancelled" => browser[u].pc = "cancelled"
    BY <1>1, <1>2, AnswerAt
  <2> QED BY <1>3, <1>5, <1>6, <2>1 DEF Dropping, OnlyAt
<1>13. ClosedOK'
  BY <1>1, <1>9, <1>10, <1>11, <1>12 DEF WholeInv, PlacesOK, ClosedOK, Placed
<1>14. OnceOnly'
  BY <1>1, <1>11 DEF WholeInv, PlacesOK, OnceOnly, Placed
<1>15. FilesWhole'
  BY <1>1, <1>11 DEF WholeInv, PlacesOK, FilesWhole, Shown
<1> QED BY <1>3, <1>5, <1>8, <1>13, <1>14, <1>15 DEF WholeInv, PlacesOK, OnlyAt

LEMMA ReplacesFile ==
  ASSUME WholeInv, NEW u \in Uploads, NEW r \in Requests, FinishReplace(u, r)
  PROVE  WholeInv'
<1> DEFINE q == [req[r] EXCEPT !.pc = "dropOld"]
<1>1. /\ Working(u, r) /\ req[r].pc = "finish" /\ req' = [req EXCEPT ![r] = q]
      /\ row' = [row EXCEPT ![u] = None] /\ over' = [over EXCEPT ![u] = file.blob]
      /\ file' = [file EXCEPT !.blob = u, !.version = @ + 1]
      /\ UNCHANGED <<queue, browser, told, unlinking, overtaken, beside, blob, part, safe>>
  BY DEF FinishReplace, endUpload, disk
<1>2. /\ PartAt(u) /\ DataType /\ ReqOK(req[r]) /\ req[r].up = u /\ req[r].kind = "PATCH" /\ browser[u].pc # "new"
  BY <1>1, NobodyElse, Begun DEF ReqOK, Active
<1>3. ReqOK(q) /\ q.pc = "dropOld" /\ q.up = u
  BY <1>2, RequestGoesOn
<1>4. LineInv' /\ req'[r] = q /\ \A p \in Requests \ {r} : req'[p] = req[p]
  BY <1>1, <1>3, GoesOn DEF WholeInv, InHand, LineInv, ReqType
<1>5. row' \in [Uploads -> {None} \cup 0..Size] /\ row'[u] = None /\ \A v \in Uploads \ {u} : row'[v] = row[v]
  BY <1>1, <1>2 DEF DataType
<1>6. /\ DOMAIN over' = Uploads /\ over'[u] = file.blob /\ \A v \in Uploads \ {u} : over'[v] = over[v]
      /\ file'.blob = u /\ {"blob", "version", "live"} \subseteq DOMAIN file'
  BY <1>1, <1>2 DEF DataType
<1>7. OnlyAt(u)
  BY <1>1, <1>2, <1>4, <1>5, <1>6 DEF OnlyAt, DataType
<1>8. PartAt(u)' /\ SafeAt(u)' /\ WorkAt(r)'
  BY <1>1, <1>2, <1>3, <1>4, <1>5 DEF PartAt, SafeAt, WorkAt, OnDisk
<1>9. BytesOK'
  BY <1>1, <1>3, <1>7, <1>8, ServerBytes
<1>10. \A v \in Uploads : Closed(v) => Closed(v)'
  BY <1>1, <1>3, <1>7, ServerCloses DEF Active
<1>11. Closed(u)'
  <2>1. \A p \in Requests \ {r} : req[p].up = u => req[p].pc \notin Active
    BY <1>1, WorkerFacts DEF WholeInv, InHand
  <2> QED BY <1>1, <1>2, <1>3, <1>4, <1>5, <2>1 DEF Closed, Active
<1>12. ~Placed(u) /\ ~Dropping(u) /\ blob[u] = Whole
  BY <1>1, NotPlacedYet
<1>13. \A v \in Uploads : Dropping(v)' => Dropping(v)
  BY <1>1, <1>3, <1>4 DEF Dropping
<1>14. \A v \in Uploads \ {u} : Placed(v)' => Placed(v)
  BY <1>1, <1>6 DEF Placed
<1>15. ClosedOK'
  BY <1>1, <1>6, <1>10, <1>11, <1>12, <1>13, <1>14 DEF WholeInv, PlacesOK, ClosedOK
<1>16. OnceOnly'
  BY <1>1, <1>6, <1>12 DEF WholeInv, PlacesOK, OnceOnly, Placed
<1>17. FilesWhole'
  BY <1>1, <1>6, <1>12 DEF WholeInv, PlacesOK, FilesWhole, Shown
<1> QED BY <1>4, <1>7, <1>9, <1>15, <1>16, <1>17 DEF WholeInv, PlacesOK, OnlyAt

\* Only bytes that were replaced are dropped.
LEMMA DropsOld ==
  ASSUME WholeInv, NEW u \in Uploads, NEW r \in Requests, DropOld(u, r)
  PROVE  WholeInv'
<1>1. /\ Working(u, r) /\ req[r].pc = "dropOld" /\ Answer(r, "ok", Size, TRUE)
      /\ blob' = [v \in Uploads |-> IF v = over[u] THEN Missing ELSE blob[v]]
      /\ UNCHANGED <<row, file, beside, part, safe, unlinking, overtaken, over>>
  BY DEF DropOld, db
<1>2. PartAt(u) /\ SafeAt(u) /\ DataType /\ ReqOK(req[r]) /\ req[r].up = u /\ Size \in 0..Size /\ req[r].kind = "PATCH"
  BY <1>1, NobodyElse, UploadAssumption DEF ReqOK
<1>3. LineInv' /\ req' = [req EXCEPT ![r] = Idle] /\ req'[r] = Idle /\ \A p \in Requests \ {r} : req'[p] = req[p]
  BY <1>1, Answering DEF WholeInv, LineInv, ReqType
<1>4. Idle.up = NoReq /\ Idle.pc = "free"
  BY DEF Idle
<1>5. \A v \in Uploads : v # over[u] => blob'[v] = blob[v]
  BY <1>1
<1>6. over[u] \in Uploads => Closed(over[u])
  BY DEF WholeInv, PlacesOK, ClosedOK, Placed
<1>7. OnlyAt(u)
  <2>1. /\ browser' \in [Uploads -> Browser] /\ told' \in [Uploads -> 0..Size] /\ browser'[u].pc # "new"
        /\ \A v \in Uploads \ {u} : browser'[v] = browser[v] /\ told'[v] = told[v]
    BY <1>1, <1>2, AnswerAt
  <2>2. DataType'
    BY <1>1, <1>2, <2>1 DEF DataType
  <2> QED BY <1>1, <1>3, <1>5, <1>6, <2>1, <2>2 DEF OnlyAt
<1>8. PartAt(u)' /\ SafeAt(u)' /\ WorkAt(r)'
  <2>1. row[u] = None
    BY <1>1, <1>2, NobodyElse DEF WorkAt
  <2> QED BY <1>1, <1>2, <1>3, <1>4, <2>1 DEF PartAt, SafeAt, WorkAt, OnDisk
<1>9. BytesOK'
  BY <1>1, <1>3, <1>4, <1>7, <1>8, ServerBytes
<1>10. \A v \in Uploads : Closed(v) => Closed(v)'
  BY <1>1, <1>3, <1>4, <1>7, ServerCloses DEF Active
<1>11. \A v \in Uploads : Dropping(v)' => Dropping(v)
  <2>1. browser'[u].pc = "cancelled" => browser[u].pc = "cancelled"
    BY <1>1, <1>2, AnswerAt
  <2> QED BY <1>3, <1>4, <1>7, <2>1 DEF Dropping, OnlyAt
<1>12. ClosedOK' /\ OnceOnly'
  BY <1>1, <1>10, <1>11 DEF WholeInv, PlacesOK, ClosedOK, OnceOnly, Placed
<1>13. FilesWhole'
  <2>1. over[u] \notin Shown
    BY <1>2 DEF WholeInv, PlacesOK, OnceOnly, Shown, DataType
  <2>2. Shown' = Shown /\ Shown \subseteq Uploads
    BY <1>1, <1>2 DEF Shown, DataType
  <2> QED BY <1>5, <2>1, <2>2 DEF WholeInv, PlacesOK, FilesWhole
<1> QED BY <1>7, <1>9, <1>12, <1>13 DEF WholeInv, PlacesOK, OnlyAt

-----------------------------------------------------------------------------
(***************************************************************************)
(* The browsers, and what happens around the uploads.                      *)
(***************************************************************************)
\* Nothing happens to the bytes; a record may go, and nobody begins to work.
LEMMA Quietly ==
  ASSUME WholeInv, LineInv', DataType', UNCHANGED <<part, safe, blob, beside, over, told, overtaken>>,
         file'.blob = file.blob,
         \A u \in Uploads : /\ row'[u] = row[u] \/ row'[u] = None
                            /\ u \in unlinking' => row'[u] = None /\ browser'[u].pc # "new"
                            /\ browser'[u].pc = "new" => browser[u].pc = "new" /\ \A r \in Requests : req'[r].up # u
                            /\ browser'[u].pc = "cancelled" => browser[u].pc = "cancelled",
         \A r \in Requests : req[r].pc \in InHand \/ req'[r].pc \in InHand =>
              /\ req'[r].pc = req[r].pc /\ req'[r].up = req[r].up
              /\ req'[r].from = req[r].from /\ req'[r].got = req[r].got
  PROVE  WholeInv'
<1>1. ASSUME NEW r \in Requests PROVE WorkAt(r)'
  <2>1. CASE req'[r].pc \in InHand
    <3>1. /\ WorkAt(r) /\ req'[r].pc = req[r].pc /\ req'[r].up = req[r].up
          /\ req'[r].from = req[r].from /\ req'[r].got = req[r].got /\ req[r].up \in Uploads
      BY <2>1 DEF WholeInv, BytesOK, LineInv, ReqType, ReqOK, InHand, Active
    <3>2. row'[req[r].up] = row[req[r].up] \/ row'[req[r].up] = None
      BY <3>1
    <3> QED BY <3>1, <3>2 DEF WorkAt
  <2>2. CASE req'[r].pc \notin InHand
    BY <2>2 DEF WorkAt, InHand, Active
  <2> QED BY <2>1, <2>2
<1>2. ASSUME NEW u \in Uploads PROVE PartAt(u)' /\ SafeAt(u)' /\ FreshAt(u)'
  <2>1. PartAt(u) /\ SafeAt(u) /\ FreshAt(u)
    BY DEF WholeInv, BytesOK
  <2>2. PartAt(u)' /\ FreshAt(u)'
    BY <2>1 DEF PartAt, FreshAt, OnDisk
  <2>3. SafeAt(u)'
    BY <2>1 DEF SafeAt, InHand, Active
  <2> QED BY <2>2, <2>3
<1>3. \A u \in Uploads : Closed(u) => Closed(u)'
  BY DEF Closed, InHand
<1>4. \A u \in Uploads : Dropping(u)' => Dropping(u)
  BY DEF Dropping, InHand
<1>5. PlacesOK'
  BY <1>3, <1>4, PlacesKept
<1> QED BY <1>1, <1>2, <1>5 DEF WholeInv, BytesOK

\* A request on its way, as Fly and Cancel send it.
Flight(u, method, from, to) == [Idle EXCEPT !.pc = "flying", !.kind = method, !.up = u, !.from = from, !.to = to]

LEMMA Flown ==
  ASSUME NEW u \in Uploads, NEW method \in {"PATCH", "HEAD", "DELETE"},
         NEW from \in 0..Size, NEW to \in 0..Size, from <= to
  PROVE  /\ ReqOK(Flight(u, method, from, to)) /\ Flight(u, method, from, to).pc = "flying"
         /\ Flight(u, method, from, to).up = u
<1> DEFINE q == Flight(u, method, from, to)
<1>1. q \in Requested
  <2>1. Idle \in Requested
    BY UploadAssumption DEF Idle, Requested, Phases
  <2>2. \A c \in Requested : [c EXCEPT !.pc = "flying", !.kind = method] \in Requested
    BY DEF Requested, Phases
  <2>3. \A c \in Requested : [c EXCEPT !.up = u, !.from = from] \in Requested
    BY DEF Requested
  <2>4. \A c \in Requested : [c EXCEPT !.to = to] \in Requested
    BY DEF Requested
  <2> QED BY <2>1, <2>2, <2>3, <2>4 DEF Flight
<1>2. q.pc = "flying" /\ q.up = u /\ q.from = from /\ q.to = to /\ q.got = 0
  BY DEF Idle, Flight
<1>3. from + 0 <= to
  BY UploadAssumption
<1> HIDE DEF q
<1>4. ReqOK(q)
  BY <1>1, <1>2, <1>3 DEF ReqOK, Active
<1> QED BY <1>2, <1>4 DEF q

LEMMA Flies ==
  ASSUME WholeInv, NEW u \in Uploads, NEW r \in Requests, Send(u, r) \/ Ask(u, r)
  PROVE  WholeInv'
<1>1. DataType /\ LineInv /\ browser[u] \in Browser /\ req[r].pc = "free" /\ browser[u].pc # "new"
  BY DEF WholeInv, DataType, Send, Ask, Fly
<1>2. \E method \in {"PATCH", "HEAD"} : Fly(u, r, method)
  BY DEF Send, Ask
<1>3. /\ browser' = [browser EXCEPT ![u] = [browser[u] EXCEPT !.pc = "wait", !.req = r]]
      /\ UNCHANGED <<row, file, beside, part, safe, blob, queue, unlinking, told, overtaken, over>>
  BY <1>1, <1>2 DEF Send, Ask, Fly, db, disk, notes, DataType, Browser
<1>4. [browser[u] EXCEPT !.pc = "wait", !.req = r] \in Browser /\ [browser[u] EXCEPT !.pc = "wait", !.req = r].pc = "wait"
  BY <1>1 DEF Browser
<1>5. browser' \in [Uploads -> Browser] /\ browser'[u].pc = "wait" /\ \A v \in Uploads \ {u} : browser'[v] = browser[v]
  BY <1>1, <1>3, <1>4 DEF DataType
<1>6. PICK method \in {"PATCH", "HEAD"} : Fly(u, r, method)
  BY <1>2
<1> DEFINE to == IF browser[u].offset + Piece < Size THEN browser[u].offset + Piece ELSE Size
           q == Flight(u, method, browser[u].offset, to)
<1>7. browser[u].offset \in 0..Size /\ to \in 0..Size /\ browser[u].offset <= to
  BY <1>1, UploadAssumption DEF Browser
<1>8. req' = [req EXCEPT ![r] = q]
  BY <1>6 DEF Fly, Flight
<1>9. ReqOK(q) /\ q.pc = "flying" /\ q.up = u
  <2>1. method \in {"PATCH", "HEAD", "DELETE"}
    BY <1>6
  <2> HIDE DEF to
  <2> QED BY <1>1, <1>7, <2>1, Flown
<1> HIDE DEF q, to
<1>10. req' \in [Requests -> Requested] /\ req'[r] = q /\ \A p \in Requests \ {r} : req'[p] = req[p]
  BY <1>1, <1>8, <1>9 DEF LineInv, ReqType, ReqOK
<1>11. LineInv'
  BY <1>1, <1>3, <1>9, <1>10, Marked DEF LineInv, ReqType
<1>12. DataType'
  BY <1>1, <1>3, <1>5 DEF DataType
<1>13. \A v \in Uploads : FreshAt(v)
  BY DEF WholeInv, BytesOK
<1>14. \A v \in Uploads : /\ row'[v] = row[v] /\ (v \in unlinking' => row'[v] = None /\ browser'[v].pc # "new")
                          /\ (browser'[v].pc = "new" => browser[v].pc = "new" /\ \A p \in Requests : req'[p].up # v)
                          /\ (browser'[v].pc = "cancelled" => browser[v].pc = "cancelled")
  BY <1>1, <1>3, <1>5, <1>9, <1>10, <1>13 DEF FreshAt
<1>15. \A p \in Requests : req[p].pc \in InHand \/ req'[p].pc \in InHand => req'[p] = req[p]
  BY <1>1, <1>9, <1>10 DEF InHand, Active
<1> QED BY <1>3, <1>11, <1>12, <1>14, <1>15, Quietly

LEMMA Drops ==
  ASSUME WholeInv, NEW u \in Uploads, Drop(u)
  PROVE  WholeInv'
<1> DEFINE r == browser[u].req
<1>1. DataType /\ LineInv /\ browser[u] \in Browser /\ browser[u].pc = "wait"
  BY DEF WholeInv, DataType, Drop
<1>2. /\ browser' = [browser EXCEPT ![u] = Failed(u, req[r].kind)]
      /\ UNCHANGED <<row, file, beside, part, safe, blob, queue, unlinking, told, overtaken, over>>
  BY DEF Drop, db, disk, notes
<1>3. Failed(u, req[r].kind) \in Browser /\ Failed(u, req[r].kind).pc \in {"send", "failed", "ask"}
  BY <1>1, FailedType
<1>4. /\ browser' \in [Uploads -> Browser] /\ browser'[u].pc \in {"send", "failed", "ask"}
      /\ \A v \in Uploads \ {u} : browser'[v] = browser[v]
  BY <1>1, <1>2, <1>3 DEF DataType
<1>5. ASSUME NEW p \in Requests
      PROVE  /\ ReqOK(req'[p])
             /\ \/ /\ req'[p].pc = req[p].pc /\ req'[p].up = req[p].up
                   /\ req'[p].from = req[p].from /\ req'[p].got = req[p].got
                \/ req[p].pc = "flying" /\ req'[p].pc = "free" /\ req'[p].up = NoReq
  <2>1. ReqOK(req[p]) /\ req[p] \in Requested
    BY <1>1 DEF LineInv, ReqType, ReqOK
  <2>2. \/ req'[p] = req[p] \/ req'[p] = [req[p] EXCEPT !.cut = TRUE]
        \/ req[p].pc = "flying" /\ req'[p] = Idle
    BY <1>1 DEF Drop, LineInv, ReqType
  <2>3. CASE req'[p] = [req[p] EXCEPT !.cut = TRUE]
    <3>1. ReqOK(req'[p])
      BY <2>1, <2>3, RequestMarks
    <3>2. /\ req'[p].pc = req[p].pc /\ req'[p].up = req[p].up
          /\ req'[p].from = req[p].from /\ req'[p].got = req[p].got
      BY <2>1, <2>3 DEF Requested
    <3> QED BY <3>1, <3>2
  <2>4. CASE req[p].pc = "flying" /\ req'[p] = Idle
    <3>1. ReqOK(Idle) /\ Idle.pc = "free" /\ Idle.up = NoReq
      BY UploadAssumption DEF ReqOK, Idle, Requested, Phases, InHand, Active
    <3> QED BY <2>4, <3>1
  <2> QED BY <2>1, <2>2, <2>3, <2>4
<1>6. req' \in [Requests -> Requested]
  <2>1. req' = [p \in Requests |-> req'[p]]
    BY <1>1 DEF Drop, LineInv, ReqType
  <2>2. \A p \in Requests : req'[p] \in Requested
    BY <1>5 DEF ReqOK
  <2> QED BY <2>1, <2>2
<1>7. LineInv'
  BY <1>1, <1>2, <1>5, <1>6, Marked
<1>8. DataType'
  BY <1>1, <1>2, <1>4 DEF DataType
<1>9. \A v \in Uploads : FreshAt(v)
  BY DEF WholeInv, BytesOK
<1>10. \A v \in Uploads : /\ row'[v] = row[v] /\ (v \in unlinking' => row'[v] = None /\ browser'[v].pc # "new")
                          /\ (browser'[v].pc = "new" => browser[v].pc = "new" /\ \A p \in Requests : req'[p].up # v)
                          /\ (browser'[v].pc = "cancelled" => browser[v].pc = "cancelled")
  BY <1>1, <1>2, <1>4, <1>5, <1>9, UploadAssumption DEF FreshAt, NoReq
<1>11. \A p \in Requests : req[p].pc \in InHand \/ req'[p].pc \in InHand =>
         /\ req'[p].pc = req[p].pc /\ req'[p].up = req[p].up
         /\ req'[p].from = req[p].from /\ req'[p].got = req[p].got
  BY <1>5 DEF InHand, Active
<1> QED BY <1>2, <1>7, <1>8, <1>10, <1>11, Quietly

LEMMA FlownToCancel ==
  ASSUME NEW u \in Uploads
  PROVE  LET q == [Idle EXCEPT !.pc = "flying", !.kind = "DELETE", !.up = u] IN
         ReqOK(q) /\ q.pc = "flying" /\ q.up = u
<1> DEFINE q == [Idle EXCEPT !.pc = "flying", !.kind = "DELETE", !.up = u]
<1>1. q \in Requested
  <2>1. Idle \in Requested
    BY UploadAssumption DEF Idle, Requested, Phases
  <2>2. \A c \in Requested : [c EXCEPT !.pc = "flying", !.kind = "DELETE"] \in Requested
    BY DEF Requested, Phases
  <2>3. \A c \in Requested : [c EXCEPT !.up = u] \in Requested
    BY DEF Requested
  <2> QED BY <2>1, <2>2, <2>3
<1>2. q.pc = "flying" /\ q.up = u /\ q.from = 0 /\ q.to = 0 /\ q.got = 0
  BY DEF Idle
<1> HIDE DEF q
<1>3. ReqOK(q)
  BY <1>1, <1>2 DEF ReqOK, Active
<1> QED BY <1>2, <1>3 DEF q

LEMMA Cancels ==
  ASSUME WholeInv, NEW u \in Uploads, NEW r \in Requests, Cancel(u, r)
  PROVE  WholeInv'
<1> DEFINE q == [Idle EXCEPT !.pc = "flying", !.kind = "DELETE", !.up = u]
<1>1. DataType /\ LineInv /\ browser[u] \in Browser /\ req[r].pc = "free" /\ browser[u].pc # "new" /\ 0 \in 0..Size
  BY UploadAssumption DEF WholeInv, DataType, Cancel
<1>2. /\ browser' = [browser EXCEPT ![u].pc = "stopped", ![u].req = r]
      /\ UNCHANGED <<row, file, beside, part, safe, blob, queue, unlinking, told, overtaken, over>>
  BY DEF Cancel, db, disk, notes
<1>3. [browser[u] EXCEPT !.pc = "stopped", !.req = r] \in Browser
      /\ [browser[u] EXCEPT !.pc = "stopped", !.req = r].pc = "stopped"
  BY <1>1 DEF Browser, Ended
<1>4. /\ browser' \in [Uploads -> Browser] /\ browser'[u].pc = "stopped"
      /\ \A v \in Uploads \ {u} : browser'[v] = browser[v]
  BY <1>1, <1>2, <1>3 DEF DataType
<1>5. ReqOK(q) /\ q.pc = "flying" /\ q.up = u
  BY FlownToCancel
<1>6. req' = [[p \in Requests |-> IF p = browser[u].req THEN [req[p] EXCEPT !.cut = TRUE] ELSE req[p]] EXCEPT ![r] = q]
  BY DEF Cancel
<1> HIDE DEF q
<1>7. ASSUME NEW p \in Requests
      PROVE  /\ ReqOK(req'[p])
             /\ \/ /\ p # r /\ req'[p].pc = req[p].pc /\ req'[p].up = req[p].up
                   /\ req'[p].from = req[p].from /\ req'[p].got = req[p].got
                \/ p = r /\ req[p].pc = "free" /\ req'[p].pc = "flying" /\ req'[p].up = u
  <2>1. ReqOK(req[p]) /\ req[p] \in Requested
    BY <1>1 DEF LineInv, ReqType, ReqOK
  <2>2. \/ p = r /\ req'[p] = q
        \/ p # r /\ req'[p] = req[p]
        \/ p # r /\ req'[p] = [req[p] EXCEPT !.cut = TRUE]
    BY <1>6
  <2>3. CASE p # r /\ req'[p] = [req[p] EXCEPT !.cut = TRUE]
    <3>1. ReqOK(req'[p])
      BY <2>1, <2>3, RequestMarks
    <3>2. /\ req'[p].pc = req[p].pc /\ req'[p].up = req[p].up
          /\ req'[p].from = req[p].from /\ req'[p].got = req[p].got
      BY <2>1, <2>3 DEF Requested
    <3> QED BY <2>3, <3>1, <3>2
  <2>4. CASE p = r /\ req'[p] = q
    BY <1>1, <1>5, <2>4
  <2>5. CASE p # r /\ req'[p] = req[p]
    BY <2>1, <2>5
  <2> QED BY <2>2, <2>3, <2>4, <2>5
<1>8. req' \in [Requests -> Requested]
  <2>1. req' = [p \in Requests |-> req'[p]]
    BY <1>6
  <2>2. \A p \in Requests : req'[p] \in Requested
    BY <1>7 DEF ReqOK
  <2> QED BY <2>1, <2>2
<1>9. LineInv'
  BY <1>1, <1>2, <1>7, <1>8, Marked
<1>10. DataType'
  BY <1>1, <1>2, <1>4 DEF DataType
<1>11. \A v \in Uploads : FreshAt(v)
  BY DEF WholeInv, BytesOK
<1>12. \A v \in Uploads : /\ row'[v] = row[v] /\ (v \in unlinking' => row'[v] = None /\ browser'[v].pc # "new")
                          /\ (browser'[v].pc = "new" => browser[v].pc = "new" /\ \A p \in Requests : req'[p].up # v)
                          /\ (browser'[v].pc = "cancelled" => browser[v].pc = "cancelled")
  BY <1>1, <1>2, <1>4, <1>7, <1>11 DEF FreshAt
<1>13. \A p \in Requests : req[p].pc \in InHand \/ req'[p].pc \in InHand =>
         /\ req'[p].pc = req[p].pc /\ req'[p].up = req[p].up
         /\ req'[p].from = req[p].from /\ req'[p].got = req[p].got
  BY <1>7 DEF InHand, Active
<1> QED BY <1>2, <1>9, <1>10, <1>12, <1>13, Quietly

LEMMA TakesOver ==
  ASSUME WholeInv, NEW u \in Uploads, NEW r \in Requests, takeOver(u, r)
  PROVE  WholeInv'
<1>1. /\ UNCHANGED <<row, file, beside, part, safe, blob, browser, unlinking, told, overtaken, over>>
      /\ req[r].pc = "flying"
  BY DEF takeOver, db, disk, notes
<1>2. /\ LineInv'
      /\ \A q \in Requests : /\ req'[q].up = req[q].up /\ req'[q].from = req[q].from /\ req'[q].got = req[q].got
                             /\ req'[q].pc = IF q = r THEN "waiting" ELSE req[q].pc
  BY TakesPlace DEF WholeInv
<1>3. DataType'
  BY <1>1 DEF WholeInv, DataType
<1>4. \A v \in Uploads : /\ (v \in unlinking => row[v] = None /\ browser[v].pc # "new")
                         /\ (browser[v].pc = "new" => \A p \in Requests : req[p].up # v)
  BY DEF WholeInv, BytesOK, FreshAt
<1>5. \A q \in Requests : req[q].pc \in InHand \/ req'[q].pc \in InHand => req'[q].pc = req[q].pc
  BY <1>1, <1>2 DEF InHand, Active
<1> QED BY <1>1, <1>2, <1>3, <1>4, <1>5, Quietly

\* The sweep takes a record; people close links and throw things away.
LEMMA SweptAround ==
  ASSUME WholeInv, (\E u \in Uploads : staleUploads(u)) \/ CloseLink \/ TrashFolder \/ TrashFile \/ UNCHANGED vars
  PROVE  WholeInv'
<1>1. UNCHANGED <<req, queue, browser, beside, part, safe, blob, told, overtaken, over>>
  BY DEF staleUploads, CloseLink, TrashFolder, TrashFile, Around, vars, db, disk, server, notes
<1>2. {"blob", "version", "live"} \subseteq DOMAIN file' /\ file'.blob = file.blob
  BY DEF WholeInv, DataType, staleUploads, CloseLink, TrashFolder, TrashFile, Around, vars, db
<1>3. \A v \in Uploads : /\ (v \in unlinking => row[v] = None /\ browser[v].pc # "new")
                         /\ (browser[v].pc = "new" => row[v] = None /\ \A p \in Requests : req[p].up # v)
  BY DEF WholeInv, BytesOK, FreshAt
<1>4. /\ row' \in [Uploads -> {None} \cup 0..Size] /\ unlinking' \subseteq Uploads
      /\ \A v \in Uploads : /\ row'[v] = row[v] \/ row'[v] = None
                            /\ v \in unlinking' => row'[v] = None /\ browser[v].pc # "new"
  <2>1. CASE UNCHANGED <<row, unlinking>>
    BY <1>3, <2>1 DEF WholeInv, DataType
  <2>2. CASE \E u \in Uploads : staleUploads(u)
    <3>1. PICK u \in Uploads : staleUploads(u)
      BY <2>2
    <3>2. row[u] # None /\ row' = [row EXCEPT ![u] = None] /\ unlinking' = unlinking \cup {u}
      BY <3>1 DEF staleUploads, endUpload
    <3> QED BY <1>3, <3>2 DEF WholeInv, DataType
  <2> QED BY <2>1, <2>2 DEF CloseLink, TrashFolder, TrashFile, Around, vars, db
<1>5. LineInv'
  BY <1>1 DEF WholeInv, LineInv, ReqType, QueueOK
<1>6. DataType'
  BY <1>1, <1>2, <1>4 DEF WholeInv, DataType
<1> QED BY <1>1, <1>2, <1>3, <1>4, <1>5, <1>6, Quietly

\* The bytes of a swept upload go; whoever still reads for it writes to no file.
LEMMA PartRemoved ==
  ASSUME WholeInv, NEW u \in Uploads, removePart(u)
  PROVE  WholeInv'
<1>1. /\ u \in unlinking /\ unlinking' = unlinking \ {u}
      /\ part' = [part EXCEPT ![u] = Missing] /\ safe' = [safe EXCEPT ![u] = 0]
      /\ UNCHANGED <<req, queue, browser, beside, blob, told, overtaken, over, row, file>>
  BY DEF removePart, db, server, notes
<1>2. DataType /\ row[u] = None /\ 0 \in 0..Size
  BY <1>1, UploadAssumption DEF WholeInv, BytesOK, FreshAt
<1>3. /\ part'[u] = Missing /\ safe'[u] = 0 /\ DOMAIN part' = Uploads /\ safe' \in [Uploads -> 0..Size]
      /\ \A v \in Uploads \ {u} : part'[v] = part[v] /\ safe'[v] = safe[v]
  BY <1>1, <1>2 DEF DataType
<1>4. LineInv' /\ DataType'
  <2>1. LineInv'
    BY <1>1 DEF WholeInv, LineInv, ReqType, QueueOK
  <2>2. DataType'
    BY <1>1, <1>2, <1>3 DEF DataType
  <2> QED BY <2>1, <2>2
<1>5. ASSUME NEW v \in Uploads PROVE PartAt(v)' /\ SafeAt(v)' /\ FreshAt(v)'
  <2>1. PartAt(v) /\ SafeAt(v) /\ FreshAt(v)
    BY DEF WholeInv, BytesOK
  <2>2. PartAt(v)'
    BY <1>2, <1>3, <2>1 DEF PartAt, OnDisk
  <2>3. SafeAt(v)' /\ FreshAt(v)'
    BY <1>1, <1>2, <1>3, <2>1 DEF SafeAt, FreshAt
  <2> QED BY <2>2, <2>3
<1>6. ASSUME NEW r \in Requests PROVE WorkAt(r)'
  <2>1. CASE req[r].pc \in InHand
    <3>1. WorkAt(r) /\ req[r].up \in Uploads
      BY <2>1 DEF WholeInv, BytesOK, LineInv, ReqType, ReqOK, InHand, Active
    <3> QED BY <1>1, <1>2, <1>3, <3>1 DEF WorkAt
  <2>2. CASE req[r].pc \notin InHand
    BY <1>1, <2>2 DEF WorkAt, InHand, Active
  <2> QED BY <2>1, <2>2
<1>7. PlacesOK'
  <2>1. \A v \in Uploads : (Closed(v) => Closed(v)') /\ (Dropping(v)' => Dropping(v))
    BY <1>1 DEF Closed, Dropping
  <2> QED BY <1>1, <2>1, PlacesKept
<1> QED BY <1>4, <1>5, <1>6, <1>7 DEF WholeInv, BytesOK

\* Another edit takes the place of bytes that are a file's, on which nobody works.
LEMMA OthersEdit ==
  ASSUME WholeInv, OtherEdit
  PROVE  WholeInv'
<1>1. /\ file' = [file EXCEPT !.blob = Other, !.version = @ + 1]
      /\ blob' = [u \in Uploads |-> IF u = file.blob THEN Missing ELSE blob[u]]
      /\ UNCHANGED <<req, queue, browser, beside, part, safe, told, overtaken, over, row, unlinking>>
  BY DEF OtherEdit, Around, server, notes
<1>2. DataType /\ LineInv'
  BY <1>1 DEF WholeInv, LineInv, ReqType, QueueOK
<1>3. file'.blob = Other /\ {"blob", "version", "live"} \subseteq DOMAIN file' /\ Other \notin Uploads
  BY <1>1, <1>2, UploadAssumption DEF DataType, Other
<1>4. DataType'
  BY <1>1, <1>2, <1>3 DEF DataType
<1>5. ASSUME NEW v \in Uploads PROVE PartAt(v)' /\ SafeAt(v)' /\ FreshAt(v)'
  <2>1. PartAt(v) /\ SafeAt(v) /\ FreshAt(v)
    BY DEF WholeInv, BytesOK
  <2> QED BY <1>1, <2>1 DEF PartAt, SafeAt, FreshAt, OnDisk
<1>6. ASSUME NEW r \in Requests PROVE WorkAt(r)'
  <2>1. WorkAt(r)
    BY DEF WholeInv, BytesOK
  <2>2. req[r].pc = "finish" => req[r].up \in Uploads /\ req[r].up # file.blob
    <3>1. file.blob \in Uploads => Closed(file.blob)
      BY DEF WholeInv, PlacesOK, ClosedOK, Placed
    <3> QED BY <3>1 DEF Closed, Active, WholeInv, LineInv, ReqType, ReqOK
  <2> QED BY <1>1, <2>1, <2>2 DEF WorkAt
<1>7. \A v \in Uploads : /\ Closed(v)' <=> Closed(v)
                         /\ Dropping(v)' <=> Dropping(v)
                         /\ Placed(v)' => Placed(v)
  BY <1>1, <1>3 DEF Closed, Dropping, Placed
<1>8. ClosedOK'
  BY <1>1, <1>7 DEF WholeInv, PlacesOK, ClosedOK
<1>9. OnceOnly' /\ FilesWhole'
  BY <1>1, <1>2, <1>3 DEF WholeInv, PlacesOK, OnceOnly, FilesWhole, Shown, DataType
<1> QED BY <1>2, <1>4, <1>5, <1>6, <1>8, <1>9 DEF WholeInv, BytesOK, PlacesOK

LEMMA Starts ==
  ASSUME WholeInv, NEW u \in Uploads, Start(u)
  PROVE  WholeInv'
<1>1. /\ browser[u].pc = "new" /\ row' = [row EXCEPT ![u] = 0] /\ browser' = [browser EXCEPT ![u].pc = "send"]
      /\ UNCHANGED <<file, beside, part, safe, blob, req, queue, unlinking, told, overtaken, over>>
  BY DEF Start, disk, server
<1>2. /\ DataType /\ row[u] = None /\ told[u] = 0 /\ u \notin unlinking /\ 0 \in 0..Size
      /\ \A r \in Requests : req[r].up # u
  BY <1>1, UploadAssumption DEF WholeInv, BytesOK, FreshAt
<1>3. row' \in [Uploads -> {None} \cup 0..Size] /\ row'[u] = 0 /\ \A v \in Uploads \ {u} : row'[v] = row[v]
  BY <1>1, <1>2 DEF DataType
<1>4. browser' \in [Uploads -> Browser] /\ browser'[u].pc = "send" /\ \A v \in Uploads \ {u} : browser'[v] = browser[v]
  <2>1. [browser[u] EXCEPT !.pc = "send"] \in Browser /\ [browser[u] EXCEPT !.pc = "send"].pc = "send"
    BY <1>2 DEF DataType, Browser
  <2> QED BY <1>1, <1>2, <2>1 DEF DataType
<1>5. LineInv' /\ DataType'
  BY <1>1, <1>2, <1>3, <1>4 DEF WholeInv, LineInv, ReqType, QueueOK, DataType
<1>6. ASSUME NEW v \in Uploads PROVE PartAt(v)' /\ SafeAt(v)' /\ FreshAt(v)'
  <2>1. PartAt(v) /\ SafeAt(v) /\ FreshAt(v) /\ safe[v] \in 0..Size
    BY <1>2 DEF WholeInv, BytesOK, DataType
  <2>2. PartAt(v)'
    BY <1>1, <2>1 DEF PartAt, OnDisk
  <2>3. CASE v = u
    <3>1. told'[v] <= row'[v] /\ row'[v] <= safe'[v]
      BY <1>1, <1>2, <1>3, <2>1, <2>3
    <3>2. FreshAt(v)'
      BY <1>1, <1>2, <1>4, <2>3 DEF FreshAt
    <3> QED BY <2>2, <3>1, <3>2 DEF SafeAt
  <2>4. CASE v # u
    <3>1. row'[v] = row[v] /\ browser'[v] = browser[v]
      BY <1>3, <1>4, <2>4
    <3>2. SafeAt(v)'
      BY <1>1, <2>1, <3>1 DEF SafeAt
    <3> QED BY <1>1, <2>1, <2>2, <3>1, <3>2 DEF FreshAt
  <2> QED BY <2>3, <2>4
<1>7. ASSUME NEW r \in Requests PROVE WorkAt(r)'
  <2>1. WorkAt(r) /\ (req[r].pc \in InHand => req[r].up \in Uploads \ {u})
    BY <1>2 DEF WholeInv, BytesOK, LineInv, ReqType, ReqOK, InHand, Active
  <2> QED BY <1>1, <1>3, <2>1 DEF WorkAt, InHand, Active
<1>8. PlacesOK'
  <2>1. \A v \in Uploads : (Closed(v) => Closed(v)') /\ (Dropping(v)' => Dropping(v))
    BY <1>1, <1>3, <1>4 DEF Closed, Dropping
  <2> QED BY <1>1, <2>1, PlacesKept
<1> QED BY <1>5, <1>6, <1>7, <1>8 DEF WholeInv, BytesOK

\* The Portal stops: who was working starts over from what is safe.
LEMMA StopsAndStarts ==
  ASSUME WholeInv, Restart
  PROVE  WholeInv'
<1>1. /\ req' = [r \in Requests |-> IF req[r].pc = "flying" THEN req[r] ELSE Idle]
      /\ queue' = [u \in Uploads |-> <<>>] /\ unlinking' = {}
      /\ overtaken' = overtaken \cup {req[r].up : r \in {q \in Requests : req[q].pc = "finish"}}
      /\ browser' = [u \in Uploads |->
           IF browser[u].req \in Requests /\ req[browser[u].req].pc # "flying" /\ req[browser[u].req].kind # "DELETE"
           THEN Failed(u, req[browser[u].req].kind) ELSE browser[u]]
      /\ UNCHANGED <<row, file, beside, blob, told, over>>
  BY DEF Restart, db
<1>2. PICK kept \in [Uploads -> 0..Size] :
        /\ \A u \in Uploads : kept[u] \in safe[u]..OnDisk(u)
        /\ part' = [u \in Uploads |-> IF part[u] = Missing THEN Missing ELSE SubSeq(part[u], 1, kept[u])]
        /\ safe' = kept
  BY DEF Restart
<1>3. DataType /\ LineInv
  BY DEF WholeInv
<1>4. ReqOK(Idle) /\ Idle.pc = "free" /\ Idle.up = NoReq
  BY UploadAssumption DEF ReqOK, Idle, Requested, Phases, InHand, Active
<1>5. \A r \in Requests : /\ ReqOK(req'[r]) /\ req'[r] \in Requested
                          /\ \/ req'[r] = req[r] /\ req[r].pc = "flying"
                             \/ req'[r].pc = "free" /\ req'[r].up = NoReq
  BY <1>1, <1>3, <1>4 DEF LineInv, ReqType, ReqOK
<1>6. LineInv'
  <2>1. ReqType'
    BY <1>1, <1>5 DEF ReqType
  <2>2. QueueOK'
    BY <1>1, <1>5 DEF QueueOK, InHand, Active
  <2> QED BY <2>1, <2>2 DEF LineInv
<1>7. \A u \in Uploads : /\ browser'[u] \in Browser
                         /\ browser'[u] = browser[u] \/ browser'[u].pc \in {"send", "failed", "ask"}
  BY <1>1, <1>3, FailedType DEF DataType
<1>8. DataType'
  <2>1. browser' \in [Uploads -> Browser]
    BY <1>1, <1>7
  <2> QED BY <1>1, <1>2, <1>3, <2>1 DEF DataType
<1>9. ASSUME NEW u \in Uploads PROVE PartAt(u)' /\ SafeAt(u)' /\ FreshAt(u)'
  <2>1. PartAt(u) /\ SafeAt(u) /\ FreshAt(u) /\ kept[u] \in safe[u]..OnDisk(u) /\ safe'[u] = kept[u]
        /\ part'[u] = IF part[u] = Missing THEN Missing ELSE SubSeq(part[u], 1, kept[u])
    BY <1>2 DEF WholeInv, BytesOK
  <2>2. safe[u] \in Nat /\ kept[u] \in 0..Size /\ Size \in Nat
    BY <1>2, <1>3, UploadAssumption DEF DataType
  <2>3. PartAt(u)'
    <3>1. CASE part[u] = Missing
      BY <2>1, <2>2, <3>1 DEF PartAt, OnDisk
    <3>2. CASE part[u] # Missing
      <4>1. PICK n \in 0..Size : part[u] = Upto(n)
        BY <2>1, <3>2 DEF PartAt
      <4>2. n \in Nat /\ OnDisk(u) = n
        BY <2>2, <3>2, <4>1, UptoLaws DEF OnDisk
      <4>3. kept[u] \in 0..n /\ kept[u] \in Nat
        BY <2>1, <2>2, <4>2
      <4>4. part'[u] = Upto(kept[u]) /\ Upto(kept[u]) # Missing /\ Len(Upto(kept[u])) = kept[u]
        BY <2>1, <3>2, <4>1, <4>2, <4>3, UptoLaws
      <4>5. OnDisk(u)' = kept[u]
        BY <4>4 DEF OnDisk
      <4>6. safe'[u] = kept[u] /\ kept[u] <= kept[u]
        BY <2>1, <2>2
      <4> QED BY <2>2, <4>4, <4>5, <4>6 DEF PartAt
    <3> QED BY <3>1, <3>2
  <2>4. SafeAt(u)'
    <3>1. SUFFICES ASSUME u \notin overtaken', row[u] # None
                   PROVE  told[u] <= row[u] /\ row[u] <= kept[u]
      BY <1>1, <2>1 DEF SafeAt
    <3>2. u \notin overtaken /\ ~\E r \in Requests : req[r].pc = "finish" /\ req[r].up = u
      BY <1>1, <3>1
    <3>3. told[u] <= row[u] /\ row[u] <= safe[u] /\ row[u] \in Nat
      BY <1>3, <2>1, <3>1, <3>2 DEF SafeAt, DataType
    <3>4. safe[u] <= kept[u]
      BY <2>1, <2>2
    <3> QED BY <2>2, <3>3, <3>4
  <2>5. FreshAt(u)'
    BY <1>1, <1>5, <1>7, <2>1, UploadAssumption DEF FreshAt, NoReq
  <2> QED BY <2>3, <2>4, <2>5
<1>10. \A r \in Requests : WorkAt(r)'
  BY <1>5 DEF WorkAt
<1>11. PlacesOK'
  <2>1. \A u \in Uploads : Closed(u) => Closed(u)'
    BY <1>1, <1>5, <1>7 DEF Closed, Active
  <2>2. \A u \in Uploads : Dropping(u)' => Dropping(u)
    BY <1>5, <1>7 DEF Dropping
  <2> QED BY <1>1, <2>1, <2>2, PlacesKept
<1> QED BY <1>6, <1>8, <1>9, <1>10, <1>11 DEF WholeInv, BytesOK

LEMMA WholeInit ==
  ASSUME Init
  PROVE  WholeInv
<1>1. Idle \in Requested /\ ReqOK(Idle) /\ Idle.pc = "free" /\ Idle.up = NoReq
  BY UploadAssumption DEF ReqOK, Idle, Requested, Phases, InHand, Active
<1>2. LineInv
  BY <1>1 DEF Init, LineInv, ReqType, QueueOK, InHand, Active
<1>3. 0 \in 0..Size /\ First \notin Uploads /\ NoReq \notin Uploads
  BY UploadAssumption DEF First, NoReq
<1>4. DataType
  BY <1>3 DEF Init, DataType, Browser, Ended
<1>5. BytesOK
  BY <1>1, <1>3 DEF Init, BytesOK, PartAt, SafeAt, FreshAt, WorkAt, OnDisk, None
<1>6. PlacesOK
  BY <1>1, <1>3 DEF Init, PlacesOK, ClosedOK, OnceOnly, FilesWhole, Shown, Placed, Dropping, Closed
<1> QED BY <1>2, <1>4, <1>5, <1>6 DEF WholeInv

LEMMA WholeStep ==
  ASSUME WholeInv, [Next]_vars
  PROVE  WholeInv'
<1>1. CASE \E u \in Uploads : Start(u) \/ Drop(u) \/ removePart(u)
  BY <1>1, Starts, Drops, PartRemoved
<1>2. CASE \E u \in Uploads, r \in Requests : Send(u, r) \/ Ask(u, r) \/ Cancel(u, r)
  BY <1>2, Flies, Cancels
<1>3. CASE \E u \in Uploads, r \in Requests : Receive(u, r) \/ Checkpoint(u, r)
  BY <1>3, Receives, Checkpoints
<1>4. CASE \E u \in Uploads, r \in Requests : Serve(u, r)
  <2>1. PICK u \in Uploads, r \in Requests : Serve(u, r)
    BY <1>4
  <2>2. CASE takeOver(u, r) \/ Unknown(u, r) \/ HeadAnswer(u, r) \/ OutOfStep(u, r) \/ PatchBegins(u, r)
    BY <2>2, TakesOver, UnknownStep, TellsHowFar, BeginsReading
  <2>3. CASE ReadEnds(u, r) \/ keepUpload(u, r) \/ KeepFails(u, r) \/ DropOld(u, r) \/ DeleteRow(u, r) \/ Unlink(u, r)
    BY <2>3, ReadsAll, Keeps, UnknownStep, DropsOld, DeletesRow, Unlinks
  <2>4. CASE FinishReplace(u, r) \/ FinishBeside(u, r) \/ FinishRefused(u, r)
    BY <2>4, ReplacesFile, MakesFile, Refuses
  <2> QED BY <2>1, <2>2, <2>3, <2>4 DEF Serve
<1>5. CASE (\E u \in Uploads : staleUploads(u)) \/ CloseLink \/ TrashFolder \/ TrashFile \/ UNCHANGED vars
  BY <1>5, SweptAround
<1>6. CASE OtherEdit \/ Restart
  BY <1>6, OthersEdit, StopsAndStarts
<1> QED BY <1>1, <1>2, <1>3, <1>4, <1>5, <1>6 DEF Next

\* route.ts, "an upload resumes from exactly where it stopped": whatever is dropped, retried, late, cancelled,
\* swept or cut short by a stop, every file that came of an upload has its bytes, each once and in order.
THEOREM FilesAlwaysWhole == Spec => []FilesWhole
<1>1. Init => WholeInv
  BY WholeInit
<1>2. WholeInv /\ [Next]_vars => WholeInv'
  BY WholeStep
<1>3. WholeInv => FilesWhole
  BY DEF WholeInv, PlacesOK
<1> QED BY <1>1, <1>2, <1>3, PTL DEF Spec

\* route.ts, "a crash or power cut at any point loses only the last few megabytes, never the upload": what a
\* browser was told has arrived stays recorded, unless a stop caught the end of that upload.
THEOREM ToldIsKept == Spec => []ToldStaysUnlessOvertaken
<1>1. Init => WholeInv
  BY WholeInit
<1>2. WholeInv /\ [Next]_vars => WholeInv'
  BY WholeStep
<1>3. WholeInv => ToldStaysUnlessOvertaken
  BY DEF WholeInv, BytesOK, SafeAt, ToldStaysUnlessOvertaken
<1> QED BY <1>1, <1>2, <1>3, PTL DEF Spec

\* route.ts, "Gives up on an upload": once a cancel is answered no file comes of the upload, also from pieces
\* that were on their way or being written when it came.
THEOREM CancelIsFinal == Spec => []CancelHolds
<1>1. Init => WholeInv
  BY WholeInit
<1>2. WholeInv /\ [Next]_vars => WholeInv'
  BY WholeStep
<1>3. WholeInv => CancelHolds
  BY DEF WholeInv, PlacesOK, ClosedOK, Dropping, CancelHolds
<1> QED BY <1>1, <1>2, <1>3, PTL DEF Spec


-----------------------------------------------------------------------------
(***************************************************************************)
(* What is left of DriveUpload's types: the bytes in files/, the browser's *)
(* count of failures, and what is around the uploads.                      *)
(***************************************************************************)
MovedBytes == \A u \in Uploads : blob[u] = Missing \/ \E n \in 0..Size : blob[u] = Upto(n)
Tables == part = [u \in Uploads |-> part[u]] /\ blob = [u \in Uploads |-> blob[u]]
CountedTries == \A u \in Uploads : browser[u].tries \in 0..MaxTries
Surroundings ==
  /\ file \in [blob : Bytes, version : Nat, live : BOOLEAN]
  /\ folderOk \in BOOLEAN /\ linkOpen \in BOOLEAN /\ mishaps \in 0..MaxMishaps
  /\ overtaken \subseteq Uploads /\ saw \in [Uploads -> Bytes] /\ over \in [Uploads -> Bytes]
UploadTypes == Tables /\ MovedBytes /\ CountedTries /\ Surroundings

LEMMA TablesStay ==
  ASSUME WholeInv, Tables, [Next]_vars
  PROVE  Tables'
<1> DEFINE PartStays == part' = part \/ (\E u, b : part' = [part EXCEPT ![u] = b]) \/ (\E b : part' = [u \in Uploads |-> b[u]])
           BlobStays == blob' = blob \/ (\E u, b : blob' = [blob EXCEPT ![u] = b]) \/ (\E b : blob' = [u \in Uploads |-> b[u]])
<1>1. ASSUME PartStays, BlobStays PROVE Tables'
  <2>1. DOMAIN part = Uploads /\ DOMAIN blob = Uploads
    BY DEF WholeInv, DataType
  <2>2. part' = [u \in Uploads |-> part'[u]]
    BY <1>1, <2>1 DEF Tables
  <2>3. blob' = [u \in Uploads |-> blob'[u]]
    BY <1>1, <2>1 DEF Tables
  <2> QED BY <2>2, <2>3 DEF Tables
<1> HIDE DEF PartStays, BlobStays
<1>2. ASSUME NEW u \in Uploads, NEW r \in Requests, Serve(u, r) PROVE Tables'
  <2>1. CASE takeOver(u, r) \/ Unknown(u, r) \/ KeepFails(u, r) \/ FinishReplace(u, r) \/ FinishBeside(u, r) \/ DeleteRow(u, r)
    BY <2>1 DEF Tables, takeOver, Unknown, KeepFails, FinishReplace, FinishBeside, DeleteRow, disk
  <2>2. CASE HeadAnswer(u, r) \/ OutOfStep(u, r) \/ PatchBegins(u, r)
    <3>1. part' = [part EXCEPT ![u] = IF part[u] = Missing THEN <<>> ELSE SubSeq(part[u], 1, Least(OnDisk(u), row[u]))] /\ blob' = blob
      BY <2>2 DEF HeadAnswer, OutOfStep, PatchBegins, settle
    <3>2. PartStays /\ BlobStays
      BY <3>1 DEF PartStays, BlobStays
    <3> QED BY <1>1, <3>2
  <2>3. CASE ReadEnds(u, r)
    BY <2>3 DEF Tables, ReadEnds, checkpoint, disk
  <2>4. CASE keepUpload(u, r)
    <3>1. PartStays /\ BlobStays
      BY <2>4 DEF keepUpload, PartStays, BlobStays
    <3> QED BY <1>1, <3>1
  <2>5. CASE FinishRefused(u, r) \/ Unlink(u, r)
    <3>1. PartStays /\ BlobStays
      BY <2>5 DEF FinishRefused, Unlink, PartStays, BlobStays
    <3> QED BY <1>1, <3>1
  <2>6. CASE DropOld(u, r)
    <3>1. blob' = [v \in Uploads |-> IF v = over[u] THEN Missing ELSE blob[v]] /\ part' = part
      BY <2>6 DEF DropOld
    <3> QED BY <3>1 DEF Tables
  <2> QED BY <1>2, <2>1, <2>2, <2>3, <2>4, <2>5, <2>6 DEF Serve
<1>3. ASSUME NEW u \in Uploads, NEW r \in Requests, Send(u, r) \/ Ask(u, r) \/ Cancel(u, r) \/ Checkpoint(u, r) PROVE Tables'
  BY <1>3 DEF Tables, Send, Ask, Fly, Cancel, Checkpoint, checkpoint, disk
<1>4. ASSUME NEW u \in Uploads, NEW r \in Requests, Receive(u, r) PROVE Tables'
  <2>1. part' = [part EXCEPT ![u] = IF part[u] = Missing THEN part[u] ELSE Append(part[u], req[r].from + req[r].got + 1)] /\ blob' = blob
    BY <1>4 DEF Receive
  <2>2. PartStays /\ BlobStays
    BY <2>1 DEF PartStays, BlobStays
  <2> QED BY <1>1, <2>2
<1>5. ASSUME NEW u \in Uploads, removePart(u) PROVE Tables'
  <2>1. PartStays /\ BlobStays
    BY <1>5 DEF removePart, PartStays, BlobStays
  <2> QED BY <1>1, <2>1
<1>6. ASSUME OtherEdit PROVE Tables'
  <2>1. blob' = [v \in Uploads |-> IF v = file.blob THEN Missing ELSE blob[v]] /\ part' = part
    BY <1>6 DEF OtherEdit, Around
  <2> QED BY <2>1 DEF Tables
<1>7. ASSUME Restart PROVE Tables'
  <2>1. PICK kept : part' = [v \in Uploads |-> IF part[v] = Missing THEN Missing ELSE SubSeq(part[v], 1, kept[v])]
    BY <1>7 DEF Restart
  <2>2. blob' = blob
    BY <1>7 DEF Restart
  <2> QED BY <2>1, <2>2 DEF Tables
<1>8. CASE (\E u \in Uploads : Start(u) \/ Drop(u) \/ staleUploads(u)) \/ CloseLink \/ TrashFolder \/ TrashFile \/ UNCHANGED vars
  BY <1>8 DEF Tables, Start, Drop, staleUploads, CloseLink, TrashFolder, TrashFile, Around, vars, disk
<1> QED BY <1>2, <1>3, <1>4, <1>5, <1>6, <1>7, <1>8 DEF Next

LEMMA BytesMove ==
  ASSUME WholeInv, MovedBytes, [Next]_vars
  PROVE  MovedBytes'
<1>1. CASE UNCHANGED blob
  BY <1>1 DEF MovedBytes
<1>2. CASE \E u \in Uploads, r \in Requests : keepUpload(u, r)
  <2>1. PICK u \in Uploads, r \in Requests : part[u] # Missing /\ blob' = [blob EXCEPT ![u] = part[u]]
    BY <1>2 DEF keepUpload
  <2>2. \E n \in 0..Size : part[u] = Upto(n)
    BY <2>1 DEF WholeInv, BytesOK, PartAt
  <2> QED BY <2>1, <2>2 DEF MovedBytes, WholeInv, DataType
<1>3. CASE \E v : blob' = [u \in Uploads |-> IF u = v THEN Missing ELSE blob[u]]
  BY <1>3 DEF MovedBytes
<1>4. CASE \E v \in Uploads : blob' = [blob EXCEPT ![v] = Missing]
  BY <1>4 DEF MovedBytes, WholeInv, DataType
<1>5. CASE \E u \in Uploads, r \in Requests : Serve(u, r)
  <2>1. PICK u \in Uploads, r \in Requests : Serve(u, r)
    BY <1>5
  <2>2. CASE keepUpload(u, r) \/ DropOld(u, r) \/ FinishRefused(u, r)
    <3>1. CASE keepUpload(u, r)
      BY <3>1, <1>2
    <3>2. CASE DropOld(u, r)
      BY <3>2, <1>3 DEF DropOld
    <3>3. CASE FinishRefused(u, r)
      BY <3>3, <1>4 DEF FinishRefused
    <3> QED BY <2>2, <3>1, <3>2, <3>3
  <2>3. CASE ~(keepUpload(u, r) \/ DropOld(u, r) \/ FinishRefused(u, r))
    BY <2>1, <2>3, <1>1 DEF Serve, takeOver, Unknown, HeadAnswer, OutOfStep, PatchBegins, ReadEnds, KeepFails, FinishReplace,
         FinishBeside, DeleteRow, Unlink, settle, checkpoint, disk
  <2> QED BY <2>2, <2>3
<1>6. CASE \E u \in Uploads, r \in Requests : Send(u, r) \/ Ask(u, r) \/ Cancel(u, r) \/ Receive(u, r) \/ Checkpoint(u, r)
  BY <1>1, <1>6 DEF Send, Ask, Fly, Cancel, Receive, Checkpoint, checkpoint, disk
<1>7. CASE (\E u \in Uploads : Start(u) \/ Drop(u) \/ staleUploads(u) \/ removePart(u)) \/ CloseLink \/ TrashFolder \/ TrashFile \/ Restart \/ UNCHANGED vars
  BY <1>1, <1>7 DEF Start, Drop, staleUploads, removePart, CloseLink, TrashFolder, TrashFile, Restart, vars, disk
<1>8. CASE OtherEdit
  BY <1>3, <1>8 DEF OtherEdit
<1> QED BY <1>5, <1>6, <1>7, <1>8 DEF Next

LEMMA FailedTries ==
  ASSUME WholeInv, NEW u \in Uploads, browser[u].tries \in 0..MaxTries, NEW method
  PROVE  Failed(u, method).tries \in 0..MaxTries
<1>1. browser[u] \in Browser /\ MaxTries \in Nat
  BY UploadAssumption DEF WholeInv, DataType
<1>2. CASE method = "HEAD"
  BY <1>1, <1>2 DEF Failed, Browser
<1>3. CASE method # "HEAD" /\ browser[u].tries >= MaxTries
  BY <1>1, <1>3 DEF Failed, Browser
<1>4. CASE method # "HEAD" /\ ~(browser[u].tries >= MaxTries)
  <2>1. Failed(u, method).tries = browser[u].tries + 1
    BY <1>1, <1>4 DEF Failed, Browser
  <2> QED BY <1>1, <1>4, <2>1
<1> QED BY <1>2, <1>3, <1>4

LEMMA AnsweredTries ==
  ASSUME WholeInv, NEW u \in Uploads, browser[u].tries \in 0..MaxTries, NEW method, NEW status, NEW offset, NEW filed
  PROVE  Answered(u, method, status, offset, filed).tries \in 0..MaxTries
<1>1. browser[u] \in Browser /\ 0 \in 0..MaxTries
  BY UploadAssumption DEF WholeInv, DataType
<1>2. CASE method = "DELETE"
  BY <1>1, <1>2 DEF Answered, Browser
<1>3. CASE method = "HEAD"
  BY <1>1, <1>3 DEF Answered, Browser
<1>4. CASE method \notin {"DELETE", "HEAD"} /\ status = "ok"
  BY <1>1, <1>4 DEF Answered, Browser
<1>5. CASE method \notin {"DELETE", "HEAD"} /\ status = "conflict"
  BY <1>5, FailedTries DEF Answered
<1>6. CASE method \notin {"DELETE", "HEAD"} /\ status \notin {"ok", "conflict"}
  BY <1>1, <1>6 DEF Answered, Browser
<1> QED BY <1>2, <1>3, <1>4, <1>5, <1>6

LEMMA OneBrowser ==
  ASSUME WholeInv, CountedTries, NEW u, NEW b, browser' = [browser EXCEPT ![u] = b], u \in Uploads => b.tries \in 0..MaxTries
  PROVE  CountedTries'
BY DEF WholeInv, DataType, CountedTries

LEMMA TriesCounted ==
  ASSUME WholeInv, CountedTries, [Next]_vars
  PROVE  CountedTries'
<1>1. CASE UNCHANGED browser
  BY <1>1 DEF CountedTries
<1>2. CASE \E r, status, offset, filed : Answer(r, status, offset, filed)
  <2>1. PICK r, status, offset, filed : Answer(r, status, offset, filed)
    BY <1>2
  <2>2. CASE browser' = [browser EXCEPT ![req[r].up] = Answered(req[r].up, req[r].kind, status, offset, filed)]
    <3>1. req[r].up \in Uploads => Answered(req[r].up, req[r].kind, status, offset, filed).tries \in 0..MaxTries
      BY AnsweredTries DEF CountedTries
    <3> QED BY <2>2, <3>1, OneBrowser
  <2> QED BY <1>1, <2>1, <2>2 DEF Answer
<1>3. CASE \E u \in Uploads : \E pc, r : browser' = [browser EXCEPT ![u] = [browser[u] EXCEPT !.pc = pc, !.req = r]]
  <2>1. PICK u \in Uploads : \E pc, r : browser' = [browser EXCEPT ![u] = [browser[u] EXCEPT !.pc = pc, !.req = r]]
    BY <1>3
  <2>0. PICK pc, r : browser' = [browser EXCEPT ![u] = [browser[u] EXCEPT !.pc = pc, !.req = r]]
    BY <2>1
  <2>2. [browser[u] EXCEPT !.pc = pc, !.req = r].tries \in 0..MaxTries
    BY DEF WholeInv, DataType, Browser, CountedTries
  <2> QED BY <2>0, <2>2, OneBrowser
<1>4. CASE \E u \in Uploads : Start(u)
  <2>1. PICK u \in Uploads : browser' = [browser EXCEPT ![u] = [browser[u] EXCEPT !.pc = "send"]]
    BY <1>4 DEF Start
  <2>2. [browser[u] EXCEPT !.pc = "send"].tries \in 0..MaxTries
    BY DEF WholeInv, DataType, Browser, CountedTries
  <2> QED BY <2>1, <2>2, OneBrowser
<1>5. CASE \E u \in Uploads : Drop(u)
  <2>1. PICK u \in Uploads : \E method : browser' = [browser EXCEPT ![u] = Failed(u, method)]
    BY <1>5 DEF Drop
  <2>2. \A method : Failed(u, method).tries \in 0..MaxTries
    BY FailedTries DEF CountedTries
  <2> QED BY <2>1, <2>2, OneBrowser
<1>6. CASE Restart
  <2>1. \A u \in Uploads : browser'[u] = browser[u] \/ \E method : browser'[u] = Failed(u, method)
    BY <1>6 DEF Restart
  <2> QED BY <2>1, FailedTries DEF CountedTries
<1>7. CASE \E u \in Uploads, r \in Requests : Send(u, r) \/ Ask(u, r) \/ Cancel(u, r)
  <2>1. PICK u \in Uploads, r \in Requests : Send(u, r) \/ Ask(u, r) \/ Cancel(u, r)
    BY <1>7
  <2>2. \E pc : browser' = [browser EXCEPT ![u] = [browser[u] EXCEPT !.pc = pc, !.req = r]]
    BY <2>1 DEF Send, Ask, Cancel
  <2> QED BY <1>3, <2>2
<1>8. CASE \E u \in Uploads, r \in Requests : Serve(u, r) \/ Receive(u, r) \/ Checkpoint(u, r)
  <2>1. PICK u \in Uploads, r \in Requests : Serve(u, r) \/ Receive(u, r) \/ Checkpoint(u, r)
    BY <1>8
  <2>2. CASE takeOver(u, r) \/ PatchBegins(u, r) \/ keepUpload(u, r) \/ FinishReplace(u, r) \/ DeleteRow(u, r)
             \/ Receive(u, r) \/ Checkpoint(u, r)
    BY <1>1, <2>2 DEF takeOver, PatchBegins, keepUpload, FinishReplace, DeleteRow, Receive, Checkpoint
  <2>3. CASE Unknown(u, r) \/ HeadAnswer(u, r) \/ OutOfStep(u, r) \/ KeepFails(u, r)
    BY <1>2, <2>3 DEF Unknown, HeadAnswer, OutOfStep, KeepFails
  <2>4. CASE FinishBeside(u, r) \/ FinishRefused(u, r) \/ DropOld(u, r) \/ Unlink(u, r)
    BY <1>2, <2>4 DEF FinishBeside, FinishRefused, DropOld, Unlink
  <2>5. CASE ReadEnds(u, r)
    <3>1. UNCHANGED browser \/ Answer(r, "ok", req[r].from + req[r].got, FALSE)
      BY <2>5 DEF ReadEnds
    <3> QED BY <1>1, <1>2, <3>1
  <2> QED BY <2>1, <2>2, <2>3, <2>4, <2>5 DEF Serve
<1>9. CASE (\E u \in Uploads : staleUploads(u) \/ removePart(u)) \/ CloseLink \/ TrashFolder \/ TrashFile \/ OtherEdit \/ UNCHANGED vars
  BY <1>1, <1>9 DEF staleUploads, removePart, CloseLink, TrashFolder, TrashFile, OtherEdit, Around, vars
<1> QED BY <1>4, <1>5, <1>6, <1>7, <1>8, <1>9 DEF Next

LEMMA SurroundingsKept ==
  ASSUME WholeInv, Surroundings, [Next]_vars
  PROVE  Surroundings'
<1>1. CASE UNCHANGED <<file, folderOk, linkOpen, mishaps, overtaken, saw, over>>
  BY <1>1 DEF Surroundings
<1>2. CASE \E u \in Uploads, r \in Requests : FinishReplace(u, r)
  <2>1. PICK u \in Uploads, r \in Requests : FinishReplace(u, r)
    BY <1>2
  <2>2. file \in [blob : Bytes, version : Nat, live : BOOLEAN] /\ over \in [Uploads -> Bytes] /\ Uploads \subseteq Bytes
    BY DEF Surroundings, Bytes
  <2>3. file.blob \in Bytes /\ over' = [over EXCEPT ![u] = file.blob]
    BY <2>1, <2>2 DEF FinishReplace
  <2>4. file' = [file EXCEPT !.blob = u, !.version = file.version + 1] /\ u \in Bytes /\ file.version + 1 \in Nat
    BY <2>1, <2>2 DEF FinishReplace
  <2>5. file' \in [blob : Bytes, version : Nat, live : BOOLEAN] /\ over' \in [Uploads -> Bytes]
    BY <2>2, <2>3, <2>4
  <2> QED BY <2>1, <2>5 DEF FinishReplace, Surroundings
<1>3. CASE \E u \in Uploads : Start(u)
  <2>1. PICK u \in Uploads : Start(u)
    BY <1>3
  <2>2. saw' \in [Uploads -> Bytes]
    BY <2>1 DEF Start, Surroundings
  <2> QED BY <2>1, <2>2 DEF Start, Surroundings
<1>4. CASE CloseLink \/ TrashFolder \/ TrashFile \/ OtherEdit
  <2>1. mishaps' \in 0..MaxMishaps /\ UNCHANGED <<overtaken, saw, over>>
    BY <1>4, UploadAssumption DEF CloseLink, TrashFolder, TrashFile, OtherEdit, Around, Surroundings, notes
  <2>2. file' \in [blob : Bytes, version : Nat, live : BOOLEAN]
    <3>1. file \in [blob : Bytes, version : Nat, live : BOOLEAN] /\ Other \in Bytes
      BY DEF Surroundings, Bytes
    <3>2. CASE CloseLink \/ TrashFolder
      BY <3>1, <3>2 DEF CloseLink, TrashFolder
    <3>3. CASE TrashFile
      BY <3>1, <3>3 DEF TrashFile
    <3>4. CASE OtherEdit
      <4>1. file' = [file EXCEPT !.blob = Other, !.version = file.version + 1] /\ file.version + 1 \in Nat
        BY <3>1, <3>4 DEF OtherEdit
      <4> QED BY <3>1, <4>1
    <3> QED BY <1>4, <3>2, <3>3, <3>4
  <2>3. folderOk' \in BOOLEAN /\ linkOpen' \in BOOLEAN
    BY <1>4 DEF CloseLink, TrashFolder, TrashFile, OtherEdit, Surroundings
  <2> QED BY <2>1, <2>2, <2>3 DEF Surroundings
<1>5. CASE Restart
  <2>1. mishaps' \in 0..MaxMishaps /\ UNCHANGED <<file, folderOk, linkOpen, saw, over>>
    BY <1>5, UploadAssumption DEF Restart, Surroundings, db
  <2>2. overtaken' = overtaken \cup {req[r].up : r \in {q \in Requests : req[q].pc = "finish"}}
    BY <1>5 DEF Restart
  <2>3. \A r \in Requests : req[r].pc = "finish" => req[r].up \in Uploads
    BY DEF WholeInv, LineInv, ReqType, ReqOK
  <2> QED BY <2>1, <2>2, <2>3 DEF Surroundings
<1>6. CASE \E u \in Uploads, r \in Requests : Serve(u, r) /\ ~FinishReplace(u, r)
  <2>1. PICK u \in Uploads, r \in Requests : Serve(u, r) /\ ~FinishReplace(u, r)
    BY <1>6
  <2>2. CASE takeOver(u, r) \/ Unknown(u, r) \/ HeadAnswer(u, r) \/ OutOfStep(u, r) \/ PatchBegins(u, r)
    BY <1>1, <2>2 DEF takeOver, Unknown, HeadAnswer, OutOfStep, PatchBegins, settle, db, notes
  <2>3. CASE ReadEnds(u, r) \/ keepUpload(u, r) \/ KeepFails(u, r) \/ DeleteRow(u, r) \/ Unlink(u, r)
    BY <1>1, <2>3 DEF ReadEnds, keepUpload, KeepFails, DeleteRow, Unlink, checkpoint, db, notes
  <2>4. CASE FinishBeside(u, r) \/ FinishRefused(u, r) \/ DropOld(u, r)
    BY <1>1, <2>4 DEF FinishBeside, FinishRefused, DropOld, db
  <2> QED BY <2>1, <2>2, <2>3, <2>4 DEF Serve
<1>7. CASE \E u \in Uploads, r \in Requests : Send(u, r) \/ Ask(u, r) \/ Cancel(u, r) \/ Receive(u, r) \/ Checkpoint(u, r)
  BY <1>1, <1>7 DEF Send, Ask, Fly, Cancel, Receive, Checkpoint, checkpoint, db, notes
<1>8. CASE (\E u \in Uploads : Drop(u) \/ staleUploads(u) \/ removePart(u)) \/ UNCHANGED vars
  BY <1>1, <1>8 DEF Drop, staleUploads, removePart, vars, db, notes
<1> QED BY <1>2, <1>3, <1>4, <1>5, <1>6, <1>7, <1>8 DEF Next

LEMMA UploadTypesStep ==
  ASSUME WholeInv, UploadTypes, [Next]_vars
  PROVE  UploadTypes'
BY TablesStay, BytesMove, TriesCounted, SurroundingsKept DEF UploadTypes

LEMMA UploadTypesInit ==
  ASSUME Init
  PROVE  UploadTypes
BY UploadAssumption DEF Init, UploadTypes, Tables, MovedBytes, CountedTries, Surroundings, Bytes

\* What is on disk is the first bytes of the file, so they are bytes of it.
LEMMA BytesOf ==
  ASSUME NEW n \in 0..Size
  PROVE  Upto(n) \in Seq(1..Size)
<1>1. n \in Nat /\ Size \in Nat
  BY UploadAssumption
<1>2. \A i \in 1..n : i \in 1..Size
  BY <1>1
<1> QED BY <1>1, <1>2 DEF Upto

LEMMA TypesHold ==
  ASSUME EditInv, WholeInv, UploadTypes
  PROVE  TypeOK
<1>1. row \in [Uploads -> {None} \cup 0..Size] /\ safe \in [Uploads -> 0..Size] /\ told \in [Uploads -> 0..Size]
  BY DEF WholeInv, DataType
<1>2. kind \in [Uploads -> {"new", "edit", "guest"}] /\ base \in [Uploads -> Nat]
  BY DEF EditInv, Shape
<1>3. part \in [Uploads -> {Missing} \cup Seq(1..Size)]
  <2>1. \A u \in Uploads : part[u] \in {Missing} \cup Seq(1..Size)
    BY BytesOf DEF WholeInv, BytesOK, PartAt
  <2> QED BY <2>1 DEF UploadTypes, Tables
<1>4. blob \in [Uploads -> {Missing} \cup Seq(1..Size)]
  <2>1. \A u \in Uploads : blob[u] \in {Missing} \cup Seq(1..Size)
    BY BytesOf DEF UploadTypes, MovedBytes
  <2> QED BY <2>1 DEF UploadTypes, Tables
<1>5. req \in [Requests -> [pc : {"free", "flying", "waiting", "reading", "keep", "finish", "dropOld", "unlink"},
                           kind : {"none", "PATCH", "HEAD", "DELETE"}, up : Uploads \cup {NoReq},
                           from : 0..Size, to : 0..Size, got : 0..Size, cut : BOOLEAN, stopped : BOOLEAN]]
  <2>1. Phases = {"free", "flying", "waiting", "reading", "keep", "finish", "dropOld", "unlink"}
    BY DEF Phases, InHand, Active
  <2> QED BY <2>1 DEF WholeInv, LineInv, ReqType, Requested
<1>6. browser \in [Uploads -> [pc : {"new", "send", "ask", "wait"} \cup Ended, offset : 0..Size,
                              tries : 0..MaxTries, req : Requests \cup {NoReq}]]
  <2>1. browser \in [Uploads -> Browser] /\ \A u \in Uploads : browser[u].tries \in 0..MaxTries
    BY DEF WholeInv, DataType, UploadTypes, CountedTries
  <2>2. \A b \in Browser : b.tries \in 0..MaxTries =>
          b \in [pc : {"new", "send", "ask", "wait"} \cup Ended, offset : 0..Size, tries : 0..MaxTries, req : Requests \cup {NoReq}]
    BY DEF Browser
  <2> QED BY <2>1, <2>2
<1>7. queue \in [Uploads -> Seq(Requests)] /\ beside \subseteq Uploads /\ unlinking \subseteq Uploads
  BY DEF WholeInv, LineInv, QueueOK, DataType
<1> QED BY <1>1, <1>2, <1>3, <1>4, <1>5, <1>6, <1>7 DEF TypeOK, UploadTypes, Surroundings

\* route.ts and storage.ts as modelled: rows, parts, files, requests, lines and browsers keep their types,
\* the browser's failures in a row among them, which upload() counts up to MaxTries and no further.
THEOREM UploadTypeInvariant == Spec => []TypeOK
<1>1. Init => EditInv /\ WholeInv /\ UploadTypes
  BY WholeInit, UploadTypesInit DEF Init, EditInv, Shape, NotBegun, VersionTells, EditsBeside
<1>2. EditInv /\ WholeInv /\ UploadTypes /\ [Next]_vars => (EditInv /\ WholeInv /\ UploadTypes)'
  BY EditStep, WholeStep, UploadTypesStep
<1>3. EditInv /\ WholeInv /\ UploadTypes => TypeOK
  BY TypesHold
<1> QED BY <1>1, <1>2, <1>3, PTL DEF Spec

-----------------------------------------------------------------------------
(***************************************************************************)
(* Walks.                                                                  *)
(***************************************************************************)

LEMMA WalkHolds ==
  ASSUME NEW up, NEW n \in Nodes
  PROVE  n \in Walk(up, n) /\ Walk(up, n) \subseteq Nodes /\ ClosedUnder(up, Walk(up, n))
BY DEF Walk, ClosedUnder

\* A walk stays in whatever leads nowhere else.
LEMMA WalkLeast ==
  ASSUME NEW up, NEW n \in Nodes, NEW S \in SUBSET Nodes, n \in S, ClosedUnder(up, S)
  PROVE  Walk(up, n) \subseteq S
BY DEF Walk

LEMMA WalkGoesOn ==
  ASSUME NEW up, NEW n \in Nodes, NEW m \in Walk(up, n)
  PROVE  m \in Nodes /\ Walk(up, m) \subseteq Walk(up, n)
BY WalkHolds, WalkLeast

LEMMA WalkStep ==
  ASSUME NEW up, NEW n \in Nodes
  PROVE  /\ up[n] \in Nodes => Walk(up, n) = {n} \cup Walk(up, up[n])
         /\ up[n] \notin Nodes => Walk(up, n) = {n}
<1>1. ASSUME up[n] \in Nodes PROVE Walk(up, n) = {n} \cup Walk(up, up[n])
  <2> DEFINE S == {n} \cup Walk(up, up[n])
  <2>1. S \in SUBSET Nodes /\ n \in S /\ ClosedUnder(up, S)
    BY <1>1, WalkHolds DEF ClosedUnder
  <2>2. Walk(up, n) \subseteq S
    BY <2>1, WalkLeast
  <2>3. up[n] \in Walk(up, n)
    BY <1>1, WalkHolds DEF ClosedUnder
  <2> QED BY <2>2, <2>3, WalkGoesOn, WalkHolds
<1>2. ASSUME up[n] \notin Nodes PROVE Walk(up, n) = {n}
  <2>1. ClosedUnder(up, {n})
    BY <1>2 DEF ClosedUnder
  <2> QED BY <2>1, WalkLeast, WalkHolds
<1> QED BY <1>1, <1>2

Agree(up, up2, S) == \A m \in S : up2[m] = up[m]

\* Where two maps agree all along a walk, it is the same by both.
LEMMA WalkSame ==
  ASSUME NEW up, NEW up2, NEW n \in Nodes, Agree(up, up2, Walk(up, n))
  PROVE  Walk(up2, n) = Walk(up, n)
<1>1. ClosedUnder(up2, Walk(up, n))
  BY WalkHolds DEF ClosedUnder, Agree
<1>2. Walk(up2, n) \subseteq Walk(up, n)
  BY <1>1, WalkHolds, WalkLeast
<1>3. ClosedUnder(up, Walk(up2, n))
  BY <1>2, WalkHolds DEF ClosedUnder, Agree
<1>4. Walk(up, n) \subseteq Walk(up2, n)
  BY <1>3, WalkHolds, WalkLeast
<1> QED BY <1>2, <1>4

\* Where they differ at one node only, a walk that does not come by it.
LEMMA WalkAside ==
  ASSUME NEW up, NEW up2, NEW k \in Nodes, NEW n \in Nodes,
         Agree(up, up2, Nodes \ {k}),
         k \notin Walk(up, n) \/ k \notin Walk(up2, n)
  PROVE  Walk(up2, n) = Walk(up, n)
<1>1. CASE k \notin Walk(up, n)
  <2>1. Agree(up, up2, Walk(up, n))
    BY <1>1, WalkHolds DEF Agree
  <2> QED BY <2>1, WalkSame
<1>2. CASE k \notin Walk(up2, n)
  <2>1. Agree(up2, up, Walk(up2, n))
    BY <1>2, WalkHolds DEF Agree
  <2> QED BY <2>1, WalkSame
<1> QED BY <1>1, <1>2

-----------------------------------------------------------------------------
(***************************************************************************)
(* Tables whose nodes hang from their spaces' top folders.                 *)
(***************************************************************************)

Row == [space : Folders, parent : Folders \cup {Nil}, trashed : {"no", "young", "old"}]
Table == [Nodes -> {Absent} \cup Row]

Hangs(t, n) ==
  /\ t[n].space \in Walk(Up(t), n)
  /\ t[n].parent = Nil <=> t[n].space = n
  /\ t[n].parent = Nil => t[n].trashed = "no"
  /\ t[n].parent # Nil => t[t[n].parent] # Absent /\ t[t[n].parent].space = t[n].space
Tree(t) == t \in Table /\ \A n \in Nodes : t[n] # Absent => Hangs(t, n)

\* Under what has been in the trash long, nothing has been there for less long.
OldBelow(t) == \A n \in Nodes : t[n] # Absent /\ t[n].trashed = "young" =>
  \A m \in Walk(Up(t), n) : t[m].trashed # "old"

LEMMA NoNames == /\ \A n \in Nodes : n # Nil /\ n # Top /\ n # Unheld
                 /\ Folders \subseteq Nodes /\ Nil # Unheld
BY FeedAssumption DEF Nodes, Nil, Unheld

LEMMA RowsAre ==
  /\ Absent \notin Row
  /\ \A r \in Row : /\ r.space \in Folders /\ r.parent \in Folders \cup {Nil} /\ r.trashed \in {"no", "young", "old"}
                    /\ r # Absent
<1>1. \A r \in Row : "parent" \in DOMAIN r
  BY DEF Row
<1>2. "parent" \notin DOMAIN Absent
  BY DEF Absent
<1> QED BY <1>1, <1>2 DEF Row

LEMMA UpLeads ==
  ASSUME NEW t \in Table, NEW n \in Nodes
  PROVE  /\ t[n] = Absent => Up(t)[n] = Nil
         /\ t[n] # Absent => Up(t)[n] = t[n].parent /\ t[n] \in Row
BY DEF Up, Table

\* What hangs together is there, all of it, and in one space.
LEMMA OneSpace ==
  ASSUME NEW t, Tree(t), NEW n \in Nodes, t[n] # Absent
  PROVE  /\ \A m \in Walk(Up(t), n) : t[m] # Absent /\ t[m].space = t[n].space
         /\ t[n].space \in Folders /\ t[t[n].space] # Absent /\ t[t[n].space].parent = Nil
<1> DEFINE S == {m \in Nodes : t[m] # Absent /\ t[m].space = t[n].space}
<1>1. ClosedUnder(Up(t), S)
  <2> SUFFICES ASSUME NEW m \in S, Up(t)[m] \in Nodes PROVE Up(t)[m] \in S
    BY DEF ClosedUnder
  <2>1. Hangs(t, m) /\ Up(t)[m] = t[m].parent /\ t[m].parent # Nil
    BY UpLeads, NoNames DEF Tree
  <2> QED BY <2>1 DEF Hangs
<1>2. Walk(Up(t), n) \subseteq S
  BY <1>1, WalkLeast
<1>3. t[n].space \in S /\ t[n].space \in Folders
  BY <1>2, UpLeads, RowsAre DEF Tree, Hangs
<1> QED BY <1>2, <1>3 DEF Tree, Hangs

LEMMA WalkUp ==
  ASSUME NEW t, Tree(t), NEW n \in Nodes, t[n] # Absent
  PROVE  /\ t[n].parent = Nil => Walk(Up(t), n) = {n}
         /\ t[n].parent # Nil => t[n].parent \in Nodes /\ Walk(Up(t), n) = {n} \cup Walk(Up(t), t[n].parent)
BY UpLeads, RowsAre, NoNames, WalkStep DEF Tree

\* No node is inside itself.
LEMMA NoLoops ==
  ASSUME NEW t, Tree(t), NEW n \in Nodes, t[n] # Absent, t[n].parent # Nil
  PROVE  n \notin Walk(Up(t), t[n].parent)
<1> SUFFICES ASSUME n \in Walk(Up(t), t[n].parent) PROVE FALSE
  OBVIOUS
<1> DEFINE S == {m \in Walk(Up(t), n) : n \in Walk(Up(t), m)}
<1>1. S \in SUBSET Nodes /\ n \in S
  BY WalkHolds
<1>2. ClosedUnder(Up(t), S)
  <2> SUFFICES ASSUME NEW m \in S, Up(t)[m] \in Nodes PROVE Up(t)[m] \in S
    BY DEF ClosedUnder
  <2>1. m \in Nodes /\ Up(t)[m] \in Walk(Up(t), n)
    BY WalkHolds DEF ClosedUnder
  <2>2. t[m] # Absent /\ Up(t)[m] = t[m].parent /\ t[m].parent # Nil
    BY <2>1, OneSpace, UpLeads, NoNames DEF Tree
  <2>3. n = m \/ n \in Walk(Up(t), t[m].parent)
    BY <2>1, <2>2, WalkUp
  <2> QED BY <2>1, <2>2, <2>3
<1>3. t[n].space \in S
  BY <1>1, <1>2, WalkLeast DEF Tree, Hangs
<1>4. Walk(Up(t), t[n].space) = {t[n].space} /\ t[t[n].space].parent = Nil
  BY <1>3, OneSpace, WalkUp, NoNames
<1> QED BY <1>3, <1>4

-----------------------------------------------------------------------------
(***************************************************************************)
(* What the operations do to the tree.                                     *)
(***************************************************************************)

\* Rows that change, in the trash or not, where they are.
Stays(t, t2) ==
  /\ Tree(t) /\ t2 \in Table
  /\ \A n \in Nodes : /\ (t2[n] = Absent) <=> (t[n] = Absent)
                      /\ t[n] # Absent => t2[n].space = t[n].space /\ t2[n].parent = t[n].parent
                      /\ t[n] # Absent /\ t[n].parent = Nil => t2[n].trashed = "no"
LEMMA TreeStays ==
  ASSUME NEW t, NEW t2, Stays(t, t2)
  PROVE  Up(t2) = Up(t) /\ Tree(t2)
<1> USE DEF Stays
<1>1. Up(t2) = Up(t)
  BY DEF Up
<1>2. ASSUME NEW n \in Nodes, t2[n] # Absent PROVE Hangs(t2, n)
  <2>1. Hangs(t, n) /\ t[n] # Absent /\ t[n].parent \in Nodes \cup {Nil}
    BY <1>2, UpLeads, RowsAre, NoNames DEF Tree
  <2> QED BY <1>1, <1>2, <2>1 DEF Hangs
<1> QED BY <1>1, <1>2 DEF Tree

\* A new node, in a folder there is or the top of a space.
Gains(t, t2, n, r) ==
  /\ Tree(t) /\ n \in Nodes /\ t[n] = Absent /\ t2 = [t EXCEPT ![n] = r]
  /\ r \in Row /\ r.trashed = "no"
  /\ \/ r.parent = Nil /\ r.space = n
     \/ r.parent \in Nodes /\ t[r.parent] # Absent /\ r.space = t[r.parent].space
LEMMA TreeGains ==
  ASSUME NEW t, NEW t2, NEW n, NEW r, Gains(t, t2, n, r)
  PROVE  /\ Tree(t2)
         /\ \A m \in Nodes : t[m] # Absent => Walk(Up(t2), m) = Walk(Up(t), m) /\ n \notin Walk(Up(t), m)
<1> USE DEF Gains
<1>1. t2 \in Table /\ \A m \in Nodes : t2[m] = IF m = n THEN r ELSE t[m]
  BY DEF Tree, Table
<1>2. Agree(Up(t), Up(t2), Nodes \ {n})
  BY <1>1 DEF Up, Agree
<1>3. ASSUME NEW m \in Nodes, t[m] # Absent
      PROVE  n \notin Walk(Up(t), m) /\ Walk(Up(t2), m) = Walk(Up(t), m)
  <2>1. n \notin Walk(Up(t), m)
    BY <1>3, OneSpace
  <2> QED BY <1>2, <2>1, WalkAside
<1>4. ASSUME NEW m \in Nodes, t2[m] # Absent PROVE Hangs(t2, m)
  <2>1. CASE m # n
    <3>1. Hangs(t, m) /\ t2[m] = t[m] /\ t[m].parent \in Nodes \cup {Nil}
      BY <1>1, <1>4, <2>1, UpLeads, RowsAre, NoNames DEF Tree
    <3>2. t[m].parent # Nil => t[m].parent # n
      BY <3>1 DEF Hangs
    <3> QED BY <1>1, <1>3, <1>4, <2>1, <3>1, <3>2 DEF Hangs
  <2>2. CASE m = n /\ r.parent = Nil
    <3>1. t2[m] = r /\ r.space = m /\ m \in Walk(Up(t2), m)
      BY <1>1, <2>2, NoNames, WalkHolds
    <3>2. t2[m].parent = Nil /\ t2[m].space = m /\ t2[m].trashed = "no"
      BY <2>2, <3>1
    <3> QED BY <3>1, <3>2 DEF Hangs
  <2>3. CASE m = n /\ r.parent # Nil
    <3>1. r.parent \in Nodes /\ t[r.parent] # Absent /\ r.space = t[r.parent].space /\ r.parent # n
      BY <2>3
    <3>2. Up(t2)[n] = r.parent
      BY <1>1, RowsAre DEF Up
    <3>3. r.space \in Walk(Up(t2), r.parent)
      BY <1>3, <3>1 DEF Tree, Hangs
    <3>4. r.space \in Walk(Up(t2), n)
      BY <3>1, <3>2, <3>3, WalkStep
    <3>5. r.space # n
      BY <3>1, OneSpace
    <3> QED BY <1>1, <2>3, <3>1, <3>4, <3>5 DEF Hangs
  <2> QED BY <2>1, <2>2, <2>3
<1> QED BY <1>1, <1>3, <1>4 DEF Tree

\* A node goes to another folder of its space, not inside itself.
Moves(t, t2, n, to, r) ==
  /\ Tree(t) /\ n \in Nodes /\ t[n] # Absent /\ t[n].parent # Nil /\ t2 = [t EXCEPT ![n] = r]
  /\ to \in Folders /\ t[to] # Absent /\ t[to].space = t[n].space /\ n \notin Walk(Up(t), to)
  /\ r \in Row /\ r.space = t[n].space /\ r.parent = to /\ r.trashed = "no"
  /\ \A k \in Walk(Up(t), to) : t[k].trashed # "old"
LEMMA TreeMoves ==
  ASSUME NEW t, NEW t2, NEW n, NEW to, NEW r, Moves(t, t2, n, to, r)
  PROVE  /\ Tree(t2)
         /\ \A m \in Nodes : \/ n \notin Walk(Up(t), m) /\ Walk(Up(t2), m) = Walk(Up(t), m)
                             \/ Walk(Up(t2), m) \subseteq Walk(Up(t), m) \cup Walk(Up(t), to)
<1> USE DEF Moves
<1>1. t2 \in Table /\ \A m \in Nodes : t2[m] = IF m = n THEN r ELSE t[m]
  BY DEF Tree, Table
<1>2. Up(t2)[n] = to /\ Agree(Up(t), Up(t2), Nodes \ {n})
  BY <1>1, RowsAre DEF Up, Agree
<1>3. ASSUME NEW m \in Nodes, n \notin Walk(Up(t), m) \/ n \notin Walk(Up(t2), m)
      PROVE  Walk(Up(t2), m) = Walk(Up(t), m)
  BY <1>2, <1>3, WalkAside
<1>5. to \in Nodes /\ Walk(Up(t2), to) = Walk(Up(t), to) /\ t[n].space \in Walk(Up(t2), to)
  <2>1. to \in Nodes
    BY NoNames
  <2>2. t[n].space \in Walk(Up(t), to)
    BY <2>1 DEF Tree, Hangs
  <2> QED BY <1>3, <2>1, <2>2
<1>6. ASSUME NEW m \in Nodes, t[m] # Absent PROVE t[m].space \in Walk(Up(t2), m)
  <2>1. CASE n \notin Walk(Up(t2), m)
    BY <1>3, <1>6, <2>1 DEF Tree, Hangs
  <2>2. CASE n \in Walk(Up(t2), m)
    <3>1. n \in Walk(Up(t), m)
      BY <1>3, <2>2
    <3>2. t[m].space = t[n].space
      BY <1>6, <3>1, OneSpace
    <3>3. to \in Walk(Up(t2), m)
      BY <1>2, <1>5, <2>2, WalkHolds DEF ClosedUnder
    <3> QED BY <1>5, <3>2, <3>3, WalkGoesOn
  <2> QED BY <2>1, <2>2
<1>7. ASSUME NEW m \in Nodes, t2[m] # Absent PROVE Hangs(t2, m)
  <2>1. Hangs(t, m) /\ t[m] # Absent /\ t[m].parent \in Nodes \cup {Nil} /\ t2[m].space = t[m].space
    BY <1>1, <1>7, UpLeads, RowsAre, NoNames DEF Tree
  <2>2. t2[m].space \in Walk(Up(t2), m)
    BY <1>6, <2>1
  <2>3. \A k \in Nodes : t[k] # Absent => t2[k] # Absent /\ t2[k].space = t[k].space
    BY <1>1, RowsAre
  <2>4. CASE m # n
    BY <1>1, <2>1, <2>2, <2>3, <2>4 DEF Hangs
  <2>5. CASE m = n
    <3>1. t2[m].parent = to /\ to # Nil /\ t[n].space # n
      BY <1>1, <1>5, <2>1, <2>5, NoNames DEF Hangs
    <3> QED BY <1>1, <1>5, <2>2, <2>3, <2>5, <3>1 DEF Hangs
  <2> QED BY <2>4, <2>5
<1>8. ASSUME NEW m \in Nodes PROVE Walk(Up(t2), m) \subseteq Walk(Up(t), m) \cup Walk(Up(t), to)
  <2> DEFINE S == Walk(Up(t), m) \cup Walk(Up(t), to)
  <2>1. S \in SUBSET Nodes /\ m \in S
    BY <1>5, WalkHolds
  <2>2. ClosedUnder(Up(t2), S)
    BY <1>2, <1>5, WalkHolds DEF ClosedUnder, Agree
  <2> QED BY <2>1, <2>2, WalkLeast
<1> QED BY <1>1, <1>3, <1>7, <1>8 DEF Tree

\* A folder becomes the top of a space of its own, with all that is under it.
Parts(t, t2, f) ==
  /\ Tree(t) /\ f \in Folders /\ t[f] # Absent
  /\ t2 = [n \in Nodes |-> IF n = f THEN AsSpace(f)
            ELSE IF t[n] # Absent /\ f \in Walk(Up(t), n) THEN [t[n] EXCEPT !.space = f] ELSE t[n]]
LEMMA TreeParts ==
  ASSUME NEW t, NEW t2, NEW f, Parts(t, t2, f)
  PROVE  /\ Tree(t2)
         /\ \A n \in Nodes : t[n] # Absent => t2[n] # Absent /\ Walk(Up(t2), n) \subseteq Walk(Up(t), n)
<1> USE DEF Parts
<1>1. AsSpace(f) \in Row /\ AsSpace(f).space = f /\ AsSpace(f).parent = Nil /\ AsSpace(f).trashed = "no" /\ f \in Nodes
  BY NoNames DEF AsSpace, Row
<1>2. ASSUME NEW n \in Nodes, t[n] # Absent, n # f, f \in Walk(Up(t), n)
      PROVE  t2[n] \in Row /\ t2[n] # Absent /\ t2[n].space = f /\ t2[n].parent = t[n].parent /\ t2[n].trashed = t[n].trashed
  <2>1. t[n] \in Row
    BY <1>2, UpLeads DEF Tree
  <2>2. [t[n] EXCEPT !.space = f] \in Row
    BY <2>1 DEF Row
  <2> QED BY <1>2, <2>1, <2>2, RowsAre DEF Row
<1>3. Agree(Up(t), Up(t2), Nodes \ {f})
  BY <1>2 DEF Up, Agree
<1>4. Up(t2)[f] = Nil
  BY <1>1, RowsAre DEF Up
<1>5. ASSUME NEW n \in Nodes, f \notin Walk(Up(t), n) \/ f \notin Walk(Up(t2), n)
      PROVE  Walk(Up(t2), n) = Walk(Up(t), n)
  BY <1>1, <1>3, <1>5, WalkAside
<1>7. ASSUME NEW n \in Nodes PROVE Walk(Up(t2), n) \subseteq Walk(Up(t), n)
  <2>1. ClosedUnder(Up(t2), Walk(Up(t), n))
    BY <1>3, <1>4, NoNames, WalkHolds DEF ClosedUnder, Agree
  <2> QED BY <2>1, WalkLeast, WalkHolds
<1>8. ASSUME NEW n \in Nodes, t2[n] # Absent PROVE Hangs(t2, n)
  <2>1. CASE n = f
    BY <1>1, <2>1, WalkHolds DEF Hangs
  <2>2. CASE n # f /\ t[n] # Absent /\ f \in Walk(Up(t), n)
    <3>1. f \in Walk(Up(t2), n)
      BY <1>5, <2>2
    <3>2. t[n].parent # Nil /\ t[n].parent \in Nodes /\ f \in Walk(Up(t), t[n].parent)
      BY <2>2, WalkUp, UpLeads, RowsAre DEF Tree
    <3>3. t[t[n].parent] # Absent
      BY <2>2, <3>2 DEF Tree, Hangs
    <3>4. t2[t[n].parent] # Absent /\ t2[t[n].parent].space = f
      BY <1>1, <1>2, <3>2, <3>3, RowsAre
    <3> QED BY <1>2, <2>2, <3>1, <3>2, <3>4 DEF Hangs
  <2>3. CASE n # f /\ t[n] # Absent /\ f \notin Walk(Up(t), n)
    <3>1. t2[n] = t[n] /\ Walk(Up(t2), n) = Walk(Up(t), n) /\ Hangs(t, n)
      BY <1>5, <2>3 DEF Tree
    <3>2. t[n].parent # Nil => t[n].parent \in Nodes /\ t2[t[n].parent] = t[t[n].parent]
      <4> SUFFICES ASSUME t[n].parent # Nil PROVE t[n].parent \in Nodes /\ t2[t[n].parent] = t[t[n].parent]
        OBVIOUS
      <4>1. t[n].parent \in Nodes /\ f \notin Walk(Up(t), t[n].parent)
        BY <2>3, WalkUp
      <4>2. t[n].parent # f
        BY <4>1, WalkHolds
      <4> QED BY <4>1, <4>2
    <3> QED BY <3>1, <3>2 DEF Hangs
  <2>4. CASE n # f /\ t[n] = Absent
    BY <1>8, <2>4
  <2> QED BY <2>1, <2>2, <2>3, <2>4
<1>9. \A n \in Nodes : t[n] # Absent => t2[n] # Absent
  BY <1>1, <1>2, RowsAre
<1>10. t2 \in Table
  <2>1. \A n \in Nodes : t2[n] \in {Absent} \cup Row
    <3>1. \A n \in Nodes : t[n] \in {Absent} \cup Row
      BY DEF Tree, Table
    <3> QED BY <1>1, <1>2, <3>1
  <2> QED BY <2>1 DEF Table
<1> QED BY <1>7, <1>8, <1>9, <1>10 DEF Tree

\* What was trashed goes, with all that is under it.
Loses(t, t2, K) ==
  /\ Tree(t) /\ K \subseteq Nodes
  /\ t2 = [n \in Nodes |-> IF t[n] # Absent /\ (\E k \in K : k \in Walk(Up(t), n)) THEN Absent ELSE t[n]]
LEMMA TreeLoses ==
  ASSUME NEW t, NEW t2, NEW K, Loses(t, t2, K)
  PROVE  /\ Tree(t2)
         /\ \A n \in Nodes : t2[n] # Absent => t2[n] = t[n] /\ Walk(Up(t2), n) = Walk(Up(t), n)
<1> USE DEF Loses
<1>1. t2 \in Table
  BY DEF Tree, Table
<1>2. ASSUME NEW n \in Nodes, t2[n] # Absent
      PROVE  t[n] # Absent /\ t2[n] = t[n] /\ \A m \in Walk(Up(t), n) : t2[m] = t[m]
  <2>1. t[n] # Absent /\ t2[n] = t[n] /\ \A k \in K : k \notin Walk(Up(t), n)
    BY <1>2
  <2>2. ASSUME NEW m \in Walk(Up(t), n) PROVE t2[m] = t[m]
    <3>1. m \in Nodes /\ Walk(Up(t), m) \subseteq Walk(Up(t), n)
      BY WalkGoesOn
    <3>2. \A k \in K : k \notin Walk(Up(t), m)
      BY <2>1, <3>1
    <3> QED BY <3>1, <3>2
  <2> QED BY <2>1, <2>2
<1>3. ASSUME NEW n \in Nodes, t2[n] # Absent PROVE Walk(Up(t2), n) = Walk(Up(t), n)
  <2>1. Agree(Up(t), Up(t2), Walk(Up(t), n))
    BY <1>2, <1>3, WalkHolds DEF Up, Agree
  <2> QED BY <2>1, WalkSame
<1>4. ASSUME NEW n \in Nodes, t2[n] # Absent PROVE Hangs(t2, n)
  <2>1. Hangs(t, n) /\ t2[n] = t[n] /\ t[n] # Absent
    BY <1>2, <1>4 DEF Tree
  <2>2. t[n].parent # Nil => t2[t[n].parent] = t[t[n].parent]
    BY <1>2, <1>4, <2>1, WalkUp, WalkHolds
  <2> QED BY <1>3, <1>4, <2>1, <2>2 DEF Hangs
<1> QED BY <1>1, <1>2, <1>3, <1>4 DEF Tree

\* None of it puts what is young in the trash under what is old.
LEMMA OldStaysBelow ==
  ASSUME NEW t, NEW t2, OldBelow(t), NEW n, NEW to, NEW r,
         Gains(t, t2, n, r) \/ Moves(t, t2, n, to, r) \/ Parts(t, t2, n) \/ Loses(t, t2, n)
  PROVE  OldBelow(t2)
<1> SUFFICES ASSUME NEW m \in Nodes, t2[m] # Absent, t2[m].trashed = "young", NEW k \in Walk(Up(t2), m)
             PROVE  t2[k].trashed # "old"
  BY DEF OldBelow
<1>1. k \in Nodes
  BY WalkHolds
<1>2. CASE Gains(t, t2, n, r)
  <2>1. \A j \in Nodes : t2[j] = IF j = n THEN r ELSE t[j]
    BY <1>2 DEF Gains, Tree, Table
  <2>2. t[m] # Absent /\ t2[m] = t[m] /\ r.trashed = "no"
    BY <1>2, <2>1 DEF Gains
  <2>3. k \in Walk(Up(t), m)
    BY <1>2, <2>2, TreeGains
  <2> QED BY <1>1, <2>1, <2>2, <2>3 DEF OldBelow
<1>3. CASE Moves(t, t2, n, to, r)
  <2>1. \A j \in Nodes : t2[j] = IF j = n THEN r ELSE t[j]
    BY <1>3 DEF Moves, Tree, Table
  <2>2. m # n /\ t2[m] = t[m] /\ r.trashed = "no"
    BY <1>3, <2>1 DEF Moves
  <2>3. k \in Walk(Up(t), m) \cup Walk(Up(t), to)
    BY <1>3, TreeMoves
  <2>4. t[k].trashed # "old"
    BY <1>1, <1>3, <2>2, <2>3 DEF OldBelow, Moves
  <2> QED BY <1>1, <2>1, <2>2, <2>4
<1>4. CASE Parts(t, t2, n)
  <2>1. /\ AsSpace(n).trashed = "no" /\ t2[n] = AsSpace(n)
        /\ \A j \in Nodes : j # n /\ t[j] # Absent => t2[j] \in {t[j], [t[j] EXCEPT !.space = n]} /\ t[j] \in Row
        /\ \A j \in Nodes : j # n /\ t[j] = Absent => t2[j] = Absent
    BY <1>4, NoNames DEF Parts, AsSpace, Tree, Table
  <2>2. \A j \in Nodes : j # n /\ t[j] # Absent => t2[j].trashed = t[j].trashed
    BY <2>1 DEF Row
  <2>3. m # n /\ t[m] # Absent /\ t[m].trashed = "young"
    BY <2>1, <2>2
  <2>4. k \in Walk(Up(t), m) /\ t[k] # Absent
    BY <1>4, <2>3, TreeParts, OneSpace DEF Parts
  <2> QED BY <1>1, <2>1, <2>2, <2>3, <2>4 DEF OldBelow
<1>5. CASE Loses(t, t2, n)
  <2>1. t2[m] = t[m] /\ Walk(Up(t2), m) = Walk(Up(t), m)
    BY <1>5, TreeLoses
  <2>2. t2[k] # Absent
    BY <1>5, TreeLoses, OneSpace
  <2>3. t2[k] = t[k]
    BY <1>1, <1>5, <2>2, TreeLoses
  <2> QED BY <2>1, <2>3 DEF OldBelow
<1> QED BY <1>2, <1>3, <1>4, <1>5

-----------------------------------------------------------------------------
(***************************************************************************)
(* The tree, whatever is done to it.                                       *)
(***************************************************************************)

Members ==
  /\ role \in [Folders -> [People -> DOMAIN Rank]]
  /\ \A s \in Folders : (\E p \in People : role[s][p] # "none") => node[s] # Absent /\ node[s].parent = Nil
Made == made \subseteq Nodes /\ \A n \in Nodes : node[n] # Absent => n \in made
TreeInv == Tree(node) /\ OldBelow(node) /\ Members /\ Made

\* No node goes.
NoneGo == \A n \in Nodes : node[n] # Absent => node'[n] # Absent

LEMMA TreeInit == FeedInit => TreeInv
<1> SUFFICES ASSUME FeedInit PROVE TreeInv
  OBVIOUS
<1> DEFINE In == [m \in Nodes |-> IF m \in DOMAIN Within THEN Within[m] ELSE Nil]
<1>1. /\ FirstSpace \in Nodes /\ FirstSpace \in Folders /\ FirstSpace \notin DOMAIN Within /\ DOMAIN Within \subseteq Nodes
      /\ \A n \in DOMAIN Within : /\ Within[n] \in Folders /\ Within[n] \in DOMAIN Within \cup {FirstSpace}
                                  /\ FirstSpace \in Walk(In, n) /\ Within[n] \in Nodes /\ Within[n] # Nil
  BY FeedAssumption, NoNames
<1>2. /\ made = {FirstSpace} \cup DOMAIN Within
      /\ \A n \in Nodes : node[n] = IF n \notin made THEN Absent ELSE
           [space |-> FirstSpace, parent |-> IF n = FirstSpace THEN Nil ELSE Within[n], trashed |-> "no"]
  BY DEF FeedInit
<1>3. \A n \in made : /\ node[n] \in Row /\ node[n] # Absent /\ node[n].space = FirstSpace /\ node[n].trashed = "no"
                      /\ node[n].parent = IF n = FirstSpace THEN Nil ELSE Within[n]
  <2> SUFFICES ASSUME NEW n \in made
               PROVE  /\ node[n] \in Row /\ node[n] # Absent /\ node[n].space = FirstSpace /\ node[n].trashed = "no"
                      /\ node[n].parent = IF n = FirstSpace THEN Nil ELSE Within[n]
    OBVIOUS
  <2>1. n \in Nodes /\ (n # FirstSpace => n \in DOMAIN Within)
    BY <1>1, <1>2
  <2>2. node[n] = [space |-> FirstSpace, parent |-> IF n = FirstSpace THEN Nil ELSE Within[n], trashed |-> "no"]
    BY <1>2, <2>1
  <2> DEFINE p == IF n = FirstSpace THEN Nil ELSE Within[n]
  <2>4. p \in Folders \cup {Nil}
    BY <1>1, <2>1
  <2> HIDE DEF p
  <2>3. [space |-> FirstSpace, parent |-> p, trashed |-> "no"] \in Row
    BY <1>1, <2>4 DEF Row
  <2> USE DEF p
  <2> QED BY <2>2, <2>3, RowsAre
<1>4. node \in Table
  <2>1. node = [n \in Nodes |-> node[n]]
    BY DEF FeedInit
  <2> QED BY <1>2, <1>3, <2>1 DEF Table
<1>5. Agree(In, Up(node), Nodes)
  BY <1>1, <1>2, <1>3 DEF Up, Agree
<1>6. ASSUME NEW n \in Nodes, node[n] # Absent PROVE Hangs(node, n)
  <2>1. n \in made /\ node[n].space = FirstSpace /\ node[n].trashed = "no"
    BY <1>2, <1>3, <1>6
  <2>2. Walk(Up(node), n) = Walk(In, n)
    <3>1. Agree(In, Up(node), Walk(In, n))
      BY <1>5, WalkHolds DEF Agree
    <3> QED BY <3>1, WalkSame
  <2>3. CASE n = FirstSpace
    BY <1>3, <2>1, <2>3, WalkHolds DEF Hangs
  <2>4. CASE n # FirstSpace
    <3>1. n \in DOMAIN Within /\ node[n].parent = Within[n]
      BY <1>2, <1>3, <2>1, <2>4
    <3>2. Within[n] \in made /\ node[n].parent # Nil
      BY <1>1, <1>2, <3>1
    <3> QED BY <1>1, <1>3, <2>1, <2>2, <2>4, <3>1, <3>2 DEF Hangs
  <2> QED BY <2>3, <2>4
<1>7. Tree(node)
  BY <1>4, <1>6 DEF Tree
<1>8. OldBelow(node)
  BY <1>2, <1>3 DEF OldBelow
<1>9. Members
  <2>1. PICK mine \in Roles : role = [s \in Folders |-> [p \in People |->
          IF s # FirstSpace THEN "none" ELSE IF p = Owner THEN "owner" ELSE IF p = Me THEN mine ELSE "none"]]
    BY DEF FeedInit
  <2>2. Roles \subseteq DOMAIN Rank /\ {"none", "owner"} \subseteq DOMAIN Rank
    BY FeedAssumption DEF Rank
  <2>3. role \in [Folders -> [People -> DOMAIN Rank]]
    BY <2>1, <2>2
  <2>4. FirstSpace \in made
    BY <1>2
  <2> QED BY <1>3, <2>1, <2>3, <2>4 DEF Members
<1>10. Made
  BY <1>1, <1>2 DEF Made
<1> QED BY <1>7, <1>8, <1>9, <1>10 DEF TreeInv

\* What is not in the trash is there, with nothing above it there.
LEMMA NotTrashed ==
  ASSUME Tree(node), NEW n \in Nodes, Exists(n), ~inTrash(n)
  PROVE  /\ node[n].trashed = "no"
         /\ \A m \in Walk(Up(node), n) : node[m] # Absent /\ node[m].trashed = "no"
BY WalkHolds DEF inTrash, Chain, Exists

LEMMA Inserts ==
  ASSUME TreeInv, NEW n \in Nodes, NEW f \in Folders, insert(n, f)
  PROVE  TreeInv' /\ NoneGo
<1>1. /\ f \in Nodes /\ node[f] # Absent /\ n \notin made /\ node[n] = Absent /\ Tree(node) /\ OldBelow(node)
      /\ node[f].space \in Folders
  BY UpLeads, RowsAre, NoNames DEF insert, nodeFor, CanReach, Exists, TreeInv, Made, Tree
<1> DEFINE r == [space |-> node[f].space, parent |-> f, trashed |-> "no"]
<1>2. r \in Row /\ r.space = node[f].space /\ r.parent = f /\ r.trashed = "no"
  BY <1>1 DEF Row
<1>3. node' = [node EXCEPT ![n] = r] /\ made' = made \cup {n} /\ role' = role
  BY DEF insert
<1> HIDE DEF r
<1>4. Gains(node, node', n, r)
  BY <1>1, <1>2, <1>3 DEF Gains
<1>5. \A m \in Nodes : m # n => node'[m] = node[m]
  BY <1>1, <1>3 DEF Tree, Table
<1>7. OldBelow(node')
  BY <1>1, <1>4, OldStaysBelow
<1>6. Tree(node')
  BY <1>4, TreeGains
<1>8. Members' /\ Made'
  BY <1>1, <1>3, <1>5 DEF TreeInv, Members, Made
<1>9. NoneGo
  BY <1>1, <1>5 DEF NoneGo
<1> QED BY <1>6, <1>7, <1>8, <1>9 DEF TreeInv

LEMMA Moving ==
  ASSUME TreeInv, NEW n \in Nodes, NEW f \in Folders, moveNode(n, f)
  PROVE  TreeInv' /\ NoneGo
<1>1. /\ f \in Nodes /\ node[f] # Absent /\ node[n] # Absent /\ Tree(node) /\ OldBelow(node) /\ node[n] \in Row
      /\ node[n].parent # Nil /\ node[n].trashed = "no" /\ node[f].space = node[n].space
      /\ n \notin Walk(Up(node), f) /\ \A m \in Walk(Up(node), f) : node[m].trashed # "old"
  BY NotTrashed, UpLeads, NoNames DEF moveNode, nodeFor, CanReach, isRoot, Fits, Exists, Chain, TreeInv, Tree
<1> DEFINE r == [node[n] EXCEPT !.parent = f]
<1>2. r \in Row /\ r.space = node[n].space /\ r.parent = f /\ r.trashed = "no"
  BY <1>1 DEF Row
<1>3. node' = [node EXCEPT ![n] = r] /\ made' = made /\ role' = role
  BY DEF moveNode
<1> HIDE DEF r
<1>4. Moves(node, node', n, f, r)
  BY <1>1, <1>2, <1>3 DEF Moves
<1>5. \A m \in Nodes : m # n => node'[m] = node[m]
  BY <1>1, <1>3 DEF Tree, Table
<1>6. Tree(node') /\ OldBelow(node')
  BY <1>1, <1>4, TreeMoves, OldStaysBelow
<1>7. Members' /\ Made'
  BY <1>1, <1>3, <1>5 DEF TreeInv, Members, Made
<1>8. NoneGo
  BY <1>1, <1>2, <1>3, <1>5, RowsAre DEF NoneGo, Tree, Table
<1> QED BY <1>6, <1>7, <1>8 DEF TreeInv

LEMMA Restoring ==
  ASSUME TreeInv, NEW n \in Nodes, restoreNode(n)
  PROVE  TreeInv' /\ NoneGo
<1>1. /\ node[n] # Absent /\ Tree(node) /\ OldBelow(node) /\ node[n] \in Row /\ node[n].trashed # "no" /\ Hangs(node, n)
  BY UpLeads DEF restoreNode, CanReach, Exists, TreeInv, Tree
<1>2. node[n].parent # Nil /\ node[n].parent \in Folders /\ node[node[n].parent] # Absent
  BY <1>1, RowsAre DEF Hangs
<1> DEFINE s == node[n].space
<1>3. s \in Folders /\ s \in Nodes /\ node[s] # Absent /\ node[s].parent = Nil /\ node[s].space = s /\ node[s].trashed = "no"
  BY <1>1, OneSpace, NoNames DEF Tree, Hangs
<1> DEFINE to == IF inTrash(node[n].parent) THEN s ELSE node[n].parent
<1>4. /\ to \in Folders /\ node[to] # Absent /\ node[to].space = s
      /\ n \notin Walk(Up(node), to) /\ \A k \in Walk(Up(node), to) : node[k].trashed # "old"
  <2>1. CASE inTrash(node[n].parent)
    <3>1. Walk(Up(node), s) = {s}
      BY <1>1, <1>3, WalkUp
    <3> QED BY <1>1, <1>3, <2>1, <3>1
  <2>2. CASE ~inTrash(node[n].parent)
    <3>1. node[n].parent \in Nodes /\ n \notin Walk(Up(node), node[n].parent)
      BY <1>1, <1>2, NoLoops, NoNames
    <3>2. node[node[n].parent].space = s
      BY <1>1, <1>2 DEF Hangs
    <3> QED BY <1>1, <1>2, <2>2, <3>1, <3>2, NotTrashed DEF Exists
  <2> QED BY <2>1, <2>2
<1> DEFINE r == [node[n] EXCEPT !.trashed = "no", !.parent = to]
<1>5. node' = [node EXCEPT ![n] = r] /\ made' = made /\ role' = role
  <2>1. node' = [node EXCEPT ![n].trashed = "no", ![n].parent = to] /\ made' = made /\ role' = role
    BY DEF restoreNode
  <2> QED BY <1>1, <2>1 DEF Tree, Table
<1> HIDE DEF to
<1>6. r \in Row /\ r.space = s /\ r.parent = to /\ r.trashed = "no"
  BY <1>1, <1>4 DEF Row
<1> HIDE DEF r, s
<1>7. Moves(node, node', n, to, r)
  BY <1>1, <1>2, <1>4, <1>5, <1>6 DEF Moves, s
<1>8. \A m \in Nodes : m # n => node'[m] = node[m]
  BY <1>1, <1>5 DEF Tree, Table
<1>9. Tree(node') /\ OldBelow(node')
  BY <1>1, <1>7, TreeMoves, OldStaysBelow
<1>10. Members' /\ Made'
  BY <1>1, <1>2, <1>5, <1>8 DEF TreeInv, Members, Made
<1>11. NoneGo
  BY <1>1, <1>5, <1>6, <1>8, RowsAre DEF NoneGo, Tree, Table
<1> QED BY <1>9, <1>10, <1>11 DEF TreeInv

\* trashNode and the passing of time leave every node where it is.
LEMMA TrashKept ==
  ASSUME TreeInv, Stays(node, node'), OldBelow(node'), role' = role, made' = made
  PROVE  TreeInv' /\ NoneGo
<1>1. Tree(node') /\ \A n \in Nodes : node'[n] = Absent <=> node[n] = Absent
  BY TreeStays DEF Stays
<1>2. Members' /\ Made'
  BY <1>1, NoNames DEF TreeInv, Members, Made, Stays
<1> QED BY <1>1, <1>2 DEF TreeInv, NoneGo

\* What is put in the trash is not in it yet, so nothing above it is old there.
LEMMA Trashing ==
  ASSUME TreeInv, NEW n \in Nodes, trashNode(n)
  PROVE  TreeInv' /\ NoneGo
<1>1. /\ node[n] # Absent /\ Tree(node) /\ OldBelow(node) /\ node[n] \in Row /\ node[n].parent # Nil
      /\ \A m \in Walk(Up(node), n) : node[m].trashed = "no"
  BY NotTrashed, UpLeads DEF trashNode, nodeFor, CanReach, isRoot, Exists, TreeInv, Tree
<1> DEFINE r == [node[n] EXCEPT !.trashed = "young"]
<1>2. r \in Row /\ r.space = node[n].space /\ r.parent = node[n].parent /\ r.trashed = "young"
  BY <1>1 DEF Row
<1>3. node' = [node EXCEPT ![n] = r] /\ made' = made /\ role' = role
  BY DEF trashNode
<1> HIDE DEF r
<1>4. node' \in Table /\ \A m \in Nodes : node'[m] = IF m = n THEN r ELSE node[m]
  BY <1>1, <1>2, <1>3 DEF Tree, Table
<1>5. Stays(node, node')
  BY <1>1, <1>2, <1>4, RowsAre DEF Stays, Tree, Hangs
<1>6. OldBelow(node')
  <2>1. Up(node') = Up(node)
    BY <1>5, TreeStays
  <2>2. ASSUME NEW m \in Nodes, node'[m] # Absent, node'[m].trashed = "young", NEW k \in Walk(Up(node'), m)
        PROVE  node'[k].trashed # "old"
    <3>1. k \in Nodes /\ k \in Walk(Up(node), m)
      BY <2>1, <2>2, WalkHolds
    <3>2. CASE m = n
      BY <1>1, <1>2, <1>4, <3>1, <3>2
    <3>3. CASE m # n
      BY <1>1, <1>2, <1>4, <2>2, <3>1, <3>3 DEF OldBelow
    <3> QED BY <3>2, <3>3
  <2> QED BY <2>2 DEF OldBelow
<1> QED BY <1>3, <1>5, <1>6, TrashKept

LEMMA Ageing ==
  ASSUME TreeInv, Age
  PROVE  TreeInv' /\ NoneGo
<1>1. Tree(node) /\ made' = made /\ role' = role /\ node \in Table
  BY DEF Age, TreeInv, Tree
<1>2. node' = [n \in Nodes |-> IF node[n] # Absent /\ node[n].trashed = "young" THEN [node[n] EXCEPT !.trashed = "old"] ELSE node[n]]
  BY DEF Age, Exists
<1>3. ASSUME NEW n \in Nodes, node[n] # Absent
      PROVE  /\ node'[n] \in Row /\ node'[n].space = node[n].space /\ node'[n].parent = node[n].parent
             /\ node'[n].trashed = IF node[n].trashed = "no" THEN "no" ELSE "old"
  <2>1. node[n] \in Row /\ node[n].trashed \in {"no", "young", "old"}
    BY <1>1, <1>3, UpLeads, RowsAre
  <2>2. [node[n] EXCEPT !.trashed = "old"] \in Row
    BY <2>1 DEF Row
  <2> QED BY <1>2, <1>3, <2>1, <2>2 DEF Row
<1>4. \A n \in Nodes : node[n] = Absent => node'[n] = Absent
  BY <1>2
<1>5. node' \in Table
  <2>1. \A n \in Nodes : node'[n] \in {Absent} \cup Row
    BY <1>3, <1>4
  <2> QED BY <1>2, <2>1 DEF Table
<1>6. Stays(node, node')
  BY <1>1, <1>3, <1>4, <1>5, RowsAre DEF Stays, Tree, Hangs
<1>7. OldBelow(node')
  BY <1>3, <1>4 DEF OldBelow
<1> QED BY <1>1, <1>6, <1>7, TrashKept

\* emptyOldTrash, by what is under the nodes trashed long ago.
LongTrashed == {m \in Nodes : node[m] # Absent /\ node[m].trashed = "old"}
LEMMA Empties ==
  ASSUME Tree(node), emptyOldTrash
  PROVE  Loses(node, node', LongTrashed)
<1> DEFINE old == UNION {Under(n) : n \in {m \in Nodes : Exists(m) /\ node[m].trashed = "old"}}
<1>1. \A n \in Nodes : n \in old <=> node[n] # Absent /\ \E k \in LongTrashed : k \in Walk(Up(node), n)
  BY DEF Under, Chain, Exists, LongTrashed
<1>2. node' = [n \in Nodes |-> IF n \in old THEN Absent ELSE node[n]]
  BY DEF emptyOldTrash
<1> HIDE DEF old
<1>3. node' = [n \in Nodes |-> IF node[n] # Absent /\ \E k \in LongTrashed : k \in Walk(Up(node), n) THEN Absent ELSE node[n]]
  BY <1>1, <1>2
<1> QED BY <1>3 DEF Loses, LongTrashed

\* A top folder is never in the trash, so every space keeps its own.
LEMMA Emptying ==
  ASSUME TreeInv, emptyOldTrash
  PROVE  TreeInv'
<1>1. Loses(node, node', LongTrashed) /\ Tree(node) /\ OldBelow(node) /\ role' = role /\ made' = made
  BY Empties DEF TreeInv, emptyOldTrash
<1>2. Tree(node') /\ OldBelow(node')
  BY <1>1, TreeLoses, OldStaysBelow
<1>3. \A n \in Nodes : node'[n] = Absent \/ node'[n] = node[n]
  BY <1>1, TreeLoses
<1>4. ASSUME NEW s \in Folders, \E p \in People : role[s][p] # "none"
      PROVE  node'[s] # Absent /\ node'[s].parent = Nil
  <2>1. s \in Nodes /\ node[s] # Absent /\ node[s].parent = Nil /\ Hangs(node, s)
    BY <1>4, NoNames DEF TreeInv, Members, Tree
  <2>2. Walk(Up(node), s) = {s} /\ node[s].trashed = "no"
    BY <1>1, <2>1, WalkUp DEF Hangs
  <2>3. \A k \in LongTrashed : k \notin Walk(Up(node), s)
    BY <2>2 DEF LongTrashed
  <2>4. node'[s] = node[s]
    BY <1>1, <2>1, <2>3 DEF Loses
  <2> QED BY <2>1, <2>4
<1>5. Members' /\ Made'
  BY <1>1, <1>3, <1>4 DEF TreeInv, Members, Made
<1> QED BY <1>2, <1>5 DEF TreeInv

LEMMA TheRoles == {"owner", "viewer", "none"} \subseteq DOMAIN Rank /\ Roles \subseteq DOMAIN Rank
BY FeedAssumption DEF Rank

LEMMA Creating ==
  ASSUME TreeInv, NEW s \in Folders, NEW p \in People, NEW others, createSpace(s, p, others)
  PROVE  TreeInv' /\ NoneGo
<1>1. s \in Nodes /\ node[s] = Absent /\ Tree(node) /\ OldBelow(node) /\ role \in [Folders -> [People -> DOMAIN Rank]]
  BY NoNames DEF createSpace, TreeInv, Made, Members
<1> DEFINE r == AsSpace(s)
<1>2. r \in Row /\ r.space = s /\ r.parent = Nil /\ r.trashed = "no" /\ r # Absent
  BY <1>1, RowsAre DEF Row, AsSpace
<1> DEFINE rs == [q \in People |-> IF q = p THEN "owner" ELSE IF q \in others THEN "viewer" ELSE "none"]
<1>3. node' = [node EXCEPT ![s] = r] /\ made' = made \cup {s} /\ role' = [role EXCEPT ![s] = rs]
  BY DEF createSpace
<1>4. rs \in [People -> DOMAIN Rank]
  <2>1. {"owner", "viewer", "none"} \subseteq DOMAIN Rank
    BY TheRoles
  <2> QED BY <2>1
<1> HIDE DEF r, rs
<1>5. Gains(node, node', s, r)
  BY <1>1, <1>2, <1>3 DEF Gains
<1>6. Tree(node') /\ OldBelow(node')
  BY <1>1, <1>5, TreeGains, OldStaysBelow
<1>7. \A n \in Nodes : node'[n] = IF n = s THEN r ELSE node[n]
  BY <1>1, <1>3 DEF Tree, Table
<1>8. Made'
  BY <1>1, <1>3, <1>7 DEF TreeInv, Made
<1>9. Members'
  <2>1. role' \in [Folders -> [People -> DOMAIN Rank]] /\ \A d \in Folders : d # s => role'[d] = role[d]
    BY <1>1, <1>3, <1>4
  <2>2. ASSUME NEW d \in Folders, \E q \in People : role'[d][q] # "none" PROVE node'[d] # Absent /\ node'[d].parent = Nil
    <3>1. d \in Nodes
      BY NoNames
    <3>2. CASE d = s
      BY <1>2, <1>7, <3>1, <3>2
    <3>3. CASE d # s
      BY <1>7, <2>1, <2>2, <3>1, <3>3 DEF TreeInv, Members
    <3> QED BY <3>2, <3>3
  <2> QED BY <2>1, <2>2 DEF Members
<1>10. NoneGo
  BY <1>2, <1>7 DEF NoneGo
<1> QED BY <1>6, <1>8, <1>9, <1>10 DEF TreeInv

LEMMA Splits ==
  ASSUME TreeInv, NEW f \in Folders, NEW p \in People, NEW others, folderToSpace(f, p, others)
  PROVE  Parts(node, node', f)
<1>1. Tree(node) /\ node[f] # Absent
  BY DEF folderToSpace, nodeFor, CanReach, Exists, TreeInv
<1>2. \A n \in Nodes : n \in Moved(f) <=> node[n] # Absent /\ f \in Walk(Up(node), n)
  BY DEF Moved, Under, Chain, Exists
<1>3. node' = [n \in Nodes |-> IF n = f THEN AsSpace(f)
                 ELSE IF n \in Moved(f) THEN [node[n] EXCEPT !.space = f] ELSE node[n]]
  BY DEF folderToSpace
<1>4. node' = [n \in Nodes |-> IF n = f THEN AsSpace(f)
                 ELSE IF node[n] # Absent /\ f \in Walk(Up(node), n) THEN [node[n] EXCEPT !.space = f] ELSE node[n]]
  BY <1>2, <1>3
<1> QED BY <1>1, <1>4 DEF Parts

LEMMA Splitting ==
  ASSUME TreeInv, NEW f \in Folders, NEW p \in People, NEW others, folderToSpace(f, p, others)
  PROVE  TreeInv' /\ NoneGo
<1>1. Parts(node, node', f) /\ Tree(node) /\ OldBelow(node) /\ role \in [Folders -> [People -> DOMAIN Rank]]
  BY Splits DEF TreeInv, Members
<1> DEFINE rs == [q \in People |-> IF q = p THEN "owner" ELSE IF q \in others THEN "viewer" ELSE "none"]
<1>3. made' = made /\ role' = [role EXCEPT ![f] = rs]
  BY DEF folderToSpace
<1>4. rs \in [People -> DOMAIN Rank]
  <2>1. {"owner", "viewer", "none"} \subseteq DOMAIN Rank
    BY TheRoles
  <2> QED BY <2>1
<1> HIDE DEF rs
<1>6. Tree(node') /\ OldBelow(node')
  BY <1>1, TreeParts, OldStaysBelow
<1>7. \A n \in Nodes : node[n] = Absent => n = f \/ node'[n] = Absent
  BY <1>1 DEF Parts
<1>8. Made'
  BY <1>1, <1>3, <1>7 DEF TreeInv, Made, Parts
<1>9. Members'
  <2>1. role' \in [Folders -> [People -> DOMAIN Rank]] /\ \A d \in Folders : d # f => role'[d] = role[d]
    BY <1>1, <1>3, <1>4
  <2>2. ASSUME NEW d \in Folders, \E q \in People : role'[d][q] # "none" PROVE node'[d] # Absent /\ node'[d].parent = Nil
    <3>1. d \in Nodes
      BY NoNames
    <3>2. CASE d = f
      BY <1>1, <3>1, <3>2, RowsAre, TreeParts DEF Parts, AsSpace
    <3>3. CASE d # f
      <4>1. node[d] # Absent /\ node[d].parent = Nil
        BY <2>1, <2>2, <3>3 DEF TreeInv, Members
      <4>2. Walk(Up(node), d) = {d}
        BY <1>1, <3>1, <4>1, WalkUp
      <4>3. node'[d] = node[d]
        BY <1>1, <3>1, <3>3, <4>2 DEF Parts
      <4> QED BY <4>1, <4>3
    <3> QED BY <3>2, <3>3
  <2> QED BY <2>1, <2>2 DEF Members
<1>10. NoneGo
  BY <1>1, TreeParts DEF NoneGo, Parts
<1> QED BY <1>6, <1>8, <1>9, <1>10 DEF TreeInv

LEMMA Membering ==
  ASSUME TreeInv, NEW s \in Folders, NEW p \in People, NEW r \in Roles, setMember(s, p, r)
  PROVE  TreeInv' /\ NoneGo
<1>1. /\ node' = node /\ made' = made /\ role' = [role EXCEPT ![s][p] = r] /\ role \in [Folders -> [People -> DOMAIN Rank]]
      /\ \E q \in People : role[s][q] # "none"
  BY DEF setMember, Spaces, roleIn, TreeInv, Members
<1>2. role' \in [Folders -> [People -> DOMAIN Rank]]
  BY <1>1, TheRoles
<1>3. \A d \in Folders : d # s => role'[d] = role[d]
  BY <1>1
<1>4. Members'
  BY <1>1, <1>2, <1>3 DEF TreeInv, Members
<1> QED BY <1>1, <1>4 DEF TreeInv, Made, NoneGo

\* The rest leaves the tree alone.
Still == UNCHANGED <<node, made, role>>
LEMMA StillTree == TreeInv /\ Still => TreeInv' /\ NoneGo
BY DEF Still, TreeInv, Members, Made, NoneGo

LEMMA TreeNext == TreeInv /\ [FeedNext]_feedVars => TreeInv' /\ (NoneGo \/ emptyOldTrash)
<1> SUFFICES ASSUME TreeInv, [FeedNext]_feedVars PROVE TreeInv' /\ (NoneGo \/ emptyOldTrash)
  OBVIOUS
<1>1. ASSUME NEW n \in Nodes, change(n) PROVE Still
  BY <1>1 DEF change, Still
<1>2. ASSUME NEW s \in Folders, renameSpace(s) PROVE Still
  BY <1>2 DEF renameSpace, Still
<1>3. ASSUME NEW s \in Folders, OpenFolder(s) PROVE Still
  BY <1>3 DEF OpenFolder, List, drive, Still
<1>4. forgetOldChanges \/ Poll \/ StartOver \/ OpenTop => Still
  BY DEF forgetOldChanges, Poll, StartOver, OpenTop, List, drive, Still
<1>5. UNCHANGED feedVars => Still
  BY DEF feedVars, drive, Still
<1>6. Makers \subseteq People
  BY FeedAssumption
<1> QED BY <1>1, <1>2, <1>3, <1>4, <1>5, <1>6, StillTree, Inserts, Moving, Restoring, Trashing, Ageing,
           Emptying, Creating, Splitting, Membering DEF FeedNext

\* What TreeSound says, of any table that hangs together.
LEMMA TreesAreSound == TreeInv => TreeSound
<1> SUFFICES ASSUME TreeInv, NEW n \in Nodes, Exists(n)
             PROVE  /\ node[n].space \in Chain(n) /\ isRoot(node[n].space)
                    /\ node[n].parent # Nil => Exists(node[n].parent) /\ node[node[n].parent].space = node[n].space
                    /\ node[n].parent # Nil => n \notin Chain(node[n].parent)
  BY DEF TreeSound
<1>1. Tree(node) /\ node[n] # Absent /\ Hangs(node, n)
  BY DEF TreeInv, Exists, Tree
<1> QED BY <1>1, OneSpace, NoLoops DEF Hangs, Chain, isRoot, Exists

\* model.ts, moveNode's "inside itself" and folderToSpace's "everything under it": whatever is done to Drive,
\* every node hangs, through folders of its own space, from that space's top folder, and none inside itself.
THEOREM DriveTreeSound == FeedSpec => []TreeSound
<1>1. FeedInit => TreeInv
  BY TreeInit
<1>2. TreeInv /\ [FeedNext]_feedVars => TreeInv'
  BY TreeNext
<1>3. TreeInv => TreeSound
  BY TreesAreSound
<1> QED BY <1>1, <1>2, <1>3, PTL DEF FeedSpec

LEMMA OnlyOldGoes ==
  ASSUME TreeInv, emptyOldTrash, NEW n \in Nodes, Exists(n), ~Exists(n)'
  PROVE  node[n].trashed # "young" /\ inTrash(n)
<1>1. Loses(node, node', LongTrashed) /\ node[n] # Absent /\ node'[n] = Absent
  BY Empties DEF TreeInv, Exists
<1>2. PICK k \in LongTrashed : k \in Walk(Up(node), n)
  BY <1>1 DEF Loses
<1>3. k \in Nodes /\ node[k].trashed = "old"
  BY DEF LongTrashed
<1> QED BY <1>1, <1>2, <1>3 DEF TreeInv, OldBelow, inTrash, Chain

\* model.ts, emptyOldTrash, "trashed longer than [trashDays]": what goes for good has been in the trash that
\* long, by itself or with a folder, and nothing goes with it that was put there since.
THEOREM DriveThirtyDays == FeedSpec => ThirtyDays
<1>1. FeedInit => TreeInv
  BY TreeInit
<1>2. TreeInv /\ [FeedNext]_feedVars => TreeInv'
  BY TreeNext
<1>3. TreeInv /\ [FeedNext]_feedVars =>
        [\A n \in Nodes : Exists(n) /\ ~Exists(n)' => node[n].trashed # "young" /\ inTrash(n)]_feedVars
  BY TreeNext, OnlyOldGoes DEF NoneGo, Exists
<1> QED BY <1>1, <1>2, <1>3, PTL DEF FeedSpec, ThirtyDays

-----------------------------------------------------------------------------
(***************************************************************************)
(* Types.                                                                  *)
(***************************************************************************)

Entry == [node : Nodes, space : Folders \cup {Nil}, person : People \cup {Nil}]
LogTypes == log \in Seq(Entry) /\ forgotten \in BOOLEAN
DeviceTypes ==
  /\ held \in [Nodes -> Folders \cup {Nil, Unheld}]
  /\ opened \subseteq Folders \cup {Top}
  /\ stale \subseteq Nodes /\ blind \subseteq Nodes
Types == TreeInv /\ LogTypes /\ DeviceTypes

LEMMA TouchTypes ==
  ASSUME NEW n \in Nodes, NEW s \in Folders, NEW p \in People
  PROVE  /\ touch(n, s) \in Entry /\ touch(n, s).node = n /\ touch(n, s).space = s /\ touch(n, s).person = Nil
         /\ touchFor(s, p) \in Entry /\ touchFor(s, p).node = s /\ touchFor(s, p).space = Nil /\ touchFor(s, p).person = p
BY NoNames DEF touch, touchFor, Entry

\* The space of a node there is.
LEMMA SpaceOf ==
  ASSUME TreeInv, NEW n \in Nodes, Exists(n)
  PROVE  node[n].space \in Folders /\ node[n].parent \in Folders \cup {Nil} /\ node[n] \in Row /\ Hangs(node, n)
BY UpLeads, RowsAre DEF TreeInv, Tree, Exists

LEMMA EntryIs == \A r \in Entry : r.node \in Nodes /\ r.space \in Folders \cup {Nil} /\ r.person \in People \cup {Nil}
BY DEF Entry

LEMMA UntoldTypes == LogTypes => Untold \subseteq Nodes
<1>1. LogTypes => \A i \in 1..Len(log) : log[i] \in Entry
  BY DEF LogTypes
<1> QED BY <1>1, EntryIs DEF Untold

\* The log grows by what is written.
Writes(new) ==
  /\ log' = log \o new /\ new \in Seq(Entry) /\ Missed
  /\ held' = held /\ opened' = opened /\ forgotten' = forgotten /\ ~forgotten

LEMMA OneRow ==
  ASSUME LogTypes, NEW r \in Entry, log' = Append(log, r)
  PROVE  log' = log \o <<r>> /\ <<r>> \in Seq(Entry)
BY DEF LogTypes

LEMMA Inserting ==
  ASSUME Types, NEW n \in Nodes, NEW f \in Folders, insert(n, f)
  PROVE  Writes(<<touch(n, node[f].space)>>) /\ stale' = stale /\ Exists(f)
<1>1. Exists(f) /\ f \in Nodes
  BY NoNames DEF insert, nodeFor, CanReach
<1>2. touch(n, node[f].space) \in Entry
  BY <1>1, SpaceOf, TouchTypes, FeedAssumption DEF Types
<1> QED BY <1>1, <1>2, OneRow DEF insert, Writes, device, Types, Busy

\* change, trashNode, moveNode and restoreNode.
Alters(n) == /\ Exists(n) /\ ~isRoot(n)
             /\ \/ change(n) \/ trashNode(n) \/ restoreNode(n)
                \/ \E f \in Folders : moveNode(n, f)
LEMMA Altering ==
  ASSUME Types, NEW n \in Nodes,
         change(n) \/ trashNode(n) \/ restoreNode(n) \/ \E f \in Folders : moveNode(n, f)
  PROVE  Alters(n) /\ Writes(<<touch(n, node[n].space)>>) /\ Changed(n)
<1>1. Exists(n)
  BY DEF change, trashNode, restoreNode, moveNode, nodeFor, CanReach
<1>2. ~isRoot(n)
  BY <1>1, SpaceOf DEF change, trashNode, restoreNode, moveNode, isRoot, Types, Hangs
<1>3. touch(n, node[n].space) \in Entry
  BY <1>1, SpaceOf, TouchTypes, FeedAssumption DEF Types
<1>4. LogTypes
  BY DEF Types
<1>5. log' = Append(log, touch(n, node[n].space)) /\ Missed /\ Changed(n) /\ UNCHANGED <<forgotten, device>> /\ Busy
  BY DEF change, trashNode, restoreNode, moveNode
<1> QED BY <1>1, <1>2, <1>3, <1>4, <1>5, OneRow DEF Writes, device, Alters, Busy

LEMMA Renaming ==
  ASSUME Types, NEW s \in Folders, renameSpace(s)
  PROVE  Writes(<<touch(s, s)>>) /\ Changed(s)
<1>1. touch(s, s) \in Entry
  BY TouchTypes, NoNames, FeedAssumption
<1> QED BY <1>1, OneRow DEF renameSpace, Writes, device, Types, Busy

LEMMA Giving ==
  ASSUME Types, NEW s \in Folders, NEW p \in People, NEW r, setMember(s, p, r)
  PROVE  Writes(<<touchFor(s, p)>>) /\ stale' = stale
<1>1. touchFor(s, p) \in Entry
  BY TouchTypes, NoNames
<1> QED BY <1>1, OneRow DEF setMember, Writes, device, Types

LEMMA Starting ==
  ASSUME Types, NEW s \in Folders, NEW p \in People, NEW others, createSpace(s, p, others)
  PROVE  Writes(<<touch(s, s)>>) /\ stale' = stale
<1>1. touch(s, s) \in Entry
  BY TouchTypes, NoNames
<1> QED BY <1>1, OneRow DEF createSpace, Writes, device, Types, Busy

LEMMA Turning ==
  ASSUME Types, NEW f \in Folders, NEW p \in People, NEW others, folderToSpace(f, p, others)
  PROVE  Writes(<<touch(f, node[f].space), touch(f, f)>>) /\ Changed(f) /\ Exists(f) /\ ~isRoot(f)
<1>1. Exists(f) /\ f \in Nodes
  BY NoNames DEF folderToSpace, nodeFor, CanReach
<1>2. touch(f, node[f].space) \in Entry /\ touch(f, f) \in Entry
  BY <1>1, SpaceOf, TouchTypes DEF Types
<1> QED BY <1>1, <1>2 DEF folderToSpace, Writes, device, Types, Busy

LEMMA WritesTypes ==
  ASSUME Types, NEW new, Writes(new), NEW n \in Nodes, stale' = stale \/ Changed(n)
  PROVE  (LogTypes /\ DeviceTypes)'
<1>1. LogTypes'
  BY DEF Types, LogTypes, Writes
<1>2. Untold' \subseteq Nodes
  <2>1. \A i \in 1..Len(log') : log'[i] \in Entry
    BY <1>1 DEF LogTypes
  <2> QED BY <2>1, EntryIs DEF Untold
<1>3. blind' \subseteq Nodes
  BY <1>2 DEF Types, DeviceTypes, Writes, Missed
<1>4. stale' \subseteq Nodes
  BY DEF Types, DeviceTypes, Changed
<1> QED BY <1>1, <1>3, <1>4 DEF Types, DeviceTypes, Writes

LEMMA ShowTypes ==
  ASSUME Types, NEW these, NEW those, NEW folders \in SUBSET (Folders \cup {Top}), Show(these, those, folders),
         \A n \in these : Visible(n)
  PROVE  /\ held' \in [Nodes -> Folders \cup {Nil, Unheld}]
         /\ opened' \subseteq Folders \cup {Top}
         /\ stale' \subseteq Nodes
<1> DEFINE h == ShownAs(these, those)
           kept == Kept(h)
<1>1. h \in [Nodes -> Folders \cup {Nil, Unheld}]
  BY SpaceOf DEF ShownAs, Types, DeviceTypes, Visible
<1> HIDE DEF h
<1>2. held' = [n \in Nodes |-> IF n \in kept THEN h[n] ELSE Unheld]
  BY DEF Show, h
<1>3. held' \in [Nodes -> Folders \cup {Nil, Unheld}]
  BY <1>1, <1>2
<1> QED BY <1>3 DEF Show, Types, DeviceTypes

LEMMA PageIs ==
  ASSUME LogTypes
  PROVE  /\ Latest \subseteq Rows /\ Page \subseteq Latest /\ Rows \subseteq 1..Len(log) /\ Len(log) \in Nat
         /\ \A i \in 1..Len(log) : log[i] \in Entry
BY DEF LogTypes, Latest, Page, Rows

-----------------------------------------------------------------------------
(***************************************************************************)
(* Answers of the feed.                                                    *)
(***************************************************************************)

\* Sets of numbers have a least one, and those with a bound a greatest.
Less == {p \in Nat \X Nat : p[1] < p[2]}
LEMMA LessWF == IsWellFoundedOn(Less, Nat)
<1>1. OpToRel(<, Nat) = Less
  BY DEF OpToRel, Less
<1> QED BY <1>1, NatLessThanWellFounded
LEMMA HasMin == ASSUME NEW S \in SUBSET Nat, S # {} PROVE \E x \in S : \A y \in S : x <= y
<1>1. PICK x \in S : \A y \in S : ~ (<<y, x>> \in Less)
  BY LessWF, WFMin
<1>2. \A y \in S : <<y, x>> \in Nat \X Nat /\ <<y, x>>[1] = y /\ <<y, x>>[2] = x
  OBVIOUS
<1>3. \A y \in S : ~ (y < x)
  BY <1>1, <1>2 DEF Less
<1> QED BY <1>3
LEMMA HasMax == ASSUME NEW N \in Nat, NEW S \in SUBSET 0..N, S # {} PROVE \E x \in S : \A y \in S : y <= x
<1> DEFINE D == {N - y : y \in S}
<1>0. D \in SUBSET Nat /\ D # {}
  <2>1. \A y \in S : N - y \in Nat
    OBVIOUS
  <2>2. D \subseteq Nat
    BY <2>1
  <2>3. D # {}
    OBVIOUS
  <2> QED BY <2>2, <2>3
<1>1. PICK x \in D : \A z \in D : x <= z
  <2> HIDE DEF D
  <2> QED BY <1>0, HasMin
<1>2. PICK m \in S : x = N - m
  OBVIOUS
<1>3. ASSUME NEW y \in S PROVE y <= m
  <2>1. N - m <= N - y
    BY <1>1, <1>2
  <2>2. N \in Nat /\ y \in Int /\ m \in Int
    OBVIOUS
  <2> QED BY <2>1, <2>2
<1> QED BY <1>3

\* An answer ends somewhere, and what it leaves comes after.
LEMMA PageEnds ==
  ASSUME LogTypes, Page # Latest
  PROVE  /\ Max(Page) \in 1..Len(log) /\ Max(Page) \in Page
         /\ \A i \in Latest \ Page : Max(Page) < i
<1>0. Latest \subseteq 1..Len(log) /\ Page \subseteq Latest /\ Len(log) \in Nat
  BY PageIs
<1>1. Latest \in SUBSET Nat /\ Page \in SUBSET (0..Len(log)) /\ Latest # {}
  <2>1. 1..Len(log) \subseteq 0..Len(log) /\ 1..Len(log) \subseteq Nat
    BY <1>0
  <2>2. Latest # {}
    <3> SUFFICES ASSUME Latest = {} PROVE Page = Latest
      OBVIOUS
    <3> QED BY <1>0
  <2> QED BY <1>0, <2>1, <2>2
<1>10. \A i \in Latest : i \in Nat
  BY <1>1
<1>11. Limit \in Nat \ {0}
  BY FeedAssumption
<1> DEFINE B(i) == {j \in Latest : j < i}
<1>2. IsFiniteSet(Latest)
  <2>1. IsFiniteSet(1..Len(log))
    BY <1>0, FS_Interval
  <2> QED BY <1>0, <2>1, FS_Subset
<1>3. \A i \in Nat : IsFiniteSet(B(i)) /\ Cardinality(B(i)) \in Nat
  <2>1. \A i \in Nat : B(i) \in SUBSET Latest
    OBVIOUS
  <2> HIDE DEF B
  <2>2. \A i \in Nat : IsFiniteSet(B(i))
    BY <1>2, <2>1, FS_Subset
  <2> QED BY <2>2, FS_CardinalityType
<1>4. Page = {i \in Latest : Cardinality(B(i)) < Limit}
  BY DEF Page
<1>5. PICK a \in Latest : \A k \in Latest : a <= k
  BY <1>1, HasMin
<1>6. a \in Page
  <2>1. B(a) = {}
    <3>1. \A k \in Latest : ~(k < a)
      BY <1>10, <1>5
    <3> QED BY <3>1
  <2>2. Cardinality(B(a)) = 0
    BY <2>1, FS_EmptySet
  <2> QED BY <1>11, <1>4, <2>2
<1>7. PICK m \in Page : \A k \in Page : k <= m
  <2> HIDE DEF B
  <2> QED BY <1>0, <1>1, <1>6, HasMax
<1>8. Max(Page) \in Page /\ \A k \in Page : Max(Page) >= k
  BY <1>0, <1>10, <1>7 DEF Max
<1>9. ASSUME NEW i \in Latest \ Page, NEW last \in Page PROVE last < i
  <2>1. i \in Nat /\ last \in Nat
    BY <1>0, <1>10
  <2> SUFFICES ASSUME i <= last PROVE i \in Page
    BY <2>1
  <2>5. B(i) \in SUBSET B(last)
    <3>1. \A k \in Latest : k < i => k < last
      BY <1>10, <2>1
    <3> QED BY <3>1
  <2>2. Cardinality(B(i)) <= Cardinality(B(last))
    <3> HIDE DEF B
    <3> QED BY <1>3, <2>1, <2>5, FS_Subset
  <2>3. Cardinality(B(last)) < Limit
    BY <1>4
  <2> HIDE DEF B
  <2>4. Cardinality(B(i)) < Limit
    BY <1>11, <1>3, <2>1, <2>2, <2>3
  <2> QED BY <1>4, <2>4
<1> QED BY <1>0, <1>8, <1>9

\* Of every node the log speaks of there is a latest row.
LEMMA LatestOf ==
  ASSUME LogTypes, NEW i \in Rows
  PROVE  \E j \in Latest : log[j].node = log[i].node /\ i <= j
<1> DEFINE S == {j \in Rows : log[j].node = log[i].node}
<1>1. Rows \subseteq 1..Len(log) /\ Len(log) \in Nat
  BY PageIs
<1>2. S \in SUBSET (0..Len(log)) /\ i \in S
  <2>1. 1..Len(log) \subseteq 0..Len(log)
    BY <1>1
  <2> QED BY <1>1, <2>1
<1>3. PICK j \in S : \A k \in S : k <= j
  BY <1>1, <1>2, HasMax
<1>4. j \in Latest
  BY <1>3 DEF Latest
<1> QED BY <1>2, <1>3, <1>4

\* What the answer says: of these nodes.
News == {log[i].node : i \in Page}

\* What it does not say is still in the log.
LEMMA Remains ==
  ASSUME LogTypes, Poll, NEW i \in Rows, log[i].node \notin News
  PROVE  \E j \in Rows : /\ i <= j /\ log[j].node = log[i].node
                         /\ \E k \in 1..Len(log') : log'[k] = log[j]
<1>1. PICK j \in Latest : log[j].node = log[i].node /\ i <= j
  BY LatestOf
<1>2. j \in Latest \ Page /\ j \in Rows /\ j \in 1..Len(log) /\ Page # Latest /\ Len(log) \in Nat
  BY <1>1, PageIs DEF News
<1>3. Max(Page) \in 1..Len(log) /\ Max(Page) < j
  BY <1>2, PageEnds
<1> DEFINE m == Max(Page)
<1>4. log' = SubSeq(log, m + 1, Len(log))
  BY <1>2 DEF Poll
<1> HIDE DEF m
<1>5. m \in 1..Len(log) /\ m < j
  BY <1>3 DEF m
<1>6. j - m \in 1..Len(log') /\ log'[j - m] = log[j]
  BY <1>2, <1>4, <1>5 DEF LogTypes
<1> QED BY <1>1, <1>2, <1>6

LEMMA PollTypes ==
  ASSUME LogTypes, Poll
  PROVE  LogTypes'
<1>1. CASE Page = Latest
  BY <1>1 DEF Poll, LogTypes
<1>2. CASE Page # Latest
  <2>1. Max(Page) \in 1..Len(log) /\ Len(log) \in Nat
    BY <1>2, PageEnds, PageIs
  <2> DEFINE m == Max(Page)
  <2>2. log' = SubSeq(log, m + 1, Len(log)) /\ forgotten' = forgotten
    BY <1>2 DEF Poll
  <2> HIDE DEF m
  <2>3. m \in 1..Len(log)
    BY <2>1 DEF m
  <2> QED BY <2>2, <2>3 DEF LogTypes
<1> QED BY <1>1, <1>2

LEMMA Polling ==
  ASSUME LogTypes, Poll
  PROVE  /\ Show({n \in News : Visible(n)}, News \ {n \in News : Visible(n)}, {})
         /\ blind' = (blind \ News) \cup {n \in News : WentWith(n)}
         /\ UNCHANGED <<node, made, role, forgotten>> /\ ~forgotten /\ News \subseteq Nodes
<1>1. News \subseteq Nodes
  BY PageIs, EntryIs DEF News
<1> QED BY <1>1 DEF Poll, News, Known

LEMMA TypesInit == FeedInit => Types
<1> SUFFICES ASSUME FeedInit PROVE Types
  OBVIOUS
<1>1. LogTypes
  <2>1. log = <<>> /\ forgotten = FALSE
    BY DEF FeedInit
  <2>2. <<>> \in Seq(Entry)
    OBVIOUS
  <2> QED BY <2>1, <2>2 DEF LogTypes
<1>2. DeviceTypes
  BY DEF FeedInit, DeviceTypes
<1> QED BY <1>1, <1>2, TreeInit DEF Types

LEMMA ListTypes ==
  ASSUME Types, NEW f \in Folders \cup {Top}, NEW there, NEW known, List(f, there, known), \A n \in there : Visible(n)
  PROVE  (LogTypes /\ DeviceTypes)'
<1>1. Show(there, known, {f}) /\ blind' = blind \ there /\ log' = log /\ forgotten' = forgotten
  BY DEF List, drive
<1>2. {f} \in SUBSET (Folders \cup {Top})
  OBVIOUS
<1>3. /\ held' \in [Nodes -> Folders \cup {Nil, Unheld}]
      /\ opened' \subseteq Folders \cup {Top} /\ stale' \subseteq Nodes
  BY <1>1, <1>2, ShowTypes
<1> QED BY <1>1, <1>3 DEF Types, LogTypes, DeviceTypes

LEMMA TypesNext == Types /\ [FeedNext]_feedVars => Types'
<1> SUFFICES ASSUME Types, [FeedNext]_feedVars PROVE (LogTypes /\ DeviceTypes)'
  BY TreeNext DEF Types
<1>1. ASSUME NEW n \in Nodes, NEW f \in Folders, insert(n, f) PROVE (LogTypes /\ DeviceTypes)'
  BY <1>1, Inserting, WritesTypes
<1>2. ASSUME NEW n \in Nodes, change(n) \/ trashNode(n) \/ restoreNode(n) \/ \E f \in Folders : moveNode(n, f)
      PROVE (LogTypes /\ DeviceTypes)'
  BY <1>2, Altering, WritesTypes
<1>3. ASSUME NEW s \in Folders, NEW p \in People,
             renameSpace(s) \/ (\E r \in Roles : setMember(s, p, r))
             \/ \E others \in SUBSET (People \ {p}) : createSpace(s, p, others) \/ folderToSpace(s, p, others)
      PROVE (LogTypes /\ DeviceTypes)'
  <2>1. s \in Nodes
    BY NoNames
  <2>2. renameSpace(s) => (LogTypes /\ DeviceTypes)'
    BY <2>1, Renaming, WritesTypes
  <2>3. ASSUME NEW r \in Roles, setMember(s, p, r) PROVE (LogTypes /\ DeviceTypes)'
    BY <2>1, <2>3, Giving, WritesTypes
  <2>4. ASSUME NEW others, createSpace(s, p, others) PROVE (LogTypes /\ DeviceTypes)'
    BY <2>1, <2>4, Starting, WritesTypes
  <2>5. ASSUME NEW others, folderToSpace(s, p, others) PROVE (LogTypes /\ DeviceTypes)'
    BY <2>1, <2>5, Turning, WritesTypes
  <2> QED BY <1>3, <2>2, <2>3, <2>4, <2>5
<1>4. Age \/ emptyOldTrash \/ UNCHANGED feedVars => (LogTypes /\ DeviceTypes)'
  BY DEF Age, emptyOldTrash, feedVars, drive, device, Types, LogTypes, DeviceTypes
<1>5. forgetOldChanges => (LogTypes /\ DeviceTypes)'
  BY DEF forgetOldChanges, device, Types, LogTypes, DeviceTypes
<1>6. StartOver => (LogTypes /\ DeviceTypes)'
  <2>1. <<>> \in Seq(Entry)
    OBVIOUS
  <2> QED BY <2>1 DEF StartOver, Types, LogTypes, DeviceTypes
<1>7. ASSUME Poll PROVE (LogTypes /\ DeviceTypes)'
  <2>1. /\ Show({n \in News : Visible(n)}, News \ {n \in News : Visible(n)}, {})
        /\ blind' = (blind \ News) \cup {n \in News : WentWith(n)} /\ News \subseteq Nodes
    BY <1>7, Polling DEF Types
  <2>2. LogTypes'
    BY <1>7, PollTypes DEF Types
  <2>3. /\ held' \in [Nodes -> Folders \cup {Nil, Unheld}]
        /\ opened' \subseteq Folders \cup {Top} /\ stale' \subseteq Nodes
    BY <2>1, ShowTypes
  <2> QED BY <2>1, <2>2, <2>3 DEF Types, DeviceTypes
<1>8. OpenTop => (LogTypes /\ DeviceTypes)'
  BY ListTypes DEF OpenTop
<1>9. ASSUME NEW f \in Folders, OpenFolder(f) PROVE (LogTypes /\ DeviceTypes)'
  BY <1>9, ListTypes DEF OpenFolder
<1>10. ASSUME NEW s \in Folders, renameSpace(s) PROVE (LogTypes /\ DeviceTypes)'
  BY <1>3, <1>10, FeedAssumption
<1> QED BY <1>1, <1>2, <1>3, <1>4, <1>5, <1>6, <1>7, <1>8, <1>9, <1>10, FeedAssumption DEF FeedNext

\* Drive's tables, its log and the device have their types; a space someone is in has its top folder.
THEOREM DriveFeedTypes == FeedSpec => []FeedTypeOK
<1>1. FeedInit => Types
  BY TypesInit
<1>2. Types /\ [FeedNext]_feedVars => Types'
  BY TypesNext
<1>3. Types => FeedTypeOK
  BY DEF Types, TreeInv, Tree, Table, Row, Members, Made, LogTypes, DeviceTypes, Entry, FeedTypeOK
<1> QED BY <1>1, <1>2, <1>3, PTL DEF FeedSpec

-----------------------------------------------------------------------------
(***************************************************************************)
(* What the device was told, and what it will yet hear.                    *)
(***************************************************************************)

\* A row yet to come says something of n; or that s is a space, of the space's own or the person's own.
Told(n) == \E i \in Rows : log[i].node = n
Heard(s) == \E i \in 1..Len(log) : log[i].node = s /\ (log[i].space = s \/ log[i].person = Me)
Mine(s) == roleIn(s, Me) # "none"

\* What is shown of n is as it is; or n is gone, and so is the folder it is shown in.
Here(n) == node[n].trashed = "no" /\ held[n] = node[n].parent /\ (held[n] = Nil => Mine(n))
Right(n) == held[n] # Unheld => n \notin stale /\ IF Exists(n) THEN Here(n) ELSE held[n] # Nil /\ ~Exists(held[n])
Unshown(n) == Exists(n) /\ node[n].trashed = "no" /\ held[n] = Unheld

\* What is shown wrong, or not shown in a folder that was opened, or of the spaces, is yet to be heard.
Truth == \A n \in Nodes \ blind : Told(n) \/ Right(n)
AllListed == \A n \in Nodes \ blind : Unshown(n) /\ node[n].parent \in opened => Told(n)
Tops == \A s \in Folders : Mine(s) => /\ held[s] \in {Nil, Unheld} \/ Heard(s)
                                      /\ Top \in opened => held[s] # Unheld \/ Heard(s)

\* A space's own rows come after whatever was said of its top folder when that was in another.
OwnRow(r) == r.space \in {r.node, Nil} \/ r.person = Me
Own(i) == OwnRow(log[i])
OwnRows == \A i \in 1..Len(log) : Own(i) =>
  /\ Exists(log[i].node) /\ isRoot(log[i].node)
  /\ \A j \in i..Len(log) : log[j].node = log[i].node => Own(j)

\* The device shows things in folders there have been, and all of it within a space.
HeldMade == \A n \in Nodes : held[n] \in Nodes => held[n] \in made
HeldHangs == \A n \in Nodes : held[n] # Unheld => n \in Kept(held)

Steady == Types /\ OwnRows /\ HeldMade /\ HeldHangs
Following == ~forgotten => Truth /\ AllListed /\ Tops

LEMMA ToldIs ==
  ASSUME NEW n
  PROVE  Told(n) <=> \E i \in 1..Len(log) : log[i].node = n /\ (log[i].person = Me \/ (log[i].space # Nil /\ Mine(log[i].space)))
BY DEF Told, Rows, Mine

\* What was to be told, or is told by a new row, is, or is of a space the person is not in.
LEMMA ToldOrUntold ==
  ASSUME LogTypes', NEW i \in 1..Len(log'), NEW n \in Nodes, log'[i].node = n, log'[i].space # Nil \/ log'[i].person = Me
  PROVE  Told(n)' \/ n \in Untold'
<1>1. CASE log'[i].person = Me \/ (log'[i].space # Nil /\ role'[log'[i].space][Me] # "none")
  BY <1>1 DEF Told, Rows, Mine, roleIn
<1>2. CASE log'[i].space # Nil /\ role'[log'[i].space][Me] = "none"
  BY <1>2 DEF Untold, Mine, roleIn
<1> QED BY <1>1, <1>2

-----------------------------------------------------------------------------
(***************************************************************************)
(* Transactions.                                                           *)
(***************************************************************************)

LEMMA LogGrows ==
  ASSUME Types, NEW new, Writes(new)
  PROVE  /\ Len(log) \in Nat /\ Len(new) \in Nat /\ Len(log') = Len(log) + Len(new) /\ LogTypes'
         /\ \A i \in 1..Len(log) : i \in 1..Len(log') /\ log'[i] = log[i] /\ log[i] \in Entry
         /\ \A k \in 1..Len(new) : Len(log) + k \in 1..Len(log') /\ log'[Len(log) + k] = new[k] /\ new[k] \in Entry
         /\ \A i \in 1..Len(log') : i \in 1..Len(log) \/ \E k \in 1..Len(new) : i = Len(log) + k
<1>1. log \in Seq(Entry) /\ new \in Seq(Entry) /\ log' = log \o new /\ forgotten' = forgotten /\ forgotten \in BOOLEAN
  BY DEF Types, LogTypes, Writes
<1>2. Len(log) \in Nat /\ Len(new) \in Nat /\ Len(log') = Len(log) + Len(new) /\ log' \in Seq(Entry)
  BY <1>1
<1>3. \A i \in 1..Len(log) : i \in 1..Len(log') /\ log'[i] = log[i] /\ log[i] \in Entry
  BY <1>1, <1>2
<1>4. \A k \in 1..Len(new) : Len(log) + k \in 1..Len(log') /\ log'[Len(log) + k] = new[k] /\ new[k] \in Entry
  BY <1>1, <1>2
<1>5. ASSUME NEW i \in 1..Len(log'), i \notin 1..Len(log) PROVE \E k \in 1..Len(new) : i = Len(log) + k
  <2>1. i - Len(log) \in 1..Len(new) /\ i = Len(log) + (i - Len(log))
    BY <1>2, <1>5
  <2> QED BY <2>1
<1> QED BY <1>1, <1>2, <1>3, <1>4, <1>5 DEF LogTypes

\* A transaction that writes what it did to these nodes, and did no more than this to others.
Tells(N, new) ==
  /\ Types /\ Writes(new) /\ stale' \subseteq stale \cup N /\ made \subseteq made'
  /\ \A n \in N : \E k \in 1..Len(new) : new[k].node = n /\ (new[k].space # Nil \/ new[k].person = Me)
  /\ \A n \in Nodes \ N : /\ Exists(n)' <=> Exists(n)
                          /\ Exists(n) => /\ node'[n].parent = node[n].parent
                                          /\ node'[n].trashed = "no" <=> node[n].trashed = "no"
  /\ \A n \in made : Exists(n)' <=> Exists(n)
  /\ \A s \in Folders \ N : Mine(s)' <=> Mine(s)
  /\ \A s \in Folders \cap N : Mine(s)' => Mine(s) \/ Heard(s)'

\* What it did, and what was yet to be heard, the device will hear of, or it is blind to it.
LEMMA StillTold ==
  ASSUME NEW N, NEW new, Tells(N, new), NEW n \in Nodes, n \notin blind'
  PROVE  /\ n \notin blind
         /\ n \in N \/ Told(n) => Told(n)'
<1>1. blind' = blind \cup Untold'
  BY DEF Tells, Writes, Missed
<1>2. ASSUME n \in N PROVE Told(n)'
  <2>1. PICK k \in 1..Len(new) : new[k].node = n /\ (new[k].space # Nil \/ new[k].person = Me)
    BY <1>2 DEF Tells
  <2>2. Len(log) + k \in 1..Len(log') /\ log'[Len(log) + k] = new[k] /\ LogTypes'
    BY LogGrows DEF Tells
  <2> QED BY <1>1, <2>1, <2>2, ToldOrUntold
<1>3. ASSUME Told(n) PROVE Told(n)'
  <2>1. PICK i \in 1..Len(log) : log[i].node = n /\ (log[i].person = Me \/ (log[i].space # Nil /\ Mine(log[i].space)))
    BY <1>3, ToldIs
  <2>2. i \in 1..Len(log') /\ log'[i] = log[i] /\ LogTypes'
    BY LogGrows DEF Tells
  <2> QED BY <1>1, <2>1, <2>2, ToldOrUntold
<1> QED BY <1>1, <1>2, <1>3

LEMMA StillHeard ==
  ASSUME Types, NEW new, Writes(new), NEW s, Heard(s)
  PROVE  Heard(s)'
<1>1. PICK i \in 1..Len(log) : log[i].node = s /\ (log[i].space = s \/ log[i].person = Me)
  BY DEF Heard
<1>2. i \in 1..Len(log') /\ log'[i] = log[i]
  BY LogGrows
<1> QED BY <1>1, <1>2 DEF Heard

LEMMA RootsAreFolders ==
  ASSUME TreeInv, NEW n \in Nodes, Exists(n), node[n].parent = Nil
  PROVE  n \in Folders /\ node[n].space = n /\ node[n].trashed = "no" /\ Walk(Up(node), n) = {n}
BY SpaceOf, WalkUp DEF Hangs, TreeInv, Exists

LEMMA Telling ==
  ASSUME NEW N, NEW new, Tells(N, new), HeldMade, Truth, AllListed, Tops
  PROVE  (Truth /\ AllListed /\ Tops)'
<1>1. /\ Types /\ held' = held /\ opened' = opened /\ stale' \subseteq stale \cup N
      /\ TreeInv /\ held \in [Nodes -> Folders \cup {Nil, Unheld}] /\ opened \subseteq Folders \cup {Top}
  BY DEF Tells, Writes, Types, DeviceTypes
<1>2. ASSUME NEW n \in Nodes, n \notin blind', n \notin N
      PROVE  Right(n) => Right(n)'
  <2> SUFFICES ASSUME Right(n), held[n] # Unheld
               PROVE  n \notin stale' /\ IF Exists(n)' THEN Here(n)' ELSE held[n] # Nil /\ ~Exists(held[n])'
    BY <1>1 DEF Right
  <2>1. n \notin stale'
    BY <1>1, <1>2 DEF Right
  <2>2. CASE Exists(n)
    <3>1. Exists(n)' /\ node'[n].parent = node[n].parent /\ node'[n].trashed = "no"
      BY <1>2, <2>2 DEF Tells, Right, Here
    <3>2. held'[n] = node'[n].parent
      BY <1>1, <2>2, <3>1 DEF Right, Here
    <3>3. held[n] = Nil => Mine(n)'
      <4> SUFFICES ASSUME held[n] = Nil PROVE Mine(n)'
        OBVIOUS
      <4>1. n \in Folders /\ Mine(n)
        BY <1>1, <2>2, RootsAreFolders DEF Right, Here
      <4> QED BY <1>2, <4>1 DEF Tells
    <3>4. Here(n)'
      BY <1>1, <3>1, <3>2, <3>3 DEF Here
    <3> QED BY <2>1, <3>1, <3>4
  <2>3. CASE ~Exists(n)
    <3>1. ~Exists(n)' /\ held[n] # Nil /\ ~Exists(held[n])
      BY <1>2, <2>3 DEF Tells, Right
    <3>2. held[n] \in made
      BY <1>1, <3>1, NoNames DEF HeldMade
    <3>3. ~Exists(held[n])'
      BY <1>1, <3>1, <3>2 DEF Tells, Exists
    <3> QED BY <2>1, <3>1, <3>3
  <2> QED BY <2>2, <2>3
<1>3. Truth'
  BY <1>2, StillTold DEF Truth
<1>4. AllListed'
  <2> SUFFICES ASSUME NEW n \in Nodes, n \notin blind', Unshown(n)', node'[n].parent \in opened PROVE Told(n)'
    BY <1>1 DEF AllListed
  <2>1. CASE n \in N
    BY <2>1, StillTold
  <2>2. CASE n \notin N
    <3>1. Unshown(n) /\ node[n].parent \in opened
      BY <1>1, <2>2 DEF Tells, Unshown
    <3>2. Told(n)
      BY <3>1, StillTold DEF AllListed
    <3> QED BY <3>2, StillTold
  <2> QED BY <2>1, <2>2
<1>5. ASSUME NEW s \in Folders, Mine(s)'
      PROVE  /\ held'[s] \in {Nil, Unheld} \/ Heard(s)'
             /\ Top \in opened' => held'[s] # Unheld \/ Heard(s)'
  <2>1. Mine(s) \/ Heard(s)'
    BY <1>5 DEF Tells
  <2>2. Heard(s) => Heard(s)'
    BY StillHeard DEF Tells
  <2> QED BY <1>1, <2>1, <2>2 DEF Tops
<1>6. Tops'
  BY <1>5 DEF Tops
<1> QED BY <1>3, <1>4, <1>6

TopsOf(new) ==
  /\ \A n \in Nodes : Exists(n) /\ isRoot(n) => Exists(n)' /\ isRoot(n)'
  /\ \A k \in 1..Len(new) :
       /\ Exists(new[k].node) /\ isRoot(new[k].node) => OwnRow(new[k])
       /\ OwnRow(new[k]) => /\ node'[new[k].node] # Absent /\ node'[new[k].node].parent = Nil
                            /\ \A j \in k..Len(new) : new[j].node = new[k].node => OwnRow(new[j])

LEMMA OwnRowsStay ==
  ASSUME Types, NEW new, Writes(new), TopsOf(new), OwnRows
  PROVE  OwnRows'
<1> SUFFICES ASSUME NEW i \in 1..Len(log'), OwnRow(log'[i])
             PROVE  /\ node'[log'[i].node] # Absent /\ node'[log'[i].node].parent = Nil
                    /\ \A j \in i..Len(log') : log'[j].node = log'[i].node => OwnRow(log'[j])
  BY DEF OwnRows, Own, OwnRow, Exists, isRoot
<1>1. Len(log) \in Nat /\ Len(new) \in Nat /\ Len(log') = Len(log) + Len(new)
  BY LogGrows
<1>2. \A r \in Entry : r.node \in Nodes
  BY EntryIs
<1>3. CASE i \in 1..Len(log)
  <2>1. log'[i] = log[i] /\ log[i].node \in Nodes
    BY <1>2, <1>3, LogGrows
  <2>2. /\ Exists(log[i].node) /\ isRoot(log[i].node)
        /\ \A j \in i..Len(log) : log[j].node = log[i].node => OwnRow(log[j])
    BY <1>3, <2>1 DEF OwnRows, Own, OwnRow
  <2>3. node'[log[i].node] # Absent /\ node'[log[i].node].parent = Nil
    BY <2>1, <2>2 DEF TopsOf, Exists, isRoot
  <2>4. ASSUME NEW j \in i..Len(log'), log'[j].node = log'[i].node PROVE OwnRow(log'[j])
    <3>1. j \in 1..Len(log') /\ (j \in 1..Len(log) => j \in i..Len(log))
      BY <1>1, <1>3
    <3>2. CASE j \in 1..Len(log)
      <4>1. log'[j] = log[j]
        BY <3>2, LogGrows
      <4> QED BY <2>1, <2>2, <2>4, <3>1, <3>2, <4>1
    <3>3. CASE j \notin 1..Len(log)
      <4>2. PICK k \in 1..Len(new) : j = Len(log) + k
        BY <3>1, <3>3, LogGrows
      <4>1. log'[j] = new[k]
        BY <4>2, LogGrows
      <4> QED BY <2>1, <2>2, <2>4, <4>1 DEF TopsOf
    <3> QED BY <3>2, <3>3
  <2> QED BY <2>1, <2>3, <2>4
<1>4. CASE i \notin 1..Len(log)
  <2>4. PICK k \in 1..Len(new) : i = Len(log) + k
    BY <1>4, LogGrows
  <2>1. i = Len(log) + k /\ log'[i] = new[k]
    BY <2>4, LogGrows
  <2>2. /\ node'[new[k].node] # Absent /\ node'[new[k].node].parent = Nil
        /\ \A j \in k..Len(new) : new[j].node = new[k].node => OwnRow(new[j])
    BY <2>1 DEF TopsOf, Exists, isRoot
  <2>3. ASSUME NEW j \in i..Len(log'), log'[j].node = log'[i].node PROVE OwnRow(log'[j])
    <3>1. j \in 1..Len(log') /\ j \notin 1..Len(log)
      BY <1>1, <1>4
    <3>4. PICK h \in 1..Len(new) : j = Len(log) + h
      BY <3>1, LogGrows
    <3>2. j = Len(log) + h /\ log'[j] = new[h]
      BY <3>4, LogGrows
    <3>3. h \in k..Len(new)
      BY <1>1, <2>1, <3>2
    <3> QED BY <2>1, <2>2, <2>3, <3>2, <3>3
  <2> QED BY <2>1, <2>2, <2>3
<1> QED BY <1>3, <1>4

-----------------------------------------------------------------------------
(***************************************************************************)
(* Answers and listings.                                                   *)
(***************************************************************************)

Copy == [Nodes -> Folders \cup {Nil, Unheld}]

\* What a copy keeps: what leads to a space's top folder.
LEMMA KeptIs ==
  ASSUME NEW h, NEW n \in Nodes
  PROVE  n \in Kept(h) <=> h[n] = Nil \/ (h[n] \in Nodes /\ h[n] \in Kept(h))
<1>1. CASE h[n] \in Nodes
  <2>1. Walk(h, n) = {n} \cup Walk(h, h[n]) /\ h[n] # Nil
    BY <1>1, WalkStep, NoNames
  <2> QED BY <1>1, <2>1 DEF Kept
<1>2. CASE h[n] \notin Nodes
  <2>1. Walk(h, n) = {n}
    BY <1>2, WalkStep
  <2> QED BY <1>2, <2>1 DEF Kept
<1> QED BY <1>1, <1>2

LEMMA KeptAlong ==
  ASSUME NEW h, NEW n \in Kept(h)
  PROVE  n \in Nodes /\ Walk(h, n) \subseteq Kept(h)
<1>1. n \in Nodes /\ Kept(h) \in SUBSET Nodes
  BY DEF Kept
<1>2. ClosedUnder(h, Kept(h))
  <2> SUFFICES ASSUME NEW m \in Kept(h), h[m] \in Nodes PROVE h[m] \in Kept(h)
    BY DEF ClosedUnder
  <2> QED BY <1>1, KeptIs, NoNames
<1> QED BY <1>1, <1>2, WalkLeast

Only(h) == [n \in Nodes |-> IF n \in Kept(h) THEN h[n] ELSE Unheld]
LEMMA KeptAgain ==
  ASSUME NEW h, NEW n \in Nodes, Only(h)[n] # Unheld
  PROVE  n \in Kept(Only(h))
<1>1. n \in Kept(h) /\ Walk(h, n) \subseteq Kept(h)
  BY KeptAlong DEF Only
<1>2. PICK m \in Walk(h, n) : h[m] = Nil
  BY <1>1 DEF Kept
<1>3. Agree(h, Only(h), Walk(h, n))
  BY <1>1, WalkHolds DEF Agree, Only
<1>4. Walk(Only(h), n) = Walk(h, n) /\ Only(h)[m] = Nil
  BY <1>2, <1>3, WalkSame DEF Agree
<1> QED BY <1>2, <1>4 DEF Kept

\* An answer, or a listing: it shows these where they are, says that those are not there, and is
\* all there is in these folders.
TakesIn(these, those, folders) ==
  /\ Types /\ Show(these, those, folders) /\ UNCHANGED <<node, made, role>>
  /\ folders \in SUBSET (Folders \cup {Top}) /\ \A n \in these : n \in Nodes /\ Visible(n)
  /\ \A n \in Nodes : n \notin blind' /\ n \notin these =>
       \/ n \in those /\ ~(Exists(n) /\ node[n].trashed = "no")
       \/ /\ n \notin blind /\ (Told(n) => Told(n)')
          /\ n \in those /\ Right(n) /\ held[n] # Unheld => ~Exists(n)
  /\ \A g \in folders, n \in Nodes : Exists(n) /\ node[n].trashed = "no" /\ node[n].parent = g => n \in these
  /\ \A s \in Folders : Mine(s) => \/ s \in these
                                   \/ (Heard(s) => Heard(s)') /\ (held[s] = Nil => s \notin those)
  /\ Top \in folders => \A s \in Folders : Mine(s) => s \in these

LEMMA VisibleIs ==
  ASSUME TreeInv, NEW n \in Nodes, Visible(n)
  PROVE  /\ Exists(n) /\ node[n].trashed = "no" /\ node[n].parent \in Folders \cup {Nil}
         /\ node[n].parent = Nil => Mine(n) /\ n \in Folders
<1>1. Exists(n) /\ ~inTrash(n) /\ Mine(node[n].space)
  BY DEF Visible, Mine
<1> QED BY <1>1, NotTrashed, SpaceOf, RootsAreFolders DEF TreeInv

LEMMA MineVisible ==
  ASSUME Types, NEW s \in Folders, Mine(s)
  PROVE  s \in Nodes /\ s \in Spaces /\ Visible(s) /\ Exists(s) /\ node[s].parent = Nil /\ node[s].space = s
<1>1. TreeInv /\ s \in Nodes /\ Me \in People
  BY NoNames, FeedAssumption DEF Types
<1>2. Exists(s) /\ node[s].parent = Nil /\ s \in Spaces
  BY <1>1 DEF TreeInv, Members, Mine, roleIn, Exists, Spaces
<1>3. node[s].space = s /\ node[s].trashed = "no" /\ Walk(Up(node), s) = {s}
  BY <1>1, <1>2, RootsAreFolders
<1> QED BY <1>1, <1>2, <1>3 DEF Visible, Mine, inTrash, Chain

LEMMA Taking ==
  ASSUME NEW these, NEW those, NEW folders, TakesIn(these, those, folders)
  PROVE  /\ HeldMade => HeldMade'
         /\ HeldHangs'
         /\ Truth /\ AllListed /\ Tops => (Truth /\ AllListed /\ Tops)'
<1> DEFINE h == ShownAs(these, those)
           kept == Kept(h)
<1>1. /\ Types /\ TreeInv /\ held \in Copy /\ opened \subseteq Folders \cup {Top} /\ UNCHANGED <<node, made, role>>
      /\ \A n \in these : n \in Nodes /\ Visible(n) /\ Exists(n) /\ node[n].trashed = "no"
      /\ \A n \in these : node[n].parent \in Folders \cup {Nil} /\ (node[n].parent = Nil => Mine(n) /\ n \in Folders)
  BY VisibleIs DEF TakesIn, Types, DeviceTypes, Copy
<1>2. \A n \in Nodes : h[n] = IF n \in these THEN node[n].parent ELSE IF n \in those THEN Unheld ELSE held[n]
  BY DEF ShownAs
<1> HIDE DEF h
<1>3. /\ held' = Only(h) /\ opened' = (opened \cup folders) \cap (kept \cup {Top})
      /\ stale' = {n \in stale \ these : held'[n] # Unheld}
  BY DEF TakesIn, Show, Only, h
<1>4. \A n \in Nodes : held'[n] = IF n \in kept THEN h[n] ELSE Unheld
  BY <1>3 DEF Only
<1>5. HeldHangs'
  BY <1>3, KeptAgain DEF HeldHangs
<1>6. ASSUME HeldMade PROVE HeldMade'
  <2> SUFFICES ASSUME NEW n \in Nodes, held'[n] \in Nodes PROVE held'[n] \in made
    BY <1>1 DEF HeldMade
  <2>1. h[n] = held'[n]
    BY <1>4, NoNames
  <2>2. CASE n \in these
    <3>1. held'[n] = node[n].parent /\ Exists(n) /\ node[n].parent # Nil
      BY <1>1, <1>2, <2>1, <2>2, NoNames
    <3>2. Hangs(node, n)
      BY <1>1, <3>1, SpaceOf
    <3>3. node[node[n].parent] # Absent
      BY <3>1, <3>2 DEF Hangs
    <3> QED BY <1>1, <3>1, <3>3 DEF TreeInv, Made
  <2>3. CASE n \notin these
    BY <1>2, <1>6, <2>1, <2>3, NoNames DEF HeldMade
  <2> QED BY <2>2, <2>3
<1>7. ASSUME Truth, AllListed, Tops PROVE (Truth /\ AllListed /\ Tops)'
  <2>1. ASSUME NEW n \in Nodes, n \notin blind', n \notin these
        PROVE  /\ Told(n)' \/ Right(n)'
               /\ \/ h[n] = Unheld /\ ~(Exists(n) /\ node[n].trashed = "no")
                  \/ Told(n)'
                  \/ held[n] = Unheld /\ ~(Unshown(n) /\ node[n].parent \in opened)
                  \/ Right(n) /\ held[n] # Unheld /\ ~Exists(n)
                  \/ Right(n) /\ held[n] # Unheld /\ h[n] = held[n]
    <3>1. CASE n \in those /\ ~(Exists(n) /\ node[n].trashed = "no")
      BY <1>2, <1>4, <2>1, <3>1 DEF Right
    <3>2. CASE n \notin blind /\ (Told(n) => Told(n)') /\ (n \in those /\ Right(n) /\ held[n] # Unheld => ~Exists(n))
      <4>1. Told(n)' \/ Right(n)
        BY <1>7, <3>2 DEF Truth
      <4>2. Right(n) => Right(n)'
        <5> SUFFICES ASSUME Right(n), held'[n] # Unheld PROVE Right(n)'
          BY DEF Right
        <5>1. held'[n] = held[n]
          BY <1>2, <1>4, <2>1
        <5>2. n \notin stale'
          BY <1>3, <5>1 DEF Right
        <5> QED BY <1>1, <5>1, <5>2 DEF Right, Here, Exists, Mine, roleIn
      <4>3. Told(n)' \/ ~(Unshown(n) /\ node[n].parent \in opened)
        BY <1>7, <3>2 DEF AllListed
      <4> QED BY <1>2, <2>1, <3>2, <4>1, <4>2, <4>3
    <3> QED BY <2>1, <3>1, <3>2 DEF TakesIn
  <2>2. Truth'
    <3> SUFFICES ASSUME NEW n \in Nodes, n \notin blind' PROVE Told(n)' \/ Right(n)'
      BY DEF Truth
    <3>1. CASE n \in these
      <4> SUFFICES ASSUME held'[n] # Unheld PROVE Right(n)'
        BY DEF Right
      <4>1. held'[n] = node[n].parent /\ n \notin stale'
        BY <1>2, <1>3, <1>4, <3>1
      <4>2. held'[n] = Nil => Mine(n)
        BY <1>1, <3>1, <4>1
      <4> QED BY <1>1, <3>1, <4>1, <4>2 DEF Right, Here, Exists, Mine, roleIn
    <3> QED BY <2>1, <3>1
  <2>3. AllListed'
    <3> SUFFICES ASSUME NEW n \in Nodes, n \notin blind', Exists(n), node[n].trashed = "no", held'[n] = Unheld,
                        node[n].parent \in opened'
                 PROVE  Told(n)'
      BY <1>1 DEF AllListed, Unshown, Exists
    <3> DEFINE g == node[n].parent
    <3>1. g \in Folders /\ g \in Nodes /\ g \in kept /\ (g \in opened \/ g \in folders)
      <4>1. g \in Folders \cup {Nil} /\ g \in (opened \cup folders) /\ g \in kept \cup {Top} /\ folders \subseteq Folders \cup {Top}
        BY <1>1, <1>3, SpaceOf DEF TakesIn
      <4>2. Nil # Top
        BY DEF Nil, Top
      <4> QED BY <1>1, <4>1, <4>2, NoNames
    <3>2. h[n] # g
      BY <1>4, <3>1, KeptIs, NoNames
    <3>3. n \notin these
      BY <1>2, <3>2
    <3>4. g \in opened
      BY <3>1, <3>3 DEF TakesIn
    <3>5. Right(n) /\ held[n] # Unheld => held[n] = g
      BY DEF Right, Here
    <3> QED BY <2>1, <3>2, <3>3, <3>4, <3>5 DEF Unshown
  <2>4. Tops'
    <3> SUFFICES ASSUME NEW s \in Folders, Mine(s)
                 PROVE  /\ held'[s] \in {Nil, Unheld} \/ Heard(s)'
                        /\ Top \in opened' => held'[s] # Unheld \/ Heard(s)'
      BY <1>1 DEF Tops, Mine, roleIn
    <3>1. s \in Nodes /\ node[s].parent = Nil
      BY <1>1, MineVisible
    <3>2. h[s] = Nil => held'[s] = Nil
      BY <1>4, <3>1, KeptIs
    <3>3. CASE s \in these
      BY <1>2, <3>1, <3>2, <3>3, NoNames
    <3>4. CASE s \notin these
      <4>1. (Heard(s) => Heard(s)') /\ (held[s] = Nil => s \notin those) /\ Top \notin folders
        BY <3>4 DEF TakesIn
      <4>2. held[s] = Nil => held'[s] = Nil
        BY <1>2, <3>1, <3>2, <3>4, <4>1
      <4>3. held'[s] \in {held[s], Unheld}
        BY <1>2, <1>4, <3>1, <3>4
      <4>4. Top \in opened' => Top \in opened
        BY <1>3, <4>1
      <4> QED BY <1>7, <4>1, <4>2, <4>3, <4>4, NoNames DEF Tops
    <3> QED BY <3>3, <3>4
  <2> QED BY <2>2, <2>3, <2>4
<1> QED BY <1>5, <1>6, <1>7

-----------------------------------------------------------------------------
(***************************************************************************)
(* Each operation keeps the device following.                              *)
(***************************************************************************)

LEMMA SomeRows ==
  ASSUME NEW q, NEW r
  PROVE  /\ Len(<<q>>) = 1 /\ 1 \in 1..Len(<<q>>) /\ \A k \in 1..Len(<<q>>) : k = 1 /\ <<q>>[k] = q /\ \A j \in k..Len(<<q>>) : j = 1
         /\ Len(<<q, r>>) = 2 /\ 1 \in 1..Len(<<q, r>>) /\ 2 \in 1..Len(<<q, r>>) /\ <<q, r>>[1] = q /\ <<q, r>>[2] = r
         /\ \A k \in 1..Len(<<q, r>>) : k = 1 \/ (k = 2 /\ \A j \in k..Len(<<q, r>>) : j = 2)
OBVIOUS

LEMMA LastRow ==
  ASSUME Types, NEW r, Writes(<<r>>)
  PROVE  Len(log) + 1 \in 1..Len(log') /\ log'[Len(log) + 1] = r
<1>1. 1 \in 1..Len(<<r>>) /\ <<r>>[1] = r
  BY SomeRows
<1> QED BY <1>1, LogGrows

LEMMA TellingSteady ==
  ASSUME NEW N, NEW new, Tells(N, new), TopsOf(new), Steady, Following
  PROVE  (OwnRows /\ HeldMade /\ HeldHangs /\ Following)'
<1>1. OwnRows'
  BY OwnRowsStay DEF Tells, Steady
<1>2. held' = held /\ made \subseteq made' /\ ~forgotten
  BY DEF Tells, Writes
<1>3. HeldMade' /\ HeldHangs'
  BY <1>2 DEF Steady, HeldMade, HeldHangs
<1>4. Following'
  BY <1>2, Telling DEF Steady, Following
<1> QED BY <1>1, <1>3, <1>4

\* What is written of a node that alone may have changed.
AltersOnly(n, s) ==
  /\ Types /\ Writes(<<touch(n, s)>>) /\ n \in Nodes /\ s \in Folders
  /\ role' = role /\ made \subseteq made' /\ stale' \subseteq stale \cup {n}
  /\ \A m \in Nodes \ {n} : node'[m] = node[m]
  /\ n \in made => (node'[n] # Absent <=> node[n] # Absent)

LEMMA AltersTells ==
  ASSUME NEW n, NEW s, AltersOnly(n, s)
  PROVE  Tells({n}, <<touch(n, s)>>)
<1>1. touch(n, s).node = n /\ touch(n, s).space # Nil
  BY TouchTypes, NoNames, FeedAssumption DEF AltersOnly
<1>2. \A k \in {n} : \E j \in 1..Len(<<touch(n, s)>>) : <<touch(n, s)>>[j].node = k /\ (<<touch(n, s)>>[j].space # Nil \/ <<touch(n, s)>>[j].person = Me)
  BY <1>1, SomeRows
<1>3. made \subseteq Nodes
  BY DEF AltersOnly, Types, TreeInv, Made
<1>4. \A m \in Nodes \ {n} : /\ Exists(m)' <=> Exists(m)
                             /\ Exists(m) => /\ node'[m].parent = node[m].parent
                                             /\ node'[m].trashed = "no" <=> node[m].trashed = "no"
  BY DEF AltersOnly, Exists
<1>5. \A m \in made : Exists(m)' <=> Exists(m)
  BY <1>3 DEF AltersOnly, Exists
<1>6. \A t : Mine(t)' <=> Mine(t)
  BY DEF AltersOnly, Mine, roleIn
<1> QED BY <1>2, <1>4, <1>5, <1>6 DEF Tells, AltersOnly

\* It is not a row of the space's own.
LEMMA NotOwnRow ==
  ASSUME NEW n \in Nodes, NEW s \in Folders, s # n
  PROVE  ~OwnRow(touch(n, s))
BY NoNames, FeedAssumption DEF OwnRow, touch

LEMMA NotTops ==
  ASSUME NEW n \in Nodes, NEW s \in Folders, s # n, ~(Exists(n) /\ isRoot(n)),
         \A m \in Nodes \ {n} : node'[m] = node[m]
  PROVE  TopsOf(<<touch(n, s)>>)
<1>1. \A m \in Nodes : Exists(m) /\ isRoot(m) => Exists(m)' /\ isRoot(m)'
  BY DEF Exists, isRoot
<1>2. touch(n, s).node = n /\ ~OwnRow(touch(n, s))
  BY NotOwnRow DEF touch
<1> QED BY <1>1, <1>2, SomeRows DEF TopsOf

LEMMA InsertTells ==
  ASSUME Steady, Following, NEW n \in Nodes, NEW f \in Folders, insert(n, f)
  PROVE  (OwnRows /\ HeldMade /\ HeldHangs /\ Following)'
<1>1. /\ Types /\ TreeInv /\ Writes(<<touch(n, node[f].space)>>) /\ stale' = stale /\ Exists(f) /\ f \in Nodes
  BY Inserting, NoNames DEF Steady, Types
<1> DEFINE s == node[f].space
<1>2. s \in Folders /\ node[s] # Absent /\ node[n] = Absent /\ n \notin made /\ s # n
  <2>1. s \in Folders /\ node[s] # Absent
    BY <1>1, OneSpace DEF TreeInv, Exists
  <2>2. n \notin made /\ node[n] = Absent
    BY <1>1 DEF insert, TreeInv, Made
  <2> QED BY <2>1, <2>2
<1>3. \A m \in Nodes \ {n} : node'[m] = node[m]
  BY <1>1 DEF insert, TreeInv, Tree, Table
<1>4. role' = role /\ made' = made \cup {n}
  BY DEF insert
<1>5. AltersOnly(n, s)
  BY <1>1, <1>2, <1>3, <1>4 DEF AltersOnly
<1>7. ~(Exists(n) /\ isRoot(n))
  BY <1>2 DEF Exists
<1>6. TopsOf(<<touch(n, s)>>)
  BY <1>2, <1>3, <1>7, NotTops
<1> QED BY <1>5, <1>6, AltersTells, TellingSteady

LEMMA AlterTells ==
  ASSUME Steady, Following, NEW n \in Nodes,
         change(n) \/ trashNode(n) \/ restoreNode(n) \/ \E f \in Folders : moveNode(n, f)
  PROVE  (OwnRows /\ HeldMade /\ HeldHangs /\ Following)'
<1>1. Types /\ TreeInv /\ Alters(n) /\ Writes(<<touch(n, node[n].space)>>) /\ Changed(n)
  BY Altering DEF Steady, Types
<1> DEFINE s == node[n].space
<1>2. s \in Folders /\ Exists(n) /\ ~isRoot(n) /\ s # n
  BY <1>1, SpaceOf DEF Alters, isRoot, Hangs
<1>3. \A m \in Nodes \ {n} : node'[m] = node[m]
  BY <1>1 DEF Alters, change, trashNode, restoreNode, moveNode, TreeInv, Tree, Table
<1>4. role' = role /\ made' = made
  BY <1>1 DEF Alters, change, trashNode, restoreNode, moveNode
<1>5. node'[n] # Absent
  <2>1. CASE change(n)
    BY <1>2, <2>1 DEF change, Exists
  <2>2. CASE trashNode(n) \/ restoreNode(n) \/ \E f \in Folders : moveNode(n, f)
    BY <1>1, <1>2, <2>2, Trashing, Restoring, Moving DEF NoneGo, Exists
  <2> QED BY <2>1, <2>2
<1>6. AltersOnly(n, s)
  BY <1>1, <1>2, <1>3, <1>4, <1>5 DEF AltersOnly, Changed, Exists
<1>7. TopsOf(<<touch(n, s)>>)
  BY <1>2, <1>3, NotTops
<1> QED BY <1>6, <1>7, AltersTells, TellingSteady

\* A space that someone is in has a top folder.
LEMMA SpaceTop ==
  ASSUME TreeInv, NEW s \in Spaces
  PROVE  s \in Nodes /\ s \in Folders /\ Exists(s) /\ isRoot(s)
BY NoNames DEF Spaces, TreeInv, Members, roleIn, Exists, isRoot

\* A row of a space's own.
LEMMA OneTop ==
  ASSUME NEW r, OwnRow(r), r.node \in Nodes, node'[r.node] # Absent, node'[r.node].parent = Nil,
         \A m \in Nodes : Exists(m) /\ isRoot(m) => Exists(m)' /\ isRoot(m)'
  PROVE  TopsOf(<<r>>)
BY SomeRows DEF TopsOf, Exists, isRoot

LEMMA RenameTells ==
  ASSUME Steady, Following, NEW s \in Folders, renameSpace(s)
  PROVE  (OwnRows /\ HeldMade /\ HeldHangs /\ Following)'
<1>1. Types /\ TreeInv /\ Writes(<<touch(s, s)>>) /\ Changed(s) /\ s \in Nodes /\ Exists(s) /\ isRoot(s)
  BY Renaming, SpaceTop DEF Steady, Types, renameSpace
<1>2. node' = node /\ made' = made /\ role' = role
  BY DEF renameSpace
<1>3. AltersOnly(s, s)
  BY <1>1, <1>2 DEF AltersOnly, Changed
<1>4. TopsOf(<<touch(s, s)>>)
  BY <1>1, <1>2, OneTop DEF touch, OwnRow, Exists, isRoot
<1> QED BY <1>3, <1>4, AltersTells, TellingSteady

LEMMA MemberTells ==
  ASSUME Steady, Following, NEW s \in Folders, NEW p \in People, NEW r \in Roles, setMember(s, p, r)
  PROVE  (OwnRows /\ HeldMade /\ HeldHangs /\ Following)'
<1> DEFINE entry == touchFor(s, p)
           N == IF p = Me THEN {s} ELSE {}
<1>1. Types /\ TreeInv /\ Writes(<<entry>>) /\ stale' = stale /\ s \in Nodes /\ Exists(s) /\ isRoot(s)
  BY Giving, SpaceTop DEF Steady, Types, setMember
<1>2. node' = node /\ made' = made /\ role' = [role EXCEPT ![s][p] = r] /\ role \in [Folders -> [People -> DOMAIN Rank]]
  BY <1>1 DEF setMember, TreeInv, Members
<1>3. entry.node = s /\ entry.space = Nil /\ entry.person = p
  BY DEF touchFor
<1>4. TopsOf(<<entry>>)
  <2> HIDE DEF entry
  <2> QED BY <1>1, <1>2, <1>3, OneTop DEF OwnRow, Exists, isRoot
<1>5. Tells(N, <<entry>>)
  <2>1. \A n \in N : \E k \in 1..Len(<<entry>>) : <<entry>>[k].node = n /\ (<<entry>>[k].space # Nil \/ <<entry>>[k].person = Me)
    <3> HIDE DEF entry
    <3> QED BY <1>3, SomeRows
  <2>2. \A d \in Folders \ N : Mine(d)' <=> Mine(d)
    BY <1>2, FeedAssumption DEF Mine, roleIn
  <2>3. p = Me => Heard(s)'
    <3> HIDE DEF entry
    <3>1. Len(log) + 1 \in 1..Len(log') /\ log'[Len(log) + 1] = entry
      BY <1>1, LastRow
    <3> QED BY <1>3, <3>1 DEF Heard
  <2>4. \A d \in Folders \cap N : Mine(d)' => Mine(d) \/ Heard(d)'
    BY <2>3
  <2> HIDE DEF entry, N
  <2> QED BY <1>1, <1>2, <2>1, <2>2, <2>4 DEF Tells, Exists
<1> QED BY <1>4, <1>5, TellingSteady

LEMMA CreateTells ==
  ASSUME Steady, Following, NEW s \in Folders, NEW p \in People, NEW others, createSpace(s, p, others)
  PROVE  (OwnRows /\ HeldMade /\ HeldHangs /\ Following)'
<1> DEFINE entry == touch(s, s)
<1>1. Types /\ TreeInv /\ Writes(<<entry>>) /\ stale' = stale /\ s \in Nodes
  BY Starting, NoNames DEF Steady, Types
<1>2. s \notin made /\ node[s] = Absent /\ made' = made \cup {s} /\ made \subseteq Nodes
  BY <1>1 DEF createSpace, TreeInv, Made
<1>3. /\ \A m \in Nodes \ {s} : node'[m] = node[m]
      /\ node'[s] # Absent /\ node'[s].parent = Nil
  <2>1. node' = [node EXCEPT ![s] = AsSpace(s)] /\ DOMAIN node = Nodes
    BY <1>1 DEF createSpace, TreeInv, Tree, Table
  <2>2. AsSpace(s) \in Row /\ AsSpace(s).parent = Nil
    BY <1>1 DEF AsSpace, Row
  <2> QED BY <1>1, <2>1, <2>2, RowsAre
<1>4. \A d \in Folders \ {s} : Mine(d)' <=> Mine(d)
  BY <1>1 DEF createSpace, Mine, roleIn, TreeInv, Members
<1>5. entry.node = s /\ entry.space = s /\ OwnRow(entry) /\ s # Nil
  BY <1>1, NoNames DEF touch, OwnRow
<1> HIDE DEF entry
<1>6. TopsOf(<<entry>>)
  BY <1>1, <1>2, <1>3, <1>5, OneTop DEF Exists, isRoot
<1>7. Tells({s}, <<entry>>)
  <2>1. \A n \in {s} : \E k \in 1..Len(<<entry>>) : <<entry>>[k].node = n /\ (<<entry>>[k].space # Nil \/ <<entry>>[k].person = Me)
    BY <1>5, SomeRows
  <2>2. Heard(s)'
    <3>1. Len(log) + 1 \in 1..Len(log') /\ log'[Len(log) + 1] = entry
      BY <1>1, LastRow
    <3> QED BY <1>5, <3>1 DEF Heard
  <2> QED BY <1>1, <1>2, <1>3, <1>4, <2>1, <2>2 DEF Tells, Exists
<1> QED BY <1>6, <1>7, TellingSteady

LEMMA SplitTells ==
  ASSUME Steady, Following, NEW f \in Folders, NEW p \in People, NEW others, folderToSpace(f, p, others)
  PROVE  (OwnRows /\ HeldMade /\ HeldHangs /\ Following)'
<1> DEFINE q == touch(f, node[f].space)
           r == touch(f, f)
<1>1. Types /\ TreeInv /\ Writes(<<q, r>>) /\ Changed(f) /\ Exists(f) /\ ~isRoot(f) /\ f \in Nodes /\ Parts(node, node', f)
  BY Turning, Splits, NoNames DEF Steady, Types
<1>2. node[f].space \in Folders /\ node[f].space # f /\ made' = made /\ made \subseteq Nodes
  BY <1>1, SpaceOf DEF folderToSpace, TreeInv, Made, isRoot, Hangs
<1>3. ASSUME NEW n \in Nodes \ {f}
      PROVE  /\ node'[n] # Absent <=> node[n] # Absent
             /\ node[n] # Absent => node'[n].parent = node[n].parent /\ node'[n].trashed = node[n].trashed
  <2>1. node'[n] = IF node[n] # Absent /\ f \in Walk(Up(node), n) THEN [node[n] EXCEPT !.space = f] ELSE node[n]
    BY <1>1 DEF Parts
  <2>2. node[n] # Absent => node[n] \in Row
    BY <1>1, SpaceOf DEF Exists
  <2>3. node[n] \in Row => [node[n] EXCEPT !.space = f] \in Row
    BY DEF Row
  <2> QED BY <2>1, <2>2, <2>3, RowsAre DEF Row
<1>4. node'[f] # Absent /\ node'[f].parent = Nil
  <2>1. node'[f] = AsSpace(f)
    BY <1>1 DEF Parts
  <2>2. AsSpace(f) \in Row /\ AsSpace(f).parent = Nil
    BY <1>1 DEF AsSpace, Row
  <2> QED BY <2>1, <2>2, RowsAre
<1>5. \A d \in Folders \ {f} : Mine(d)' <=> Mine(d)
  BY <1>1 DEF folderToSpace, Mine, roleIn, TreeInv, Members
<1>6. q.node = f /\ ~OwnRow(q) /\ r.node = f /\ r.space = f /\ OwnRow(r) /\ f # Nil
  BY <1>1, <1>2, NotOwnRow, NoNames DEF touch, OwnRow
<1> HIDE DEF q, r
<1>7. TopsOf(<<q, r>>)
  <2>1. \A m \in Nodes : Exists(m) /\ isRoot(m) => Exists(m)' /\ isRoot(m)'
    BY <1>1, <1>3 DEF Exists, isRoot
  <2>2. ASSUME NEW k \in 1..Len(<<q, r>>)
        PROVE  /\ ~(Exists(<<q, r>>[k].node) /\ isRoot(<<q, r>>[k].node))
               /\ OwnRow(<<q, r>>[k]) => /\ node'[<<q, r>>[k].node] # Absent /\ node'[<<q, r>>[k].node].parent = Nil
                                         /\ \A j \in k..Len(<<q, r>>) : OwnRow(<<q, r>>[j])
    <3>1. <<q, r>>[1] = q /\ <<q, r>>[2] = r /\ (k = 1 \/ (k = 2 /\ \A j \in k..Len(<<q, r>>) : j = 2))
      BY SomeRows
    <3> QED BY <1>1, <1>4, <1>6, <3>1
  <2> QED BY <2>1, <2>2 DEF TopsOf
<1>8. Tells({f}, <<q, r>>)
  <2>0. 2 \in 1..Len(<<q, r>>) /\ <<q, r>>[2] = r
    BY SomeRows
  <2>1. \A n \in {f} : \E k \in 1..Len(<<q, r>>) : <<q, r>>[k].node = n /\ (<<q, r>>[k].space # Nil \/ <<q, r>>[k].person = Me)
    BY <1>6, <2>0
  <2>2. Heard(f)'
    <3>1. Len(log) + 2 \in 1..Len(log') /\ log'[Len(log) + 2] = r
      BY <1>1, <2>0, LogGrows
    <3> QED BY <1>6, <3>1 DEF Heard
  <2>3. stale' \subseteq stale \cup {f}
    BY <1>1 DEF Changed
  <2>4. \A n \in made : Exists(n)' <=> Exists(n)
    BY <1>1, <1>2, <1>3, <1>4 DEF Exists
  <2>5. \A n \in Nodes \ {f} : /\ Exists(n)' <=> Exists(n)
                               /\ Exists(n) => /\ node'[n].parent = node[n].parent
                                               /\ node'[n].trashed = "no" <=> node[n].trashed = "no"
    BY <1>3 DEF Exists
  <2> QED BY <1>1, <1>2, <1>5, <2>1, <2>2, <2>3, <2>4, <2>5 DEF Tells
<1> QED BY <1>7, <1>8, TellingSteady

LEMMA QuietNext ==
  ASSUME Steady, Following, Age \/ emptyOldTrash
  PROVE  (OwnRows /\ HeldMade /\ HeldHangs /\ Following)'
<1>1. /\ Types /\ TreeInv /\ TreeInv' /\ UNCHANGED <<made, role, log, forgotten, held, opened, stale, blind>>
      /\ held \in Copy
  BY TypesNext DEF Steady, Types, DeviceTypes, Copy, Age, emptyOldTrash, device, FeedNext
<1>2. ASSUME NEW n \in Nodes
      PROVE  /\ Exists(n)' => Exists(n) /\ node'[n].parent = node[n].parent /\ (node'[n].trashed = "no" <=> node[n].trashed = "no")
             /\ Exists(n) /\ node[n].parent = Nil => Exists(n)' /\ node'[n].parent = Nil
             /\ Exists(n) /\ ~Exists(n)' => node[n].trashed # "no" \/ node'[node[n].parent] = Absent
  <2>1. CASE Age
    <3>1. node'[n] = IF node[n] # Absent /\ node[n].trashed = "young" THEN [node[n] EXCEPT !.trashed = "old"] ELSE node[n]
      BY <2>1 DEF Age, Exists
    <3>2. node[n] # Absent => node[n] \in Row
      BY <1>1, SpaceOf DEF Exists
    <3>3. node[n] \in Row => [node[n] EXCEPT !.trashed = "old"] \in Row
      BY DEF Row
    <3> QED BY <3>1, <3>2, <3>3, RowsAre DEF Row, Exists
  <2>2. CASE emptyOldTrash
    <3>1. Loses(node, node', LongTrashed) /\ Tree(node)
      BY <1>1, <2>2, Empties DEF TreeInv
    <3>2. Exists(n)' => Exists(n) /\ node'[n] = node[n]
      BY <3>1, TreeLoses DEF Exists, Loses
    <3>3. ASSUME Exists(n), ~Exists(n)', node[n].trashed = "no"
          PROVE  node[n].parent # Nil /\ node'[node[n].parent] = Absent
      <4>1. PICK k \in LongTrashed : k \in Walk(Up(node), n)
        BY <3>1, <3>3 DEF Loses, Exists
      <4>2. k # n
        BY <3>3 DEF LongTrashed
      <4>3. node[n].parent # Nil /\ node[n].parent \in Nodes /\ k \in Walk(Up(node), node[n].parent)
        BY <3>1, <3>3, <4>1, <4>2, WalkUp DEF Exists
      <4> QED BY <3>1, <4>3 DEF Loses, Exists
    <3>4. Exists(n) /\ node[n].parent = Nil => node[n].trashed = "no"
      BY <1>1, RootsAreFolders
    <3> QED BY <3>2, <3>3, <3>4
  <2> QED BY <2>1, <2>2
<1>3. OwnRows'
  <2> SUFFICES ASSUME NEW i \in 1..Len(log), OwnRow(log[i])
               PROVE  /\ node'[log[i].node] # Absent /\ node'[log[i].node].parent = Nil
                      /\ \A j \in i..Len(log) : log[j].node = log[i].node => OwnRow(log[j])
    BY <1>1 DEF OwnRows, Own, OwnRow, Exists, isRoot
  <2>1. /\ Exists(log[i].node) /\ node[log[i].node].parent = Nil
        /\ \A j \in i..Len(log) : log[j].node = log[i].node => OwnRow(log[j])
    BY DEF Steady, OwnRows, Own, isRoot
  <2>2. log[i] \in Entry
    BY <1>1 DEF Types, LogTypes
  <2> QED BY <1>2, <2>1, <2>2, EntryIs DEF Exists
<1>4. HeldMade' /\ HeldHangs'
  BY <1>1 DEF Steady, HeldMade, HeldHangs
<1>5. Following'
  <2> SUFFICES ASSUME ~forgotten PROVE Truth' /\ AllListed' /\ Tops'
    BY <1>1 DEF Following
  <2>1. Truth /\ AllListed /\ Tops
    BY DEF Following
  <2>2. \A n : (Told(n)' <=> Told(n)) /\ (Heard(n)' <=> Heard(n)) /\ (Mine(n)' <=> Mine(n))
    BY <1>1 DEF Told, Rows, Heard, Mine, roleIn
  <2>3. ASSUME NEW n \in Nodes, Right(n) PROVE Right(n)'
    <3> SUFFICES ASSUME held[n] # Unheld
                 PROVE  n \notin stale /\ IF Exists(n)' THEN Here(n)' ELSE held[n] # Nil /\ ~Exists(held[n])'
      BY <1>1 DEF Right
    <3>0. n \notin stale
      BY <2>3 DEF Right
    <3>1. CASE Exists(n)'
      <4>1. Exists(n) /\ node'[n].parent = node[n].parent /\ (node'[n].trashed = "no" <=> node[n].trashed = "no")
        BY <1>2, <3>1
      <4>2. Here(n)
        BY <2>3, <4>1 DEF Right
      <4>3. Here(n)'
        BY <1>1, <4>1, <4>2 DEF Here, Mine, roleIn
      <4> QED BY <3>0, <3>1, <4>3
    <3>2. CASE ~Exists(n)' /\ Exists(n)
      <4>1. node[n].trashed = "no" /\ held[n] = node[n].parent
        BY <2>3, <3>2 DEF Right, Here
      <4> QED BY <1>1, <1>2, <3>0, <3>2, <4>1 DEF Exists
    <3>3. CASE ~Exists(n)' /\ ~Exists(n)
      <4>1. held[n] # Nil /\ ~Exists(held[n]) /\ held[n] \in Nodes
        BY <1>1, <2>3, <3>3, NoNames DEF Right, Copy
      <4>2. ~Exists(held[n])'
        BY <1>1, <1>2, <4>1 DEF Exists
      <4> QED BY <3>0, <3>3, <4>1, <4>2
    <3> QED BY <3>1, <3>2, <3>3
  <2>4. Truth'
    BY <1>1, <2>1, <2>2, <2>3 DEF Truth
  <2>5. AllListed'
    BY <1>1, <1>2, <2>1, <2>2 DEF AllListed, Unshown
  <2>6. Tops'
    BY <1>1, <2>1, <2>2 DEF Tops
  <2> QED BY <2>4, <2>5, <2>6
<1> QED BY <1>3, <1>4, <1>5

LEMMA Forgetting ==
  ASSUME Steady, forgetOldChanges
  PROVE  (OwnRows /\ HeldMade /\ HeldHangs /\ Following)'
<1>1. log' = <<>> /\ forgotten' = TRUE /\ held' = held /\ made' = made
  BY DEF forgetOldChanges, device
<1>2. OwnRows'
  BY <1>1 DEF OwnRows
<1> QED BY <1>1, <1>2 DEF Steady, HeldMade, HeldHangs, Following

LEMMA StartingOver ==
  ASSUME Steady, StartOver
  PROVE  (OwnRows /\ HeldMade /\ HeldHangs /\ Following)'
<1>1. /\ log' = <<>> /\ \A n \in Nodes : held'[n] = Unheld
      /\ opened' = {}
  BY DEF StartOver
<1>2. OwnRows'
  BY <1>1 DEF OwnRows
<1>3. HeldMade' /\ HeldHangs'
  BY <1>1, NoNames DEF HeldMade, HeldHangs
<1>4. (Truth /\ AllListed /\ Tops)'
  BY <1>1, NoNames DEF Truth, Right, AllListed, Tops
<1> QED BY <1>2, <1>3, <1>4 DEF Following

\* An answer to the device.
LEMMA PollTakes ==
  ASSUME Steady, Poll
  PROVE  TakesIn({n \in News : Visible(n)}, News \ {n \in News : Visible(n)}, {})
<1> DEFINE these == {n \in News : Visible(n)}
           those == News \ these
<1>1. /\ Types /\ LogTypes /\ Show(these, those, {}) /\ blind' = (blind \ News) \cup {n \in News : WentWith(n)}
      /\ UNCHANGED <<node, made, role, forgotten>> /\ News \subseteq Nodes
  BY Polling DEF Steady, Types
<1>2. ASSUME NEW n \in Nodes, n \notin blind', n \notin these
      PROVE  \/ n \in those /\ ~(Exists(n) /\ node[n].trashed = "no")
             \/ /\ n \notin blind /\ (Told(n) => Told(n)')
                /\ n \in those /\ Right(n) /\ held[n] # Unheld => ~Exists(n)
  <2>1. CASE n \in News
    BY <1>1, <1>2, <2>1 DEF WentWith
  <2>2. CASE n \notin News
    <3>1. ASSUME Told(n) PROVE Told(n)'
      <4>1. PICK i \in Rows : log[i].node = n
        BY <3>1 DEF Told
      <4>2. PICK j \in Rows : log[j].node = n /\ \E k \in 1..Len(log') : log'[k] = log[j]
        BY <1>1, <2>2, <4>1, Remains
      <4>3. PICK k \in 1..Len(log') : log'[k] = log[j]
        BY <4>2
      <4> QED BY <1>1, <4>2, <4>3 DEF Told, Rows, roleIn
    <3> QED BY <1>1, <1>2, <2>2, <3>1
  <2> QED BY <2>1, <2>2
<1>3. ASSUME NEW s \in Folders, Mine(s), s \notin these
      PROVE  (Heard(s) => Heard(s)') /\ s \notin those
  <2>1. s \notin News /\ s \in Nodes
    BY <1>1, <1>3, MineVisible
  <2>2. ASSUME Heard(s) PROVE Heard(s)'
    <3>1. PICK i \in 1..Len(log) : log[i].node = s /\ (log[i].space = s \/ log[i].person = Me)
      BY <2>2 DEF Heard
    <3>2. i \in Rows /\ Own(i)
      BY <1>3, <2>1, <3>1, NoNames DEF Rows, Own, OwnRow, Mine
    <3>3. PICK j \in Rows : i <= j /\ log[j].node = s /\ \E k \in 1..Len(log') : log'[k] = log[j]
      BY <1>1, <2>1, <3>1, <3>2, Remains
    <3>4. i \in 1..Len(log) /\ j \in i..Len(log)
      BY <1>1, <3>1, <3>3, PageIs
    <3>5. Own(j)
      BY <3>1, <3>2, <3>3, <3>4 DEF Steady, OwnRows
    <3>6. log[j].space = s \/ log[j].person = Me
      BY <3>3, <3>5 DEF Rows, Own, OwnRow
    <3> QED BY <3>3, <3>6 DEF Heard
  <2> QED BY <2>1, <2>2
<1>4. \A n \in these : n \in Nodes /\ Visible(n)
  BY <1>1
<1> HIDE DEF these, those
<1>5. TakesIn(these, those, {})
  BY <1>1, <1>2, <1>3, <1>4 DEF TakesIn
<1> QED BY <1>5 DEF these, those

LEMMA PollOwn ==
  ASSUME Steady, Poll
  PROVE  OwnRows'
<1>1. LogTypes /\ node' = node /\ Len(log) \in Nat
  BY PageIs DEF Steady, Types, Poll
<1>2. CASE Page = Latest
  BY <1>2 DEF Poll, OwnRows
<1>3. CASE Page # Latest
  <2>1. Max(Page) \in 1..Len(log)
    BY <1>1, <1>3, PageEnds
  <2> DEFINE m == Max(Page)
  <2>2. log' = SubSeq(log, m + 1, Len(log))
    BY <1>3 DEF Poll
  <2> HIDE DEF m
  <2>3. m \in 1..Len(log)
    BY <2>1 DEF m
  <2>4. Len(log') = Len(log) - m /\ \A i \in 1..Len(log') : i + m \in 1..Len(log) /\ log'[i] = log[i + m]
    BY <1>1, <2>2, <2>3 DEF LogTypes
  <2> SUFFICES ASSUME NEW i \in 1..Len(log'), OwnRow(log'[i])
               PROVE  /\ node[log'[i].node] # Absent /\ node[log'[i].node].parent = Nil
                      /\ \A j \in i..Len(log') : log'[j].node = log'[i].node => OwnRow(log'[j])
    BY <1>1 DEF OwnRows, Own, OwnRow, Exists, isRoot
  <2>5. /\ i + m \in 1..Len(log) /\ log'[i] = log[i + m]
        /\ node[log[i + m].node] # Absent /\ node[log[i + m].node].parent = Nil
        /\ \A j \in (i + m)..Len(log) : log[j].node = log[i + m].node => OwnRow(log[j])
    BY <2>4 DEF Steady, OwnRows, Own, Exists, isRoot
  <2>6. ASSUME NEW j \in i..Len(log') PROVE j + m \in (i + m)..Len(log) /\ log'[j] = log[j + m]
    BY <1>1, <2>3, <2>4
  <2> QED BY <2>5, <2>6
<1> QED BY <1>2, <1>3

LEMMA PollNext ==
  ASSUME Steady, Following, Poll
  PROVE  (OwnRows /\ HeldMade /\ HeldHangs /\ Following)'
<1>1. ~forgotten /\ forgotten' = forgotten
  BY DEF Poll, Known
<1> QED BY <1>1, PollTakes, PollOwn, Taking DEF Steady, Following

LEMMA ListNext ==
  ASSUME Steady, Following, NEW f, NEW there, NEW known, List(f, there, known), TakesIn(there, known, {f})
  PROVE  (OwnRows /\ HeldMade /\ HeldHangs /\ Following)'
<1>1. UNCHANGED <<node, made, role, log, forgotten>>
  BY DEF List, drive
<1>2. OwnRows'
  BY <1>1 DEF Steady, OwnRows, Own, OwnRow, Exists, isRoot
<1> QED BY <1>1, <1>2, Taking DEF Steady, Following

LEMMA ListSays ==
  ASSUME Types, NEW f, NEW there, NEW known, List(f, there, known)
  PROVE  /\ Show(there, known, {f}) /\ blind' = blind \ there /\ UNCHANGED <<node, made, role>>
         /\ \A n : (Told(n) => Told(n)') /\ (Heard(n) => Heard(n)')
<1>1. UNCHANGED <<node, made, role, log, forgotten>> /\ Show(there, known, {f}) /\ blind' = blind \ there
  BY DEF List, drive
<1> QED BY <1>1 DEF Told, Heard, Rows, roleIn

LEMMA OpenTopTakes ==
  ASSUME Steady, OpenTop
  PROVE  TakesIn({s \in Spaces : Visible(s)}, {n \in Nodes : held[n] = Nil}, {Top})
<1> DEFINE there == {s \in Spaces : Visible(s)}
           known == {n \in Nodes : held[n] = Nil}
<1>1. Types /\ TreeInv /\ List(Top, there, known)
  BY DEF OpenTop, Steady, Types
<1>2. /\ Show(there, known, {Top}) /\ blind' = blind \ there /\ UNCHANGED <<node, made, role>>
      /\ \A n : (Told(n) => Told(n)') /\ (Heard(n) => Heard(n)')
  <2> HIDE DEF there, known
  <2> QED BY <1>1, ListSays
<1>3. \A s \in Folders : Mine(s) => s \in there
  BY <1>1, MineVisible
<1>4. \A n \in there : n \in Nodes /\ Visible(n)
  BY NoNames DEF Spaces
<1>5. ASSUME NEW n \in Nodes, n \in known, Right(n), Exists(n) PROVE n \in there
  <2>1. node[n].parent = Nil /\ Mine(n)
    BY <1>5, NoNames DEF Right, Here
  <2> QED BY <1>1, <1>3, <1>5, <2>1, RootsAreFolders
<1>6. \A n \in Nodes : Exists(n) => node[n].parent # Top
  BY <1>1, SpaceOf, NoNames, FeedAssumption DEF Nil, Top
<1> HIDE DEF there, known
<1>7. TakesIn(there, known, {Top})
  BY <1>1, <1>2, <1>3, <1>4, <1>5, <1>6 DEF TakesIn
<1> QED BY <1>7 DEF there, known

LEMMA OpenFolderTakes ==
  ASSUME Steady, NEW f \in Folders, OpenFolder(f)
  PROVE  TakesIn({n \in Nodes : Visible(n) /\ node[n].parent = f}, {n \in Nodes : held[n] = f}, {f})
<1> DEFINE there == {n \in Nodes : Visible(n) /\ node[n].parent = f}
           known == {n \in Nodes : held[n] = f}
<1>1. Types /\ TreeInv /\ List(f, there, known) /\ Visible(f) /\ f \in Nodes
  BY NoNames DEF OpenFolder, Steady, Types
<1>2. /\ Show(there, known, {f}) /\ blind' = blind \ there /\ UNCHANGED <<node, made, role>>
      /\ \A n : (Told(n) => Told(n)') /\ (Heard(n) => Heard(n)')
  <2> HIDE DEF there, known
  <2> QED BY <1>1, ListSays
<1>3. ASSUME NEW n \in Nodes, Exists(n), node[n].trashed = "no", node[n].parent = f PROVE n \in there
  <2>1. Tree(node) /\ Hangs(node, n) /\ f # Nil /\ node[n].space = node[f].space
    BY <1>1, <1>3, SpaceOf, NoNames DEF TreeInv, Hangs
  <2>2. Walk(Up(node), n) = {n} \cup Walk(Up(node), f)
    BY <1>3, <2>1, WalkUp DEF Exists
  <2>3. Visible(n)
    BY <1>1, <1>3, <2>1, <2>2 DEF Visible, inTrash, Chain
  <2> QED BY <1>3, <2>3
<1>4. ASSUME NEW n \in Nodes, n \in known, Right(n), Exists(n) PROVE n \in there
  BY <1>1, <1>3, <1>4, NoNames DEF Right, Here
<1>5. \A s \in Folders : held[s] = Nil => s \notin known
  BY <1>1, NoNames
<1>6. f # Top /\ {f} \in SUBSET (Folders \cup {Top})
  BY <1>1, NoNames
<1>7. \A n \in there : n \in Nodes /\ Visible(n)
  OBVIOUS
<1> HIDE DEF there, known
<1>8. TakesIn(there, known, {f})
  BY <1>1, <1>2, <1>3, <1>4, <1>5, <1>6, <1>7 DEF TakesIn
<1> QED BY <1>8 DEF there, known

LEMMA FollowingInit == FeedInit => Steady /\ Following
<1> SUFFICES ASSUME FeedInit PROVE Steady /\ Following
  OBVIOUS
<1>1. log = <<>> /\ (\A n \in Nodes : held[n] = Unheld) /\ opened = {} /\ Types
  BY TypesInit DEF FeedInit
<1>2. OwnRows /\ HeldMade /\ HeldHangs
  BY <1>1, NoNames DEF OwnRows, HeldMade, HeldHangs
<1>3. Truth /\ AllListed /\ Tops
  BY <1>1, NoNames DEF Truth, Right, AllListed, Tops
<1> QED BY <1>1, <1>2, <1>3 DEF Steady, Following

LEMMA FollowingNext == Steady /\ Following /\ [FeedNext]_feedVars => (Steady /\ Following)'
<1> SUFFICES ASSUME Steady, Following, [FeedNext]_feedVars
             PROVE  (OwnRows /\ HeldMade /\ HeldHangs /\ Following)'
  BY TypesNext DEF Steady
<1>1. ASSUME UNCHANGED feedVars PROVE (OwnRows /\ HeldMade /\ HeldHangs /\ Following)'
  <2>1. UNCHANGED <<node, made, role, log, forgotten, held, opened, stale, blind>>
    BY <1>1 DEF feedVars, drive, device
  <2>2. OwnRows' /\ HeldMade' /\ HeldHangs'
    BY <2>1 DEF Steady, OwnRows, Own, OwnRow, HeldMade, HeldHangs, Exists, isRoot
  <2>3. Following'
    BY <2>1 DEF Following, Truth, AllListed, Tops, Told, Rows, Right, Here, Heard, Unshown, Exists, Mine, roleIn
  <2> QED BY <2>2, <2>3
<1>2. OpenTop => (OwnRows /\ HeldMade /\ HeldHangs /\ Following)'
  BY OpenTopTakes, ListNext DEF OpenTop
<1>3. ASSUME NEW f \in Folders, OpenFolder(f) PROVE (OwnRows /\ HeldMade /\ HeldHangs /\ Following)'
  BY <1>3, OpenFolderTakes, ListNext DEF OpenFolder
<1>4. Makers \subseteq People
  BY FeedAssumption
<1> QED BY <1>1, <1>2, <1>3, <1>4, InsertTells, AlterTells, RenameTells, MemberTells, CreateTells, SplitTells,
           QuietNext, Forgetting, StartingOver, PollNext DEF FeedNext

\* With nothing yet to hear, what the device shows it shows from the top of a space down.
LEMMA ShownIsThere ==
  ASSUME Steady, Following, CaughtUp, NEW n \in Nodes, held[n] # Unheld, Walk(held, n) \cap blind = {}
  PROVE  Visible(n) /\ held[n] = node[n].parent /\ n \notin stale
<1>1. /\ TreeInv /\ held \in Copy /\ \A m \in Nodes \ blind : Right(m)
      /\ n \in Kept(held)
  BY DEF Steady, Types, DeviceTypes, Copy, HeldHangs, Following, Truth, CaughtUp, Told, Rows
<1>2. ASSUME NEW m \in Walk(held, n) PROVE m \in Nodes /\ held[m] # Unheld /\ Right(m)
  <2>1. m \in Nodes /\ m \in Kept(held)
    BY <1>1, KeptAlong
  <2> QED BY <1>1, <2>1, KeptIs, NoNames
<1>3. PICK top \in Walk(held, n) : held[top] = Nil
  BY <1>1 DEF Kept
<1>4. Visible(top)
  <2>1. Exists(top) /\ node[top].parent = Nil /\ Mine(top)
    BY <1>2, <1>3 DEF Right, Here
  <2> QED BY <1>1, <1>2, <2>1, RootsAreFolders, MineVisible DEF Steady
<1> DEFINE bad == {m \in Walk(held, n) : ~Visible(m)}
<1>5. ASSUME NEW m \in bad, held[m] \in Nodes PROVE held[m] \in bad
  <2>1. m \in Nodes /\ Right(m) /\ held[m] # Unheld /\ held[m] \in Walk(held, n) /\ ~Visible(m)
    BY <1>2, <1>5, WalkHolds DEF ClosedUnder
  <2>2. CASE ~Exists(m)
    BY <2>1, <2>2 DEF Right, Visible
  <2>3. CASE Exists(m)
    <3> SUFFICES ASSUME Visible(held[m]) PROVE Visible(m)
      BY <2>1
    <3>1. held[m] = node[m].parent /\ node[m].trashed = "no" /\ node[m].parent # Nil
      BY <2>1, <2>3, <1>5, NoNames DEF Right, Here
    <3>2. Tree(node) /\ Hangs(node, m)
      BY <1>1, <2>1, <2>3, SpaceOf DEF TreeInv
    <3>3. node[held[m]].space = node[m].space /\ Walk(Up(node), m) = {m} \cup Walk(Up(node), held[m])
      BY <2>1, <2>3, <3>1, <3>2, WalkUp DEF Hangs, Exists
    <3> QED BY <2>3, <3>1, <3>3 DEF Visible, inTrash, Chain
  <2> QED BY <2>2, <2>3
<1>6. n \notin bad
  <2> SUFFICES ASSUME n \in bad PROVE FALSE
    OBVIOUS
  <2>1. bad \in SUBSET Nodes /\ ClosedUnder(held, bad)
    BY <1>2, <1>5 DEF ClosedUnder
  <2>2. top \in bad
    BY <1>3, <2>1, WalkLeast
  <2> QED BY <1>4, <2>2
<1>7. Visible(n) /\ Right(n)
  BY <1>2, <1>6, WalkHolds
<1> QED BY <1>7 DEF Right, Here, Visible

\* Nothing is left to hear, so what was to be told is shown.
LEMMA StaysInStep == Steady /\ Following => InStep
<1> SUFFICES ASSUME Steady, Following, CaughtUp
             PROVE  /\ \A n \in Nodes : held[n] # Unheld /\ Walk(held, n) \cap blind = {} => Visible(n) /\ held[n] = node[n].parent /\ n \notin stale
                    /\ \A f \in opened \ {Top} : \A n \in Nodes \ blind : Visible(n) /\ node[n].parent = f => held[n] # Unheld
                    /\ Top \in opened => \A s \in Spaces : Visible(s) => held[s] # Unheld
  BY DEF InStep
<1>1. Types /\ TreeInv /\ AllListed /\ Tops /\ (\A n : ~Told(n)) /\ \A s : ~Heard(s)
  BY DEF Steady, Types, Following, CaughtUp, Told, Rows, Heard
<1>2. ASSUME NEW f \in opened, NEW n \in Nodes, n \notin blind, Visible(n), node[n].parent = f PROVE held[n] # Unheld
  BY <1>1, <1>2, VisibleIs DEF AllListed, Unshown
<1>3. ASSUME Top \in opened, NEW s \in Spaces, Visible(s) PROVE held[s] # Unheld
  <2>1. s \in Folders /\ s \in Nodes /\ Exists(s) /\ node[s].parent = Nil
    BY <1>1, <1>3, SpaceTop DEF isRoot
  <2>2. Mine(s)
    BY <1>1, <1>3, <2>1, VisibleIs
  <2> QED BY <1>1, <1>3, <2>1, <2>2 DEF Tops
<1> QED BY <1>2, <1>3, ShownIsThere

\* changes/route.ts, "for keeping a copy on a device in step": a device that has heard all there is shows what
\* there is, in the folders that were opened all of it, but for what was told of a space the person was not in.
THEOREM DeviceInStep == FeedSpec => []InStep
<1>1. FeedInit => Steady /\ Following
  BY FollowingInit
<1>2. Steady /\ Following /\ [FeedNext]_feedVars => (Steady /\ Following)'
  BY FollowingNext
<1>3. Steady /\ Following => InStep
  BY StaysInStep
<1> QED BY <1>1, <1>2, <1>3, PTL DEF FeedSpec
=============================================================================
