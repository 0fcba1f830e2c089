----------------------------- MODULE FilesAccess -----------------------------
(***************************************************************************)
(* Asking for a person's Drive (lib/code/access.ts and access-plan.ts):    *)
(* what the agent of a chat asks to read or change, what the person        *)
(* allows, takes back or always allows, and the syncs that copy opened     *)
(* files into the chat's sandbox, carry changes both ways and take out     *)
(* what is no longer allowed, while calls fail, the Portal stops, and the  *)
(* agent and the person go on editing.                                     *)
(*                                                                         *)
(* One person and one of their spaces.  A file keeps its name, which       *)
(* stands for the path it has on both sides; the copies kept beside a      *)
(* file when both sides changed it are DriveSync's subject.                *)
(***************************************************************************)
EXTENDS Naturals, FiniteSets

CONSTANTS
  Chats,
  Root,         \* the space's top folder
  Files,        \* the files in it
  OwnChats,     \* the space is the one their chats keep their files in
  Needs,        \* what the agent asks for: "read", "change"
  MaxChanges,   \* bound on requests, answers, settings and changes of role
  MaxEdits,     \* bound on edits; each writes a content of its own
  MaxWaiting,   \* bound on syncs waiting, of a chat
  MaxMishaps    \* bound on failed calls, stops and sandboxes made again

Nodes == {Root} \cup Files
None == 0
Contents == 0..MaxEdits   \* None, and what was written
Always == "always"

ASSUME AccessAssumption ==
  /\ IsFiniteSet(Chats) /\ IsFiniteSet(Files) /\ Root \notin Files /\ Always \notin Chats
  /\ None \notin Nodes
  /\ OwnChats \in BOOLEAN /\ Needs \subseteq {"read", "change"}
  /\ MaxChanges \in Nat /\ MaxEdits \in Nat \ {0} /\ MaxWaiting \in Nat \ {0} /\ MaxMishaps \in Nat

VARIABLES
  role,      \* the person's role in the space
  drive,     \* each file's content in Drive; None: there is no such file
  trashed,   \* files in the trash
  grants,    \* the grants table: [scope (a chat, or Always), node, need]
  pending,   \* requests not answered yet: [chat, node, need]
  opened,    \* the opened table: [chat -> nodes]
  rows,      \* the opened_files table: [chat -> [file -> content, when both sides held it]]
  box,       \* the chat's sandbox, under .kimono/files
  waiting,   \* syncs asked for and not begun, of each chat
  phase, need, left, at, closing, tree,   \* the sync under way: what it read, what it has yet to do
  job,       \* and what is under way for each file
  changes, edits, mishaps,
  could,     \* what the chat was let change at some time since its sync began
  removed,   \* what the agent itself removed from the sandbox since the Portal last wrote it there
  copied,    \* what the Portal wrote there
  slipped,   \* files whose row a failure or a stop left wrong
  due,       \* what is allowed changed and no sync was asked for, or one was cut short
  calm       \* how undisturbed the latest sync was: "no", "so far", "yes"

driveVars == <<drive, trashed>>
asked == <<grants, pending, opened>>
syncVars == <<phase, need, left, at, closing, tree, job>>
counts == <<changes, edits, mishaps>>
notes == <<could, removed, copied, slipped, due, calm>>
vars == <<role, driveVars, asked, rows, box, waiting, syncVars, counts, notes>>

NoJob == [step |-> "none", bytes |-> None]
Steps == {"none", "upload", "add", "update", "replace", "finish", "trash", "put", "write", "keep",
          "delete", "close", "forget", "conflict"}

TypeOK ==
  /\ role \in {"none", "viewer", "editor"}
  /\ drive \in [Files -> Contents] /\ trashed \subseteq Files
  /\ grants \subseteq [scope : Chats \cup {Always}, node : Nodes, need : {"read", "change"}]
  /\ pending \subseteq [chat : Chats, node : Nodes, need : Needs]
  /\ opened \in [Chats -> SUBSET Nodes]
  /\ rows \in [Chats -> [Files -> Contents]] /\ box \in [Chats -> [Files -> Contents]]
  /\ waiting \in [Chats -> 0..MaxWaiting]
  /\ phase \in [Chats -> {"idle", "listing", "listed", "planned"}]
  /\ need \in [Chats -> [Nodes -> {"none", "read", "change"}]]
  /\ left \in [Chats -> SUBSET Nodes] /\ at \in [Chats -> Nodes \cup {None}]
  /\ closing \in [Chats -> BOOLEAN] /\ tree \in [Chats -> [Files -> Contents]]
  /\ job \in [Chats -> [Files -> [step : Steps, bytes : Contents]]]
  /\ \A c \in Chats : phase[c] # "planned" => at[c] = None /\ \A f \in Files : job[c][f] = NoJob
  /\ changes \in 0..MaxChanges /\ edits \in 0..MaxEdits /\ mishaps \in 0..MaxMishaps
  /\ could \in [Chats -> SUBSET Files] /\ removed \in [Chats -> SUBSET Files]
  /\ copied \in [Chats -> SUBSET Files] /\ slipped \in [Chats -> SUBSET Files]
  /\ due \in [Chats -> BOOLEAN] /\ calm \in [Chats -> {"no", "so far", "yes"}]

ForAll(x) == [c \in Chats |-> x]
Nothing == [f \in Files |-> None]

\* The person's files are there from the start, all of the same first content.
Init ==
  /\ role \in {"viewer", "editor"}
  /\ drive = [f \in Files |-> 1] /\ trashed = {}
  /\ grants = {} /\ pending = {} /\ opened = ForAll({})
  /\ rows = ForAll(Nothing) /\ box = ForAll(Nothing)
  /\ waiting = ForAll(0) /\ phase = ForAll("idle")
  /\ need = ForAll([n \in Nodes |-> "none"]) /\ left = ForAll({}) /\ at = ForAll(None)
  /\ closing = ForAll(FALSE) /\ tree = ForAll(Nothing)
  /\ job = ForAll([f \in Files |-> NoJob])
  /\ changes = 0 /\ edits = 1 /\ mishaps = 0
  /\ could = ForAll({}) /\ removed = ForAll({}) /\ copied = ForAll({}) /\ slipped = ForAll({})
  /\ due = ForAll(FALSE) /\ calm = ForAll("no")

-----------------------------------------------------------------------------
(***************************************************************************)
(* Who may do what.                                                        *)
(***************************************************************************)

chainOf(n) == {n, Root}
Under(n) == IF n = Root THEN Files ELSE {n}
Live(f) == drive[f] # None /\ f \notin trashed

\* nodeFor, for what the person may see.
There(n) == role # "none" /\ (n \in Files => Live(n))

ceiling == CASE role = "none" -> "none" [] role = "viewer" -> "read" [] role = "editor" -> "change"

covers(have, want) == have = "change" \/ want = "read"

\* coveringGrant: whether one allows it; which of them does matters to nobody.
coveringGrant(c, n, want) ==
  \E g \in grants : g.scope \in {c, Always} /\ g.node \in chainOf(n) /\ covers(g.need, want)

needOn(c, n) ==
  IF coveringGrant(c, n, "change") THEN "change" ELSE IF coveringGrant(c, n, "read") THEN "read" ELSE "none"

\* What the person allows a chat with a file, by the grants and their own role as these are now.
Allowed(c, f) == There(f) /\ \E g \in grants : g.scope \in {c, Always} /\ g.node \in chainOf(f)
Changes(c, given) ==
  {f \in Files : \E g \in given : g.scope \in {c, Always} /\ g.node \in chainOf(f) /\ g.need = "change"}

-----------------------------------------------------------------------------
(***************************************************************************)
(* Asking, answering, taking back.                                         *)
(***************************************************************************)

Change == changes < MaxChanges /\ changes' = changes + 1
Disturbed == calm' = ForAll("no")

\* What a chat was let change at some time since its sync began grows with what is allowed meanwhile.
Noted(given) ==
  could' = [c \in Chats |-> IF phase[c] = "idle" THEN could[c] ELSE could[c] \cup Changes(c, given)]

\* addGrant: one of a scope on a node, and never less than it was.
addGrant(scope, n, want) ==
  LET same == {g \in grants : g.scope = scope /\ g.node = n}
  IN IF same = {} THEN grants \cup {[scope |-> scope, node |-> n, need |-> want]}
     ELSE IF want = "change" THEN (grants \ same) \cup {[scope |-> scope, node |-> n, need |-> want]} ELSE grants

\* syncOpened: one more waits its turn.
Asked(chats) ==
  /\ \A c \in chats : waiting[c] < MaxWaiting
  /\ waiting' = [c \in Chats |-> IF c \in chats THEN waiting[c] + 1 ELSE waiting[c]]

\* open: nothing new under what is open; a folder takes in what was open under it.
open(c, n) ==
  /\ opened' = IF opened[c] \cap chainOf(n) # {} THEN opened
               ELSE [opened EXCEPT ![c] = (@ \ Under(n)) \cup {n}]
  /\ Asked({c})

Quiet == UNCHANGED <<driveVars, rows, box, syncVars, edits, mishaps, removed, copied, slipped, due>>

\* The space of their chats' files is every chat's to use, unless just that is allowed already.
GivenFor(n) ==
  IF OwnChats /\ ~\E g \in grants : g.scope = Always /\ g.node = n THEN addGrant(Always, Root, "change") ELSE grants

\* onRequest. A chat asks one thing at a time here.
onRequest(c, n, want) ==
  /\ Change /\ There(n) /\ \A r \in pending : r.chat # c
  /\ grants' = GivenFor(n)
  /\ IF coveringGrant(c, n, want)' /\ (want = "read" \/ ceiling = "change")
     THEN open(c, n) /\ UNCHANGED pending
     ELSE pending' = pending \cup {[chat |-> c, node |-> n, need |-> want]} /\ UNCHANGED <<opened, waiting>>
  /\ Noted(GivenFor(n)) /\ Disturbed
  /\ UNCHANGED role /\ Quiet

\* The request must still be waiting, what it named be there, and they be in the space.
Answers(r) == Change /\ r \in pending /\ pending' = pending \ {r} /\ Disturbed /\ UNCHANGED role /\ Quiet

deny(r) == Answers(r) /\ UNCHANGED <<grants, opened, waiting, could>>

\* "file" (the one asked for, or one picked in the folder asked for), "chat" or "always".
allow(r, scope, n) ==
  LET given == addGrant(scope, n, IF r.need = "change" /\ ceiling = "change" THEN "change" ELSE "read")
  IN /\ Answers(r) /\ There(r.node) /\ There(n)
     /\ n = r.node \/ (scope = r.chat /\ n \in Under(r.node))
     /\ grants' = given /\ Noted(given)
     /\ open(r.chat, n)

\* Mutant: no chat is asked to sync.
closeRevoked_Later == UNCHANGED waiting

\* closeRevoked: every chat with files open syncs.
closeRevoked == Asked({c \in Chats : opened[c] # {}})

TakesEffect(given) ==
  /\ grants' = given /\ Noted(given) /\ Disturbed
  /\ closeRevoked
  /\ UNCHANGED <<role, pending, opened>> /\ Quiet

\* setSpaceAuto and its route: a whole space, always; or no longer.
setSpaceAuto(want) ==
  LET rest == {g \in grants : ~(g.scope = Always /\ g.node = Root)}
      most == IF want = "change" /\ role = "viewer" THEN "read" ELSE want
  IN /\ Change /\ role # "none"
     /\ TakesEffect(IF want = "none" THEN rest ELSE rest \cup {[scope |-> Always, node |-> Root, need |-> most]})

\* revokeGrant and its route.
revokeGrant(g) == Change /\ g \in grants /\ TakesEffect(grants \ {g})

\* The space's owner gives the person another role, or takes them out.
setMember(r) ==
  /\ Change /\ role # r /\ role' = r
  /\ due' = ForAll(TRUE)
  /\ Disturbed
  /\ UNCHANGED <<asked, waiting, driveVars, rows, box, syncVars, edits, mishaps, could, removed, copied, slipped>>

\* A turn begins or ends: its chat's files are synced.
AskSync(c) ==
  /\ opened[c] # {}
  /\ Asked({c})
  /\ UNCHANGED <<role, driveVars, asked, rows, box, syncVars, counts, notes>>

-----------------------------------------------------------------------------
(***************************************************************************)
(* The agent and the person edit.                                          *)
(***************************************************************************)

Edit == edits < MaxEdits /\ edits' = edits + 1 /\ Disturbed

AgentWrites(c, f) ==
  /\ Edit /\ (box[c][f] # None \/ Root \in opened[c])
  /\ box' = [box EXCEPT ![c][f] = edits']
  /\ copied' = [copied EXCEPT ![c] = @ \ {f}]
  /\ UNCHANGED <<role, driveVars, asked, rows, waiting, syncVars, changes, mishaps, could, removed, slipped, due>>

AgentRemoves(c, f) ==
  /\ Edit /\ box[c][f] # None
  /\ box' = [box EXCEPT ![c][f] = None]
  /\ removed' = [removed EXCEPT ![c] = @ \cup {f}]
  /\ copied' = [copied EXCEPT ![c] = @ \ {f}]
  /\ UNCHANGED <<role, driveVars, asked, rows, waiting, syncVars, changes, mishaps, could, slipped, due>>

\* Someone with a right to edits the file in Drive, trashes it, or has it back.
DriveChanges ==
  /\ Edit
  /\ UNCHANGED <<role, asked, rows, box, waiting, syncVars, changes, mishaps, could, removed, copied, slipped>>
PersonWrites(f) == DriveChanges /\ Live(f) /\ drive' = [drive EXCEPT ![f] = edits'] /\ UNCHANGED <<trashed, due>>
PersonTrashes(f) == DriveChanges /\ Live(f) /\ trashed' = trashed \cup {f} /\ due' = ForAll(TRUE) /\ UNCHANGED drive
PersonRestores(f) == DriveChanges /\ f \in trashed /\ trashed' = trashed \ {f} /\ UNCHANGED <<drive, due>>

-----------------------------------------------------------------------------
(***************************************************************************)
(* A sync: what it reads first, and each opened node in turn.              *)
(***************************************************************************)

Mishap == mishaps < MaxMishaps /\ mishaps' = mishaps + 1
Ended(c) ==
  /\ phase' = [phase EXCEPT ![c] = "idle"] /\ need' = [need EXCEPT ![c] = [n \in Nodes |-> "none"]]
  /\ left' = [left EXCEPT ![c] = {}] /\ at' = [at EXCEPT ![c] = None]
  /\ closing' = [closing EXCEPT ![c] = FALSE] /\ tree' = [tree EXCEPT ![c] = Nothing]
  /\ job' = [job EXCEPT ![c] = [f \in Files |-> NoJob]]
  /\ could' = [could EXCEPT ![c] = {}]

\* Mutant: none begins after one that failed.
Begin_AfterSuccess(c) ==
  /\ waiting[c] > 0 /\ phase[c] = "idle" /\ mishaps = 0
  /\ waiting' = [waiting EXCEPT ![c] = @ - 1]
  /\ due' = [due EXCEPT ![c] = FALSE]
  /\ IF opened[c] = {} THEN UNCHANGED <<phase, left, need, could, calm>>
     ELSE /\ phase' = [phase EXCEPT ![c] = "listing"]
          /\ left' = [left EXCEPT ![c] = opened[c]]
          /\ need' = [need EXCEPT ![c] = [n \in Nodes |-> IF n \in opened[c] THEN needOn(c, n) ELSE "none"]]
          /\ could' = [could EXCEPT ![c] = Changes(c, grants)]
          /\ calm' = [calm EXCEPT ![c] = "so far"]
  /\ UNCHANGED <<role, driveVars, asked, rows, box, at, closing, tree, job, counts, removed, copied, slipped>>

\* One of a chat at a time, whatever became of the one before. The tables are read, the node asked.
Begin(c) ==
  /\ waiting[c] > 0 /\ phase[c] = "idle"
  /\ waiting' = [waiting EXCEPT ![c] = @ - 1]
  /\ due' = [due EXCEPT ![c] = FALSE]
  /\ IF opened[c] = {} THEN UNCHANGED <<phase, left, need, could, calm>>
     ELSE /\ phase' = [phase EXCEPT ![c] = "listing"]
          /\ left' = [left EXCEPT ![c] = opened[c]]
          /\ need' = [need EXCEPT ![c] = [n \in Nodes |-> IF n \in opened[c] THEN needOn(c, n) ELSE "none"]]
          /\ could' = [could EXCEPT ![c] = Changes(c, grants)]
          /\ calm' = [calm EXCEPT ![c] = "so far"]
  /\ UNCHANGED <<role, driveVars, asked, rows, box, at, closing, tree, job, counts, removed, copied, slipped>>

\* The node lists the sandbox.
Listed(c) ==
  /\ phase[c] = "listing"
  /\ phase' = [phase EXCEPT ![c] = "listed"] /\ tree' = [tree EXCEPT ![c] = box[c]]
  /\ UNCHANGED <<role, driveVars, asked, rows, box, waiting, need, left, at, closing, job, counts, notes>>

\* The listing comes back.
Arrived(c) ==
  /\ phase[c] = "listed" /\ phase' = [phase EXCEPT ![c] = "planned"]
  /\ UNCHANGED <<role, driveVars, asked, rows, box, waiting, need, left, at, closing, tree, job, counts, notes>>

\* planSync (see DriveSync), of a file with this row, sandbox content and content in Drive.
planSync(row, t, d) ==
  CASE t = row /\ d = row -> "none"
    [] t # row /\ d = row -> IF row = None THEN "upload" ELSE IF t = None THEN "trash" ELSE "update"
    [] t = row /\ d # row -> IF d = None THEN "delete" ELSE "put"
    [] t # row /\ d # row -> IF t # None THEN "conflict" ELSE IF d = None THEN "forget" ELSE "put"

\* Mutant: what the agent removed goes from Drive all the same.
readOnly_Trash(kind, d) ==
  CASE kind = "upload" -> "none" [] kind \in {"update"} -> "put"
    [] kind = "conflict" -> IF d = None THEN "delete" ELSE "put"
    [] OTHER -> kind

\* readOnly: nothing goes out, and what the agent changed is put back.
readOnly(kind, d) ==
  CASE kind = "upload" -> "none" [] kind \in {"update", "trash"} -> "put"
    [] kind = "conflict" -> IF d = None THEN "delete" ELSE "put"
    [] OTHER -> kind

Planned(c, n, want, f) ==
  LET d == IF Live(f) THEN drive[f] ELSE None
      kind == planSync(rows[c][f], tree[c][f], d)
      allowed == IF want = "read" THEN readOnly(kind, d) ELSE kind
      out == IF n # Root /\ allowed = "upload" THEN "none" ELSE allowed
  IN [step |-> out, bytes |-> IF out = "conflict" THEN d ELSE None]

\* Closed: no longer allowed, or gone.
Closes(c, n) == ~There(n) \/ need[c][n] = "none"

\* What is closed with it: its own files, or, once the file itself is gone, all of its folder's.
Closed(n) == IF There(n) THEN Under(n) ELSE Files

\* The next opened node: Drive and the rows as they are by now, the grants as they were.
Take(c, n) ==
  /\ phase[c] = "planned" /\ at[c] = None /\ n \in left[c]
  /\ at' = [at EXCEPT ![c] = n]
  /\ closing' = [closing EXCEPT ![c] = Closes(c, n)]
  /\ LET want == IF need[c][n] = "change" /\ ceiling = "change" THEN "change" ELSE "read"
     IN job' = [job EXCEPT ![c] = [f \in Files |->
          IF Closes(c, n) THEN IF f \in Closed(n) /\ rows[c][f] # None THEN [NoJob EXCEPT !.step = "close"] ELSE NoJob
          ELSE IF f \in Under(n) THEN Planned(c, n, want, f) ELSE NoJob]]
  /\ calm' = IF Closes(c, n) THEN [calm EXCEPT ![c] = "no"] ELSE calm
  /\ UNCHANGED <<role, driveVars, asked, rows, box, waiting, phase, need, left, tree, counts, could, removed, copied, slipped, due>>

\* Its files' jobs are done; what was closed is forgotten.
Taken(c) ==
  /\ at[c] # None /\ \A f \in Files : job[c][f] = NoJob
  /\ opened' = IF closing[c] THEN [opened EXCEPT ![c] = @ \ {at[c]}] ELSE opened
  /\ left' = [left EXCEPT ![c] = @ \ {at[c]}]
  /\ at' = [at EXCEPT ![c] = None] /\ closing' = [closing EXCEPT ![c] = FALSE]
  /\ UNCHANGED <<role, driveVars, grants, pending, rows, box, waiting, phase, need, tree, job, counts, notes>>

End(c) ==
  /\ phase[c] = "planned" /\ left[c] = {}
  /\ Ended(c)
  /\ calm' = IF calm[c] = "so far" THEN [calm EXCEPT ![c] = "yes"] ELSE calm
  /\ UNCHANGED <<role, driveVars, asked, rows, box, waiting, counts, removed, copied, slipped, due>>

\* The sandbox can't be listed: the sync throws, its caller logs it, the next begins.
ListingFails(c) ==
  /\ phase[c] \in {"listing", "listed"} /\ Mishap
  /\ Ended(c)
  /\ due' = [due EXCEPT ![c] = TRUE] /\ Disturbed
  /\ UNCHANGED <<role, driveVars, asked, rows, box, waiting, changes, edits, removed, copied, slipped>>

-----------------------------------------------------------------------------
(***************************************************************************)
(* apply, one step per await of each file's job.                           *)
(***************************************************************************)

Step(c, f, from) == phase[c] = "planned" /\ job[c][f].step = from
Goes(c, f, to, bytes) == job' = [job EXCEPT ![c][f] = [step |-> to, bytes |-> bytes]]
Done(c, f) == job' = [job EXCEPT ![c][f] = NoJob]
remember(c, f, content) == rows' = [rows EXCEPT ![c][f] = content]
Writes(c, f, content) ==
  /\ box' = [box EXCEPT ![c][f] = content]
  /\ removed' = [removed EXCEPT ![c] = @ \ {f}]
  /\ copied' = [copied EXCEPT ![c] = IF content = None THEN @ \ {f} ELSE @ \cup {f}]
Unmoved(c) == UNCHANGED <<role, asked, waiting, phase, need, left, at, closing, tree, counts, could>>
Working(c) == Unmoved(c) /\ UNCHANGED due
\* What one chat's sync does to Drive, no other chat's has seen.
Outdates(c) == calm' = [b \in Chats |-> IF b = c THEN calm[b] ELSE "no"]

\* readFull for an upload or an update.
ReadFull(c, f) ==
  /\ \/ Step(c, f, "upload") /\ Goes(c, f, "add", box[c][f])
     \/ Step(c, f, "update") /\ Goes(c, f, "replace", box[c][f])
  /\ box[c][f] # None
  /\ UNCHANGED <<driveVars, rows, box, removed, copied, slipped, calm>> /\ Working(c)

\* addToDrive, under its name; one with the name in Drive by now makes it a copy beside.
Add(c, f) ==
  /\ Step(c, f, "add") /\ role = "editor"
  /\ drive' = IF Live(f) THEN drive ELSE [drive EXCEPT ![f] = job[c][f].bytes]
  /\ trashed' = trashed \ {f}
  /\ remember(c, f, job[c][f].bytes)
  /\ Done(c, f) /\ Outdates(c)
  /\ UNCHANGED <<box, removed, copied, slipped>> /\ Working(c)

\* replaceInDrive checks the person's role and reads the version it means to replace ...
Replace(c, f) ==
  /\ Step(c, f, "replace") /\ role = "editor" /\ Live(f)
  /\ Goes(c, f, "finish", job[c][f].bytes)
  /\ tree' = [tree EXCEPT ![c][f] = drive[f]]
  /\ UNCHANGED <<driveVars, rows, box, removed, copied, slipped, calm>>
  /\ UNCHANGED <<role, asked, waiting, phase, need, left, at, closing, counts, could, due>>

Unedited(c, f) == Live(f) /\ drive[f] = tree[c][f]

\* ... and finishUpload puts the bytes there without asking again; as a file of their own, which an
\* editor may add, when it was edited or went meanwhile.
Finish(c, f) ==
  /\ Step(c, f, "finish") /\ (Unedited(c, f) \/ role = "editor")
  /\ drive' = IF Live(f) /\ ~Unedited(c, f) THEN drive ELSE [drive EXCEPT ![f] = job[c][f].bytes]
  /\ trashed' = trashed \ {f}
  /\ remember(c, f, job[c][f].bytes)
  /\ Done(c, f) /\ Outdates(c)
  /\ UNCHANGED <<box, removed, copied, slipped>> /\ Working(c)

\* A file they may not trash, or that is gone, is only forgotten.
Trash(c, f) ==
  /\ Step(c, f, "trash")
  /\ trashed' = IF Live(f) /\ role = "editor" THEN trashed \cup {f} ELSE trashed
  /\ remember(c, f, None)
  /\ Done(c, f) /\ Outdates(c)
  /\ due' = [b \in Chats |-> due[b] \/ (b # c /\ trashed' # trashed)]
  /\ UNCHANGED <<drive, box, removed, copied, slipped>> /\ Unmoved(c)

\* The agent's version goes beside the file, and Drive's, or its absence when the sync was planned,
\* takes its place.
Conflict(c, f) ==
  /\ Step(c, f, "conflict")
  /\ Goes(c, f, IF job[c][f].bytes # None THEN "put" ELSE "delete", None)
  /\ UNCHANGED <<driveVars, rows, box, removed, copied, slipped, calm>> /\ Working(c)

\* driveBytes: the file as it is now.
Put(c, f) ==
  /\ Step(c, f, "put") /\ There(f)
  /\ Goes(c, f, "write", drive[f])
  /\ UNCHANGED <<driveVars, rows, box, removed, copied, slipped, calm>> /\ Working(c)

\* The node writes the file; its answer is still on the way.
Write(c, f) ==
  /\ Step(c, f, "write")
  /\ Writes(c, f, job[c][f].bytes)
  /\ Goes(c, f, "keep", job[c][f].bytes)
  /\ UNCHANGED <<driveVars, rows, slipped, calm>> /\ Working(c)

Keep(c, f) ==
  /\ Step(c, f, "keep")
  /\ remember(c, f, job[c][f].bytes)
  /\ Done(c, f)
  /\ UNCHANGED <<driveVars, box, removed, copied, slipped, calm>> /\ Working(c)

\* The node removes the file, for what is gone from Drive and for what is closed.
Remove(c, f) ==
  /\ (Step(c, f, "delete") \/ Step(c, f, "close"))
  /\ Writes(c, f, None)
  /\ Goes(c, f, "forget", None)
  /\ UNCHANGED <<driveVars, rows, slipped, calm>> /\ Working(c)

\* Mutant: what was closed keeps its row.
Forget_Kept(c, f) ==
  /\ Step(c, f, "forget")
  /\ IF closing[c] THEN UNCHANGED rows ELSE remember(c, f, None)
  /\ Done(c, f)
  /\ UNCHANGED <<driveVars, box, removed, copied, slipped, calm>> /\ Working(c)

Forget(c, f) ==
  /\ Step(c, f, "forget")
  /\ remember(c, f, None)
  /\ Done(c, f)
  /\ UNCHANGED <<driveVars, box, removed, copied, slipped, calm>> /\ Working(c)

\* Closing takes a removal that failed for one that was done.
CloseFails(c, f) ==
  /\ Step(c, f, "close") /\ Mishap
  /\ Goes(c, f, "forget", None)
  /\ slipped' = [slipped EXCEPT ![c] = @ \cup {f}]
  /\ Disturbed
  /\ UNCHANGED <<role, driveVars, asked, rows, box, waiting, phase, need, left, at, closing, tree,
                 changes, edits, could, removed, copied, due>>

GivesUp(c, f) ==
  /\ phase[c] = "planned" /\ Done(c, f)
  /\ due' = [due EXCEPT ![c] = TRUE] /\ Disturbed
  /\ UNCHANGED <<role, driveVars, asked, rows, box, waiting, phase, need, left, at, closing, tree,
                 changes, edits, could, removed, copied>>

\* What a job needs has gone since the plan: its error is caught, the file tried again next time.
Misses(c, f) ==
  /\ \/ Step(c, f, "upload") /\ box[c][f] = None
     \/ Step(c, f, "update") /\ box[c][f] = None
     \/ Step(c, f, "add") /\ role # "editor"
     \/ Step(c, f, "replace") /\ (role # "editor" \/ ~Live(f))
     \/ Step(c, f, "finish") /\ ~Unedited(c, f) /\ role # "editor"
     \/ Step(c, f, "put") /\ ~There(f)
  /\ GivesUp(c, f) /\ UNCHANGED <<mishaps, slipped>>

\* A call fails, or its answer is lost with what it did done.
Fails(c, f) ==
  /\ job[c][f].step \notin {"none", "trash", "close"} /\ (closing[c] => job[c][f].step # "forget")
  /\ GivesUp(c, f) /\ Mishap
  /\ slipped' = IF job[c][f].step \in {"keep", "forget"} THEN [slipped EXCEPT ![c] = @ \cup {f}] ELSE slipped

-----------------------------------------------------------------------------
(***************************************************************************)
(* The Portal stops; a sandbox is made again.                              *)
(***************************************************************************)

Stops ==
  /\ Mishap /\ \E c \in Chats : phase[c] # "idle" \/ waiting[c] > 0
  /\ phase' = ForAll("idle") /\ waiting' = ForAll(0)
  /\ need' = ForAll([n \in Nodes |-> "none"]) /\ left' = ForAll({}) /\ at' = ForAll(None)
  /\ closing' = ForAll(FALSE) /\ tree' = ForAll(Nothing) /\ job' = ForAll([f \in Files |-> NoJob])
  /\ could' = ForAll({})
  /\ slipped' = [c \in Chats |-> slipped[c] \cup {f \in Files : job[c][f].step \in {"keep", "forget"}}]
  /\ due' = ForAll(TRUE) /\ Disturbed
  /\ UNCHANGED <<role, driveVars, asked, rows, box, changes, edits, removed, copied>>

\* The node makes the sandbox again from nothing, and ensure's answer says so; between syncs.
SandboxStartedOver(c) ==
  /\ Mishap /\ phase[c] = "idle" /\ box[c] # Nothing
  /\ box' = [box EXCEPT ![c] = Nothing] /\ rows' = [rows EXCEPT ![c] = Nothing]
  /\ removed' = [removed EXCEPT ![c] = {}] /\ copied' = [copied EXCEPT ![c] = {}] /\ slipped' = [slipped EXCEPT ![c] = {}]
  /\ Disturbed
  /\ UNCHANGED <<role, driveVars, asked, waiting, syncVars, changes, edits, could, due>>

-----------------------------------------------------------------------------
Job(c, f) ==
  \/ ReadFull(c, f) \/ Add(c, f) \/ Replace(c, f) \/ Finish(c, f) \/ Trash(c, f) \/ Conflict(c, f)
  \/ Put(c, f) \/ Write(c, f) \/ Keep(c, f) \/ Remove(c, f) \/ Forget(c, f) \/ Misses(c, f)

Goings(c) ==
  \/ Begin(c) \/ Listed(c) \/ Arrived(c) \/ Taken(c) \/ End(c)
  \/ \E n \in Nodes : Take(c, n)
  \/ \E f \in Files : Job(c, f)

Sync(c) == Goings(c) \/ ListingFails(c) \/ \E f \in Files : CloseFails(c, f) \/ Fails(c, f)

People ==
  \/ \E r \in pending : deny(r) \/ \E n \in Nodes, scope \in {r.chat, Always} : allow(r, scope, n)
  \/ \E want \in {"none", "read", "change"} : setSpaceAuto(want)
  \/ \E g \in grants : revokeGrant(g)
  \/ \E r \in {"none", "viewer", "editor"} : setMember(r)
  \/ \E f \in Files : PersonWrites(f) \/ PersonTrashes(f) \/ PersonRestores(f)

Agent(c) ==
  \/ \E n \in Nodes, want \in Needs : onRequest(c, n, want)
  \/ AskSync(c)
  \/ \E f \in Files : AgentWrites(c, f) \/ AgentRemoves(c, f)

Next ==
  \/ People \/ Stops
  \/ \E c \in Chats : Agent(c) \/ Sync(c) \/ SandboxStartedOver(c)

Spec == Init /\ [][Next]_vars /\ \A c \in Chats : WF_vars(Goings(c))

-----------------------------------------------------------------------------
(***************************************************************************)
(* Properties.                                                             *)
(***************************************************************************)

\* access.ts, "both ways for change, Drive -> sandbox only for read": whatever is answered, taken
\* back or changed meanwhile, a sync changes or trashes only a file that the person let this chat
\* change at some time since the sync began, and as an editor of its space: now, or as an upload's
\* last step, when it was begun.
OnlyWhatTheyAllowed ==
  [][\A c \in Chats : Sync(c) => \A f \in Files :
       drive'[f] # drive[f] \/ (f \in trashed') # (f \in trashed) =>
         f \in could[c] /\ (role = "editor" \/ job[c][f].step = "finish")]_vars

\* access.ts, "every chat with files open drops what it may no longer have, now": once no sync of a
\* chat runs or waits, what the Portal put in its sandbox is allowed still, but for what failed to
\* be removed or was not recorded. What no sync follows (the person's role, the trash, a sync that
\* failed in part or was cut short) waits for the next.
RevokedGone ==
  \A c \in Chats : phase[c] = "idle" /\ waiting[c] = 0 /\ ~due[c] =>
    \A f \in copied[c] \ slipped[c] : Allowed(c, f)

\* model.ts, "rather than taking their absence for deletions": a sync trashes a person's file only
\* when the agent removed it, unless the sync before was cut off having removed it itself.
TrashesOnlyRemoved ==
  [][\A c \in Chats : Sync(c) => \A f \in trashed' \ trashed : f \in removed[c] \cup slipped[c]]_vars

\* access.ts, "Brings every node the chat has open into agreement with Drive": after a sync that
\* nothing disturbed, what is open is in the sandbox as it is in Drive.
Agree ==
  \A c \in Chats : phase[c] = "idle" /\ calm[c] = "yes" =>
    \A n \in opened[c] : \A f \in Under(n) : Live(f) => box[c][f] = drive[f]

\* syncOpened's chain: a sync that was asked for begins, whatever became of the one before it.
SyncsBegin == \A c \in Chats : waiting[c] > 0 ~> (phase[c] = "listing" \/ waiting[c] = 0)
=============================================================================
