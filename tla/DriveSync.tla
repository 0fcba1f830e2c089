----------------------------- MODULE DriveSync -----------------------------
(***************************************************************************)
(* Keeping a chat's files the same in its sandbox and in its Drive folder  *)
(* (the Portal's lib/code/sync.ts and drive.ts): what a sync decides from  *)
(* a listing of each side and what both held when they last agreed, and    *)
(* how it carries that out while calls fail, the Portal stops, and the     *)
(* agent or a person goes on editing.                                      *)
(*                                                                         *)
(* One sync runs at a time; its files go their ways side by side, each a   *)
(* job of a few steps, one per await.                                      *)
(***************************************************************************)
EXTENDS Naturals, Sequences, FiniteSets

CONSTANTS
  Paths,        \* names: the suffixes a file's first name has been given
  Edited,       \* those the agent and people write to
  Racers,       \* who may edit while a sync runs: "agent" or "person"
  MaxEdits,     \* bound on edits
  MaxNodes,     \* bound on files ever made in Drive
  MaxMishaps    \* bound on failed calls, restarts, sandboxes made again and folders trashed, together

ASSUME SyncAssumption ==
  /\ IsFiniteSet(Paths) /\ Paths \subseteq Seq(STRING)
  /\ Edited \subseteq Paths
  /\ Racers \subseteq {"agent", "person"}
  /\ MaxEdits \in Nat /\ MaxNodes \in Nat /\ MaxMishaps \in Nat

VARIABLES
  sandbox,     \* what each path holds in the sandbox
  nodes,       \* Drive's files, by node id
  folder,      \* task folders made so far: the last is the chat's
  folderLive,  \* and is not in the trash
  synced,      \* the synced table
  phase,       \* where the sync is
  listed,      \* the sandbox's listing, as the node made it
  job,         \* what is under way for each path
  edits,       \* edits so far; each writes a content of its own, or moves a file
  agents,      \* contents the agent wrote; the others are people's
  superseded,  \* contents the agent or a person replaced or removed themselves
  copied,      \* contents a sync has kept as an agent's copy
  calm,        \* syncs in a row that nothing disturbed
  clean,       \* nothing has disturbed the one under way
  racer,       \* who edits while a sync runs
  leftOut,     \* names the node's listing leaves out: ignored by git, too large, or past the 5,000th
  unlisted,    \* contents that were left out of a listing
  mishaps      \* failed calls, restarts, sandboxes made again and folders trashed, so far

driveVars == <<nodes, folder, folderLive>>
syncVars == <<phase, listed, job>>
notes == <<edits, agents, superseded, racer, leftOut>>
vars == <<sandbox, driveVars, synced, syncVars, notes, unlisted, copied, calm, clean, mishaps>>

None == 0
Contents == 1..MaxEdits
NoRow == [node |-> None, content |-> None, version |-> 0]
NoJob == [step |-> "none", node |-> None, bytes |-> None, version |-> 0]
Steps == {"none", "upload", "add", "update", "replace", "finish", "trash", "put", "write",
          "record", "delete", "unrecord", "conflict", "copy", "forget"}

\* The live file with this name in the chat's folder; a folder has one of a name.
nodeAt(p) ==
  LET here == {n \in DOMAIN nodes : nodes[n].live /\ nodes[n].path = p /\ nodes[n].home = folder}
  IN IF here = {} THEN None ELSE CHOOSE n \in here : TRUE

agentCopyName(p) == Append(p, "agent")
conflictName(p) == Append(p, "elsewhere")
numbered(p) == Append(p, "2")
freeName(p) == IF nodeAt(p) = None THEN p ELSE numbered(p)

TypeOK ==
  /\ sandbox \in [Paths -> {None} \cup Contents]
  /\ nodes \in Seq([path : Paths, home : 1..folder, content : Contents,
                     version : Nat, live : BOOLEAN])
  /\ Len(nodes) <= MaxNodes
  /\ folder \in 0..MaxMishaps + 1 /\ folderLive \in BOOLEAN
  /\ synced \in [Paths -> {NoRow} \cup
                 [node : DOMAIN nodes, content : Contents, version : Nat]]
  /\ phase \in {"idle", "listing", "listed", "applying"}
  /\ listed \in [Paths -> {None} \cup Contents]
  /\ job \in [Paths -> [step : Steps, node : {None} \cup DOMAIN nodes, bytes : {None} \cup Contents,
                        version : Nat]]
  /\ phase # "applying" => \A p \in Paths : job[p] = NoJob
  /\ edits \in 0..MaxEdits
  /\ agents \subseteq Contents /\ superseded \subseteq Contents /\ copied \subseteq Contents
  /\ leftOut \subseteq Edited /\ unlisted \subseteq Contents
  /\ calm \in 0..2 /\ clean \in BOOLEAN
  /\ racer \in Racers
  /\ mishaps \in 0..MaxMishaps

Init ==
  /\ sandbox = [p \in Paths |-> None]
  /\ nodes = <<>>
  /\ folder = 0 /\ folderLive = FALSE
  /\ synced = [p \in Paths |-> NoRow]
  /\ phase = "idle"
  /\ listed = [p \in Paths |-> None]
  /\ job = [p \in Paths |-> NoJob]
  /\ edits = 0
  /\ agents = {}
  /\ superseded = {}
  /\ copied = {}
  /\ calm = 0
  /\ clean = FALSE
  /\ racer \in Racers
  /\ leftOut \in SUBSET Edited /\ unlisted = {}
  /\ mishaps = 0

-----------------------------------------------------------------------------
(***************************************************************************)
(* The agent and the people.                                               *)
(***************************************************************************)

Disturbed == calm' = 0 /\ clean' = FALSE
Mishap == mishaps < MaxMishaps /\ mishaps' = mishaps + 1
MayEdit(who) == edits < MaxEdits /\ edits' = edits + 1 /\ (phase = "idle" \/ racer = who)

\* The agent writes a file of its own.
AgentWrites ==
  \E p \in Edited :
    /\ MayEdit("agent")
    /\ sandbox' = [sandbox EXCEPT ![p] = edits']
    /\ agents' = agents \cup {edits'}
    /\ superseded' = superseded \cup ({sandbox[p]} \ {None})
    /\ Disturbed
    /\ UNCHANGED <<driveVars, synced, syncVars, racer, leftOut, mishaps, unlisted, copied>>

AgentRemoves ==
  \E p \in Edited :
    /\ MayEdit("agent") /\ sandbox[p] # None
    /\ sandbox' = [sandbox EXCEPT ![p] = None]
    /\ superseded' = superseded \cup {sandbox[p]}
    /\ Disturbed
    /\ UNCHANGED <<driveVars, synced, syncVars, agents, racer, leftOut, mishaps, unlisted, copied>>

\* The agent has git ignore a file, or ignores it no longer; or it grows, or shrinks.
AgentIgnores ==
  \E p \in Edited :
    /\ MayEdit("agent")
    /\ leftOut' = IF p \in leftOut THEN leftOut \ {p} ELSE leftOut \cup {p}
    /\ Disturbed
    /\ UNCHANGED <<sandbox, driveVars, synced, syncVars, agents, superseded, racer, mishaps, unlisted, copied>>

\* A person adds a file to the folder, or replaces one: Drive takes it as a new version.
PersonWrites ==
  \E p \in Edited :
    /\ MayEdit("person") /\ folderLive
    /\ LET n == nodeAt(p) IN
       IF n = None
       THEN /\ Len(nodes) < MaxNodes
            /\ nodes' = Append(nodes, [path |-> p, home |-> folder, content |-> edits', version |-> 1, live |-> TRUE])
            /\ UNCHANGED superseded
       ELSE /\ nodes' = [nodes EXCEPT ![n].content = edits', ![n].version = @ + 1]
            /\ superseded' = superseded \cup {nodes[n].content}
    /\ Disturbed
    /\ UNCHANGED <<sandbox, folder, folderLive, synced, syncVars, agents, racer, leftOut, mishaps, unlisted, copied>>

\* A person moves a file to the trash, where it can be had back.
PersonTrashes ==
  \E p \in Edited :
    /\ MayEdit("person") /\ folderLive /\ nodeAt(p) # None
    /\ nodes' = [nodes EXCEPT ![nodeAt(p)].live = FALSE]
    /\ superseded' = superseded \cup {nodes[nodeAt(p)].content}
    /\ Disturbed
    /\ UNCHANGED <<sandbox, folder, folderLive, synced, syncVars, agents, racer, leftOut, mishaps, unlisted, copied>>

\* A person has a file back from the trash, where its name is still free.
PersonRestores ==
  \E n \in DOMAIN nodes :
    /\ MayEdit("person") /\ folderLive /\ nodes[n].home = folder
    /\ ~nodes[n].live /\ nodeAt(nodes[n].path) = None
    /\ nodes' = [nodes EXCEPT ![n].live = TRUE]
    /\ Disturbed
    /\ UNCHANGED <<sandbox, folder, folderLive, synced, syncVars, agents, superseded, racer, leftOut, mishaps, unlisted, copied>>

\* A person moves the whole folder to the trash; between syncs only.
PersonTrashesFolder ==
  /\ phase = "idle" /\ folderLive /\ Mishap
  /\ folderLive' = FALSE
  /\ Disturbed
  /\ UNCHANGED <<sandbox, nodes, folder, synced, syncVars, notes, unlisted, copied>>

\* Mutant: what was synced is kept.
sandboxStartedOver_RowsKept ==
  /\ phase = "idle" /\ Mishap
  /\ sandbox' = [p \in Paths |-> None]
  /\ Disturbed
  /\ UNCHANGED <<driveVars, synced, syncVars, notes, unlisted, copied>>

\* The sandbox is made again from nothing, and ensure's answer says so; between syncs only.
sandboxStartedOver ==
  /\ phase = "idle" /\ Mishap
  /\ sandbox' = [p \in Paths |-> None]
  /\ synced' = [p \in Paths |-> NoRow]
  /\ Disturbed
  /\ UNCHANGED <<driveVars, syncVars, notes, unlisted, copied>>

-----------------------------------------------------------------------------
(***************************************************************************)
(* A sync: the listings and the plan.                                      *)
(***************************************************************************)

\* taskFolder makes the folder if it is not there; what was synced describes another then.
SyncStart ==
  /\ phase = "idle"
  /\ phase' = "listing"
  /\ folder' = IF folderLive THEN folder ELSE folder + 1
  /\ folderLive' = TRUE
  /\ synced' = IF folderLive THEN synced ELSE [p \in Paths |-> NoRow]
  /\ clean' = TRUE
  /\ UNCHANGED <<sandbox, nodes, listed, job, notes, calm, mishaps, unlisted, copied>>

\* The node lists the sandbox, but for what it leaves out; that it did is not looked at.
Listed ==
  /\ phase = "listing"
  /\ phase' = "listed"
  /\ listed' = [p \in Paths |-> IF p \in leftOut THEN None ELSE sandbox[p]]
  /\ unlisted' = unlisted \cup ({sandbox[p] : p \in leftOut} \ {None})
  /\ UNCHANGED <<sandbox, driveVars, synced, job, notes, copied, calm, clean, mishaps>>

\* Mutant: the version Drive gives a file is not looked at.
planSync_AnyVersion(row, t, d, version) ==
  LET sandboxChanged == t # row.content
      driveChanged == d # row.node
  IN CASE ~sandboxChanged /\ ~driveChanged -> "none"
       [] sandboxChanged /\ ~driveChanged ->
            IF t = None THEN "trash" ELSE IF row = NoRow THEN "upload" ELSE "update"
       [] ~sandboxChanged /\ driveChanged -> IF d = None THEN "delete" ELSE "put"
       [] OTHER -> IF t # None THEN "conflict" ELSE IF d = None THEN "forget" ELSE "put"

\* Mutant: Drive's file goes in without the agent's being kept.
planSync_NoConflict(row, t, d, version) ==
  LET sandboxChanged == t # row.content
      driveChanged == d # row.node \/ version # row.version
  IN CASE ~sandboxChanged /\ ~driveChanged -> "none"
       [] sandboxChanged /\ ~driveChanged ->
            IF t = None THEN "trash" ELSE IF row = NoRow THEN "upload" ELSE "update"
       [] ~sandboxChanged /\ driveChanged -> IF d = None THEN "delete" ELSE "put"
       [] OTHER -> IF d = None THEN "delete" ELSE "put"

\* The step a path's job begins with. A path without a row reads as one that held nothing.
planSync(row, t, d, version) ==
  LET sandboxChanged == t # row.content
      driveChanged == d # row.node \/ version # row.version
  IN CASE ~sandboxChanged /\ ~driveChanged -> "none"
       [] sandboxChanged /\ ~driveChanged ->
            IF t = None THEN "trash" ELSE IF row = NoRow THEN "upload" ELSE "update"
       [] ~sandboxChanged /\ driveChanged -> IF d = None THEN "delete" ELSE "put"
       [] OTHER -> IF t # None THEN "conflict" ELSE IF d = None THEN "forget" ELSE "put"

Planned(p) ==
  LET d == nodeAt(p)
      version == IF d = None THEN 0 ELSE nodes[d].version
      kind == planSync(synced[p], listed[p], d, version)
  IN IF kind = "none" THEN NoJob ELSE [NoJob EXCEPT !.step = kind, !.node = d]

\* The listing arrives: the plan is made from it, the rows and Drive as these are by now.
Plan ==
  /\ phase = "listed"
  /\ phase' = "applying"
  /\ job' = [p \in Paths |-> Planned(p)]
  /\ UNCHANGED <<sandbox, driveVars, synced, listed, notes, calm, clean, mishaps, unlisted, copied>>

\* Every file's job is done.
SyncEnd ==
  /\ phase = "applying" /\ \A p \in Paths : job[p] = NoJob
  /\ phase' = "idle"
  /\ listed' = [p \in Paths |-> None]
  /\ calm' = IF ~clean THEN 0 ELSE IF calm < 2 THEN calm + 1 ELSE 2
  /\ clean' = FALSE
  /\ UNCHANGED <<sandbox, driveVars, synced, job, notes, mishaps, unlisted, copied>>

\* The listing fails: syncOnce throws and its caller logs it.
SyncFails ==
  /\ phase \in {"listing", "listed"} /\ Mishap
  /\ phase' = "idle"
  /\ listed' = [p \in Paths |-> None]
  /\ Disturbed
  /\ UNCHANGED <<sandbox, driveVars, synced, job, notes, unlisted, copied>>

-----------------------------------------------------------------------------
(***************************************************************************)
(* A sync: apply, one step per await of each path's job.                   *)
(***************************************************************************)

At(p, step) == phase = "applying" /\ job[p].step = step
Goes(p, step) == job' = [job EXCEPT ![p].step = step]
Ends(p) == job' = [job EXCEPT ![p] = NoJob]
recordSynced(p, node, content, version) ==
  synced' = [synced EXCEPT ![p] = [node |-> node, content |-> content, version |-> version]]
Forgotten(p) == synced' = [synced EXCEPT ![p] = NoRow]

\* A new file in Drive for what the job has read.
addFile(p, name) ==
  /\ freeName(name) \in Paths /\ nodeAt(freeName(name)) = None /\ Len(nodes) < MaxNodes
  /\ nodes' = Append(nodes, [path |-> freeName(name), home |-> folder, content |-> job[p].bytes,
                             version |-> 1, live |-> TRUE])

\* finishUpload: over the file the bytes replace, or beside it if that was edited or went meanwhile.
finishUpload(p) ==
  LET n == job[p].node IN
  IF nodes[n].live /\ nodes[n].version = job[p].version
  THEN nodes' = [nodes EXCEPT ![n].content = job[p].bytes, ![n].version = @ + 1]
  ELSE addFile(p, IF nodes[n].live THEN conflictName(p) ELSE p)

FinishedNode(p) == IF Len(nodes') > Len(nodes) THEN Len(nodes') ELSE job[p].node

\* readFull for upload, update and conflict: what the sandbox holds by now.
ReadFull(p) ==
  /\ \E next \in {<<"upload", "add">>, <<"update", "replace">>, <<"conflict", "copy">>} :
       At(p, next[1]) /\ job' = [job EXCEPT ![p].step = next[2], ![p].bytes = sandbox[p]]
  /\ sandbox[p] # None
  /\ UNCHANGED <<sandbox, driveVars, synced, phase, listed, notes, calm, clean, mishaps, unlisted, copied>>

UploadAdd(p) ==
  /\ At(p, "add")
  /\ addFile(p, p)
  /\ recordSynced(p, Len(nodes'), job[p].bytes, 1)
  /\ Ends(p)
  /\ UNCHANGED <<sandbox, folder, folderLive, phase, listed, notes, calm, clean, mishaps, unlisted, copied>>

\* replaceInDrive reads the version it means to replace only now.
UpdateReplace(p) ==
  /\ At(p, "replace") /\ nodes[job[p].node].live
  /\ job' = [job EXCEPT ![p].step = "finish", ![p].version = nodes[job[p].node].version]
  /\ UNCHANGED <<sandbox, driveVars, synced, phase, listed, notes, calm, clean, mishaps, unlisted, copied>>

UpdateFinish(p) ==
  /\ At(p, "finish")
  /\ finishUpload(p)
  /\ LET n == FinishedNode(p) IN recordSynced(p, n, job[p].bytes, nodes'[n].version)
  /\ Ends(p)
  /\ UNCHANGED <<sandbox, folder, folderLive, phase, listed, notes, calm, clean, mishaps, unlisted, copied>>

\* A file already gone from Drive is only forgotten.
Trash(p) ==
  /\ At(p, "trash")
  /\ nodes' = [nodes EXCEPT ![job[p].node].live = FALSE]
  /\ Forgotten(p)
  /\ Ends(p)
  /\ UNCHANGED <<sandbox, folder, folderLive, phase, listed, notes, calm, clean, mishaps, unlisted, copied>>

\* driveBytes: the node and its bytes as they are now.
PutRead(p) ==
  /\ At(p, "put") /\ nodes[job[p].node].live
  /\ LET file == nodes[job[p].node] IN
     job' = [job EXCEPT ![p].step = "write", ![p].bytes = file.content, ![p].version = file.version]
  /\ UNCHANGED <<sandbox, driveVars, synced, phase, listed, notes, calm, clean, mishaps, unlisted, copied>>

\* The node writes the file; its answer is still on the way.
PutWrite(p) ==
  /\ At(p, "write")
  /\ sandbox' = [sandbox EXCEPT ![p] = job[p].bytes]
  /\ Goes(p, "record")
  /\ UNCHANGED <<driveVars, synced, phase, listed, notes, calm, clean, mishaps, unlisted, copied>>

PutRecord(p) ==
  /\ At(p, "record")
  /\ recordSynced(p, job[p].node, job[p].bytes, job[p].version)
  /\ Ends(p)
  /\ UNCHANGED <<sandbox, driveVars, phase, listed, notes, calm, clean, mishaps, unlisted, copied>>

\* The node removes the file; its answer is still on the way.
Delete(p) ==
  /\ At(p, "delete")
  /\ sandbox' = [sandbox EXCEPT ![p] = None]
  /\ Goes(p, "unrecord")
  /\ UNCHANGED <<driveVars, synced, phase, listed, notes, calm, clean, mishaps, unlisted, copied>>

\* After a delete, and for what is gone from both sides.
Forget(p) ==
  /\ At(p, "unrecord") \/ At(p, "forget")
  /\ Forgotten(p)
  /\ Ends(p)
  /\ UNCHANGED <<sandbox, driveVars, phase, listed, notes, calm, clean, mishaps, unlisted, copied>>

\* The agent's version goes beside the file before Drive's, or its absence, takes the name.
ConflictCopy(p) ==
  /\ At(p, "copy") /\ agentCopyName(p) \in Paths
  /\ sandbox' = [sandbox EXCEPT ![agentCopyName(p)] = job[p].bytes]
  /\ copied' = copied \cup {job[p].bytes}
  /\ Goes(p, IF job[p].node = None THEN "delete" ELSE "put")
  /\ UNCHANGED <<driveVars, synced, phase, listed, notes, unlisted, calm, clean, mishaps>>

\* What a job needs has gone since the plan: its error is caught, the file tried again next time.
Missing(p) ==
  \/ \E s \in {"upload", "update", "conflict"} : At(p, s) /\ sandbox[p] = None
  \/ \E s \in {"replace", "put"} : At(p, s) /\ ~nodes[job[p].node].live

GivesUp(p) ==
  /\ phase = "applying"
  /\ Ends(p)
  /\ Disturbed
  /\ UNCHANGED <<sandbox, driveVars, synced, phase, listed, notes, unlisted, copied>>

JobMisses(p) == Missing(p) /\ GivesUp(p) /\ UNCHANGED mishaps

\* A call to the node, or reading or writing a file of Drive's, fails.
JobFails(p) == job[p].step \notin {"none", "trash", "forget"} /\ GivesUp(p) /\ Mishap

-----------------------------------------------------------------------------
(***************************************************************************)
(* The Portal stops: what was under way is forgotten.                      *)
(***************************************************************************)

Stops ==
  /\ phase # "idle" /\ Mishap
  /\ phase' = "idle"
  /\ listed' = [p \in Paths |-> None]
  /\ job' = [p \in Paths |-> NoJob]
  /\ Disturbed
  /\ UNCHANGED <<sandbox, folder, folderLive, synced, notes, unlisted, copied>>

Restart == Stops /\ UNCHANGED nodes

\* ... between Drive's taking a file and the row that says so: two databases.
StopsUnrecorded(p) ==
  /\ Stops
  /\ \/ At(p, "add") /\ addFile(p, p)
     \/ At(p, "finish") /\ finishUpload(p)

-----------------------------------------------------------------------------
Job(p) ==
  \/ ReadFull(p) \/ UploadAdd(p) \/ UpdateReplace(p) \/ UpdateFinish(p) \/ Trash(p)
  \/ PutRead(p) \/ PutWrite(p) \/ PutRecord(p) \/ Delete(p) \/ Forget(p)
  \/ ConflictCopy(p) \/ JobMisses(p) \/ JobFails(p) \/ StopsUnrecorded(p)

Sync == SyncStart \/ Listed \/ Plan \/ SyncEnd \/ SyncFails \/ Restart \/ \E p \in Paths : Job(p)

Edit ==
  \/ AgentWrites \/ AgentRemoves \/ AgentIgnores
  \/ PersonWrites \/ PersonTrashes \/ PersonRestores \/ PersonTrashesFolder
  \/ sandboxStartedOver

Next == Edit \/ Sync

Spec == Init /\ [][Next]_vars

-----------------------------------------------------------------------------
(***************************************************************************)
(* Properties.                                                             *)
(***************************************************************************)

\* Contents someone can still get at; Drive's trash counts.
Held == ({sandbox[p] : p \in Paths} \cup {nodes[n].content : n \in DOMAIN nodes}) \ {None}
Author(c) == IF c \in agents THEN "agent" ELSE "person"

\* sync.ts, "Keeping a task's files in Drive and in its sandbox the same": no step of a sync, no
\* failure of one and no stopping of the Portal in the middle of one makes an edit disappear from
\* both sides, unless whoever made the edit gave it up by another, or it was kept as an agent's
\* copy first (a later copy takes that name again), or the listing left it out. Of the one who edits
\* while a sync runs this is not so: what they wrote after the sync listed is replaced by what it
\* carries.
EditsKept ==
  [][Sync => \A c \in Held \ Held' : c \in superseded \cup copied \cup unlisted \/ Author(c) = racer]_vars

\* drive.ts, "Brings the task's Drive folder and its sandbox into agreement": after two syncs
\* that nothing disturbed (the second takes up what the first kept beside a file) both sides
\* hold the same of what the sandbox lists, whatever edits, failures and restarts came before.
Agree == \A p \in Paths \ leftOut : sandbox[p] = IF nodeAt(p) = None THEN None ELSE nodes[nodeAt(p)].content
TwoSyncsAgree == calm = 2 => Agree

\* model.ts, "rather than taking their absence for deletions": a sync trashes a file only when the
\* agent or a person gave up what it holds, whatever failed and however often the sandbox was made
\* again, unless the listing left it out, or it was written while the sync ran.
TrashesOnlyGivenUp ==
  [][Sync => \A n \in DOMAIN nodes : nodes[n].live /\ ~nodes'[n].live =>
       nodes[n].content \in superseded \cup unlisted \/ Author(nodes[n].content) = racer]_vars
=============================================================================
