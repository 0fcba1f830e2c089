------------------------- MODULE FilesAccessProofs -------------------------
(***************************************************************************)
(* Theorems about FilesAccess, for any chats, files and bounds: a sync     *)
(* changes and trashes only what the person let its chat change, and       *)
(* trashes only what the agent removed; what a chat may no longer have is  *)
(* gone from its sandbox once its syncs are done; and a sync that nothing  *)
(* disturbed brings what is open into agreement with Drive.                *)
(***************************************************************************)
EXTENDS FilesAccess, TLAPS

-----------------------------------------------------------------------------
(***************************************************************************)
(* What goes out was allowed.                                              *)
(***************************************************************************)


\* The steps that lead to a change of a file in Drive.
Outward == {"upload", "add", "update", "replace", "finish", "trash"}

Shape ==
  /\ DOMAIN drive = Files /\ DOMAIN phase = Chats /\ DOMAIN could = Chats /\ DOMAIN need = Chats
  /\ DOMAIN job = Chats /\ \A c \in Chats : DOMAIN job[c] = Files

\* Before a sync has planned there is nothing to do.
JobsArePlanned == \A c \in Chats : phase[c] # "planned" => \A f \in Files : job[c][f] = NoJob

\* What a sync read of the grants it may still use, were they taken back since.
ReadWasAllowed == \A c \in Chats, n \in Nodes : need[c][n] = "change" => Under(n) \subseteq could[c]

JobsWereAllowed == \A c \in Chats, f \in Files : job[c][f].step \in Outward => f \in could[c]

AccessInv == Shape /\ JobsArePlanned /\ ReadWasAllowed /\ JobsWereAllowed

-----------------------------------------------------------------------------
\* access-plan.ts, readOnly: whatever is planned, nothing of it goes out.
LEMMA ReadOnlyStaysIn ==
  ASSUME NEW row, NEW t, NEW d
  PROVE  readOnly(planSync(row, t, d), d) \notin Outward
<1> DEFINE kind == planSync(row, t, d)
<1>1. kind \in {"none", "upload", "trash", "update", "delete", "put", "conflict", "forget"}
  BY DEF planSync
<1>2. \A k \in {"none", "upload", "trash", "update", "delete", "put", "conflict", "forget"} :
        readOnly(k, d) \notin Outward
  BY DEF readOnly, Outward
<1> QED BY <1>1, <1>2

\* A grant to change a node is one to change all that is under it.
LEMMA GrantsReachDown ==
  ASSUME NEW c, NEW n \in Nodes, needOn(c, n) = "change"
  PROVE  Under(n) \subseteq Changes(c, grants)
<1>1. PICK g \in grants : g.scope \in {c, Always} /\ g.node \in chainOf(n) /\ covers(g.need, "change")
  BY DEF needOn, coveringGrant
<1>2. g.need = "change"
  BY <1>1 DEF covers
<1>3. \A f \in Under(n) : f \in Files /\ g.node \in chainOf(f)
  BY <1>1 DEF Under, chainOf, Nodes
<1> QED BY <1>1, <1>2, <1>3 DEF Changes

-----------------------------------------------------------------------------
\* While a sync is under way, what its chat was let change only grows.
LEMMA GrowthKeeps ==
  ASSUME AccessInv, UNCHANGED <<phase, need, job>>, DOMAIN drive' = Files,
         DOMAIN could' = Chats, \A c \in Chats : could[c] \subseteq could'[c]
  PROVE  AccessInv'
<1>1. Shape' /\ JobsArePlanned'
  BY DEF AccessInv, Shape, JobsArePlanned
<1>2. ReadWasAllowed'
  BY DEF AccessInv, ReadWasAllowed
<1>3. JobsWereAllowed'
  BY DEF AccessInv, JobsWereAllowed
<1> QED BY <1>1, <1>2, <1>3 DEF AccessInv

LEMMA NotedGrows ==
  ASSUME NEW given, Noted(given)
  PROVE  DOMAIN could' = Chats /\ \A c \in Chats : could[c] \subseteq could'[c]
BY DEF Noted

LEMMA Answering ==
  ASSUME AccessInv,
         \/ \E r \in pending : deny(r) \/ \E n \in Nodes, scope \in {r.chat, Always} : allow(r, scope, n)
         \/ \E want \in {"none", "read", "change"} : setSpaceAuto(want)
         \/ \E g \in grants : revokeGrant(g)
         \/ \E c \in Chats, n \in Nodes, want \in Needs : onRequest(c, n, want)
  PROVE  AccessInv'
<1>1. UNCHANGED <<drive, phase, need, job>>
  BY DEF deny, allow, setSpaceAuto, revokeGrant, onRequest, Answers, TakesEffect, Quiet, driveVars, syncVars
<1>2. UNCHANGED could \/ \E given : Noted(given)
  BY DEF deny, allow, setSpaceAuto, revokeGrant, onRequest, TakesEffect
<1>3. DOMAIN could' = Chats /\ \A c \in Chats : could[c] \subseteq could'[c]
  BY <1>2, NotedGrows DEF AccessInv, Shape
<1>4. DOMAIN drive' = Files
  BY <1>1 DEF AccessInv, Shape
<1> QED BY <1>1, <1>3, <1>4, GrowthKeeps

LEMMA Editing ==
  ASSUME AccessInv,
         \/ \E r \in {"none", "viewer", "editor"} : setMember(r)
         \/ \E f \in Files : PersonWrites(f) \/ PersonTrashes(f) \/ PersonRestores(f)
         \/ \E c \in Chats : AskSync(c) \/ SandboxStartedOver(c) \/ Taken(c)
         \/ \E c \in Chats, f \in Files : AgentWrites(c, f) \/ AgentRemoves(c, f)
         \/ UNCHANGED vars
  PROVE  AccessInv'
<1>1. UNCHANGED <<phase, need, job, could>>
  BY DEF setMember, PersonWrites, PersonTrashes, PersonRestores, DriveChanges, AskSync, SandboxStartedOver,
         Taken, AgentWrites, AgentRemoves, driveVars, syncVars, notes, vars
<1>2. DOMAIN drive' = Files
  BY DEF setMember, PersonWrites, PersonTrashes, PersonRestores, DriveChanges, AskSync, SandboxStartedOver,
         Taken, AgentWrites, AgentRemoves, driveVars, vars, AccessInv, Shape
<1>3. DOMAIN could' = Chats /\ \A c \in Chats : could[c] \subseteq could'[c]
  BY <1>1 DEF AccessInv, Shape
<1> QED BY <1>1, <1>2, <1>3, GrowthKeeps

-----------------------------------------------------------------------------
LEMMA Begins ==
  ASSUME AccessInv, NEW c \in Chats, Begin(c), opened[c] # {}
  PROVE  AccessInv'
<1>1. /\ phase[c] = "idle" /\ phase' = [phase EXCEPT ![c] = "listing"] /\ UNCHANGED <<drive, job>>
      /\ need' = [need EXCEPT ![c] = [n \in Nodes |-> IF n \in opened[c] THEN needOn(c, n) ELSE "none"]]
      /\ could' = [could EXCEPT ![c] = Changes(c, grants)]
  BY DEF Begin, driveVars
<1>2. Shape' /\ JobsArePlanned'
  BY <1>1 DEF AccessInv, Shape, JobsArePlanned
<1>3. ReadWasAllowed'
  <2>1. \A n \in Nodes : need'[c][n] = "change" => Under(n) \subseteq could'[c]
    BY <1>1, GrantsReachDown DEF AccessInv, Shape
  <2>2. \A b \in Chats \ {c} : need'[b] = need[b] /\ could'[b] = could[b]
    BY <1>1 DEF AccessInv, Shape
  <2> QED BY <2>1, <2>2 DEF AccessInv, ReadWasAllowed
<1>4. JobsWereAllowed'
  <2>1. \A f \in Files : job[c][f].step = "none"
    BY <1>1 DEF AccessInv, JobsArePlanned, NoJob
  <2>2. \A b \in Chats \ {c} : could'[b] = could[b]
    BY <1>1 DEF AccessInv, Shape
  <2> QED BY <1>1, <2>1, <2>2 DEF AccessInv, JobsWereAllowed, Outward
<1> QED BY <1>2, <1>3, <1>4 DEF AccessInv

LEMMA BeginStep ==
  ASSUME AccessInv, NEW c \in Chats, Begin(c)
  PROVE  AccessInv'
<1>1. CASE opened[c] = {}
  <2>1. UNCHANGED <<phase, need, job, could, drive>>
    BY <1>1 DEF Begin, driveVars
  <2> QED BY <2>1, GrowthKeeps DEF AccessInv, Shape
<1> QED BY <1>1, Begins

LEMMA Listing ==
  ASSUME AccessInv, NEW c \in Chats, Listed(c) \/ Arrived(c)
  PROVE  AccessInv'
<1>1. UNCHANGED <<drive, need, job, could>>
  BY DEF Listed, Arrived, driveVars, notes
<1>2. phase[c] # "planned" /\ \E to : phase' = [phase EXCEPT ![c] = to]
  BY DEF Listed, Arrived
<1> QED BY <1>1, <1>2 DEF AccessInv, Shape, JobsArePlanned, ReadWasAllowed, JobsWereAllowed

LEMMA Takes ==
  ASSUME AccessInv, NEW c \in Chats, NEW n \in Nodes, Take(c, n)
  PROVE  AccessInv'
<1> DEFINE want == IF need[c][n] = "change" /\ ceiling = "change" THEN "change" ELSE "read"
           planned == [f \in Files |->
             IF Closes(c, n) THEN IF f \in Closed(n) /\ rows[c][f] # None THEN [NoJob EXCEPT !.step = "close"] ELSE NoJob
             ELSE IF f \in Under(n) THEN Planned(c, n, want, f) ELSE NoJob]
<1>1. /\ phase[c] = "planned" /\ UNCHANGED <<drive, phase, need, could>>
      /\ job' = [job EXCEPT ![c] = planned]
  BY DEF Take, driveVars
<1>2. \A f \in Files : planned[f].step \in Outward => f \in Under(n) /\ Planned(c, n, want, f).step \in Outward
  BY DEF NoJob, Outward
<1>3. DOMAIN planned = Files
  OBVIOUS
<1>4. want \in {"change", "read"}
  OBVIOUS
<1> HIDE DEF planned, want
<1>5. ASSUME NEW f, Planned(c, n, want, f).step \in Outward
      PROVE  want = "change"
  BY <1>5, <1>4, ReadOnlyStaysIn DEF Planned, Outward
<1>6. want = "change" => Under(n) \subseteq could[c]
  BY DEF want, AccessInv, ReadWasAllowed
<1>7. Shape' /\ JobsArePlanned' /\ ReadWasAllowed'
  BY <1>1, <1>3 DEF AccessInv, Shape, JobsArePlanned, ReadWasAllowed
<1>8. JobsWereAllowed'
  BY <1>1, <1>5, <1>6, <1>2 DEF AccessInv, Shape, JobsWereAllowed
<1> QED BY <1>7, <1>8 DEF AccessInv

LEMMA Ending ==
  ASSUME AccessInv, NEW c \in Chats, Ended(c), UNCHANGED drive
  PROVE  AccessInv'
<1>1. Shape' /\ JobsArePlanned'
  BY DEF AccessInv, Shape, Ended, JobsArePlanned
<1>2. ReadWasAllowed'
  BY DEF AccessInv, Shape, Ended, ReadWasAllowed
<1>3. JobsWereAllowed'
  BY DEF AccessInv, Shape, Ended, JobsWereAllowed, NoJob, Outward
<1> QED BY <1>1, <1>2, <1>3 DEF AccessInv

LEMMA Stopping ==
  ASSUME AccessInv, Stops
  PROVE  AccessInv'
<1>1. UNCHANGED drive
  BY DEF Stops, driveVars
<1>2. /\ phase' = ForAll("idle") /\ could' = ForAll({}) /\ need' = ForAll([n \in Nodes |-> "none"])
      /\ job' = ForAll([f \in Files |-> NoJob])
  BY DEF Stops
<1> QED BY <1>1, <1>2 DEF AccessInv, Shape, JobsArePlanned, ReadWasAllowed, JobsWereAllowed, ForAll, NoJob, Outward

-----------------------------------------------------------------------------
\* A job's next step changes Drive only where the one before it was on the way to.
LEMMA Onward ==
  ASSUME AccessInv, NEW c \in Chats, NEW f \in Files, NEW j, phase[c] = "planned",
         UNCHANGED <<phase, need, could>>, DOMAIN drive' = Files,
         job' = [job EXCEPT ![c][f] = j], j.step \in Outward => job[c][f].step \in Outward
  PROVE  AccessInv'
<1>1. Shape' /\ JobsArePlanned' /\ ReadWasAllowed'
  BY DEF AccessInv, Shape, JobsArePlanned, ReadWasAllowed
<1>2. job'[c][f] = j /\ \A b \in Chats, g \in Files : b # c \/ g # f => job'[b][g] = job[b][g]
  BY DEF AccessInv, Shape
<1>3. JobsWereAllowed'
  BY <1>2 DEF AccessInv, JobsWereAllowed
<1> QED BY <1>1, <1>3 DEF AccessInv

LEMMA JobStep ==
  ASSUME AccessInv, NEW c \in Chats, NEW f \in Files, Job(c, f) \/ CloseFails(c, f) \/ Fails(c, f)
  PROVE  AccessInv'
<1>1. UNCHANGED <<phase, need, could>>
  BY DEF Job, ReadFull, Add, Replace, Finish, Trash, Conflict, Put, Write, Keep, Remove, Forget, Misses,
         CloseFails, Fails, GivesUp, Working, Unmoved
<1>2. DOMAIN drive' = Files
  BY DEF Job, ReadFull, Add, Replace, Finish, Trash, Conflict, Put, Write, Keep, Remove, Forget, Misses,
         CloseFails, Fails, GivesUp, driveVars, AccessInv, Shape
<1>3. phase[c] = "planned"
  BY DEF Job, ReadFull, Add, Replace, Finish, Trash, Conflict, Put, Write, Keep, Remove, Forget, Misses,
         CloseFails, Fails, GivesUp, Step
<1>4. \E j : job' = [job EXCEPT ![c][f] = j] /\ (j.step \in Outward => job[c][f].step \in Outward)
  <2>1. CASE ReadFull(c, f)
    BY <2>1 DEF ReadFull, Step, Goes, Outward
  <2>2. CASE Replace(c, f)
    BY <2>2 DEF Replace, Step, Goes, Outward
  <2>3. CASE Conflict(c, f) \/ Put(c, f) \/ Write(c, f) \/ Remove(c, f) \/ CloseFails(c, f)
    <3>1. PICK to \in {"put", "delete", "write", "keep", "forget"} : \E bytes : Goes(c, f, to, bytes)
      BY <2>3 DEF Conflict, Put, Write, Remove, CloseFails
    <3>2. PICK bytes : Goes(c, f, to, bytes)
      BY <3>1
    <3>3. [step |-> to, bytes |-> bytes].step \notin Outward
      BY <3>1 DEF Outward
    <3> QED BY <3>2, <3>3 DEF Goes
  <2>4. CASE Add(c, f) \/ Finish(c, f) \/ Trash(c, f) \/ Keep(c, f) \/ Forget(c, f) \/ Misses(c, f) \/ Fails(c, f)
    <3>1. Done(c, f)
      BY <2>4 DEF Add, Finish, Trash, Keep, Forget, Misses, Fails, GivesUp
    <3>2. NoJob.step \notin Outward
      BY DEF NoJob, Outward
    <3> QED BY <3>1, <3>2 DEF Done
  <2> QED BY <2>1, <2>2, <2>3, <2>4 DEF Job
<1> QED BY <1>1, <1>2, <1>3, <1>4, Onward

LEMMA SyncStep ==
  ASSUME AccessInv, NEW c \in Chats, Sync(c)
  PROVE  AccessInv'
<1>1. CASE Begin(c)
  BY <1>1, BeginStep
<1>2. CASE Listed(c) \/ Arrived(c)
  BY <1>2, Listing
<1>3. CASE Taken(c)
  BY <1>3, Editing
<1>4. CASE End(c) \/ ListingFails(c)
  BY <1>4, Ending DEF End, ListingFails, driveVars
<1>5. CASE \E n \in Nodes : Take(c, n)
  BY <1>5, Takes
<1>6. CASE \E f \in Files : Job(c, f) \/ CloseFails(c, f) \/ Fails(c, f)
  BY <1>6, JobStep
<1> QED BY <1>1, <1>2, <1>3, <1>4, <1>5, <1>6 DEF Sync, Goings

LEMMA AccessStep ==
  ASSUME AccessInv, [Next]_vars
  PROVE  AccessInv'
<1>1. CASE People
  BY <1>1, Answering, Editing DEF People
<1>2. CASE Stops
  BY <1>2, Stopping
<1>3. CASE \E c \in Chats : Agent(c)
  BY <1>3, Answering, Editing DEF Agent
<1>4. CASE \E c \in Chats : Sync(c)
  BY <1>4, SyncStep
<1>5. CASE (\E c \in Chats : SandboxStartedOver(c)) \/ UNCHANGED vars
  BY <1>5, Editing
<1> QED BY <1>1, <1>2, <1>3, <1>4, <1>5 DEF Next

-----------------------------------------------------------------------------
\* What of Drive one step of a sync changes.
LEMMA SyncChanges ==
  ASSUME AccessInv, NEW c \in Chats, Sync(c), NEW f \in Files,
         drive'[f] # drive[f] \/ (f \in trashed') # (f \in trashed)
  PROVE  /\ job[c][f].step \in {"add", "finish", "trash"}
         /\ role = "editor" \/ job[c][f].step = "finish"
<1>0. DOMAIN drive = Files
  BY DEF AccessInv, Shape
<1>1. PICK g \in Files : Add(c, g) \/ Finish(c, g) \/ Trash(c, g)
  BY DEF Sync, Goings, Begin, Listed, Arrived, Taken, End, Take, ListingFails, CloseFails, Fails, GivesUp, Job,
         ReadFull, Replace, Conflict, Put, Write, Keep, Remove, Forget, Misses, driveVars
<1>2. f = g
  BY <1>0, <1>1 DEF Add, Finish, Trash
<1>3. CASE Add(c, g)
  BY <1>2, <1>3 DEF Add, Step
<1>4. CASE Finish(c, g)
  BY <1>2, <1>4 DEF Finish, Step
<1>5. CASE Trash(c, g)
  <2>1. role = "editor"
    BY <1>2, <1>5 DEF Trash
  <2> QED BY <1>2, <1>5, <2>1 DEF Trash, Step
<1> QED BY <1>1, <1>3, <1>4, <1>5

\* access.ts, "both ways for change, Drive -> sandbox only for read": a sync changes and trashes only
\* what its chat was let change since it began, however requests, answers, roles, failures and stops
\* interleave.
THEOREM SyncsKeepToTheGrants == Spec => OnlyWhatTheyAllowed
<1>1. Init => AccessInv
  BY DEF Init, AccessInv, Shape, JobsArePlanned, ReadWasAllowed, JobsWereAllowed, ForAll, NoJob, Outward
<1>2. AccessInv /\ [Next]_vars => AccessInv'
  BY AccessStep
<1>3. ASSUME AccessInv, NEW c \in Chats, Sync(c), NEW f \in Files,
             drive'[f] # drive[f] \/ (f \in trashed') # (f \in trashed)
      PROVE  f \in could[c] /\ (role = "editor" \/ job[c][f].step = "finish")
  BY <1>3, SyncChanges DEF AccessInv, JobsWereAllowed, Outward
<1>4. AccessInv => [\A c \in Chats : Sync(c) => \A f \in Files :
                      drive'[f] # drive[f] \/ (f \in trashed') # (f \in trashed) =>
                        f \in could[c] /\ (role = "editor" \/ job[c][f].step = "finish")]_vars
  BY <1>3
<1> QED BY <1>1, <1>2, <1>4, PTL DEF Spec, OnlyWhatTheyAllowed

-----------------------------------------------------------------------------
(***************************************************************************)
(* Types.                                                                  *)
(***************************************************************************)

DriveTypes == role \in {"none", "viewer", "editor"} /\ drive \in [Files -> Contents] /\ trashed \subseteq Files
AskTypes ==
  /\ grants \subseteq [scope : Chats \cup {Always}, node : Nodes, need : {"read", "change"}]
  /\ pending \subseteq [chat : Chats, node : Nodes, need : Needs]
  /\ opened \in [Chats -> SUBSET Nodes] /\ waiting \in [Chats -> 0..MaxWaiting]
BoxTypes ==
  /\ rows \in [Chats -> [Files -> Contents]] /\ box \in [Chats -> [Files -> Contents]]
  /\ removed \in [Chats -> SUBSET Files] /\ copied \in [Chats -> SUBSET Files] /\ slipped \in [Chats -> SUBSET Files]
Jobs == [step : Steps, bytes : Contents]
SyncTypes ==
  /\ phase \in [Chats -> {"idle", "listing", "listed", "planned"}]
  /\ need \in [Chats -> [Nodes -> {"none", "read", "change"}]]
  /\ left \in [Chats -> SUBSET Nodes] /\ at \in [Chats -> Nodes \cup {None}]
  /\ closing \in [Chats -> BOOLEAN] /\ tree \in [Chats -> [Files -> Contents]]
  /\ job \in [Chats -> [Files -> Jobs]]
  /\ \A c \in Chats : phase[c] # "planned" => at[c] = None /\ \A f \in Files : job[c][f] = NoJob
NoteTypes ==
  /\ changes \in 0..MaxChanges /\ edits \in 0..MaxEdits /\ mishaps \in 0..MaxMishaps
  /\ could \in [Chats -> SUBSET Files] /\ due \in [Chats -> BOOLEAN]
  /\ calm \in [Chats -> {"no", "so far", "yes"}]

LEMMA TypesJoin ==
  /\ TypeOK <=> DriveTypes /\ AskTypes /\ BoxTypes /\ SyncTypes /\ NoteTypes
  /\ DriveTypes' /\ AskTypes' /\ BoxTypes' /\ SyncTypes' /\ NoteTypes' => TypeOK'
BY DEF TypeOK, DriveTypes, AskTypes, BoxTypes, SyncTypes, NoteTypes, Jobs

LEMMA Cell ==
  ASSUME NEW T, NEW g \in [Chats -> [Files -> T]], NEW c \in Chats, NEW f \in Files, NEW x \in T
  PROVE  /\ [g EXCEPT ![c][f] = x] \in [Chats -> [Files -> T]]
         /\ [g EXCEPT ![c][f] = x][c][f] = x
         /\ \A b \in Chats, h \in Files : b # c \/ h # f => [g EXCEPT ![c][f] = x][b][h] = g[b][h]
OBVIOUS

LEMMA OneCell ==
  ASSUME NEW T, NEW g \in [Chats -> [Files -> T]], NEW c \in Chats, NEW f \in Files, NEW h,
         h = g \/ \E x \in T : h = [g EXCEPT ![c][f] = x]
  PROVE  h \in [Chats -> [Files -> T]] /\ \A b \in Chats, e \in Files : b # c \/ e # f => h[b][e] = g[b][e]
<1>1. CASE h = g
  BY <1>1
<1>2. ASSUME NEW x \in T, h = [g EXCEPT ![c][f] = x]
      PROVE  h \in [Chats -> [Files -> T]] /\ \A b \in Chats, e \in Files : b # c \/ e # f => h[b][e] = g[b][e]
  BY <1>2, Cell
<1> QED BY <1>1, <1>2

LEMMA ContentsThere == None \in Contents /\ NoJob \in Jobs /\ Nothing \in [Files -> Contents]
                       /\ \A n \in Contents : n \in 0..MaxEdits
<1>1. None \in Contents
  BY AccessAssumption DEF None, Contents
<1> QED BY <1>1 DEF NoJob, Jobs, Nothing, Steps, Contents

LEMMA Counted ==
  ASSUME NoteTypes
  PROVE  /\ Change => changes' \in 0..MaxChanges
         /\ Edit => edits' \in 0..MaxEdits /\ edits' \in Contents /\ edits' # None
         /\ Mishap => mishaps' \in 0..MaxMishaps
         /\ Disturbed => calm' \in [Chats -> {"no", "so far", "yes"}]
<1>1. changes \in 0..MaxChanges /\ edits \in 0..MaxEdits /\ mishaps \in 0..MaxMishaps
  BY DEF NoteTypes
<1>2. MaxChanges \in Nat /\ MaxEdits \in Nat /\ MaxMishaps \in Nat
  BY AccessAssumption
<1>3. Change => changes' \in 0..MaxChanges
  BY <1>1, <1>2 DEF Change
<1>4. Edit => edits' \in 0..MaxEdits /\ edits' \in Contents /\ edits' # None
  BY <1>1, <1>2 DEF Edit, Contents, None
<1>5. Mishap => mishaps' \in 0..MaxMishaps
  BY <1>1, <1>2 DEF Mishap
<1>6. Disturbed => calm' \in [Chats -> {"no", "so far", "yes"}]
  BY DEF Disturbed, ForAll
<1> QED BY <1>3, <1>4, <1>5, <1>6

LEMMA GrantTypes ==
  ASSUME AskTypes, NEW scope \in Chats \cup {Always}, NEW n \in Nodes, NEW want \in {"read", "change"}
  PROVE  addGrant(scope, n, want) \subseteq [scope : Chats \cup {Always}, node : Nodes, need : {"read", "change"}]
BY DEF AskTypes, addGrant

LEMMA AskedTypes ==
  ASSUME AskTypes, NEW chats, Asked(chats)
  PROVE  waiting' \in [Chats -> 0..MaxWaiting]
<1>1. MaxWaiting \in Nat /\ waiting \in [Chats -> 0..MaxWaiting]
  BY AccessAssumption DEF AskTypes
<1> QED BY <1>1 DEF Asked

LEMMA OpenTypes ==
  ASSUME AskTypes, NEW c \in Chats, NEW n \in Nodes, open(c, n)
  PROVE  opened' \in [Chats -> SUBSET Nodes] /\ waiting' \in [Chats -> 0..MaxWaiting]
<1>1. waiting' \in [Chats -> 0..MaxWaiting]
  BY AskedTypes DEF open
<1>2. opened' \in [Chats -> SUBSET Nodes]
  BY DEF open, AskTypes
<1> QED BY <1>1, <1>2

LEMMA NotedTypes == ASSUME NoteTypes, NEW given, Noted(given) PROVE could' \in [Chats -> SUBSET Files]
<1>1. \A c : Changes(c, given) \subseteq Files
  BY DEF Changes
<1> QED BY <1>1 DEF Noted, NoteTypes

LEMMA TypeOfAnswers ==
  ASSUME TypeOK,
         \/ \E r \in pending : deny(r) \/ \E n \in Nodes, scope \in {r.chat, Always} : allow(r, scope, n)
         \/ \E want \in {"none", "read", "change"} : setSpaceAuto(want)
         \/ \E g \in grants : revokeGrant(g)
         \/ \E c \in Chats, n \in Nodes, want \in Needs : onRequest(c, n, want)
  PROVE  TypeOK'
<1> USE TypesJoin
<1>1. /\ UNCHANGED <<role, driveVars, rows, box, syncVars, edits, mishaps, removed, copied, slipped, due>>
      /\ Change /\ Disturbed
  BY DEF deny, allow, setSpaceAuto, revokeGrant, onRequest, Answers, TakesEffect, Quiet
<1>2. DriveTypes' /\ BoxTypes' /\ SyncTypes'
  BY <1>1 DEF DriveTypes, BoxTypes, SyncTypes, driveVars, syncVars
<1>3. could' \in [Chats -> SUBSET Files]
  <2>1. UNCHANGED could \/ \E given : Noted(given)
    BY DEF deny, allow, setSpaceAuto, revokeGrant, onRequest, TakesEffect
  <2> QED BY <2>1, NotedTypes DEF NoteTypes
<1>4. NoteTypes'
  BY <1>1, <1>3, Counted DEF NoteTypes
<1>5. AskTypes'
  <2>1. ASSUME NEW r \in pending, deny(r)
        PROVE  AskTypes'
    BY <2>1 DEF deny, Answers, AskTypes
  <2>2. ASSUME NEW r \in pending, NEW n \in Nodes, NEW scope \in {r.chat, Always}, allow(r, scope, n)
        PROVE  AskTypes'
    <3>1. r.chat \in Chats /\ scope \in Chats \cup {Always}
      BY DEF AskTypes
    <3>2. open(r.chat, n) /\ pending' = pending \ {r}
          /\ \E want \in {"read", "change"} : grants' = addGrant(scope, n, want)
      BY <2>2 DEF allow, Answers
    <3> QED BY <3>1, <3>2, GrantTypes, OpenTypes DEF AskTypes
  <2>3. ASSUME NEW given, TakesEffect(given),
               given \subseteq [scope : Chats \cup {Always}, node : Nodes, need : {"read", "change"}]
        PROVE  AskTypes'
    <3>1. waiting' \in [Chats -> 0..MaxWaiting]
      BY <2>3, AskedTypes DEF TakesEffect, closeRevoked
    <3> QED BY <2>3, <3>1 DEF TakesEffect, AskTypes
  <2>4. ASSUME NEW want \in {"none", "read", "change"}, setSpaceAuto(want)
        PROVE  AskTypes'
    <3> DEFINE rest == {g \in grants : ~(g.scope = Always /\ g.node = Root)}
               most == IF want = "change" /\ role = "viewer" THEN "read" ELSE want
               given == IF want = "none" THEN rest ELSE rest \cup {[scope |-> Always, node |-> Root, need |-> most]}
    <3>1. TakesEffect(given)
      BY <2>4 DEF setSpaceAuto
    <3>2. given \subseteq [scope : Chats \cup {Always}, node : Nodes, need : {"read", "change"}]
      BY DEF AskTypes, Nodes
    <3> QED BY <2>3, <3>1, <3>2
  <2>5. ASSUME NEW g \in grants, revokeGrant(g)
        PROVE  AskTypes'
    BY <2>3, <2>5 DEF revokeGrant, AskTypes
  <2>6. ASSUME NEW c \in Chats, NEW n \in Nodes, NEW want \in Needs, onRequest(c, n, want)
        PROVE  AskTypes'
    <3>1. GivenFor(n) \subseteq [scope : Chats \cup {Always}, node : Nodes, need : {"read", "change"}]
      BY GrantTypes DEF GivenFor, AskTypes, Nodes
    <3>2. CASE open(c, n) /\ UNCHANGED pending
      BY <2>6, <3>1, <3>2, OpenTypes DEF onRequest, AskTypes
    <3>3. CASE pending' = pending \cup {[chat |-> c, node |-> n, need |-> want]} /\ UNCHANGED <<opened, waiting>>
      BY <2>6, <3>1, <3>3 DEF onRequest, AskTypes
    <3> QED BY <2>6, <3>2, <3>3 DEF onRequest
  <2> QED BY <2>1, <2>2, <2>4, <2>5, <2>6
<1> QED BY <1>2, <1>4, <1>5

LEMMA TypeOfEdits ==
  ASSUME TypeOK,
         \/ \E r \in {"none", "viewer", "editor"} : setMember(r)
         \/ \E f \in Files : PersonWrites(f) \/ PersonTrashes(f) \/ PersonRestores(f)
         \/ \E c \in Chats : AskSync(c) \/ SandboxStartedOver(c)
         \/ \E c \in Chats, f \in Files : AgentWrites(c, f) \/ AgentRemoves(c, f)
  PROVE  TypeOK'
<1> USE TypesJoin
<1>1. CASE \E r \in {"none", "viewer", "editor"} : setMember(r)
  <2>1. due' \in [Chats -> BOOLEAN]
    BY <1>1 DEF setMember, ForAll
  <2>2. NoteTypes'
    BY <1>1, <2>1, Counted DEF setMember, NoteTypes
  <2> QED BY <1>1, <2>2 DEF setMember, asked, driveVars, syncVars, DriveTypes, AskTypes, BoxTypes, SyncTypes
<1>2. ASSUME NEW f \in Files, PersonWrites(f) \/ PersonTrashes(f) \/ PersonRestores(f)
      PROVE  TypeOK'
  <2>1. DriveChanges
    BY <1>2 DEF PersonWrites, PersonTrashes, PersonRestores
  <2>2. due' \in [Chats -> BOOLEAN]
    BY <1>2 DEF PersonWrites, PersonTrashes, PersonRestores, ForAll, NoteTypes
  <2>3. NoteTypes'
    BY <2>1, <2>2, Counted DEF DriveChanges, NoteTypes, Edit
  <2>4. edits' \in Contents
    BY <2>1, Counted DEF DriveChanges
  <2>5. DriveTypes'
    BY <1>2, <2>1, <2>4 DEF PersonWrites, PersonTrashes, PersonRestores, DriveChanges, DriveTypes
  <2> QED BY <2>1, <2>3, <2>5 DEF DriveChanges, asked, syncVars, AskTypes, BoxTypes, SyncTypes
<1>3. ASSUME NEW c \in Chats, AskSync(c)
      PROVE  TypeOK'
  <2>1. waiting' \in [Chats -> 0..MaxWaiting]
    BY <1>3, AskedTypes DEF AskSync
  <2> QED BY <1>3, <2>1 DEF AskSync, driveVars, asked, syncVars, counts, notes,
                            DriveTypes, AskTypes, BoxTypes, SyncTypes, NoteTypes
<1>4. ASSUME NEW c \in Chats, SandboxStartedOver(c)
      PROVE  TypeOK'
  <2>1. BoxTypes'
    BY <1>4, ContentsThere DEF SandboxStartedOver, BoxTypes
  <2>2. NoteTypes'
    BY <1>4, Counted DEF SandboxStartedOver, NoteTypes
  <2> QED BY <1>4, <2>1, <2>2 DEF SandboxStartedOver, driveVars, asked, syncVars, DriveTypes, AskTypes, SyncTypes
<1>5. ASSUME NEW c \in Chats, NEW f \in Files, AgentWrites(c, f) \/ AgentRemoves(c, f)
      PROVE  TypeOK'
  <2>1. edits' \in Contents /\ Edit
    BY <1>5, Counted DEF AgentWrites, AgentRemoves
  <2>2. box' \in [Chats -> [Files -> Contents]]
    <3>1. PICK x \in Contents : box' = [box EXCEPT ![c][f] = x]
      BY <1>5, <2>1, ContentsThere DEF AgentWrites, AgentRemoves
    <3> QED BY <3>1 DEF BoxTypes
  <2>3. BoxTypes'
    <3>1. \A g \in [Chats -> SUBSET Files] : /\ [g EXCEPT ![c] = @ \ {f}] \in [Chats -> SUBSET Files]
                                         /\ [g EXCEPT ![c] = @ \cup {f}] \in [Chats -> SUBSET Files]
      OBVIOUS
    <3>2. UNCHANGED <<rows, slipped>>
      BY <1>5 DEF AgentWrites, AgentRemoves
    <3>3. copied' = [copied EXCEPT ![c] = @ \ {f}]
      BY <1>5 DEF AgentWrites, AgentRemoves
    <3>4. removed' = removed \/ removed' = [removed EXCEPT ![c] = @ \cup {f}]
      BY <1>5 DEF AgentWrites, AgentRemoves
    <3>5. copied \in [Chats -> SUBSET Files] /\ removed \in [Chats -> SUBSET Files]
      BY DEF BoxTypes
    <3>6. copied' \in [Chats -> SUBSET Files]
      BY <3>1, <3>3, <3>5
    <3>7. removed' \in [Chats -> SUBSET Files]
      BY <3>1, <3>4, <3>5
    <3> QED BY <2>2, <3>2, <3>6, <3>7 DEF BoxTypes
  <2>4. NoteTypes'
    BY <1>5, <2>1, Counted DEF AgentWrites, AgentRemoves, NoteTypes, Edit
  <2> QED BY <1>5, <2>3, <2>4 DEF AgentWrites, AgentRemoves, driveVars, asked, syncVars, DriveTypes, AskTypes, SyncTypes
<1> QED BY <1>1, <1>2, <1>3, <1>4, <1>5

LEMMA TypeOfCourse ==
  ASSUME TypeOK, NEW c \in Chats,
         Begin(c) \/ Listed(c) \/ Arrived(c) \/ Taken(c) \/ End(c) \/ ListingFails(c) \/ \E n \in Nodes : Take(c, n)
  PROVE  TypeOK'
<1> USE TypesJoin
<1>1. CASE Begin(c)
  <2>1. UNCHANGED <<role, drive, trashed, grants, pending, opened, rows, box, removed, copied, slipped>>
    BY <1>1 DEF Begin, driveVars, asked
  <2>2. waiting' \in [Chats -> 0..MaxWaiting]
    <3>1. MaxWaiting \in Nat /\ waiting \in [Chats -> 0..MaxWaiting] /\ waiting[c] > 0
      BY <1>1, AccessAssumption DEF AskTypes, Begin
    <3>2. waiting[c] - 1 \in 0..MaxWaiting
      BY <3>1
    <3> QED BY <1>1, <3>1, <3>2 DEF Begin
  <2>3. NoteTypes'
    <3>1. Changes(c, grants) \subseteq Files
      BY DEF Changes
    <3>2. due' = [due EXCEPT ![c] = FALSE] /\ UNCHANGED <<changes, edits, mishaps>>
      BY <1>1 DEF Begin, counts
    <3>3. \/ UNCHANGED <<could, calm>>
          \/ could' = [could EXCEPT ![c] = Changes(c, grants)] /\ calm' = [calm EXCEPT ![c] = "so far"]
      BY <1>1 DEF Begin
    <3> QED BY <3>1, <3>2, <3>3 DEF NoteTypes
  <2>4. CASE opened[c] = {}
    <3>1. SyncTypes'
      BY <1>1, <2>4 DEF Begin, SyncTypes
    <3> QED BY <2>1, <2>2, <2>3, <3>1 DEF DriveTypes, AskTypes, BoxTypes
  <2>5. CASE opened[c] # {}
    <3> DEFINE read == [n \in Nodes |-> IF n \in opened[c] THEN needOn(c, n) ELSE "none"]
    <3>1. read \in [Nodes -> {"none", "read", "change"}]
      BY DEF needOn
    <3>2. need' = [need EXCEPT ![c] = read]
      BY <1>1, <2>5 DEF Begin
    <3> HIDE DEF read
    <3>3. need' \in [Chats -> [Nodes -> {"none", "read", "change"}]]
      BY <3>1, <3>2 DEF SyncTypes
    <3>4. phase[c] = "idle" /\ phase' = [phase EXCEPT ![c] = "listing"] /\ left' = [left EXCEPT ![c] = opened[c]]
          /\ UNCHANGED <<at, closing, tree, job>> /\ opened[c] \subseteq Nodes
      BY <1>1, <2>5 DEF Begin, AskTypes
    <3>5. left' \in [Chats -> SUBSET Nodes]
      BY <3>4 DEF SyncTypes
    <3>6. SyncTypes'
      BY <3>3, <3>4, <3>5 DEF SyncTypes
    <3> QED BY <2>1, <2>2, <2>3, <3>6 DEF DriveTypes, AskTypes, BoxTypes
  <2> QED BY <2>4, <2>5
<1>2. CASE Listed(c) \/ Arrived(c)
  <2>1. UNCHANGED <<role, driveVars, asked, rows, box, waiting, need, left, at, closing, job, counts, notes>>
    BY <1>2 DEF Listed, Arrived
  <2>2. phase[c] # "planned" /\ \E to \in {"listed", "planned"} : phase' = [phase EXCEPT ![c] = to]
    BY <1>2 DEF Listed, Arrived
  <2>3. tree' = tree \/ tree' = [tree EXCEPT ![c] = box[c]]
    BY <1>2 DEF Listed, Arrived
  <2>4. box[c] \in [Files -> Contents]
    BY DEF BoxTypes
  <2>5. SyncTypes'
    BY <2>1, <2>2, <2>3, <2>4 DEF SyncTypes
  <2> QED BY <2>1, <2>5 DEF driveVars, asked, counts, notes, DriveTypes, AskTypes, BoxTypes, NoteTypes
<1>3. CASE Taken(c)
  <2>1. phase[c] = "planned"
    BY <1>3 DEF Taken, SyncTypes
  <2>2. opened' \in [Chats -> SUBSET Nodes]
    BY <1>3 DEF Taken, AskTypes
  <2>3. /\ left' = [left EXCEPT ![c] = @ \ {at[c]}] /\ at' = [at EXCEPT ![c] = None] /\ closing' = [closing EXCEPT ![c] = FALSE]
        /\ UNCHANGED <<phase, need, tree, job>>
    BY <1>3 DEF Taken
  <2>4. SyncTypes'
    BY <2>1, <2>3 DEF SyncTypes
  <2> QED BY <1>3, <2>2, <2>4 DEF Taken, driveVars, counts, notes, DriveTypes, AskTypes, BoxTypes, NoteTypes
<1>4. CASE End(c) \/ ListingFails(c)
  <2>1. Ended(c) /\ UNCHANGED <<role, driveVars, asked, rows, box, waiting, changes, edits, removed, copied, slipped>>
    BY <1>4 DEF End, ListingFails, counts
  <2>2. SyncTypes'
    BY <2>1, ContentsThere DEF Ended, SyncTypes
  <2>3. mishaps' \in 0..MaxMishaps /\ calm' \in [Chats -> {"no", "so far", "yes"}] /\ due' \in [Chats -> BOOLEAN]
    <3>1. CASE End(c)
      BY <3>1 DEF End, counts, NoteTypes
    <3>2. CASE ListingFails(c)
      BY <3>2, Counted DEF ListingFails, NoteTypes
    <3> QED BY <1>4, <3>1, <3>2
  <2>4. could' \in [Chats -> SUBSET Files]
    BY <2>1 DEF Ended, NoteTypes
  <2> QED BY <2>1, <2>2, <2>3, <2>4 DEF driveVars, asked, DriveTypes, AskTypes, BoxTypes, NoteTypes
<1>5. ASSUME NEW n \in Nodes, Take(c, n)
      PROVE  TypeOK'
  <2> DEFINE want == IF need[c][n] = "change" /\ ceiling = "change" THEN "change" ELSE "read"
             planned == [f \in Files |->
               IF Closes(c, n) THEN IF f \in Closed(n) /\ rows[c][f] # None THEN [NoJob EXCEPT !.step = "close"] ELSE NoJob
               ELSE IF f \in Under(n) THEN Planned(c, n, want, f) ELSE NoJob]
  <2>1. /\ phase[c] = "planned" /\ at' = [at EXCEPT ![c] = n] /\ closing' = [closing EXCEPT ![c] = Closes(c, n)]
        /\ job' = [job EXCEPT ![c] = planned] /\ calm' \in {calm, [calm EXCEPT ![c] = "no"]}
        /\ UNCHANGED <<role, driveVars, asked, rows, box, waiting, phase, need, left, tree, counts, could, removed, copied,
                       slipped, due>>
    BY <1>5 DEF Take
  <2>2. \A f \in Files : Planned(c, n, want, f) \in Jobs
    <3>1. SUFFICES ASSUME NEW f \in Files PROVE Planned(c, n, want, f) \in Jobs
      OBVIOUS
    <3> HIDE DEF want
    <3> DEFINE d == IF Live(f) THEN drive[f] ELSE None
               kind == planSync(rows[c][f], tree[c][f], d)
               allowed == IF want = "read" THEN readOnly(kind, d) ELSE kind
               out == IF n # Root /\ allowed = "upload" THEN "none" ELSE allowed
    <3>2. d \in Contents
      BY ContentsThere DEF DriveTypes
    <3>3. kind \in {"none", "upload", "trash", "update", "delete", "put", "conflict", "forget"}
      BY DEF planSync
    <3>4. out \in Steps
      BY <3>3 DEF readOnly, Steps
    <3>5. Planned(c, n, want, f) = [step |-> out, bytes |-> IF out = "conflict" THEN d ELSE None]
      BY DEF Planned
    <3> QED BY <3>2, <3>4, <3>5, ContentsThere DEF Jobs
  <2>3. [NoJob EXCEPT !.step = "close"] \in Jobs
    BY ContentsThere DEF NoJob, Jobs, Steps
  <2>4. planned \in [Files -> Jobs]
    BY <2>2, <2>3, ContentsThere
  <2> HIDE DEF planned
  <2>5. Closes(c, n) \in BOOLEAN
    BY DEF Closes
  <2>6. SyncTypes'
    BY <2>1, <2>4, <2>5 DEF SyncTypes
  <2>7. NoteTypes'
    BY <2>1 DEF counts, NoteTypes
  <2> QED BY <2>1, <2>6, <2>7 DEF driveVars, asked, DriveTypes, AskTypes, BoxTypes
<1> QED BY <1>1, <1>2, <1>3, <1>4, <1>5

-----------------------------------------------------------------------------
(***************************************************************************)
(* What a step of a file's job does.                                       *)
(***************************************************************************)

JobStepOf(c, f) == Job(c, f) \/ CloseFails(c, f) \/ Fails(c, f)

\* Nothing of what a sync keeps of another chat, or of another file of this one.
OthersKept(c, f) ==
  \A b \in Chats, g \in Files : b # c \/ g # f =>
    /\ job'[b][g] = job[b][g] /\ rows'[b][g] = rows[b][g] /\ box'[b][g] = box[b][g] /\ tree'[b][g] = tree[b][g]
    /\ g \in removed'[b] <=> g \in removed[b]
    /\ g \in copied'[b] <=> g \in copied[b]
    /\ g \in slipped'[b] <=> g \in slipped[b]

LEMMA SetCell ==
  ASSUME NEW g \in [Chats -> SUBSET Files], NEW c \in Chats, NEW f \in Files, NEW h,
         h = [g EXCEPT ![c] = @ \ {f}] \/ h = [g EXCEPT ![c] = @ \cup {f}] \/ h = g
  PROVE  /\ h \in [Chats -> SUBSET Files]
         /\ \A b \in Chats, e \in Files : b # c \/ e # f => (e \in h[b] <=> e \in g[b])
<1>1. CASE h = [g EXCEPT ![c] = @ \ {f}]
  BY <1>1
<1>2. CASE h = [g EXCEPT ![c] = @ \cup {f}]
  BY <1>2
<1> QED BY <1>1, <1>2

\* The sets of a chat's files, where a step puts a file in or takes it out.
LEMMA JobSets ==
  ASSUME BoxTypes, NEW c \in Chats, NEW f \in Files, JobStepOf(c, f)
  PROVE  /\ removed' \in [Chats -> SUBSET Files] /\ copied' \in [Chats -> SUBSET Files] /\ slipped' \in [Chats -> SUBSET Files]
         /\ \A b \in Chats, g \in Files : b # c \/ g # f =>
              /\ g \in removed'[b] <=> g \in removed[b]
              /\ g \in copied'[b] <=> g \in copied[b]
              /\ g \in slipped'[b] <=> g \in slipped[b]
         /\ \A b \in Chats : slipped[b] \subseteq slipped'[b]
<1>1. removed' = removed \/ removed' = [removed EXCEPT ![c] = @ \ {f}]
  BY DEF JobStepOf, Job, ReadFull, Add, Replace, Finish, Trash, Conflict, Put, Write, Keep, Remove, Forget, Misses,
         CloseFails, Fails, GivesUp, Writes
<1>2. copied' = copied \/ copied' = [copied EXCEPT ![c] = @ \ {f}] \/ copied' = [copied EXCEPT ![c] = @ \cup {f}]
  BY DEF JobStepOf, Job, ReadFull, Add, Replace, Finish, Trash, Conflict, Put, Write, Keep, Remove, Forget, Misses,
         CloseFails, Fails, GivesUp, Writes
<1>3. slipped' = slipped \/ slipped' = [slipped EXCEPT ![c] = @ \cup {f}]
  BY DEF JobStepOf, Job, ReadFull, Add, Replace, Finish, Trash, Conflict, Put, Write, Keep, Remove, Forget, Misses,
         CloseFails, Fails, GivesUp, Writes
<1>4. removed \in [Chats -> SUBSET Files] /\ copied \in [Chats -> SUBSET Files] /\ slipped \in [Chats -> SUBSET Files]
  BY DEF BoxTypes
<1>5. removed' \in [Chats -> SUBSET Files] /\ \A b \in Chats, g \in Files : b # c \/ g # f => (g \in removed'[b] <=> g \in removed[b])
  BY <1>1, <1>4, SetCell
<1>6. copied' \in [Chats -> SUBSET Files] /\ \A b \in Chats, g \in Files : b # c \/ g # f => (g \in copied'[b] <=> g \in copied[b])
  BY <1>2, <1>4, SetCell
<1>7. slipped' \in [Chats -> SUBSET Files] /\ \A b \in Chats, g \in Files : b # c \/ g # f => (g \in slipped'[b] <=> g \in slipped[b])
  BY <1>3, <1>4, SetCell
<1>8. \A b \in Chats : slipped[b] \subseteq slipped'[b]
  BY <1>3, <1>4
<1> QED BY <1>5, <1>6, <1>7, <1>8

LEMMA JobCells ==
  ASSUME TypeOK, NEW c \in Chats, NEW f \in Files, JobStepOf(c, f)
  PROVE  /\ job' \in [Chats -> [Files -> Jobs]] /\ rows' \in [Chats -> [Files -> Contents]]
         /\ box' \in [Chats -> [Files -> Contents]] /\ tree' \in [Chats -> [Files -> Contents]]
         /\ \A b \in Chats, g \in Files : b # c \/ g # f =>
              job'[b][g] = job[b][g] /\ rows'[b][g] = rows[b][g] /\ box'[b][g] = box[b][g] /\ tree'[b][g] = tree[b][g]
<1> USE TypesJoin
<1>0. job[c][f].bytes \in Contents /\ box[c][f] \in Contents /\ drive[f] \in Contents /\ None \in Contents /\ NoJob \in Jobs
  BY ContentsThere DEF SyncTypes, BoxTypes, DriveTypes, Jobs
<1>1. \E j \in Jobs : job' = [job EXCEPT ![c][f] = j]
  <2>1. \A to \in Steps, x \in Contents : [step |-> to, bytes |-> x] \in Jobs
    BY DEF Jobs
  <2>2. CASE \E to \in Steps, x \in Contents : Goes(c, f, to, x)
    BY <2>1, <2>2 DEF Goes
  <2>3. CASE Done(c, f)
    BY <1>0, <2>3 DEF Done
  <2>4. ReadFull(c, f) \/ Replace(c, f) \/ Conflict(c, f) \/ Put(c, f) \/ Write(c, f) \/ Remove(c, f) \/ CloseFails(c, f)
        => \E to \in Steps, x \in Contents : Goes(c, f, to, x)
    BY <1>0 DEF ReadFull, Replace, Conflict, Put, Write, Remove, CloseFails, Steps
  <2>5. Add(c, f) \/ Finish(c, f) \/ Trash(c, f) \/ Keep(c, f) \/ Forget(c, f) \/ Misses(c, f) \/ Fails(c, f) => Done(c, f)
    BY DEF Add, Finish, Trash, Keep, Forget, Misses, Fails, GivesUp
  <2> QED BY <2>2, <2>3, <2>4, <2>5 DEF JobStepOf, Job
<1>2. rows' = rows \/ \E x \in Contents : rows' = [rows EXCEPT ![c][f] = x]
  BY <1>0 DEF JobStepOf, Job, ReadFull, Add, Replace, Finish, Trash, Conflict, Put, Write, Keep, Remove, Forget, Misses,
              CloseFails, Fails, GivesUp, remember
<1>3. box' = box \/ \E x \in Contents : box' = [box EXCEPT ![c][f] = x]
  BY <1>0 DEF JobStepOf, Job, ReadFull, Add, Replace, Finish, Trash, Conflict, Put, Write, Keep, Remove, Forget, Misses,
              CloseFails, Fails, GivesUp, Writes
<1>4. tree' = tree \/ \E x \in Contents : tree' = [tree EXCEPT ![c][f] = x]
  BY <1>0 DEF JobStepOf, Job, ReadFull, Add, Replace, Finish, Trash, Conflict, Put, Write, Keep, Remove, Forget, Misses,
              CloseFails, Fails, GivesUp, Working, Unmoved
<1>5. /\ job \in [Chats -> [Files -> Jobs]] /\ rows \in [Chats -> [Files -> Contents]]
      /\ box \in [Chats -> [Files -> Contents]] /\ tree \in [Chats -> [Files -> Contents]]
  BY DEF SyncTypes, BoxTypes
<1>6. job' \in [Chats -> [Files -> Jobs]] /\ \A b \in Chats, g \in Files : b # c \/ g # f => job'[b][g] = job[b][g]
  BY <1>1, <1>5, OneCell
<1>7. rows' \in [Chats -> [Files -> Contents]] /\ \A b \in Chats, g \in Files : b # c \/ g # f => rows'[b][g] = rows[b][g]
  <2>1. CASE rows' = rows
    BY <1>5, <2>1
  <2>2. CASE \E x \in Contents : rows' = [rows EXCEPT ![c][f] = x]
    BY <1>5, <2>2, OneCell
  <2> QED BY <1>2, <2>1, <2>2
<1>8. box' \in [Chats -> [Files -> Contents]] /\ \A b \in Chats, g \in Files : b # c \/ g # f => box'[b][g] = box[b][g]
  <2>1. CASE box' = box
    BY <1>5, <2>1
  <2>2. CASE \E x \in Contents : box' = [box EXCEPT ![c][f] = x]
    BY <1>5, <2>2, OneCell
  <2> QED BY <1>3, <2>1, <2>2
<1>9. tree' \in [Chats -> [Files -> Contents]] /\ \A b \in Chats, g \in Files : b # c \/ g # f => tree'[b][g] = tree[b][g]
  <2>1. CASE tree' = tree
    BY <1>5, <2>1
  <2>2. CASE \E x \in Contents : tree' = [tree EXCEPT ![c][f] = x]
    BY <1>5, <2>2, OneCell
  <2> QED BY <1>4, <2>1, <2>2
<1> QED BY <1>6, <1>7, <1>8, <1>9

LEMMA JobKeepsOthers ==
  ASSUME TypeOK, NEW c \in Chats, NEW f \in Files, JobStepOf(c, f)
  PROVE  OthersKept(c, f)
BY JobCells, JobSets, TypesJoin DEF OthersKept

LEMMA JobKeepsSync ==
  ASSUME NEW c \in Chats, NEW f \in Files, JobStepOf(c, f)
  PROVE  UNCHANGED <<role, asked, waiting, phase, need, left, at, closing, changes, edits, could>>
BY DEF JobStepOf, Job, ReadFull, Add, Replace, Finish, Trash, Conflict, Put, Write, Keep, Remove, Forget, Misses,
       CloseFails, Fails, GivesUp, Working, Unmoved, counts

LEMMA TypeOfJob ==
  ASSUME TypeOK, NEW c \in Chats, NEW f \in Files, JobStepOf(c, f)
  PROVE  TypeOK'
<1> USE TypesJoin
<1>0. job \in [Chats -> [Files -> Jobs]]
  BY DEF SyncTypes
<1>4. phase[c] = "planned"
  <2>1. job[c][f].step # "none" => phase[c] = "planned"
    BY DEF SyncTypes, NoJob
  <2>2. job[c][f].step # "none" \/ phase[c] = "planned"
    BY DEF JobStepOf, Job, ReadFull, Add, Replace, Finish, Trash, Conflict, Put, Write, Keep, Remove, Forget, Misses,
           CloseFails, Fails, GivesUp, Step
  <2> QED BY <2>1, <2>2
<1>5. SyncTypes'
  <2>1. \A b \in Chats : b # c => \A g \in Files : job'[b][g] = job[b][g]
    BY JobKeepsOthers DEF OthersKept
  <2>2. job' \in [Chats -> [Files -> Jobs]] /\ tree' \in [Chats -> [Files -> Contents]]
    BY JobCells
  <2>3. UNCHANGED <<phase, need, left, at, closing>>
    BY JobKeepsSync
  <2>4. \A b \in Chats : phase'[b] # "planned" => at'[b] = None /\ \A g \in Files : job'[b][g] = NoJob
    <3>1. SUFFICES ASSUME NEW b \in Chats, phase[b] # "planned"
                   PROVE  at[b] = None /\ \A g \in Files : job'[b][g] = NoJob
      BY <2>3
    <3>2. b # c
      BY <1>4, <3>1
    <3> QED BY <2>1, <3>1, <3>2 DEF SyncTypes
  <2> QED BY <2>2, <2>3, <2>4 DEF SyncTypes
<1>6. BoxTypes'
  BY JobCells, JobSets DEF BoxTypes
<1>7. DriveTypes'
  <2>1. drive' = drive \/ \E x \in Contents : drive' = [drive EXCEPT ![f] = x]
    <3>1. job[c][f].bytes \in Contents
      BY <1>0 DEF Jobs
    <3> QED BY <3>1 DEF JobStepOf, Job, ReadFull, Add, Replace, Finish, Trash, Conflict, Put, Write, Keep, Remove, Forget,
                        Misses, CloseFails, Fails, GivesUp, driveVars
  <2>2. trashed' \subseteq Files
    BY DEF JobStepOf, Job, ReadFull, Add, Replace, Finish, Trash, Conflict, Put, Write, Keep, Remove, Forget,
           Misses, CloseFails, Fails, GivesUp, driveVars, DriveTypes
  <2> QED BY <2>1, <2>2, JobKeepsSync DEF DriveTypes
<1>8. NoteTypes'
  <2>1. mishaps' \in 0..MaxMishaps
    <3>1. UNCHANGED mishaps \/ Mishap
      BY DEF JobStepOf, Job, ReadFull, Add, Replace, Finish, Trash, Conflict, Put, Write, Keep, Remove, Forget,
             Misses, CloseFails, Fails, GivesUp, Working, Unmoved, counts
    <3> QED BY <3>1, Counted DEF NoteTypes
  <2>2. due' \in [Chats -> BOOLEAN]
    <3>1. \/ due' = due \/ due' = [due EXCEPT ![c] = TRUE]
          \/ due' = [b \in Chats |-> due[b] \/ (b # c /\ trashed' # trashed)]
      BY DEF JobStepOf, Job, ReadFull, Add, Replace, Finish, Trash, Conflict, Put, Write, Keep, Remove, Forget,
             Misses, CloseFails, Fails, GivesUp, Working
    <3>2. due \in [Chats -> BOOLEAN]
      BY DEF NoteTypes
    <3>3. [due EXCEPT ![c] = TRUE] \in [Chats -> BOOLEAN]
      BY <3>2
    <3>4. [b \in Chats |-> due[b] \/ (b # c /\ trashed' # trashed)] \in [Chats -> BOOLEAN]
      OBVIOUS
    <3> QED BY <3>1, <3>2, <3>3, <3>4
  <2>3. calm' \in [Chats -> {"no", "so far", "yes"}]
    <3>1. calm' = calm \/ Disturbed \/ Outdates(c)
      BY DEF JobStepOf, Job, ReadFull, Add, Replace, Finish, Trash, Conflict, Put, Write, Keep, Remove, Forget,
             Misses, CloseFails, Fails, GivesUp
    <3>2. calm \in [Chats -> {"no", "so far", "yes"}]
      BY DEF NoteTypes
    <3> QED BY <3>1, <3>2, Counted DEF Outdates
  <2> QED BY <2>1, <2>2, <2>3, JobKeepsSync DEF NoteTypes
<1>9. AskTypes'
  BY JobKeepsSync DEF asked, AskTypes
<1> QED BY <1>5, <1>6, <1>7, <1>8, <1>9

LEMMA TypeOfStop ==
  ASSUME TypeOK, Stops
  PROVE  TypeOK'
<1> USE TypesJoin
<1>1. SyncTypes'
  BY ContentsThere DEF Stops, SyncTypes, ForAll
<1>2. BoxTypes'
  BY DEF Stops, BoxTypes
<1>3. NoteTypes'
  <2>1. mishaps' \in 0..MaxMishaps /\ calm' \in [Chats -> {"no", "so far", "yes"}]
    BY Counted DEF Stops
  <2>2. could' \in [Chats -> SUBSET Files] /\ due' \in [Chats -> BOOLEAN] /\ UNCHANGED <<changes, edits>>
    BY DEF Stops, ForAll
  <2> QED BY <2>1, <2>2 DEF NoteTypes
<1>4. AskTypes'
  <2>1. 0 \in 0..MaxWaiting
    BY AccessAssumption
  <2> QED BY <2>1 DEF Stops, AskTypes, ForAll, asked
<1> QED BY <1>1, <1>2, <1>3, <1>4 DEF Stops, driveVars, DriveTypes

LEMMA TypeInit == Init => TypeOK
<1> SUFFICES ASSUME Init PROVE TypeOK
  OBVIOUS
<1>1. /\ 0 \in 0..MaxChanges /\ 1 \in 0..MaxEdits /\ 0 \in 0..MaxMishaps /\ 0 \in 0..MaxWaiting
      /\ 1 \in Contents
  BY AccessAssumption DEF Contents
<1>2. DriveTypes /\ AskTypes /\ BoxTypes
  BY <1>1, ContentsThere DEF Init, ForAll, DriveTypes, AskTypes, BoxTypes
<1>3. SyncTypes
  BY ContentsThere DEF Init, ForAll, SyncTypes
<1>4. NoteTypes
  BY <1>1 DEF Init, ForAll, NoteTypes
<1> QED BY <1>2, <1>3, <1>4, TypesJoin

LEMMA TypeStep == TypeOK /\ [Next]_vars => TypeOK'
<1> SUFFICES ASSUME TypeOK, [Next]_vars PROVE TypeOK'
  OBVIOUS
<1>1. CASE UNCHANGED vars
  BY <1>1 DEF vars, driveVars, asked, syncVars, counts, notes, TypeOK
<1>2. CASE People
  BY <1>2, TypeOfAnswers, TypeOfEdits DEF People
<1>3. CASE \E c \in Chats : Agent(c)
  BY <1>3, TypeOfAnswers, TypeOfEdits DEF Agent
<1>4. CASE \E c \in Chats : Sync(c)
  BY <1>4, TypeOfCourse, TypeOfJob DEF Sync, Goings, JobStepOf
<1>5. CASE Stops \/ \E c \in Chats : SandboxStartedOver(c)
  BY <1>5, TypeOfStop, TypeOfEdits
<1> QED BY <1>1, <1>2, <1>3, <1>4, <1>5 DEF Next

\* FilesAccess keeps its types.
THEOREM TypeInvariant == Spec => []TypeOK
BY TypeInit, TypeStep, PTL DEF Spec

-----------------------------------------------------------------------------
(***************************************************************************)
(* The order a sync goes in: the nodes it has left are its chat's open     *)
(* ones, none under another; one is being worked on at most; and a file    *)
(* whose node has not had its turn is at most being closed.                *)
(***************************************************************************)

Apart(ns) == Root \in ns => ns = {Root}
Untaken(d) == {f \in Files : \E n \in left[d] \ {at[d]} : f \in Under(n)}

Orderly(d) ==
  /\ Apart(opened[d]) /\ Apart(left[d])
  /\ left[d] \subseteq opened[d] \/ (Root \in opened[d] /\ Root \notin left[d])
  /\ at[d] # None => at[d] \in left[d]
  /\ at[d] = None => \A f \in Files : job[d][f] = NoJob
  /\ phase[d] = "idle" => left[d] = {}
  /\ \A f \in Untaken(d) : job[d][f].step \in {"none", "close", "forget"}

LEMMA OneNodeOf ==
  ASSUME NEW ns \in SUBSET Nodes, Apart(ns), NEW m \in ns, NEW n \in ns, NEW f \in Under(m), f \in Under(n)
  PROVE  m = n
BY DEF Apart, Under, Nodes

LEMMA OrderOfOpen ==
  ASSUME TypeOK, NEW d \in Chats, Orderly(d), NEW c \in Chats, NEW n \in Nodes, open(c, n), UNCHANGED syncVars
  PROVE  Orderly(d)'
<1>0. opened \in [Chats -> SUBSET Nodes] /\ left[d] \subseteq Nodes
  BY TypesJoin DEF AskTypes, SyncTypes
<1>1. CASE opened'[d] = opened[d]
  BY <1>1 DEF Orderly, Untaken, syncVars
<1>2. CASE opened'[d] # opened[d]
  <2>1. c = d /\ opened[d] \cap chainOf(n) = {} /\ opened'[d] = (opened[d] \ Under(n)) \cup {n}
    BY <1>0, <1>2 DEF open
  <2>2. Root \notin opened[d] /\ left[d] \subseteq opened[d]
    BY <2>1 DEF chainOf, Orderly
  <2>3. CASE n = Root
    <3>1. opened'[d] = {Root}
      BY <1>0, <2>1, <2>2, <2>3 DEF Under, Nodes
    <3> QED BY <2>2, <3>1 DEF Orderly, Apart, Untaken, syncVars
  <2>4. CASE n # Root
    <3>1. Root \notin opened'[d] /\ left[d] \subseteq opened'[d]
      BY <2>1, <2>2, <2>4 DEF Under
    <3> QED BY <3>1 DEF Orderly, Apart, Untaken, syncVars
  <2> QED BY <2>3, <2>4
<1> QED BY <1>1, <1>2

\* What neither opens a node nor is a sync's step leaves its order alone.
LEMMA OrderElsewhere ==
  ASSUME TypeOK, NEW d \in Chats, Orderly(d),
         \/ People \/ UNCHANGED vars
         \/ \E c \in Chats : Agent(c) \/ SandboxStartedOver(c)
  PROVE  Orderly(d)'
<1>1. UNCHANGED syncVars
  BY DEF People, Agent, deny, allow, setSpaceAuto, revokeGrant, onRequest, Answers, TakesEffect, Quiet, setMember,
         PersonWrites, PersonTrashes, PersonRestores, DriveChanges, AskSync, AgentWrites, AgentRemoves,
         SandboxStartedOver, vars
<1>2. CASE UNCHANGED opened
  BY <1>1, <1>2 DEF Orderly, Untaken, syncVars
<1>3. CASE \E c \in Chats, n \in Nodes : open(c, n)
  BY <1>1, <1>3, OrderOfOpen
<1>4. UNCHANGED opened \/ \E c \in Chats, n \in Nodes : open(c, n)
  <2>1. ASSUME NEW r \in pending, NEW n \in Nodes, NEW scope \in {r.chat, Always}, allow(r, scope, n)
        PROVE  \E c \in Chats, m \in Nodes : open(c, m)
    <3>1. r.chat \in Chats
      BY TypesJoin DEF AskTypes
    <3> QED BY <2>1, <3>1 DEF allow
  <2>2. ASSUME NEW c \in Chats, NEW n \in Nodes, NEW want \in Needs, onRequest(c, n, want)
        PROVE  UNCHANGED opened \/ open(c, n)
    BY <2>2 DEF onRequest
  <2>3. CASE People
    <3>1. \/ \E r \in pending, n \in Nodes : \E scope \in {r.chat, Always} : allow(r, scope, n)
          \/ UNCHANGED opened
      BY <2>3 DEF People, deny, setSpaceAuto, revokeGrant, TakesEffect, setMember, asked,
                  PersonWrites, PersonTrashes, PersonRestores, DriveChanges
    <3> QED BY <2>1, <3>1
  <2>4. CASE \E c \in Chats : Agent(c)
    BY <2>2, <2>4 DEF Agent, AskSync, AgentWrites, AgentRemoves, asked
  <2> QED BY <2>3, <2>4 DEF SandboxStartedOver, vars, asked
<1> QED BY <1>2, <1>3, <1>4

\* Another chat's sync has no part in this one's.
LEMMA OthersSync ==
  ASSUME TypeOK, NEW c \in Chats, NEW d \in Chats, c # d, Sync(c)
  PROVE  /\ opened'[d] = opened[d] /\ phase'[d] = phase[d] /\ need'[d] = need[d] /\ left'[d] = left[d]
         /\ at'[d] = at[d] /\ closing'[d] = closing[d] /\ waiting'[d] = waiting[d]
         /\ \A f \in Files : job'[d][f] = job[d][f] /\ rows'[d][f] = rows[d][f] /\ box'[d][f] = box[d][f]
                            /\ tree'[d][f] = tree[d][f]
         /\ removed'[d] = removed[d] /\ copied'[d] = copied[d] /\ slipped'[d] = slipped[d]
<1>0. SyncTypes /\ AskTypes /\ BoxTypes
  BY TypesJoin
<1>1. CASE Begin(c)
  BY <1>0, <1>1 DEF Begin, asked, SyncTypes, AskTypes
<1>2. CASE Listed(c) \/ Arrived(c)
  BY <1>0, <1>2 DEF Listed, Arrived, asked, notes, SyncTypes
<1>3. CASE Taken(c)
  BY <1>0, <1>3 DEF Taken, notes, SyncTypes, AskTypes
<1>4. CASE End(c) \/ ListingFails(c)
  <2>1. Ended(c) /\ UNCHANGED <<asked, rows, box, waiting, removed, copied, slipped>>
    BY <1>4 DEF End, ListingFails
  <2> QED BY <1>0, <2>1 DEF Ended, asked, SyncTypes
<1>5. CASE \E n \in Nodes : Take(c, n)
  BY <1>0, <1>5 DEF Take, asked, SyncTypes
<1>6. ASSUME NEW f \in Files, JobStepOf(c, f)
      PROVE  /\ opened'[d] = opened[d] /\ phase'[d] = phase[d] /\ need'[d] = need[d] /\ left'[d] = left[d]
             /\ at'[d] = at[d] /\ closing'[d] = closing[d] /\ waiting'[d] = waiting[d]
             /\ \A g \in Files : job'[d][g] = job[d][g] /\ rows'[d][g] = rows[d][g] /\ box'[d][g] = box[d][g]
                                /\ tree'[d][g] = tree[d][g]
             /\ removed'[d] = removed[d] /\ copied'[d] = copied[d] /\ slipped'[d] = slipped[d]
  <2>1. /\ removed'[d] \subseteq Files /\ copied'[d] \subseteq Files /\ slipped'[d] \subseteq Files
        /\ removed[d] \subseteq Files /\ copied[d] \subseteq Files /\ slipped[d] \subseteq Files
    BY <1>0, <1>6, JobSets DEF BoxTypes
  <2>2. \A g \in Files : (g \in removed'[d] <=> g \in removed[d]) /\ (g \in copied'[d] <=> g \in copied[d])
                         /\ (g \in slipped'[d] <=> g \in slipped[d])
    BY <1>6, JobKeepsOthers DEF OthersKept
  <2>3. removed'[d] = removed[d] /\ copied'[d] = copied[d] /\ slipped'[d] = slipped[d]
    BY <2>1, <2>2
  <2>4. \A g \in Files : job'[d][g] = job[d][g] /\ rows'[d][g] = rows[d][g] /\ box'[d][g] = box[d][g] /\ tree'[d][g] = tree[d][g]
    BY <1>6, JobKeepsOthers DEF OthersKept
  <2> QED BY <1>6, <2>3, <2>4, JobKeepsSync DEF asked
<1> QED BY <1>1, <1>2, <1>3, <1>4, <1>5, <1>6 DEF Sync, Goings, JobStepOf

\* The node whose turn it is: no other node left is over or under it.
LEMMA TakeDoes ==
  ASSUME TypeOK, NEW c \in Chats, Orderly(c), NEW n \in Nodes, Take(c, n)
  PROVE  /\ phase[c] = "planned" /\ at[c] = None /\ n \in left[c] /\ n # None
         /\ at'[c] = n /\ closing'[c] = Closes(c, n) /\ \A f \in Files : job[c][f] = NoJob
         /\ UNCHANGED <<opened, phase, left, waiting, rows, box, tree, removed, copied, slipped>>
         /\ Untaken(c)' = {f \in Files : \E m \in left[c] \ {n} : f \in Under(m)}
         /\ Untaken(c)' \subseteq Untaken(c)
         /\ \A f \in Under(n) : f \in Untaken(c) /\ f \notin Untaken(c)'
<1>0. /\ at \in [Chats -> Nodes \cup {None}] /\ closing \in [Chats -> BOOLEAN] /\ left[c] \subseteq Nodes /\ None \notin Nodes
      /\ \A m \in Nodes : Under(m) \subseteq Files
  BY TypesJoin, AccessAssumption DEF SyncTypes, Under, Nodes
<1>1. /\ phase[c] = "planned" /\ at[c] = None /\ n \in left[c] /\ n # None
      /\ at'[c] = n /\ closing'[c] = Closes(c, n) /\ \A f \in Files : job[c][f] = NoJob
      /\ UNCHANGED <<opened, phase, left, waiting, rows, box, tree, removed, copied, slipped>>
  BY <1>0 DEF Take, asked, Orderly
<1>2. Untaken(c)' = {f \in Files : \E m \in left[c] \ {n} : f \in Under(m)}
  BY <1>1 DEF Untaken, Under
<1>3. Untaken(c) = {f \in Files : \E m \in left[c] : f \in Under(m)}
  BY <1>0, <1>1 DEF Untaken
<1>4. \A f \in Under(n) : f \in Untaken(c) /\ f \notin Untaken(c)'
  BY <1>0, <1>1, <1>2, <1>3, OneNodeOf DEF Orderly
<1> QED BY <1>1, <1>2, <1>3, <1>4

LEMMA OrderOfTurn ==
  ASSUME TypeOK, NEW c \in Chats, Orderly(c),
         Begin(c) \/ Listed(c) \/ Arrived(c) \/ Taken(c) \/ \E n \in Nodes : Take(c, n)
  PROVE  Orderly(c)'
<1>0. /\ opened \in [Chats -> SUBSET Nodes] /\ left \in [Chats -> SUBSET Nodes] /\ at \in [Chats -> Nodes \cup {None}]
      /\ phase \in [Chats -> {"idle", "listing", "listed", "planned"}] /\ job \in [Chats -> [Files -> Jobs]]
      /\ phase[c] # "planned" => at[c] = None /\ \A f \in Files : job[c][f] = NoJob
  BY TypesJoin DEF SyncTypes, AskTypes
<1>1. CASE Begin(c)
  <2>1. CASE opened[c] = {}
    BY <1>1, <2>1 DEF Begin, asked, Orderly, Untaken
  <2>2. CASE opened[c] # {}
    <3>1. phase'[c] = "listing" /\ left'[c] = opened[c] /\ at'[c] = None /\ opened' = opened /\ job' = job
          /\ \A f \in Files : job[c][f] = NoJob
      BY <1>0, <1>1, <2>2 DEF Begin, asked
    <3> QED BY <3>1 DEF Orderly, Untaken, NoJob
  <2> QED BY <2>1, <2>2
<1>2. CASE Listed(c) \/ Arrived(c)
  <2>1. phase'[c] # "idle" /\ UNCHANGED <<opened, left, at, job>>
    BY <1>0, <1>2 DEF Listed, Arrived, asked
  <2> QED BY <2>1 DEF Orderly, Untaken
<1>3. CASE Taken(c)
  <2>1. /\ at[c] # None /\ (\A f \in Files : job[c][f] = NoJob) /\ at'[c] = None /\ left'[c] = left[c] \ {at[c]}
        /\ job' = job /\ phase' = phase
        /\ opened'[c] = opened[c] \/ opened'[c] = opened[c] \ {at[c]}
    BY <1>0, <1>3 DEF Taken
  <2>2. Apart(opened[c])' /\ Apart(left[c])'
    BY <2>1 DEF Orderly, Apart
  <2>3. left'[c] \subseteq opened'[c] \/ (Root \in opened'[c] /\ Root \notin left'[c])
    BY <2>1 DEF Orderly
  <2> QED BY <2>1, <2>2, <2>3 DEF Orderly, Untaken, NoJob
<1>4. ASSUME NEW n \in Nodes, Take(c, n)
      PROVE  Orderly(c)'
  <2>1. \A f \in Untaken(c)' : job'[c][f].step \in {"none", "close", "forget"}
    <3>1. SUFFICES ASSUME NEW f \in Untaken(c)' PROVE job'[c][f].step \in {"none", "close", "forget"}
      OBVIOUS
    <3>2. f \in Files /\ f \notin Under(n)
      BY <1>4, <3>1, TakeDoes DEF Untaken
    <3>3. job'[c][f] = IF Closes(c, n) THEN IF f \in Closed(n) /\ rows[c][f] # None THEN [NoJob EXCEPT !.step = "close"] ELSE NoJob
                       ELSE NoJob
      BY <1>0, <1>4, <3>2 DEF Take
    <3> QED BY <3>3 DEF NoJob
  <2> QED BY <1>4, <2>1, TakeDoes DEF Orderly
<1> QED BY <1>1, <1>2, <1>3, <1>4

\* A file of which nothing is under way has no step; one being closed is removed, then forgotten.
LEMMA JobSteps ==
  ASSUME TypeOK, NEW c \in Chats, NEW f \in Files, JobStepOf(c, f)
  PROVE  /\ phase[c] = "planned" /\ job[c][f].step # "none"
         /\ job[c][f].step = "close" => job'[c][f].step = "forget"
         /\ job[c][f].step = "forget" => job'[c][f].step = "none"
<1>0. job \in [Chats -> [Files -> Jobs]]
  BY TypesJoin DEF SyncTypes
<1>1. phase[c] = "planned" /\ job[c][f].step # "none"
  BY DEF JobStepOf, Job, ReadFull, Add, Replace, Finish, Trash, Conflict, Put, Write, Keep, Remove, Forget, Misses,
         CloseFails, Fails, GivesUp, Step
<1>2. job[c][f].step = "close" => \E x : Goes(c, f, "forget", x)
  BY DEF JobStepOf, Job, ReadFull, Add, Replace, Finish, Trash, Conflict, Put, Write, Keep, Remove, Forget, Misses,
         CloseFails, Fails, Step
<1>3. job[c][f].step = "forget" => Done(c, f)
  BY DEF JobStepOf, Job, ReadFull, Add, Replace, Finish, Trash, Conflict, Put, Write, Keep, Remove, Forget, Misses,
         CloseFails, Fails, GivesUp, Step
<1> QED BY <1>0, <1>1, <1>2, <1>3 DEF Goes, Done, NoJob

LEMMA OrderOfJob ==
  ASSUME TypeOK, NEW c \in Chats, Orderly(c), NEW f \in Files, JobStepOf(c, f)
  PROVE  Orderly(c)'
<1>1. job[c][f].step # "none"
  BY JobSteps
<1>2. at[c] # None
  BY <1>1 DEF Orderly, NoJob
<1>3. UNCHANGED <<opened, phase, left, at>>
  BY JobKeepsSync DEF asked
<1>4. \A g \in Untaken(c) : job'[c][g].step \in {"none", "close", "forget"}
  <2>1. \A g \in Files : g # f => job'[c][g] = job[c][g]
    BY JobKeepsOthers DEF OthersKept
  <2>2. f \in Untaken(c) => job'[c][f].step \in {"none", "close", "forget"}
    BY <1>1, JobSteps DEF Orderly
  <2> QED BY <2>1, <2>2 DEF Orderly, Untaken
<1> QED BY <1>2, <1>3, <1>4 DEF Orderly, Untaken

LEMMA OrderOfEnd ==
  ASSUME TypeOK, NEW d \in Chats, Orderly(d), (\E c \in Chats : c = d /\ Ended(c) /\ UNCHANGED asked) \/ Stops
  PROVE  Orderly(d)'
<1>0. SyncTypes
  BY TypesJoin
<1>1. left'[d] = {} /\ at'[d] = None /\ \A f \in Files : job'[d][f] = NoJob
  BY <1>0 DEF Ended, Stops, ForAll, SyncTypes
<1>2. UNCHANGED opened
  BY DEF Stops, asked
<1> QED BY <1>1, <1>2 DEF Orderly, Untaken, Apart

LEMMA OrderStep ==
  ASSUME TypeOK, NEW d \in Chats, Orderly(d), [Next]_vars
  PROVE  Orderly(d)'
<1>1. CASE People \/ (\E c \in Chats : Agent(c) \/ SandboxStartedOver(c)) \/ UNCHANGED vars
  BY <1>1, OrderElsewhere
<1>2. CASE Stops
  BY <1>2, OrderOfEnd
<1>3. ASSUME NEW c \in Chats, Sync(c), c # d
      PROVE  Orderly(d)'
  BY <1>3, OthersSync DEF Orderly, Untaken
<1>4. CASE Sync(d)
  <2>1. CASE Begin(d) \/ Listed(d) \/ Arrived(d) \/ Taken(d) \/ \E n \in Nodes : Take(d, n)
    BY <2>1, OrderOfTurn
  <2>2. CASE End(d) \/ ListingFails(d)
    BY <2>2, OrderOfEnd DEF End, ListingFails
  <2>3. CASE \E f \in Files : JobStepOf(d, f)
    BY <2>3, OrderOfJob
  <2> QED BY <1>4, <2>1, <2>2, <2>3 DEF Sync, Goings, JobStepOf
<1> QED BY <1>1, <1>2, <1>3, <1>4 DEF Next

-----------------------------------------------------------------------------
(***************************************************************************)
(* What a step of a job does to the file it is of.                         *)
(***************************************************************************)

Moves(c, f, to, bytes) == job'[c][f].step = to /\ job'[c][f].bytes = bytes
RowKept(c, f) == rows'[c][f] = rows[c][f]
BoxKept(c, f) == box'[c][f] = box[c][f] /\ (f \in removed'[c] <=> f \in removed[c]) /\ (f \in copied'[c] <=> f \in copied[c])
Sure(c, f) == f \in slipped'[c] <=> f \in slipped[c]

LEMMA JobDoes ==
  ASSUME TypeOK, NEW c \in Chats, NEW f \in Files
  PROVE  /\ ReadFull(c, f) =>
              /\ job[c][f].step \in {"upload", "update"} /\ box[c][f] # None
              /\ \E to \in {"add", "replace"} : Moves(c, f, to, box[c][f])
              /\ RowKept(c, f) /\ BoxKept(c, f) /\ Sure(c, f)
         /\ Add(c, f) \/ Finish(c, f) =>
              /\ job[c][f].step \in {"add", "finish"} /\ Moves(c, f, "none", None)
              /\ rows'[c][f] = job[c][f].bytes /\ BoxKept(c, f) /\ Sure(c, f)
         /\ Replace(c, f) =>
              /\ job[c][f].step = "replace" /\ Moves(c, f, "finish", job[c][f].bytes)
              /\ RowKept(c, f) /\ BoxKept(c, f) /\ Sure(c, f)
         /\ Trash(c, f) =>
              /\ job[c][f].step = "trash" /\ Moves(c, f, "none", None)
              /\ rows'[c][f] = None /\ BoxKept(c, f) /\ Sure(c, f)
         /\ Conflict(c, f) =>
              /\ job[c][f].step = "conflict" /\ Moves(c, f, IF job[c][f].bytes # None THEN "put" ELSE "delete", None)
              /\ RowKept(c, f) /\ BoxKept(c, f) /\ Sure(c, f)
         /\ Put(c, f) =>
              /\ job[c][f].step = "put" /\ There(f) /\ Moves(c, f, "write", drive[f])
              /\ RowKept(c, f) /\ BoxKept(c, f) /\ Sure(c, f)
         /\ Keep(c, f) =>
              /\ job[c][f].step = "keep" /\ Moves(c, f, "none", None)
              /\ rows'[c][f] = job[c][f].bytes /\ BoxKept(c, f) /\ Sure(c, f)
         /\ Forget(c, f) =>
              /\ job[c][f].step = "forget" /\ Moves(c, f, "none", None)
              /\ rows'[c][f] = None /\ BoxKept(c, f) /\ Sure(c, f)
<1>0. job \in [Chats -> [Files -> Jobs]] /\ rows \in [Chats -> [Files -> Contents]]
  BY TypesJoin DEF SyncTypes, BoxTypes
<1>1. ASSUME NEW to, NEW x, Goes(c, f, to, x)
      PROVE  Moves(c, f, to, x)
  BY <1>0, <1>1 DEF Goes, Moves
<1>2. ASSUME Done(c, f)
      PROVE  Moves(c, f, "none", None)
  BY <1>0, <1>2 DEF Done, Moves, NoJob
<1>3. ASSUME NEW x, remember(c, f, x)
      PROVE  rows'[c][f] = x
  BY <1>0, <1>3 DEF remember
<1>4. ReadFull(c, f) => /\ job[c][f].step \in {"upload", "update"} /\ box[c][f] # None
                        /\ \E to \in {"add", "replace"} : Moves(c, f, to, box[c][f])
                        /\ RowKept(c, f) /\ BoxKept(c, f) /\ Sure(c, f)
  BY <1>1 DEF ReadFull, Step, RowKept, BoxKept, Sure
<1>5. Add(c, f) \/ Finish(c, f) => /\ job[c][f].step \in {"add", "finish"} /\ Moves(c, f, "none", None)
                                   /\ rows'[c][f] = job[c][f].bytes /\ BoxKept(c, f) /\ Sure(c, f)
  BY <1>2, <1>3 DEF Add, Finish, Step, BoxKept, Sure
<1>6. Replace(c, f) => /\ job[c][f].step = "replace" /\ Moves(c, f, "finish", job[c][f].bytes)
                       /\ RowKept(c, f) /\ BoxKept(c, f) /\ Sure(c, f)
  BY <1>1 DEF Replace, Step, RowKept, BoxKept, Sure
<1>7. Trash(c, f) => /\ job[c][f].step = "trash" /\ Moves(c, f, "none", None)
                     /\ rows'[c][f] = None /\ BoxKept(c, f) /\ Sure(c, f)
  BY <1>2, <1>3 DEF Trash, Step, BoxKept, Sure
<1>8. Conflict(c, f) => /\ job[c][f].step = "conflict"
                        /\ Moves(c, f, IF job[c][f].bytes # None THEN "put" ELSE "delete", None)
                        /\ RowKept(c, f) /\ BoxKept(c, f) /\ Sure(c, f)
  BY <1>1 DEF Conflict, Step, RowKept, BoxKept, Sure
<1>9. Put(c, f) => /\ job[c][f].step = "put" /\ There(f) /\ Moves(c, f, "write", drive[f])
                   /\ RowKept(c, f) /\ BoxKept(c, f) /\ Sure(c, f)
  BY <1>1 DEF Put, Step, RowKept, BoxKept, Sure
<1>10. Keep(c, f) => /\ job[c][f].step = "keep" /\ Moves(c, f, "none", None)
                     /\ rows'[c][f] = job[c][f].bytes /\ BoxKept(c, f) /\ Sure(c, f)
  BY <1>2, <1>3 DEF Keep, Step, BoxKept, Sure
<1>11. Forget(c, f) => /\ job[c][f].step = "forget" /\ Moves(c, f, "none", None)
                       /\ rows'[c][f] = None /\ BoxKept(c, f) /\ Sure(c, f)
  BY <1>2, <1>3 DEF Forget, Step, BoxKept, Sure
<1> QED BY <1>4, <1>5, <1>6, <1>7, <1>8, <1>9, <1>10, <1>11

\* The steps that write to the sandbox, and those that fail.
LEMMA JobWrites ==
  ASSUME TypeOK, NEW c \in Chats, NEW f \in Files
  PROVE  /\ Write(c, f) =>
              /\ job[c][f].step = "write" /\ Moves(c, f, "keep", job[c][f].bytes)
              /\ box'[c][f] = job[c][f].bytes /\ f \notin removed'[c]
              /\ f \in copied'[c] <=> job[c][f].bytes # None
              /\ RowKept(c, f) /\ Sure(c, f)
         /\ Remove(c, f) =>
              /\ job[c][f].step \in {"delete", "close"} /\ Moves(c, f, "forget", None)
              /\ box'[c][f] = None /\ f \notin removed'[c] /\ f \notin copied'[c]
              /\ RowKept(c, f) /\ Sure(c, f)
         /\ CloseFails(c, f) =>
              /\ job[c][f].step = "close" /\ Moves(c, f, "forget", None)
              /\ RowKept(c, f) /\ BoxKept(c, f) /\ f \in slipped'[c]
         /\ Misses(c, f) =>
              /\ job[c][f].step \in {"upload", "update", "add", "replace", "finish", "put"} /\ Moves(c, f, "none", None)
              /\ due'[c] /\ RowKept(c, f) /\ BoxKept(c, f) /\ Sure(c, f)
         /\ Fails(c, f) =>
              /\ job[c][f].step \notin {"none", "trash", "close"} /\ Moves(c, f, "none", None)
              /\ due'[c] /\ RowKept(c, f) /\ BoxKept(c, f)
              /\ f \in slipped'[c] <=> f \in slipped[c] \/ job[c][f].step \in {"keep", "forget"}
<1>0. /\ job \in [Chats -> [Files -> Jobs]] /\ box \in [Chats -> [Files -> Contents]]
      /\ removed \in [Chats -> SUBSET Files] /\ copied \in [Chats -> SUBSET Files] /\ slipped \in [Chats -> SUBSET Files]
      /\ due \in [Chats -> BOOLEAN]
  BY TypesJoin DEF SyncTypes, BoxTypes, NoteTypes
<1>1. ASSUME NEW to, NEW x, Goes(c, f, to, x)
      PROVE  Moves(c, f, to, x)
  BY <1>0, <1>1 DEF Goes, Moves
<1>2. ASSUME Done(c, f)
      PROVE  Moves(c, f, "none", None)
  BY <1>0, <1>2 DEF Done, Moves, NoJob
<1>3. ASSUME NEW x, Writes(c, f, x)
      PROVE  box'[c][f] = x /\ f \notin removed'[c] /\ (f \in copied'[c] <=> x # None)
  <2>1. box'[c][f] = x
    BY <1>0, <1>3 DEF Writes
  <2>2. removed'[c] = removed[c] \ {f}
    BY <1>0, <1>3 DEF Writes
  <2>3. copied'[c] = IF x = None THEN copied[c] \ {f} ELSE copied[c] \cup {f}
    BY <1>0, <1>3 DEF Writes
  <2> QED BY <2>1, <2>2, <2>3
<1>4. Write(c, f) => /\ job[c][f].step = "write" /\ Moves(c, f, "keep", job[c][f].bytes)
                     /\ box'[c][f] = job[c][f].bytes /\ f \notin removed'[c]
                     /\ (f \in copied'[c] <=> job[c][f].bytes # None)
                     /\ RowKept(c, f) /\ Sure(c, f)
  BY <1>1, <1>3 DEF Write, Step, RowKept, Sure
<1>5. Remove(c, f) => /\ job[c][f].step \in {"delete", "close"} /\ Moves(c, f, "forget", None)
                      /\ box'[c][f] = None /\ f \notin removed'[c] /\ f \notin copied'[c]
                      /\ RowKept(c, f) /\ Sure(c, f)
  BY <1>1, <1>3 DEF Remove, Step, RowKept, Sure
<1>6. CloseFails(c, f) => /\ job[c][f].step = "close" /\ Moves(c, f, "forget", None)
                          /\ RowKept(c, f) /\ BoxKept(c, f) /\ f \in slipped'[c]
  BY <1>0, <1>1 DEF CloseFails, Step, RowKept, BoxKept
<1>7. GivesUp(c, f) => Moves(c, f, "none", None) /\ due'[c] /\ RowKept(c, f) /\ BoxKept(c, f)
  BY <1>0, <1>2 DEF GivesUp, RowKept, BoxKept
<1>8. Misses(c, f) => job[c][f].step \in {"upload", "update", "add", "replace", "finish", "put"} /\ GivesUp(c, f) /\ Sure(c, f)
  BY DEF Misses, Step, Sure
<1>9. Fails(c, f) => /\ job[c][f].step \notin {"none", "trash", "close"} /\ GivesUp(c, f)
                     /\ (f \in slipped'[c] <=> f \in slipped[c] \/ job[c][f].step \in {"keep", "forget"})
  BY <1>0 DEF Fails
<1> QED BY <1>4, <1>5, <1>6, <1>7, <1>8, <1>9

-----------------------------------------------------------------------------
(***************************************************************************)
(* What a sync trashes, the agent removed.  A file both sides held that is *)
(* no longer in the sandbox was removed there by the agent, or is being    *)
(* removed by the sync that is about to forget it, or a failure left its   *)
(* row behind; and a listing shows the same of the files still to come.    *)
(***************************************************************************)

Gone(d) == removed[d] \cup slipped[d]
Carried == {"add", "replace", "finish", "write", "keep"}

SoundAt(d, f) ==
  /\ job[d][f].step \in Carried => job[d][f].bytes # None
  /\ rows[d][f] # None /\ box[d][f] = None => f \in Gone(d) \/ job[d][f].step = "forget"
  /\ job[d][f].step \in Carried \ {"write"} => box[d][f] # None \/ f \in removed[d]
  /\ job[d][f].step = "trash" => f \in Gone(d)
  /\ phase[d] \in {"listed", "planned"} /\ f \in Untaken(d) /\ tree[d][f] = None /\ rows[d][f] # None =>
       f \in Gone(d) \/ job[d][f].step = "forget"

Sound(d) == Orderly(d) /\ \A f \in Files : SoundAt(d, f)

LEMMA SameSound ==
  ASSUME NEW d \in Chats, NEW f \in Files, SoundAt(d, f),
         phase'[d] = phase[d], left'[d] = left[d], at'[d] = at[d],
         job'[d][f] = job[d][f], rows'[d][f] = rows[d][f], box'[d][f] = box[d][f], tree'[d][f] = tree[d][f],
         f \in removed[d] => f \in removed'[d], f \in slipped[d] => f \in slipped'[d]
  PROVE  SoundAt(d, f)'
BY DEF SoundAt, Gone, Untaken

LEMMA SoundOfJob ==
  ASSUME TypeOK, NEW c \in Chats, Sound(c), NEW f \in Files, JobStepOf(c, f)
  PROVE  \A g \in Files : SoundAt(c, g)'
<1>1. UNCHANGED <<phase, left, at>>
  BY JobKeepsSync
<1>2. ASSUME NEW g \in Files, g # f
      PROVE  SoundAt(c, g)'
  BY <1>1, <1>2, JobKeepsOthers, SameSound DEF OthersKept, Sound
<1>3. SoundAt(c, f)'
  <2>0. /\ SoundAt(c, f) /\ (f \in Untaken(c) => job[c][f].step \in {"none", "close", "forget"})
        /\ (f \in Untaken(c)' <=> f \in Untaken(c)) /\ job[c][f].step # "none" /\ phase[c] = "planned"
    BY <1>1, JobSteps DEF Sound, Orderly, Untaken
  <2>1. CASE ReadFull(c, f)
    BY <2>0, <2>1, JobDoes DEF SoundAt, Gone, Moves, RowKept, BoxKept, Sure, Carried
  <2>2. CASE Add(c, f) \/ Finish(c, f)
    BY <2>0, <2>2, JobDoes DEF SoundAt, Gone, Moves, BoxKept, Sure, Carried
  <2>3. CASE Replace(c, f)
    BY <2>0, <2>3, JobDoes DEF SoundAt, Gone, Moves, RowKept, BoxKept, Sure, Carried
  <2>4. CASE Trash(c, f) \/ Forget(c, f)
    BY <2>0, <2>4, JobDoes DEF SoundAt, Gone, Moves, BoxKept, Sure, Carried
  <2>5. CASE Conflict(c, f)
    BY <2>0, <2>5, JobDoes DEF SoundAt, Gone, Moves, RowKept, BoxKept, Sure, Carried
  <2>6. CASE Put(c, f)
    BY <2>0, <2>6, JobDoes DEF SoundAt, Gone, Moves, RowKept, BoxKept, Sure, Carried, There, Live
  <2>7. CASE Write(c, f)
    BY <2>0, <2>7, JobWrites DEF SoundAt, Gone, Moves, RowKept, Sure, Carried
  <2>8. CASE Keep(c, f)
    BY <2>0, <2>8, JobDoes DEF SoundAt, Gone, Moves, BoxKept, Sure, Carried
  <2>9. CASE Remove(c, f)
    <3>1. tree'[c][f] = tree[c][f]
      BY <2>9 DEF Remove, Working, Unmoved
    <3> QED BY <2>0, <2>9, <3>1, JobWrites DEF SoundAt, Gone, Moves, RowKept, Sure, Carried
  <2>10. CASE CloseFails(c, f)
    BY <2>0, <2>10, JobWrites DEF SoundAt, Gone, Moves, RowKept, BoxKept, Carried
  <2>11. CASE Misses(c, f)
    BY <2>0, <2>11, JobWrites DEF SoundAt, Gone, Moves, RowKept, BoxKept, Sure, Carried
  <2>12. CASE Fails(c, f)
    <3>1. tree'[c][f] = tree[c][f]
      BY <2>12 DEF Fails, GivesUp
    <3> QED BY <2>0, <2>12, <3>1, JobWrites DEF SoundAt, Gone, Moves, RowKept, BoxKept, Carried
  <2> QED BY <2>1, <2>2, <2>3, <2>4, <2>5, <2>6, <2>7, <2>8, <2>9, <2>10, <2>11, <2>12 DEF JobStepOf, Job
<1> QED BY <1>2, <1>3

\* The plan of a file, by its row, the listing and Drive.
LEMMA PlannedSteps ==
  ASSUME NEW c \in Chats, NEW n \in Nodes, NEW f \in Files, NEW want \in {"read", "change"}
  PROVE  LET d == IF Live(f) THEN drive[f] ELSE None
             kind == planSync(rows[c][f], tree[c][f], d)
         IN /\ Planned(c, n, want, f).step \in {"none", "upload", "trash", "update", "delete", "put", "conflict", "forget"}
            /\ Planned(c, n, want, f).step = "trash" => rows[c][f] # None /\ tree[c][f] = None /\ d = rows[c][f] /\ want = "change"
            /\ Planned(c, n, want, f).step = "forget" => tree[c][f] = None /\ d = None /\ rows[c][f] # None
            /\ Planned(c, n, want, f).step = "conflict" => Planned(c, n, want, f).bytes = d
<1> DEFINE d == IF Live(f) THEN drive[f] ELSE None
           kind == planSync(rows[c][f], tree[c][f], d)
           allowed == IF want = "read" THEN readOnly(kind, d) ELSE kind
           out == IF n # Root /\ allowed = "upload" THEN "none" ELSE allowed
<1>1. Planned(c, n, want, f) = [step |-> out, bytes |-> IF out = "conflict" THEN d ELSE None]
  BY DEF Planned
<1>2. /\ kind \in {"none", "upload", "trash", "update", "delete", "put", "conflict", "forget"}
      /\ kind = "trash" => rows[c][f] # None /\ tree[c][f] = None /\ d = rows[c][f]
      /\ kind = "forget" => tree[c][f] = None /\ d = None /\ rows[c][f] # None
  BY DEF planSync
<1>3. /\ out \in {"none", "upload", "trash", "update", "delete", "put", "conflict", "forget"}
      /\ out = "trash" => kind = "trash" /\ want = "change"
      /\ out = "forget" => kind = "forget"
  BY <1>2 DEF readOnly
<1> HIDE DEF kind, allowed, out
<1> QED BY <1>1, <1>2, <1>3

\* What the jobs of a node are when its turn comes.
LEMMA TakeJobs ==
  ASSUME TypeOK, NEW c \in Chats, NEW n \in Nodes, Take(c, n), NEW f \in Files
  PROVE  LET want == IF need[c][n] = "change" /\ ceiling = "change" THEN "change" ELSE "read"
         IN job'[c][f] = IF Closes(c, n) THEN IF f \in Closed(n) /\ rows[c][f] # None THEN [NoJob EXCEPT !.step = "close"] ELSE NoJob
                         ELSE IF f \in Under(n) THEN Planned(c, n, want, f) ELSE NoJob
<1>1. job \in [Chats -> [Files -> Jobs]]
  BY TypesJoin DEF SyncTypes
<1> QED BY <1>1 DEF Take

LEMMA SoundOfTurn ==
  ASSUME TypeOK, NEW c \in Chats, Sound(c), NEW f \in Files,
         Begin(c) \/ Listed(c) \/ Arrived(c) \/ Taken(c) \/ End(c) \/ ListingFails(c) \/ Stops \/ \E n \in Nodes : Take(c, n)
  PROVE  SoundAt(c, f)'
<1>0. /\ SyncTypes /\ BoxTypes /\ SoundAt(c, f)
      /\ phase[c] # "planned" => at[c] = None /\ job[c][f] = NoJob
      /\ at[c] = None => job[c][f] = NoJob
  BY TypesJoin DEF SyncTypes, Sound, Orderly
<1>1. CASE Begin(c)
  <2>1. phase'[c] \in {"idle", "listing"} /\ UNCHANGED <<rows, box, job, removed, slipped>> /\ job[c][f] = NoJob
    BY <1>0, <1>1 DEF Begin, SyncTypes
  <2> QED BY <1>0, <2>1 DEF SoundAt, Gone, NoJob, Carried
<1>2. CASE Listed(c)
  <2>1. tree'[c] = box[c] /\ UNCHANGED <<rows, box, job, removed, slipped>> /\ job[c][f] = NoJob
    BY <1>0, <1>2 DEF Listed, SyncTypes, notes
  <2> QED BY <1>0, <2>1 DEF SoundAt, Gone, NoJob, Carried
<1>3. CASE Arrived(c)
  <2>1. phase[c] = "listed" /\ UNCHANGED <<rows, box, job, left, at, tree, removed, slipped>>
    BY <1>0, <1>3 DEF Arrived, notes
  <2> QED BY <1>0, <2>1 DEF SoundAt, Gone, Untaken
<1>4. CASE Taken(c)
  <2>1. /\ UNCHANGED <<rows, box, job, tree, phase, removed, slipped>>
        /\ at'[c] = None /\ left'[c] = left[c] \ {at[c]}
    BY <1>0, <1>4 DEF Taken, notes, SyncTypes
  <2>2. f \in Untaken(c)' => f \in Untaken(c)
    BY <2>1 DEF Untaken
  <2> QED BY <1>0, <2>1, <2>2 DEF SoundAt, Gone
<1>5. CASE End(c) \/ ListingFails(c)
  <2>1. Ended(c) /\ UNCHANGED <<rows, box, removed, slipped>> /\ job[c][f] = NoJob
    BY <1>0, <1>5 DEF End, ListingFails, Sound, Orderly
  <2>2. phase'[c] = "idle" /\ job'[c][f] = NoJob
    BY <1>0, <2>1 DEF Ended, SyncTypes
  <2> QED BY <1>0, <2>1, <2>2 DEF SoundAt, Gone, NoJob, Carried
<1>6. CASE Stops
  <2>1. UNCHANGED <<rows, box, removed>> /\ phase'[c] = "idle" /\ job'[c][f] = NoJob
    BY <1>6 DEF Stops, ForAll
  <2>2. f \in slipped'[c] <=> f \in slipped[c] \/ job[c][f].step \in {"keep", "forget"}
    BY <1>6 DEF Stops
  <2> QED BY <1>0, <2>1, <2>2 DEF SoundAt, Gone, NoJob, Carried
<1>7. ASSUME NEW n \in Nodes, Take(c, n)
      PROVE  SoundAt(c, f)'
  <2>0. /\ phase[c] = "planned" /\ job[c][f] = NoJob /\ n \in left[c]
        /\ UNCHANGED <<phase, rows, box, tree, removed, slipped>>
        /\ (f \in Untaken(c)' => f \in Untaken(c)) /\ (f \in Under(n) => f \in Untaken(c))
    BY <1>7, TakeDoes DEF Sound
  <2>1. job'[c][f].step \notin Carried
        /\ (job'[c][f].step = "trash" => f \in Under(n) /\ rows[c][f] # None /\ tree[c][f] = None)
    BY <1>7, TakeJobs, PlannedSteps DEF NoJob, Carried
  <2> QED BY <1>0, <2>0, <2>1 DEF SoundAt, Gone, NoJob, Carried
<1> QED BY <1>1, <1>2, <1>3, <1>4, <1>5, <1>6, <1>7

\* What people do, and what is only asked for, leaves the sandboxes and the syncs under way alone.
LEMMA AskingOnly ==
  ASSUME \/ People \/ UNCHANGED vars
         \/ \E c \in Chats : AskSync(c) \/ \E n \in Nodes, want \in Needs : onRequest(c, n, want)
  PROVE  UNCHANGED <<syncVars, rows, box, removed, copied, slipped>>
BY DEF People, deny, allow, setSpaceAuto, revokeGrant, onRequest, Answers, TakesEffect, Quiet, setMember,
       PersonWrites, PersonTrashes, PersonRestores, DriveChanges, AskSync, vars, notes

LEMMA AgentDoes ==
  ASSUME TypeOK, NEW c \in Chats, NEW f \in Files, AgentWrites(c, f) \/ AgentRemoves(c, f)
  PROVE  /\ UNCHANGED <<role, drive, trashed, asked, rows, waiting, syncVars, slipped, due, could>> /\ Disturbed
         /\ AgentWrites(c, f) => box'[c][f] # None
         /\ AgentRemoves(c, f) => box'[c][f] = None /\ f \in removed'[c]
         /\ f \notin copied'[c]
         /\ \A b \in Chats : removed[b] \subseteq removed'[b]
         /\ \A b \in Chats, g \in Files : b # c \/ g # f => box'[b][g] = box[b][g] /\ (g \in copied'[b] <=> g \in copied[b])
<1>0. /\ box \in [Chats -> [Files -> Contents]] /\ removed \in [Chats -> SUBSET Files] /\ copied \in [Chats -> SUBSET Files]
      /\ (Edit => edits' \in Contents /\ edits' # None) /\ None \in Contents
  BY TypesJoin, Counted, ContentsThere DEF BoxTypes
<1>1. UNCHANGED <<role, drive, trashed, asked, rows, waiting, syncVars, slipped, due, could>> /\ Disturbed
  BY DEF AgentWrites, AgentRemoves, Edit, driveVars
<1>2. copied' = [copied EXCEPT ![c] = @ \ {f}] /\ \A b \in Chats : removed[b] \subseteq removed'[b]
  BY <1>0 DEF AgentWrites, AgentRemoves
<1>3. AgentRemoves(c, f) => f \in removed'[c]
  BY <1>0 DEF AgentRemoves
<1>4. /\ AgentWrites(c, f) => \E x \in Contents : x # None /\ box' = [box EXCEPT ![c][f] = x]
      /\ AgentRemoves(c, f) => box' = [box EXCEPT ![c][f] = None]
  BY <1>0 DEF AgentWrites, AgentRemoves
<1>5. /\ AgentWrites(c, f) => box'[c][f] # None
      /\ AgentRemoves(c, f) => box'[c][f] = None
      /\ \A b \in Chats, g \in Files : b # c \/ g # f => box'[b][g] = box[b][g]
  <2>1. CASE AgentWrites(c, f) /\ ~AgentRemoves(c, f)
    BY <1>0, <1>4, <2>1, Cell
  <2>2. CASE AgentRemoves(c, f)
    <3>1. box'[c][f] = None /\ \A b \in Chats, g \in Files : b # c \/ g # f => box'[b][g] = box[b][g]
      BY <1>0, <1>4, <2>2, Cell
    <3>2. ~AgentWrites(c, f)
      <4>1. SUFFICES ASSUME AgentWrites(c, f) PROVE FALSE
        OBVIOUS
      <4>2. PICK x \in Contents : x # None /\ box' = [box EXCEPT ![c][f] = x]
        BY <1>4, <4>1
      <4> QED BY <1>0, <3>1, <4>2, Cell
    <3> QED BY <3>1, <3>2
  <2> QED BY <2>1, <2>2
<1> QED BY <1>0, <1>1, <1>2, <1>3, <1>5

LEMMA SoundStep ==
  ASSUME TypeOK, NEW d \in Chats, Sound(d), [Next]_vars
  PROVE  Sound(d)'
<1>0. Orderly(d)'
  BY OrderStep DEF Sound
<1>1. ASSUME \/ People \/ UNCHANGED vars
             \/ \E c \in Chats : AskSync(c) \/ \E n \in Nodes, want \in Needs : onRequest(c, n, want)
      PROVE  \A f \in Files : SoundAt(d, f)'
  BY <1>1, AskingOnly, SameSound DEF Sound, syncVars
<1>2. ASSUME NEW c \in Chats, NEW f \in Files, AgentWrites(c, f) \/ AgentRemoves(c, f), NEW g \in Files
      PROVE  SoundAt(d, g)'
  <2>0. SoundAt(d, g) /\ UNCHANGED <<rows, syncVars, slipped>> /\ removed[d] \subseteq removed'[d]
    BY <1>2, AgentDoes DEF Sound
  <2>1. CASE c = d /\ f = g
    <3>1. box'[d][g] # None \/ g \in removed'[d]
      BY <1>2, <2>1, AgentDoes
    <3> QED BY <2>0, <3>1 DEF SoundAt, Gone, Untaken, syncVars
  <2>2. CASE c # d \/ f # g
    <3>1. box'[d][g] = box[d][g]
      BY <1>2, <2>2, AgentDoes
    <3> QED BY <2>0, <3>1, SameSound DEF syncVars
  <2> QED BY <2>1, <2>2
<1>3. ASSUME NEW c \in Chats, SandboxStartedOver(c)
      PROVE  \A f \in Files : SoundAt(d, f)'
  <2>0. SyncTypes /\ BoxTypes
    BY TypesJoin
  <2>1. CASE c = d
    <3>1. phase'[d] = "idle" /\ (\A f \in Files : job'[d][f] = NoJob) /\ rows'[d] = Nothing
      BY <1>3, <2>0, <2>1 DEF SandboxStartedOver, SyncTypes, BoxTypes, syncVars
    <3> QED BY <3>1 DEF SoundAt, NoJob, Nothing, Carried
  <2>2. CASE c # d
    <3>1. rows'[d] = rows[d] /\ box'[d] = box[d] /\ removed'[d] = removed[d] /\ slipped'[d] = slipped[d] /\ UNCHANGED syncVars
      BY <1>3, <2>0, <2>2 DEF SandboxStartedOver, BoxTypes
    <3> QED BY <3>1, SameSound DEF Sound, syncVars
  <2> QED BY <2>1, <2>2
<1>4. ASSUME NEW c \in Chats, Sync(c), c # d
      PROVE  \A f \in Files : SoundAt(d, f)'
  BY <1>4, OthersSync, SameSound DEF Sound
<1>5. CASE Stops \/ Sync(d)
  <2>1. CASE \E f \in Files : JobStepOf(d, f)
    BY <1>0, <2>1, SoundOfJob DEF Sound
  <2>2. CASE Begin(d) \/ Listed(d) \/ Arrived(d) \/ Taken(d) \/ End(d) \/ ListingFails(d) \/ Stops \/ \E n \in Nodes : Take(d, n)
    BY <1>0, <2>2, SoundOfTurn DEF Sound
  <2> QED BY <1>5, <2>1, <2>2 DEF Sync, Goings, JobStepOf
<1>6. CASE \E c \in Chats : Agent(c)
  BY <1>0, <1>1, <1>2, <1>6 DEF Sound, Agent
<1> QED BY <1>0, <1>1, <1>3, <1>4, <1>5, <1>6 DEF Next, Sound

LEMMA SoundInit ==
  ASSUME Init
  PROVE  \A d \in Chats : Sound(d)
BY DEF Init, ForAll, Sound, SoundAt, Gone, Orderly, Apart, Untaken, NoJob, Nothing, Carried

\* Only a job that is to trash a file adds to the trash.
LEMMA OnlyTrashTrashes ==
  ASSUME NEW c \in Chats, Sync(c), NEW f \in trashed' \ trashed
  PROVE  f \in Files => Trash(c, f)
<1>1. CASE Begin(c) \/ Listed(c) \/ Arrived(c) \/ Taken(c) \/ End(c) \/ ListingFails(c) \/ \E n \in Nodes : Take(c, n)
  BY <1>1 DEF Begin, Listed, Arrived, Taken, End, ListingFails, Take, driveVars
<1>2. ASSUME NEW g \in Files, JobStepOf(c, g)
      PROVE  Trash(c, f)
  <2>1. ~Trash(c, g) => trashed' \subseteq trashed
    BY <1>2 DEF JobStepOf, Job, ReadFull, Add, Replace, Finish, Conflict, Put, Write, Keep, Remove, Forget,
                Misses, CloseFails, Fails, GivesUp, driveVars
  <2>2. Trash(c, g) => trashed' \subseteq trashed \cup {g}
    BY DEF Trash
  <2> QED BY <2>1, <2>2
<1> QED BY <1>1, <1>2 DEF Sync, Goings, JobStepOf

\* A sync trashes a file in Drive only when the agent removed it from the sandbox, or a failure left
\* its row wrong; whatever a listing, a stop or another chat's sync came between.
THEOREM SyncsTrashWhatTheAgentRemoved == Spec => TrashesOnlyRemoved
<1> DEFINE Inv == TypeOK /\ \A d \in Chats : Sound(d)
           Kept == \A c \in Chats : Sync(c) => \A f \in trashed' \ trashed : f \in removed[c] \cup slipped[c]
<1>1. Init => Inv
  BY TypeInit, SoundInit
<1>2. Inv /\ [Next]_vars => Inv'
  <2>1. SUFFICES ASSUME Inv, [Next]_vars PROVE Inv'
    OBVIOUS
  <2>2. TypeOK'
    BY <2>1, TypeStep
  <2>3. \A d \in Chats : Sound(d)'
    BY <2>1, SoundStep
  <2> QED BY <2>2, <2>3
<1>3. Inv /\ [Next]_vars => [Kept]_vars
  <2>1. SUFFICES ASSUME Inv, [Next]_vars, NEW c \in Chats, Sync(c), NEW f \in trashed' \ trashed
                 PROVE  f \in removed[c] \cup slipped[c]
    OBVIOUS
  <2>2. f \in Files
    BY <2>1, TypeStep, TypesJoin DEF DriveTypes, TypeOK
  <2>3. Trash(c, f)
    BY <2>1, <2>2, OnlyTrashTrashes
  <2>4. job[c][f].step = "trash"
    BY <2>3 DEF Trash, Step
  <2> QED BY <2>1, <2>2, <2>4 DEF Sound, SoundAt, Gone
<1> QED BY <1>1, <1>2, <1>3, PTL DEF Spec, TrashesOnlyRemoved

-----------------------------------------------------------------------------
(***************************************************************************)
(* What the Portal put in a sandbox: it has a row or is about to, is under *)
(* an open node, and is listed; a node that is closed takes all of its own *)
(* out first.                                                              *)
(***************************************************************************)

Ours(d) == copied[d] \ slipped[d]
Reached(d, f) == \E n \in opened[d] : f \in Under(n)

\* The jobs of a node that is closed only close; others have jobs for its own files alone.
InTurn(d) ==
  /\ closing[d] => \A f \in Files : job[d][f].step \in {"none", "close", "forget"}
  /\ ~closing[d] => \A f \in Files : job[d][f].step # "none" => f \in Under(at[d])
  /\ at[d] # None /\ ~closing[d] => need[d][at[d]] # "none"

CopyAt(d, f) ==
  /\ f \in Ours(d) => rows[d][f] # None \/ job[d][f].step = "keep"
  /\ f \in Ours(d) => Reached(d, f)
  /\ job[d][f].step \in {"trash", "forget"} => f \notin Ours(d)
  /\ f \in copied[d] => box[d][f] # None
  /\ phase[d] \in {"listed", "planned"} /\ f \in Untaken(d) /\ f \in copied[d] => tree[d][f] # None
  /\ closing[d] /\ f \in Ours(d) /\ f \in Under(at[d]) => job[d][f].step = "close"

Copying(d) == Sound(d) /\ InTurn(d) /\ \A f \in Files : CopyAt(d, f)

LEMMA SameCopy ==
  ASSUME NEW d \in Chats, NEW f \in Files, CopyAt(d, f),
         phase'[d] = phase[d], left'[d] = left[d], at'[d] = at[d], closing'[d] = closing[d],
         job'[d][f] = job[d][f], rows'[d][f] = rows[d][f], box'[d][f] = box[d][f], tree'[d][f] = tree[d][f],
         f \in copied'[d] => f \in copied[d], f \in slipped[d] => f \in slipped'[d],
         Reached(d, f) => Reached(d, f)'
  PROVE  CopyAt(d, f)'
BY DEF CopyAt, Ours, Untaken

\* A file of which nothing in the sandbox is the Portal's.
LEMMA NoCopy ==
  ASSUME NEW d, NEW f, f \notin copied'[d]
  PROVE  CopyAt(d, f)'
BY DEF CopyAt, Ours

LEMMA TurnOfJob ==
  ASSUME TypeOK, NEW c \in Chats, Orderly(c), InTurn(c), NEW f \in Files, JobStepOf(c, f)
  PROVE  /\ InTurn(c)'
         /\ at[c] # None /\ (Reached(c, f) \/ closing[c])
         /\ closing[c] => job[c][f].step \in {"close", "forget"}
         /\ f \notin Untaken(c) \/ job[c][f].step \in {"close", "forget"}
<1>1. UNCHANGED <<opened, phase, need, left, at, closing>> /\ job[c][f].step # "none"
  BY JobKeepsSync, JobSteps DEF asked
<1>2. at[c] # None
  BY <1>1 DEF Orderly, NoJob
<1>3. closing[c] => job[c][f].step \in {"close", "forget"}
  BY <1>1 DEF InTurn
<1>4. ~closing[c] => f \in Under(at[c]) /\ Reached(c, f)
  BY <1>1, <1>2 DEF InTurn, Orderly, Reached, Under
<1>5. \A g \in Files : g # f => job'[c][g] = job[c][g]
  BY JobKeepsOthers DEF OthersKept
<1>6. closing[c] => job'[c][f].step \in {"none", "close", "forget"}
  BY <1>3, JobSteps
<1>7. InTurn(c)'
  BY <1>1, <1>4, <1>5, <1>6 DEF InTurn
<1> QED BY <1>1, <1>2, <1>3, <1>4, <1>7 DEF Orderly

LEMMA CopyOfJob ==
  ASSUME TypeOK, NEW c \in Chats, Copying(c), NEW f \in Files, JobStepOf(c, f)
  PROVE  InTurn(c)' /\ \A g \in Files : CopyAt(c, g)'
<1>0. /\ Orderly(c) /\ InTurn(c) /\ Sound(c)
      /\ UNCHANGED <<opened, phase, need, left, at, closing>> /\ job[c][f].step # "none" /\ phase[c] = "planned"
  BY JobKeepsSync, JobSteps DEF Copying, Sound, asked
<1>1. InTurn(c)'
  BY <1>0, TurnOfJob
<1>2. ASSUME NEW g \in Files, g # f
      PROVE  CopyAt(c, g)'
  BY <1>0, <1>2, JobKeepsOthers, SameCopy DEF OthersKept, Copying, Reached
<1>3. CopyAt(c, f)'
  <2>0. /\ CopyAt(c, f) /\ SoundAt(c, f) /\ (Reached(c, f)' <=> Reached(c, f)) /\ (f \in Untaken(c)' <=> f \in Untaken(c))
        /\ closing[c] => job[c][f].step \in {"close", "forget"}
        /\ f \notin Untaken(c) \/ job[c][f].step \in {"close", "forget"}
        /\ Reached(c, f) \/ closing[c]
    BY <1>0, TurnOfJob DEF Copying, Sound, Reached, Untaken
  <2>1. CASE ReadFull(c, f)
    BY <1>0, <2>0, <2>1, JobDoes DEF CopyAt, Ours, Moves, RowKept, BoxKept, Sure
  <2>2. CASE Add(c, f) \/ Finish(c, f)
    BY <1>0, <2>0, <2>2, JobDoes DEF CopyAt, SoundAt, Ours, Moves, BoxKept, Sure, Carried
  <2>3. CASE Replace(c, f)
    BY <1>0, <2>0, <2>3, JobDoes DEF CopyAt, Ours, Moves, RowKept, BoxKept, Sure
  <2>4. CASE Trash(c, f)
    BY <1>0, <2>0, <2>4, JobDoes DEF CopyAt, Ours, Moves, BoxKept, Sure
  <2>5. CASE Conflict(c, f)
    BY <1>0, <2>0, <2>5, JobDoes DEF CopyAt, Ours, Moves, RowKept, BoxKept, Sure
  <2>6. CASE Put(c, f)
    BY <1>0, <2>0, <2>6, JobDoes DEF CopyAt, Ours, Moves, RowKept, BoxKept, Sure
  <2>7. CASE Write(c, f)
    BY <1>0, <2>0, <2>7, JobWrites DEF CopyAt, SoundAt, Ours, Moves, RowKept, Sure, Carried
  <2>8. CASE Keep(c, f)
    BY <1>0, <2>0, <2>8, JobDoes DEF CopyAt, SoundAt, Ours, Moves, BoxKept, Sure, Carried
  <2>9. CASE Remove(c, f)
    BY <2>9, JobWrites, NoCopy
  <2>10. CASE CloseFails(c, f)
    <3>1. tree'[c][f] = tree[c][f]
      BY <2>10 DEF CloseFails
    <3> QED BY <1>0, <2>0, <2>10, <3>1, JobWrites DEF CopyAt, Ours, Moves, RowKept, BoxKept
  <2>11. CASE Misses(c, f)
    BY <1>0, <2>0, <2>11, JobWrites DEF CopyAt, Ours, Moves, RowKept, BoxKept, Sure
  <2>12. CASE Fails(c, f)
    <3>1. tree'[c][f] = tree[c][f]
      BY <2>12 DEF Fails, GivesUp
    <3> QED BY <1>0, <2>0, <2>12, <3>1, JobWrites DEF CopyAt, Ours, Moves, RowKept, BoxKept
  <2>13. CASE Forget(c, f)
    <3>1. tree'[c][f] = tree[c][f]
      BY <2>13 DEF Forget, Working, Unmoved
    <3> QED BY <1>0, <2>0, <2>13, <3>1, JobDoes DEF CopyAt, Ours, Moves, BoxKept, Sure
  <2> QED BY <2>1, <2>2, <2>3, <2>4, <2>5, <2>6, <2>7, <2>8, <2>9, <2>10, <2>11, <2>12, <2>13 DEF JobStepOf, Job
<1> QED BY <1>1, <1>2, <1>3

LEMMA CopyOfTake ==
  ASSUME TypeOK, NEW c \in Chats, Copying(c), NEW n \in Nodes, Take(c, n)
  PROVE  InTurn(c)' /\ \A f \in Files : CopyAt(c, f)'
<1>0. /\ phase[c] = "planned" /\ n \in left[c] /\ at'[c] = n /\ n # None /\ closing'[c] = Closes(c, n)
      /\ \A f \in Files : job[c][f] = NoJob
      /\ UNCHANGED <<opened, phase, need, rows, box, tree, copied, slipped>>
      /\ Untaken(c)' \subseteq Untaken(c) /\ \A f \in Under(n) : f \in Untaken(c)
  BY TakeDoes DEF Copying, Sound, Take
<1>1. ASSUME NEW f \in Files
      PROVE  /\ Closes(c, n) => job'[c][f].step \in {"none", "close"}
             /\ Closes(c, n) /\ f \in Under(n) /\ rows[c][f] # None => job'[c][f].step = "close"
             /\ ~Closes(c, n) /\ job'[c][f].step # "none" => f \in Under(n)
             /\ job'[c][f].step \in {"trash", "forget"} => f \in Under(n) /\ tree[c][f] = None
             /\ job'[c][f].step # "keep"
  <2>1. f \in Under(n) => f \in Closed(n)
    BY DEF Closed
  <2> QED BY <2>1, TakeJobs, PlannedSteps DEF NoJob
<1>2. InTurn(c)'
  <2>1. ~Closes(c, n) => need[c][n] # "none"
    BY DEF Closes
  <2> QED BY <1>0, <1>1, <2>1 DEF InTurn
<1>3. ASSUME NEW f \in Files
      PROVE  CopyAt(c, f)'
  <2>1. CopyAt(c, f)
    BY DEF Copying
  <2> QED BY <1>0, <1>1, <2>1 DEF CopyAt, Ours, Reached, NoJob
<1> QED BY <1>2, <1>3

LEMMA CopyOfTurn ==
  ASSUME TypeOK, NEW c \in Chats, Copying(c),
         Begin(c) \/ Listed(c) \/ Arrived(c) \/ Taken(c) \/ End(c) \/ ListingFails(c) \/ Stops
  PROVE  InTurn(c)' /\ \A f \in Files : CopyAt(c, f)'
<1>0. /\ SyncTypes /\ BoxTypes /\ AskTypes /\ InTurn(c)
      /\ phase[c] # "planned" => at[c] = None /\ \A f \in Files : job[c][f] = NoJob
      /\ at[c] = None => \A f \in Files : job[c][f] = NoJob
  BY TypesJoin DEF SyncTypes, Copying, Sound, Orderly
<1>1. CASE Begin(c)
  <2>1. /\ phase'[c] \in {"idle", "listing"} /\ UNCHANGED <<opened, at, closing, rows, box, job, copied, slipped>>
        /\ phase[c] = "idle"
    BY <1>0, <1>1 DEF Begin, SyncTypes, asked
  <2> QED BY <1>0, <2>1 DEF CopyAt, InTurn, Ours, Reached, Copying, NoJob
<1>2. CASE Listed(c)
  <2>1. /\ tree'[c] = box[c] /\ UNCHANGED <<opened, need, left, at, closing, rows, box, job, copied, slipped>>
        /\ phase[c] = "listing"
    BY <1>0, <1>2 DEF Listed, SyncTypes, notes, asked
  <2> QED BY <1>0, <2>1 DEF CopyAt, InTurn, Ours, Reached, Copying, NoJob
<1>3. CASE Arrived(c)
  <2>1. phase[c] = "listed" /\ UNCHANGED <<opened, need, left, at, closing, rows, box, job, tree, copied, slipped>>
    BY <1>0, <1>3 DEF Arrived, notes, asked
  <2> QED BY <1>0, <2>1 DEF CopyAt, InTurn, Ours, Reached, Copying, Untaken
<1>4. CASE Taken(c)
  <2>1. /\ UNCHANGED <<need, rows, box, job, tree, phase, copied, slipped>> /\ at[c] # None /\ \A f \in Files : job[c][f] = NoJob
        /\ at'[c] = None /\ left'[c] = left[c] \ {at[c]} /\ ~closing'[c]
        /\ opened'[c] = opened[c] \/ (closing[c] /\ opened'[c] = opened[c] \ {at[c]})
    BY <1>0, <1>4 DEF Taken, notes, SyncTypes, AskTypes
  <2>2. InTurn(c)'
    BY <2>1 DEF InTurn, NoJob
  <2>3. ASSUME NEW f \in Files
        PROVE  CopyAt(c, f)'
    <3>1. CopyAt(c, f) /\ (f \in Untaken(c)' => f \in Untaken(c))
      BY <2>1 DEF Copying, Untaken
    <3>2. f \in Ours(c) => Reached(c, f)'
      BY <2>1, <3>1 DEF CopyAt, Reached, NoJob
    <3> QED BY <2>1, <3>1, <3>2 DEF CopyAt, Ours, NoJob
  <2> QED BY <2>2, <2>3
<1>5. CASE End(c) \/ ListingFails(c)
  <2>1. Ended(c) /\ UNCHANGED <<opened, rows, box, copied, slipped>> /\ \A f \in Files : job[c][f] = NoJob
    BY <1>0, <1>5 DEF End, ListingFails, Copying, Sound, Orderly, asked
  <2>2. phase'[c] = "idle" /\ at'[c] = None /\ ~closing'[c] /\ \A f \in Files : job'[c][f] = NoJob
    BY <1>0, <2>1 DEF Ended, SyncTypes
  <2> QED BY <1>0, <2>1, <2>2 DEF CopyAt, InTurn, Ours, Reached, Copying, NoJob
<1>6. CASE Stops
  <2>1. /\ UNCHANGED <<opened, rows, box, copied>> /\ phase'[c] = "idle" /\ at'[c] = None /\ ~closing'[c]
        /\ \A f \in Files : job'[c][f] = NoJob
    BY <1>6 DEF Stops, ForAll, asked
  <2>2. \A f \in Files : f \in slipped'[c] <=> f \in slipped[c] \/ job[c][f].step \in {"keep", "forget"}
    BY <1>6 DEF Stops
  <2> QED BY <1>0, <2>1, <2>2 DEF CopyAt, InTurn, Ours, Reached, Copying, NoJob
<1> QED BY <1>1, <1>2, <1>3, <1>4, <1>5, <1>6

\* What is open stays reached, whatever is opened beside it or over it.
LEMMA ReachKept ==
  ASSUME TypeOK, NEW d \in Chats,
         \/ People \/ UNCHANGED vars
         \/ \E c \in Chats : Agent(c) \/ SandboxStartedOver(c)
  PROVE  \A f \in Files : Reached(d, f) => Reached(d, f)'
<1>0. opened \in [Chats -> SUBSET Nodes] /\ pending \subseteq [chat : Chats, node : Nodes, need : Needs]
  BY TypesJoin DEF AskTypes
<1>1. ASSUME NEW c \in Chats, NEW n \in Nodes, open(c, n), NEW f \in Files, Reached(d, f)
      PROVE  Reached(d, f)'
  <2>1. CASE opened'[d] = opened[d]
    BY <1>1, <2>1 DEF Reached
  <2>2. CASE opened'[d] # opened[d]
    <3>1. opened'[d] = (opened[d] \ Under(n)) \cup {n}
      BY <1>0, <1>1, <2>2 DEF open
    <3>2. PICK m \in opened[d] : f \in Under(m)
      BY <1>1 DEF Reached
    <3>3. m \in Under(n) => f \in Under(n)
      BY <1>0, <3>2, AccessAssumption DEF Under, Nodes
    <3> QED BY <3>1, <3>2, <3>3 DEF Reached
  <2> QED BY <2>1, <2>2
<1>2. CASE UNCHANGED opened
  BY <1>2 DEF Reached
<1>3. ASSUME NEW r \in pending, NEW n \in Nodes, NEW scope \in {r.chat, Always}, allow(r, scope, n)
      PROVE  \E c \in Chats, m \in Nodes : open(c, m)
  BY <1>0, <1>3 DEF allow
<1>4. CASE People
  <2>1. \/ \E r \in pending, n \in Nodes : \E scope \in {r.chat, Always} : allow(r, scope, n)
        \/ UNCHANGED opened
    BY <1>4 DEF People, deny, setSpaceAuto, revokeGrant, TakesEffect, setMember, asked,
                PersonWrites, PersonTrashes, PersonRestores, DriveChanges
  <2> QED BY <1>1, <1>2, <1>3, <2>1
<1>5. CASE \E c \in Chats : Agent(c)
  <2>1. (\E c \in Chats, n \in Nodes : open(c, n)) \/ UNCHANGED opened
    BY <1>5 DEF Agent, onRequest, AskSync, AgentWrites, AgentRemoves, asked
  <2> QED BY <1>1, <1>2, <2>1
<1> QED BY <1>2, <1>4, <1>5 DEF SandboxStartedOver, vars, asked

LEMMA CopyStep ==
  ASSUME TypeOK, NEW d \in Chats, Copying(d), [Next]_vars
  PROVE  Copying(d)'
<1>0. Sound(d)'
  BY SoundStep DEF Copying
<1>1. ASSUME \/ People \/ UNCHANGED vars
             \/ \E c \in Chats : AskSync(c) \/ \E n \in Nodes, want \in Needs : onRequest(c, n, want)
      PROVE  InTurn(d)' /\ \A f \in Files : CopyAt(d, f)'
  <2>1. UNCHANGED <<syncVars, rows, box, removed, copied, slipped>>
    BY <1>1, AskingOnly
  <2>2. \A f \in Files : Reached(d, f) => Reached(d, f)'
    <3>1. People \/ UNCHANGED vars \/ \E c \in Chats : Agent(c)
      BY <1>1 DEF Agent
    <3> QED BY <3>1, ReachKept
  <2>3. InTurn(d)'
    BY <2>1 DEF InTurn, Copying, syncVars
  <2> QED BY <2>1, <2>2, <2>3, SameCopy DEF Copying, syncVars
<1>2. ASSUME NEW c \in Chats, NEW f \in Files, AgentWrites(c, f) \/ AgentRemoves(c, f)
      PROVE  InTurn(d)' /\ \A g \in Files : CopyAt(d, g)'
  <2>0. UNCHANGED <<asked, rows, syncVars, slipped>> /\ f \notin copied'[c]
    BY <1>2, AgentDoes
  <2>1. InTurn(d)'
    BY <2>0 DEF InTurn, Copying, syncVars
  <2>2. ASSUME NEW g \in Files
        PROVE  CopyAt(d, g)'
    <3>1. CASE c = d /\ f = g
      BY <2>0, <3>1, NoCopy
    <3>2. CASE c # d \/ f # g
      <4>1. box'[d][g] = box[d][g] /\ (g \in copied'[d] <=> g \in copied[d])
        BY <1>2, <3>2, AgentDoes
      <4> QED BY <2>0, <4>1, SameCopy DEF Copying, Reached, syncVars, asked
    <3> QED BY <3>1, <3>2
  <2> QED BY <2>1, <2>2
<1>3. ASSUME NEW c \in Chats, SandboxStartedOver(c)
      PROVE  InTurn(d)' /\ \A f \in Files : CopyAt(d, f)'
  <2>0. SyncTypes /\ BoxTypes /\ UNCHANGED <<asked, syncVars>>
    BY <1>3, TypesJoin DEF SandboxStartedOver
  <2>1. InTurn(d)'
    BY <2>0 DEF InTurn, Copying, syncVars
  <2>2. CASE c = d
    <3>1. copied'[d] = {}
      BY <1>3, <2>0, <2>2 DEF SandboxStartedOver, BoxTypes
    <3> QED BY <2>1, <3>1, NoCopy
  <2>3. CASE c # d
    <3>1. rows'[d] = rows[d] /\ box'[d] = box[d] /\ copied'[d] = copied[d] /\ slipped'[d] = slipped[d]
      BY <1>3, <2>0, <2>3 DEF SandboxStartedOver, BoxTypes
    <3> QED BY <2>0, <2>1, <3>1, SameCopy DEF Copying, Reached, syncVars, asked
  <2> QED BY <2>2, <2>3
<1>4. ASSUME NEW c \in Chats, Sync(c), c # d
      PROVE  InTurn(d)' /\ \A f \in Files : CopyAt(d, f)'
  <2>1. InTurn(d)'
    BY <1>4, OthersSync DEF InTurn, Copying
  <2> QED BY <1>4, <2>1, OthersSync, SameCopy DEF Copying, Reached
<1>5. CASE Stops \/ Sync(d)
  <2>1. CASE \E f \in Files : JobStepOf(d, f)
    BY <1>0, <2>1, CopyOfJob DEF Copying
  <2>2. CASE Begin(d) \/ Listed(d) \/ Arrived(d) \/ Taken(d) \/ End(d) \/ ListingFails(d) \/ Stops
    BY <1>0, <2>2, CopyOfTurn DEF Copying
  <2>3. CASE \E n \in Nodes : Take(d, n)
    BY <1>0, <2>3, CopyOfTake DEF Copying
  <2> QED BY <1>5, <2>1, <2>2, <2>3 DEF Sync, Goings, JobStepOf
<1>6. CASE \E c \in Chats : Agent(c)
  BY <1>0, <1>1, <1>2, <1>6 DEF Copying, Agent
<1> QED BY <1>0, <1>1, <1>3, <1>4, <1>5, <1>6 DEF Next, Copying

LEMMA CopyInit ==
  ASSUME Init
  PROVE  \A d \in Chats : Copying(d)
BY SoundInit DEF Init, ForAll, Copying, InTurn, CopyAt, Ours, NoJob

-----------------------------------------------------------------------------
(***************************************************************************)
(* What stays allowed.  Between syncs nothing the Portal put in a sandbox  *)
(* is unallowed unless a sync is asked for, or due; and the sync under way *)
(* either has such a file's node still to come, or is about to remove it.  *)
(***************************************************************************)

Given(d, n) == \E g \in grants : g.scope \in {d, Always} /\ g.node \in chainOf(n)

\* What a sync read of the grants holds still, or another sync is waiting.
Granted(d) == waiting[d] = 0 => \A n \in left[d] : need[d][n] # "none" => Given(d, n)

Leaving(d, f) ==
  \/ f \in Untaken(d) \/ job[d][f].step \in {"delete", "close"}
  \/ job[d][f].step = "conflict" /\ job[d][f].bytes = None

PermitAt(d, f) ==
  waiting[d] = 0 /\ ~due[d] =>
    /\ f \in Ours(d) => Allowed(d, f) \/ (phase[d] # "idle" /\ Leaving(d, f))
    /\ job[d][f].step = "write" => Allowed(d, f)

Permitted(d) == Granted(d) /\ \A f \in Files : PermitAt(d, f)

LEMMA SamePermit ==
  ASSUME NEW d \in Chats, NEW f \in Files, PermitAt(d, f),
         phase'[d] = phase[d], left'[d] = left[d], at'[d] = at[d], job'[d][f] = job[d][f],
         f \in copied'[d] => f \in copied[d], f \in slipped[d] => f \in slipped'[d],
         waiting'[d] = 0 => waiting[d] = 0, due[d] => due'[d],
         waiting'[d] = 0 /\ ~due'[d] /\ Allowed(d, f) => Allowed(d, f)'
  PROVE  PermitAt(d, f)'
BY DEF PermitAt, Ours, Leaving, Untaken

LEMMA AddedGrant ==
  ASSUME NEW scope, NEW n \in Nodes, NEW want, NEW d, NEW m, Given(d, m)
  PROVE  \E g \in addGrant(scope, n, want) : g.scope \in {d, Always} /\ g.node \in chainOf(m)
<1> DEFINE same == {g \in grants : g.scope = scope /\ g.node = n}
           new == [scope |-> scope, node |-> n, need |-> want]
<1>1. PICK g \in grants : g.scope \in {d, Always} /\ g.node \in chainOf(m)
  BY DEF Given
<1>2. CASE g \in addGrant(scope, n, want)
  BY <1>1, <1>2
<1>3. CASE g \notin addGrant(scope, n, want)
  <2>1. g \in same /\ addGrant(scope, n, want) = (grants \ same) \cup {new}
    BY <1>1, <1>3 DEF addGrant
  <2>2. new \in addGrant(scope, n, want) /\ new.scope = g.scope /\ new.node = g.node
    BY <2>1
  <2> QED BY <1>1, <2>2
<1> QED BY <1>2, <1>3

LEMMA AskedWaits ==
  ASSUME AskTypes, NEW chats, Asked(chats), NEW d \in Chats
  PROVE  waiting[d] \in Nat /\ waiting'[d] \in Nat /\ (waiting'[d] = 0 => waiting[d] = 0) /\ (d \in chats => waiting'[d] > 0)
<1>1. MaxWaiting \in Nat /\ waiting[d] \in 0..MaxWaiting
  BY AccessAssumption DEF AskTypes
<1>2. waiting'[d] = IF d \in chats THEN waiting[d] + 1 ELSE waiting[d]
  BY DEF Asked
<1> QED BY <1>1, <1>2

\* What is taken back, a sync is asked for, of every chat that has a file open.
LEMMA GivenKept ==
  ASSUME TypeOK, NEW d \in Chats,
         \/ People \/ UNCHANGED vars
         \/ \E c \in Chats : AskSync(c) \/ \E n \in Nodes, want \in Needs : onRequest(c, n, want)
  PROVE  /\ waiting'[d] = 0 => waiting[d] = 0
         /\ waiting'[d] = 0 => opened[d] = {} \/ \A n \in Nodes : Given(d, n) => Given(d, n)'
<1>0. AskTypes /\ \A c \in Chats : waiting[c] \in Nat
  BY TypesJoin, AccessAssumption DEF AskTypes
<1>1. ASSUME UNCHANGED <<grants, waiting>> \/ (UNCHANGED grants /\ \E chats : Asked(chats))
      PROVE  /\ waiting'[d] = 0 => waiting[d] = 0
             /\ \A n \in Nodes : Given(d, n) => Given(d, n)'
  BY <1>0, <1>1, AskedWaits DEF Given
<1>2. ASSUME NEW scope, NEW n \in Nodes, NEW want, grants' = addGrant(scope, n, want),
             UNCHANGED waiting \/ \E chats : Asked(chats)
      PROVE  /\ waiting'[d] = 0 => waiting[d] = 0
             /\ \A m \in Nodes : Given(d, m) => Given(d, m)'
  BY <1>0, <1>2, AskedWaits, AddedGrant DEF Given
<1>3. ASSUME NEW given, TakesEffect(given)
      PROVE  /\ waiting'[d] = 0 => waiting[d] = 0
             /\ waiting'[d] = 0 => opened[d] = {}
  BY <1>0, <1>3, AskedWaits DEF TakesEffect, closeRevoked
<1>4. CASE People
  <2>1. ASSUME NEW r \in pending, deny(r) PROVE UNCHANGED <<grants, waiting>>
    BY <2>1 DEF deny
  <2>2. ASSUME NEW r \in pending, NEW n \in Nodes, NEW scope \in {r.chat, Always}, allow(r, scope, n)
        PROVE  (\E want : grants' = addGrant(scope, n, want)) /\ \E chats : Asked(chats)
    BY <2>2 DEF allow, open
  <2>3. ASSUME NEW want, setSpaceAuto(want) PROVE \E given : TakesEffect(given)
    BY <2>3 DEF setSpaceAuto
  <2>4. ASSUME NEW g \in grants, revokeGrant(g) PROVE \E given : TakesEffect(given)
    BY <2>4 DEF revokeGrant
  <2>5. ASSUME \/ \E r \in {"none", "viewer", "editor"} : setMember(r)
               \/ \E f \in Files : PersonWrites(f) \/ PersonTrashes(f) \/ PersonRestores(f)
        PROVE  UNCHANGED <<grants, waiting>>
    BY <2>5 DEF setMember, PersonWrites, PersonTrashes, PersonRestores, DriveChanges, asked
  <2>6. CASE \E r \in pending : deny(r)
    BY <1>1, <2>1, <2>6
  <2>7. CASE \E r \in pending : \E n \in Nodes, scope \in {r.chat, Always} : allow(r, scope, n)
    BY <1>2, <2>2, <2>7
  <2>8. CASE (\E want \in {"none", "read", "change"} : setSpaceAuto(want)) \/ \E g \in grants : revokeGrant(g)
    BY <1>3, <2>3, <2>4, <2>8
  <2> QED BY <1>1, <1>4, <2>5, <2>6, <2>7, <2>8 DEF People
<1>5. CASE UNCHANGED vars
  BY <1>1, <1>5 DEF vars, asked
<1>6. ASSUME NEW c \in Chats, AskSync(c)
      PROVE  UNCHANGED grants /\ \E chats : Asked(chats)
  BY <1>6 DEF AskSync, asked
<1>7. ASSUME NEW c \in Chats, NEW n \in Nodes, NEW want \in Needs, onRequest(c, n, want)
      PROVE  /\ waiting'[d] = 0 => waiting[d] = 0
             /\ \A m \in Nodes : Given(d, m) => Given(d, m)'
  <2>1. UNCHANGED waiting \/ \E chats : Asked(chats)
    BY <1>7 DEF onRequest, open
  <2>2. Root \in Nodes /\ (UNCHANGED grants \/ grants' = addGrant(Always, Root, "change"))
    BY <1>7 DEF onRequest, GivenFor, Nodes
  <2> QED BY <1>1, <1>2, <2>1, <2>2
<1> QED BY <1>1, <1>4, <1>5, <1>6, <1>7

\* What goes from the person, and no sync was asked for, is due.
LEMMA ThereKept ==
  ASSUME TypeOK, NEW d \in Chats,
         \/ People \/ UNCHANGED vars
         \/ \E c \in Chats : AskSync(c) \/ \E n \in Nodes, want \in Needs : onRequest(c, n, want)
  PROVE  /\ due[d] => due'[d]
         /\ ~due'[d] => \A f \in Files : There(f) => There(f)'
<1>0. drive \in [Files -> Contents] /\ (Edit => edits' # None)
  BY TypesJoin, Counted DEF DriveTypes
<1>1. ASSUME UNCHANGED <<role, drive, trashed, due>>
      PROVE  (due[d] => due'[d]) /\ \A f \in Files : There(f) => There(f)'
  BY <1>1 DEF There, Live
<1>2. ASSUME NEW r, setMember(r) PROVE due'[d]
  BY <1>2 DEF setMember, ForAll
<1>3. ASSUME NEW f \in Files, PersonTrashes(f) PROVE due'[d]
  BY <1>3 DEF PersonTrashes, ForAll
<1>4. ASSUME NEW f \in Files, PersonWrites(f) \/ PersonRestores(f)
      PROVE  (due[d] => due'[d]) /\ \A g \in Files : There(g) => There(g)'
  BY <1>0, <1>4 DEF PersonWrites, PersonRestores, DriveChanges, There, Live
<1>5. CASE People
  <2>1. \/ UNCHANGED <<role, drive, trashed, due>>
        \/ \E r \in {"none", "viewer", "editor"} : setMember(r)
        \/ \E f \in Files : PersonWrites(f) \/ PersonTrashes(f) \/ PersonRestores(f)
    BY <1>5 DEF People, deny, allow, setSpaceAuto, revokeGrant, Answers, TakesEffect, Quiet, driveVars
  <2> QED BY <1>1, <1>2, <1>3, <1>4, <2>1
<1>6. CASE ~People
  BY <1>1, <1>6 DEF onRequest, Quiet, AskSync, vars, driveVars, notes
<1> QED BY <1>5, <1>6

\* What a sync makes gone from Drive, it trashed: a sync of the other chats is due then.
LEMMA LiveKept ==
  ASSUME TypeOK, NEW c \in Chats, NEW f \in Files, JobStepOf(c, f), SoundAt(c, f)
  PROVE  /\ UNCHANGED <<role, grants>>
         /\ \A g \in Files : There(g) => There(g)' \/ (g = f /\ job[c][f].step = "trash")
         /\ \A b \in Chats : due[b] => due'[b]
         /\ \A b \in Chats, g \in Files : b # c /\ There(g) /\ ~There(g)' => due'[b]
<1>0. drive \in [Files -> Contents] /\ due \in [Chats -> BOOLEAN]
  BY TypesJoin DEF DriveTypes, NoteTypes
<1>1. UNCHANGED <<role, grants>>
  BY JobKeepsSync DEF asked
<1>2. CASE Trash(c, f)
  <2>1. drive' = drive /\ trashed' \subseteq trashed \cup {f} /\ job[c][f].step = "trash"
        /\ due' = [b \in Chats |-> due[b] \/ (b # c /\ trashed' # trashed)]
    BY <1>2 DEF Trash, Step
  <2> QED BY <1>1, <2>1 DEF There, Live
<1>3. CASE ~Trash(c, f)
  <2>1. due' = due \/ due' = [due EXCEPT ![c] = TRUE]
    BY <1>3 DEF JobStepOf, Job, ReadFull, Add, Replace, Finish, Conflict, Put, Write, Keep, Remove, Forget,
                Misses, CloseFails, Fails, GivesUp, Working
  <2>2. \/ UNCHANGED <<drive, trashed>>
        \/ trashed' \subseteq trashed /\ (drive' = drive \/ drive' = [drive EXCEPT ![f] = job[c][f].bytes])
           /\ job[c][f].step \in {"add", "finish"}
    BY <1>3 DEF JobStepOf, Job, ReadFull, Add, Replace, Finish, Conflict, Put, Write, Keep, Remove, Forget,
                Misses, CloseFails, Fails, GivesUp, driveVars, Step
  <2>3. \A g \in Files : There(g) => There(g)'
    BY <1>0, <1>1, <2>2 DEF There, Live, SoundAt, Carried
  <2>4. \A b \in Chats : due[b] => due'[b]
    BY <1>0, <2>1
  <2> QED BY <1>1, <2>3, <2>4
<1> QED BY <1>2, <1>3

\* What a grant gives of a node, it gives of all that is under it.
LEMMA GivenBelow ==
  ASSUME NEW d \in Chats, NEW n \in Nodes, Given(d, n), NEW f \in Under(n)
  PROVE  Given(d, f)
BY DEF Given, chainOf, Under, Nodes

LEMMA PermitOfJob ==
  ASSUME TypeOK, NEW c \in Chats, Copying(c), Permitted(c), NEW f \in Files, JobStepOf(c, f)
  PROVE  Permitted(c)'
<1>0. /\ Sound(c) /\ Orderly(c) /\ InTurn(c) /\ SoundAt(c, f) /\ CopyAt(c, f) /\ PermitAt(c, f)
      /\ UNCHANGED <<role, grants, waiting, phase, need, left, at, closing>> /\ phase[c] = "planned"
      /\ job[c][f].step # "none" /\ (f \in Untaken(c)' <=> f \in Untaken(c))
  BY JobKeepsSync, JobSteps DEF Copying, Sound, Permitted, asked, Untaken
<1>1. Granted(c)'
  BY <1>0 DEF Permitted, Granted, Given
<1>2. \A g \in Files : Given(c, g)' <=> Given(c, g)
  BY <1>0 DEF Given
<1>3. due[c] => due'[c]
  BY <1>0, LiveKept
<1>4. ASSUME NEW g \in Files, g # f
      PROVE  PermitAt(c, g)'
  <2>1. Allowed(c, g) => Allowed(c, g)'
    BY <1>0, <1>2, <1>4, LiveKept DEF Allowed, Given
  <2> QED BY <1>0, <1>3, <1>4, <2>1, JobKeepsOthers, SamePermit DEF OthersKept, Permitted
<1>5. PermitAt(c, f)'
  <2>0. job[c][f].step # "trash" /\ Allowed(c, f) => Allowed(c, f)'
    BY <1>0, <1>2, LiveKept DEF Allowed, Given
  <2>1. CASE ReadFull(c, f)
    BY <1>0, <1>3, <2>0, <2>1, JobDoes DEF PermitAt, Ours, Leaving, Moves, BoxKept, Sure
  <2>2. CASE Add(c, f) \/ Finish(c, f)
    BY <1>0, <1>3, <2>0, <2>2, JobDoes DEF PermitAt, Ours, Leaving, Moves, BoxKept, Sure
  <2>3. CASE Replace(c, f)
    BY <1>0, <1>3, <2>0, <2>3, JobDoes DEF PermitAt, Ours, Leaving, Moves, BoxKept, Sure
  <2>4. CASE Trash(c, f)
    BY <1>0, <1>3, <2>4, JobDoes DEF PermitAt, CopyAt, Ours, Leaving, Moves, BoxKept, Sure
  <2>5. CASE Conflict(c, f)
    BY <1>0, <1>3, <2>0, <2>5, JobDoes DEF PermitAt, Ours, Leaving, Moves, BoxKept, Sure
  <2>6. CASE Put(c, f)
    <3>1. job[c][f].step = "put" /\ There(f)
      BY <2>6, JobDoes
    <3>2. ~closing[c] /\ at[c] \in left[c] /\ f \in Under(at[c]) /\ need[c][at[c]] # "none"
      BY <1>0, <3>1 DEF InTurn, Orderly, NoJob
    <3>3. at[c] \in Nodes
      BY <3>2, TypesJoin DEF SyncTypes
    <3>4. waiting[c] = 0 => Allowed(c, f)
      BY <1>0, <3>1, <3>2, <3>3, GivenBelow DEF Permitted, Granted, Allowed, Given
    <3> QED BY <1>0, <1>3, <2>0, <2>6, <3>4, JobDoes DEF PermitAt, Ours, Leaving, Moves, BoxKept, Sure
  <2>7. CASE Write(c, f)
    BY <1>0, <1>3, <2>0, <2>7, JobWrites DEF PermitAt, Ours, Leaving, Moves, Sure
  <2>8. CASE Keep(c, f)
    BY <1>0, <1>3, <2>0, <2>8, JobDoes DEF PermitAt, Ours, Leaving, Moves, BoxKept, Sure
  <2>9. CASE Remove(c, f)
    BY <2>9, JobWrites DEF PermitAt, Ours, Moves
  <2>10. CASE CloseFails(c, f)
    BY <2>10, JobWrites DEF PermitAt, Ours, Moves
  <2>11. CASE Misses(c, f) \/ Fails(c, f)
    BY <2>11, JobWrites DEF PermitAt
  <2>12. CASE Forget(c, f)
    BY <1>0, <2>12, JobDoes DEF PermitAt, CopyAt, Ours, Moves, BoxKept, Sure
  <2> QED BY <2>1, <2>2, <2>3, <2>4, <2>5, <2>6, <2>7, <2>8, <2>9, <2>10, <2>11, <2>12 DEF JobStepOf, Job
<1> QED BY <1>1, <1>4, <1>5 DEF Permitted

LEMMA PermitOfTake ==
  ASSUME TypeOK, NEW c \in Chats, Copying(c), Permitted(c), NEW n \in Nodes, Take(c, n)
  PROVE  Permitted(c)'
<1>0. /\ phase[c] = "planned" /\ n \in left[c] /\ \A f \in Files : job[c][f] = NoJob
      /\ UNCHANGED <<role, grants, drive, trashed, waiting, due, phase, need, left, rows, box, tree, copied, slipped>>
      /\ Untaken(c)' = {f \in Files : \E m \in left[c] \ {n} : f \in Under(m)}
      /\ \A f \in Under(n) : f \in Untaken(c)
  BY TakeDoes DEF Copying, Sound, Take, asked, driveVars
<1>1. Granted(c)'
  BY <1>0 DEF Permitted, Granted, Given
<1>2. ASSUME NEW f \in Files
      PROVE  PermitAt(c, f)'
  <2>0. /\ CopyAt(c, f) /\ PermitAt(c, f) /\ SyncTypes
        /\ (Allowed(c, f)' <=> Allowed(c, f)) /\ (f \in Ours(c)' <=> f \in Ours(c))
    BY <1>0, TypesJoin DEF Copying, Permitted, Allowed, There, Live, Ours
  <2>1. job'[c][f].step # "write"
    BY TakeJobs, PlannedSteps DEF NoJob
  <2>2. CASE f \notin Under(n)
    <3>1. f \in Untaken(c) => f \in Untaken(c)'
      <4>1. Untaken(c) = {g \in Files : \E m \in left[c] \ {None} : g \in Under(m)}
        BY TakeDoes DEF Copying, Sound, Untaken
      <4> QED BY <1>0, <2>2, <4>1
    <3> QED BY <1>0, <2>0, <2>1, <3>1 DEF PermitAt, Leaving, NoJob
  <2>3. CASE f \in Under(n)
    <3>1. f \in Ours(c) => rows[c][f] # None /\ tree[c][f] # None
      BY <1>0, <2>0, <2>3 DEF CopyAt, Ours, NoJob
    <3>2. CASE Closes(c, n)
      <4>1. f \in Ours(c) => job'[c][f].step = "close"
        BY <2>3, <3>1, <3>2, TakeJobs DEF Closed, NoJob
      <4> QED BY <1>0, <2>0, <2>1, <4>1 DEF PermitAt, Leaving
    <3>3. CASE ~Closes(c, n)
      <4>1. There(n) /\ need[c][n] # "none"
        BY <3>3 DEF Closes
      <4>2. waiting[c] = 0 => Given(c, f)
        BY <1>0, <2>3, <4>1, GivenBelow DEF Permitted, Granted
      <4>3. CASE Live(f)
        BY <1>0, <2>0, <2>1, <4>1, <4>2, <4>3 DEF PermitAt, Allowed, Given, There
      <4>4. CASE ~Live(f)
        <5> DEFINE want == IF need[c][n] = "change" /\ ceiling = "change" THEN "change" ELSE "read"
        <5>1. job'[c][f] = Planned(c, n, want, f)
          BY <2>3, <3>3, TakeJobs
        <5>2. f \in Ours(c) => planSync(rows[c][f], tree[c][f], None) \in {"delete", "conflict"}
          BY <3>1 DEF planSync
        <5>3. want \in {"read", "change"}
          OBVIOUS
        <5> HIDE DEF want
        <5>4. f \in Ours(c) => Planned(c, n, want, f).step = "delete"
                               \/ (Planned(c, n, want, f).step = "conflict" /\ Planned(c, n, want, f).bytes = None)
          BY <4>4, <5>2, <5>3 DEF Planned, readOnly
        <5> QED BY <1>0, <2>0, <2>1, <5>1, <5>4 DEF PermitAt, Leaving
      <4> QED BY <4>3, <4>4
    <3> QED BY <3>2, <3>3
  <2> QED BY <2>2, <2>3
<1> QED BY <1>1, <1>2 DEF Permitted

LEMMA PermitOfTurn ==
  ASSUME TypeOK, NEW c \in Chats, Copying(c), Permitted(c),
         Begin(c) \/ Listed(c) \/ Arrived(c) \/ Taken(c) \/ End(c) \/ ListingFails(c) \/ Stops
  PROVE  Permitted(c)'
<1>0. /\ SyncTypes /\ BoxTypes /\ AskTypes /\ NoteTypes /\ Orderly(c)
      /\ phase[c] # "planned" => at[c] = None /\ \A f \in Files : job[c][f] = NoJob
      /\ at[c] = None => \A f \in Files : job[c][f] = NoJob
  BY TypesJoin DEF SyncTypes, Copying, Sound, Orderly
<1>1. ASSUME UNCHANGED <<role, grants, drive, trashed>>, NEW f \in Files
      PROVE  (Allowed(c, f)' <=> Allowed(c, f)) /\ \A n : Given(c, n)' <=> Given(c, n)
  BY <1>1 DEF Allowed, There, Live, Given
<1>2. CASE Begin(c)
  <2>1. /\ UNCHANGED <<role, grants, drive, trashed, opened, copied, slipped>> /\ job' = job /\ at' = at
        /\ at[c] = None /\ \A f \in Files : job[c][f] = NoJob
    BY <1>0, <1>2 DEF Begin, driveVars, asked
  <2>2. CASE opened[c] = {}
    <3>1. left'[c] = {} /\ \A f \in Files : f \notin Ours(c)
      BY <1>0, <1>2, <2>2 DEF Begin, Orderly, Copying, CopyAt, Reached
    <3> QED BY <2>1, <3>1 DEF Permitted, Granted, PermitAt, Ours, NoJob
  <2>3. CASE opened[c] # {}
    <3>1. /\ left'[c] = opened[c] /\ phase'[c] = "listing"
          /\ need'[c] = [n \in Nodes |-> IF n \in opened[c] THEN needOn(c, n) ELSE "none"]
      BY <1>0, <1>2, <2>3 DEF Begin, SyncTypes
    <3>2. \A n \in Nodes : needOn(c, n) # "none" => Given(c, n)
      BY DEF needOn, coveringGrant, Given
    <3>3. \A n \in Nodes : Given(c, n)' <=> Given(c, n)
      BY <2>1 DEF Given
    <3>4. Granted(c)'
      BY <1>0, <3>1, <3>2, <3>3 DEF Granted, AskTypes
    <3>5. \A f \in Files : f \in Ours(c) => f \in Untaken(c)'
      <4>1. Untaken(c)' = {f \in Files : \E n \in opened[c] \ {None} : f \in Under(n)}
        BY <2>1, <3>1 DEF Untaken
      <4>2. None \notin opened[c]
        BY <1>0, AccessAssumption DEF AskTypes
      <4> QED BY <4>1, <4>2 DEF Copying, CopyAt, Reached
    <3> QED BY <2>1, <3>1, <3>4, <3>5 DEF Permitted, PermitAt, Ours, Leaving, NoJob
  <2> QED BY <2>2, <2>3
<1>3. CASE Listed(c) \/ Arrived(c)
  <2>1. /\ UNCHANGED <<role, grants, drive, trashed, need, left, at, job, waiting, due, copied, slipped>>
        /\ phase[c] # "idle" /\ phase'[c] # "idle"
    BY <1>0, <1>3 DEF Listed, Arrived, SyncTypes, notes, asked, driveVars
  <2>2. Granted(c)'
    BY <2>1 DEF Granted, Given, Permitted
  <2>3. \A f \in Files : PermitAt(c, f)'
    BY <1>1, <2>1 DEF PermitAt, Permitted, Ours, Leaving, Untaken
  <2> QED BY <2>2, <2>3 DEF Permitted
<1>4. CASE Taken(c)
  <2>1. /\ UNCHANGED <<role, grants, drive, trashed, need, phase, job, waiting, due, copied, slipped>>
        /\ at'[c] = None /\ left'[c] = left[c] \ {at[c]} /\ None \notin left[c]
    BY <1>0, <1>4, AccessAssumption DEF Taken, SyncTypes, notes, driveVars
  <2>2. Untaken(c)' = Untaken(c)
    BY <2>1 DEF Untaken
  <2>3. Granted(c)'
    BY <2>1 DEF Granted, Given, Permitted
  <2>4. \A f \in Files : PermitAt(c, f)'
    BY <1>1, <2>1, <2>2 DEF PermitAt, Permitted, Ours, Leaving
  <2> QED BY <2>3, <2>4 DEF Permitted
<1>5. CASE End(c)
  <2>1. /\ UNCHANGED <<role, grants, drive, trashed, waiting, due, copied, slipped>> /\ Ended(c) /\ left[c] = {}
        /\ \A f \in Files : job[c][f] = NoJob /\ f \notin Untaken(c)
    BY <1>0, <1>5 DEF End, Orderly, driveVars, asked, Untaken
  <2>2. left'[c] = {} /\ \A f \in Files : job'[c][f] = NoJob
    BY <1>0, <2>1 DEF Ended, SyncTypes
  <2> QED BY <1>1, <2>1, <2>2 DEF Permitted, Granted, PermitAt, Ours, Leaving, NoJob
<1>6. CASE ListingFails(c) \/ Stops
  <2>1. left'[c] = {} /\ due'[c]
    BY <1>0, <1>6 DEF ListingFails, Ended, Stops, ForAll, SyncTypes, NoteTypes
  <2> QED BY <2>1 DEF Permitted, Granted, PermitAt
<1> QED BY <1>2, <1>3, <1>4, <1>5, <1>6

\* Another chat's sync takes nothing from this one's but what it trashes.
LEMMA PermitOfOthers ==
  ASSUME TypeOK, NEW c \in Chats, NEW d \in Chats, c # d, Sound(c), Permitted(d), Sync(c)
  PROVE  Permitted(d)'
<1>1. /\ UNCHANGED <<role, grants>>
      /\ due[d] => due'[d]
      /\ ~due'[d] => \A g \in Files : There(g) => There(g)'
  <2>1. CASE \E f \in Files : JobStepOf(c, f)
    BY <2>1, LiveKept DEF Sound
  <2>2. CASE Begin(c) \/ Listed(c) \/ Arrived(c) \/ Taken(c) \/ End(c) \/ ListingFails(c) \/ \E n \in Nodes : Take(c, n)
    <3>1. UNCHANGED <<role, grants, drive, trashed>>
      BY <2>2 DEF Begin, Listed, Arrived, Taken, End, ListingFails, Take, driveVars, asked
    <3>2. due'[d] = due[d]
      <4>1. due \in [Chats -> BOOLEAN]
        BY TypesJoin DEF NoteTypes
      <4> QED BY <2>2, <4>1 DEF Begin, Listed, Arrived, Taken, End, ListingFails, Take, notes
    <3> QED BY <3>1, <3>2 DEF There, Live
  <2> QED BY <2>1, <2>2 DEF Sync, Goings, JobStepOf
<1>2. Granted(d)'
  BY <1>1, OthersSync DEF Permitted, Granted, Given
<1>3. ASSUME NEW f \in Files
      PROVE  PermitAt(d, f)'
  <2>1. ~due'[d] /\ Allowed(d, f) => Allowed(d, f)'
    BY <1>1 DEF Allowed
  <2> QED BY <1>1, <2>1, OthersSync, SamePermit DEF Permitted
<1> QED BY <1>2, <1>3 DEF Permitted

LEMMA PermitStep ==
  ASSUME TypeOK, \A c \in Chats : Copying(c), NEW d \in Chats, Permitted(d), [Next]_vars
  PROVE  Permitted(d)'
<1>0. Orderly(d) /\ Copying(d) /\ SyncTypes /\ BoxTypes
  BY TypesJoin DEF Copying, Sound
<1>1. ASSUME \/ People \/ UNCHANGED vars
             \/ \E c \in Chats : AskSync(c) \/ \E n \in Nodes, want \in Needs : onRequest(c, n, want)
      PROVE  Permitted(d)'
  <2>1. UNCHANGED <<syncVars, copied, slipped>>
    BY <1>1, AskingOnly
  <2>2. /\ waiting'[d] = 0 => waiting[d] = 0
        /\ waiting'[d] = 0 => opened[d] = {} \/ \A n \in Nodes : Given(d, n) => Given(d, n)'
        /\ due[d] => due'[d]
        /\ ~due'[d] => \A f \in Files : There(f) => There(f)'
    BY <1>1, GivenKept, ThereKept
  <2>3. CASE opened[d] = {}
    <3>1. left[d] = {} /\ (\A f \in Files : job[d][f] = NoJob) /\ \A f \in Files : f \notin Ours(d)
      BY <1>0, <2>3 DEF Orderly, Copying, CopyAt, Reached
    <3> QED BY <2>1, <3>1 DEF Permitted, Granted, PermitAt, Ours, NoJob, syncVars
  <2>4. CASE opened[d] # {}
    <3>1. left[d] \subseteq Nodes /\ Files \subseteq Nodes
      BY <1>0 DEF SyncTypes, Nodes
    <3>2. Granted(d)'
      BY <2>1, <2>2, <2>4, <3>1 DEF Permitted, Granted, syncVars
    <3>3. ASSUME NEW f \in Files
          PROVE  PermitAt(d, f)'
      <4>1. waiting'[d] = 0 /\ ~due'[d] /\ Allowed(d, f) => Allowed(d, f)'
        BY <2>2, <2>4, <3>1 DEF Allowed, Given
      <4> QED BY <2>1, <2>2, <4>1, SamePermit DEF Permitted, syncVars
    <3> QED BY <3>2, <3>3 DEF Permitted
  <2> QED BY <2>3, <2>4
<1>2. ASSUME NEW c \in Chats, NEW f \in Files, AgentWrites(c, f) \/ AgentRemoves(c, f)
      PROVE  Permitted(d)'
  <2>1. /\ UNCHANGED <<role, drive, trashed, grants, waiting, syncVars, slipped, due>>
        /\ \A g \in Files : g \in copied'[d] => g \in copied[d]
    BY <1>2, AgentDoes DEF asked
  <2>2. Granted(d)'
    BY <2>1 DEF Permitted, Granted, Given, syncVars
  <2>3. \A g \in Files : Allowed(d, g) => Allowed(d, g)'
    BY <2>1 DEF Allowed, There, Live
  <2> QED BY <2>1, <2>2, <2>3, SamePermit DEF Permitted, syncVars
<1>3. ASSUME NEW c \in Chats, SandboxStartedOver(c)
      PROVE  Permitted(d)'
  <2>1. UNCHANGED <<role, drive, trashed, grants, waiting, syncVars, due>>
    BY <1>3 DEF SandboxStartedOver, driveVars, asked
  <2>2. Granted(d)'
    BY <2>1 DEF Permitted, Granted, Given, syncVars
  <2>3. CASE c = d
    <3>1. copied'[d] = {} /\ phase[d] = "idle"
      BY <1>0, <1>3, <2>3 DEF SandboxStartedOver, BoxTypes
    <3>2. \A f \in Files : job'[d][f] = NoJob
      BY <1>0, <2>1, <3>1 DEF SyncTypes, syncVars
    <3> QED BY <2>2, <3>1, <3>2 DEF Permitted, PermitAt, Ours, NoJob
  <2>4. CASE c # d
    <3>1. copied'[d] = copied[d] /\ slipped'[d] = slipped[d]
      BY <1>0, <1>3, <2>4 DEF SandboxStartedOver, BoxTypes
    <3>2. \A g \in Files : Allowed(d, g) => Allowed(d, g)'
      BY <2>1 DEF Allowed, There, Live
    <3> QED BY <2>1, <2>2, <3>1, <3>2, SamePermit DEF Permitted, syncVars
  <2> QED BY <2>3, <2>4
<1>4. ASSUME NEW c \in Chats, Sync(c), c # d
      PROVE  Permitted(d)'
  BY <1>4, PermitOfOthers DEF Copying
<1>5. CASE Stops \/ Sync(d)
  <2>1. CASE \E f \in Files : JobStepOf(d, f)
    BY <1>0, <2>1, PermitOfJob
  <2>2. CASE Begin(d) \/ Listed(d) \/ Arrived(d) \/ Taken(d) \/ End(d) \/ ListingFails(d) \/ Stops
    BY <1>0, <2>2, PermitOfTurn
  <2>3. CASE \E n \in Nodes : Take(d, n)
    BY <1>0, <2>3, PermitOfTake
  <2> QED BY <1>5, <2>1, <2>2, <2>3 DEF Sync, Goings, JobStepOf
<1>6. CASE \E c \in Chats : Agent(c)
  BY <1>1, <1>2, <1>6 DEF Agent
<1> QED BY <1>1, <1>3, <1>4, <1>5, <1>6 DEF Next

LEMMA PermitInit ==
  ASSUME Init
  PROVE  \A d \in Chats : Permitted(d)
BY DEF Init, ForAll, Permitted, Granted, PermitAt, Ours, NoJob

\* What a chat may no longer have is gone from its sandbox once its syncs are done, whichever way it
\* was taken back and whatever the sync under way then had read; but for what failed or is due.
THEOREM RevokedFilesAreGone == Spec => []RevokedGone
<1> DEFINE Inv == TypeOK /\ \A d \in Chats : Copying(d) /\ Permitted(d)
<1>1. Init => Inv
  BY TypeInit, CopyInit, PermitInit
<1>2. Inv /\ [Next]_vars => Inv'
  <2>1. SUFFICES ASSUME Inv, [Next]_vars PROVE Inv'
    OBVIOUS
  <2>2. TypeOK'
    BY <2>1, TypeStep
  <2>3. \A d \in Chats : Copying(d)' /\ Permitted(d)'
    BY <2>1, CopyStep, PermitStep
  <2> QED BY <2>2, <2>3
<1>3. Inv => RevokedGone
  <2>1. TypeOK => \A c \in Chats : copied[c] \subseteq Files
    BY TypesJoin DEF BoxTypes
  <2> QED BY <2>1 DEF RevokedGone, Permitted, PermitAt, Ours
<1> QED BY <1>1, <1>2, <1>3, PTL DEF Spec

-----------------------------------------------------------------------------
(***************************************************************************)
(* A sync that nothing disturbs.  The files whose node has had its turn    *)
(* are as they are in Drive, or have a job that makes them so; the others  *)
(* are as the listing has them.                                            *)
(***************************************************************************)

Fits(d, f) ==
  LET j == job[d][f]
  IN /\ j.step \in {"none", "keep"} /\ Live(f) => box[d][f] = drive[f]
     /\ j.step \in {"upload", "add", "delete", "forget"} => ~Live(f)
     /\ j.step \in {"add", "replace", "finish"} => j.bytes = box[d][f]
     /\ j.step = "finish" /\ Live(f) => drive[f] = tree[d][f]
     /\ j.step = "trash" => role = "editor"
     /\ j.step = "write" /\ Live(f) => j.bytes = drive[f]
     /\ j.step = "conflict" => j.bytes = IF Live(f) THEN drive[f] ELSE None
     /\ j.step # "close"

Undisturbed(d) ==
  /\ at[d] = None => ~closing[d]
  /\ calm[d] = "so far" =>
       /\ phase[d] # "idle" /\ ~closing[d]
       /\ phase[d] \in {"listed", "planned"} => \A f \in Untaken(d) : tree[d][f] = box[d][f]
       /\ \A f \in Files : Reached(d, f) => f \in Untaken(d) \/ Fits(d, f)
  /\ calm[d] = "yes" => phase[d] = "idle" /\ \A f \in Files : Reached(d, f) /\ Live(f) => box[d][f] = drive[f]

LEMMA Disturbs ==
  ASSUME NEW d \in Chats, Undisturbed(d), calm'[d] = "no", (at'[d] = at[d] /\ closing'[d] = closing[d]) \/ ~closing'[d]
  PROVE  Undisturbed(d)'
BY DEF Undisturbed

LEMMA SameFits ==
  ASSUME NEW d \in Chats, NEW f \in Files, Fits(d, f), role' = role, drive'[f] = drive[f],
         f \in trashed' <=> f \in trashed,
         job'[d][f] = job[d][f], box'[d][f] = box[d][f], tree'[d][f] = tree[d][f]
  PROVE  Fits(d, f)'
BY DEF Fits, Live

\* A job's file has had its turn, and no other of its chat's nodes is over or under it.
LEMMA NotUntaken ==
  ASSUME TypeOK, NEW c \in Chats, Orderly(c), InTurn(c), ~closing[c], NEW f \in Files, job[c][f].step # "none"
  PROVE  f \notin Untaken(c)
<1>1. at[c] # None /\ at[c] \in left[c] /\ f \in Under(at[c]) /\ Apart(left[c])
  BY DEF Orderly, InTurn, NoJob
<1>2. left[c] \in SUBSET Nodes
  BY TypesJoin DEF SyncTypes
<1>3. SUFFICES ASSUME NEW n \in left[c] \ {at[c]}, f \in Under(n) PROVE FALSE
  BY DEF Untaken
<1> QED BY <1>1, <1>2, <1>3, OneNodeOf

\* What a job does to its own file in Drive.
LEMMA JobInDrive ==
  ASSUME TypeOK, NEW c \in Chats, NEW f \in Files, JobStepOf(c, f)
  PROVE  /\ \A g \in Files : g # f => drive'[g] = drive[g] /\ (g \in trashed' <=> g \in trashed)
         /\ job[c][f].step \notin {"add", "finish", "trash"} => UNCHANGED <<drive, trashed>>
         /\ Add(c, f) \/ Finish(c, f) => f \notin trashed' /\ (drive' = drive \/ drive'[f] = job[c][f].bytes)
         /\ Add(c, f) => (~Live(f) => drive'[f] = job[c][f].bytes)
         /\ Finish(c, f) => (~Live(f) \/ drive[f] = tree[c][f] => drive'[f] = job[c][f].bytes)
<1>0. drive \in [Files -> Contents]
  BY TypesJoin DEF DriveTypes
<1>1. \/ UNCHANGED <<drive, trashed>>
      \/ Add(c, f) \/ Finish(c, f) \/ Trash(c, f)
  BY DEF JobStepOf, Job, ReadFull, Replace, Conflict, Put, Write, Keep, Remove, Forget, Misses, CloseFails, Fails,
         GivesUp, driveVars
<1>2. CASE Add(c, f) \/ Finish(c, f)
  <2>1. trashed' = trashed \ {f} /\ (drive' = drive \/ drive' = [drive EXCEPT ![f] = job[c][f].bytes])
        /\ job[c][f].step \in {"add", "finish"}
    BY <1>2 DEF Add, Finish, Step
  <2>2. Add(c, f) => (~Live(f) => drive'[f] = job[c][f].bytes)
    BY <1>0 DEF Add
  <2>3. Finish(c, f) => (~Live(f) \/ drive[f] = tree[c][f] => drive'[f] = job[c][f].bytes)
    BY <1>0 DEF Finish, Unedited
  <2> QED BY <1>0, <2>1, <2>2, <2>3
<1>3. CASE ~(Add(c, f) \/ Finish(c, f)) /\ Trash(c, f)
  <2>1. drive' = drive /\ (trashed' = trashed \/ trashed' = trashed \cup {f}) /\ job[c][f].step = "trash"
    BY <1>3 DEF Trash, Step
  <2> QED BY <1>3, <2>1
<1> QED BY <1>1, <1>2, <1>3

LEMMA AgreeOfJob ==
  ASSUME TypeOK, NEW c \in Chats, Copying(c), Undisturbed(c), NEW f \in Files, JobStepOf(c, f)
  PROVE  Undisturbed(c)'
<1>0. /\ Orderly(c) /\ InTurn(c) /\ SoundAt(c, f)
      /\ UNCHANGED <<role, opened, phase, left, at, closing>> /\ phase[c] = "planned" /\ job[c][f].step # "none"
  BY JobKeepsSync, JobSteps DEF Copying, Sound, asked
<1>1. CASE CloseFails(c, f) \/ Misses(c, f) \/ Fails(c, f)
  <2>1. calm'[c] = "no"
    BY <1>1 DEF CloseFails, Misses, Fails, GivesUp, Disturbed, ForAll
  <2> QED BY <1>0, <2>1, Disturbs
<1>2. CASE calm[c] # "so far" /\ ~(CloseFails(c, f) \/ Misses(c, f) \/ Fails(c, f))
  <2>1. calm'[c] = calm[c]
    BY <1>2 DEF JobStepOf, Job, ReadFull, Add, Replace, Finish, Trash, Conflict, Put, Write, Keep, Remove, Forget, Outdates
  <2> QED BY <1>0, <1>2, <2>1 DEF Undisturbed
<1>3. CASE calm[c] = "so far" /\ ~(CloseFails(c, f) \/ Misses(c, f) \/ Fails(c, f))
  <2>0. /\ ~closing[c] /\ f \notin Untaken(c) /\ Reached(c, f) /\ Fits(c, f)
        /\ \A g \in Files : (Reached(c, g)' <=> Reached(c, g)) /\ (g \in Untaken(c)' <=> g \in Untaken(c))
    BY <1>0, <1>3, NotUntaken, TurnOfJob DEF Undisturbed, Reached, Untaken
  <2>1. \A g \in Files : g # f => box'[c][g] = box[c][g] /\ tree'[c][g] = tree[c][g] /\ job'[c][g] = job[c][g]
    BY JobKeepsOthers DEF OthersKept
  <2>2. ASSUME NEW g \in Files, g # f, Fits(c, g)
        PROVE  Fits(c, g)'
    BY <1>0, <2>1, <2>2, JobInDrive, SameFits
  <2>3. Fits(c, f)'
    <3>1. CASE ReadFull(c, f)
      <4>1. \/ job[c][f].step = "upload" /\ job'[c][f].step = "add"
            \/ job[c][f].step = "update" /\ job'[c][f].step = "replace"
        <5>1. job \in [Chats -> [Files -> Jobs]]
          BY TypesJoin DEF SyncTypes
        <5>2. ASSUME NEW to, NEW x, Goes(c, f, to, x)
              PROVE  job'[c][f].step = to
          BY <5>1, <5>2 DEF Goes
        <5> QED BY <3>1, <5>2 DEF ReadFull, Step
      <4> QED BY <2>0, <3>1, <4>1, JobDoes, JobInDrive DEF Fits, Moves, BoxKept, Live
    <3>2. CASE Add(c, f)
      <4>1. job[c][f].step = "add"
        BY <3>2 DEF Add, Step
      <4>2. drive'[f] = box'[c][f]
        BY <2>0, <3>2, <4>1, JobDoes, JobInDrive DEF Fits, BoxKept, Live
      <4>3. job'[c][f].step = "none"
        BY <3>2, JobDoes DEF Moves
      <4> QED BY <4>2, <4>3 DEF Fits
    <3>3. CASE Finish(c, f)
      <4>1. job[c][f].step = "finish"
        BY <3>3 DEF Finish, Step
      <4>2. drive'[f] = box'[c][f]
        BY <2>0, <3>3, <4>1, JobDoes, JobInDrive DEF Fits, BoxKept, Live
      <4>3. job'[c][f].step = "none"
        BY <3>3, JobDoes DEF Moves
      <4> QED BY <4>2, <4>3 DEF Fits
    <3>4. CASE Replace(c, f)
      <4>1. tree'[c][f] = drive[f]
        <5>1. tree \in [Chats -> [Files -> Contents]]
          BY TypesJoin DEF SyncTypes
        <5> QED BY <3>4, <5>1 DEF Replace
      <4> QED BY <2>0, <3>4, <4>1, JobDoes, JobInDrive DEF Fits, Moves, BoxKept, Live
    <3>5. CASE Trash(c, f)
      <4>1. ~Live(f)'
        BY <2>0, <3>5 DEF Trash, Step, Fits, Live
      <4> QED BY <3>5, <4>1, JobDoes DEF Fits, Moves
    <3>6. CASE Conflict(c, f)
      BY <2>0, <3>6, JobDoes, JobInDrive DEF Fits, Moves, BoxKept, Live
    <3>7. CASE Put(c, f)
      BY <2>0, <3>7, JobDoes, JobInDrive DEF Fits, Moves, BoxKept, Live
    <3>8. CASE Write(c, f)
      BY <2>0, <3>8, JobWrites, JobInDrive DEF Fits, Moves, Live
    <3>9. CASE Keep(c, f)
      BY <2>0, <3>9, JobDoes, JobInDrive DEF Fits, Moves, BoxKept, Live
    <3>10. CASE Remove(c, f)
      BY <2>0, <3>10, JobWrites, JobInDrive DEF Fits, Moves, Live
    <3>11. CASE Forget(c, f)
      BY <2>0, <3>11, JobDoes, JobInDrive DEF Fits, Moves, BoxKept, Live
    <3> QED BY <1>3, <3>1, <3>2, <3>3, <3>4, <3>5, <3>6, <3>7, <3>8, <3>9, <3>10, <3>11 DEF JobStepOf, Job
  <2>4. \A g \in Untaken(c)' : tree'[c][g] = box'[c][g]
    BY <1>0, <1>3, <2>0, <2>1 DEF Undisturbed, Untaken
  <2>5. \A g \in Files : Reached(c, g)' => g \in Untaken(c)' \/ Fits(c, g)'
    BY <1>3, <2>0, <2>2, <2>3 DEF Undisturbed
  <2>6. calm'[c] = "so far"
    BY <1>3 DEF JobStepOf, Job, ReadFull, Add, Replace, Finish, Trash, Conflict, Put, Write, Keep, Remove, Forget, Outdates
  <2> QED BY <1>0, <2>0, <2>4, <2>5, <2>6 DEF Undisturbed
<1> QED BY <1>1, <1>2, <1>3

LEMMA AgreeOfTake ==
  ASSUME TypeOK, NEW c \in Chats, Copying(c), Undisturbed(c), NEW n \in Nodes, Take(c, n)
  PROVE  Undisturbed(c)'
<1>0. /\ phase[c] = "planned" /\ n \in left[c] /\ \A f \in Files : job[c][f] = NoJob
      /\ at[c] = None /\ at'[c] = n /\ n # None /\ closing'[c] = Closes(c, n)
      /\ UNCHANGED <<role, opened, drive, trashed, phase, need, left, rows, box, tree>>
      /\ Untaken(c)' = {f \in Files : \E m \in left[c] \ {n} : f \in Under(m)} /\ Untaken(c)' \subseteq Untaken(c)
      /\ \A f \in Under(n) : f \in Untaken(c)
      /\ calm \in [Chats -> {"no", "so far", "yes"}]
  BY TakeDoes, TypesJoin DEF Copying, Sound, Take, asked, driveVars, NoteTypes
<1>1. CASE Closes(c, n)
  <2>1. calm'[c] = "no"
    BY <1>0, <1>1 DEF Take
  <2> QED BY <1>0, <2>1 DEF Undisturbed
<1>2. CASE ~Closes(c, n) /\ calm[c] # "so far"
  <2>1. calm' = calm
    BY <1>2 DEF Take
  <2> QED BY <1>0, <1>2, <2>1 DEF Undisturbed
<1>3. CASE ~Closes(c, n) /\ calm[c] = "so far"
  <2>0. calm'[c] = "so far" /\ ~closing'[c]
    BY <1>0, <1>3 DEF Take
  <2>1. ASSUME NEW f \in Files, f \notin Under(n), Reached(c, f), f \notin Untaken(c)'
        PROVE  Fits(c, f)'
    <3>1. f \notin Untaken(c)
      <4>1. Untaken(c) = {g \in Files : \E m \in left[c] \ {None} : g \in Under(m)}
        BY <1>0 DEF Untaken
      <4> QED BY <1>0, <2>1, <4>1
    <3>2. Fits(c, f)
      BY <1>3, <2>1, <3>1 DEF Undisturbed
    <3>3. job'[c][f] = NoJob
      BY <1>3, <2>1, TakeJobs
    <3> QED BY <1>0, <3>2, <3>3, SameFits
  <2>2. ASSUME NEW f \in Under(n), f \in Files
        PROVE  Fits(c, f)'
    <3> DEFINE want == IF need[c][n] = "change" /\ ceiling = "change" THEN "change" ELSE "read"
               d == IF Live(f) THEN drive[f] ELSE None
               kind == planSync(rows[c][f], tree[c][f], d)
               allowed == IF want = "read" THEN readOnly(kind, d) ELSE kind
               out == IF n # Root /\ allowed = "upload" THEN "none" ELSE allowed
    <3>1. job'[c][f] = [step |-> out, bytes |-> IF out = "conflict" THEN d ELSE None]
      BY <1>3, <2>2, TakeJobs DEF Planned
    <3>2. tree[c][f] = box[c][f]
      BY <1>0, <1>3, <2>2 DEF Undisturbed
    <3>3. want = "change" => role = "editor"
      BY TypesJoin DEF ceiling, DriveTypes
    <3>4. Live(f)' <=> Live(f)
      BY <1>0 DEF Live
    <3>5. Live(f) => drive[f] # None
      BY DEF Live
    <3> HIDE DEF want
    <3>6. /\ kind \in {"none", "upload", "trash", "update", "delete", "put", "conflict", "forget"}
          /\ kind = "none" => tree[c][f] = d
          /\ kind \in {"upload", "delete", "forget"} => d = None
      BY DEF planSync
    <3> HIDE DEF kind
    <3>7. /\ allowed \in {"none", "upload", "trash", "update", "delete", "put", "conflict", "forget"}
          /\ allowed = "none" => tree[c][f] = d \/ d = None
          /\ allowed \in {"upload", "delete", "forget"} => d = None
          /\ allowed = "trash" => want # "read"
      BY <3>6 DEF readOnly
    <3> HIDE DEF allowed
    <3>8. /\ out \in {"none", "upload", "trash", "update", "delete", "put", "conflict", "forget"}
          /\ out = "none" => tree[c][f] = d \/ d = None
          /\ out \in {"upload", "delete", "forget"} => d = None
          /\ out = "trash" => role = "editor"
      <4>1. want \in {"read", "change"}
        BY DEF want
      <4> QED BY <3>3, <3>7, <4>1
    <3> HIDE DEF out
    <3>9. job'[c][f].step = out /\ (out = "conflict" => job'[c][f].bytes = d)
      BY <3>1
    <3>10. d = None => ~Live(f)
      BY <3>5
    <3>11. out = "none" /\ Live(f) => box[c][f] = drive[f]
      BY <3>2, <3>8, <3>10
    <3>12. UNCHANGED <<role, drive, box>>
      BY <1>0
    <3>13. out \in {"upload", "delete", "forget"} => ~Live(f)'
      BY <3>4, <3>8, <3>10
    <3>14. d = IF Live(f)' THEN drive'[f] ELSE None
      BY <3>4, <3>12
    <3> HIDE DEF d
    <3> QED BY <3>4, <3>8, <3>9, <3>11, <3>12, <3>13, <3>14 DEF Fits
  <2>3. \A f \in Untaken(c)' : tree'[c][f] = box'[c][f]
    BY <1>0, <1>3 DEF Undisturbed
  <2>4. \A f \in Files : Reached(c, f)' <=> Reached(c, f)
    BY <1>0 DEF Reached
  <2> QED BY <1>0, <2>0, <2>1, <2>2, <2>3, <2>4 DEF Undisturbed
<1> QED BY <1>1, <1>2, <1>3

LEMMA AgreeOfTurn ==
  ASSUME TypeOK, NEW c \in Chats, Copying(c), Undisturbed(c),
         Begin(c) \/ Listed(c) \/ Arrived(c) \/ Taken(c) \/ End(c) \/ ListingFails(c) \/ Stops
  PROVE  Undisturbed(c)'
<1>0. /\ SyncTypes /\ BoxTypes /\ AskTypes /\ Orderly(c) /\ calm \in [Chats -> {"no", "so far", "yes"}]
      /\ phase[c] # "planned" => at[c] = None /\ \A f \in Files : job[c][f] = NoJob
      /\ at[c] = None => \A f \in Files : job[c][f] = NoJob
  BY TypesJoin DEF SyncTypes, Copying, Sound, Orderly, NoteTypes
<1>1. CASE Begin(c)
  <2>1. UNCHANGED <<drive, trashed, opened, box, at, closing>> /\ at[c] = None
    BY <1>0, <1>1 DEF Begin, driveVars, asked
  <2>2. CASE opened[c] = {}
    BY <1>1, <2>1, <2>2 DEF Begin, Undisturbed, Reached
  <2>3. CASE opened[c] # {}
    <3>1. calm'[c] = "so far" /\ phase'[c] = "listing" /\ left'[c] = opened[c]
      BY <1>0, <1>1, <2>3 DEF Begin, SyncTypes
    <3>2. None \notin opened[c]
      BY <1>0, AccessAssumption DEF AskTypes
    <3>3. \A f \in Files : Reached(c, f)' => f \in Untaken(c)'
      BY <2>1, <3>1, <3>2 DEF Reached, Untaken
    <3> QED BY <2>1, <3>1, <3>3 DEF Undisturbed
  <2> QED BY <2>2, <2>3
<1>2. CASE Listed(c)
  <2>1. /\ UNCHANGED <<role, drive, trashed, opened, box, left, at, closing, job, calm>> /\ phase[c] = "listing"
        /\ phase'[c] = "listed" /\ tree'[c] = box[c] /\ \A f \in Files : job[c][f] = NoJob
    BY <1>0, <1>2 DEF Listed, driveVars, asked, notes, SyncTypes
  <2>2. \A f \in Files : Fits(c, f) => Fits(c, f)'
    BY <2>1 DEF Fits, Live, NoJob
  <2> QED BY <2>1, <2>2 DEF Undisturbed, Reached, Untaken
<1>3. CASE Arrived(c)
  <2>1. /\ UNCHANGED <<role, drive, trashed, opened, box, left, at, closing, job, tree, calm>> /\ phase[c] = "listed"
        /\ phase'[c] = "planned"
    BY <1>0, <1>3 DEF Arrived, driveVars, asked, notes, SyncTypes
  <2>2. \A f \in Files : Fits(c, f) => Fits(c, f)'
    BY <2>1 DEF Fits, Live
  <2> QED BY <2>1, <2>2 DEF Undisturbed, Reached, Untaken
<1>4. CASE Taken(c)
  <2>1. /\ UNCHANGED <<role, drive, trashed, box, job, tree, phase, calm>> /\ at'[c] = None /\ ~closing'[c]
        /\ left'[c] = left[c] \ {at[c]} /\ None \notin left[c] /\ (~closing[c] => opened' = opened) /\ phase[c] = "planned"
    BY <1>0, <1>4, AccessAssumption DEF Taken, driveVars, notes, SyncTypes
  <2>2. \A f \in Files : Fits(c, f) => Fits(c, f)'
    BY <2>1 DEF Fits, Live
  <2>3. Untaken(c)' = Untaken(c)
    BY <2>1 DEF Untaken
  <2> QED BY <2>1, <2>2, <2>3 DEF Undisturbed, Reached
<1>5. CASE End(c)
  <2>1. /\ UNCHANGED <<role, drive, trashed, opened, box>> /\ Ended(c) /\ phase[c] = "planned"
        /\ \A f \in Files : job[c][f] = NoJob /\ f \notin Untaken(c)
        /\ calm'[c] = IF calm[c] = "so far" THEN "yes" ELSE calm[c]
    BY <1>0, <1>5 DEF End, Orderly, driveVars, asked, Untaken
  <2>2. ~closing'[c] /\ phase'[c] = "idle"
    BY <1>0, <2>1 DEF Ended, SyncTypes
  <2>3. calm[c] # "yes" => Undisturbed(c)'
    <3>1. ASSUME calm[c] = "so far", NEW f \in Files, Reached(c, f), Live(f)
          PROVE  box[c][f] = drive[f]
      <4>0. job[c][f] = NoJob /\ f \notin Untaken(c)
        BY <2>1
      <4>1. f \notin Untaken(c) /\ job[c][f].step = "none"
        BY <4>0 DEF NoJob
      <4>2. Fits(c, f)
        BY <3>1, <4>1 DEF Undisturbed
      <4> QED BY <3>1, <4>1, <4>2 DEF Fits
    <3> QED BY <1>0, <2>1, <2>2, <3>1 DEF Undisturbed, Reached, Live
  <2>4. calm[c] # "yes"
    BY <2>1 DEF Undisturbed
  <2> QED BY <2>3, <2>4
<1>6. CASE ListingFails(c) \/ Stops
  <2>1. ~closing'[c] /\ calm'[c] = "no"
    BY <1>0, <1>6 DEF ListingFails, Ended, Stops, ForAll, SyncTypes, Disturbed
  <2> QED BY <2>1, Disturbs
<1> QED BY <1>1, <1>2, <1>3, <1>4, <1>5, <1>6

LEMMA AgreeStep ==
  ASSUME TypeOK, NEW d \in Chats, Copying(d), Undisturbed(d), [Next]_vars
  PROVE  Undisturbed(d)'
<1>0. calm \in [Chats -> {"no", "so far", "yes"}]
  BY TypesJoin DEF NoteTypes
<1>1. ASSUME Disturbed, UNCHANGED syncVars
      PROVE  Undisturbed(d)'
  <2>1. calm'[d] = "no" /\ at' = at /\ closing' = closing
    BY <1>1 DEF Disturbed, ForAll, syncVars
  <2> QED BY <2>1, Disturbs
<1>2. ASSUME UNCHANGED <<role, drive, trashed, opened, box, syncVars, calm>>
      PROVE  Undisturbed(d)'
  <2>1. \A f \in Files : Fits(d, f) => Fits(d, f)'
    BY <1>2 DEF Fits, Live, syncVars
  <2> QED BY <1>2, <2>1 DEF Undisturbed, Reached, Untaken, Live, syncVars
<1>3. CASE People
  BY <1>1, <1>3 DEF People, deny, allow, setSpaceAuto, revokeGrant, Answers, TakesEffect, Quiet, setMember,
                    PersonWrites, PersonTrashes, PersonRestores, DriveChanges, Edit
<1>4. CASE UNCHANGED vars
  BY <1>2, <1>4 DEF vars, driveVars, asked, notes
<1>5. ASSUME NEW c \in Chats, Agent(c)
      PROVE  Undisturbed(d)'
  <2>1. CASE AskSync(c)
    BY <1>2, <2>1 DEF AskSync, driveVars, asked, notes
  <2>2. CASE \E n \in Nodes, want \in Needs : onRequest(c, n, want)
    BY <1>1, <2>2 DEF onRequest, Quiet
  <2>3. CASE \E f \in Files : AgentWrites(c, f) \/ AgentRemoves(c, f)
    BY <1>1, <2>3 DEF AgentWrites, AgentRemoves, Edit
  <2> QED BY <1>5, <2>1, <2>2, <2>3 DEF Agent
<1>6. ASSUME NEW c \in Chats, SandboxStartedOver(c)
      PROVE  Undisturbed(d)'
  BY <1>1, <1>6 DEF SandboxStartedOver
<1>7. ASSUME NEW c \in Chats, Sync(c), c # d
      PROVE  Undisturbed(d)'
  <2>0. at'[d] = at[d] /\ closing'[d] = closing[d]
    BY <1>7, OthersSync
  <2>1. CASE calm'[d] = "no"
    BY <2>0, <2>1, Disturbs
  <2>2. CASE calm'[d] # "no"
    <3>1. ASSUME NEW f \in Files, JobStepOf(c, f)
          PROVE  UNCHANGED <<role, drive, trashed>> /\ calm'[d] = calm[d]
      <4>1. ~Disturbed /\ ~Outdates(c)
        BY <1>7, <2>2 DEF Disturbed, Outdates, ForAll
      <4> QED BY <3>1, <4>1 DEF JobStepOf, Job, ReadFull, Add, Replace, Finish, Trash, Conflict, Put, Write, Keep,
                                Remove, Forget, Misses, CloseFails, Fails, GivesUp, Working, Unmoved, driveVars
    <3>2. ASSUME Begin(c) \/ Listed(c) \/ Arrived(c) \/ Taken(c) \/ End(c) \/ ListingFails(c) \/ \E n \in Nodes : Take(c, n)
          PROVE  UNCHANGED <<role, drive, trashed>> /\ calm'[d] = calm[d]
      <4>1. ~Disturbed
        BY <2>2 DEF Disturbed, ForAll
      <4>2. UNCHANGED <<role, drive, trashed>>
        BY <3>2 DEF Begin, Listed, Arrived, Taken, End, ListingFails, Take, driveVars
      <4>3. calm' = calm \/ \E x : calm' = [calm EXCEPT ![c] = x]
        BY <3>2, <4>1 DEF Begin, Listed, Arrived, Taken, End, ListingFails, Take, notes
      <4> QED BY <1>0, <1>7, <4>2, <4>3
    <3>3. UNCHANGED <<role, drive, trashed>> /\ calm'[d] = calm[d]
      BY <1>7, <3>1, <3>2 DEF Sync, Goings, JobStepOf
    <3>4. \A f \in Files : Fits(d, f) => Fits(d, f)'
      BY <1>7, <3>3, OthersSync, SameFits
    <3>5. /\ opened'[d] = opened[d] /\ phase'[d] = phase[d] /\ left'[d] = left[d] /\ at'[d] = at[d]
          /\ closing'[d] = closing[d] /\ \A f \in Files : box'[d][f] = box[d][f] /\ tree'[d][f] = tree[d][f]
      BY <1>7, OthersSync
    <3>6. Untaken(d)' = Untaken(d) /\ \A f : (Reached(d, f)' <=> Reached(d, f)) /\ (Live(f)' <=> Live(f))
      BY <3>3, <3>5 DEF Untaken, Reached, Live
    <3>7. \A f \in Untaken(d) : f \in Files
      BY DEF Untaken
    <3> QED BY <3>3, <3>4, <3>5, <3>6, <3>7 DEF Undisturbed
  <2> QED BY <2>1, <2>2
<1>8. CASE Stops \/ Sync(d)
  <2>1. CASE \E f \in Files : JobStepOf(d, f)
    BY <2>1, AgreeOfJob
  <2>2. CASE Begin(d) \/ Listed(d) \/ Arrived(d) \/ Taken(d) \/ End(d) \/ ListingFails(d) \/ Stops
    BY <2>2, AgreeOfTurn
  <2>3. CASE \E n \in Nodes : Take(d, n)
    BY <2>3, AgreeOfTake
  <2> QED BY <1>8, <2>1, <2>2, <2>3 DEF Sync, Goings, JobStepOf
<1> QED BY <1>3, <1>4, <1>5, <1>6, <1>7, <1>8 DEF Next

\* After a sync that nothing disturbed, what a chat has open is in its sandbox as it is in Drive,
\* whichever way each file had to go.
THEOREM SyncsBringAgreement == Spec => []Agree
<1> DEFINE Inv == TypeOK /\ \A d \in Chats : Copying(d) /\ Undisturbed(d)
<1>1. Init => Inv
  <2>1. Init => \A d \in Chats : Undisturbed(d)
    BY DEF Init, ForAll, Undisturbed
  <2> QED BY <2>1, TypeInit, CopyInit
<1>2. Inv /\ [Next]_vars => Inv'
  <2>1. SUFFICES ASSUME Inv, [Next]_vars PROVE Inv'
    OBVIOUS
  <2>2. TypeOK'
    BY <2>1, TypeStep
  <2>3. \A d \in Chats : Copying(d)' /\ Undisturbed(d)'
    BY <2>1, CopyStep, AgreeStep
  <2> QED BY <2>2, <2>3
<1>3. Inv => Agree
  <2>1. TypeOK => \A d \in Chats : \A n \in opened[d] : \A f \in Under(n) : f \in Files
    BY TypesJoin DEF AskTypes, Under, Nodes
  <2> QED BY <2>1 DEF Agree, Undisturbed, Reached
<1> QED BY <1>1, <1>2, <1>3, PTL DEF Spec
=============================================================================
