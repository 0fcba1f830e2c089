------------------------------ MODULE DriveFeed ------------------------------
(***************************************************************************)
(* Drive's spaces, folders and files (lib/drive/model.ts), the change log  *)
(* devices sync from, and one person's device that follows it (the iPhone  *)
(* Files extension, Enumerator.swift).                                     *)
(*                                                                         *)
(* A space is named by its top folder.  A device keeps what it was told:   *)
(* the folders someone opened, and what the log then said of their         *)
(* contents.                                                               *)
(***************************************************************************)
EXTENDS Integers, Sequences, FiniteSets, FiniteSetsExt

CONSTANTS
  Folders, Files,
  People, Me,   \* Me: whose device it is
  Makers,       \* who makes spaces
  FirstSpace, Owner, \* the top folder of the space there is at first, and its owner
  Within,       \* what is in it then: [node -> its folder]
  Roles,        \* the roles people are given
  Limit,        \* rows in one answer of the feed (500)
  MaxLog        \* bound on what the device has yet to hear

Nodes == Folders \cup Files
Nil == "none"
Top == "top"
Absent == [space |-> "absent"]
Unheld == "unheld"

\* A walk from n by way of up, to where up leads to no node, or round in a loop: the least set
\* that holds n and where each of its nodes leads.
ClosedUnder(up, S) == \A m \in S : up[m] \in Nodes => up[m] \in S
Walk(up, n) == {m \in Nodes : \A S \in SUBSET Nodes : n \in S /\ ClosedUnder(up, S) => m \in S}

ASSUME FeedAssumption ==
  /\ IsFiniteSet(Nodes) /\ Folders \cap Files = {}
  /\ FirstSpace \in Folders /\ Owner \in People /\ Me \in People \ {Owner} /\ Makers \subseteq People
  /\ Nodes \cap {Nil, Top, Unheld} = {} /\ Nil \notin People
  /\ DOMAIN Within \subseteq Nodes \ {FirstSpace}
  /\ \A n \in DOMAIN Within :
       /\ Within[n] \in Folders /\ Within[n] \in DOMAIN Within \cup {FirstSpace}
       /\ FirstSpace \in Walk([m \in Nodes |-> IF m \in DOMAIN Within THEN Within[m] ELSE Nil], n)
  /\ "none" \in Roles /\ Roles \subseteq {"none", "viewer", "editor", "owner"}
  /\ Limit \in Nat \ {0} /\ MaxLog \in Nat

VARIABLES
  node,       \* the nodes table: [space, parent, trashed], or Absent
  made,       \* the ids given out
  role,       \* the members table: [space -> [person -> role]]
  log,        \* the changes table from the device's cursor on: [node, space, person], one of the last two Nil
  forgotten,  \* changes_forgotten is past the device's cursor
  held,       \* the device: the folder it shows each node in, or Absent
  opened,     \* the folders it listed, Top among them when it listed the spaces
  stale,      \* what it shows otherwise than it is now
  blind       \* what it may have wrong: see Untold and WentWith

drive == <<node, made, role, log, forgotten>>
device == <<held, opened>>
feedVars == <<drive, device, stale, blind>>

Rank == [none |-> 0, viewer |-> 1, editor |-> 2, owner |-> 3]

FeedTypeOK ==
  /\ node \in [Nodes -> {Absent} \cup [space : Folders, parent : Folders \cup {Nil}, trashed : {"no", "young", "old"}]]
  /\ made \subseteq Nodes
  /\ role \in [Folders -> [People -> DOMAIN Rank]]
  /\ \A s \in Folders : (\E p \in People : role[s][p] # "none") => node[s] # Absent /\ node[s].parent = Nil
  /\ log \in Seq([node : Nodes, space : Folders \cup {Nil}, person : People \cup {Nil}])
  /\ forgotten \in BOOLEAN
  /\ held \in [Nodes -> Folders \cup {Nil, Unheld}]
  /\ opened \subseteq Folders \cup {Top}
  /\ stale \subseteq Nodes /\ blind \subseteq Nodes

FeedInit ==
  /\ made = {FirstSpace} \cup DOMAIN Within
  /\ node = [n \in Nodes |-> IF n \notin made THEN Absent ELSE
       [space |-> FirstSpace, parent |-> IF n = FirstSpace THEN Nil ELSE Within[n], trashed |-> "no"]]
  /\ \E mine \in Roles :
       role = [s \in Folders |-> [p \in People |->
         IF s # FirstSpace THEN "none" ELSE IF p = Owner THEN "owner" ELSE IF p = Me THEN mine ELSE "none"]]
  /\ log = <<>> /\ forgotten = FALSE
  /\ held = [n \in Nodes |-> Unheld] /\ opened = {} /\ stale = {} /\ blind = {}

-----------------------------------------------------------------------------
(***************************************************************************)
(* Reading the tables.                                                     *)
(***************************************************************************)

Exists(n) == node[n] # Absent
roleIn(s, p) == role[s][p]
Spaces == {s \in Folders : \E p \in People : role[s][p] # "none"}

\* n and the folders above it.
Up(t) == [n \in Nodes |-> IF t[n] = Absent THEN Nil ELSE t[n].parent]
Chain(n) == Walk(Up(node), n)
Under(n) == {m \in Nodes : Exists(m) /\ n \in Chain(m)}

inTrash(n) == \E m \in Chain(n) : ~Exists(m) \/ node[m].trashed # "no"

\* nodeFor: someone with that role may reach it, and it isn't in the trash.
CanReach(n, need) == Exists(n) /\ \E p \in People : Rank[roleIn(node[n].space, p)] >= Rank[need]
nodeFor(n, need) == CanReach(n, need) /\ ~inTrash(n)
isRoot(n) == node[n].parent = Nil

-----------------------------------------------------------------------------
(***************************************************************************)
(* Changing them. Each is one transaction, and every one writes the log.   *)
(***************************************************************************)

touch(n, s) == [node |-> n, space |-> s, person |-> Nil]
touchFor(s, p) == [node |-> s, space |-> Nil, person |-> p]
Busy == Len(log) < MaxLog /\ ~forgotten
\* What the log says of spaces the person isn't in; none of it is told, should what it is about
\* be somewhere they are by then.
Untold == {log[i].node : i \in {j \in 1..Len(log) : log[j].space # Nil /\ roleIn(log[j].space, Me) = "none"}}
Missed == blind' = blind \cup Untold'
Changed(n) == stale' = IF held[n] = Unheld THEN stale ELSE stale \cup {n}   \* it is not as the device has it

\* createFolder, and insertFile for an upload that finished.
insert(n, parent) ==
  /\ Busy /\ nodeFor(parent, "editor") /\ n \notin made
  /\ node' = [node EXCEPT ![n] = [space |-> node[parent].space, parent |-> parent, trashed |-> "no"]]
  /\ made' = made \cup {n}
  /\ log' = Append(log, touch(n, node[parent].space))
  /\ UNCHANGED <<role, forgotten, device, stale>>
  /\ Missed

\* renameNode, linkFile, unlinkFile, and finishUpload's new bytes: what is shown of it changes.
change(n) ==
  /\ Busy /\ nodeFor(n, "editor") /\ ~isRoot(n)
  /\ Changed(n)
  /\ log' = Append(log, touch(n, node[n].space))
  /\ UNCHANGED <<node, made, role, forgotten, device>>
  /\ Missed

\* renameSpace
renameSpace(s) ==
  /\ Busy /\ s \in Spaces
  /\ Changed(s)
  /\ log' = Append(log, touch(s, s))
  /\ UNCHANGED <<node, made, role, forgotten, device>>
  /\ Missed

\* Mutant: into itself or what is inside it.
Fits_Anywhere(n, to) == node[to].space = node[n].space

\* moveNode's checks: within a space, and not inside itself.
Fits(n, to) == node[to].space = node[n].space /\ n \notin Chain(to)

moveNode(n, to) ==
  /\ Busy /\ nodeFor(n, "editor") /\ nodeFor(to, "editor") /\ ~isRoot(n)
  /\ Fits(n, to)
  /\ node' = [node EXCEPT ![n].parent = to]
  /\ Changed(n)
  /\ log' = Append(log, touch(n, node[n].space))
  /\ UNCHANGED <<made, role, forgotten, device>>
  /\ Missed

\* Mutant: also what is in the trash already, inside something that is.
trashNode_Again(n) ==
  /\ Busy /\ CanReach(n, "editor") /\ ~isRoot(n)
  /\ node' = [node EXCEPT ![n].trashed = "young"]
  /\ Changed(n)
  /\ log' = Append(log, touch(n, node[n].space))
  /\ UNCHANGED <<made, role, forgotten, device>>
  /\ Missed

trashNode(n) ==
  /\ Busy /\ nodeFor(n, "editor") /\ ~isRoot(n)
  /\ node' = [node EXCEPT ![n].trashed = "young"]
  /\ Changed(n)
  /\ log' = Append(log, touch(n, node[n].space))
  /\ UNCHANGED <<made, role, forgotten, device>>
  /\ Missed

\* restoreNode: back where it was, or to the space's top when that folder is in the trash too.
restoreNode(n) ==
  /\ Busy /\ CanReach(n, "editor") /\ node[n].trashed # "no"
  /\ LET to == IF inTrash(node[n].parent) THEN node[n].space ELSE node[n].parent
     IN  node' = [node EXCEPT ![n].trashed = "no", ![n].parent = to]
  /\ Changed(n)
  /\ log' = Append(log, touch(n, node[n].space))
  /\ UNCHANGED <<made, role, forgotten, device>>
  /\ Missed

\* Thirty days pass.
Age ==
  /\ \E n \in Nodes : Exists(n) /\ node[n].trashed = "young"
  /\ node' = [n \in Nodes |-> IF Exists(n) /\ node[n].trashed = "young" THEN [node[n] EXCEPT !.trashed = "old"] ELSE node[n]]
  /\ UNCHANGED <<made, role, log, forgotten, device, stale, blind>>

emptyOldTrash ==
  /\ LET old == UNION {Under(n) : n \in {m \in Nodes : Exists(m) /\ node[m].trashed = "old"}} IN
       /\ old # {}
       /\ node' = [n \in Nodes |-> IF n \in old THEN Absent ELSE node[n]]
  /\ UNCHANGED <<made, role, log, forgotten, device, stale, blind>>

\* setMember: added, given another role, or (none) removed; a space keeps an owner.
setMember(s, p, r) ==
  /\ Len(log) < MaxLog + 1 /\ ~forgotten /\ s \in Spaces /\ roleIn(s, p) # r
  /\ roleIn(s, p) = "owner" => \E q \in People \ {p} : roleIn(s, q) = "owner"
  /\ role' = [role EXCEPT ![s][p] = r]
  /\ log' = Append(log, touchFor(s, p))
  /\ Missed
  /\ UNCHANGED <<node, made, forgotten, device, stale>>

AsSpace(f) == [space |-> f, parent |-> Nil, trashed |-> "no"]

createSpace(s, p, others) ==
  /\ Busy /\ s \notin made
  /\ node' = [node EXCEPT ![s] = AsSpace(s)]
  /\ made' = made \cup {s}
  /\ role' = [role EXCEPT ![s] = [q \in People |-> IF q = p THEN "owner" ELSE IF q \in others THEN "viewer" ELSE "none"]]
  /\ log' = Append(log, touch(s, s))
  /\ Missed
  /\ UNCHANGED <<forgotten, device, stale>>

\* folderToSpace: it, and all that is under it, in the trash or not.
Moved(f) == Under(f)

folderToSpace(f, p, others) ==
  /\ Busy /\ nodeFor(f, "owner") /\ ~isRoot(f) /\ roleIn(node[f].space, p) = "owner"
  /\ node' = [n \in Nodes |->
       IF n = f THEN AsSpace(f)
       ELSE IF n \in Moved(f) THEN [node[n] EXCEPT !.space = f] ELSE node[n]]
  /\ role' = [role EXCEPT ![f] = [q \in People |-> IF q = p THEN "owner" ELSE IF q \in others THEN "viewer" ELSE "none"]]
  /\ Changed(f)
  /\ log' = log \o <<touch(f, node[f].space), touch(f, f)>>
  /\ Missed
  /\ UNCHANGED <<made, forgotten, device>>

\* forgetOldChanges: entries older than 90 days, some of which the device has yet to hear.
forgetOldChanges ==
  /\ log # <<>>
  /\ log' = <<>> /\ forgotten' = TRUE
  /\ UNCHANGED <<node, made, role, device, stale, blind>>

-----------------------------------------------------------------------------
(***************************************************************************)
(* The feed, and the device that follows it.                               *)
(***************************************************************************)

Visible(n) == Exists(n) /\ roleIn(node[n].space, Me) # "none" /\ ~inTrash(n)

\* Mutant: what a person's own rows say is left out.
Rows_SpacesOnly == {i \in 1..Len(log) : log[i].space # Nil /\ roleIn(log[i].space, Me) # "none"}

\* changesFor's query: the rows for the person, or of a space they are in now ...
Rows == {i \in 1..Len(log) :
           log[i].person = Me \/ (log[i].space # Nil /\ roleIn(log[i].space, Me) # "none")}

\* ... the latest of each node ...
Latest == {i \in Rows : \A j \in Rows : log[j].node = log[i].node => j <= i}

\* ... and the first of those that fit an answer.
Page == {i \in Latest : Cardinality({j \in Latest : j < i}) < Limit}

\* What stays of a copy: what still hangs together from a space's top folder.
Kept(h) == {n \in Nodes : \E m \in Walk(h, n) : h[m] = Nil}

\* The device is shown these where they are now, and told that those are gone.
ShownAs(these, those) == [n \in Nodes |-> IF n \in these THEN node[n].parent ELSE IF n \in those THEN Unheld ELSE held[n]]
Show(these, those, folders) ==
  LET h == ShownAs(these, those)
      kept == Kept(h)
  IN /\ held' = [n \in Nodes |-> IF n \in kept THEN h[n] ELSE Unheld]
     /\ opened' = (opened \cup folders) \cap (kept \cup {Top})
     /\ stale' = {n \in stale \ these : held'[n] # Unheld}

\* The cursor is one the log still answers.
Known == ~forgotten

\* The answer says it is gone, with its folder or its space, and what says that they are back
\* need not say so of it.
WentWith(n) == Exists(n) /\ ~Visible(n) /\ node[n].trashed = "no"

\* enumerateChanges: one answer, taken over whole.
Poll ==
  /\ Known /\ log # <<>>
  /\ LET page == Page
         news == {log[i].node : i \in page}
         here == {n \in news : Visible(n)}
     IN /\ log' = IF page # Latest THEN SubSeq(log, Max(page) + 1, Len(log)) ELSE <<>>
        /\ Show(here, news \ here, {})
        /\ blind' = (blind \ news) \cup {n \in news : WentWith(n)}
  /\ UNCHANGED <<node, made, role, forgotten>>

\* The answer is 410: the device forgets its copy and starts from the log's end.
StartOver ==
  /\ ~Known
  /\ log' = <<>> /\ forgotten' = FALSE
  /\ held' = [n \in Nodes |-> Unheld] /\ opened' = {} /\ stale' = {} /\ blind' = {}
  /\ UNCHANGED <<node, made, role>>

\* enumerateItems: the person opens the list of spaces, or a folder they see. What isn't in it
\* any more goes.
List(f, there, known) ==
  /\ f \notin opened
  /\ Show(there, known, {f})
  /\ blind' = blind \ there
  /\ UNCHANGED drive

OpenTop == List(Top, {s \in Spaces : Visible(s)}, {n \in Nodes : held[n] = Nil})
OpenFolder(f) ==
  /\ held[f] # Unheld /\ Visible(f)
  /\ List(f, {n \in Nodes : Visible(n) /\ node[n].parent = f}, {n \in Nodes : held[n] = f})

FeedNext ==
  \/ \E n \in Nodes :
       \/ change(n) \/ trashNode(n) \/ restoreNode(n)
       \/ \E f \in Folders : insert(n, f) \/ moveNode(n, f)
  \/ \E s \in Folders :
       \/ \E p \in People, r \in Roles : setMember(s, p, r)
       \/ \E p \in Makers : \E others \in SUBSET (People \ {p}) : createSpace(s, p, others) \/ folderToSpace(s, p, others)
  \/ \E s \in Folders : renameSpace(s) \/ OpenFolder(s)
  \/ forgetOldChanges \/ Age \/ emptyOldTrash \/ Poll \/ StartOver \/ OpenTop

FeedSpec == FeedInit /\ [][FeedNext]_feedVars

-----------------------------------------------------------------------------
(***************************************************************************)
(* Properties.                                                             *)
(***************************************************************************)

\* moveNode, restoreNode, folderToSpace and emptyOldTrash together: everything hangs, through
\* folders of its own space, from that space's top folder.
TreeSound == \A n \in Nodes : Exists(n) =>
  /\ node[n].space \in Chain(n) /\ isRoot(node[n].space)
  /\ node[n].parent # Nil => Exists(node[n].parent) /\ node[node[n].parent].space = node[n].space
  /\ node[n].parent # Nil => n \notin Chain(node[n].parent)

\* changes/route.ts, "for keeping a copy on a device in step": a device that has asked for all there
\* is shows nothing the person may not see or as it no longer is, except what changed in a space
\* they were not in, and in a folder that was opened nothing is missing.
CaughtUp == log = <<>> /\ ~forgotten
InStep == CaughtUp =>
  /\ \A n \in Nodes : held[n] # Unheld /\ Walk(held, n) \cap blind = {} => Visible(n) /\ held[n] = node[n].parent /\ n \notin stale
  /\ \A f \in opened \ {Top} : \A n \in Nodes \ blind : Visible(n) /\ node[n].parent = f => held[n] # Unheld
  /\ Top \in opened => \A s \in Spaces : Visible(s) => held[s] # Unheld

\* model.ts, "trashed longer than [trashDays]": what goes for good went to the trash that long ago,
\* by itself or with a folder; nothing that was put there since goes with it.
ThirtyDays == [][\A n \in Nodes : Exists(n) /\ ~Exists(n)' => node[n].trashed # "young" /\ inTrash(n)]_feedVars
=============================================================================
