--------------------------- MODULE DriveSyncProofs ---------------------------
(***************************************************************************)
(* Theorems about a chat's Drive sync, for any names, contents, edits,     *)
(* failures and restarts: its types, that the sandbox and Drive are the    *)
(* same after two undisturbed syncs, and that the action properties hold   *)
(* of every step: no file goes to the trash but one given up, and no edit  *)
(* is overwritten that is not kept under another name.                     *)
(*                                                                         *)
(* Agreement.  A row tells the truth of Drive's file for as long as the    *)
(* file has the version it names (RowsTrue).  The first undisturbed sync   *)
(* leaves Drive's side as the rows say (FirstSync), so the second carries  *)
(* only from the sandbox to Drive (SecondSync), and a third would have     *)
(* nothing to do (ThirdSync).                                              *)
(*                                                                         *)
(* The trash.  A row is dropped or changed for a reason (RowKept), a job   *)
(* goes on being what was planned from it (JobKept), so the file a job     *)
(* trashes was given up when it was planned (TrashGiven).                  *)
(*                                                                         *)
(* Edits.  Before a file is put over an agent's edit its copy is made      *)
(* (CopiesCopied), and what a path holds is known elsewhere or waits for   *)
(* its copy (PathSafe).                                                    *)
(***************************************************************************)
EXTENDS DriveSync, SequenceTheorems, FiniteSetTheorems, TLAPS

-----------------------------------------------------------------------------
(***************************************************************************)
(* Types.                                                                  *)
(***************************************************************************)

Files(f) == [path : Paths, home : 1..f, content : Contents, version : Nat, live : BOOLEAN]
Rows(D) == {NoRow} \cup [node : D, content : Contents, version : Nat]
Jobs(D) == [step : Steps, node : {None} \cup D, bytes : {None} \cup Contents, version : Nat]

\* A job with bytes has read them, and one that is about a file of Drive's names it.
JobOK(j) ==
  /\ j.step = "none" => j = NoJob
  /\ j.step \in {"add", "replace", "finish", "write", "record", "copy"} => j.bytes # None
  /\ j.step \in {"update", "replace", "finish", "trash", "put", "write", "record"} => j.node # None
  /\ j.step \in {"upload", "add", "delete", "unrecord", "forget"} => j.node = None
JobsOK == \A p \in Paths : JobOK(job[p])

\* A folder is made for each that goes to the trash, and a sync has one.
FolderOK ==
  /\ phase # "idle" => folderLive
  /\ folderLive => folder >= 1
  /\ folder <= mishaps + 1 /\ (~folderLive => folder <= mishaps)

Here(n) == nodes[n].live /\ nodes[n].home = folder
NamesApart == \A m, n \in DOMAIN nodes : Here(m) /\ Here(n) /\ nodes[m].path = nodes[n].path => m = n

Shape == TypeOK /\ JobsOK /\ FolderOK /\ NamesApart

LEMMA OneOf ==
  ASSUME NEW here, NEW x, x = IF here = {} THEN None ELSE CHOOSE n \in here : TRUE
  PROVE  (here = {} => x = None) /\ (here # {} => x \in here)
OBVIOUS

\* What Drive's files are.
LEMMA FilesAre ==
  ASSUME TypeOK
  PROVE  /\ Len(nodes) \in Nat /\ DOMAIN nodes = 1..Len(nodes) /\ None \notin DOMAIN nodes
         /\ \A n \in DOMAIN nodes : nodes[n] \in Files(folder)
<1>1. nodes \in Seq(Files(folder))
  BY DEF TypeOK, Files
<1> QED BY <1>1, LenProperties, ElementOfSeq DEF None

\* The file of a name, if there is one.
LEMMA FileAt ==
  ASSUME TypeOK, NEW p \in Paths
  PROVE  /\ nodeAt(p) # None => nodeAt(p) \in DOMAIN nodes /\ Here(nodeAt(p)) /\ nodes[nodeAt(p)].path = p
         /\ nodeAt(p) = None => \A n \in DOMAIN nodes : ~(Here(n) /\ nodes[n].path = p)
         /\ NamesApart => \A n \in DOMAIN nodes : Here(n) /\ nodes[n].path = p => nodeAt(p) = n
<1> DEFINE here == {n \in DOMAIN nodes : nodes[n].live /\ nodes[n].path = p /\ nodes[n].home = folder}
<1>1. nodeAt(p) = IF here = {} THEN None ELSE CHOOSE n \in here : TRUE
  BY DEF nodeAt
<1>2. (here = {} => nodeAt(p) = None) /\ (here # {} => nodeAt(p) \in here)
  <2> HIDE DEF here
  <2> QED BY <1>1, OneOf
<1>3. None \notin DOMAIN nodes
  BY FilesAre
<1> QED BY <1>2, <1>3 DEF Here, NamesApart

LEMMA FileAtNext ==
  ASSUME TypeOK', NEW p \in Paths
  PROVE  /\ nodeAt(p)' # None => nodeAt(p)' \in DOMAIN nodes' /\ Here(nodeAt(p))' /\ nodes'[nodeAt(p)'].path = p
         /\ nodeAt(p)' = None => \A n \in DOMAIN nodes' : ~(Here(n)' /\ nodes'[n].path = p)
         /\ NamesApart' => \A n \in DOMAIN nodes' : Here(n)' /\ nodes'[n].path = p => nodeAt(p)' = n
<1> DEFINE here == {n \in DOMAIN nodes' : nodes'[n].live /\ nodes'[n].path = p /\ nodes'[n].home = folder'}
<1>1. nodeAt(p)' = IF here = {} THEN None ELSE CHOOSE n \in here : TRUE
  BY DEF nodeAt
<1>2. (here = {} => nodeAt(p)' = None) /\ (here # {} => nodeAt(p)' \in here)
  <2> HIDE DEF here
  <2> QED BY <1>1, OneOf
<1>3. None \notin DOMAIN nodes'
  <2>1. nodes' \in Seq(Files(folder'))
    BY DEF TypeOK, Files
  <2> QED BY <2>1, LenProperties DEF None
<1> QED BY <1>2, <1>3 DEF Here, NamesApart

\* Files that come, get other bytes, or go to the trash and come back.
LEMMA FileComes ==
  ASSUME TypeOK, NEW e \in Files(folder), nodes' = Append(nodes, e), Len(nodes) < MaxNodes
  PROVE  /\ nodes' \in Seq(Files(folder)) /\ Len(nodes') = Len(nodes) + 1 /\ Len(nodes') <= MaxNodes
         /\ DOMAIN nodes' = DOMAIN nodes \cup {Len(nodes')} /\ Len(nodes') \notin DOMAIN nodes
         /\ nodes'[Len(nodes')] = e
         /\ \A n \in DOMAIN nodes : nodes'[n] = nodes[n]
<1>1. nodes \in Seq(Files(folder)) /\ MaxNodes \in Nat
  BY SyncAssumption DEF TypeOK, Files
<1>2. Len(nodes) \in Nat /\ DOMAIN nodes = 1..Len(nodes)
  BY FilesAre
<1>3. nodes' \in Seq(Files(folder)) /\ Len(nodes') = Len(nodes) + 1
  BY <1>1
<1>4. DOMAIN nodes' = 1..Len(nodes')
  BY <1>3, LenProperties
<1>5. nodes'[Len(nodes) + 1] = e /\ \A n \in 1..Len(nodes) : nodes'[n] = nodes[n]
  BY <1>1, <1>2
<1> QED BY <1>1, <1>2, <1>3, <1>4, <1>5

LEMMA FileReplaced ==
  ASSUME TypeOK, NEW n \in DOMAIN nodes, NEW c \in Contents,
         nodes' = [nodes EXCEPT ![n].content = c, ![n].version = @ + 1]
  PROVE  /\ nodes' \in Seq(Files(folder)) /\ Len(nodes') = Len(nodes) /\ DOMAIN nodes' = DOMAIN nodes
         /\ nodes'[n].content = c /\ nodes'[n].version = nodes[n].version + 1
         /\ nodes'[n].path = nodes[n].path /\ nodes'[n].home = nodes[n].home /\ nodes'[n].live = nodes[n].live
         /\ \A m \in DOMAIN nodes \ {n} : nodes'[m] = nodes[m]
<1> DEFINE e == [[nodes[n] EXCEPT !.content = c] EXCEPT !.version = @ + 1]
<1>1. nodes \in Seq(Files(folder)) /\ Len(nodes) \in Nat /\ DOMAIN nodes = 1..Len(nodes) /\ nodes[n] \in Files(folder)
  BY FilesAre DEF TypeOK, Files
<1>2. /\ e \in Files(folder) /\ e.content = c /\ e.version = nodes[n].version + 1
      /\ e.path = nodes[n].path /\ e.home = nodes[n].home /\ e.live = nodes[n].live
  BY <1>1 DEF Files
<1>3. nodes' = [nodes EXCEPT ![n] = e]
  BY <1>1
<1> HIDE DEF e
<1>4. [nodes EXCEPT ![n] = e] \in Seq(Files(folder)) /\ Len([nodes EXCEPT ![n] = e]) = Len(nodes)
  BY <1>1, <1>2, ExceptSeq
<1>5. nodes'[n] = e /\ \A m \in DOMAIN nodes \ {n} : nodes'[m] = nodes[m]
  BY <1>1, <1>3
<1> QED BY <1>1, <1>2, <1>3, <1>4, <1>5, LenProperties

LEMMA FileFlipped ==
  ASSUME TypeOK, NEW n \in DOMAIN nodes, NEW b \in BOOLEAN, nodes' = [nodes EXCEPT ![n].live = b]
  PROVE  /\ nodes' \in Seq(Files(folder)) /\ Len(nodes') = Len(nodes) /\ DOMAIN nodes' = DOMAIN nodes
         /\ nodes'[n].live = b /\ nodes'[n].content = nodes[n].content /\ nodes'[n].version = nodes[n].version
         /\ nodes'[n].path = nodes[n].path /\ nodes'[n].home = nodes[n].home
         /\ \A m \in DOMAIN nodes \ {n} : nodes'[m] = nodes[m]
<1> DEFINE e == [nodes[n] EXCEPT !.live = b]
<1>1. nodes \in Seq(Files(folder)) /\ Len(nodes) \in Nat /\ DOMAIN nodes = 1..Len(nodes) /\ nodes[n] \in Files(folder)
  BY FilesAre DEF TypeOK, Files
<1>2. /\ e \in Files(folder) /\ e.live = b /\ e.content = nodes[n].content /\ e.version = nodes[n].version
      /\ e.path = nodes[n].path /\ e.home = nodes[n].home
  BY <1>1 DEF Files
<1>3. nodes' = [nodes EXCEPT ![n] = e]
  BY <1>1
<1> HIDE DEF e
<1>4. [nodes EXCEPT ![n] = e] \in Seq(Files(folder)) /\ Len([nodes EXCEPT ![n] = e]) = Len(nodes)
  BY <1>1, <1>2, ExceptSeq
<1>5. nodes'[n] = e /\ \A m \in DOMAIN nodes \ {n} : nodes'[m] = nodes[m]
  BY <1>1, <1>3
<1> QED BY <1>1, <1>2, <1>3, <1>4, <1>5, LenProperties

-----------------------------------------------------------------------------
\* A file keeps its name and folder, and has other bytes only as another version.
Grow ==
  /\ DOMAIN nodes \subseteq DOMAIN nodes'
  /\ \A n \in DOMAIN nodes : /\ nodes'[n].path = nodes[n].path /\ nodes'[n].home = nodes[n].home
                             /\ \/ nodes'[n].version > nodes[n].version
                                \/ nodes'[n].version = nodes[n].version /\ nodes'[n].content = nodes[n].content
FilesNext == nodes' \in Seq(Files(folder)) /\ Len(nodes') <= MaxNodes /\ Grow /\ NamesApart'

LEMMA GrowOnly ==
  ASSUME TypeOK, nodes' = nodes
  PROVE  Grow
BY DEF Grow

LEMMA ComesNext ==
  ASSUME Shape, NEW e \in Files(folder), nodes' = Append(nodes, e), Len(nodes) < MaxNodes, nodeAt(e.path) = None,
         folder' = folder
  PROVE  FilesNext
<1>1. /\ nodes' \in Seq(Files(folder)) /\ Len(nodes') <= MaxNodes
      /\ DOMAIN nodes' = DOMAIN nodes \cup {Len(nodes')} /\ nodes'[Len(nodes')] = e
      /\ \A n \in DOMAIN nodes : nodes'[n] = nodes[n]
  BY FileComes DEF Shape
<1>2. \A n \in DOMAIN nodes : ~(Here(n) /\ nodes[n].path = e.path)
  BY FileAt DEF Shape, Files
<1>3. NamesApart'
  BY <1>1, <1>2 DEF NamesApart, Here, Shape
<1> QED BY <1>1, <1>3 DEF FilesNext, Grow

LEMMA ReplacedNext ==
  ASSUME Shape, NEW n \in DOMAIN nodes, NEW c \in Contents, folder' = folder,
         nodes' = [nodes EXCEPT ![n].content = c, ![n].version = @ + 1]
  PROVE  FilesNext
<1>1. /\ nodes' \in Seq(Files(folder)) /\ Len(nodes') = Len(nodes) /\ DOMAIN nodes' = DOMAIN nodes
      /\ nodes'[n].version = nodes[n].version + 1
      /\ nodes'[n].path = nodes[n].path /\ nodes'[n].home = nodes[n].home /\ nodes'[n].live = nodes[n].live
      /\ \A m \in DOMAIN nodes \ {n} : nodes'[m] = nodes[m]
  BY FileReplaced DEF Shape
<1>2. nodes[n].version \in Nat /\ Len(nodes) <= MaxNodes
  BY FilesAre DEF Shape, TypeOK, Files
<1>3. \A m \in DOMAIN nodes : (Here(m)' <=> Here(m)) /\ nodes'[m].path = nodes[m].path /\ nodes'[m].home = nodes[m].home
  BY <1>1 DEF Here
<1>4. NamesApart'
  BY <1>1, <1>3 DEF NamesApart, Shape
<1>5. Grow
  BY <1>1, <1>2, <1>3 DEF Grow
<1> QED BY <1>1, <1>2, <1>4, <1>5 DEF FilesNext

LEMMA FlippedNext ==
  ASSUME Shape, NEW n \in DOMAIN nodes, NEW b \in BOOLEAN, folder' = folder, nodes' = [nodes EXCEPT ![n].live = b],
         b => nodeAt(nodes[n].path) = None
  PROVE  FilesNext
<1>1. /\ nodes' \in Seq(Files(folder)) /\ Len(nodes') = Len(nodes) /\ DOMAIN nodes' = DOMAIN nodes
      /\ nodes'[n].live = b /\ nodes'[n].content = nodes[n].content /\ nodes'[n].version = nodes[n].version
      /\ nodes'[n].path = nodes[n].path /\ nodes'[n].home = nodes[n].home
      /\ \A m \in DOMAIN nodes \ {n} : nodes'[m] = nodes[m]
  BY FileFlipped DEF Shape
<1>2. nodes[n].path \in Paths /\ Len(nodes) <= MaxNodes
  BY FilesAre DEF Shape, TypeOK, Files
<1>3. b => \A m \in DOMAIN nodes : ~(Here(m) /\ nodes[m].path = nodes[n].path)
  BY <1>2, FileAt DEF Shape
<1>4. /\ \A m \in DOMAIN nodes \ {n} : Here(m)' <=> Here(m)
      /\ \A m \in DOMAIN nodes : nodes'[m].path = nodes[m].path
      /\ Here(n)' => b
  BY <1>1 DEF Here
<1>5. NamesApart'
  BY <1>1, <1>3, <1>4 DEF NamesApart, Shape
<1>6. Grow
  BY <1>1 DEF Grow
<1> QED BY <1>1, <1>2, <1>5, <1>6 DEF FilesNext

LEMMA RowsGrow ==
  ASSUME NEW D, NEW E, D \subseteq E
  PROVE  (\A r \in Rows(D) : r \in Rows(E)) /\ (\A j \in Jobs(D) : j \in Jobs(E))
BY DEF Rows, Jobs

LEMMA JobsAre ==
  /\ \A D : NoRow \in Rows(D) /\ NoJob \in Jobs(D) /\ JobOK(NoJob)
  /\ NoJob.step = "none" /\ NoJob.node = None /\ NoRow.node = None /\ NoRow.content = None /\ NoRow.version = 0
BY DEF Rows, Jobs, NoRow, NoJob, Steps, JobOK, None

\* What types say of a path.
LEMMA PathIs ==
  ASSUME Shape, NEW p \in Paths
  PROVE  /\ sandbox[p] \in {None} \cup Contents /\ listed[p] \in {None} \cup Contents
         /\ synced[p] \in Rows(DOMAIN nodes) /\ job[p] \in Jobs(DOMAIN nodes) /\ JobOK(job[p])
         /\ phase # "applying" => job[p] = NoJob
BY DEF Shape, TypeOK, Rows, Jobs, JobsOK

LEMMA PathsAre ==
  ASSUME Shape
  PROVE  synced \in [Paths -> Rows(DOMAIN nodes)] /\ job \in [Paths -> Jobs(DOMAIN nodes)]
BY DEF Shape, TypeOK, Rows, Jobs

-----------------------------------------------------------------------------
(***************************************************************************)
(* What each step of a path's job does.                                    *)
(***************************************************************************)

Holding == [Paths -> {None} \cup Contents]
Turns(p) ==
  /\ phase = "applying" /\ FilesNext
  /\ job' \in [Paths -> Jobs(DOMAIN nodes')] /\ JobOK(job'[p])
  /\ synced' \in [Paths -> Rows(DOMAIN nodes')]
  /\ sandbox' \in Holding /\ copied' \subseteq Contents
  /\ \A q \in Paths \ {p} : job'[q] = job[q] /\ synced'[q] = synced[q]
  /\ UNCHANGED <<folder, folderLive, phase, listed, notes, unlisted>>
Undisturbed == UNCHANGED <<calm, clean, mishaps>>

LEMMA TurnsBy ==
  ASSUME Shape, NEW p \in Paths, phase = "applying", FilesNext,
         NEW j \in Jobs(DOMAIN nodes'), JobOK(j), job' = [job EXCEPT ![p] = j],
         NEW r \in Rows(DOMAIN nodes'), synced' = [synced EXCEPT ![p] = r],
         sandbox' \in Holding, copied' \subseteq Contents,
         UNCHANGED <<folder, folderLive, phase, listed, notes, unlisted>>
  PROVE  Turns(p) /\ job'[p] = j /\ synced'[p] = r
<1>1. DOMAIN nodes \subseteq DOMAIN nodes'
  BY DEF FilesNext, Grow
<1>2. \A q \in Paths : job[q] \in Jobs(DOMAIN nodes') /\ synced[q] \in Rows(DOMAIN nodes')
  BY <1>1, RowsGrow, PathsAre
<1>3. /\ job' \in [Paths -> Jobs(DOMAIN nodes')] /\ job'[p] = j
      /\ \A q \in Paths \ {p} : job'[q] = job[q]
  BY <1>2, PathsAre
<1>4. /\ synced' \in [Paths -> Rows(DOMAIN nodes')] /\ synced'[p] = r
      /\ \A q \in Paths \ {p} : synced'[q] = synced[q]
  BY <1>2, PathsAre
<1> QED BY <1>3, <1>4 DEF Turns

LEMMA SameRow ==
  ASSUME Shape, NEW p \in Paths, FilesNext, synced' = synced
  PROVE  synced' = [synced EXCEPT ![p] = synced[p]] /\ synced[p] \in Rows(DOMAIN nodes')
<1>1. synced[p] \in Rows(DOMAIN nodes')
  BY RowsGrow, PathsAre DEF FilesNext, Grow
<1> QED BY <1>1, PathsAre

LEMMA SameFiles ==
  ASSUME Shape, nodes' = nodes, folder' = folder
  PROVE  FilesNext
BY GrowOnly DEF FilesNext, Shape, NamesApart, Here, TypeOK, Files

LEMMA TurnsShape ==
  ASSUME Shape, NEW p \in Paths, Turns(p), calm' \in 0..2, clean' \in BOOLEAN,
         mishaps' \in 0..MaxMishaps, mishaps <= mishaps'
  PROVE  Shape'
<1>1. TypeOK'
  BY DEF Shape, TypeOK, Turns, FilesNext, Files, Rows, Jobs, Holding, notes
<1>2. JobsOK'
  BY DEF Shape, JobsOK, Turns
<1>3. FolderOK'
  <2>1. folder \in Nat /\ mishaps \in Nat /\ mishaps' \in Nat
    BY SyncAssumption DEF Shape, TypeOK
  <2>2. /\ folderLive' = folderLive /\ phase' = phase
        /\ phase # "idle" => folderLive
        /\ folderLive => folder >= 1
        /\ ~folderLive => folder <= mishaps
    BY DEF Turns, Shape, FolderOK
  <2>3. folder' = folder /\ folder <= mishaps + 1
    BY DEF Turns, Shape, FolderOK
  <2>4. folder' <= mishaps' + 1
    <3>1. \A a, b, c \in Nat : a <= b + 1 /\ b <= c => a <= c + 1
      OBVIOUS
    <3> QED BY <2>1, <2>3, <3>1
  <2>5. folder <= mishaps => folder' <= mishaps'
    BY <2>1, <2>3
  <2> QED BY <2>2, <2>3, <2>4, <2>5 DEF FolderOK
<1>4. NamesApart'
  BY DEF Turns, FilesNext
<1> QED BY <1>1, <1>2, <1>3, <1>4 DEF Shape

LEMMA ReadFullDoes ==
  ASSUME Shape, NEW p \in Paths, ReadFull(p)
  PROVE  /\ Turns(p) /\ Undisturbed /\ UNCHANGED <<nodes, sandbox, synced, copied>>
         /\ sandbox[p] \in Contents /\ job'[p].bytes = sandbox[p] /\ job'[p].node = job[p].node
         /\ \/ job[p].step = "upload" /\ job'[p].step = "add"
            \/ job[p].step = "update" /\ job'[p].step = "replace"
            \/ job[p].step = "conflict" /\ job'[p].step = "copy"
<1>1. PICK next \in {<<"upload", "add">>, <<"update", "replace">>, <<"conflict", "copy">>} :
        At(p, next[1]) /\ job' = [job EXCEPT ![p].step = next[2], ![p].bytes = sandbox[p]]
  BY DEF ReadFull
<1> DEFINE j == [[job[p] EXCEPT !.step = next[2]] EXCEPT !.bytes = sandbox[p]]
<1>2. UNCHANGED <<sandbox, nodes, folder, folderLive, synced, phase, listed, notes, calm, clean, mishaps, unlisted, copied>>
  BY DEF ReadFull, driveVars
<1>3. /\ sandbox[p] \in Contents /\ job[p] \in Jobs(DOMAIN nodes) /\ JobOK(job[p]) /\ phase = "applying"
      /\ job[p].step = next[1]
  BY <1>1, PathIs DEF ReadFull, At
<1>4. /\ \/ next[1] = "upload" /\ next[2] = "add"
         \/ next[1] = "update" /\ next[2] = "replace"
         \/ next[1] = "conflict" /\ next[2] = "copy"
      /\ next[2] \in Steps
  BY DEF Steps
<1>5. j \in Jobs(DOMAIN nodes) /\ j.step = next[2] /\ j.bytes = sandbox[p] /\ j.node = job[p].node
  BY <1>3, <1>4 DEF Jobs
<1>6. job' = [job EXCEPT ![p] = j]
  BY <1>1, PathsAre
<1> HIDE DEF j
<1>7. JobOK(j)
  BY <1>3, <1>4, <1>5 DEF JobOK, None, Contents
<1>8. FilesNext /\ sandbox' \in Holding /\ copied' \subseteq Contents
  BY <1>2, SameFiles DEF Shape, TypeOK, Holding
<1>9. Turns(p) /\ job'[p] = j
  BY <1>2, <1>3, <1>5, <1>6, <1>7, <1>8, SameRow, TurnsBy
<1> QED BY <1>2, <1>3, <1>4, <1>5, <1>9 DEF Undisturbed

\* A new file, beside those there are.
Adds(c, name) ==
  LET n == Len(nodes') IN
  /\ n \notin DOMAIN nodes /\ DOMAIN nodes' = DOMAIN nodes \cup {n}
  /\ nodes'[n].path = freeName(name) /\ nodes'[n].home = folder /\ nodes'[n].content = c
  /\ nodes'[n].version = 1 /\ nodes'[n].live
  /\ \A m \in DOMAIN nodes : nodes'[m] = nodes[m]
  /\ nodeAt(freeName(name)) = None /\ freeName(name) \in Paths
\* Other bytes in a file.
Replaces(n, c) ==
  /\ DOMAIN nodes' = DOMAIN nodes
  /\ nodes'[n].path = nodes[n].path /\ nodes'[n].home = nodes[n].home /\ nodes'[n].live = nodes[n].live
  /\ nodes'[n].content = c /\ nodes'[n].version = nodes[n].version + 1
  /\ \A m \in DOMAIN nodes \ {n} : nodes'[m] = nodes[m]
\* A file goes to the trash, or comes back.
Flips(n, b) ==
  /\ DOMAIN nodes' = DOMAIN nodes
  /\ nodes'[n].path = nodes[n].path /\ nodes'[n].home = nodes[n].home /\ nodes'[n].live = b
  /\ nodes'[n].content = nodes[n].content /\ nodes'[n].version = nodes[n].version
  /\ \A m \in DOMAIN nodes \ {n} : nodes'[m] = nodes[m]

LEMMA AddsFile ==
  ASSUME Shape, NEW p \in Paths, NEW name, job[p].bytes \in Contents, phase = "applying", folder' = folder,
         addFile(p, name)
  PROVE  FilesNext /\ Adds(job[p].bytes, name) /\ Len(nodes') = Len(nodes) + 1
<1> DEFINE e == [path |-> freeName(name), home |-> folder, content |-> job[p].bytes, version |-> 1, live |-> TRUE]
<1>1. freeName(name) \in Paths /\ nodeAt(freeName(name)) = None /\ Len(nodes) < MaxNodes /\ nodes' = Append(nodes, e)
  BY DEF addFile
<1>2. folder \in 1..folder
  BY SyncAssumption DEF Shape, FolderOK, TypeOK
<1>3. e \in Files(folder) /\ e.path = freeName(name)
  BY <1>1, <1>2 DEF Files
<1>4. /\ e.home = folder /\ e.content = job[p].bytes /\ e.version = 1 /\ e.live
  OBVIOUS
<1> HIDE DEF e
<1>5. FilesNext
  BY <1>1, <1>3, ComesNext
<1>6. /\ DOMAIN nodes' = DOMAIN nodes \cup {Len(nodes')} /\ Len(nodes') \notin DOMAIN nodes
      /\ nodes'[Len(nodes')] = e /\ \A n \in DOMAIN nodes : nodes'[n] = nodes[n]
      /\ Len(nodes') = Len(nodes) + 1
  BY <1>1, <1>3, FileComes DEF Shape
<1> QED BY <1>1, <1>3, <1>4, <1>5, <1>6 DEF Adds

LEMMA FinishesUpload ==
  ASSUME Shape, NEW p \in Paths, job[p].bytes \in Contents, job[p].node \in DOMAIN nodes, phase = "applying",
         folder' = folder, finishUpload(p)
  PROVE  LET n == job[p].node IN
         /\ FilesNext
         /\ \/ /\ nodes[n].live /\ nodes[n].version = job[p].version
               /\ Replaces(n, job[p].bytes) /\ FinishedNode(p) = n
            \/ /\ ~(nodes[n].live /\ nodes[n].version = job[p].version)
               /\ Adds(job[p].bytes, IF nodes[n].live THEN conflictName(p) ELSE p)
               /\ FinishedNode(p) = Len(nodes')
<1> DEFINE n == job[p].node
           name == IF nodes[n].live THEN conflictName(p) ELSE p
<1>0. Len(nodes) \in Nat
  BY FilesAre DEF Shape
<1>1. CASE nodes[n].live /\ nodes[n].version = job[p].version
  <2>1. nodes' = [nodes EXCEPT ![n].content = job[p].bytes, ![n].version = @ + 1]
    BY <1>1 DEF finishUpload
  <2>2. FilesNext
    BY <2>1, ReplacedNext
  <2>3. Replaces(n, job[p].bytes) /\ Len(nodes') = Len(nodes)
    BY <2>1, FileReplaced DEF Replaces, Shape
  <2>4. FinishedNode(p) = n
    BY <1>0, <2>3 DEF FinishedNode
  <2> QED BY <1>1, <2>2, <2>3, <2>4
<1>2. CASE ~(nodes[n].live /\ nodes[n].version = job[p].version)
  <2>1. addFile(p, name)
    BY <1>2 DEF finishUpload
  <2> HIDE DEF name
  <2>2. FilesNext /\ Adds(job[p].bytes, name) /\ Len(nodes') = Len(nodes) + 1
    BY <2>1, AddsFile
  <2>3. FinishedNode(p) = Len(nodes')
    BY <1>0, <2>2 DEF FinishedNode
  <2> QED BY <1>2, <2>2, <2>3 DEF name
<1> QED BY <1>1, <1>2

\* What a job at a step has.
LEMMA JobHas ==
  ASSUME Shape, NEW p \in Paths, phase = "applying"
  PROVE  /\ job[p] \in Jobs(DOMAIN nodes) /\ JobOK(job[p])
         /\ job[p].step \in {"add", "replace", "finish", "write", "record", "copy"} => job[p].bytes \in Contents
         /\ job[p].step \in {"update", "replace", "finish", "trash", "put", "write", "record"}
              => job[p].node \in DOMAIN nodes
         /\ job[p].node \in {None} \cup DOMAIN nodes /\ job[p].version \in Nat
BY PathIs DEF Jobs, JobOK

\* The step ends the job.
LEMMA EndsBy ==
  ASSUME Shape, NEW p \in Paths, phase = "applying", FilesNext, Ends(p),
         NEW r \in Rows(DOMAIN nodes'), synced' = [synced EXCEPT ![p] = r],
         sandbox' \in Holding, copied' \subseteq Contents,
         UNCHANGED <<folder, folderLive, phase, listed, notes, unlisted>>
  PROVE  Turns(p) /\ job'[p] = NoJob /\ synced'[p] = r
BY JobsAre, TurnsBy DEF Ends

LEMMA UploadAddDoes ==
  ASSUME Shape, NEW p \in Paths, UploadAdd(p)
  PROVE  /\ Turns(p) /\ Undisturbed /\ UNCHANGED <<sandbox, copied>>
         /\ job[p].step = "add" /\ job'[p] = NoJob /\ job[p].bytes \in Contents
         /\ Adds(job[p].bytes, p)
         /\ synced'[p] = [node |-> Len(nodes'), content |-> job[p].bytes, version |-> 1]
<1> DEFINE r == [node |-> Len(nodes'), content |-> job[p].bytes, version |-> 1]
<1>1. /\ phase = "applying" /\ job[p].step = "add" /\ addFile(p, p) /\ synced' = [synced EXCEPT ![p] = r] /\ Ends(p)
      /\ UNCHANGED <<sandbox, folder, folderLive, phase, listed, notes, calm, clean, mishaps, unlisted, copied>>
  BY DEF UploadAdd, At, recordSynced
<1>2. job[p].bytes \in Contents
  BY <1>1, JobHas
<1>3. FilesNext /\ Adds(job[p].bytes, p)
  BY <1>1, <1>2, AddsFile
<1>4. r \in Rows(DOMAIN nodes')
  BY <1>2, <1>3 DEF Adds, Rows
<1> HIDE DEF r
<1>5. sandbox' \in Holding /\ copied' \subseteq Contents
  BY <1>1 DEF Shape, TypeOK, Holding
<1>6. Turns(p) /\ job'[p] = NoJob /\ synced'[p] = r
  BY <1>1, <1>3, <1>4, <1>5, EndsBy
<1> QED BY <1>1, <1>2, <1>3, <1>6 DEF Undisturbed, r

LEMMA UpdateReplaceDoes ==
  ASSUME Shape, NEW p \in Paths, UpdateReplace(p)
  PROVE  /\ Turns(p) /\ Undisturbed /\ UNCHANGED <<nodes, sandbox, synced, copied>>
         /\ job[p].step = "replace" /\ job'[p].step = "finish" /\ job[p].node \in DOMAIN nodes
         /\ job'[p].bytes = job[p].bytes /\ job'[p].node = job[p].node
         /\ job'[p].version = nodes[job[p].node].version
<1> DEFINE v == nodes[job[p].node].version
           j == [[job[p] EXCEPT !.step = "finish"] EXCEPT !.version = v]
<1>1. /\ phase = "applying" /\ job[p].step = "replace"
      /\ job' = [job EXCEPT ![p].step = "finish", ![p].version = v]
      /\ UNCHANGED <<sandbox, nodes, folder, folderLive, synced, phase, listed, notes, calm, clean, mishaps, unlisted, copied>>
  BY DEF UpdateReplace, At, driveVars
<1>2. job[p] \in Jobs(DOMAIN nodes) /\ job[p].bytes # None /\ job[p].node \in DOMAIN nodes
  BY <1>1, JobHas DEF None, Contents
<1>3. v \in Nat
  BY <1>2, FilesAre DEF Shape, Files
<1> HIDE DEF v
<1>4. job' = [job EXCEPT ![p] = j]
  BY <1>1, PathsAre
<1>5. /\ j \in Jobs(DOMAIN nodes) /\ j.step = "finish" /\ j.bytes = job[p].bytes /\ j.node = job[p].node
      /\ j.version = v
  BY <1>2, <1>3 DEF Jobs, Steps
<1> HIDE DEF j
<1>6. JobOK(j)
  BY <1>2, <1>5, FilesAre DEF JobOK, Shape
<1>7. FilesNext /\ sandbox' \in Holding /\ copied' \subseteq Contents
  BY <1>1, SameFiles DEF Shape, TypeOK, Holding
<1>8. Turns(p) /\ job'[p] = j
  BY <1>1, <1>4, <1>5, <1>6, <1>7, SameRow, TurnsBy
<1> QED BY <1>1, <1>2, <1>5, <1>8 DEF Undisturbed, v

LEMMA UpdateFinishDoes ==
  ASSUME Shape, NEW p \in Paths, UpdateFinish(p)
  PROVE  LET n == job[p].node IN
         /\ Turns(p) /\ Undisturbed /\ UNCHANGED <<sandbox, copied>>
         /\ job[p].step = "finish" /\ job'[p] = NoJob /\ job[p].bytes \in Contents /\ n \in DOMAIN nodes
         /\ \/ /\ nodes[n].live /\ nodes[n].version = job[p].version
               /\ Replaces(n, job[p].bytes) /\ FinishedNode(p) = n
            \/ /\ ~(nodes[n].live /\ nodes[n].version = job[p].version)
               /\ Adds(job[p].bytes, IF nodes[n].live THEN conflictName(p) ELSE p)
               /\ FinishedNode(p) = Len(nodes')
         /\ synced'[p] = [node |-> FinishedNode(p), content |-> job[p].bytes, version |-> nodes'[FinishedNode(p)].version]
<1> DEFINE m == FinishedNode(p)
           r == [node |-> m, content |-> job[p].bytes, version |-> nodes'[m].version]
<1>1. /\ phase = "applying" /\ job[p].step = "finish" /\ finishUpload(p) /\ synced' = [synced EXCEPT ![p] = r] /\ Ends(p)
      /\ UNCHANGED <<sandbox, folder, folderLive, phase, listed, notes, calm, clean, mishaps, unlisted, copied>>
  BY DEF UpdateFinish, At, recordSynced
<1>2. job[p].bytes \in Contents /\ job[p].node \in DOMAIN nodes
  BY <1>1, JobHas
<1>3. /\ FilesNext
      /\ \/ /\ nodes[job[p].node].live /\ nodes[job[p].node].version = job[p].version
            /\ Replaces(job[p].node, job[p].bytes) /\ m = job[p].node
         \/ /\ ~(nodes[job[p].node].live /\ nodes[job[p].node].version = job[p].version)
            /\ Adds(job[p].bytes, IF nodes[job[p].node].live THEN conflictName(p) ELSE p)
            /\ m = Len(nodes')
  BY <1>1, <1>2, FinishesUpload
<1> HIDE DEF m
<1>4. m \in DOMAIN nodes' /\ nodes'[m].version \in Nat
  <2>1. m \in DOMAIN nodes'
    BY <1>2, <1>3 DEF Replaces, Adds
  <2>2. nodes' \in Seq(Files(folder))
    BY <1>3 DEF FilesNext
  <2>3. nodes'[m] \in Files(folder)
    BY <2>1, <2>2, LenProperties
  <2> QED BY <2>1, <2>3 DEF Files
<1>5. r \in Rows(DOMAIN nodes')
  BY <1>2, <1>4 DEF Rows
<1> HIDE DEF r
<1>6. sandbox' \in Holding /\ copied' \subseteq Contents
  BY <1>1 DEF Shape, TypeOK, Holding
<1>7. Turns(p) /\ job'[p] = NoJob /\ synced'[p] = r
  BY <1>1, <1>3, <1>5, <1>6, EndsBy
<1> QED BY <1>1, <1>2, <1>3, <1>7 DEF Undisturbed, r, m

LEMMA TrashDoes ==
  ASSUME Shape, NEW p \in Paths, Trash(p)
  PROVE  /\ Turns(p) /\ Undisturbed /\ UNCHANGED <<sandbox, copied>>
         /\ job[p].step = "trash" /\ job'[p] = NoJob /\ synced'[p] = NoRow /\ job[p].node \in DOMAIN nodes
         /\ Flips(job[p].node, FALSE)
<1>1. /\ phase = "applying" /\ job[p].step = "trash" /\ synced' = [synced EXCEPT ![p] = NoRow] /\ Ends(p)
      /\ nodes' = [nodes EXCEPT ![job[p].node].live = FALSE]
      /\ UNCHANGED <<sandbox, folder, folderLive, phase, listed, notes, calm, clean, mishaps, unlisted, copied>>
  BY DEF Trash, At, Forgotten
<1>2. job[p].node \in DOMAIN nodes
  BY <1>1, JobHas
<1>3. FilesNext
  BY <1>1, <1>2, FlippedNext
<1>4. Flips(job[p].node, FALSE)
  BY <1>1, <1>2, FileFlipped DEF Shape, Flips
<1>5. sandbox' \in Holding /\ copied' \subseteq Contents
  BY <1>1 DEF Shape, TypeOK, Holding
<1>6. Turns(p) /\ job'[p] = NoJob /\ synced'[p] = NoRow
  BY <1>1, <1>3, <1>5, JobsAre, EndsBy
<1> QED BY <1>1, <1>2, <1>4, <1>6 DEF Undisturbed

\* A step that only takes the job further.
LEMMA FurtherBy ==
  ASSUME Shape, NEW p \in Paths, phase = "applying", NEW j \in Jobs(DOMAIN nodes), JobOK(j),
         job' = [job EXCEPT ![p] = j], sandbox' \in Holding, copied' \subseteq Contents,
         UNCHANGED <<nodes, synced, folder, folderLive, phase, listed, notes, unlisted>>
  PROVE  Turns(p) /\ job'[p] = j
BY SameFiles, SameRow, TurnsBy

LEMMA PutReadDoes ==
  ASSUME Shape, NEW p \in Paths, PutRead(p)
  PROVE  LET n == job[p].node IN
         /\ Turns(p) /\ Undisturbed /\ UNCHANGED <<nodes, sandbox, synced, copied>>
         /\ job[p].step = "put" /\ job'[p].step = "write" /\ n \in DOMAIN nodes /\ nodes[n].live
         /\ job'[p].node = n /\ job'[p].bytes = nodes[n].content /\ job'[p].version = nodes[n].version
<1> DEFINE n == job[p].node
           j == [[[job[p] EXCEPT !.step = "write"] EXCEPT !.bytes = nodes[n].content] EXCEPT !.version = nodes[n].version]
<1>1. /\ phase = "applying" /\ job[p].step = "put" /\ nodes[n].live
      /\ job' = [job EXCEPT ![p].step = "write", ![p].bytes = nodes[n].content, ![p].version = nodes[n].version]
      /\ UNCHANGED <<sandbox, nodes, folder, folderLive, synced, phase, listed, notes, calm, clean, mishaps, unlisted, copied>>
  BY DEF PutRead, At, driveVars
<1>2. job[p] \in Jobs(DOMAIN nodes) /\ n \in DOMAIN nodes
  BY <1>1, JobHas
<1>3. nodes[n].content \in Contents /\ nodes[n].version \in Nat /\ n # None
  BY <1>2, FilesAre DEF Shape, Files
<1>4. job' = [job EXCEPT ![p] = j]
  BY <1>1, PathsAre
<1>5. /\ j \in Jobs(DOMAIN nodes) /\ j.step = "write" /\ j.bytes = nodes[n].content /\ j.node = n
      /\ j.version = nodes[n].version
  BY <1>2, <1>3 DEF Jobs, Steps
<1> HIDE DEF j
<1>6. JobOK(j)
  BY <1>3, <1>5 DEF JobOK, None, Contents
<1>7. sandbox' \in Holding /\ copied' \subseteq Contents
  BY <1>1 DEF Shape, TypeOK, Holding
<1>8. Turns(p) /\ job'[p] = j
  BY <1>1, <1>4, <1>5, <1>6, <1>7, FurtherBy
<1> QED BY <1>1, <1>2, <1>5, <1>8 DEF Undisturbed

\* The step goes on to another.
LEMMA GoesBy ==
  ASSUME Shape, NEW p \in Paths, phase = "applying", NEW s \in Steps, Goes(p, s), JobOK([job[p] EXCEPT !.step = s]),
         sandbox' \in Holding, copied' \subseteq Contents,
         UNCHANGED <<nodes, synced, folder, folderLive, phase, listed, notes, unlisted>>
  PROVE  /\ Turns(p) /\ job'[p].step = s /\ job'[p].node = job[p].node /\ job'[p].bytes = job[p].bytes
         /\ job'[p].version = job[p].version
<1> DEFINE j == [job[p] EXCEPT !.step = s]
<1>1. job[p] \in Jobs(DOMAIN nodes)
  BY JobHas
<1>2. /\ j \in Jobs(DOMAIN nodes) /\ j.step = s /\ j.node = job[p].node /\ j.bytes = job[p].bytes
      /\ j.version = job[p].version
  BY <1>1 DEF Jobs
<1>3. job' = [job EXCEPT ![p] = j] /\ JobOK(j)
  BY PathsAre DEF Goes
<1> HIDE DEF j
<1> QED BY <1>2, <1>3, FurtherBy

LEMMA PutWriteDoes ==
  ASSUME Shape, NEW p \in Paths, PutWrite(p)
  PROVE  /\ Turns(p) /\ Undisturbed /\ UNCHANGED <<nodes, synced, copied>>
         /\ job[p].step = "write" /\ job'[p].step = "record" /\ job[p].node \in DOMAIN nodes /\ job[p].bytes \in Contents
         /\ job'[p].node = job[p].node /\ job'[p].bytes = job[p].bytes /\ job'[p].version = job[p].version
         /\ sandbox'[p] = job[p].bytes /\ \A q \in Paths \ {p} : sandbox'[q] = sandbox[q]
<1>1. /\ phase = "applying" /\ job[p].step = "write" /\ sandbox' = [sandbox EXCEPT ![p] = job[p].bytes] /\ Goes(p, "record")
      /\ UNCHANGED <<nodes, folder, folderLive, synced, phase, listed, notes, calm, clean, mishaps, unlisted, copied>>
  BY DEF PutWrite, At, driveVars
<1>2. job[p].bytes \in Contents /\ job[p].node \in DOMAIN nodes /\ job[p] \in Jobs(DOMAIN nodes)
  BY <1>1, JobHas
<1>3. sandbox' \in Holding /\ sandbox'[p] = job[p].bytes /\ \A q \in Paths \ {p} : sandbox'[q] = sandbox[q]
  BY <1>1, <1>2 DEF Shape, TypeOK, Holding
<1>4. JobOK([job[p] EXCEPT !.step = "record"])
  BY <1>2, FilesAre DEF JobOK, Jobs, Shape, None, Contents
<1>5. "record" \in Steps /\ copied' \subseteq Contents
  BY <1>1 DEF Steps, Shape, TypeOK
<1> QED BY <1>1, <1>2, <1>3, <1>4, <1>5, GoesBy DEF Undisturbed

LEMMA PutRecordDoes ==
  ASSUME Shape, NEW p \in Paths, PutRecord(p)
  PROVE  /\ Turns(p) /\ Undisturbed /\ UNCHANGED <<nodes, sandbox, copied>>
         /\ job[p].step = "record" /\ job'[p] = NoJob /\ job[p].node \in DOMAIN nodes /\ job[p].bytes \in Contents
         /\ synced'[p] = [node |-> job[p].node, content |-> job[p].bytes, version |-> job[p].version]
<1> DEFINE r == [node |-> job[p].node, content |-> job[p].bytes, version |-> job[p].version]
<1>1. /\ phase = "applying" /\ job[p].step = "record" /\ synced' = [synced EXCEPT ![p] = r] /\ Ends(p)
      /\ UNCHANGED <<nodes, sandbox, folder, folderLive, phase, listed, notes, calm, clean, mishaps, unlisted, copied>>
  BY DEF PutRecord, At, recordSynced, driveVars
<1>2. job[p].bytes \in Contents /\ job[p].node \in DOMAIN nodes /\ job[p].version \in Nat
  BY <1>1, JobHas
<1>3. r \in Rows(DOMAIN nodes')
  BY <1>1, <1>2 DEF Rows
<1> HIDE DEF r
<1>4. FilesNext /\ sandbox' \in Holding /\ copied' \subseteq Contents
  BY <1>1, SameFiles DEF Shape, TypeOK, Holding
<1>5. Turns(p) /\ job'[p] = NoJob /\ synced'[p] = r
  BY <1>1, <1>3, <1>4, EndsBy
<1> QED BY <1>1, <1>2, <1>5 DEF Undisturbed, r

LEMMA DeleteDoes ==
  ASSUME Shape, NEW p \in Paths, Delete(p)
  PROVE  /\ Turns(p) /\ Undisturbed /\ UNCHANGED <<nodes, synced, copied>>
         /\ job[p].step = "delete" /\ job'[p].step = "unrecord" /\ job[p].node = None /\ job'[p].node = None
         /\ sandbox'[p] = None /\ \A q \in Paths \ {p} : sandbox'[q] = sandbox[q]
<1>1. /\ phase = "applying" /\ job[p].step = "delete" /\ sandbox' = [sandbox EXCEPT ![p] = None] /\ Goes(p, "unrecord")
      /\ UNCHANGED <<nodes, folder, folderLive, synced, phase, listed, notes, calm, clean, mishaps, unlisted, copied>>
  BY DEF Delete, At, driveVars
<1>2. job[p].node = None /\ job[p] \in Jobs(DOMAIN nodes)
  BY <1>1, JobHas DEF JobOK
<1>3. sandbox' \in Holding /\ sandbox'[p] = None /\ \A q \in Paths \ {p} : sandbox'[q] = sandbox[q]
  BY <1>1, <1>2 DEF Shape, TypeOK, Holding
<1>4. JobOK([job[p] EXCEPT !.step = "unrecord"])
  BY <1>2 DEF JobOK, Jobs
<1>5. "unrecord" \in Steps /\ copied' \subseteq Contents
  BY <1>1 DEF Steps, Shape, TypeOK
<1> QED BY <1>1, <1>2, <1>3, <1>4, <1>5, GoesBy DEF Undisturbed

LEMMA ForgetDoes ==
  ASSUME Shape, NEW p \in Paths, Forget(p)
  PROVE  /\ Turns(p) /\ Undisturbed /\ UNCHANGED <<nodes, sandbox, copied>>
         /\ job[p].step \in {"unrecord", "forget"} /\ job[p].node = None /\ job'[p] = NoJob /\ synced'[p] = NoRow
<1>1. /\ phase = "applying" /\ job[p].step \in {"unrecord", "forget"} /\ synced' = [synced EXCEPT ![p] = NoRow] /\ Ends(p)
      /\ UNCHANGED <<nodes, sandbox, folder, folderLive, phase, listed, notes, calm, clean, mishaps, unlisted, copied>>
  BY DEF Forget, At, Forgotten, driveVars
<1>2. job[p].node = None
  BY <1>1, JobHas DEF JobOK
<1>3. FilesNext /\ sandbox' \in Holding /\ copied' \subseteq Contents
  BY <1>1, SameFiles DEF Shape, TypeOK, Holding
<1>4. Turns(p) /\ job'[p] = NoJob /\ synced'[p] = NoRow
  BY <1>1, <1>3, JobsAre, EndsBy
<1> QED BY <1>1, <1>2, <1>4 DEF Undisturbed

LEMMA ConflictCopyDoes ==
  ASSUME Shape, NEW p \in Paths, ConflictCopy(p)
  PROVE  /\ Turns(p) /\ Undisturbed /\ UNCHANGED <<nodes, synced>> /\ copied' = copied \cup {job[p].bytes}
         /\ job[p].step = "copy" /\ job'[p].step = (IF job[p].node = None THEN "delete" ELSE "put")
         /\ job'[p].node = job[p].node /\ job[p].bytes \in Contents /\ agentCopyName(p) \in Paths
         /\ sandbox'[agentCopyName(p)] = job[p].bytes /\ \A q \in Paths \ {agentCopyName(p)} : sandbox'[q] = sandbox[q]
<1> DEFINE s == IF job[p].node = None THEN "delete" ELSE "put"
           a == agentCopyName(p)
<1>1. /\ phase = "applying" /\ job[p].step = "copy" /\ a \in Paths /\ sandbox' = [sandbox EXCEPT ![a] = job[p].bytes]
      /\ Goes(p, s) /\ copied' = copied \cup {job[p].bytes}
      /\ UNCHANGED <<nodes, folder, folderLive, synced, phase, listed, notes, calm, clean, mishaps, unlisted>>
  BY DEF ConflictCopy, At, driveVars
<1> HIDE DEF a
<1>2. job[p].bytes \in Contents /\ job[p] \in Jobs(DOMAIN nodes)
  BY <1>1, JobHas
<1>3. sandbox' \in Holding /\ sandbox'[a] = job[p].bytes /\ \A q \in Paths \ {a} : sandbox'[q] = sandbox[q]
  BY <1>1, <1>2 DEF Shape, TypeOK, Holding
<1>4. JobOK([job[p] EXCEPT !.step = s])
  BY <1>2 DEF JobOK, Jobs
<1>5. s \in Steps /\ copied' \subseteq Contents
  BY <1>1, <1>2 DEF Steps, Shape, TypeOK
<1> HIDE DEF s
<1>6. /\ Turns(p) /\ job'[p].step = s /\ job'[p].node = job[p].node
  BY <1>1, <1>3, <1>4, <1>5, GoesBy
<1> QED BY <1>1, <1>2, <1>3, <1>6 DEF Undisturbed, a, s

LEMMA GivesUpDoes ==
  ASSUME Shape, NEW p \in Paths, GivesUp(p)
  PROVE  /\ Turns(p) /\ Disturbed /\ UNCHANGED <<nodes, sandbox, synced, copied>> /\ job'[p] = NoJob
<1>1. /\ phase = "applying" /\ Ends(p) /\ Disturbed
      /\ UNCHANGED <<nodes, sandbox, synced, folder, folderLive, phase, listed, notes, unlisted, copied>>
  BY DEF GivesUp, driveVars
<1>2. sandbox' \in Holding /\ copied' \subseteq Contents
  BY <1>1 DEF Shape, TypeOK, Holding
<1>3. Turns(p) /\ job'[p] = NoJob
  BY <1>1, <1>2, JobsAre, FurtherBy DEF Ends
<1> QED BY <1>1, <1>3

-----------------------------------------------------------------------------
\* An edit leaves alone what the sync has.
Edits ==
  /\ FilesNext /\ sandbox' \in Holding /\ agents' \subseteq Contents /\ superseded' \subseteq Contents /\ leftOut' \subseteq Edited
  /\ edits < MaxEdits /\ edits' = edits + 1 /\ Disturbed
  /\ UNCHANGED <<folder, folderLive, synced, phase, listed, job, racer, mishaps, unlisted, copied>>

LEMMA DisturbedIs ==
  ASSUME Disturbed
  PROVE  calm' \in 0..2 /\ clean' \in BOOLEAN
<1>1. calm' \in 0..2
  BY DEF Disturbed
<1>2. clean' \in BOOLEAN
  BY DEF Disturbed
<1> QED BY <1>1, <1>2

LEMMA EditsShape ==
  ASSUME Shape, Edits
  PROVE  Shape'
<1>1. edits' \in 0..MaxEdits
  BY SyncAssumption DEF Edits, Shape, TypeOK
<1>2. /\ synced' \in [Paths -> Rows(DOMAIN nodes')] /\ job' \in [Paths -> Jobs(DOMAIN nodes')]
  <2>1. \A q \in Paths : job[q] \in Jobs(DOMAIN nodes') /\ synced[q] \in Rows(DOMAIN nodes')
    BY RowsGrow, PathsAre DEF Edits, FilesNext, Grow
  <2>2. synced' = synced /\ job' = job
    BY DEF Edits
  <2> QED BY <2>1, <2>2, PathsAre
<1>3. TypeOK'
  <2>0. calm' \in 0..2 /\ clean' \in BOOLEAN
    BY DisturbedIs DEF Edits
  <2>1. /\ nodes' \in Seq(Files(folder)) /\ Len(nodes') <= MaxNodes
        /\ sandbox' \in Holding /\ agents' \subseteq Contents /\ superseded' \subseteq Contents /\ leftOut' \subseteq Edited
        /\ UNCHANGED <<folder, folderLive, phase, listed, job, racer, mishaps, unlisted, copied>>
    BY DEF Edits, FilesNext
  <2>2. /\ folder \in 0..MaxMishaps + 1 /\ folderLive \in BOOLEAN /\ phase \in {"idle", "listing", "listed", "applying"}
        /\ listed \in Holding /\ copied \subseteq Contents /\ unlisted \subseteq Contents /\ racer \in Racers
        /\ mishaps \in 0..MaxMishaps /\ (phase # "applying" => \A p \in Paths : job[p] = NoJob)
    BY DEF Shape, TypeOK, Holding
  <2> QED BY <1>1, <1>2, <2>0, <2>1, <2>2 DEF TypeOK, Files, Rows, Jobs, Holding
<1>4. JobsOK'
  BY DEF Shape, JobsOK, Edits
<1>5. FolderOK'
  BY DEF Shape, FolderOK, Edits
<1>6. NamesApart'
  BY DEF Edits, FilesNext
<1> QED BY <1>3, <1>4, <1>5, <1>6 DEF Shape

LEMMA NextContent ==
  ASSUME Shape, edits < MaxEdits, edits' = edits + 1
  PROVE  edits' \in Contents /\ edits' # None
BY SyncAssumption DEF Shape, TypeOK, Contents, None

LEMMA AgentWritesDoes ==
  ASSUME Shape, AgentWrites
  PROVE  /\ Edits /\ UNCHANGED <<nodes, leftOut>> /\ (phase = "idle" \/ racer = "agent") /\ agents' = agents \cup {edits'}
         /\ \E p \in Edited : /\ p \in Paths /\ sandbox'[p] = edits' /\ \A q \in Paths \ {p} : sandbox'[q] = sandbox[q]
                              /\ superseded' = superseded \cup ({sandbox[p]} \ {None})
<1>1. PICK p \in Edited :
        /\ MayEdit("agent") /\ sandbox' = [sandbox EXCEPT ![p] = edits'] /\ agents' = agents \cup {edits'}
        /\ superseded' = superseded \cup ({sandbox[p]} \ {None}) /\ Disturbed
        /\ UNCHANGED <<nodes, folder, folderLive, synced, phase, listed, job, racer, leftOut, mishaps, unlisted, copied>>
  BY DEF AgentWrites, driveVars, syncVars
<1>2. p \in Paths /\ edits < MaxEdits /\ edits' = edits + 1 /\ (phase = "idle" \/ racer = "agent")
  BY <1>1, SyncAssumption DEF MayEdit
<1>3. edits' \in Contents /\ sandbox \in Holding
  BY <1>2, NextContent DEF Shape, TypeOK, Holding
<1>4. sandbox' \in Holding /\ sandbox'[p] = edits' /\ \A q \in Paths \ {p} : sandbox'[q] = sandbox[q]
  BY <1>1, <1>2, <1>3 DEF Holding
<1>5. sandbox[p] \in {None} \cup Contents /\ agents \subseteq Contents /\ superseded \subseteq Contents /\ leftOut \subseteq Edited
  BY <1>2 DEF Shape, TypeOK
<1>6. FilesNext
  BY <1>1, SameFiles
<1>7. Edits
  BY <1>1, <1>2, <1>3, <1>4, <1>5, <1>6 DEF Edits
<1> QED BY <1>1, <1>2, <1>4, <1>7

LEMMA AgentRemovesDoes ==
  ASSUME Shape, AgentRemoves
  PROVE  /\ Edits /\ UNCHANGED <<nodes, leftOut, agents>> /\ (phase = "idle" \/ racer = "agent")
         /\ \E p \in Edited : /\ p \in Paths /\ sandbox'[p] = None /\ \A q \in Paths \ {p} : sandbox'[q] = sandbox[q]
                              /\ superseded' = superseded \cup {sandbox[p]}
<1>1. PICK p \in Edited :
        /\ MayEdit("agent") /\ sandbox[p] # None /\ sandbox' = [sandbox EXCEPT ![p] = None]
        /\ superseded' = superseded \cup {sandbox[p]} /\ Disturbed
        /\ UNCHANGED <<nodes, folder, folderLive, synced, phase, listed, job, agents, racer, leftOut, mishaps, unlisted, copied>>
  BY DEF AgentRemoves, driveVars, syncVars
<1>2. p \in Paths /\ edits < MaxEdits /\ edits' = edits + 1 /\ (phase = "idle" \/ racer = "agent")
  BY <1>1, SyncAssumption DEF MayEdit
<1>3. sandbox \in Holding
  BY DEF Shape, TypeOK, Holding
<1>4. sandbox' \in Holding /\ sandbox'[p] = None /\ \A q \in Paths \ {p} : sandbox'[q] = sandbox[q]
  BY <1>1, <1>2, <1>3 DEF Holding
<1>5. sandbox[p] \in Contents /\ agents \subseteq Contents /\ superseded \subseteq Contents /\ leftOut \subseteq Edited
  BY <1>1, <1>2 DEF Shape, TypeOK
<1>6. FilesNext
  BY <1>1, SameFiles
<1>7. Edits
  BY <1>1, <1>2, <1>4, <1>5, <1>6 DEF Edits
<1> QED BY <1>1, <1>2, <1>4, <1>7

LEMMA AgentIgnoresDoes ==
  ASSUME Shape, AgentIgnores
  PROVE  Edits /\ UNCHANGED <<nodes, sandbox, agents, superseded>> /\ (phase = "idle" \/ racer = "agent")
<1>1. PICK p \in Edited :
        /\ MayEdit("agent") /\ leftOut' = (IF p \in leftOut THEN leftOut \ {p} ELSE leftOut \cup {p}) /\ Disturbed
        /\ UNCHANGED <<sandbox, nodes, folder, folderLive, synced, phase, listed, job, agents, superseded, racer, mishaps,
                       unlisted, copied>>
  BY DEF AgentIgnores, driveVars, syncVars
<1>2. edits < MaxEdits /\ edits' = edits + 1 /\ (phase = "idle" \/ racer = "agent")
  BY <1>1 DEF MayEdit
<1>3. /\ sandbox' \in Holding /\ agents' \subseteq Contents /\ superseded' \subseteq Contents /\ leftOut' \subseteq Edited
  BY <1>1 DEF Shape, TypeOK, Holding
<1>4. FilesNext
  BY <1>1, SameFiles
<1> QED BY <1>1, <1>2, <1>3, <1>4 DEF Edits

LEMMA PersonWritesDoes ==
  ASSUME Shape, PersonWrites
  PROVE  /\ Edits /\ UNCHANGED <<sandbox, leftOut, agents>> /\ (phase = "idle" \/ racer = "person") /\ superseded \subseteq superseded'
         /\ \E p \in Edited : \/ Adds(edits', p)
                              \/ /\ nodeAt(p) \in DOMAIN nodes /\ Replaces(nodeAt(p), edits')
                                 /\ nodes[nodeAt(p)].content \in superseded'
<1>1. PICK p \in Edited :
        /\ MayEdit("person") /\ folderLive
        /\ LET n == nodeAt(p) IN
           IF n = None
           THEN /\ Len(nodes) < MaxNodes
                /\ nodes' = Append(nodes, [path |-> p, home |-> folder, content |-> edits', version |-> 1, live |-> TRUE])
                /\ UNCHANGED superseded
           ELSE /\ nodes' = [nodes EXCEPT ![n].content = edits', ![n].version = @ + 1]
                /\ superseded' = superseded \cup {nodes[n].content}
        /\ Disturbed
        /\ UNCHANGED <<sandbox, folder, folderLive, synced, phase, listed, job, agents, racer, leftOut, mishaps, unlisted, copied>>
  BY DEF PersonWrites, syncVars
<1>2. p \in Paths /\ edits < MaxEdits /\ edits' = edits + 1 /\ (phase = "idle" \/ racer = "person")
  BY <1>1, SyncAssumption DEF MayEdit
<1>3. edits' \in Contents
  BY <1>2, NextContent
<1>4. /\ sandbox' \in Holding /\ agents' \subseteq Contents /\ superseded \subseteq Contents /\ leftOut' \subseteq Edited
  BY <1>1 DEF Shape, TypeOK, Holding
<1>5. CASE nodeAt(p) = None
  <2> DEFINE e == [path |-> p, home |-> folder, content |-> edits', version |-> 1, live |-> TRUE]
  <2>1. Len(nodes) < MaxNodes /\ nodes' = Append(nodes, e) /\ superseded' = superseded
    BY <1>1, <1>5
  <2>2. folder \in 1..folder
    BY <1>1, SyncAssumption DEF Shape, FolderOK, TypeOK
  <2>3. e \in Files(folder) /\ e.path = p /\ e.home = folder /\ e.content = edits' /\ e.version = 1 /\ e.live
    BY <1>2, <1>3, <2>2 DEF Files
  <2> HIDE DEF e
  <2>4. FilesNext
    BY <1>1, <1>5, <2>1, <2>3, ComesNext
  <2>5. freeName(p) = p
    BY <1>5 DEF freeName
  <2>6. Adds(edits', p)
    BY <1>2, <1>5, <2>1, <2>3, <2>5, FileComes DEF Adds, Shape
  <2>7. Edits
    BY <1>1, <1>2, <1>4, <2>1, <2>4 DEF Edits
  <2> QED BY <1>1, <1>2, <2>1, <2>6, <2>7
<1>6. CASE nodeAt(p) # None
  <2> DEFINE n == nodeAt(p)
  <2>1. n \in DOMAIN nodes
    BY <1>2, <1>6, FileAt DEF Shape
  <2>2. nodes' = [nodes EXCEPT ![n].content = edits', ![n].version = @ + 1] /\ superseded' = superseded \cup {nodes[n].content}
    BY <1>1, <1>6
  <2>3. nodes[n].content \in Contents
    BY <2>1, FilesAre DEF Files, Shape
  <2> HIDE DEF n
  <2>4. FilesNext
    BY <1>1, <1>3, <2>1, <2>2, ReplacedNext
  <2>5. Replaces(n, edits')
    BY <1>3, <2>1, <2>2, FileReplaced DEF Replaces, Shape
  <2>6. Edits
    BY <1>1, <1>2, <1>4, <2>2, <2>3, <2>4 DEF Edits
  <2> QED BY <1>1, <1>2, <2>1, <2>2, <2>5, <2>6 DEF n
<1> QED BY <1>5, <1>6

LEMMA PersonTrashesDoes ==
  ASSUME Shape, PersonTrashes
  PROVE  /\ Edits /\ UNCHANGED <<sandbox, leftOut, agents>> /\ (phase = "idle" \/ racer = "person") /\ superseded \subseteq superseded'
         /\ \E n \in DOMAIN nodes : Flips(n, FALSE) /\ nodes[n].content \in superseded'
<1>1. PICK p \in Edited :
        /\ MayEdit("person") /\ nodeAt(p) # None /\ nodes' = [nodes EXCEPT ![nodeAt(p)].live = FALSE]
        /\ superseded' = superseded \cup {nodes[nodeAt(p)].content} /\ Disturbed
        /\ UNCHANGED <<sandbox, folder, folderLive, synced, phase, listed, job, agents, racer, leftOut, mishaps, unlisted, copied>>
  BY DEF PersonTrashes, syncVars
<1>2. p \in Paths /\ edits < MaxEdits /\ edits' = edits + 1 /\ (phase = "idle" \/ racer = "person")
  BY <1>1, SyncAssumption DEF MayEdit
<1> DEFINE n == nodeAt(p)
<1>3. n \in DOMAIN nodes
  BY <1>1, <1>2, FileAt DEF Shape
<1>4. nodes' = [nodes EXCEPT ![n].live = FALSE] /\ superseded' = superseded \cup {nodes[n].content}
  BY <1>1
<1> HIDE DEF n
<1>5. /\ sandbox' \in Holding /\ agents' \subseteq Contents /\ superseded \subseteq Contents /\ leftOut' \subseteq Edited
  BY <1>1 DEF Shape, TypeOK, Holding
<1>6. nodes[n].content \in Contents
  BY <1>3, FilesAre DEF Files, Shape
<1>7. FilesNext
  BY <1>1, <1>3, <1>4, FlippedNext
<1>8. Flips(n, FALSE)
  BY <1>3, <1>4, FileFlipped DEF Flips, Shape
<1>9. Edits
  BY <1>1, <1>2, <1>4, <1>5, <1>6, <1>7 DEF Edits
<1> QED BY <1>1, <1>2, <1>3, <1>4, <1>8, <1>9

LEMMA PersonRestoresDoes ==
  ASSUME Shape, PersonRestores
  PROVE  /\ Edits /\ UNCHANGED <<sandbox, leftOut, agents, superseded>> /\ (phase = "idle" \/ racer = "person")
         /\ \E n \in DOMAIN nodes : Flips(n, TRUE)
<1>1. PICK n \in DOMAIN nodes :
        /\ MayEdit("person") /\ nodeAt(nodes[n].path) = None /\ nodes' = [nodes EXCEPT ![n].live = TRUE] /\ Disturbed
        /\ UNCHANGED <<sandbox, folder, folderLive, synced, phase, listed, job, agents, superseded, racer, leftOut, mishaps,
                       unlisted, copied>>
  BY DEF PersonRestores, syncVars
<1>2. edits < MaxEdits /\ edits' = edits + 1 /\ (phase = "idle" \/ racer = "person")
  BY <1>1 DEF MayEdit
<1>3. /\ sandbox' \in Holding /\ agents' \subseteq Contents /\ superseded' \subseteq Contents /\ leftOut' \subseteq Edited
  BY <1>1 DEF Shape, TypeOK, Holding
<1>4. FilesNext
  BY <1>1, FlippedNext
<1>5. Flips(n, TRUE)
  BY <1>1, FileFlipped DEF Flips, Shape
<1>6. Edits
  BY <1>1, <1>2, <1>3, <1>4 DEF Edits
<1> QED BY <1>1, <1>2, <1>5, <1>6

-----------------------------------------------------------------------------
\* What the other steps keep of the types.

LEMMA FolderShape ==
  ASSUME Shape, PersonTrashesFolder
  PROVE  Shape'
<1>1. /\ folderLive /\ folderLive' = FALSE /\ mishaps' = mishaps + 1 /\ mishaps < MaxMishaps /\ phase = "idle"
      /\ calm' = 0 /\ clean' = FALSE
      /\ UNCHANGED <<sandbox, nodes, folder, synced, phase, listed, job, edits, agents, superseded, racer, leftOut, unlisted, copied>>
  BY DEF PersonTrashesFolder, Disturbed, Mishap, syncVars, notes
<1>2. mishaps' \in 0..MaxMishaps
  <2>1. mishaps \in 0..MaxMishaps /\ MaxMishaps \in Nat
    BY SyncAssumption DEF Shape, TypeOK
  <2>2. mishaps < MaxMishaps /\ mishaps' = mishaps + 1
    BY <1>1
  <2> QED BY <2>1, <2>2
<1>3. TypeOK'
  <2>1. calm' \in 0..2 /\ clean' \in BOOLEAN
    BY DisturbedIs DEF PersonTrashesFolder
  <2>2. folderLive' \in BOOLEAN
    BY <1>1
  <2> QED BY <1>1, <1>2, <2>1, <2>2 DEF Shape, TypeOK
<1>4. FolderOK'
  <2>1. folder <= mishaps + 1
    BY DEF Shape, FolderOK
  <2>2. folder \in Nat /\ mishaps \in Nat /\ folder' = folder
    BY <1>1, SyncAssumption DEF Shape, TypeOK
  <2>3. folder' <= mishaps' /\ folder' <= mishaps' + 1
    BY <1>1, <2>1, <2>2
  <2> QED BY <1>1, <2>3 DEF FolderOK
<1>5. JobsOK' /\ NamesApart'
  BY <1>1 DEF Shape, JobsOK, NamesApart, Here
<1> QED BY <1>3, <1>4, <1>5 DEF Shape

\* The folder stays, and failed calls only count up.
LEMMA FolderStays ==
  ASSUME Shape, UNCHANGED <<folder, folderLive>>, phase' # "idle" => phase # "idle",
         mishaps' = mishaps \/ (mishaps < MaxMishaps /\ mishaps' = mishaps + 1)
  PROVE  FolderOK' /\ mishaps' \in 0..MaxMishaps
<1>1. mishaps \in 0..MaxMishaps /\ MaxMishaps \in Nat /\ folder \in Nat
  BY SyncAssumption DEF Shape, TypeOK
<1>2. mishaps' \in 0..MaxMishaps /\ mishaps <= mishaps'
  BY <1>1
<1>3. folder <= mishaps + 1 /\ (folder <= mishaps => folder' <= mishaps')
  BY <1>1, <1>2 DEF Shape, FolderOK
<1>4. folder' <= mishaps' + 1
  <2>1. \A a, b, c \in Nat : a <= b + 1 /\ b <= c => a <= c + 1
    OBVIOUS
  <2>2. mishaps \in Nat /\ mishaps' \in Nat /\ folder' = folder
    BY <1>1, <1>2
  <2> QED BY <1>1, <1>2, <1>3, <2>1, <2>2
<1> QED BY <1>2, <1>3, <1>4 DEF Shape, FolderOK

LEMMA StartedOverShape ==
  ASSUME Shape, sandboxStartedOver
  PROVE  Shape'
<1>1. /\ mishaps' = mishaps + 1 /\ mishaps < MaxMishaps /\ calm' = 0 /\ clean' = FALSE
      /\ sandbox' = [p \in Paths |-> None] /\ synced' = [p \in Paths |-> NoRow]
      /\ UNCHANGED <<nodes, folder, folderLive, phase, listed, job, edits, agents, superseded, racer, leftOut, unlisted, copied>>
  BY DEF sandboxStartedOver, Disturbed, Mishap, syncVars, notes, driveVars
<1>2. FolderOK' /\ mishaps' \in 0..MaxMishaps
  BY <1>1, FolderStays
<1>3. TypeOK'
  <2>1. calm' \in 0..2 /\ clean' \in BOOLEAN
    BY DisturbedIs DEF sandboxStartedOver
  <2>2. sandbox' \in Holding /\ synced' \in [Paths -> Rows(DOMAIN nodes')]
    BY <1>1, JobsAre DEF Holding
  <2> QED BY <1>1, <1>2, <2>1, <2>2 DEF Shape, TypeOK, Holding, Rows
<1>4. JobsOK' /\ NamesApart'
  BY <1>1 DEF Shape, JobsOK, NamesApart, Here
<1> QED BY <1>2, <1>3, <1>4 DEF Shape

LEMMA SyncStartShape ==
  ASSUME Shape, SyncStart
  PROVE  Shape'
<1>1. /\ phase = "idle" /\ phase' = "listing" /\ folderLive' /\ clean' = TRUE
      /\ folder' = (IF folderLive THEN folder ELSE folder + 1)
      /\ synced' = (IF folderLive THEN synced ELSE [p \in Paths |-> NoRow])
      /\ UNCHANGED <<sandbox, nodes, listed, job, edits, agents, superseded, racer, leftOut, calm, mishaps, unlisted, copied>>
  BY DEF SyncStart, notes
<1>2. folder \in Nat /\ mishaps \in 0..MaxMishaps /\ MaxMishaps \in Nat
  BY SyncAssumption DEF Shape, TypeOK
<1>3. folder <= mishaps + 1 /\ (~folderLive => folder <= mishaps) /\ (folderLive => folder >= 1)
  BY DEF Shape, FolderOK
<1>4. folder' \in Nat /\ folder <= folder' /\ folder' >= 1 /\ folder' <= mishaps' + 1 /\ folder' \in 0..MaxMishaps + 1
  <2>1. CASE folderLive
    BY <1>1, <1>2, <1>3, <2>1
  <2>2. CASE ~folderLive
    BY <1>1, <1>2, <1>3, <2>2
  <2> QED BY <2>1, <2>2
<1>5. FolderOK'
  BY <1>1, <1>4 DEF FolderOK
<1>6. nodes' \in Seq(Files(folder'))
  <2>1. Files(folder) \subseteq Files(folder')
    BY <1>2, <1>4 DEF Files
  <2>2. nodes \in Seq(Files(folder))
    BY DEF Shape, TypeOK, Files
  <2> QED BY <1>1, <2>1, <2>2, SeqMonotonic
<1>7. TypeOK'
  <2>1. synced' \in [Paths -> Rows(DOMAIN nodes')]
    BY <1>1, PathsAre, JobsAre
  <2>2. folderLive' \in BOOLEAN
    BY DEF SyncStart
  <2> QED BY <1>1, <1>4, <1>6, <2>1, <2>2 DEF Shape, TypeOK, Files, Rows
<1>8. NamesApart'
  <2>1. CASE folderLive
    BY <1>1, <2>1 DEF Shape, NamesApart, Here
  <2>2. CASE ~folderLive
    <3>1. \A n \in DOMAIN nodes' : nodes'[n].home <= folder /\ nodes'[n].home \in Nat
      BY <1>1, FilesAre DEF Shape, Files
    <3>2. folder' > folder
      BY <1>1, <1>2, <2>2
    <3>3. \A n \in DOMAIN nodes' : nodes'[n].home # folder'
      BY <1>2, <1>4, <3>1, <3>2
    <3> QED BY <3>3 DEF NamesApart, Here
  <2> QED BY <2>1, <2>2
<1>9. JobsOK'
  BY <1>1 DEF Shape, JobsOK
<1> QED BY <1>5, <1>7, <1>8, <1>9 DEF Shape

LEMMA ListedShape ==
  ASSUME Shape, Listed
  PROVE  Shape'
<1>1. /\ phase = "listing" /\ phase' = "listed"
      /\ listed' = [p \in Paths |-> IF p \in leftOut THEN None ELSE sandbox[p]]
      /\ unlisted' = unlisted \cup ({sandbox[p] : p \in leftOut} \ {None})
      /\ UNCHANGED <<sandbox, nodes, folder, folderLive, synced, job, edits, agents, superseded, racer, leftOut, copied, calm,
                     clean, mishaps>>
  BY DEF Listed, notes, driveVars
<1>2. FolderOK'
  BY <1>1, FolderStays
<1>3. unlisted' \subseteq Contents /\ listed' \in Holding
  <2>1. leftOut \subseteq Paths /\ sandbox \in Holding /\ unlisted \subseteq Contents
    BY SyncAssumption DEF Shape, TypeOK, Holding
  <2> QED BY <1>1, <2>1 DEF Holding
<1>4. TypeOK'
  BY <1>1, <1>3 DEF Shape, TypeOK, Holding
<1>5. JobsOK' /\ NamesApart'
  BY <1>1 DEF Shape, JobsOK, NamesApart, Here
<1> QED BY <1>2, <1>4, <1>5 DEF Shape

\* The plan is one of a few steps, each for a difference it saw.
LEMMA PlannedIs ==
  ASSUME Shape, NEW p \in Paths, phase = "listed"
  PROVE  LET d == nodeAt(p)
             row == synced[p]
             sandboxChanged == listed[p] # row.content
             driveChanged == d # row.node \/ (IF d = None THEN 0 ELSE nodes[d].version) # row.version
             j == Planned(p)
         IN /\ j \in Jobs(DOMAIN nodes) /\ JobOK(j)
            /\ j = NoJob <=> ~sandboxChanged /\ ~driveChanged
            /\ j # NoJob => j.node = d
            /\ j.step \in {"none", "trash", "upload", "update", "delete", "put", "conflict", "forget"}
            /\ j.step \in {"trash", "upload", "update"} => sandboxChanged /\ ~driveChanged
            /\ j.step \in {"put", "delete", "conflict", "forget"} => driveChanged
            /\ j.step = "trash" <=> sandboxChanged /\ ~driveChanged /\ listed[p] = None
            /\ j.step = "put" => ~sandboxChanged \/ listed[p] = None
            /\ j.step = "delete" => ~sandboxChanged
            /\ j.step = "conflict" => sandboxChanged
<1> DEFINE d == nodeAt(p)
           row == synced[p]
           version == IF d = None THEN 0 ELSE nodes[d].version
           sandboxChanged == listed[p] # row.content
           driveChanged == d # row.node \/ version # row.version
           kind == planSync(row, listed[p], d, version)
<1>1. d \in {None} \cup DOMAIN nodes /\ row \in Rows(DOMAIN nodes)
  BY FileAt, PathsAre DEF Shape
<1>2. /\ row = NoRow => row.node = None /\ row.content = None /\ row.version = 0
      /\ row # NoRow => row.node \in DOMAIN nodes /\ row.node # None /\ row.content # None
  BY <1>1, JobsAre, FilesAre DEF Rows, None, Contents, Shape
<1>3. Planned(p) = IF kind = "none" THEN NoJob ELSE [NoJob EXCEPT !.step = kind, !.node = d]
  BY DEF Planned
<1> HIDE DEF version, d, row
<1>4. /\ kind \in {"none", "trash", "upload", "update", "delete", "put", "conflict", "forget"}
      /\ kind = "none" <=> ~sandboxChanged /\ ~driveChanged
      /\ kind \in {"trash", "upload", "update"} => sandboxChanged /\ ~driveChanged
      /\ kind \in {"put", "delete", "conflict", "forget"} => driveChanged
      /\ kind = "trash" <=> sandboxChanged /\ ~driveChanged /\ listed[p] = None
      /\ kind = "put" => (~sandboxChanged \/ listed[p] = None) /\ d # None
      /\ kind = "delete" => ~sandboxChanged /\ d = None
      /\ kind = "conflict" => sandboxChanged
      /\ kind = "upload" => d = None
      /\ kind = "update" => d # None
      /\ kind = "trash" => d # None
      /\ kind = "forget" => d = None
  BY <1>2 DEF planSync
<1> HIDE DEF kind, sandboxChanged, driveChanged
<1>5. CASE kind = "none"
  <2>1. Planned(p) = NoJob
    BY <1>3, <1>5
  <2> QED BY <1>4, <1>5, <2>1, JobsAre DEF d, row, version, sandboxChanged, driveChanged
<1>6. CASE kind # "none"
  <2> DEFINE j == [[NoJob EXCEPT !.step = kind] EXCEPT !.node = d]
  <2>1. Planned(p) = j
    BY <1>3, <1>6 DEF NoJob
  <2>2. j \in Jobs(DOMAIN nodes) /\ j.step = kind /\ j.node = d
    BY <1>1, <1>4 DEF NoJob, Jobs, Steps
  <2> HIDE DEF j
  <2>3. JobOK(j) /\ j # NoJob
    BY <1>4, <1>6, <2>2, JobsAre DEF JobOK
  <2>4. /\ Planned(p) \in Jobs(DOMAIN nodes) /\ JobOK(Planned(p)) /\ Planned(p) # NoJob
        /\ Planned(p).node = d /\ Planned(p).step = kind /\ (sandboxChanged \/ driveChanged)
    BY <1>4, <1>6, <2>1, <2>2, <2>3
  <2> QED BY <1>4, <1>6, <2>4 DEF d, row, version, sandboxChanged, driveChanged
<1> QED BY <1>5, <1>6

LEMMA PlanShape ==
  ASSUME Shape, Plan
  PROVE  Shape'
<1>1. /\ phase = "listed" /\ phase' = "applying" /\ job' = [p \in Paths |-> Planned(p)]
      /\ UNCHANGED <<sandbox, nodes, folder, folderLive, synced, listed, edits, agents, superseded, racer, leftOut, copied, calm,
                     clean, mishaps, unlisted>>
  BY DEF Plan, notes, driveVars
<1>2. FolderOK'
  BY <1>1, FolderStays
<1>3. \A p \in Paths : Planned(p) \in Jobs(DOMAIN nodes) /\ JobOK(Planned(p))
  BY <1>1, PlannedIs
<1>4. TypeOK'
  <2>1. job' \in [Paths -> Jobs(DOMAIN nodes')]
    BY <1>1, <1>3
  <2> QED BY <1>1, <2>1 DEF Shape, TypeOK, Jobs
<1>5. JobsOK' /\ NamesApart'
  BY <1>1, <1>3 DEF Shape, JobsOK, NamesApart, Here
<1> QED BY <1>2, <1>4, <1>5 DEF Shape

\* Whatever ends a sync forgets its listing and its jobs.
LEMMA OverShape ==
  ASSUME Shape, phase' = "idle", listed' = [p \in Paths |-> None], job' = [p \in Paths |-> NoJob], FilesNext,
         calm' \in 0..2, clean' \in BOOLEAN, mishaps' = mishaps \/ (mishaps < MaxMishaps /\ mishaps' = mishaps + 1),
         UNCHANGED <<sandbox, folder, folderLive, synced, edits, agents, superseded, racer, leftOut, unlisted, copied>>
  PROVE  Shape'
<1>1. FolderOK' /\ mishaps' \in 0..MaxMishaps
  BY FolderStays
<1>2. synced' \in [Paths -> Rows(DOMAIN nodes')] /\ job' \in [Paths -> Jobs(DOMAIN nodes')] /\ listed' \in Holding
  <2>1. \A q \in Paths : synced[q] \in Rows(DOMAIN nodes')
    BY RowsGrow, PathsAre DEF FilesNext, Grow
  <2> QED BY <2>1, PathsAre, JobsAre DEF Holding
<1>3. TypeOK'
  <2>1. nodes' \in Seq(Files(folder')) /\ Len(nodes') <= MaxNodes
    BY DEF FilesNext
  <2> QED BY <1>1, <1>2, <2>1 DEF Shape, TypeOK, Files, Rows, Jobs, Holding
<1>4. JobsOK' /\ NamesApart'
  BY JobsAre DEF JobsOK, FilesNext
<1> QED BY <1>1, <1>3, <1>4 DEF Shape

LEMMA SyncEndDoes ==
  ASSUME Shape, SyncEnd
  PROVE  /\ Shape' /\ phase = "applying" /\ phase' = "idle" /\ (\A p \in Paths : job[p] = NoJob) /\ job' = job
         /\ listed' = [p \in Paths |-> None]
         /\ calm' = (IF ~clean THEN 0 ELSE IF calm < 2 THEN calm + 1 ELSE 2) /\ clean' = FALSE
         /\ UNCHANGED <<sandbox, nodes, folder, folderLive, synced, edits, agents, superseded, racer, leftOut, mishaps, unlisted,
                        copied>>
<1>1. /\ phase = "applying" /\ phase' = "idle" /\ (\A p \in Paths : job[p] = NoJob) /\ job' = job
      /\ listed' = [p \in Paths |-> None]
      /\ calm' = (IF ~clean THEN 0 ELSE IF calm < 2 THEN calm + 1 ELSE 2) /\ clean' = FALSE
      /\ UNCHANGED <<sandbox, nodes, folder, folderLive, synced, edits, agents, superseded, racer, leftOut, mishaps, unlisted,
                     copied>>
  BY DEF SyncEnd, notes, driveVars
<1>2. job' = [p \in Paths |-> NoJob]
  BY <1>1, PathsAre
<1>3. calm' \in 0..2
  <2>1. calm \in 0..2
    BY DEF Shape, TypeOK
  <2>2. calm' \in {0, 2, calm + 1} /\ (calm' = calm + 1 => calm < 2 \/ calm' = 2 \/ calm' = 0)
    BY <1>1
  <2> QED BY <2>1, <2>2
<1>4. clean' \in BOOLEAN /\ FilesNext
  BY <1>1, SameFiles
<1>5. Shape'
  BY <1>1, <1>2, <1>3, <1>4, OverShape
<1> QED BY <1>1, <1>5

LEMMA SyncFailsDoes ==
  ASSUME Shape, SyncFails
  PROVE  /\ Shape' /\ phase # "idle" /\ phase' = "idle" /\ job' = job /\ Disturbed /\ listed' = [p \in Paths |-> None]
         /\ UNCHANGED <<sandbox, nodes, folder, folderLive, synced, edits, agents, superseded, racer, leftOut, unlisted, copied>>
<1>1. /\ phase \in {"listing", "listed"} /\ phase' = "idle" /\ job' = job /\ Disturbed /\ listed' = [p \in Paths |-> None]
      /\ mishaps < MaxMishaps /\ mishaps' = mishaps + 1
      /\ UNCHANGED <<sandbox, nodes, folder, folderLive, synced, edits, agents, superseded, racer, leftOut, unlisted, copied>>
  BY DEF SyncFails, Mishap, notes, driveVars
<1>2. job' = [p \in Paths |-> NoJob]
  BY <1>1, PathsAre DEF Shape, TypeOK
<1>3. Shape'
  BY <1>1, <1>2, SameFiles, DisturbedIs, OverShape
<1> QED BY <1>1, <1>3

LEMMA StopsDoes ==
  ASSUME Shape, Stops, FilesNext
  PROVE  /\ Shape' /\ phase # "idle" /\ phase' = "idle" /\ Disturbed /\ job' = [p \in Paths |-> NoJob]
         /\ listed' = [p \in Paths |-> None]
         /\ UNCHANGED <<sandbox, folder, folderLive, synced, edits, agents, superseded, racer, leftOut, unlisted, copied>>
<1>1. /\ phase # "idle" /\ phase' = "idle" /\ job' = [p \in Paths |-> NoJob] /\ Disturbed /\ listed' = [p \in Paths |-> None]
      /\ mishaps < MaxMishaps /\ mishaps' = mishaps + 1
      /\ UNCHANGED <<sandbox, folder, folderLive, synced, edits, agents, superseded, racer, leftOut, unlisted, copied>>
  BY DEF Stops, Mishap, notes
<1>2. Shape'
  BY <1>1, DisturbedIs, OverShape
<1> QED BY <1>1, <1>2

\* What a sync that stops unrecorded leaves in Drive.
LEMMA UnrecordedDoes ==
  ASSUME Shape, NEW p \in Paths, StopsUnrecorded(p)
  PROVE  /\ FilesNext /\ Stops /\ phase = "applying" /\ job[p].bytes \in Contents
         /\ \/ job[p].step = "add" /\ Adds(job[p].bytes, p)
            \/ LET n == job[p].node IN
               /\ job[p].step = "finish" /\ n \in DOMAIN nodes
               /\ \/ nodes[n].live /\ nodes[n].version = job[p].version /\ Replaces(n, job[p].bytes)
                  \/ Adds(job[p].bytes, IF nodes[n].live THEN conflictName(p) ELSE p)
<1>1. Stops /\ folder' = folder
  BY DEF StopsUnrecorded, Stops
<1>2. CASE At(p, "add") /\ addFile(p, p)
  <2>1. phase = "applying" /\ job[p].step = "add" /\ job[p].bytes \in Contents
    BY <1>2, JobHas DEF At
  <2> QED BY <1>1, <1>2, <2>1, AddsFile
<1>3. CASE At(p, "finish") /\ finishUpload(p)
  <2>1. phase = "applying" /\ job[p].step = "finish" /\ job[p].bytes \in Contents /\ job[p].node \in DOMAIN nodes
    BY <1>3, JobHas DEF At
  <2> QED BY <1>1, <1>3, <2>1, FinishesUpload
<1> QED BY <1>1, <1>2, <1>3 DEF StopsUnrecorded

-----------------------------------------------------------------------------
LEMMA UndisturbedShape ==
  ASSUME Shape, NEW p \in Paths, Turns(p), Undisturbed
  PROVE  Shape'
<1>1. calm' \in 0..2 /\ mishaps' \in 0..MaxMishaps /\ mishaps <= mishaps'
  BY DEF Undisturbed, Shape, TypeOK
<1>2. clean' \in BOOLEAN
  BY DEF Undisturbed, Shape, TypeOK
<1> QED BY <1>1, <1>2, TurnsShape

LEMMA GivesUpShape ==
  ASSUME Shape, NEW p \in Paths, JobMisses(p) \/ JobFails(p)
  PROVE  Shape'
<1>1. mishaps' = mishaps \/ (mishaps < MaxMishaps /\ mishaps' = mishaps + 1)
  BY DEF JobMisses, JobFails, Mishap
<1>2. mishaps \in 0..MaxMishaps /\ MaxMishaps \in Nat
  BY SyncAssumption DEF Shape, TypeOK
<1>3. mishaps' \in 0..MaxMishaps /\ mishaps <= mishaps'
  BY <1>1, <1>2
<1>4. GivesUp(p)
  BY DEF JobMisses, JobFails
<1> QED BY <1>3, <1>4, GivesUpDoes, DisturbedIs, TurnsShape

LEMMA JobShape ==
  ASSUME Shape, NEW p \in Paths, Job(p)
  PROVE  Shape'
<1>1. CASE \/ ReadFull(p) \/ UploadAdd(p) \/ UpdateReplace(p) \/ UpdateFinish(p) \/ Trash(p)
           \/ PutRead(p) \/ PutWrite(p) \/ PutRecord(p) \/ Delete(p) \/ Forget(p) \/ ConflictCopy(p)
  <2>1. Turns(p) /\ Undisturbed
    BY <1>1, ReadFullDoes, UploadAddDoes, UpdateReplaceDoes, UpdateFinishDoes, TrashDoes, PutReadDoes, PutWriteDoes,
       PutRecordDoes, DeleteDoes, ForgetDoes, ConflictCopyDoes
  <2> QED BY <2>1, UndisturbedShape
<1>2. CASE JobMisses(p) \/ JobFails(p)
  BY <1>2, GivesUpShape
<1>3. CASE StopsUnrecorded(p)
  BY <1>3, UnrecordedDoes, StopsDoes
<1> QED BY <1>1, <1>2, <1>3 DEF Job

LEMMA EditShape ==
  ASSUME Shape, Edit
  PROVE  Shape'
<1>1. CASE AgentWrites \/ AgentRemoves \/ AgentIgnores \/ PersonWrites \/ PersonTrashes \/ PersonRestores
  <2>1. Edits
    BY <1>1, AgentWritesDoes, AgentRemovesDoes, AgentIgnoresDoes, PersonWritesDoes, PersonTrashesDoes, PersonRestoresDoes
  <2> QED BY <2>1, EditsShape
<1> QED BY <1>1, FolderShape, StartedOverShape DEF Edit

LEMMA ShapeStep ==
  ASSUME Shape, [Next]_vars
  PROVE  Shape'
<1>1. CASE Restart
  BY <1>1, StopsDoes, SameFiles DEF Restart, Stops
<1>2. CASE UNCHANGED vars
  <2>1. UNCHANGED <<sandbox, nodes, folder, folderLive, synced, phase, listed, job, edits, agents, superseded, racer, leftOut,
                    unlisted, copied, calm, clean, mishaps>>
    BY <1>2 DEF vars, driveVars, syncVars, notes
  <2> QED BY <2>1 DEF Shape, TypeOK, JobsOK, FolderOK, NamesApart, Here
<1> QED BY <1>1, <1>2, EditShape, JobShape, SyncStartShape, ListedShape, PlanShape, SyncEndDoes, SyncFailsDoes DEF Next, Sync

LEMMA ShapeInit == Init => Shape
<1> SUFFICES ASSUME Init PROVE Shape
  OBVIOUS
<1>0. 0 \in 0..MaxEdits /\ 0 \in 0..MaxMishaps /\ 0 \in 0..MaxMishaps + 1 /\ 0 \in 0..2 /\ 0 <= MaxNodes
  BY SyncAssumption
<1>1. nodes = <<>> /\ DOMAIN nodes = {} /\ nodes \in Seq(Files(folder)) /\ Len(nodes) <= MaxNodes
  <2>1. nodes = <<>> /\ nodes \in Seq(Files(folder)) /\ Len(nodes) = 0
    BY EmptySeq DEF Init
  <2> QED BY <1>0, <2>1, LenProperties
<1>2. sandbox \in Holding /\ listed \in Holding /\ synced \in [Paths -> Rows(DOMAIN nodes)] /\ job \in [Paths -> Jobs(DOMAIN nodes)]
  BY JobsAre DEF Init, Holding
<1>3. TypeOK
  <2>1. folderLive \in BOOLEAN /\ clean \in BOOLEAN
    BY DEF Init
  <2> QED BY <1>0, <1>1, <1>2, <2>1 DEF Init, TypeOK, Holding, Rows, Jobs, Files
<1>4. FolderOK
  <2>1. phase = "idle" /\ folderLive = FALSE
    BY DEF Init
  <2>2. folder <= mishaps + 1 /\ folder <= mishaps
    BY DEF Init
  <2> QED BY <2>1, <2>2 DEF FolderOK
<1>5. JobsOK /\ NamesApart
  BY <1>1, JobsAre DEF Init, JobsOK, NamesApart
<1> QED BY <1>3, <1>4, <1>5 DEF Shape

LEMMA ShapeHolds == Spec => []Shape
BY ShapeInit, ShapeStep, PTL DEF Spec

\* sync.ts: every variable of the model stays in its type, whatever is edited and fails.
THEOREM TypeInvariant == Spec => []TypeOK
<1>1. Shape => TypeOK
  BY DEF Shape
<1> QED BY <1>1, ShapeHolds, PTL

-----------------------------------------------------------------------------
(***************************************************************************)
(* Two syncs agree.                                                        *)
(***************************************************************************)

\* While Drive's file has the version a row names it holds what the row says.
RowTrue(files, node, content, version) ==
  files[node].version > version \/ (files[node].version = version /\ files[node].content = content)
RowsTrue ==
  \A p \in Paths :
    /\ synced[p] # NoRow => RowTrue(nodes, synced[p].node, synced[p].content, synced[p].version)
    /\ job[p].step \in {"write", "record"} => RowTrue(nodes, job[p].node, job[p].bytes, job[p].version)

\* Drive's side of a path is as its row says.
DriveKnown(p) == /\ nodeAt(p) = synced[p].node
                 /\ nodeAt(p) # None => nodes[nodeAt(p)].version = synced[p].version

\* In a sync nothing disturbs a job still has Drive's file before it, as it read it.
InHand(p) ==
  IF job[p] = NoJob THEN DriveKnown(p)
  ELSE /\ nodeAt(p) = job[p].node
       /\ job[p].step \in {"finish", "write", "record"} => nodes[job[p].node].version = job[p].version
FirstSync ==
  /\ clean /\ phase = "applying" => \A p \in Paths : InHand(p)
  /\ calm # 0 /\ phase # "applying" => \A p \in Paths : DriveKnown(p)
  /\ calm # 0 => folderLive

\* So in the next only the sandbox has changed, but for what the listing leaves out.
OneWay(p) ==
  /\ job[p].step \in {"none", "upload", "add", "update", "replace", "finish", "trash"}
  /\ p \notin leftOut =>
       /\ job[p] = NoJob => sandbox[p] = synced[p].content
       /\ job[p].step \in {"add", "replace", "finish"} => sandbox[p] = job[p].bytes
       /\ job[p].step = "trash" => sandbox[p] = None
SecondSync ==
  /\ clean => phase # "idle"
  /\ calm # 0 /\ phase # "idle" => clean
  /\ calm # 0 /\ phase = "listed" => \A p \in Paths \ leftOut : listed[p] = sandbox[p]
  /\ calm # 0 /\ phase = "applying" => \A p \in Paths : OneWay(p)

\* And in the one after there is nothing to do.
ThirdSync ==
  calm = 2 => \A p \in Paths \ leftOut : job[p] = NoJob /\ sandbox[p] = synced[p].content

AgreeInv == RowsTrue /\ FirstSync /\ SecondSync /\ ThirdSync

LEMMA RowTrueStays ==
  ASSUME Shape, FilesNext, NEW n \in DOMAIN nodes, NEW c, NEW v \in Nat, RowTrue(nodes, n, c, v)
  PROVE  RowTrue(nodes', n, c, v)
<1>1. nodes[n].version \in Nat
  BY FilesAre DEF Shape, Files
<1>2. nodes'[n].version \in Nat
  <2>1. nodes' \in Seq(Files(folder)) /\ n \in DOMAIN nodes'
    BY DEF FilesNext, Grow
  <2>2. nodes'[n] \in Files(folder)
    BY <2>1, LenProperties
  <2> QED BY <2>2 DEF Files
<1>3. \/ nodes'[n].version > nodes[n].version
      \/ nodes'[n].version = nodes[n].version /\ nodes'[n].content = nodes[n].content
  BY DEF FilesNext, Grow
<1> QED BY <1>1, <1>2, <1>3 DEF RowTrue

\* Rows stay true as Drive's files come and change.
LEMMA RowsTrueNext ==
  ASSUME Shape, FilesNext, RowsTrue,
         \A q \in Paths : \/ synced'[q] \in {synced[q], NoRow}
                          \/ RowTrue(nodes', synced'[q].node, synced'[q].content, synced'[q].version),
         \A q \in Paths : job'[q].step \in {"write", "record"} =>
           \/ /\ job[q].step \in {"write", "record"} /\ job'[q].node = job[q].node /\ job'[q].bytes = job[q].bytes
              /\ job'[q].version = job[q].version
           \/ RowTrue(nodes', job'[q].node, job'[q].bytes, job'[q].version)
  PROVE  RowsTrue'
<1> SUFFICES ASSUME NEW q \in Paths
             PROVE  /\ synced'[q] # NoRow => RowTrue(nodes', synced'[q].node, synced'[q].content, synced'[q].version)
                    /\ job'[q].step \in {"write", "record"} => RowTrue(nodes', job'[q].node, job'[q].bytes, job'[q].version)
  BY DEF RowsTrue
<1>1. ASSUME synced'[q] = synced[q], synced[q] # NoRow
      PROVE  RowTrue(nodes', synced'[q].node, synced'[q].content, synced'[q].version)
  <2>1. synced[q].node \in DOMAIN nodes /\ synced[q].version \in Nat
    BY <1>1, PathsAre DEF Rows
  <2>2. RowTrue(nodes, synced[q].node, synced[q].content, synced[q].version)
    BY <1>1 DEF RowsTrue
  <2> QED BY <1>1, <2>1, <2>2, RowTrueStays
<1>2. ASSUME job[q].step \in {"write", "record"}
      PROVE  RowTrue(nodes', job[q].node, job[q].bytes, job[q].version)
  <2>1. job[q].node \in DOMAIN nodes /\ job[q].version \in Nat
    BY <1>2, PathIs DEF Jobs, JobOK
  <2>2. RowTrue(nodes, job[q].node, job[q].bytes, job[q].version)
    BY <1>2 DEF RowsTrue
  <2> QED BY <2>1, <2>2, RowTrueStays
<1> QED BY <1>1, <1>2

\* What is at a name stays, version and all.
Steady(q) == /\ nodeAt(q)' = nodeAt(q)
             /\ nodeAt(q) # None => nodes'[nodeAt(q)].version = nodes[nodeAt(q)].version

LEMMA SameSteady ==
  ASSUME nodes' = nodes, folder' = folder
  PROVE  \A q \in Paths : Steady(q)
BY DEF Steady, nodeAt

LEMMA SamePlace ==
  ASSUME NEW q, {n \in DOMAIN nodes' : nodes'[n].live /\ nodes'[n].path = q /\ nodes'[n].home = folder'}
                  = {n \in DOMAIN nodes : nodes[n].live /\ nodes[n].path = q /\ nodes[n].home = folder}
  PROVE  nodeAt(q)' = nodeAt(q)
<1> DEFINE now == {n \in DOMAIN nodes' : nodes'[n].live /\ nodes'[n].path = q /\ nodes'[n].home = folder'}
           here == {n \in DOMAIN nodes : nodes[n].live /\ nodes[n].path = q /\ nodes[n].home = folder}
<1>1. nodeAt(q) = IF here = {} THEN None ELSE CHOOSE n \in here : TRUE
  BY DEF nodeAt
<1>2. nodeAt(q)' = IF now = {} THEN None ELSE CHOOSE n \in now : TRUE
  BY DEF nodeAt
<1>3. now = here
  OBVIOUS
<1> HIDE DEF now, here
<1> QED BY <1>1, <1>2, <1>3

LEMMA AddsSteady ==
  ASSUME Shape, Shape', NEW c, NEW name, Adds(c, name), folder' = folder, NEW f, f = freeName(name)
  PROVE  /\ \A q \in Paths \ {f} : Steady(q)
         /\ f \in Paths /\ nodeAt(f) = None /\ nodeAt(f)' = Len(nodes')
<1>1. ASSUME NEW q \in Paths \ {f} PROVE Steady(q)
  <2>1. {n \in DOMAIN nodes' : nodes'[n].live /\ nodes'[n].path = q /\ nodes'[n].home = folder'}
            = {n \in DOMAIN nodes : nodes[n].live /\ nodes[n].path = q /\ nodes[n].home = folder}
    BY <1>1 DEF Adds
  <2>2. nodeAt(q)' = nodeAt(q)
    BY <2>1, SamePlace
  <2>3. nodeAt(q) # None => nodeAt(q) \in DOMAIN nodes
    BY FileAt DEF Shape
  <2> QED BY <2>2, <2>3 DEF Steady, Adds
<1>2. f \in Paths /\ nodeAt(f) = None
  BY DEF Adds
<1>3. PICK l : l = Len(nodes')
  OBVIOUS
<1>4. l \in DOMAIN nodes' /\ Here(l)' /\ nodes'[l].path = f
  BY <1>3 DEF Adds, Here
<1>5. nodeAt(f)' = l
  BY <1>2, <1>4, FileAtNext DEF Shape
<1> QED BY <1>1, <1>2, <1>3, <1>5

LEMMA ReplacesSteady ==
  ASSUME Shape, NEW n \in DOMAIN nodes, NEW c, Replaces(n, c), folder' = folder
  PROVE  /\ \A q \in Paths : nodeAt(q)' = nodeAt(q)
         /\ \A q \in Paths \ {nodes[n].path} : Steady(q)
<1>1. ASSUME NEW q \in Paths PROVE nodeAt(q)' = nodeAt(q)
  <2>1. {m \in DOMAIN nodes' : nodes'[m].live /\ nodes'[m].path = q /\ nodes'[m].home = folder'}
            = {m \in DOMAIN nodes : nodes[m].live /\ nodes[m].path = q /\ nodes[m].home = folder}
    BY DEF Replaces
  <2> QED BY <2>1, SamePlace
<1>2. ASSUME NEW q \in Paths \ {nodes[n].path} PROVE Steady(q)
  <2>1. nodeAt(q) # None => nodeAt(q) \in DOMAIN nodes /\ nodes[nodeAt(q)].path = q
    BY FileAt DEF Shape
  <2>2. nodeAt(q) # None => nodeAt(q) \in DOMAIN nodes \ {n}
    BY <2>1
  <2> QED BY <1>1, <2>2 DEF Steady, Replaces
<1> QED BY <1>1, <1>2

LEMMA TrashedSteady ==
  ASSUME Shape, NEW n \in DOMAIN nodes, Flips(n, FALSE), Here(n), folder' = folder, NEW f, f = nodes[n].path
  PROVE  (\A q \in Paths \ {f} : Steady(q)) /\ nodeAt(f)' = None
<1>1. ASSUME NEW q \in Paths \ {f} PROVE Steady(q)
  <2>1. {m \in DOMAIN nodes' : nodes'[m].live /\ nodes'[m].path = q /\ nodes'[m].home = folder'}
            = {m \in DOMAIN nodes : nodes[m].live /\ nodes[m].path = q /\ nodes[m].home = folder}
    BY DEF Flips
  <2>2. nodeAt(q)' = nodeAt(q)
    BY <2>1, SamePlace
  <2>3. nodeAt(q) # None => nodeAt(q) \in DOMAIN nodes
    BY FileAt DEF Shape
  <2> QED BY <2>2, <2>3 DEF Steady, Flips
<1>2. \A m \in DOMAIN nodes : ~(nodes'[m].live /\ nodes'[m].path = f /\ nodes'[m].home = folder')
  BY DEF Flips, Shape, NamesApart, Here
<1>3. {m \in DOMAIN nodes' : nodes'[m].live /\ nodes'[m].path = f /\ nodes'[m].home = folder'} = {}
  BY <1>2 DEF Flips
<1>4. nodeAt(f)' = None
  BY <1>3 DEF nodeAt
<1> QED BY <1>1, <1>4

\* A job goes a step further with nothing to disturb it: the others are where they were.
LEMMA JobAgrees ==
  ASSUME Shape, AgreeInv, RowsTrue', NEW p \in Paths, Turns(p), Undisturbed, job[p] # NoJob,
         clean => InHand(p)' /\ \A q \in Paths \ {p} : Steady(q),
         calm # 0 => OneWay(p)' /\ \A q \in Paths \ {p} : sandbox'[q] = sandbox[q]
  PROVE  AgreeInv'
<1>0. /\ phase = "applying" /\ phase' = "applying" /\ calm' = calm /\ clean' = clean /\ leftOut' = leftOut
      /\ \A q \in Paths \ {p} : job'[q] = job[q] /\ synced'[q] = synced[q]
      /\ folderLive' = folderLive /\ (calm # 0 => folderLive)
  BY DEF Turns, Undisturbed, notes, AgreeInv, FirstSync
<1>1. FirstSync'
  <2> SUFFICES ASSUME clean, NEW q \in Paths PROVE InHand(q)'
    BY <1>0 DEF FirstSync
  <2>1. CASE q = p
    BY <2>1
  <2>2. CASE q # p
    <3>1. InHand(q) /\ Steady(q) /\ job'[q] = job[q] /\ synced'[q] = synced[q]
      BY <1>0, <2>2 DEF AgreeInv, FirstSync
    <3>2. JobOK(job[q])
      BY PathIs
    <3>3. CASE job[q] = NoJob
      BY <3>1, <3>3 DEF InHand, DriveKnown, Steady
    <3>4. CASE job[q] # NoJob
      BY <3>1, <3>2, <3>4 DEF InHand, Steady, JobOK
    <3> QED BY <3>3, <3>4
  <2> QED BY <2>1, <2>2
<1>2. SecondSync'
  <2>1. calm # 0 => \A q \in Paths : OneWay(q)'
    <3> SUFFICES ASSUME calm # 0, NEW q \in Paths PROVE OneWay(q)'
      OBVIOUS
    <3>1. CASE q # p
      <4>1. OneWay(q) /\ job'[q] = job[q] /\ synced'[q] = synced[q] /\ sandbox'[q] = sandbox[q]
        BY <1>0, <3>1 DEF AgreeInv, SecondSync
      <4> QED BY <1>0, <4>1 DEF OneWay
    <3> QED BY <3>1
  <2> QED BY <1>0, <2>1 DEF AgreeInv, SecondSync
<1>3. ThirdSync'
  <2> SUFFICES ASSUME calm = 2, NEW q \in Paths \ leftOut PROVE job'[q] = NoJob /\ sandbox'[q] = synced'[q].content
    BY <1>0 DEF ThirdSync
  <2>1. job[q] = NoJob /\ sandbox[q] = synced[q].content
    BY DEF AgreeInv, ThirdSync
  <2>2. q # p
    BY <2>1
  <2>3. calm # 0
    OBVIOUS
  <2> QED BY <1>0, <2>1, <2>2, <2>3
<1> QED BY <1>1, <1>2, <1>3 DEF AgreeInv

\* What a job at work knows.
LEMMA AtWork ==
  ASSUME Shape, AgreeInv, NEW p \in Paths, phase = "applying"
  PROVE  /\ clean => InHand(p)
         /\ calm # 0 => OneWay(p) /\ clean
         /\ job[p].step # "none" => job[p] # NoJob
BY JobsAre DEF AgreeInv, FirstSync, SecondSync

\* The step leaves Drive's files alone, and what it records is so.
LEMMA RowsTrueSame ==
  ASSUME Shape, AgreeInv, NEW p \in Paths, Turns(p), nodes' = nodes,
         synced'[p] \in {synced[p], NoRow} \/ RowTrue(nodes, synced'[p].node, synced'[p].content, synced'[p].version),
         job'[p].step \in {"write", "record"} => RowTrue(nodes, job'[p].node, job'[p].bytes, job'[p].version)
  PROVE  RowsTrue'
<1>1. FilesNext
  BY DEF Turns
<1>2. \A q \in Paths \ {p} : job'[q] = job[q] /\ synced'[q] = synced[q]
  BY DEF Turns
<1>3. RowsTrue
  BY DEF AgreeInv
<1> QED BY <1>1, <1>2, <1>3, RowsTrueNext

LEMMA ReadFullAgrees ==
  ASSUME Shape, AgreeInv, NEW p \in Paths, ReadFull(p)
  PROVE  AgreeInv'
<1>1. /\ Turns(p) /\ Undisturbed /\ UNCHANGED <<nodes, sandbox, synced, copied>>
      /\ sandbox[p] \in Contents /\ job'[p].bytes = sandbox[p] /\ job'[p].node = job[p].node
      /\ \/ job[p].step = "upload" /\ job'[p].step = "add"
         \/ job[p].step = "update" /\ job'[p].step = "replace"
         \/ job[p].step = "conflict" /\ job'[p].step = "copy"
  BY ReadFullDoes
<1>2. phase = "applying" /\ folder' = folder /\ leftOut' = leftOut
  BY <1>1 DEF Turns, notes
<1>3. job[p] # NoJob /\ job'[p] # NoJob
  BY <1>1, JobsAre
<1>4. RowsTrue'
  BY <1>1, RowsTrueSame
<1>5. clean => InHand(p)' /\ \A q \in Paths \ {p} : Steady(q)
  <2>1. \A q \in Paths : Steady(q)
    BY <1>1, <1>2, SameSteady
  <2> QED BY <1>1, <1>2, <1>3, <2>1, AtWork DEF InHand, Steady
<1>6. calm # 0 => OneWay(p)' /\ \A q \in Paths \ {p} : sandbox'[q] = sandbox[q]
  BY <1>1, <1>2, <1>3, AtWork DEF OneWay
<1> QED BY <1>1, <1>3, <1>4, <1>5, <1>6, JobAgrees

LEMMA UploadAddAgrees ==
  ASSUME Shape, Shape', AgreeInv, NEW p \in Paths, UploadAdd(p)
  PROVE  AgreeInv'
<1> DEFINE n == Len(nodes')
<1>1. /\ Turns(p) /\ Undisturbed /\ UNCHANGED <<sandbox, copied>>
      /\ job[p].step = "add" /\ job'[p] = NoJob /\ job[p].bytes \in Contents
      /\ Adds(job[p].bytes, p)
      /\ synced'[p] = [node |-> n, content |-> job[p].bytes, version |-> 1]
  BY UploadAddDoes
<1>2. phase = "applying" /\ folder' = folder /\ leftOut' = leftOut /\ FilesNext
  BY <1>1 DEF Turns, notes
<1>3. job[p] # NoJob
  BY <1>1, JobsAre
<1>4. /\ synced'[p].node = n /\ synced'[p].content = job[p].bytes /\ synced'[p].version = 1
      /\ nodes'[n].version = 1 /\ nodes'[n].content = job[p].bytes
  <2>1. nodes'[n].version = 1 /\ nodes'[n].content = job[p].bytes
    BY <1>1 DEF Adds
  <2> HIDE DEF n
  <2> QED BY <1>1, <2>1
<1> HIDE DEF n
<1>5. RowsTrue'
  <2>1. RowTrue(nodes', synced'[p].node, synced'[p].content, synced'[p].version)
    BY <1>4 DEF RowTrue
  <2>2. \A q \in Paths \ {p} : job'[q] = job[q] /\ synced'[q] = synced[q]
    BY <1>1 DEF Turns
  <2>3. job'[p].step \notin {"write", "record"} /\ RowsTrue
    BY <1>1, JobsAre DEF AgreeInv
  <2> QED BY <1>2, <2>1, <2>2, <2>3, RowsTrueNext
<1>6. clean => InHand(p)' /\ \A q \in Paths \ {p} : Steady(q)
  <2> SUFFICES ASSUME clean PROVE InHand(p)' /\ \A q \in Paths \ {p} : Steady(q)
    OBVIOUS
  <2>1. nodeAt(p) = job[p].node /\ job[p].node = None
    BY <1>1, <1>2, <1>3, AtWork, PathIs DEF InHand, JobOK
  <2>2. freeName(p) = p
    BY <2>1 DEF freeName
  <2>3. (\A q \in Paths \ {p} : Steady(q)) /\ nodeAt(p)' = n
    BY <1>1, <1>2, <2>2, AddsSteady DEF n
  <2> QED BY <1>1, <1>4, <2>3 DEF InHand, DriveKnown
<1>7. calm # 0 => OneWay(p)' /\ \A q \in Paths \ {p} : sandbox'[q] = sandbox[q]
  BY <1>1, <1>2, <1>4, AtWork, JobsAre DEF OneWay
<1> QED BY <1>1, <1>3, <1>5, <1>6, <1>7, JobAgrees

LEMMA UpdateReplaceAgrees ==
  ASSUME Shape, AgreeInv, NEW p \in Paths, UpdateReplace(p)
  PROVE  AgreeInv'
<1>1. /\ Turns(p) /\ Undisturbed /\ UNCHANGED <<nodes, sandbox, synced, copied>>
      /\ job[p].step = "replace" /\ job'[p].step = "finish" /\ job[p].node \in DOMAIN nodes
      /\ job'[p].bytes = job[p].bytes /\ job'[p].node = job[p].node
      /\ job'[p].version = nodes[job[p].node].version
  BY UpdateReplaceDoes
<1>2. phase = "applying" /\ folder' = folder /\ leftOut' = leftOut
  BY <1>1 DEF Turns, notes
<1>3. job[p] # NoJob /\ job'[p] # NoJob
  BY <1>1, JobsAre
<1>4. RowsTrue'
  BY <1>1, RowsTrueSame
<1>5. clean => InHand(p)' /\ \A q \in Paths \ {p} : Steady(q)
  <2>1. \A q \in Paths : Steady(q)
    BY <1>1, <1>2, SameSteady
  <2> QED BY <1>1, <1>2, <1>3, <2>1, AtWork DEF InHand, Steady
<1>6. calm # 0 => OneWay(p)' /\ \A q \in Paths \ {p} : sandbox'[q] = sandbox[q]
  BY <1>1, <1>2, <1>3, AtWork DEF OneWay
<1> QED BY <1>1, <1>3, <1>4, <1>5, <1>6, JobAgrees

LEMMA UpdateFinishAgrees ==
  ASSUME Shape, Shape', AgreeInv, NEW p \in Paths, UpdateFinish(p)
  PROVE  AgreeInv'
<1> DEFINE n == job[p].node
           m == FinishedNode(p)
<1>1. /\ Turns(p) /\ Undisturbed /\ UNCHANGED <<sandbox, copied>>
      /\ job[p].step = "finish" /\ job'[p] = NoJob /\ job[p].bytes \in Contents /\ n \in DOMAIN nodes
      /\ \/ /\ nodes[n].live /\ nodes[n].version = job[p].version
            /\ Replaces(n, job[p].bytes) /\ m = n
         \/ /\ ~(nodes[n].live /\ nodes[n].version = job[p].version)
            /\ Adds(job[p].bytes, IF nodes[n].live THEN conflictName(p) ELSE p)
            /\ m = Len(nodes')
      /\ synced'[p] = [node |-> m, content |-> job[p].bytes, version |-> nodes'[m].version]
  BY UpdateFinishDoes
<1>2. phase = "applying" /\ folder' = folder /\ leftOut' = leftOut /\ FilesNext
  BY <1>1 DEF Turns, notes
<1>3. job[p] # NoJob
  BY <1>1, JobsAre
<1>4. /\ synced'[p].node = m /\ synced'[p].content = job[p].bytes /\ synced'[p].version = nodes'[m].version
      /\ nodes'[m].content = job[p].bytes
  BY <1>1 DEF Adds, Replaces
<1> HIDE DEF n, m
<1>5. RowsTrue'
  <2>1. RowTrue(nodes', synced'[p].node, synced'[p].content, synced'[p].version)
    BY <1>4 DEF RowTrue
  <2>2. \A q \in Paths \ {p} : job'[q] = job[q] /\ synced'[q] = synced[q]
    BY <1>1 DEF Turns
  <2>3. job'[p].step \notin {"write", "record"} /\ RowsTrue
    BY <1>1, JobsAre DEF AgreeInv
  <2> QED BY <1>2, <2>1, <2>2, <2>3, RowsTrueNext
<1>6. clean => InHand(p)' /\ \A q \in Paths \ {p} : Steady(q)
  <2> SUFFICES ASSUME clean PROVE InHand(p)' /\ \A q \in Paths \ {p} : Steady(q)
    OBVIOUS
  <2>1. nodeAt(p) = n /\ nodes[n].version = job[p].version
    BY <1>1, <1>2, <1>3, AtWork DEF InHand, n
  <2>2. nodes[n].live /\ nodes[n].path = p
    BY <1>1, <2>1, FileAt, FilesAre DEF Shape, Here
  <2>3. Replaces(n, job[p].bytes) /\ m = n
    BY <1>1, <2>1, <2>2
  <2>4. nodeAt(p)' = n /\ \A q \in Paths \ {p} : Steady(q)
    BY <1>1, <1>2, <2>1, <2>2, <2>3, ReplacesSteady
  <2> QED BY <1>1, <1>4, <2>3, <2>4 DEF InHand, DriveKnown
<1>7. calm # 0 => OneWay(p)' /\ \A q \in Paths \ {p} : sandbox'[q] = sandbox[q]
  BY <1>1, <1>2, <1>4, AtWork, JobsAre DEF OneWay
<1> QED BY <1>1, <1>3, <1>5, <1>6, <1>7, JobAgrees

LEMMA TrashAgrees ==
  ASSUME Shape, AgreeInv, NEW p \in Paths, Trash(p)
  PROVE  AgreeInv'
<1> DEFINE n == job[p].node
<1>1. /\ Turns(p) /\ Undisturbed /\ UNCHANGED <<sandbox, copied>>
      /\ job[p].step = "trash" /\ job'[p] = NoJob /\ synced'[p] = NoRow /\ n \in DOMAIN nodes
      /\ Flips(n, FALSE)
  BY TrashDoes
<1>2. phase = "applying" /\ folder' = folder /\ leftOut' = leftOut /\ FilesNext
  BY <1>1 DEF Turns, notes
<1>3. job[p] # NoJob
  BY <1>1, JobsAre
<1> HIDE DEF n
<1>5. RowsTrue'
  <2>2. \A q \in Paths \ {p} : job'[q] = job[q] /\ synced'[q] = synced[q]
    BY <1>1 DEF Turns
  <2>3. job'[p].step \notin {"write", "record"} /\ RowsTrue
    BY <1>1, JobsAre DEF AgreeInv
  <2> QED BY <1>1, <1>2, <2>2, <2>3, RowsTrueNext
<1>6. clean => InHand(p)' /\ \A q \in Paths \ {p} : Steady(q)
  <2> SUFFICES ASSUME clean PROVE InHand(p)' /\ \A q \in Paths \ {p} : Steady(q)
    OBVIOUS
  <2>1. nodeAt(p) = n
    BY <1>1, <1>2, <1>3, AtWork DEF InHand, n
  <2>2. Here(n) /\ nodes[n].path = p
    BY <1>1, <2>1, FileAt, FilesAre DEF Shape
  <2>3. nodeAt(p)' = None /\ \A q \in Paths \ {p} : Steady(q)
    BY <1>1, <1>2, <2>2, TrashedSteady
  <2> QED BY <1>1, <2>3, JobsAre DEF InHand, DriveKnown
<1>7. calm # 0 => OneWay(p)' /\ \A q \in Paths \ {p} : sandbox'[q] = sandbox[q]
  BY <1>1, <1>2, <1>3, AtWork, JobsAre DEF OneWay
<1> QED BY <1>1, <1>3, <1>5, <1>6, <1>7, JobAgrees

\* A put, a delete and a forgetting are not of a sync where only the sandbox has changed.
LEMMA PutReadAgrees ==
  ASSUME Shape, AgreeInv, NEW p \in Paths, PutRead(p)
  PROVE  AgreeInv'
<1> DEFINE n == job[p].node
<1>1. /\ Turns(p) /\ Undisturbed /\ UNCHANGED <<nodes, sandbox, synced, copied>>
      /\ job[p].step = "put" /\ job'[p].step = "write" /\ n \in DOMAIN nodes /\ nodes[n].live
      /\ job'[p].node = n /\ job'[p].bytes = nodes[n].content /\ job'[p].version = nodes[n].version
  BY PutReadDoes
<1>2. phase = "applying" /\ folder' = folder /\ leftOut' = leftOut
  BY <1>1 DEF Turns, notes
<1>3. job[p] # NoJob /\ job'[p] # NoJob
  BY <1>1, JobsAre
<1>4. RowsTrue'
  <2>1. RowTrue(nodes, job'[p].node, job'[p].bytes, job'[p].version)
    BY <1>1 DEF RowTrue
  <2> QED BY <1>1, <2>1, RowsTrueSame
<1>5. clean => InHand(p)' /\ \A q \in Paths \ {p} : Steady(q)
  <2>1. \A q \in Paths : Steady(q)
    BY <1>1, <1>2, SameSteady
  <2> QED BY <1>1, <1>2, <1>3, <2>1, AtWork DEF InHand, Steady
<1>6. calm = 0
  BY <1>1, <1>2, AtWork DEF OneWay
<1> QED BY <1>1, <1>3, <1>4, <1>5, <1>6, JobAgrees

LEMMA PutWriteAgrees ==
  ASSUME Shape, AgreeInv, NEW p \in Paths, PutWrite(p)
  PROVE  AgreeInv'
<1>1. /\ Turns(p) /\ Undisturbed /\ UNCHANGED <<nodes, synced, copied>>
      /\ job[p].step = "write" /\ job'[p].step = "record"
      /\ job'[p].node = job[p].node /\ job'[p].bytes = job[p].bytes /\ job'[p].version = job[p].version
  BY PutWriteDoes
<1>2. phase = "applying" /\ folder' = folder /\ leftOut' = leftOut
  BY <1>1 DEF Turns, notes
<1>3. job[p] # NoJob /\ job'[p] # NoJob
  BY <1>1, JobsAre
<1>4. RowsTrue'
  <2>1. RowTrue(nodes, job'[p].node, job'[p].bytes, job'[p].version)
    BY <1>1 DEF AgreeInv, RowsTrue
  <2> QED BY <1>1, <2>1, RowsTrueSame
<1>5. clean => InHand(p)' /\ \A q \in Paths \ {p} : Steady(q)
  <2>1. \A q \in Paths : Steady(q)
    BY <1>1, <1>2, SameSteady
  <2> QED BY <1>1, <1>2, <1>3, <2>1, AtWork DEF InHand, Steady
<1>6. calm = 0
  BY <1>1, <1>2, AtWork DEF OneWay
<1> QED BY <1>1, <1>3, <1>4, <1>5, <1>6, JobAgrees

LEMMA PutRecordAgrees ==
  ASSUME Shape, AgreeInv, NEW p \in Paths, PutRecord(p)
  PROVE  AgreeInv'
<1> DEFINE n == job[p].node
<1>1. /\ Turns(p) /\ Undisturbed /\ UNCHANGED <<nodes, sandbox, copied>>
      /\ job[p].step = "record" /\ job'[p] = NoJob /\ n \in DOMAIN nodes
      /\ synced'[p] = [node |-> n, content |-> job[p].bytes, version |-> job[p].version]
  BY PutRecordDoes
<1>2. phase = "applying" /\ folder' = folder /\ leftOut' = leftOut
  BY <1>1 DEF Turns, notes
<1>3. job[p] # NoJob
  BY <1>1, JobsAre
<1>a. synced'[p].node = n /\ synced'[p].content = job[p].bytes /\ synced'[p].version = job[p].version
  BY <1>1
<1>4. RowsTrue'
  <2>1. RowTrue(nodes, n, job[p].bytes, job[p].version)
    BY <1>1 DEF AgreeInv, RowsTrue
  <2>2. job'[p].step \notin {"write", "record"}
    BY <1>1, JobsAre
  <2> QED BY <1>1, <1>a, <2>1, <2>2, RowsTrueSame
<1>5. clean => InHand(p)' /\ \A q \in Paths \ {p} : Steady(q)
  <2> SUFFICES ASSUME clean PROVE InHand(p)' /\ \A q \in Paths \ {p} : Steady(q)
    OBVIOUS
  <2>1. \A q \in Paths : Steady(q)
    BY <1>1, <1>2, SameSteady
  <2>2. nodeAt(p) = n /\ nodes[n].version = job[p].version
    BY <1>1, <1>2, <1>3, AtWork DEF InHand
  <2>3. nodeAt(p)' = n
    BY <2>1, <2>2 DEF Steady
  <2> QED BY <1>1, <1>a, <2>1, <2>2, <2>3 DEF InHand, DriveKnown
<1>6. calm = 0
  BY <1>1, <1>2, AtWork DEF OneWay
<1> QED BY <1>1, <1>3, <1>4, <1>5, <1>6, JobAgrees

LEMMA DeleteAgrees ==
  ASSUME Shape, AgreeInv, NEW p \in Paths, Delete(p)
  PROVE  AgreeInv'
<1>1. /\ Turns(p) /\ Undisturbed /\ UNCHANGED <<nodes, synced, copied>>
      /\ job[p].step = "delete" /\ job'[p].step = "unrecord" /\ job[p].node = None /\ job'[p].node = None
  BY DeleteDoes
<1>2. phase = "applying" /\ folder' = folder /\ leftOut' = leftOut
  BY <1>1 DEF Turns, notes
<1>3. job[p] # NoJob /\ job'[p] # NoJob
  BY <1>1, JobsAre
<1>4. RowsTrue'
  BY <1>1, RowsTrueSame
<1>5. clean => InHand(p)' /\ \A q \in Paths \ {p} : Steady(q)
  <2>1. \A q \in Paths : Steady(q)
    BY <1>1, <1>2, SameSteady
  <2> QED BY <1>1, <1>2, <1>3, <2>1, AtWork DEF InHand, Steady
<1>6. calm = 0
  BY <1>1, <1>2, AtWork DEF OneWay
<1> QED BY <1>1, <1>3, <1>4, <1>5, <1>6, JobAgrees

LEMMA ForgetAgrees ==
  ASSUME Shape, AgreeInv, NEW p \in Paths, Forget(p)
  PROVE  AgreeInv'
<1>1. /\ Turns(p) /\ Undisturbed /\ UNCHANGED <<nodes, sandbox, copied>>
      /\ job[p].step \in {"unrecord", "forget"} /\ job[p].node = None /\ job'[p] = NoJob /\ synced'[p] = NoRow
  BY ForgetDoes
<1>2. phase = "applying" /\ folder' = folder /\ leftOut' = leftOut
  BY <1>1 DEF Turns, notes
<1>3. job[p] # NoJob
  BY <1>1, JobsAre
<1>4. RowsTrue'
  <2>1. job'[p].step \notin {"write", "record"}
    BY <1>1, JobsAre
  <2> QED BY <1>1, <2>1, RowsTrueSame
<1>5. clean => InHand(p)' /\ \A q \in Paths \ {p} : Steady(q)
  <2>1. \A q \in Paths : Steady(q)
    BY <1>1, <1>2, SameSteady
  <2>2. clean => nodeAt(p)' = None
    BY <1>1, <1>2, <1>3, <2>1, AtWork DEF InHand, Steady
  <2> QED BY <1>1, <2>1, <2>2, JobsAre DEF InHand, DriveKnown
<1>6. calm = 0
  BY <1>1, <1>2, AtWork DEF OneWay
<1> QED BY <1>1, <1>3, <1>4, <1>5, <1>6, JobAgrees

LEMMA ConflictCopyAgrees ==
  ASSUME Shape, AgreeInv, NEW p \in Paths, ConflictCopy(p)
  PROVE  AgreeInv'
<1>1. /\ Turns(p) /\ Undisturbed /\ UNCHANGED <<nodes, synced>>
      /\ job[p].step = "copy" /\ job'[p].step \in {"delete", "put"} /\ job'[p].node = job[p].node
  BY ConflictCopyDoes
<1>2. phase = "applying" /\ folder' = folder /\ leftOut' = leftOut
  BY <1>1 DEF Turns, notes
<1>3. job[p] # NoJob /\ job'[p] # NoJob
  BY <1>1, JobsAre
<1>4. RowsTrue'
  BY <1>1, RowsTrueSame
<1>5. clean => InHand(p)' /\ \A q \in Paths \ {p} : Steady(q)
  <2>1. \A q \in Paths : Steady(q)
    BY <1>1, <1>2, SameSteady
  <2> QED BY <1>1, <1>2, <1>3, <2>1, AtWork DEF InHand, Steady
<1>6. calm = 0
  BY <1>1, <1>2, AtWork DEF OneWay
<1> QED BY <1>1, <1>3, <1>4, <1>5, <1>6, JobAgrees

\* Rows stay true where only rows and jobs go.
LEMMA RowsTrueFewer ==
  ASSUME Shape, RowsTrue, nodes' = nodes \/ FilesNext,
         \A q \in Paths : synced'[q] \in {synced[q], NoRow},
         \A q \in Paths : job'[q] = job[q] \/ job'[q].step \notin {"write", "record"}
  PROVE  RowsTrue'
<1>1. CASE nodes' = nodes
  BY <1>1 DEF RowsTrue
<1>2. CASE FilesNext
  BY <1>2, RowsTrueNext
<1> QED BY <1>1, <1>2

\* What disturbs a sync leaves nothing to know but the rows.
LEMMA DisturbedAgrees ==
  ASSUME RowsTrue', Disturbed
  PROVE  AgreeInv'
BY DEF Disturbed, AgreeInv, FirstSync, SecondSync, ThirdSync

LEMMA EditAgrees ==
  ASSUME Shape, AgreeInv, Edit
  PROVE  AgreeInv'
<1>1. Disturbed
  BY DEF Edit, AgentWrites, AgentRemoves, AgentIgnores, PersonWrites, PersonTrashes, PersonRestores, PersonTrashesFolder,
         sandboxStartedOver
<1>2. CASE AgentWrites \/ AgentRemoves \/ AgentIgnores \/ PersonWrites \/ PersonTrashes \/ PersonRestores
  <2>1. Edits
    BY <1>2, AgentWritesDoes, AgentRemovesDoes, AgentIgnoresDoes, PersonWritesDoes, PersonTrashesDoes, PersonRestoresDoes
  <2>2. RowsTrue'
    BY <2>1, RowsTrueFewer DEF Edits, AgreeInv
  <2> QED BY <1>1, <2>2, DisturbedAgrees
<1>3. CASE PersonTrashesFolder \/ sandboxStartedOver
  <2>1. /\ nodes' = nodes /\ job' = job
        /\ \A q \in Paths : synced'[q] \in {synced[q], NoRow}
    BY <1>3 DEF PersonTrashesFolder, sandboxStartedOver, syncVars, driveVars
  <2>2. RowsTrue'
    BY <2>1, RowsTrueFewer DEF AgreeInv
  <2> QED BY <1>1, <2>2, DisturbedAgrees
<1> QED BY <1>2, <1>3 DEF Edit

LEMMA CutAgrees ==
  ASSUME Shape, AgreeInv,
         \/ SyncFails \/ Restart
         \/ \E p \in Paths : JobMisses(p) \/ JobFails(p) \/ StopsUnrecorded(p)
  PROVE  AgreeInv'
<1>1. CASE SyncFails
  <2>1. Disturbed /\ nodes' = nodes /\ synced' = synced /\ job' = job
    BY <1>1, SyncFailsDoes
  <2> QED BY <2>1, RowsTrueFewer, DisturbedAgrees DEF AgreeInv
<1>2. CASE Restart \/ \E p \in Paths : StopsUnrecorded(p)
  <2>1. Stops /\ FilesNext
    <3>1. CASE Restart
      BY <3>1, SameFiles DEF Restart, Stops
    <3> QED BY <1>2, <3>1, UnrecordedDoes
  <2>2. Disturbed /\ synced' = synced /\ job' = [p \in Paths |-> NoJob]
    BY <2>1, StopsDoes
  <2>3. \A q \in Paths : job'[q].step \notin {"write", "record"}
    BY <2>2, JobsAre
  <2> QED BY <2>1, <2>2, <2>3, RowsTrueFewer, DisturbedAgrees DEF AgreeInv
<1>3. CASE \E p \in Paths : JobMisses(p) \/ JobFails(p)
  <2>1. PICK p \in Paths : GivesUp(p)
    BY <1>3 DEF JobMisses, JobFails
  <2>2. Disturbed /\ nodes' = nodes /\ synced' = synced /\ job'[p] = NoJob /\ \A q \in Paths \ {p} : job'[q] = job[q]
    BY <2>1, GivesUpDoes DEF Turns
  <2>3. \A q \in Paths : job'[q] = job[q] \/ job'[q].step \notin {"write", "record"}
    BY <2>2, JobsAre
  <2> QED BY <2>2, <2>3, RowsTrueFewer, DisturbedAgrees DEF AgreeInv
<1> QED BY <1>1, <1>2, <1>3

LEMMA SyncStartAgrees ==
  ASSUME Shape, AgreeInv, SyncStart
  PROVE  AgreeInv'
<1>1. /\ phase = "idle" /\ phase' = "listing" /\ folderLive' = TRUE /\ clean' = TRUE
      /\ folder' = (IF folderLive THEN folder ELSE folder + 1)
      /\ synced' = (IF folderLive THEN synced ELSE [p \in Paths |-> NoRow])
      /\ nodes' = nodes /\ job' = job /\ sandbox' = sandbox /\ calm' = calm /\ leftOut' = leftOut
  BY DEF SyncStart, notes
<1>2. RowsTrue'
  <2>1. \A q \in Paths : synced'[q] \in {synced[q], NoRow}
    BY <1>1
  <2> QED BY <1>1, <2>1, RowsTrueFewer DEF AgreeInv
<1>3. calm # 0 => folder' = folder /\ synced' = synced /\ \A q \in Paths : DriveKnown(q)
  BY <1>1 DEF AgreeInv, FirstSync
<1>4. FirstSync'
  <2>1. calm # 0 => \A q \in Paths : DriveKnown(q)'
    <3> SUFFICES ASSUME calm # 0, NEW q \in Paths PROVE DriveKnown(q)'
      OBVIOUS
    <3>1. Steady(q)
      BY <1>1, <1>3, SameSteady
    <3> QED BY <1>1, <1>3, <3>1 DEF DriveKnown, Steady
  <2> QED BY <1>1, <2>1 DEF FirstSync
<1>5. SecondSync'
  BY <1>1 DEF SecondSync
<1>6. ThirdSync'
  <2>1. calm = 2 => calm # 0
    OBVIOUS
  <2> QED BY <1>1, <1>3, <2>1 DEF AgreeInv, ThirdSync
<1> QED BY <1>2, <1>4, <1>5, <1>6 DEF AgreeInv

LEMMA ListedAgrees ==
  ASSUME Shape, AgreeInv, Listed
  PROVE  AgreeInv'
<1>1. /\ phase = "listing" /\ phase' = "listed"
      /\ listed' = [p \in Paths |-> IF p \in leftOut THEN None ELSE sandbox[p]]
      /\ nodes' = nodes /\ folder' = folder /\ folderLive' = folderLive /\ synced' = synced /\ job' = job
      /\ sandbox' = sandbox /\ calm' = calm /\ clean' = clean /\ leftOut' = leftOut
  BY DEF Listed, notes, driveVars
<1>2. RowsTrue'
  BY <1>1, RowsTrueFewer DEF AgreeInv
<1>4. FirstSync'
  <2>1. calm # 0 => \A q \in Paths : DriveKnown(q)'
    <3> SUFFICES ASSUME calm # 0, NEW q \in Paths PROVE DriveKnown(q)'
      OBVIOUS
    <3>1. Steady(q) /\ DriveKnown(q)
      BY <1>1, SameSteady DEF AgreeInv, FirstSync
    <3> QED BY <1>1, <3>1 DEF DriveKnown, Steady
  <2> QED BY <1>1, <2>1 DEF AgreeInv, FirstSync
<1>5. SecondSync'
  BY <1>1 DEF AgreeInv, SecondSync
<1>6. ThirdSync'
  BY <1>1 DEF AgreeInv, ThirdSync
<1> QED BY <1>2, <1>4, <1>5, <1>6 DEF AgreeInv

\* A name nobody has anything of has no row that tells of a version.
LEMMA NoneKnown ==
  ASSUME Shape, NEW p \in Paths, DriveKnown(p)
  PROVE  (IF nodeAt(p) = None THEN 0 ELSE nodes[nodeAt(p)].version) = synced[p].version
<1>1. CASE nodeAt(p) = None
  <2>1. synced[p].node = None /\ synced[p] \in Rows(DOMAIN nodes) /\ None \notin DOMAIN nodes
    BY <1>1, PathsAre, FilesAre DEF DriveKnown, Shape
  <2>2. synced[p] = NoRow
    BY <2>1 DEF Rows
  <2> QED BY <1>1, <2>2, JobsAre
<1> QED BY <1>1 DEF DriveKnown

LEMMA PlanAgrees ==
  ASSUME Shape, AgreeInv, Plan
  PROVE  AgreeInv'
<1>1. /\ phase = "listed" /\ phase' = "applying" /\ job' = [p \in Paths |-> Planned(p)]
      /\ nodes' = nodes /\ folder' = folder /\ folderLive' = folderLive /\ synced' = synced
      /\ sandbox' = sandbox /\ calm' = calm /\ clean' = clean /\ leftOut' = leftOut
  BY DEF Plan, notes, driveVars
<1> DEFINE version(p) == IF nodeAt(p) = None THEN 0 ELSE nodes[nodeAt(p)].version
           sandboxChanged(p) == listed[p] # synced[p].content
           driveChanged(p) == nodeAt(p) # synced[p].node \/ version(p) # synced[p].version
<1>2. \A p \in Paths :
        /\ job'[p] = NoJob <=> ~sandboxChanged(p) /\ ~driveChanged(p)
        /\ job'[p] # NoJob => job'[p].node = nodeAt(p)
        /\ job'[p].step \in {"none", "trash", "upload", "update", "delete", "put", "conflict", "forget"}
        /\ job'[p].step \in {"put", "delete", "conflict", "forget"} => driveChanged(p)
        /\ job'[p].step = "trash" => listed[p] = None
  BY <1>1, PlannedIs
<1>3. \A p \in Paths : DriveKnown(p) => ~driveChanged(p)
  BY NoneKnown DEF DriveKnown
<1>4. \A p \in Paths : ~driveChanged(p) => DriveKnown(p)
  BY DEF DriveKnown
<1> HIDE DEF version, sandboxChanged, driveChanged
<1>5. RowsTrue'
  BY <1>1, <1>2, RowsTrueFewer DEF AgreeInv
<1>6. \A p \in Paths : Steady(p)
  BY <1>1, SameSteady
<1>7. FirstSync'
  <2>1. \A p \in Paths : InHand(p)'
    <3> SUFFICES ASSUME NEW p \in Paths PROVE InHand(p)'
      OBVIOUS
    <3>1. CASE job'[p] = NoJob
      BY <1>1, <1>2, <1>4, <1>6, <3>1 DEF InHand, DriveKnown, Steady
    <3>2. CASE job'[p] # NoJob
      BY <1>1, <1>2, <1>6, <3>2 DEF InHand, Steady
    <3> QED BY <3>1, <3>2
  <2> QED BY <1>1, <2>1 DEF AgreeInv, FirstSync
<1>8. calm # 0 => \A p \in Paths : ~driveChanged(p)
  BY <1>1, <1>3 DEF AgreeInv, FirstSync
<1>9. calm # 0 => \A p \in Paths \ leftOut : listed[p] = sandbox[p]
  BY <1>1 DEF AgreeInv, SecondSync
<1>10. SecondSync'
  <2>1. ASSUME calm # 0, NEW p \in Paths PROVE OneWay(p)'
    <3>1. job'[p].step \in {"none", "upload", "update", "trash"}
      BY <1>2, <1>8, <2>1
    <3>2. p \notin leftOut /\ job'[p] = NoJob => sandbox[p] = synced[p].content
      BY <1>2, <1>9, <2>1 DEF sandboxChanged
    <3>3. p \notin leftOut /\ job'[p].step = "trash" => sandbox[p] = None
      BY <1>2, <1>9, <2>1
    <3> QED BY <1>1, <3>1, <3>2, <3>3 DEF OneWay
  <2> QED BY <1>1, <2>1 DEF AgreeInv, SecondSync
<1>11. ThirdSync'
  <2> SUFFICES ASSUME calm = 2, NEW p \in Paths \ leftOut PROVE job'[p] = NoJob /\ sandbox[p] = synced[p].content
    BY <1>1 DEF ThirdSync
  <2>1. calm # 0
    OBVIOUS
  <2>2. sandbox[p] = synced[p].content
    BY DEF AgreeInv, ThirdSync
  <2>3. ~sandboxChanged(p) /\ ~driveChanged(p)
    BY <1>8, <1>9, <2>1, <2>2 DEF sandboxChanged
  <2> QED BY <1>2, <2>2, <2>3
<1> QED BY <1>5, <1>7, <1>10, <1>11 DEF AgreeInv

LEMMA SyncEndAgrees ==
  ASSUME Shape, AgreeInv, SyncEnd
  PROVE  AgreeInv'
<1>1. /\ phase = "applying" /\ phase' = "idle" /\ (\A p \in Paths : job[p] = NoJob) /\ job' = job
      /\ calm' = (IF ~clean THEN 0 ELSE IF calm < 2 THEN calm + 1 ELSE 2) /\ clean' = FALSE
      /\ nodes' = nodes /\ folder' = folder /\ folderLive' = folderLive /\ synced' = synced /\ sandbox' = sandbox
      /\ leftOut' = leftOut
  BY SyncEndDoes
<1>2. RowsTrue'
  BY <1>1, RowsTrueFewer DEF AgreeInv
<1>3. folderLive
  BY <1>1 DEF Shape, FolderOK
<1>4. calm' # 0 => clean
  BY <1>1
<1>5. FirstSync'
  <2>1. ASSUME clean, NEW q \in Paths PROVE DriveKnown(q)'
    <3>1. DriveKnown(q) /\ Steady(q)
      BY <1>1, <2>1, SameSteady DEF AgreeInv, FirstSync, InHand
    <3> QED BY <1>1, <3>1 DEF DriveKnown, Steady
  <2> QED BY <1>1, <1>3, <1>4, <2>1 DEF FirstSync
<1>6. SecondSync'
  BY <1>1 DEF SecondSync
<1>7. ThirdSync'
  <2> SUFFICES ASSUME calm' = 2, NEW p \in Paths \ leftOut PROVE sandbox[p] = synced[p].content
    BY <1>1 DEF ThirdSync
  <2>1. calm \in 0..2
    BY DEF Shape, TypeOK
  <2>2. calm # 0
    BY <1>1, <2>1
  <2>3. OneWay(p)
    BY <1>1, <2>2 DEF AgreeInv, SecondSync
  <2> QED BY <1>1, <2>3 DEF OneWay
<1> QED BY <1>2, <1>5, <1>6, <1>7 DEF AgreeInv

LEMMA AgreeStep ==
  ASSUME Shape, AgreeInv, [Next]_vars
  PROVE  AgreeInv'
<1>0. Shape'
  BY ShapeStep
<1>1. ASSUME NEW p \in Paths, Job(p) PROVE AgreeInv'
  <2>1. CASE ReadFull(p) \/ UploadAdd(p) \/ UpdateReplace(p) \/ UpdateFinish(p) \/ Trash(p)
    BY <1>0, <2>1, ReadFullAgrees, UploadAddAgrees, UpdateReplaceAgrees, UpdateFinishAgrees, TrashAgrees
  <2>2. CASE PutRead(p) \/ PutWrite(p) \/ PutRecord(p) \/ Delete(p) \/ Forget(p) \/ ConflictCopy(p)
    BY <2>2, PutReadAgrees, PutWriteAgrees, PutRecordAgrees, DeleteAgrees, ForgetAgrees, ConflictCopyAgrees
  <2>3. CASE JobMisses(p) \/ JobFails(p) \/ StopsUnrecorded(p)
    BY <2>3, CutAgrees
  <2> QED BY <1>1, <2>1, <2>2, <2>3 DEF Job
<1>2. CASE UNCHANGED vars
  <2>1. UNCHANGED <<sandbox, nodes, folder, folderLive, synced, phase, listed, job, leftOut, calm, clean>>
    BY <1>2 DEF vars, driveVars, syncVars, notes
  <2>2. RowsTrue' /\ ThirdSync'
    BY <2>1 DEF AgreeInv, RowsTrue, ThirdSync
  <2>3. \A p \in Paths : (InHand(p)' <=> InHand(p)) /\ (DriveKnown(p)' <=> DriveKnown(p)) /\ (OneWay(p)' <=> OneWay(p))
    BY <2>1 DEF InHand, DriveKnown, OneWay, nodeAt
  <2>4. FirstSync' /\ SecondSync'
    BY <2>1, <2>3 DEF AgreeInv, FirstSync, SecondSync
  <2> QED BY <2>2, <2>4 DEF AgreeInv
<1> QED BY <1>1, <1>2, EditAgrees, CutAgrees, SyncStartAgrees, ListedAgrees, PlanAgrees, SyncEndAgrees DEF Next, Sync

LEMMA AgreeInit == Init => AgreeInv
<1> SUFFICES ASSUME Init PROVE AgreeInv
  OBVIOUS
<1>1. /\ synced = [p \in Paths |-> NoRow] /\ job = [p \in Paths |-> NoJob] /\ calm = 0 /\ clean = FALSE
  BY DEF Init
<1>2. RowsTrue
  BY <1>1, JobsAre DEF RowsTrue
<1> QED BY <1>1, <1>2 DEF AgreeInv, FirstSync, SecondSync, ThirdSync

\* Where Drive's side is as the rows say, and the sandbox's too, both sides hold the same.
LEMMA AgreeFollows ==
  ASSUME Shape, AgreeInv
  PROVE  TwoSyncsAgree
<1> SUFFICES ASSUME calm = 2, NEW p \in Paths \ leftOut
             PROVE  sandbox[p] = IF nodeAt(p) = None THEN None ELSE nodes[nodeAt(p)].content
  BY DEF TwoSyncsAgree, Agree
<1>1. calm # 0
  OBVIOUS
<1>2. job[p] = NoJob /\ sandbox[p] = synced[p].content
  BY DEF AgreeInv, ThirdSync
<1>3. DriveKnown(p)
  <2>1. CASE phase = "applying"
    BY <1>1, <1>2, <2>1, AtWork DEF InHand
  <2> QED BY <1>1, <2>1 DEF AgreeInv, FirstSync
<1>4. synced[p] \in Rows(DOMAIN nodes) /\ None \notin DOMAIN nodes
  BY PathsAre, FilesAre DEF Shape
<1>5. CASE nodeAt(p) = None
  <2>1. synced[p] = NoRow
    BY <1>3, <1>4, <1>5 DEF Rows, DriveKnown
  <2> QED BY <1>2, <1>5, <2>1, JobsAre
<1>6. CASE nodeAt(p) # None
  <2>1. synced[p] # NoRow
    BY <1>3, <1>6, JobsAre DEF DriveKnown
  <2>2. RowTrue(nodes, nodeAt(p), synced[p].content, nodes[nodeAt(p)].version)
    BY <1>3, <1>6, <2>1 DEF AgreeInv, RowsTrue, DriveKnown
  <2>3. nodes[nodeAt(p)].version \in Nat
    <3>1. nodeAt(p) \in DOMAIN nodes
      BY <1>6, FileAt DEF Shape
    <3> QED BY <3>1, FilesAre DEF Shape, Files
  <2> QED BY <1>2, <1>6, <2>2, <2>3 DEF RowTrue
<1> QED BY <1>5, <1>6

\* drive.ts, "Brings the task's Drive folder and its sandbox into agreement": after two syncs
\* that nothing disturbed both sides hold the same of what the sandbox lists, for any files and names,
\* and whatever edits, failures and restarts came before.
THEOREM SyncsAgree == Spec => []TwoSyncsAgree
<1>1. Spec => []AgreeInv
  BY AgreeInit, AgreeStep, ShapeHolds, PTL DEF Spec
<1> QED BY <1>1, ShapeHolds, AgreeFollows, PTL

-----------------------------------------------------------------------------
(***************************************************************************)
(* What a sync trashes was given up.                                       *)
(***************************************************************************)

\* An agent's copy has a name nobody edits.
CopiesApart == \A p \in Paths : agentCopyName(p) \notin Edited
Copies == {agentCopyName(p) : p \in Paths}

\* Nobody has these to lose any more.
GivenUp == superseded \cup unlisted \cup {c \in 1..edits : Author(c) = racer}

\* The sandbox still holds c under the name, or it was given up, or a copy has taken the name.
KeptIn(given, held, q, c) == c \in given \/ held = c \/ (q \in Copies /\ held # None)

\* The row is of the file Drive has, as it is.
Matches(q) == /\ synced[q] # NoRow /\ nodes[synced[q].node].path = q
              /\ nodes[synced[q].node].version = synced[q].version
RowKept(q) ==
  /\ synced[q] # NoRow => nodes[synced[q].node].home = folder
  /\ Matches(q) => KeptIn(GivenUp, sandbox[q], q, synced[q].content)
  /\ phase = "listed" /\ Matches(q) /\ listed[q] = None => synced[q].content \in GivenUp
JobKept(q) ==
  /\ job[q].node # None => nodes[job[q].node].path = q /\ nodes[job[q].node].home = folder
  /\ job[q].step \in {"put", "write", "delete", "conflict", "copy"} /\ Matches(q) => synced[q].content \in GivenUp
  /\ job[q].step \in {"add", "replace", "finish", "record"} => KeptIn(GivenUp, sandbox[q], q, job[q].bytes)
  /\ job[q].step = "trash" => nodes[job[q].node].content \in GivenUp
TrashGiven == \A n \in DOMAIN nodes : nodes[n].live \/ nodes[n].content \in GivenUp
WrittenBefore == agents \subseteq 1..edits

GivenInv == WrittenBefore /\ TrashGiven /\ \A q \in Paths : RowKept(q) /\ JobKept(q)

\* A row that is of Drive's file as it is was so before, if it is the same row.
LEMMA MatchesBack ==
  ASSUME Shape, RowsTrue, Grow, NEW q \in Paths, synced'[q] = synced[q], Matches(q)'
  PROVE  Matches(q)
<1>1. /\ synced[q] # NoRow /\ nodes'[synced[q].node].path = q
      /\ nodes'[synced[q].node].version = synced[q].version
  BY DEF Matches
<1>2. PICK n \in DOMAIN nodes : n = synced[q].node
  BY <1>1, PathsAre DEF Rows
<1>3. synced[q].version \in Nat /\ nodes[n].version \in Nat
  BY <1>1, PathsAre, FilesAre DEF Rows, Shape, Files
<1>4. nodes'[n].path = nodes[n].path /\ (nodes'[n].version > nodes[n].version \/ nodes'[n].version = nodes[n].version)
  BY DEF Grow
<1>5. nodes[n].version > synced[q].version \/ nodes[n].version = synced[q].version
  BY <1>1, <1>2 DEF RowsTrue, RowTrue
<1>6. nodes[n].version = synced[q].version
  <2>1. synced[q].version > nodes[n].version \/ synced[q].version = nodes[n].version
    BY <1>1, <1>2, <1>4
  <2>2. \A a, b \in Nat : (a > b \/ a = b) /\ (b > a \/ b = a) => b = a
    OBVIOUS
  <2> QED BY <1>3, <1>5, <2>1, <2>2
<1> QED BY <1>1, <1>2, <1>4, <1>6 DEF Matches

\* What a name holds in the sandbox stays, is given up, or gives way to a copy.
Allowed(q) == \/ sandbox'[q] = sandbox[q]
              \/ sandbox[q] \in GivenUp' /\ q \notin Copies
              \/ q \in Copies /\ sandbox'[q] # None

LEMMA KeptStays ==
  ASSUME NEW given, NEW more, \A c \in given : c \in more, NEW held, NEW next, NEW q, NEW c,
         next = held \/ (held \in more /\ q \notin Copies) \/ (q \in Copies /\ next # None),
         KeptIn(given, held, q, c)
  PROVE  KeptIn(more, next, q, c)
BY DEF KeptIn

LEMMA RowStays ==
  ASSUME Shape, RowsTrue, Grow, \A c \in GivenUp : c \in GivenUp', NEW q \in Paths, RowKept(q),
         synced'[q] = NoRow \/ (synced'[q] = synced[q] /\ folder' = folder /\ Allowed(q)),
         phase' = "listed" => phase = "listed" /\ listed'[q] = listed[q]
  PROVE  RowKept(q)'
<1>1. CASE synced'[q] = NoRow
  BY <1>1 DEF RowKept, Matches
<1>2. CASE synced'[q] = synced[q] /\ folder' = folder /\ Allowed(q) /\ synced[q] # NoRow
  <2>1. nodes'[synced[q].node].home = folder
    <3>1. synced[q].node \in DOMAIN nodes
      BY <1>2, PathsAre DEF Rows
    <3> QED BY <1>2, <3>1 DEF Grow, RowKept
  <2>2. Matches(q)' => Matches(q)
    BY <1>2, MatchesBack
  <2>3. Matches(q)' => KeptIn(GivenUp', sandbox'[q], q, synced'[q].content)
    <3>1. PICK c : c = synced[q].content
      OBVIOUS
    <3>2. Matches(q) => KeptIn(GivenUp, sandbox[q], q, c)
      BY <3>1 DEF RowKept
    <3>3. Matches(q)' => KeptIn(GivenUp', sandbox'[q], q, c)
      BY <1>2, <2>2, <3>2, KeptStays DEF Allowed
    <3> QED BY <1>2, <3>1, <3>3
  <2>4. phase' = "listed" /\ Matches(q)' /\ listed'[q] = None => synced'[q].content \in GivenUp'
    BY <1>2, <2>2 DEF RowKept
  <2> QED BY <1>2, <2>1, <2>3, <2>4 DEF RowKept
<1> QED BY <1>1, <1>2

LEMMA JobStays ==
  ASSUME Shape, RowsTrue, Grow, \A c \in GivenUp : c \in GivenUp', NEW q \in Paths, JobKept(q),
         \/ job'[q] = NoJob
         \/ /\ job'[q] = job[q] /\ synced'[q] = synced[q] /\ folder' = folder /\ Allowed(q)
            /\ job[q].step = "trash" => \/ nodes'[job[q].node].content = nodes[job[q].node].content
                                        \/ nodes'[job[q].node].content \in GivenUp'
  PROVE  JobKept(q)'
<1>1. CASE job'[q] = NoJob
  BY <1>1, JobsAre DEF JobKept
<1>2. CASE /\ job'[q] = job[q] /\ synced'[q] = synced[q] /\ folder' = folder /\ Allowed(q)
           /\ job[q].step = "trash" => \/ nodes'[job[q].node].content = nodes[job[q].node].content
                                       \/ nodes'[job[q].node].content \in GivenUp'
  <2>1. job'[q].node # None => nodes'[job'[q].node].path = q /\ nodes'[job'[q].node].home = folder'
    <3>1. job[q].node # None => job[q].node \in DOMAIN nodes
      BY PathIs DEF Jobs
    <3> QED BY <1>2, <3>1 DEF Grow, JobKept
  <2>2. Matches(q)' => Matches(q)
    BY <1>2, MatchesBack
  <2>3. job'[q].step \in {"put", "write", "delete", "conflict", "copy"} /\ Matches(q)' => synced'[q].content \in GivenUp'
    BY <1>2, <2>2 DEF JobKept
  <2>4. job'[q].step \in {"add", "replace", "finish", "record"} => KeptIn(GivenUp', sandbox'[q], q, job'[q].bytes)
    <3>1. PICK c : c = job[q].bytes
      OBVIOUS
    <3>2. job[q].step \in {"add", "replace", "finish", "record"} => KeptIn(GivenUp, sandbox[q], q, c)
      BY <3>1 DEF JobKept
    <3>3. job[q].step \in {"add", "replace", "finish", "record"} => KeptIn(GivenUp', sandbox'[q], q, c)
      BY <1>2, <3>2, KeptStays DEF Allowed
    <3> QED BY <1>2, <3>1, <3>3
  <2>5. job'[q].step = "trash" => nodes'[job'[q].node].content \in GivenUp'
    BY <1>2 DEF JobKept
  <2> QED BY <2>1, <2>3, <2>4, <2>5 DEF JobKept
<1> QED BY <1>1, <1>2

\* Of what jobs and cuts leave alone.
LEMMA GivenSame ==
  ASSUME UNCHANGED <<superseded, unlisted, edits, agents, racer>>
  PROVE  GivenUp' = GivenUp /\ (WrittenBefore' <=> WrittenBefore)
BY DEF GivenUp, Author, WrittenBefore

\* A job goes a step further: the others keep what they had.
LEMMA JobGives ==
  ASSUME Shape, AgreeInv, GivenInv, NEW p \in Paths, Turns(p), RowKept(p)', JobKept(p)', TrashGiven',
         \A q \in Paths \ {p} : /\ Allowed(q)
                                /\ job[q].step = "trash" => nodes'[job[q].node].content = nodes[job[q].node].content
  PROVE  GivenInv'
<1>1. /\ FilesNext /\ folder' = folder /\ phase' = phase /\ listed' = listed
      /\ \A q \in Paths \ {p} : job'[q] = job[q] /\ synced'[q] = synced[q]
      /\ UNCHANGED <<superseded, unlisted, edits, agents, racer>>
  BY DEF Turns, notes
<1>2. GivenUp' = GivenUp /\ (WrittenBefore' <=> WrittenBefore)
  BY <1>1, GivenSame
<1>3. Grow /\ RowsTrue
  BY <1>1 DEF FilesNext, AgreeInv
<1>4. ASSUME NEW q \in Paths \ {p} PROVE RowKept(q)' /\ JobKept(q)'
  <2>1. RowKept(q) /\ JobKept(q)
    BY DEF GivenInv
  <2>2. RowKept(q)'
    BY <1>1, <1>2, <1>3, <2>1, RowStays
  <2>3. JobKept(q)'
    BY <1>1, <1>2, <1>3, <2>1, JobStays
  <2> QED BY <2>2, <2>3
<1> QED BY <1>2, <1>4 DEF GivenInv

\* What a path at work has had kept.
LEMMA KeptAtWork ==
  ASSUME GivenInv, NEW p \in Paths, Turns(p)
  PROVE  /\ RowKept(p) /\ JobKept(p) /\ TrashGiven /\ phase = "applying" /\ phase' = "applying" /\ folder' = folder
         /\ FilesNext /\ Grow /\ listed' = listed /\ GivenUp' = GivenUp
         /\ \A q \in Paths \ {p} : job'[q] = job[q] /\ synced'[q] = synced[q]
<1>1. GivenUp' = GivenUp
  BY GivenSame DEF Turns, notes
<1> QED BY <1>1 DEF GivenInv, Turns, FilesNext

\* A step that only touches the job.
LEMMA QuietGives ==
  ASSUME Shape, AgreeInv, GivenInv, NEW p \in Paths, Turns(p), UNCHANGED <<nodes, sandbox, synced>>, JobKept(p)'
  PROVE  GivenInv'
<1>1. RowKept(p)'
  BY KeptAtWork, RowStays DEF Allowed, AgreeInv
<1>2. TrashGiven'
  BY KeptAtWork DEF TrashGiven
<1> QED BY <1>1, <1>2, JobGives DEF Allowed

LEMMA ReadFullGives ==
  ASSUME Shape, AgreeInv, GivenInv, NEW p \in Paths, ReadFull(p)
  PROVE  GivenInv'
<1>1. /\ Turns(p) /\ UNCHANGED <<nodes, sandbox, synced>>
      /\ job'[p].bytes = sandbox[p] /\ job'[p].node = job[p].node
      /\ \/ job[p].step = "upload" /\ job'[p].step = "add"
         \/ job[p].step = "update" /\ job'[p].step = "replace"
         \/ job[p].step = "conflict" /\ job'[p].step = "copy"
  BY ReadFullDoes
<1>2. JobKept(p)'
  BY <1>1, KeptAtWork DEF JobKept, KeptIn, Matches
<1> QED BY <1>1, <1>2, QuietGives

LEMMA UpdateReplaceGives ==
  ASSUME Shape, AgreeInv, GivenInv, NEW p \in Paths, UpdateReplace(p)
  PROVE  GivenInv'
<1>1. /\ Turns(p) /\ UNCHANGED <<nodes, sandbox, synced>>
      /\ job[p].step = "replace" /\ job'[p].step = "finish"
      /\ job'[p].bytes = job[p].bytes /\ job'[p].node = job[p].node
  BY UpdateReplaceDoes
<1>2. JobKept(p)'
  BY <1>1, KeptAtWork DEF JobKept
<1> QED BY <1>1, <1>2, QuietGives

LEMMA PutReadGives ==
  ASSUME Shape, AgreeInv, GivenInv, NEW p \in Paths, PutRead(p)
  PROVE  GivenInv'
<1>1. /\ Turns(p) /\ UNCHANGED <<nodes, sandbox, synced>>
      /\ job[p].step = "put" /\ job'[p].step = "write" /\ job'[p].node = job[p].node
  BY PutReadDoes
<1>2. JobKept(p)'
  BY <1>1, KeptAtWork DEF JobKept, Matches
<1> QED BY <1>1, <1>2, QuietGives

LEMMA GivesUpGives ==
  ASSUME Shape, AgreeInv, GivenInv, NEW p \in Paths, GivesUp(p)
  PROVE  GivenInv'
<1>1. Turns(p) /\ UNCHANGED <<nodes, sandbox, synced>> /\ job'[p] = NoJob
  BY GivesUpDoes
<1>2. JobKept(p)'
  BY <1>1, JobsAre DEF JobKept
<1> QED BY <1>1, <1>2, QuietGives

\* What the step writes into Drive is what the sandbox held, or was given up.
LEMMA UploadAddGives ==
  ASSUME Shape, AgreeInv, GivenInv, NEW p \in Paths, UploadAdd(p)
  PROVE  GivenInv'
<1> DEFINE n == Len(nodes')
<1>1. /\ Turns(p) /\ sandbox' = sandbox
      /\ job[p].step = "add" /\ job'[p] = NoJob /\ Adds(job[p].bytes, p)
      /\ synced'[p] = [node |-> n, content |-> job[p].bytes, version |-> 1]
  BY UploadAddDoes
<1>2. /\ DOMAIN nodes' = DOMAIN nodes \cup {n} /\ nodes'[n].live /\ nodes'[n].home = folder
      /\ \A m \in DOMAIN nodes : nodes'[m] = nodes[m]
  BY <1>1 DEF Adds
<1> HIDE DEF n
<1>3. synced'[p].node = n /\ synced'[p].content = job[p].bytes
  BY <1>1
<1>4. RowKept(p)'
  BY <1>1, <1>2, <1>3, KeptAtWork DEF RowKept, JobKept
<1>5. JobKept(p)'
  BY <1>1, JobsAre DEF JobKept
<1>6. TrashGiven'
  BY <1>1, <1>2, KeptAtWork DEF TrashGiven
<1>7. \A q \in Paths \ {p} : job[q].step = "trash" => job[q].node \in DOMAIN nodes
  BY <1>1, JobHas DEF Turns
<1> QED BY <1>1, <1>2, <1>4, <1>5, <1>6, <1>7, JobGives DEF Allowed

LEMMA UpdateFinishGives ==
  ASSUME Shape, AgreeInv, GivenInv, NEW p \in Paths, UpdateFinish(p)
  PROVE  GivenInv'
<1> DEFINE n == job[p].node
           m == FinishedNode(p)
           name == IF nodes[n].live THEN conflictName(p) ELSE p
<1>1. /\ Turns(p) /\ sandbox' = sandbox
      /\ job[p].step = "finish" /\ job'[p] = NoJob /\ n \in DOMAIN nodes
      /\ \/ nodes[n].live /\ Replaces(n, job[p].bytes) /\ m = n
         \/ Adds(job[p].bytes, name) /\ m = Len(nodes')
      /\ synced'[p] = [node |-> m, content |-> job[p].bytes, version |-> nodes'[m].version]
  BY UpdateFinishDoes
<1>2. nodes[n].path = p /\ nodes[n].home = folder /\ n # None
  BY <1>1, KeptAtWork, FilesAre DEF JobKept, Shape
<1>3. synced'[p].node = m /\ synced'[p].content = job[p].bytes
  BY <1>1
<1> HIDE DEF name
<1>4. nodes'[m].home = folder
  BY <1>1, <1>2 DEF Replaces, Adds
<1>5. TrashGiven'
  <2>1. CASE nodes[n].live /\ Replaces(n, job[p].bytes)
    BY <1>1, <2>1, KeptAtWork DEF TrashGiven, Replaces
  <2>2. CASE Adds(job[p].bytes, name)
    BY <1>1, <2>2, KeptAtWork DEF TrashGiven, Adds
  <2> QED BY <1>1, <2>1, <2>2
<1>6. \A k \in DOMAIN nodes : nodes[k].path # p => nodes'[k] = nodes[k]
  BY <1>1, <1>2 DEF Replaces, Adds
<1> HIDE DEF m
<1>7. RowKept(p)'
  BY <1>1, <1>3, <1>4, KeptAtWork DEF RowKept, JobKept
<1>8. JobKept(p)'
  BY <1>1, JobsAre DEF JobKept
<1>9. ASSUME NEW q \in Paths \ {p}, job[q].step = "trash"
      PROVE  nodes'[job[q].node].content = nodes[job[q].node].content
  <2>1. job[q].node \in DOMAIN nodes /\ job[q].node # None
    BY <1>1, <1>9, JobHas, FilesAre DEF Turns, Shape
  <2>2. nodes[job[q].node].path = q
    BY <2>1 DEF GivenInv, JobKept
  <2> QED BY <1>6, <2>1, <2>2
<1> QED BY <1>1, <1>5, <1>7, <1>8, <1>9, JobGives DEF Allowed

LEMMA TrashGives ==
  ASSUME Shape, AgreeInv, GivenInv, NEW p \in Paths, Trash(p)
  PROVE  GivenInv'
<1> DEFINE n == job[p].node
<1>1. /\ Turns(p) /\ sandbox' = sandbox
      /\ job[p].step = "trash" /\ job'[p] = NoJob /\ synced'[p] = NoRow /\ n \in DOMAIN nodes
      /\ Flips(n, FALSE)
  BY TrashDoes
<1>2. RowKept(p)' /\ JobKept(p)'
  BY <1>1, JobsAre DEF RowKept, JobKept, Matches
<1>3. TrashGiven'
  BY <1>1, KeptAtWork DEF TrashGiven, JobKept, Flips
<1>4. \A m \in DOMAIN nodes : nodes'[m].content = nodes[m].content
  BY <1>1 DEF Flips
<1>5. \A q \in Paths \ {p} : job[q].step = "trash" => job[q].node \in DOMAIN nodes
  BY <1>1, JobHas DEF Turns
<1> QED BY <1>1, <1>2, <1>3, <1>4, <1>5, JobGives DEF Allowed

\* The sandbox's file gives way only to what nobody has to lose.
LEMMA PutWriteGives ==
  ASSUME Shape, AgreeInv, GivenInv, NEW p \in Paths, PutWrite(p)
  PROVE  GivenInv'
<1>1. /\ Turns(p) /\ UNCHANGED <<nodes, synced>>
      /\ job[p].step = "write" /\ job'[p].step = "record"
      /\ job'[p].node = job[p].node /\ job'[p].bytes = job[p].bytes
      /\ sandbox'[p] = job[p].bytes /\ \A q \in Paths \ {p} : sandbox'[q] = sandbox[q]
  BY PutWriteDoes
<1>2. RowKept(p)'
  BY <1>1, KeptAtWork DEF RowKept, JobKept, KeptIn, Matches
<1>3. JobKept(p)'
  BY <1>1, KeptAtWork DEF JobKept, KeptIn
<1>4. TrashGiven'
  BY <1>1, KeptAtWork DEF TrashGiven
<1> QED BY <1>1, <1>2, <1>3, <1>4, JobGives DEF Allowed

LEMMA PutRecordGives ==
  ASSUME Shape, AgreeInv, GivenInv, NEW p \in Paths, PutRecord(p)
  PROVE  GivenInv'
<1>1. /\ Turns(p) /\ UNCHANGED <<nodes, sandbox>>
      /\ job[p].step = "record" /\ job'[p] = NoJob /\ job[p].node \in DOMAIN nodes
      /\ synced'[p] = [node |-> job[p].node, content |-> job[p].bytes, version |-> job[p].version]
  BY PutRecordDoes
<1>2. synced'[p].node = job[p].node /\ synced'[p].content = job[p].bytes
  BY <1>1
<1>3. nodes[job[p].node].home = folder
  BY <1>1, KeptAtWork, FilesAre DEF JobKept, Shape
<1>4. RowKept(p)'
  BY <1>1, <1>2, <1>3, KeptAtWork DEF RowKept, JobKept
<1>5. JobKept(p)'
  BY <1>1, JobsAre DEF JobKept
<1>6. TrashGiven'
  BY <1>1, KeptAtWork DEF TrashGiven
<1> QED BY <1>1, <1>4, <1>5, <1>6, JobGives DEF Allowed

LEMMA DeleteGives ==
  ASSUME Shape, AgreeInv, GivenInv, NEW p \in Paths, Delete(p)
  PROVE  GivenInv'
<1>1. /\ Turns(p) /\ UNCHANGED <<nodes, synced>>
      /\ job[p].step = "delete" /\ job'[p].step = "unrecord" /\ job'[p].node = None
      /\ \A q \in Paths \ {p} : sandbox'[q] = sandbox[q]
  BY DeleteDoes
<1>2. RowKept(p)'
  BY <1>1, KeptAtWork DEF RowKept, JobKept, KeptIn, Matches
<1>3. JobKept(p)'
  BY <1>1 DEF JobKept
<1>4. TrashGiven'
  BY <1>1, KeptAtWork DEF TrashGiven
<1> QED BY <1>1, <1>2, <1>3, <1>4, JobGives DEF Allowed

LEMMA ForgetGives ==
  ASSUME Shape, AgreeInv, GivenInv, NEW p \in Paths, Forget(p)
  PROVE  GivenInv'
<1>1. Turns(p) /\ UNCHANGED <<nodes, sandbox>> /\ job'[p] = NoJob /\ synced'[p] = NoRow
  BY ForgetDoes
<1>2. RowKept(p)' /\ JobKept(p)'
  BY <1>1, JobsAre DEF RowKept, JobKept, Matches
<1>3. TrashGiven'
  BY <1>1, KeptAtWork DEF TrashGiven
<1> QED BY <1>1, <1>2, <1>3, JobGives DEF Allowed

LEMMA ConflictCopyGives ==
  ASSUME Shape, AgreeInv, GivenInv, NEW p \in Paths, ConflictCopy(p)
  PROVE  GivenInv'
<1> DEFINE a == agentCopyName(p)
<1>1. /\ Turns(p) /\ UNCHANGED <<nodes, synced>>
      /\ job[p].step = "copy" /\ job'[p].step \in {"delete", "put"} /\ job'[p].node = job[p].node
      /\ job[p].bytes \in Contents /\ sandbox'[a] = job[p].bytes /\ \A q \in Paths \ {a} : sandbox'[q] = sandbox[q]
  BY ConflictCopyDoes
<1>2. a \in Copies /\ sandbox'[a] # None
  BY <1>1 DEF Copies, Contents, None
<1> HIDE DEF a
<1>3. \A q \in Paths : Allowed(q)
  BY <1>1, <1>2 DEF Allowed
<1>4. RowKept(p)'
  BY <1>1, <1>3, KeptAtWork, RowStays DEF AgreeInv
<1>5. JobKept(p)'
  BY <1>1, KeptAtWork DEF JobKept, Matches
<1>6. TrashGiven'
  BY <1>1, KeptAtWork DEF TrashGiven
<1> QED BY <1>1, <1>3, <1>4, <1>5, <1>6, JobGives

\* Of a step that is nobody's job.
LEMMA GivenStays ==
  ASSUME Shape, AgreeInv, GivenInv, Grow, \A c \in GivenUp : c \in GivenUp', WrittenBefore', TrashGiven',
         \A q \in Paths :
           /\ synced'[q] = NoRow \/ (synced'[q] = synced[q] /\ folder' = folder /\ Allowed(q))
           /\ \/ job'[q] = NoJob
              \/ /\ job'[q] = job[q] /\ synced'[q] = synced[q] /\ folder' = folder /\ Allowed(q)
                 /\ job[q].step = "trash" => \/ nodes'[job[q].node].content = nodes[job[q].node].content
                                             \/ nodes'[job[q].node].content \in GivenUp',
         phase' = "listed" => phase = "listed" /\ listed' = listed
  PROVE  GivenInv'
<1>1. ASSUME NEW q \in Paths PROVE RowKept(q)' /\ JobKept(q)'
  <2>1. RowKept(q) /\ JobKept(q) /\ RowsTrue
    BY DEF GivenInv, AgreeInv
  <2>2. RowKept(q)'
    BY <2>1, RowStays
  <2>3. JobKept(q)'
    BY <2>1, JobStays
  <2> QED BY <2>2, <2>3
<1> QED BY <1>1 DEF GivenInv

LEMMA CutGives ==
  ASSUME Shape, AgreeInv, GivenInv, SyncFails \/ Restart \/ SyncEnd
  PROVE  GivenInv'
<1>1. /\ phase' = "idle" /\ nodes' = nodes /\ sandbox' = sandbox /\ folder' = folder /\ synced' = synced
      /\ UNCHANGED <<superseded, unlisted, edits, agents, racer>>
      /\ \A q \in Paths : job'[q] = job[q] \/ job'[q] = NoJob
  <2>1. CASE SyncFails
    BY <2>1, SyncFailsDoes
  <2>2. CASE SyncEnd
    BY <2>2, SyncEndDoes
  <2>3. CASE Restart
    BY <2>3, SameFiles, StopsDoes DEF Restart, Stops
  <2> QED BY <2>1, <2>2, <2>3
<1>2. GivenUp' = GivenUp /\ WrittenBefore'
  BY <1>1, GivenSame DEF GivenInv
<1>3. Grow /\ TrashGiven'
  BY <1>1, <1>2, GrowOnly DEF TrashGiven, GivenInv, Shape
<1> QED BY <1>1, <1>2, <1>3, GivenStays DEF Allowed

LEMMA UnrecordedGives ==
  ASSUME Shape, AgreeInv, GivenInv, NEW p \in Paths, StopsUnrecorded(p)
  PROVE  GivenInv'
<1> DEFINE n == job[p].node
           name == IF nodes[n].live THEN conflictName(p) ELSE p
<1>1. /\ FilesNext /\ Stops
      /\ \/ Adds(job[p].bytes, p)
         \/ n \in DOMAIN nodes /\ nodes[n].live /\ Replaces(n, job[p].bytes)
         \/ Adds(job[p].bytes, name)
  BY UnrecordedDoes
<1>2. /\ phase' = "idle" /\ sandbox' = sandbox /\ folder' = folder /\ synced' = synced
      /\ UNCHANGED <<superseded, unlisted, edits, agents, racer>>
      /\ \A q \in Paths : job'[q] = NoJob
  BY <1>1, StopsDoes
<1>3. GivenUp' = GivenUp /\ WrittenBefore' /\ Grow /\ TrashGiven
  BY <1>1, <1>2, GivenSame DEF GivenInv, FilesNext
<1> HIDE DEF n, name
<1>4. TrashGiven'
  <2>1. CASE n \in DOMAIN nodes /\ nodes[n].live /\ Replaces(n, job[p].bytes)
    BY <1>3, <2>1 DEF TrashGiven, Replaces
  <2>2. CASE Adds(job[p].bytes, p) \/ Adds(job[p].bytes, name)
    BY <1>3, <2>2 DEF TrashGiven, Adds
  <2> QED BY <1>1, <2>1, <2>2
<1> QED BY <1>2, <1>3, <1>4, GivenStays DEF Allowed

LEMMA SyncStartGives ==
  ASSUME Shape, AgreeInv, GivenInv, SyncStart
  PROVE  GivenInv'
<1>1. /\ phase = "idle" /\ phase' = "listing" /\ nodes' = nodes /\ sandbox' = sandbox /\ job' = job
      /\ \/ folder' = folder /\ synced' = synced
         \/ synced' = [p \in Paths |-> NoRow]
      /\ UNCHANGED <<superseded, unlisted, edits, agents, racer>>
  BY DEF SyncStart, notes
<1>2. GivenUp' = GivenUp /\ WrittenBefore'
  BY <1>1, GivenSame DEF GivenInv
<1>3. Grow /\ TrashGiven'
  BY <1>1, <1>2, GrowOnly DEF TrashGiven, GivenInv, Shape
<1>4. \A q \in Paths : job'[q] = NoJob
  BY <1>1, PathIs
<1>5. \A q \in Paths : synced'[q] = NoRow \/ (synced'[q] = synced[q] /\ folder' = folder)
  BY <1>1
<1> QED BY <1>1, <1>2, <1>3, <1>4, <1>5, GivenStays DEF Allowed

\* What the listing does not show has gone, or was left out of it.
LEMMA ListedGives ==
  ASSUME CopiesApart, Shape, AgreeInv, GivenInv, Listed
  PROVE  GivenInv'
<1>1. /\ phase = "listing" /\ phase' = "listed"
      /\ listed' = [p \in Paths |-> IF p \in leftOut THEN None ELSE sandbox[p]]
      /\ unlisted' = unlisted \cup ({sandbox[p] : p \in leftOut} \ {None})
      /\ UNCHANGED <<sandbox, nodes, folder, synced, job, superseded, edits, agents, racer>>
  BY DEF Listed, notes, driveVars
<1>2. WrittenBefore' /\ Grow /\ \A c \in GivenUp : c \in GivenUp'
  BY <1>1, GrowOnly DEF GivenInv, WrittenBefore, GivenUp, Author, Shape
<1>3. TrashGiven'
  BY <1>1, <1>2 DEF GivenInv, TrashGiven
<1>4. \A q \in leftOut : q \notin Copies /\ (sandbox[q] # None => sandbox[q] \in GivenUp')
  <2>1. leftOut \subseteq Edited
    BY DEF Shape, TypeOK
  <2> QED BY <1>1, <2>1 DEF CopiesApart, Copies, GivenUp
<1>5. ASSUME NEW q \in Paths PROVE RowKept(q)' /\ JobKept(q)'
  <2>1. RowKept(q)
    BY DEF GivenInv
  <2>2. Matches(q)' <=> Matches(q)
    BY <1>1 DEF Matches
  <2>3. Matches(q) => KeptIn(GivenUp', sandbox[q], q, synced[q].content)
    BY <1>2, <2>1 DEF RowKept, KeptIn
  <2>4. Matches(q) => synced[q].content # None
    BY PathsAre DEF Matches, Rows, Contents, None
  <2>5. Matches(q) /\ listed'[q] = None => synced[q].content \in GivenUp'
    <3>1. CASE q \in leftOut
      BY <1>4, <2>3, <2>4, <3>1 DEF KeptIn
    <3>2. CASE q \notin leftOut
      BY <1>1, <2>3, <2>4, <3>2 DEF KeptIn
    <3> QED BY <3>1, <3>2
  <2>6. RowKept(q)'
    BY <1>1, <2>1, <2>2, <2>3, <2>5 DEF RowKept
  <2>7. job'[q] = NoJob
    BY <1>1, PathIs
  <2> QED BY <2>6, <2>7, JobsAre DEF JobKept
<1> QED BY <1>2, <1>3, <1>5 DEF GivenInv

\* A row of Drive's file as it is, which is no longer Drive's file of the name, is of one that was given up.
LEMMA MovedOnGiven ==
  ASSUME Shape, AgreeInv, GivenInv, NEW q \in Paths, Matches(q)
  PROVE  /\ synced[q].node \in DOMAIN nodes /\ nodes[synced[q].node].content = synced[q].content
         /\ nodeAt(q) = synced[q].node \/ synced[q].content \in GivenUp
<1>1. PICK n \in DOMAIN nodes : n = synced[q].node
  BY PathsAre DEF Rows, Matches
<1>2. nodes[n].path = q /\ nodes[n].version = synced[q].version /\ nodes[n].home = folder
  BY <1>1 DEF Matches, GivenInv, RowKept
<1>3. nodes[n].content = synced[q].content
  <2>1. RowTrue(nodes, n, synced[q].content, nodes[n].version)
    BY <1>1, <1>2 DEF AgreeInv, RowsTrue, Matches
  <2>2. nodes[n].version \in Nat
    BY FilesAre DEF Shape, Files
  <2> QED BY <2>1, <2>2 DEF RowTrue
<1>4. CASE nodes[n].live
  BY <1>1, <1>2, <1>3, <1>4, FileAt DEF Shape, Here
<1>5. CASE ~nodes[n].live
  BY <1>1, <1>3, <1>5 DEF GivenInv, TrashGiven
<1> QED BY <1>1, <1>3, <1>4, <1>5

LEMMA PlanGives ==
  ASSUME Shape, AgreeInv, GivenInv, Plan
  PROVE  GivenInv'
<1>1. /\ phase = "listed" /\ phase' = "applying" /\ job' = [p \in Paths |-> Planned(p)]
      /\ UNCHANGED <<sandbox, nodes, folder, synced, superseded, unlisted, edits, agents, racer>>
  BY DEF Plan, notes, driveVars
<1>2. GivenUp' = GivenUp /\ WrittenBefore'
  BY <1>1, GivenSame DEF GivenInv
<1>3. TrashGiven' /\ Grow
  BY <1>1, <1>2, GrowOnly DEF GivenInv, TrashGiven, Shape
<1>4. ASSUME NEW q \in Paths PROVE RowKept(q)' /\ JobKept(q)'
  <2>0. Matches(q)' <=> Matches(q)
    BY <1>1 DEF Matches
  <2>1. RowKept(q)'
    BY <1>1, <1>2, <2>0 DEF GivenInv, RowKept
  <2> DEFINE d == nodeAt(q)
             version == IF d = None THEN 0 ELSE nodes[d].version
             sandboxChanged == listed[q] # synced[q].content
             driveChanged == d # synced[q].node \/ version # synced[q].version
  <2>2. /\ job'[q] # NoJob => job'[q].node = d
        /\ job'[q].step \in {"none", "trash", "upload", "update", "delete", "put", "conflict", "forget"}
        /\ job'[q].step \in {"put", "delete", "conflict", "forget"} => driveChanged
        /\ job'[q].step = "trash" <=> sandboxChanged /\ ~driveChanged /\ listed[q] = None
    BY <1>1, PlannedIs
  <2>3. job'[q].node # None => nodes[job'[q].node].path = q /\ nodes[job'[q].node].home = folder
    BY <2>2, FileAt, JobsAre DEF Shape, Here
  <2>4. job'[q].step \in {"put", "delete", "conflict"} /\ Matches(q) => synced[q].content \in GivenUp
    <3> SUFFICES ASSUME job'[q].step \in {"put", "delete", "conflict"}, Matches(q), d = synced[q].node
                 PROVE  FALSE
      BY MovedOnGiven
    <3>1. d # None /\ version = synced[q].version
      <4>1. d \in DOMAIN nodes
        BY MovedOnGiven
      <4> QED BY <4>1, FilesAre DEF Matches, Shape
    <3> QED BY <2>2, <3>1
  <2>5. job'[q].step = "trash" => nodes[job'[q].node].content \in GivenUp
    <3> SUFFICES ASSUME job'[q].step = "trash" PROVE nodes[d].content \in GivenUp
      BY <2>2, JobsAre
    <3>1. sandboxChanged /\ ~driveChanged /\ listed[q] = None
      BY <2>2
    <3>2. synced[q] # NoRow
      BY <3>1, JobsAre
    <3>3. synced[q].node \in DOMAIN nodes /\ d # None
      BY <3>1, <3>2, PathsAre, FilesAre DEF Rows, Shape
    <3>4. Matches(q)
      BY <3>1, <3>2, <3>3, FileAt DEF Matches, Shape
    <3>5. synced[q].content \in GivenUp
      BY <1>1, <3>1, <3>4 DEF GivenInv, RowKept
    <3> QED BY <3>1, <3>4, <3>5, MovedOnGiven
  <2>6. JobKept(q)'
    BY <1>1, <1>2, <2>0, <2>2, <2>3, <2>4, <2>5 DEF JobKept
  <2> QED BY <2>1, <2>6
<1> QED BY <1>2, <1>3, <1>4 DEF GivenInv

\* An edit takes nothing back, and what is written while a sync runs is the racer's.
LEMMA EditGrows ==
  ASSUME Shape, WrittenBefore, Edits, NEW who, phase = "idle" \/ racer = who, superseded \subseteq superseded',
         \/ who = "agent" /\ agents' = agents \cup {edits'}
         \/ who = "person" /\ agents' = agents
  PROVE  /\ \A c \in GivenUp : c \in GivenUp'
         /\ WrittenBefore' /\ (phase # "idle" => edits' \in GivenUp')
<1>1. edits \in Nat /\ edits' = edits + 1 /\ unlisted' = unlisted /\ racer' = racer
  BY SyncAssumption DEF Shape, TypeOK, Edits
<1>2. 1..edits \subseteq 1..edits' /\ edits' \in 1..edits' /\ edits' \notin 1..edits
  BY <1>1
<1>3. WrittenBefore'
  BY <1>2 DEF WrittenBefore
<1>4. \A c \in 1..edits : c \in agents' <=> c \in agents
  BY <1>2
<1>5. \A c \in GivenUp : c \in GivenUp'
  BY <1>1, <1>2, <1>4 DEF GivenUp, Author
<1>6. phase # "idle" => edits' \in GivenUp'
  BY <1>1, <1>2 DEF GivenUp, Author, WrittenBefore
<1> QED BY <1>3, <1>5, <1>6

LEMMA QuietEditGrows ==
  ASSUME Shape, WrittenBefore, Edits, superseded \subseteq superseded', agents' = agents
  PROVE  (\A c \in GivenUp : c \in GivenUp') /\ WrittenBefore'
<1>1. edits \in Nat /\ edits' = edits + 1 /\ unlisted' = unlisted /\ racer' = racer
  BY SyncAssumption DEF Shape, TypeOK, Edits
<1>2. 1..edits \subseteq 1..edits'
  BY <1>1
<1> QED BY <1>1, <1>2 DEF GivenUp, Author, WrittenBefore

LEMMA EditStays ==
  ASSUME CopiesApart, Shape, AgreeInv, GivenInv, Edits, \A c \in GivenUp : c \in GivenUp', WrittenBefore', TrashGiven',
         \A q \in Paths : sandbox'[q] = sandbox[q] \/ (sandbox[q] \in GivenUp' /\ q \in Edited)
                          \/ (sandbox[q] = None /\ q \in Edited),
         \A n \in DOMAIN nodes : \/ nodes'[n].content = nodes[n].content
                                 \/ phase # "idle" => nodes'[n].content \in GivenUp'
  PROVE  GivenInv'
<1>1. UNCHANGED <<synced, job, folder, phase, listed>> /\ Grow
  BY DEF Edits, FilesNext
<1>2. \A q \in Edited : q \notin Copies
  BY DEF CopiesApart, Copies
<1>3. ASSUME NEW q \in Paths PROVE RowKept(q)' /\ JobKept(q)'
  <2>0. RowKept(q) /\ JobKept(q) /\ RowsTrue
    BY DEF GivenInv, AgreeInv
  <2>1. CASE sandbox'[q] = sandbox[q] \/ (sandbox[q] \in GivenUp' /\ q \in Edited)
    <3>1. Allowed(q)
      BY <1>2, <2>1 DEF Allowed
    <3>2. RowKept(q)'
      BY <1>1, <2>0, <3>1, RowStays
    <3>3. job[q].step = "trash" => \/ nodes'[job[q].node].content = nodes[job[q].node].content
                                   \/ nodes'[job[q].node].content \in GivenUp'
      <4>1. job[q].step = "trash" => job[q].node \in DOMAIN nodes /\ phase # "idle"
        BY PathIs, JobsAre, JobHas
      <4> QED BY <4>1
    <3>4. JobKept(q)'
      BY <1>1, <2>0, <3>1, <3>3, JobStays
    <3> QED BY <3>2, <3>4
  <2>2. CASE sandbox[q] = None /\ q \in Edited
    \* Nothing was there to be kept.
    <3>1. q \notin Copies
      BY <1>2, <2>2
    <3>2. Matches(q)' => Matches(q)
      BY <1>1, <2>0, MatchesBack
    <3>3. Matches(q) => synced[q].content # None
      BY PathsAre DEF Matches, Rows, Contents, None
    <3>4. Matches(q) => synced[q].content \in GivenUp'
      BY <2>0, <2>2, <3>1, <3>3 DEF RowKept, KeptIn
    <3>5. synced'[q] # NoRow => nodes'[synced'[q].node].home = folder'
      <4>1. synced[q] # NoRow => synced[q].node \in DOMAIN nodes
        BY PathsAre DEF Rows
      <4> QED BY <1>1, <2>0, <4>1 DEF Grow, RowKept
    <3>6. RowKept(q)'
      BY <1>1, <3>2, <3>4, <3>5 DEF RowKept, KeptIn
    <3>7. job[q].step \in {"add", "replace", "finish", "record"} => job[q].bytes \in GivenUp'
      <4>1. job[q].step \in {"add", "replace", "finish", "record"} => job[q].bytes # None
        BY PathIs DEF JobOK
      <4> QED BY <2>0, <2>2, <3>1, <4>1 DEF JobKept, KeptIn
    <3>8. job[q].step = "trash" => nodes'[job[q].node].content \in GivenUp'
      <4>1. job[q].step = "trash" => job[q].node \in DOMAIN nodes /\ phase # "idle"
        BY PathIs, JobsAre, JobHas
      <4> QED BY <2>0, <4>1 DEF JobKept
    <3>9. job[q].node # None => nodes'[job[q].node].path = q /\ nodes'[job[q].node].home = folder
      <4>1. job[q].node # None => job[q].node \in DOMAIN nodes
        BY PathIs DEF Jobs
      <4> QED BY <2>0, <4>1, <1>1 DEF Grow, JobKept
    <3>10. JobKept(q)'
      BY <1>1, <3>2, <3>4, <3>7, <3>8, <3>9 DEF JobKept, KeptIn
    <3> QED BY <3>6, <3>10
  <2> QED BY <2>1, <2>2
<1> QED BY <1>3 DEF GivenInv

LEMMA AgentEditGives ==
  ASSUME CopiesApart, Shape, AgreeInv, GivenInv, AgentWrites \/ AgentRemoves \/ AgentIgnores
  PROVE  GivenInv'
<1>0. WrittenBefore /\ TrashGiven
  BY DEF GivenInv
<1>1. CASE AgentWrites
  <2>1. /\ Edits /\ nodes' = nodes /\ (phase = "idle" \/ racer = "agent") /\ agents' = agents \cup {edits'}
        /\ \E p \in Edited : /\ p \in Paths /\ sandbox'[p] = edits' /\ \A q \in Paths \ {p} : sandbox'[q] = sandbox[q]
                             /\ superseded' = superseded \cup ({sandbox[p]} \ {None})
    BY <1>1, AgentWritesDoes
  <2>2. PICK p \in Edited : /\ \A q \in Paths \ {p} : sandbox'[q] = sandbox[q]
                            /\ superseded' = superseded \cup ({sandbox[p]} \ {None})
    BY <2>1
  <2>3. (\A c \in GivenUp : c \in GivenUp') /\ WrittenBefore'
    BY <1>0, <2>1, <2>2, EditGrows
  <2>4. TrashGiven'
    BY <1>0, <2>1, <2>3 DEF TrashGiven
  <2>5. sandbox[p] = None \/ sandbox[p] \in GivenUp'
    BY <2>2 DEF GivenUp
  <2> QED BY <2>1, <2>2, <2>3, <2>4, <2>5, EditStays
<1>2. CASE AgentRemoves
  <2>1. /\ Edits /\ nodes' = nodes /\ (phase = "idle" \/ racer = "agent") /\ agents' = agents
        /\ \E p \in Edited : /\ p \in Paths /\ sandbox'[p] = None /\ \A q \in Paths \ {p} : sandbox'[q] = sandbox[q]
                             /\ superseded' = superseded \cup {sandbox[p]}
    BY <1>2, AgentRemovesDoes
  <2>2. PICK p \in Edited : /\ \A q \in Paths \ {p} : sandbox'[q] = sandbox[q]
                            /\ superseded' = superseded \cup {sandbox[p]}
    BY <2>1
  <2>3. (\A c \in GivenUp : c \in GivenUp') /\ WrittenBefore'
    BY <1>0, <2>1, <2>2, QuietEditGrows
  <2>4. TrashGiven'
    BY <1>0, <2>1, <2>3 DEF TrashGiven
  <2>5. sandbox[p] \in GivenUp'
    BY <2>2 DEF GivenUp
  <2> QED BY <2>1, <2>2, <2>3, <2>4, <2>5, EditStays
<1>3. CASE AgentIgnores
  <2>1. Edits /\ UNCHANGED <<nodes, sandbox, agents, superseded>>
    BY <1>3, AgentIgnoresDoes
  <2>3. (\A c \in GivenUp : c \in GivenUp') /\ WrittenBefore'
    BY <1>0, <2>1, QuietEditGrows
  <2>4. TrashGiven'
    BY <1>0, <2>1, <2>3 DEF TrashGiven
  <2> QED BY <2>1, <2>3, <2>4, EditStays
<1> QED BY <1>1, <1>2, <1>3

LEMMA PersonEditGives ==
  ASSUME CopiesApart, Shape, AgreeInv, GivenInv, PersonWrites \/ PersonTrashes \/ PersonRestores
  PROVE  GivenInv'
<1>0. WrittenBefore /\ TrashGiven
  BY DEF GivenInv
<1>1. CASE PersonWrites
  <2>1. /\ Edits /\ UNCHANGED <<sandbox, agents>> /\ (phase = "idle" \/ racer = "person") /\ superseded \subseteq superseded'
        /\ \E p \in Edited : Adds(edits', p) \/ (nodeAt(p) \in DOMAIN nodes /\ Replaces(nodeAt(p), edits'))
    BY <1>1, PersonWritesDoes
  <2>2. PICK p \in Edited : Adds(edits', p) \/ (nodeAt(p) \in DOMAIN nodes /\ Replaces(nodeAt(p), edits'))
    BY <2>1
  <2>3. (\A c \in GivenUp : c \in GivenUp') /\ WrittenBefore' /\ (phase # "idle" => edits' \in GivenUp')
    BY <1>0, <2>1, EditGrows
  <2>4. CASE Adds(edits', p)
    <3>1. TrashGiven'
      BY <1>0, <2>3, <2>4 DEF TrashGiven, Adds
    <3>2. \A n \in DOMAIN nodes : nodes'[n].content = nodes[n].content
      BY <2>4 DEF Adds
    <3> QED BY <2>1, <2>3, <3>1, <3>2, EditStays
  <2>5. CASE nodeAt(p) \in DOMAIN nodes /\ Replaces(nodeAt(p), edits')
    <3>0. p \in Paths /\ nodeAt(p) # None
      BY <2>5, FilesAre, SyncAssumption DEF Shape
    <3>1. nodes[nodeAt(p)].live
      BY <3>0, FileAt DEF Shape, Here
    <3>2. PICK n \in DOMAIN nodes : n = nodeAt(p)
      BY <2>5
    <3>3. /\ DOMAIN nodes' = DOMAIN nodes /\ nodes'[n].live /\ nodes'[n].content = edits'
          /\ \A m \in DOMAIN nodes \ {n} : nodes'[m] = nodes[m]
      BY <2>5, <3>1, <3>2 DEF Replaces
    <3>4. TrashGiven'
      BY <1>0, <2>3, <3>3 DEF TrashGiven
    <3>5. \A m \in DOMAIN nodes : nodes'[m].content = nodes[m].content \/ (phase # "idle" => nodes'[m].content \in GivenUp')
      BY <2>3, <3>3
    <3> QED BY <2>1, <2>3, <3>4, <3>5, EditStays
  <2> QED BY <2>2, <2>4, <2>5
<1>2. CASE PersonTrashes \/ PersonRestores
  <2>1. /\ Edits /\ UNCHANGED <<sandbox, agents>> /\ superseded \subseteq superseded'
        /\ \E n \in DOMAIN nodes : Flips(n, TRUE) \/ (Flips(n, FALSE) /\ nodes[n].content \in superseded')
    BY <1>2, PersonTrashesDoes, PersonRestoresDoes
  <2>2. PICK n \in DOMAIN nodes : Flips(n, TRUE) \/ (Flips(n, FALSE) /\ nodes[n].content \in superseded')
    BY <2>1
  <2>3. (\A c \in GivenUp : c \in GivenUp') /\ WrittenBefore'
    BY <1>0, <2>1, QuietEditGrows
  <2>4. /\ DOMAIN nodes' = DOMAIN nodes /\ \A m \in DOMAIN nodes : nodes'[m].content = nodes[m].content
        /\ \A m \in DOMAIN nodes \ {n} : nodes'[m] = nodes[m]
        /\ nodes'[n].live \/ nodes[n].content \in superseded'
    BY <2>2 DEF Flips
  <2>5. TrashGiven'
    BY <1>0, <2>3, <2>4 DEF TrashGiven, GivenUp
  <2> QED BY <2>1, <2>3, <2>4, <2>5, EditStays
<1> QED BY <1>1, <1>2

LEMMA LossGives ==
  ASSUME Shape, AgreeInv, GivenInv, PersonTrashesFolder \/ sandboxStartedOver
  PROVE  GivenInv'
<1>1. /\ phase = "idle" /\ UNCHANGED <<nodes, folder, phase, listed, job, superseded, unlisted, edits, agents, racer>>
      /\ \/ sandbox' = sandbox /\ synced' = synced
         \/ synced' = [p \in Paths |-> NoRow]
  BY DEF PersonTrashesFolder, sandboxStartedOver, driveVars, syncVars, notes
<1>2. GivenUp' = GivenUp /\ WrittenBefore'
  BY <1>1, GivenSame DEF GivenInv
<1>3. Grow /\ TrashGiven'
  BY <1>1, <1>2, GrowOnly DEF TrashGiven, GivenInv, Shape
<1>4. \A q \in Paths : job'[q] = NoJob
  BY <1>1, PathIs
<1>5. \A q \in Paths : synced'[q] = NoRow \/ (synced'[q] = synced[q] /\ sandbox'[q] = sandbox[q])
  BY <1>1
<1> QED BY <1>1, <1>2, <1>3, <1>4, <1>5, GivenStays DEF Allowed

LEMMA GivenInit == Init => GivenInv
<1> SUFFICES ASSUME Init PROVE GivenInv
  OBVIOUS
<1>1. /\ nodes = <<>> /\ synced = [p \in Paths |-> NoRow] /\ job = [p \in Paths |-> NoJob] /\ agents = {}
  BY DEF Init
<1>2. DOMAIN nodes = {}
  BY <1>1
<1>3. WrittenBefore /\ TrashGiven
  BY <1>1, <1>2 DEF WrittenBefore, TrashGiven
<1>4. \A q \in Paths : RowKept(q) /\ JobKept(q)
  BY <1>1, JobsAre DEF RowKept, JobKept, Matches
<1> QED BY <1>3, <1>4 DEF GivenInv

LEMMA GivenStep ==
  ASSUME CopiesApart, Shape, AgreeInv, GivenInv, [Next]_vars
  PROVE  GivenInv'
<1>1. ASSUME NEW p \in Paths, Job(p) PROVE GivenInv'
  <2>1. CASE ReadFull(p) \/ UploadAdd(p) \/ UpdateReplace(p) \/ UpdateFinish(p) \/ Trash(p)
    BY <2>1, ReadFullGives, UploadAddGives, UpdateReplaceGives, UpdateFinishGives, TrashGives
  <2>2. CASE PutRead(p) \/ PutWrite(p) \/ PutRecord(p) \/ Delete(p) \/ Forget(p) \/ ConflictCopy(p)
    BY <2>2, PutReadGives, PutWriteGives, PutRecordGives, DeleteGives, ForgetGives, ConflictCopyGives
  <2>3. CASE JobMisses(p) \/ JobFails(p) \/ StopsUnrecorded(p)
    BY <2>3, GivesUpGives, UnrecordedGives DEF JobMisses, JobFails
  <2> QED BY <1>1, <2>1, <2>2, <2>3 DEF Job
<1>2. CASE UNCHANGED vars
  <2>1. /\ UNCHANGED <<sandbox, nodes, folder, synced, phase, listed, job>>
        /\ UNCHANGED <<superseded, unlisted, edits, agents, racer>>
    BY <1>2 DEF vars, driveVars, syncVars, notes
  <2>2. GivenUp' = GivenUp /\ WrittenBefore' /\ TrashGiven'
    BY <2>1, GivenSame DEF GivenInv, TrashGiven
  <2>3. \A q \in Paths : RowKept(q)' /\ JobKept(q)'
    BY <2>1, <2>2 DEF GivenInv, RowKept, JobKept, Matches
  <2> QED BY <2>2, <2>3 DEF GivenInv
<1>3. CASE Edit
  BY <1>3, AgentEditGives, PersonEditGives, LossGives DEF Edit
<1>4. CASE Sync
  BY <1>1, <1>4, CutGives, SyncStartGives, ListedGives, PlanGives DEF Sync
<1> QED BY <1>2, <1>3, <1>4 DEF Next

\* Only trashing takes a file of Drive's away.
LEMMA TrashesGiven ==
  ASSUME Shape, GivenInv, Sync, NEW n \in DOMAIN nodes, nodes[n].live, ~nodes'[n].live
  PROVE  nodes[n].content \in superseded \cup unlisted \/ Author(nodes[n].content) = racer
<1> DEFINE Said == nodes[n].content \in superseded \cup unlisted \/ Author(nodes[n].content) = racer
<1>1. ASSUME nodes' = nodes PROVE Said
  BY <1>1
<1>2. ASSUME NEW c, NEW name, Adds(c, name) PROVE Said
  BY <1>2 DEF Adds
<1>3. ASSUME NEW m \in DOMAIN nodes, NEW c, Replaces(m, c) PROVE Said
  BY <1>3 DEF Replaces
<1>4. ASSUME NEW p \in Paths, Trash(p) PROVE Said
  <2>1. job[p].step = "trash" /\ job[p].node \in DOMAIN nodes /\ Flips(job[p].node, FALSE)
    BY <1>4, TrashDoes
  <2>2. n = job[p].node
    BY <2>1 DEF Flips
  <2>3. nodes[n].content \in GivenUp
    BY <2>1, <2>2 DEF GivenInv, JobKept
  <2> QED BY <2>3 DEF GivenUp
<1>5. ASSUME NEW p \in Paths, UpdateFinish(p) PROVE Said
  BY <1>2, <1>3, <1>5, UpdateFinishDoes
<1>6. ASSUME NEW p \in Paths, StopsUnrecorded(p) PROVE Said
  BY <1>2, <1>3, <1>6, UnrecordedDoes
<1>7. ASSUME NEW p \in Paths, UploadAdd(p) PROVE Said
  BY <1>2, <1>7, UploadAddDoes
<1> HIDE DEF Said
<1>8. ASSUME NEW p \in Paths, Job(p) PROVE Said
  <2>1. CASE ReadFull(p) \/ UpdateReplace(p) \/ PutRead(p) \/ PutWrite(p) \/ PutRecord(p) \/ Delete(p) \/ Forget(p)
             \/ ConflictCopy(p)
    BY <1>1, <2>1, ReadFullDoes, UpdateReplaceDoes, PutReadDoes, PutWriteDoes, PutRecordDoes, DeleteDoes, ForgetDoes,
       ConflictCopyDoes
  <2>2. CASE JobMisses(p) \/ JobFails(p)
    BY <1>1, <2>2, GivesUpDoes DEF JobMisses, JobFails
  <2> QED BY <1>4, <1>5, <1>6, <1>7, <1>8, <2>1, <2>2 DEF Job
<1>9. ASSUME SyncStart \/ Listed \/ Plan \/ SyncEnd \/ SyncFails \/ Restart PROVE Said
  <2>1. nodes' = nodes
    BY <1>9 DEF SyncStart, Listed, Plan, SyncEnd, SyncFails, Restart, driveVars
  <2> QED BY <1>1, <2>1
<1>10. Said
  BY <1>8, <1>9 DEF Sync
<1> QED BY <1>10 DEF Said

\* model.ts, "rather than taking their absence for deletions": a sync trashes a file only when the
\* agent or a person gave up what it holds, whatever failed and however often the sandbox was made again,
\* unless the listing left it out, or it was written while the sync ran. For any names, as long as nobody
\* edits a file under the name of an agent's copy.
THEOREM TrashedWasGivenUp ==
  ASSUME CopiesApart
  PROVE  Spec => TrashesOnlyGivenUp
<1>1. Shape /\ AgreeInv /\ GivenInv /\ [Next]_vars => GivenInv'
  BY GivenStep
<1>2. Spec => []AgreeInv
  BY AgreeInit, AgreeStep, ShapeHolds, PTL DEF Spec
<1>3. Spec => []GivenInv
  BY <1>1, <1>2, GivenInit, ShapeHolds, PTL DEF Spec
<1>4. Shape /\ GivenInv /\ [Next]_vars =>
        [Sync => \A n \in DOMAIN nodes : nodes[n].live /\ ~nodes'[n].live =>
           nodes[n].content \in superseded \cup unlisted \/ Author(nodes[n].content) = racer]_vars
  BY TrashesGiven
<1> QED BY <1>3, <1>4, ShapeHolds, PTL DEF Spec, TrashesOnlyGivenUp

-----------------------------------------------------------------------------
(***************************************************************************)
(* A sync keeps every edit.                                                *)
(***************************************************************************)

\* What may go, and what may go from the sandbox.
Spares == GivenUp \cup copied
Safe == Spares \cup {nodes[n].content : n \in DOMAIN nodes}

\* Under the name of an agent's copy there are copies only.
CopiesCopied ==
  /\ \A q \in Paths : q \in Copies =>
       /\ sandbox[q] # None => sandbox[q] \in copied
       /\ job[q].step \in {"add", "replace", "finish", "write", "record", "copy"} => job[q].bytes \in copied
  /\ \A n \in DOMAIN nodes : nodes[n].path \in Copies => nodes[n].content \in copied

\* What a job is about to replace or remove may go; what a row tells of may go from the sandbox.
PathSafe(q) ==
  /\ phase = "listed" => sandbox[q] \in {None, listed[q]} \cup GivenUp
  /\ job[q].step \in {"update", "replace", "finish"} => nodes[job[q].node].content \in Spares
  /\ synced[q] # NoRow => synced[q].content \in Safe
  /\ job[q].step \in {"write", "record"} => job[q].bytes \in Safe
  /\ job[q].step \in {"put", "write", "delete"} => sandbox[q] \in {None} \cup Safe
  /\ job[q].step = "copy" => sandbox[q] \in {None, job[q].bytes} \cup Safe

SafeInv == CopiesCopied /\ \A q \in Paths : PathSafe(q)

\* What names are made of.
Marks == STRING \cup {"agent", "elsewhere", "2"}

LEMMA SeqOfMore ==
  ASSUME NEW S, NEW T, S \subseteq T, NEW s \in Seq(S)
  PROVE  s \in Seq(T)
<1>1. /\ Len(s) \in Nat /\ DOMAIN s = 1..Len(s) /\ s = [i \in 1..Len(s) |-> s[i]]
      /\ \A i \in 1..Len(s) : s[i] \in T
  BY LenProperties, ElementOfSeq
<1> QED BY <1>1, IsASeq

LEMMA EndsApart ==
  ASSUME NEW S, NEW s \in Seq(S), NEW t \in S, NEW r \in Seq(S), NEW u \in S, t # u
  PROVE  Append(s, t) # Append(r, u)
BY AppendProperties

\* What takes another name than its own is no agent's copy.
LEMMA NamesDiffer ==
  ASSUME NEW s \in Seq(Marks)
  PROVE  /\ numbered(s) \in Seq(Marks) /\ numbered(s) \notin Copies
         /\ conflictName(s) \in Seq(Marks) /\ conflictName(s) \notin Copies
<1>1. \A p \in Paths : p \in Seq(Marks)
  BY SyncAssumption, SeqOfMore DEF Marks
<1>2. PICK two \in Marks, other \in Marks, agent \in Marks :
        two = "2" /\ other = "elsewhere" /\ agent = "agent" /\ two # agent /\ other # agent
  BY DEF Marks
<1>3. \A p \in Paths : Append(s, two) # Append(p, agent) /\ Append(s, other) # Append(p, agent)
  BY <1>1, <1>2, EndsApart
<1>4. Append(s, two) \in Seq(Marks) /\ Append(s, other) \in Seq(Marks)
  BY AppendProperties
<1> QED BY <1>2, <1>3, <1>4 DEF numbered, conflictName, Copies, agentCopyName

LEMMA FreeNameIs ==
  ASSUME NEW p \in Paths, NEW name, name \in {p, conflictName(p)}, freeName(name) \in Copies
  PROVE  freeName(name) = p
<1>1. p \in Seq(Marks)
  BY SyncAssumption, SeqOfMore DEF Marks
<1>2. name \in Seq(Marks) /\ (name # p => name \notin Copies)
  BY <1>1, NamesDiffer
<1>3. numbered(name) \notin Copies
  BY <1>2, NamesDiffer
<1> QED BY <1>2, <1>3 DEF freeName

LEMMA SafeGrows ==
  ASSUME \A c \in GivenUp : c \in GivenUp', copied \subseteq copied', DOMAIN nodes \subseteq DOMAIN nodes',
         \A n \in DOMAIN nodes : nodes'[n].content = nodes[n].content \/ nodes[n].content \in Spares'
  PROVE  (\A c \in Spares : c \in Spares') /\ (\A c \in Safe : c \in Safe')
<1>1. \A c \in Spares : c \in Spares'
  BY DEF Spares
<1> QED BY <1>1 DEF Safe

\* Of a path a step has nothing to do with.
LEMMA PathStaysSafe ==
  ASSUME Shape, \A c \in GivenUp : c \in GivenUp', \A c \in Spares : c \in Spares', \A c \in Safe : c \in Safe',
         NEW q \in Paths, PathSafe(q),
         phase' = "listed" => phase = "listed" /\ listed'[q] = listed[q],
         synced'[q] \in {synced[q], NoRow}, job'[q] \in {job[q], NoJob},
         \/ sandbox'[q] \in {sandbox[q], None} \cup GivenUp'
         \/ phase = "applying" /\ phase' # "listed" /\ sandbox'[q] \in copied'
         \/ phase = "idle" /\ phase' # "listed",
         job[q].step \in {"update", "replace", "finish"} =>
           nodes'[job[q].node].content \in Spares' \/ nodes'[job[q].node].content = nodes[job[q].node].content
  PROVE  PathSafe(q)'
<1>1. GivenUp' \subseteq Safe' /\ copied' \subseteq Safe'
  BY DEF Safe, Spares
<1>2. job'[q] # NoJob => job'[q] = job[q] /\ phase = "applying"
  BY PathIs
<1>3. phase' = "listed" => sandbox'[q] \in {None, listed'[q]} \cup GivenUp'
  BY DEF PathSafe, Shape, TypeOK
<1>4. synced'[q] # NoRow => synced'[q].content \in Safe'
  BY DEF PathSafe
<1>5. CASE job'[q] = NoJob
  BY <1>3, <1>4, <1>5, JobsAre DEF PathSafe
<1>6. CASE job'[q] # NoJob
  <2>1. sandbox'[q] \in {sandbox[q], None} \cup Safe'
    BY <1>1, <1>2, <1>6
  <2>2. job'[q].step \in {"update", "replace", "finish"} => nodes'[job'[q].node].content \in Spares'
    BY <1>2, <1>6 DEF PathSafe
  <2>3. job'[q].step \in {"write", "record"} => job'[q].bytes \in Safe'
    BY <1>2, <1>6 DEF PathSafe
  <2>4. job'[q].step \in {"put", "write", "delete"} => sandbox'[q] \in {None} \cup Safe'
    BY <1>2, <1>6, <2>1 DEF PathSafe
  <2>5. job'[q].step = "copy" => sandbox'[q] \in {None, job'[q].bytes} \cup Safe'
    BY <1>2, <1>6, <2>1 DEF PathSafe
  <2> QED BY <1>3, <1>4, <2>2, <2>3, <2>4, <2>5 DEF PathSafe
<1> QED BY <1>5, <1>6

\* What a path at work has safe.
LEMMA SafeAtWork ==
  ASSUME Shape, GivenInv, SafeInv, NEW p \in Paths, Turns(p), copied \subseteq copied',
         \A n \in DOMAIN nodes : nodes'[n].content = nodes[n].content \/ nodes[n].content \in Spares
  PROVE  /\ PathSafe(p) /\ CopiesCopied /\ JobKept(p) /\ phase = "applying" /\ phase' = "applying" /\ GivenUp' = GivenUp
         /\ (\A c \in Spares : c \in Spares') /\ (\A c \in Safe : c \in Safe')
<1>1. GivenUp' = GivenUp /\ Grow /\ phase' = phase
  BY KeptAtWork DEF Turns
<1>2. \A c \in Spares : c \in Spares'
  BY <1>1 DEF Spares
<1>3. \A c \in Safe : c \in Safe'
  BY <1>1, <1>2, SafeGrows DEF Grow
<1> QED BY <1>1, <1>2, <1>3 DEF SafeInv, Turns, GivenInv

\* A job goes a step further: the others' are as safe as they were.
LEMMA JobSafe ==
  ASSUME Shape, GivenInv, SafeInv, NEW p \in Paths, Turns(p), copied \subseteq copied', PathSafe(p)', CopiesCopied',
         \A q \in Paths \ {p} : sandbox'[q] = sandbox[q] \/ sandbox'[q] \in copied',
         \A n \in DOMAIN nodes :
           nodes'[n].content = nodes[n].content \/ (nodes[n].content \in Spares /\ nodes[n].path = p)
  PROVE  SafeInv'
<1>1. /\ (\A c \in Spares : c \in Spares') /\ (\A c \in Safe : c \in Safe') /\ GivenUp' = GivenUp
      /\ phase = "applying" /\ phase' = "applying"
  BY SafeAtWork
<1>2. \A q \in Paths \ {p} : job'[q] = job[q] /\ synced'[q] = synced[q]
  BY DEF Turns
<1>3. ASSUME NEW q \in Paths \ {p} PROVE PathSafe(q)'
  <2>1. job[q].step \in {"update", "replace", "finish"} => nodes'[job[q].node].content = nodes[job[q].node].content
    <3> SUFFICES ASSUME job[q].step \in {"update", "replace", "finish"}
                 PROVE  nodes'[job[q].node].content = nodes[job[q].node].content
      OBVIOUS
    <3>1. job[q].node \in DOMAIN nodes /\ job[q].node # None
      BY <1>1, JobHas, FilesAre DEF Shape
    <3>2. nodes[job[q].node].path = q
      BY <3>1 DEF GivenInv, JobKept
    <3> QED BY <3>1, <3>2
  <2>2. PathSafe(q)
    BY DEF SafeInv
  <2> QED BY <1>1, <1>2, <2>1, <2>2, PathStaysSafe
<1> QED BY <1>3 DEF SafeInv

LEMMA ReadFullSafe ==
  ASSUME Shape, GivenInv, SafeInv, NEW p \in Paths, ReadFull(p)
  PROVE  SafeInv'
<1>1. /\ Turns(p) /\ UNCHANGED <<nodes, sandbox, synced, copied>>
      /\ sandbox[p] \in Contents /\ job'[p].bytes = sandbox[p] /\ job'[p].node = job[p].node
      /\ \/ job[p].step = "upload" /\ job'[p].step = "add"
         \/ job[p].step = "update" /\ job'[p].step = "replace"
         \/ job[p].step = "conflict" /\ job'[p].step = "copy"
  BY ReadFullDoes
<1>2. sandbox[p] # None /\ \A q \in Paths \ {p} : job'[q] = job[q]
  BY <1>1 DEF Contents, None, Turns
<1>3. CopiesCopied'
  BY <1>1, <1>2, SafeAtWork DEF CopiesCopied
<1>4. PathSafe(p)'
  BY <1>1, SafeAtWork DEF PathSafe
<1> QED BY <1>1, <1>3, <1>4, JobSafe

LEMMA UploadAddSafe ==
  ASSUME Shape, GivenInv, SafeInv, NEW p \in Paths, UploadAdd(p)
  PROVE  SafeInv'
<1> DEFINE n == Len(nodes')
<1>1. /\ Turns(p) /\ UNCHANGED <<sandbox, copied>>
      /\ job[p].step = "add" /\ job'[p] = NoJob /\ Adds(job[p].bytes, p)
      /\ synced'[p] = [node |-> n, content |-> job[p].bytes, version |-> 1]
  BY UploadAddDoes
<1>2. /\ DOMAIN nodes' = DOMAIN nodes \cup {n} /\ nodes'[n].content = job[p].bytes /\ nodes'[n].path = freeName(p)
      /\ \A m \in DOMAIN nodes : nodes'[m] = nodes[m]
  BY <1>1 DEF Adds
<1> HIDE DEF n
<1>3. synced'[p].content = job[p].bytes /\ job'[p].step = "none" /\ \A q \in Paths \ {p} : job'[q] = job[q]
  BY <1>1, JobsAre DEF Turns
<1>4. nodes'[n].path \in Copies => p \in Copies
  BY <1>2, FreeNameIs
<1>5. CopiesCopied'
  BY <1>1, <1>2, <1>3, <1>4, SafeAtWork DEF CopiesCopied
<1>6. PathSafe(p)'
  <2>1. synced'[p].content \in Safe'
    BY <1>2, <1>3 DEF Safe
  <2> QED BY <1>1, <1>2, <1>3, <2>1, SafeAtWork DEF PathSafe
<1> QED BY <1>1, <1>2, <1>5, <1>6, JobSafe

LEMMA UpdateReplaceSafe ==
  ASSUME Shape, GivenInv, SafeInv, NEW p \in Paths, UpdateReplace(p)
  PROVE  SafeInv'
<1>1. /\ Turns(p) /\ UNCHANGED <<nodes, sandbox, synced, copied>>
      /\ job[p].step = "replace" /\ job'[p].step = "finish"
      /\ job'[p].bytes = job[p].bytes /\ job'[p].node = job[p].node
  BY UpdateReplaceDoes
<1>2. \A q \in Paths \ {p} : job'[q] = job[q]
  BY <1>1 DEF Turns
<1>3. CopiesCopied'
  BY <1>1, <1>2, SafeAtWork DEF CopiesCopied
<1>4. PathSafe(p)'
  BY <1>1, SafeAtWork DEF PathSafe
<1> QED BY <1>1, <1>3, <1>4, JobSafe

\* What finishing an upload does to Drive's files, whether or not its row is written.
LEMMA FinishSafe ==
  ASSUME Shape, GivenInv, SafeInv, NEW p \in Paths, phase = "applying", job[p].step = "finish",
         NEW name \in {p, conflictName(p)}, NEW n \in DOMAIN nodes, n = job[p].node,
         Replaces(n, job[p].bytes) \/ Adds(job[p].bytes, name)
  PROVE  /\ nodes[n].path = p /\ nodes[n].content \in Spares /\ DOMAIN nodes \subseteq DOMAIN nodes'
         /\ \A m \in DOMAIN nodes : m # n => nodes'[m].content = nodes[m].content
         /\ nodes'[n].content # nodes[n].content => nodes[n].path = p
         /\ \A m \in DOMAIN nodes' : nodes'[m].path \in Copies => nodes'[m].content \in copied
<1>1. PathSafe(p) /\ CopiesCopied /\ nodes[n].path = p /\ nodes[n].content \in Spares
  <2>1. n # None
    BY FilesAre DEF Shape
  <2> QED BY <2>1 DEF SafeInv, GivenInv, JobKept, PathSafe
<1>2. p \in Copies => job[p].bytes \in copied
  BY <1>1 DEF CopiesCopied
<1>3. CASE Replaces(n, job[p].bytes)
  BY <1>1, <1>2, <1>3 DEF Replaces, CopiesCopied
<1>4. CASE Adds(job[p].bytes, name)
  <2>1. PICK l : /\ DOMAIN nodes' = DOMAIN nodes \cup {l} /\ nodes'[l].path = freeName(name)
                 /\ nodes'[l].content = job[p].bytes /\ \A m \in DOMAIN nodes : nodes'[m] = nodes[m]
    BY <1>4 DEF Adds
  <2>2. nodes'[l].path \in Copies => p \in Copies
    BY <2>1, FreeNameIs
  <2> QED BY <1>1, <1>2, <2>1, <2>2 DEF CopiesCopied
<1> QED BY <1>3, <1>4

LEMMA UpdateFinishSafe ==
  ASSUME Shape, GivenInv, SafeInv, NEW p \in Paths, UpdateFinish(p)
  PROVE  SafeInv'
<1> DEFINE n == job[p].node
           m == FinishedNode(p)
           name == IF nodes[n].live THEN conflictName(p) ELSE p
<1>1. /\ Turns(p) /\ UNCHANGED <<sandbox, copied>>
      /\ job[p].step = "finish" /\ job'[p] = NoJob /\ n \in DOMAIN nodes
      /\ \/ Replaces(n, job[p].bytes) /\ m = n
         \/ Adds(job[p].bytes, name) /\ m = Len(nodes')
      /\ synced'[p] = [node |-> m, content |-> job[p].bytes, version |-> nodes'[m].version]
  BY UpdateFinishDoes
<1>2. m \in DOMAIN nodes' /\ nodes'[m].content = job[p].bytes
  BY <1>1 DEF Replaces, Adds
<1>3. /\ synced'[p].content = job[p].bytes /\ job'[p].step = "none" /\ phase = "applying" /\ name \in {p, conflictName(p)}
      /\ \A q \in Paths \ {p} : job'[q] = job[q]
  BY <1>1, JobsAre DEF Turns
<1> HIDE DEF n, m, name
<1>4. /\ nodes[n].path = p /\ nodes[n].content \in Spares
      /\ \A k \in DOMAIN nodes : k # n => nodes'[k].content = nodes[k].content
      /\ \A k \in DOMAIN nodes' : nodes'[k].path \in Copies => nodes'[k].content \in copied
  BY <1>1, <1>3, FinishSafe DEF n
<1>5. \A k \in DOMAIN nodes : nodes'[k].content = nodes[k].content \/ (nodes[k].content \in Spares /\ nodes[k].path = p)
  BY <1>4
<1>6. CopiesCopied'
  BY <1>1, <1>3, <1>4, <1>5, SafeAtWork DEF CopiesCopied
<1>7. PathSafe(p)'
  <2>1. synced'[p].content \in Safe'
    BY <1>2, <1>3 DEF Safe
  <2> QED BY <1>1, <1>3, <1>5, <2>1, SafeAtWork DEF PathSafe
<1> QED BY <1>1, <1>5, <1>6, <1>7, JobSafe

LEMMA TrashSafe ==
  ASSUME Shape, GivenInv, SafeInv, NEW p \in Paths, Trash(p)
  PROVE  SafeInv'
<1>1. /\ Turns(p) /\ UNCHANGED <<sandbox, copied>> /\ job'[p] = NoJob /\ synced'[p] = NoRow /\ job[p].node \in DOMAIN nodes
      /\ Flips(job[p].node, FALSE)
  BY TrashDoes
<1>2. DOMAIN nodes' = DOMAIN nodes /\ \A m \in DOMAIN nodes : nodes'[m].content = nodes[m].content /\ nodes'[m].path = nodes[m].path
  BY <1>1 DEF Flips
<1>3. job'[p].step = "none" /\ \A q \in Paths \ {p} : job'[q] = job[q]
  BY <1>1, JobsAre DEF Turns
<1>4. CopiesCopied'
  BY <1>1, <1>2, <1>3, SafeAtWork DEF CopiesCopied
<1>5. PathSafe(p)'
  BY <1>1, <1>2, <1>3, SafeAtWork DEF PathSafe
<1> QED BY <1>1, <1>2, <1>4, <1>5, JobSafe

LEMMA PutReadSafe ==
  ASSUME Shape, GivenInv, SafeInv, NEW p \in Paths, PutRead(p)
  PROVE  SafeInv'
<1> DEFINE n == job[p].node
<1>1. /\ Turns(p) /\ UNCHANGED <<nodes, sandbox, synced, copied>>
      /\ job[p].step = "put" /\ job'[p].step = "write" /\ n \in DOMAIN nodes
      /\ job'[p].node = n /\ job'[p].bytes = nodes[n].content
  BY PutReadDoes
<1>2. nodes[n].path = p /\ \A q \in Paths \ {p} : job'[q] = job[q]
  BY <1>1, SafeAtWork, FilesAre DEF JobKept, Shape, Turns
<1> HIDE DEF n
<1>3. CopiesCopied'
  BY <1>1, <1>2, SafeAtWork DEF CopiesCopied
<1>4. PathSafe(p)'
  <2>1. job'[p].bytes \in Safe'
    BY <1>1 DEF Safe
  <2> QED BY <1>1, <2>1, SafeAtWork DEF PathSafe
<1> QED BY <1>1, <1>3, <1>4, JobSafe

LEMMA PutWriteSafe ==
  ASSUME Shape, GivenInv, SafeInv, NEW p \in Paths, PutWrite(p)
  PROVE  SafeInv'
<1>1. /\ Turns(p) /\ UNCHANGED <<nodes, synced, copied>>
      /\ job[p].step = "write" /\ job'[p].step = "record" /\ job'[p].bytes = job[p].bytes
      /\ sandbox'[p] = job[p].bytes /\ \A q \in Paths \ {p} : sandbox'[q] = sandbox[q]
  BY PutWriteDoes
<1>2. \A q \in Paths \ {p} : job'[q] = job[q]
  BY <1>1 DEF Turns
<1>3. CopiesCopied'
  BY <1>1, <1>2, SafeAtWork DEF CopiesCopied
<1>4. PathSafe(p)'
  BY <1>1, SafeAtWork DEF PathSafe
<1> QED BY <1>1, <1>3, <1>4, JobSafe

LEMMA PutRecordSafe ==
  ASSUME Shape, GivenInv, SafeInv, NEW p \in Paths, PutRecord(p)
  PROVE  SafeInv'
<1>1. /\ Turns(p) /\ UNCHANGED <<nodes, sandbox, copied>>
      /\ job[p].step = "record" /\ job'[p] = NoJob
      /\ synced'[p] = [node |-> job[p].node, content |-> job[p].bytes, version |-> job[p].version]
  BY PutRecordDoes
<1>2. synced'[p].content = job[p].bytes /\ job'[p].step = "none" /\ \A q \in Paths \ {p} : job'[q] = job[q]
  BY <1>1, JobsAre DEF Turns
<1>3. CopiesCopied'
  BY <1>1, <1>2, SafeAtWork DEF CopiesCopied
<1>4. PathSafe(p)'
  BY <1>1, <1>2, SafeAtWork DEF PathSafe
<1> QED BY <1>1, <1>3, <1>4, JobSafe

LEMMA DeleteSafe ==
  ASSUME Shape, GivenInv, SafeInv, NEW p \in Paths, Delete(p)
  PROVE  SafeInv'
<1>1. /\ Turns(p) /\ UNCHANGED <<nodes, synced, copied>> /\ job'[p].step = "unrecord"
      /\ sandbox'[p] = None /\ \A q \in Paths \ {p} : sandbox'[q] = sandbox[q]
  BY DeleteDoes
<1>2. \A q \in Paths \ {p} : job'[q] = job[q]
  BY <1>1 DEF Turns
<1>3. CopiesCopied'
  BY <1>1, <1>2, SafeAtWork DEF CopiesCopied
<1>4. PathSafe(p)'
  BY <1>1, SafeAtWork DEF PathSafe
<1> QED BY <1>1, <1>3, <1>4, JobSafe

\* The job is over, and what the name holds is as it was.
LEMMA OverSafe ==
  ASSUME Shape, GivenInv, SafeInv, NEW p \in Paths, Forget(p) \/ GivesUp(p)
  PROVE  SafeInv'
<1>1. Turns(p) /\ UNCHANGED <<nodes, sandbox, copied>> /\ job'[p] = NoJob /\ synced'[p] \in {synced[p], NoRow}
  BY ForgetDoes, GivesUpDoes
<1>2. job'[p].step = "none" /\ \A q \in Paths \ {p} : job'[q] = job[q]
  BY <1>1, JobsAre DEF Turns
<1>3. CopiesCopied'
  BY <1>1, <1>2, SafeAtWork DEF CopiesCopied
<1>4. PathSafe(p)'
  BY <1>1, <1>2, SafeAtWork DEF PathSafe
<1> QED BY <1>1, <1>3, <1>4, JobSafe

LEMMA ConflictCopySafe ==
  ASSUME Shape, GivenInv, SafeInv, NEW p \in Paths, ConflictCopy(p)
  PROVE  SafeInv'
<1> DEFINE a == agentCopyName(p)
<1>1. /\ Turns(p) /\ UNCHANGED <<nodes, synced>> /\ copied' = copied \cup {job[p].bytes}
      /\ job[p].step = "copy" /\ job'[p].step \in {"delete", "put"}
      /\ sandbox'[a] = job[p].bytes /\ \A q \in Paths \ {a} : sandbox'[q] = sandbox[q]
  BY ConflictCopyDoes
<1> HIDE DEF a
<1>2. \A q \in Paths \ {p} : job'[q] = job[q]
  BY <1>1 DEF Turns
<1>3. CopiesCopied'
  BY <1>1, <1>2, SafeAtWork DEF CopiesCopied
<1>4. PathSafe(p)'
  <2>1. \A c \in Safe \cup {job[p].bytes} : c \in Safe'
    BY <1>1, SafeAtWork DEF Safe, Spares
  <2>2. sandbox'[p] \in {None} \cup Safe'
    BY <1>1, <2>1, SafeAtWork DEF PathSafe
  <2> QED BY <1>1, <2>1, <2>2, SafeAtWork DEF PathSafe
<1> QED BY <1>1, <1>3, <1>4, JobSafe

\* Of a step that is nobody's job.
LEMMA SafeStays ==
  ASSUME Shape, GivenInv, SafeInv, \A c \in GivenUp : c \in GivenUp', copied' = copied, DOMAIN nodes \subseteq DOMAIN nodes',
         phase' = "listed" => phase = "listed" /\ listed' = listed,
         \A n \in DOMAIN nodes : /\ nodes'[n].path = nodes[n].path
                                 /\ nodes'[n].content = nodes[n].content \/ nodes[n].content \in Spares',
         \A n \in DOMAIN nodes' : nodes'[n].path \in Copies => nodes'[n].content \in copied,
         \A q \in Paths : \/ sandbox'[q] = sandbox[q]
                          \/ q \notin Copies /\ sandbox'[q] \in {None} \cup GivenUp'
                          \/ q \notin Copies /\ phase = "idle" /\ phase' # "listed"
                          \/ sandbox'[q] = None,
         \A q \in Paths : /\ synced'[q] \in {synced[q], NoRow} /\ job'[q] \in {job[q], NoJob}
                          /\ job'[q] = job[q] /\ job[q].step \in {"update", "replace", "finish"} =>
                               \/ nodes'[job[q].node].content \in Spares'
                               \/ nodes'[job[q].node].content = nodes[job[q].node].content
  PROVE  SafeInv'
<1>1. (\A c \in Spares : c \in Spares') /\ (\A c \in Safe : c \in Safe')
  BY SafeGrows
<1>2. ASSUME NEW q \in Paths PROVE PathSafe(q)'
  <2>1. PathSafe(q)
    BY DEF SafeInv
  <2>2. \/ sandbox'[q] \in {sandbox[q], None} \cup GivenUp'
        \/ phase = "idle" /\ phase' # "listed"
    OBVIOUS
  <2>3. CASE job'[q] = job[q]
    BY <1>1, <2>1, <2>2, <2>3, PathStaysSafe
  <2>4. CASE job'[q] = NoJob
    <3>1. phase' = "listed" => sandbox'[q] \in {None, listed'[q]} \cup GivenUp'
      BY <2>1, <2>2 DEF PathSafe
    <3>2. synced'[q] # NoRow => synced'[q].content \in Safe'
      BY <1>1, <2>1 DEF PathSafe
    <3> QED BY <2>4, <3>1, <3>2, JobsAre DEF PathSafe
  <2> QED BY <2>3, <2>4
<1>3. CopiesCopied'
  <2>1. \A q \in Paths : q \in Copies => sandbox'[q] \in {sandbox[q], None}
    OBVIOUS
  <2>2. \A q \in Paths : job'[q].step # "none" => job'[q] = job[q]
    BY JobsAre
  <2>3. CopiesCopied
    BY DEF SafeInv
  <2> QED BY <2>1, <2>2, <2>3 DEF CopiesCopied
<1> QED BY <1>2, <1>3 DEF SafeInv

LEMMA CutSafe ==
  ASSUME Shape, GivenInv, SafeInv, SyncFails \/ Restart \/ SyncEnd \/ SyncStart \/ PersonTrashesFolder \/ sandboxStartedOver
  PROVE  SafeInv'
<1>1. /\ phase' # "listed" /\ nodes' = nodes /\ copied' = copied
      /\ UNCHANGED <<superseded, unlisted, edits, agents, racer>>
      /\ \A q \in Paths : /\ sandbox'[q] \in {sandbox[q], None}
                          /\ synced'[q] \in {synced[q], NoRow} /\ job'[q] \in {job[q], NoJob}
  <2>1. CASE SyncFails
    BY <2>1, SyncFailsDoes
  <2>2. CASE SyncEnd
    BY <2>2, SyncEndDoes
  <2>3. CASE Restart
    BY <2>3, SameFiles, StopsDoes DEF Restart, Stops
  <2>4. CASE SyncStart
    BY <2>4 DEF SyncStart, notes
  <2>5. CASE PersonTrashesFolder
    BY <2>5 DEF PersonTrashesFolder, notes, syncVars
  <2>6. CASE sandboxStartedOver
    BY <2>6 DEF sandboxStartedOver, notes, syncVars, driveVars
  <2> QED BY <2>1, <2>2, <2>3, <2>4, <2>5, <2>6
<1>2. GivenUp' = GivenUp
  BY <1>1, GivenSame
<1>3. \A n \in DOMAIN nodes : nodes[n].path \in Copies => nodes[n].content \in copied
  BY DEF SafeInv, CopiesCopied
<1> QED BY <1>1, <1>2, <1>3, SafeStays

LEMMA UnrecordedSafe ==
  ASSUME Shape, GivenInv, SafeInv, NEW p \in Paths, StopsUnrecorded(p)
  PROVE  SafeInv'
<1> DEFINE n == job[p].node
           name == IF nodes[n].live THEN conflictName(p) ELSE p
<1>1. /\ FilesNext /\ Stops /\ phase = "applying"
      /\ \/ job[p].step = "add" /\ Adds(job[p].bytes, p)
         \/ /\ job[p].step = "finish" /\ n \in DOMAIN nodes
            /\ Replaces(n, job[p].bytes) \/ Adds(job[p].bytes, name)
  BY UnrecordedDoes
<1>2. /\ phase' = "idle" /\ UNCHANGED <<sandbox, synced, copied>>
      /\ UNCHANGED <<superseded, unlisted, edits, agents, racer>>
      /\ \A q \in Paths : job'[q] = NoJob
  BY <1>1, StopsDoes
<1>3. GivenUp' = GivenUp /\ Spares' = Spares
  BY <1>2, GivenSame DEF Spares
<1>4. name \in {p, conflictName(p)}
  OBVIOUS
<1> HIDE DEF n, name
<1>5. /\ \A m \in DOMAIN nodes : nodes'[m].content = nodes[m].content \/ nodes[m].content \in Spares
      /\ \A m \in DOMAIN nodes' : nodes'[m].path \in Copies => nodes'[m].content \in copied
  <2>1. CASE job[p].step = "add" /\ Adds(job[p].bytes, p)
    <3>1. PICK l : /\ DOMAIN nodes' = DOMAIN nodes \cup {l} /\ nodes'[l].path = freeName(p)
                   /\ nodes'[l].content = job[p].bytes /\ \A m \in DOMAIN nodes : nodes'[m] = nodes[m]
      BY <2>1 DEF Adds
    <3>2. nodes'[l].path \in Copies => p \in Copies
      BY <3>1, FreeNameIs
    <3> QED BY <2>1, <3>1, <3>2 DEF SafeInv, CopiesCopied
  <2>2. CASE /\ job[p].step = "finish" /\ n \in DOMAIN nodes
             /\ Replaces(n, job[p].bytes) \/ Adds(job[p].bytes, name)
    BY <1>1, <1>4, <2>2, FinishSafe DEF n
  <2> QED BY <1>1, <2>1, <2>2
<1>6. DOMAIN nodes \subseteq DOMAIN nodes' /\ \A m \in DOMAIN nodes : nodes'[m].path = nodes[m].path
  BY <1>1 DEF FilesNext, Grow
<1>7. \A q \in Paths : job'[q] = job[q] => job[q].step \notin {"update", "replace", "finish"}
  BY <1>2, JobsAre
<1> QED BY <1>2, <1>3, <1>5, <1>6, <1>7, SafeStays

LEMMA ListedSafe ==
  ASSUME Shape, GivenInv, SafeInv, Listed
  PROVE  SafeInv'
<1>1. /\ phase = "listing" /\ phase' = "listed"
      /\ listed' = [p \in Paths |-> IF p \in leftOut THEN None ELSE sandbox[p]]
      /\ unlisted' = unlisted \cup ({sandbox[p] : p \in leftOut} \ {None})
      /\ UNCHANGED <<sandbox, nodes, synced, job, superseded, edits, agents, racer, copied>>
  BY DEF Listed, notes, driveVars
<1>2. \A c \in GivenUp : c \in GivenUp'
  BY <1>1 DEF GivenUp, Author
<1>3. (\A c \in Spares : c \in Spares') /\ (\A c \in Safe : c \in Safe')
  BY <1>1, <1>2, SafeGrows
<1>4. ASSUME NEW q \in Paths PROVE PathSafe(q)'
  <2>1. sandbox'[q] \in {None, listed'[q]} \cup GivenUp'
    BY <1>1 DEF GivenUp
  <2>2. job'[q].step = "none"
    BY <1>1, PathIs, JobsAre
  <2> QED BY <1>1, <1>3, <2>1, <2>2 DEF SafeInv, PathSafe
<1>5. CopiesCopied'
  BY <1>1 DEF SafeInv, CopiesCopied
<1> QED BY <1>4, <1>5 DEF SafeInv

LEMMA PlanSafe ==
  ASSUME Shape, AgreeInv, GivenInv, SafeInv, Plan
  PROVE  SafeInv'
<1>1. /\ phase = "listed" /\ phase' = "applying" /\ job' = [p \in Paths |-> Planned(p)]
      /\ UNCHANGED <<sandbox, nodes, synced, superseded, unlisted, edits, agents, racer, copied>>
  BY DEF Plan, notes, driveVars
<1>2. GivenUp' = GivenUp /\ Spares' = Spares /\ Safe' = Safe
  BY <1>1, GivenSame DEF Spares, Safe
<1>3. ASSUME NEW q \in Paths PROVE PathSafe(q)' /\ job'[q].step \notin {"add", "replace", "finish", "write", "record", "copy"}
  <2> DEFINE d == nodeAt(q)
             version == IF d = None THEN 0 ELSE nodes[d].version
             sandboxChanged == listed[q] # synced[q].content
             driveChanged == d # synced[q].node \/ version # synced[q].version
  <2>1. /\ job'[q] # NoJob => job'[q].node = d
        /\ JobOK(job'[q])
        /\ job'[q].step \in {"none", "trash", "upload", "update", "delete", "put", "conflict", "forget"}
        /\ job'[q].step \in {"trash", "upload", "update"} => sandboxChanged /\ ~driveChanged
        /\ job'[q].step = "trash" <=> sandboxChanged /\ ~driveChanged /\ listed[q] = None
        /\ job'[q].step = "put" => ~sandboxChanged \/ listed[q] = None
        /\ job'[q].step = "delete" => ~sandboxChanged
    BY <1>1, PlannedIs
  <2>2. sandbox[q] \in {None, listed[q]} \cup GivenUp /\ PathSafe(q) /\ GivenUp \subseteq Spares /\ Spares \subseteq Safe
    BY <1>1 DEF SafeInv, PathSafe, Spares, Safe
  <2>3. job'[q].step \in {"put", "delete"} => sandbox[q] \in {None} \cup Safe
    <3> SUFFICES ASSUME job'[q].step \in {"put", "delete"}, sandbox[q] # None, sandbox[q] \notin GivenUp
                 PROVE  sandbox[q] \in Safe
      BY <2>2
    <3>1. sandbox[q] = listed[q] /\ sandbox[q] = synced[q].content
      BY <2>1, <2>2
    <3>2. synced[q] # NoRow
      BY <3>1, JobsAre
    <3> QED BY <2>2, <3>1, <3>2 DEF PathSafe
  <2>4. job'[q].step = "update" => nodes[job'[q].node].content \in Spares
    <3> SUFFICES ASSUME job'[q].step = "update" PROVE nodes[d].content \in Spares
      BY <2>1, JobsAre
    <3>1. d # None /\ sandboxChanged /\ ~driveChanged /\ listed[q] # None
      BY <2>1, JobsAre DEF JobOK
    <3>2. synced[q] # NoRow
      BY <3>1, JobsAre
    <3>3. Matches(q)
      BY <3>1, <3>2, FileAt DEF Matches, Shape
    <3>4. nodes[d].content = synced[q].content /\ d \in DOMAIN nodes /\ nodes[d].path = q
      BY <3>1, <3>3, MovedOnGiven DEF Matches
    <3>5. synced[q].content # None
      BY <3>2, PathsAre DEF Rows, Contents, None
    <3>6. KeptIn(GivenUp, sandbox[q], q, synced[q].content)
      BY <3>3 DEF GivenInv, RowKept
    <3>7. CASE synced[q].content \in GivenUp
      BY <2>2, <3>4, <3>7
    <3>8. CASE sandbox[q] = synced[q].content
      BY <2>2, <3>1, <3>4, <3>5, <3>8
    <3>9. CASE q \in Copies
      BY <3>4, <3>9 DEF SafeInv, CopiesCopied, Spares
    <3> QED BY <3>6, <3>7, <3>8, <3>9 DEF KeptIn
  <2>5. PathSafe(q)'
    BY <1>1, <1>2, <2>1, <2>2, <2>3, <2>4 DEF PathSafe
  <2> QED BY <2>1, <2>5
<1>4. CopiesCopied'
  BY <1>1, <1>3 DEF SafeInv, CopiesCopied
<1> QED BY <1>3, <1>4 DEF SafeInv

LEMMA EditSafe ==
  ASSUME CopiesApart, Shape, GivenInv, SafeInv,
         AgentWrites \/ AgentRemoves \/ AgentIgnores \/ PersonWrites \/ PersonTrashes \/ PersonRestores
  PROVE  SafeInv'
<1>0. /\ WrittenBefore /\ \A n \in DOMAIN nodes : nodes[n].path \in Copies => nodes[n].content \in copied
      /\ \A p \in Edited : p \in Paths /\ p \notin Copies
  BY SyncAssumption DEF GivenInv, SafeInv, CopiesCopied, CopiesApart, Copies
<1>a. ASSUME Edits
      PROVE  /\ copied' = copied /\ phase' = phase /\ listed' = listed /\ job' = job /\ synced' = synced /\ Grow
             /\ \A q \in Paths : job[q].step \in {"update", "replace", "finish"} => phase # "idle" /\ job[q].node \in DOMAIN nodes
  BY <1>a, PathIs, JobsAre, JobHas DEF Edits, FilesNext
<1>1. CASE AgentWrites
  <2>1. /\ Edits /\ nodes' = nodes /\ (phase = "idle" \/ racer = "agent") /\ agents' = agents \cup {edits'}
        /\ \E p \in Edited : /\ p \in Paths /\ sandbox'[p] = edits' /\ \A q \in Paths \ {p} : sandbox'[q] = sandbox[q]
                             /\ superseded' = superseded \cup ({sandbox[p]} \ {None})
    BY <1>1, AgentWritesDoes
  <2>2. PICK p \in Edited : /\ sandbox'[p] = edits' /\ \A q \in Paths \ {p} : sandbox'[q] = sandbox[q]
                            /\ superseded' = superseded \cup ({sandbox[p]} \ {None})
    BY <2>1
  <2>3. (\A c \in GivenUp : c \in GivenUp') /\ (phase # "idle" => edits' \in GivenUp')
    BY <1>0, <2>1, <2>2, EditGrows
  <2>4. \A q \in Paths : \/ sandbox'[q] = sandbox[q]
                         \/ q \notin Copies /\ sandbox'[q] \in {None} \cup GivenUp'
                         \/ q \notin Copies /\ phase = "idle" /\ phase' # "listed"
    BY <1>0, <1>a, <2>1, <2>2, <2>3
  <2> QED BY <1>0, <1>a, <2>1, <2>3, <2>4, SafeStays
<1>2. CASE AgentRemoves \/ AgentIgnores
  <2>1. /\ Edits /\ nodes' = nodes /\ agents' = agents /\ superseded \subseteq superseded'
        /\ \A q \in Paths : sandbox'[q] \in {sandbox[q], None}
    <3>1. CASE AgentRemoves
      BY <3>1, AgentRemovesDoes
    <3>2. CASE AgentIgnores
      BY <3>2, AgentIgnoresDoes
    <3> QED BY <1>2, <3>1, <3>2
  <2>2. \A c \in GivenUp : c \in GivenUp'
    BY <1>0, <2>1, QuietEditGrows
  <2> QED BY <1>0, <1>a, <2>1, <2>2, SafeStays
<1>3. CASE PersonWrites
  <2>1. /\ Edits /\ UNCHANGED <<sandbox, agents>> /\ (phase = "idle" \/ racer = "person") /\ superseded \subseteq superseded'
        /\ \E p \in Edited : \/ Adds(edits', p)
                             \/ /\ nodeAt(p) \in DOMAIN nodes /\ Replaces(nodeAt(p), edits')
                                /\ nodes[nodeAt(p)].content \in superseded'
    BY <1>3, PersonWritesDoes
  <2>2. PICK p \in Edited : \/ Adds(edits', p)
                            \/ /\ nodeAt(p) \in DOMAIN nodes /\ Replaces(nodeAt(p), edits')
                               /\ nodes[nodeAt(p)].content \in superseded'
    BY <2>1
  <2>3. (\A c \in GivenUp : c \in GivenUp') /\ (phase # "idle" => edits' \in GivenUp')
    BY <1>0, <2>1, EditGrows
  <2>4. CASE Adds(edits', p)
    <3>1. PICK l : /\ DOMAIN nodes' = DOMAIN nodes \cup {l} /\ nodes'[l].path = freeName(p)
                   /\ \A m \in DOMAIN nodes : nodes'[m] = nodes[m]
      BY <2>4 DEF Adds
    <3>2. nodes'[l].path \notin Copies
      BY <1>0, <3>1, FreeNameIs
    <3>3. \A m \in DOMAIN nodes' : nodes'[m].path \in Copies => nodes'[m].content \in copied
      BY <1>0, <3>1, <3>2
    <3> QED BY <1>a, <2>1, <2>3, <3>1, <3>3, SafeStays
  <2>5. CASE nodeAt(p) \in DOMAIN nodes /\ Replaces(nodeAt(p), edits') /\ nodes[nodeAt(p)].content \in superseded'
    <3>1. PICK n \in DOMAIN nodes : n = nodeAt(p)
      BY <2>5
    <3>2. nodes[n].path = p
      <4>1. nodeAt(p) # None
        BY <2>5, FilesAre DEF Shape
      <4> QED BY <1>0, <3>1, <4>1, FileAt DEF Shape
    <3>3. /\ DOMAIN nodes' = DOMAIN nodes /\ nodes'[n].path = p /\ nodes'[n].content = edits'
          /\ \A m \in DOMAIN nodes \ {n} : nodes'[m] = nodes[m]
      BY <2>5, <3>1, <3>2 DEF Replaces
    <3>4. \A m \in DOMAIN nodes' : nodes'[m].path \in Copies => nodes'[m].content \in copied
      BY <1>0, <3>3
    <3>5. nodes[n].content \in Spares' /\ (phase # "idle" => edits' \in Spares')
      BY <2>3, <2>5, <3>1 DEF Spares, GivenUp
    <3>6. \A m \in DOMAIN nodes : /\ nodes'[m].path = nodes[m].path
                                  /\ nodes'[m].content = nodes[m].content \/ nodes[m].content \in Spares'
                                  /\ phase # "idle" => \/ nodes'[m].content = nodes[m].content
                                                       \/ nodes'[m].content \in Spares'
      BY <3>2, <3>3, <3>5
    <3> QED BY <1>a, <2>1, <2>3, <3>3, <3>4, <3>6, SafeStays
  <2> QED BY <2>2, <2>4, <2>5
<1>4. CASE PersonTrashes \/ PersonRestores
  <2>1. /\ Edits /\ UNCHANGED <<sandbox, agents>> /\ superseded \subseteq superseded'
        /\ \E n \in DOMAIN nodes : Flips(n, TRUE) \/ Flips(n, FALSE)
    BY <1>4, PersonTrashesDoes, PersonRestoresDoes
  <2>2. /\ DOMAIN nodes' = DOMAIN nodes
        /\ \A m \in DOMAIN nodes : nodes'[m].content = nodes[m].content /\ nodes'[m].path = nodes[m].path
    BY <2>1 DEF Flips
  <2>3. \A c \in GivenUp : c \in GivenUp'
    BY <1>0, <2>1, QuietEditGrows
  <2> QED BY <1>0, <1>a, <2>1, <2>2, <2>3, SafeStays
<1> QED BY <1>1, <1>2, <1>3, <1>4

LEMMA SafeInit == Init => SafeInv
<1> SUFFICES ASSUME Init PROVE SafeInv
  OBVIOUS
<1>1. /\ nodes = <<>> /\ synced = [p \in Paths |-> NoRow] /\ job = [p \in Paths |-> NoJob] /\ phase = "idle"
      /\ sandbox = [p \in Paths |-> None]
  BY DEF Init
<1>2. DOMAIN nodes = {}
  BY <1>1
<1>3. CopiesCopied
  BY <1>1, <1>2, JobsAre DEF CopiesCopied
<1>4. \A q \in Paths : PathSafe(q)
  BY <1>1, JobsAre DEF PathSafe
<1> QED BY <1>3, <1>4 DEF SafeInv

LEMMA SafeStep ==
  ASSUME CopiesApart, Shape, AgreeInv, GivenInv, SafeInv, [Next]_vars
  PROVE  SafeInv'
<1>1. ASSUME NEW p \in Paths, Job(p) PROVE SafeInv'
  <2>1. CASE ReadFull(p) \/ UploadAdd(p) \/ UpdateReplace(p) \/ UpdateFinish(p) \/ Trash(p)
    BY <2>1, ReadFullSafe, UploadAddSafe, UpdateReplaceSafe, UpdateFinishSafe, TrashSafe
  <2>2. CASE PutRead(p) \/ PutWrite(p) \/ PutRecord(p) \/ Delete(p) \/ Forget(p) \/ ConflictCopy(p)
    BY <2>2, PutReadSafe, PutWriteSafe, PutRecordSafe, DeleteSafe, OverSafe, ConflictCopySafe
  <2>3. CASE JobMisses(p) \/ JobFails(p) \/ StopsUnrecorded(p)
    BY <2>3, OverSafe, UnrecordedSafe DEF JobMisses, JobFails
  <2> QED BY <1>1, <2>1, <2>2, <2>3 DEF Job
<1>2. CASE UNCHANGED vars
  <2>1. /\ UNCHANGED <<sandbox, nodes, synced, phase, listed, job, copied>>
        /\ UNCHANGED <<superseded, unlisted, edits, agents, racer>>
    BY <1>2 DEF vars, driveVars, syncVars, notes
  <2>2. Spares' = Spares /\ Safe' = Safe /\ GivenUp' = GivenUp
    BY <2>1, GivenSame DEF Spares, Safe
  <2>3. CopiesCopied'
    BY <2>1 DEF SafeInv, CopiesCopied
  <2>4. \A q \in Paths : PathSafe(q)'
    BY <2>1, <2>2 DEF SafeInv, PathSafe
  <2> QED BY <2>3, <2>4 DEF SafeInv
<1>3. CASE Edit
  BY <1>3, EditSafe, CutSafe DEF Edit
<1>4. CASE Sync
  BY <1>1, <1>4, CutSafe, ListedSafe, PlanSafe DEF Sync
<1> QED BY <1>2, <1>3, <1>4 DEF Next

\* What a step may let go of.
LEMMA LetsGo ==
  ASSUME Shape,
         \A q \in Paths : sandbox'[q] = sandbox[q] \/ sandbox[q] \in {None} \cup Safe,
         \A n \in DOMAIN nodes : /\ n \in DOMAIN nodes'
                                 /\ nodes'[n].content = nodes[n].content \/ nodes[n].content \in Spares,
         NEW c \in Held, c \notin Held'
  PROVE  c \in Spares
<1>1. c # None
  BY DEF Held
<1>2. ASSUME NEW n \in DOMAIN nodes, c = nodes[n].content PROVE c \in Spares
  BY <1>1, <1>2 DEF Held
<1>3. ASSUME NEW q \in Paths, c = sandbox[q] PROVE c \in Spares
  <2>1. sandbox'[q] # sandbox[q]
    BY <1>1, <1>3 DEF Held
  <2>2. c \in Safe
    BY <1>1, <1>3, <2>1
  <2> QED BY <1>2, <2>2 DEF Safe
<1> QED BY <1>2, <1>3 DEF Held

LEMMA SyncKeeps ==
  ASSUME Shape, AgreeInv, GivenInv, SafeInv, Sync, NEW c \in Held, c \notin Held'
  PROVE  c \in superseded \cup copied \cup unlisted \/ Author(c) = racer
<1>1. ASSUME NEW p \in Paths, Job(p) PROVE c \in Spares
  <2>1. \A m \in DOMAIN nodes : m \in DOMAIN nodes'
    <3>1. FilesNext
      <4>1. CASE JobMisses(p) \/ JobFails(p)
        BY <4>1, GivesUpDoes DEF JobMisses, JobFails, Turns
      <4>2. CASE StopsUnrecorded(p)
        BY <4>2, UnrecordedDoes
      <4>3. CASE ReadFull(p) \/ UploadAdd(p) \/ UpdateReplace(p) \/ UpdateFinish(p) \/ Trash(p)
        BY <4>3, ReadFullDoes, UploadAddDoes, UpdateReplaceDoes, UpdateFinishDoes, TrashDoes DEF Turns
      <4>4. CASE PutRead(p) \/ PutWrite(p) \/ PutRecord(p) \/ Delete(p) \/ Forget(p) \/ ConflictCopy(p)
        BY <4>4, PutReadDoes, PutWriteDoes, PutRecordDoes, DeleteDoes, ForgetDoes, ConflictCopyDoes DEF Turns
      <4> QED BY <1>1, <4>1, <4>2, <4>3, <4>4 DEF Job
    <3> QED BY <3>1 DEF FilesNext, Grow
  <2>2. PathSafe(p) /\ CopiesCopied
    BY DEF SafeInv
  <2>3. \A m \in DOMAIN nodes : nodes'[m].content = nodes[m].content \/ nodes[m].content \in Spares
    <3>1. CASE nodes' = nodes
      BY <3>1
    <3>2. CASE \E e, name : Adds(e, name)
      BY <3>2 DEF Adds
    <3>3. CASE UpdateFinish(p) \/ StopsUnrecorded(p)
      <4>1. \/ \E e, name : Adds(e, name)
            \/ /\ job[p].step = "finish" /\ job[p].node \in DOMAIN nodes
               /\ Replaces(job[p].node, job[p].bytes)
        BY <3>3, UpdateFinishDoes, UnrecordedDoes
      <4>2. CASE /\ job[p].step = "finish" /\ job[p].node \in DOMAIN nodes
                 /\ Replaces(job[p].node, job[p].bytes)
        BY <2>2, <4>2 DEF PathSafe, Replaces
      <4> QED BY <3>2, <4>1, <4>2
    <3>4. CASE Trash(p)
      BY <3>4, TrashDoes DEF Flips
    <3>5. CASE UploadAdd(p)
      BY <3>2, <3>5, UploadAddDoes
    <3>6. CASE ReadFull(p) \/ UpdateReplace(p) \/ PutRead(p) \/ PutWrite(p) \/ PutRecord(p) \/ Delete(p) \/ Forget(p)
               \/ ConflictCopy(p)
      BY <3>1, <3>6, ReadFullDoes, UpdateReplaceDoes, PutReadDoes, PutWriteDoes, PutRecordDoes, DeleteDoes, ForgetDoes,
         ConflictCopyDoes
    <3>7. CASE JobMisses(p) \/ JobFails(p)
      BY <3>1, <3>7, GivesUpDoes DEF JobMisses, JobFails
    <3> QED BY <1>1, <3>3, <3>4, <3>5, <3>6, <3>7 DEF Job
  <2>4. \A q \in Paths : sandbox'[q] = sandbox[q] \/ sandbox[q] \in {None} \cup Safe
    <3>1. CASE sandbox' = sandbox
      BY <3>1
    <3>2. CASE PutWrite(p)
      BY <2>2, <3>2, PutWriteDoes DEF PathSafe
    <3>3. CASE Delete(p)
      BY <2>2, <3>3, DeleteDoes DEF PathSafe
    <3>4. CASE ConflictCopy(p)
      <4>1. agentCopyName(p) \in Copies /\ \A q \in Paths \ {agentCopyName(p)} : sandbox'[q] = sandbox[q]
        BY <3>4, ConflictCopyDoes DEF Copies
      <4> QED BY <2>2, <4>1 DEF CopiesCopied, Safe, Spares
    <3>5. CASE ReadFull(p) \/ UploadAdd(p) \/ UpdateReplace(p) \/ UpdateFinish(p) \/ Trash(p) \/ PutRead(p) \/ PutRecord(p)
               \/ Forget(p)
      BY <3>1, <3>5, ReadFullDoes, UploadAddDoes, UpdateReplaceDoes, UpdateFinishDoes, TrashDoes, PutReadDoes, PutRecordDoes,
         ForgetDoes
    <3>6. CASE JobMisses(p) \/ JobFails(p)
      BY <3>1, <3>6, GivesUpDoes DEF JobMisses, JobFails
    <3>7. CASE StopsUnrecorded(p)
      BY <3>1, <3>7, UnrecordedDoes, StopsDoes
    <3> QED BY <1>1, <3>2, <3>3, <3>4, <3>5, <3>6, <3>7 DEF Job
  <2> QED BY <2>1, <2>3, <2>4, LetsGo
<1>2. ASSUME SyncStart \/ Listed \/ Plan \/ SyncEnd \/ SyncFails \/ Restart PROVE c \in Spares
  <2>1. nodes' = nodes /\ sandbox' = sandbox
    BY <1>2 DEF SyncStart, Listed, Plan, SyncEnd, SyncFails, Restart, Stops, driveVars
  <2> QED BY <2>1 DEF Held
<1>3. c \in Spares
  BY <1>1, <1>2 DEF Sync
<1> QED BY <1>3 DEF Spares, GivenUp

\* sync.ts, "Keeping a task's files in Drive and in its sandbox the same": no step of a sync, no failure
\* of one and no stopping of the Portal in the middle of one makes an edit disappear from both sides, unless
\* whoever made it gave it up, or it was kept as an agent's copy first, or the listing left it out, or they
\* wrote it while the sync ran. For any names, as long as nobody edits a file under the name of an agent's copy.
THEOREM NoEditLost ==
  ASSUME CopiesApart
  PROVE  Spec => EditsKept
<1>1. Shape /\ AgreeInv /\ GivenInv /\ [Next]_vars => GivenInv'
  BY GivenStep
<1>2. Shape /\ AgreeInv /\ GivenInv /\ SafeInv /\ [Next]_vars => SafeInv'
  BY SafeStep
<1>3. Spec => []AgreeInv
  BY AgreeInit, AgreeStep, ShapeHolds, PTL DEF Spec
<1>4. Spec => []GivenInv
  BY <1>1, <1>3, GivenInit, ShapeHolds, PTL DEF Spec
<1>5. Spec => []SafeInv
  BY <1>2, <1>3, <1>4, SafeInit, ShapeHolds, PTL DEF Spec
<1>6. Shape /\ AgreeInv /\ GivenInv /\ SafeInv /\ [Next]_vars =>
        [Sync => \A c \in Held \ Held' : c \in superseded \cup copied \cup unlisted \/ Author(c) = racer]_vars
  BY SyncKeeps
<1> QED BY <1>3, <1>4, <1>5, <1>6, ShapeHolds, PTL DEF Spec, EditsKept

=============================================================================
