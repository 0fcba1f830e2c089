-------------------------- MODULE DeploymentProofs --------------------------
(***************************************************************************)
(* Theorems about Deployment, for any number of changes and mishaps: no    *)
(* save undoes another, what is published in the end is what is saved, a   *)
(* policy once published is never emptied, what is reported as running     *)
(* runs, and its types.                                                    *)
(***************************************************************************)
EXTENDS Deployment, SequenceTheorems, TLAPS

Copies == Settings \cup {None}
Meshes == {0, 1, None}

\* What is kept where, as far as the theorems need it.
Kept ==
  /\ file \in Settings /\ held \in {None, file}
  /\ turns \in Seq(InTurn) /\ line \in Seq(Jobs)
  /\ job \in [Jobs -> [pc : {"idle", "waits", "read", "publishes"}, copy : Copies]]
  /\ \A j \in Jobs : job[j].pc = "read" => job[j].copy \in Settings
  /\ pub \in [pc : {"none", "members", "secrets", "plan"}, copy : Copies, mesh : Meshes]
  /\ plan # None => plan.mesh \in Meshes
  /\ members \in {0, 1}
  /\ {"crossed", "behind", "unread"} \subseteq DOMAIN seen

\* Whoever reads or publishes in turn is first of those who wait.
TurnsOK == \A f \in InTurn :
  /\ job[f].pc # "idle" => \E i \in DOMAIN turns : turns[i] = f
  /\ job[f].pc \in {"read", "publishes"} => Head(turns) = f

\* Whoever is in line to publish is there once.
LineOK ==
  /\ \A i \in DOMAIN line : job[line[i]].pc = "publishes"
  /\ \A i, k \in DOMAIN line : line[i] = line[k] => i = k
  /\ pub.pc # "none" => line # <<>>

\* A save that has read works on what is saved, unless a login's save came between.
CopiesFresh == \A f \in Fields \ seen.crossed : job[f].pc = "read" => job[f].copy = file

\* The last in line publishes what is saved, and the members as they are.
LastIsLatest ==
  Len(line) = 1 =>
    /\ pub.pc # "none" => pub.copy = file
    /\ pub.pc \in {"secrets", "plan"} /\ job["vpn"].pc # "read" /\ ~seen.unread => pub.mesh = members
    
SecretsFirst == pub.pc = "plan" => given = Secrets(pub.copy)

MeshKept == pub.pc \in {"secrets", "plan"} /\ plan # None /\ plan.mesh # None => pub.mesh # None

SaveInv == Kept /\ TurnsOK /\ LineOK /\ CopiesFresh
PublishInv == LastIsLatest /\ SecretsFirst /\ MeshKept /\ LatestPublished

-----------------------------------------------------------------------------
\* Saving

LEMMA ChangedTyped ==
  ASSUME NEW s \in Settings, NEW f \in Fields
  PROVE  Changed(f, s) \in Settings /\ \A g \in Fields \ {f} : Changed(f, s)[g] = s[g]
<1>1. CASE f = "on"
  BY <1>1 DEF Changed, Settings, Fields
<1>2. CASE f = "doc"
  BY <1>2 DEF Changed, Settings, Fields
<1>3. CASE f = "secret"
  BY <1>3 DEF Changed, Settings, Fields
<1>4. CASE f = "tunnel"
  BY <1>4 DEF Changed, Settings, Fields
<1> QED BY <1>1, <1>2, <1>3, <1>4 DEF Fields

\* The reconciler, and what expires, leave what is saved and published alone.
Untouched ==
  /\ UNCHANGED <<file, turns, job, line, pub, published, members>>
  /\ held' \in {None, held}
  /\ DOMAIN seen' = DOMAIN seen
  /\ "crossed" \in DOMAIN seen => seen'.crossed = seen.crossed
  /\ "behind" \in DOMAIN seen => seen'.behind = seen.behind
  /\ "unread" \in DOMAIN seen => seen'.unread = seen.unread

LEMMA NodeUntouched ==
  ASSUME NodeNext \/ HeldExpires \/ UNCHANGED vars
  PROVE  Untouched
<1> USE DEF Untouched, Outside, portal
<1>1. CASE Looks
  BY <1>1 DEF Looks
<1>2. CASE Loads
  BY <1>2 DEF Loads
<1>3. CASE Renders
  BY <1>3 DEF Renders, Fails
<1>4. CASE Composes
  BY <1>4 DEF Composes, Fails
<1>5. CASE Restarts
  BY <1>5 DEF Restarts, Step
<1>6. CASE SetsUp
  BY <1>6 DEF SetsUp
<1>7. CASE Reloads
  BY <1>7 DEF Reloads, Step
<1>8. CASE Finishes
  BY <1>8 DEF Finishes
<1>9. CASE NodeRestarts
  BY <1>9 DEF NodeRestarts
<1>10. CASE HeldExpires
  BY <1>10 DEF HeldExpires
<1>11. CASE UNCHANGED vars
  BY <1>11 DEF vars
<1> QED BY <1>1, <1>2, <1>3, <1>4, <1>5, <1>6, <1>7, <1>8, <1>9, <1>10, <1>11 DEF NodeNext, NodeStep

LEMMA SaveInvUntouched ==
  ASSUME SaveInv, Untouched
  PROVE  SaveInv'
BY DEF SaveInv, Kept, TurnsOK, LineOK, CopiesFresh, Untouched, published

LEMMA CurrentIsFile ==
  ASSUME Kept
  PROVE  Current = file
BY DEF Kept, Current

\* A job is given another record.
LEMMA JobReplaced ==
  ASSUME Kept, NEW j \in Jobs, NEW r, job' = [job EXCEPT ![j] = r]
  PROVE  job'[j] = r /\ \A k \in Jobs \ {j} : job'[k] = job[k]
BY DEF Kept

\* What happens to a job that is not in line leaves the line as it is.
LEMMA LineStays ==
  ASSUME SaveInv, NEW j \in Jobs, job[j].pc # "publishes", UNCHANGED <<line, pub>>,
         \A k \in Jobs \ {j} : job'[k] = job[k]
  PROVE  LineOK'
<1>1. line \in Seq(Jobs)
  BY DEF SaveInv, Kept
<1>2. \A i \in DOMAIN line : line[i] \in Jobs \ {j}
  BY <1>1 DEF SaveInv, LineOK
<1> QED BY <1>2 DEF SaveInv, LineOK

LEMMA SaveAskedKeeps ==
  ASSUME SaveInv, NEW f \in Fields, SaveAsked(f)
  PROVE  SaveInv'
<1>1. /\ job[f] = Idle /\ job'[f].pc = "waits" /\ f \in Jobs
      /\ \A k \in Jobs \ {f} : job'[k] = job[k]
      /\ job' \in [Jobs -> [pc : {"idle", "waits", "read", "publishes"}, copy : Copies]]
  BY DEF SaveAsked, SaveInv, Kept, Jobs, Idle
<1>2. turns' = IF f \in InTurn THEN Append(turns, f) ELSE turns
  BY DEF SaveAsked
<1>3. UNCHANGED <<file, held, line, pub, plan, members, seen>>
  BY DEF SaveAsked, published
<1>4. turns' \in Seq(InTurn)
  BY <1>2 DEF SaveInv, Kept
<1>5. Kept'
  BY <1>1, <1>3, <1>4 DEF SaveInv, Kept, Idle
<1>6. TurnsOK'
  <2> SUFFICES ASSUME NEW g \in InTurn
      PROVE /\ job'[g].pc # "idle" => \E i \in DOMAIN turns' : turns'[i] = g
            /\ job'[g].pc \in {"read", "publishes"} => Head(turns') = g
    BY DEF TurnsOK
  <2>0. turns \in Seq(InTurn) /\ g \in Jobs
    BY DEF SaveInv, Kept, Jobs, InTurn
  <2>1. CASE g = f
    BY <2>0, <2>1, <1>1, <1>2
  <2>2. CASE g # f
    <3>1. job'[g] = job[g]
      BY <2>0, <2>2, <1>1
    <3>2. job[g].pc # "idle" => \E i \in DOMAIN turns : turns[i] = g
      BY DEF SaveInv, TurnsOK
    <3>3. job[g].pc \in {"read", "publishes"} => Head(turns) = g
      BY DEF SaveInv, TurnsOK
    <3>4. \A i \in DOMAIN turns : i \in DOMAIN turns' /\ turns'[i] = turns[i]
      BY <2>0, <1>2
    <3>5. turns # <<>> => Head(turns') = Head(turns)
      BY <2>0, <1>2
    <3> QED BY <3>1, <3>2, <3>3, <3>4, <3>5, <2>0
  <2> QED BY <2>1, <2>2
<1>7. LineOK'
  BY <1>1, <1>3, LineStays DEF Idle
<1>8. CopiesFresh'
  BY <1>1, <1>3 DEF SaveInv, CopiesFresh, Jobs
<1> QED BY <1>5, <1>6, <1>7, <1>8 DEF SaveInv

LEMMA SaveReadsKeeps ==
  ASSUME SaveInv, NEW f \in Fields, SaveReads(f)
  PROVE  SaveInv'
<1>1. /\ f \in Jobs /\ job[f].pc = "waits"
      /\ job'[f] = [pc |-> "read", copy |-> file]
      /\ \A k \in Jobs \ {f} : job'[k] = job[k]
  BY CurrentIsFile DEF SaveReads, MayRead, SaveInv, Kept, Jobs
<1>2. /\ held' \in {None, file} /\ UNCHANGED <<file, turns, line, pub, plan, members>>
      /\ DOMAIN seen' = DOMAIN seen /\ seen'.crossed = seen.crossed \ {f}
  BY CurrentIsFile DEF SaveReads, Reads, published, SaveInv, Kept
<1>3. job' \in [Jobs -> [pc : {"idle", "waits", "read", "publishes"}, copy : Copies]]
  BY <1>1, CurrentIsFile DEF SaveReads, SaveInv, Kept, Copies
<1>4. Kept'
  <2>1. \A j \in Jobs : job'[j].pc = "read" => job'[j].copy \in Settings
    BY <1>1 DEF SaveInv, Kept
  <2> QED BY <1>2, <1>3, <2>1 DEF SaveInv, Kept
<1>5. TurnsOK'
  <2>1. f \in InTurn => Head(turns) = f
    BY DEF SaveReads, MayRead
  <2> QED BY <1>1, <1>2, <2>1 DEF SaveInv, TurnsOK, InTurn, Jobs
<1>6. LineOK'
  BY <1>1, <1>2, LineStays DEF SaveReads
<1>7. CopiesFresh'
  BY <1>1, <1>2 DEF SaveInv, CopiesFresh, Jobs
<1> QED BY <1>4, <1>5, <1>6, <1>7 DEF SaveInv

\* What is appended comes last, and moves nobody.
LEMMA Appended ==
  ASSUME NEW S, NEW s \in Seq(S), NEW x \in S
  PROVE  /\ Append(s, x) \in Seq(S) /\ Append(s, x) # <<>>
         /\ DOMAIN Append(s, x) = DOMAIN s \cup {Len(s) + 1}
         /\ \A i \in DOMAIN s : Append(s, x)[i] = s[i] /\ i # Len(s) + 1
         /\ Append(s, x)[Len(s) + 1] = x
         /\ Len(Append(s, x)) = Len(s) + 1
         /\ s # <<>> => Head(Append(s, x)) = Head(s) /\ Len(s) > 0
OBVIOUS

\* One more gets in line, whose record says so.
LEMMA LineJoined ==
  ASSUME SaveInv, NEW j \in Jobs, job[j].pc # "publishes", line' = Append(line, j),
         job'[j].pc = "publishes", \A k \in Jobs \ {j} : job'[k] = job[k], pub' = pub
  PROVE  LineOK' /\ line' \in Seq(Jobs)
<1>1. line \in Seq(Jobs)
  BY DEF SaveInv, Kept
<1>2. \A i \in DOMAIN line : line[i] \in Jobs /\ line[i] # j
  BY <1>1 DEF SaveInv, LineOK
<1> QED BY <1>1, <1>2, Appended DEF SaveInv, LineOK

LEMMA PersistsKeeps ==
  ASSUME SaveInv, NEW f \in Fields, Persists(f)
  PROVE  SaveInv'
<1>1. /\ f \in Jobs /\ job[f].pc = "read"
      /\ job'[f] = [pc |-> "publishes", copy |-> file']
      /\ \A k \in Jobs \ {f} : job'[k] = job[k]
  BY DEF Persists, SaveInv, Kept, Jobs
<1>2. file' = Changed(f, job[f].copy) /\ held' = None /\ UNCHANGED <<turns, pub, plan, members>>
  BY DEF Persists, forgetSettings, published
<1>3. /\ DOMAIN seen' = DOMAIN seen
      /\ seen'.crossed = seen.crossed \cup {g \in Fields : job[g].pc = "read" /\ (f = "tunnel" \/ g = "tunnel")}
  BY DEF Persists, SaveInv, Kept
<1>4. job[f].copy \in Settings /\ file' \in Settings
  BY <1>1, <1>2, ChangedTyped DEF SaveInv, Kept
<1>5. LineOK' /\ line' \in Seq(Jobs)
  BY <1>1, <1>2, LineJoined DEF Persists
<1>6. job' \in [Jobs -> [pc : {"idle", "waits", "read", "publishes"}, copy : Copies]]
  BY <1>4 DEF Persists, SaveInv, Kept, Copies
<1>7. Kept'
  <2>1. \A j \in Jobs : job'[j].pc = "read" => job'[j].copy \in Settings
    BY <1>1 DEF SaveInv, Kept
  <2> QED BY <1>2, <1>3, <1>4, <1>5, <1>6, <2>1 DEF SaveInv, Kept
<1>8. TurnsOK'
  BY <1>1, <1>2 DEF SaveInv, TurnsOK, InTurn, Jobs
<1>9. CopiesFresh'
  <2> SUFFICES ASSUME NEW g \in Fields, g \notin seen'.crossed, job'[g].pc = "read" PROVE FALSE
    BY DEF CopiesFresh
  <2>1. g # f /\ g \in Jobs /\ job[g].pc = "read"
    BY <1>1 DEF Jobs
  <2>2. f \in InTurn /\ g \in InTurn
    BY <2>1, <1>3 DEF InTurn
  <2> QED BY <2>1, <2>2, <1>1 DEF SaveInv, TurnsOK
<1> QED BY <1>5, <1>7, <1>8, <1>9 DEF SaveInv

\* Whoever leaves had the turn: nobody else read or published in turn.
LEMMA TurnLeft ==
  ASSUME SaveInv, NEW j \in Jobs, job[j].pc \in {"read", "publishes"}, job'[j].pc = "idle",
         \A k \in Jobs \ {j} : job'[k] = job[k], turns' = Turned(j)
  PROVE  TurnsOK' /\ turns' \in Seq(InTurn)
<1>0. turns \in Seq(InTurn) /\ InTurn \subseteq Jobs
  BY DEF SaveInv, Kept, InTurn, Jobs
<1>1. CASE j \notin InTurn
  BY <1>0, <1>1 DEF Turned, SaveInv, TurnsOK
<1>2. CASE j \in InTurn
  <2>1. Head(turns) = j /\ turns # <<>> /\ turns' = Tail(turns)
    BY <1>0, <1>2 DEF SaveInv, TurnsOK, Turned
  <2>2. ASSUME NEW g \in InTurn
        PROVE  /\ job'[g].pc # "idle" => \E i \in DOMAIN turns' : turns'[i] = g
               /\ job'[g].pc \notin {"read", "publishes"}
    <3>1. CASE g = j
      BY <3>1
    <3>2. CASE g # j
      <4>1. job'[g] = job[g] /\ job[g].pc \notin {"read", "publishes"}
        BY <1>0, <2>1, <3>2 DEF SaveInv, TurnsOK
      <4>2. ASSUME job[g].pc # "idle" PROVE \E i \in DOMAIN turns' : turns'[i] = g
        <5>1. PICK i \in DOMAIN turns : turns[i] = g
          BY <4>2 DEF SaveInv, TurnsOK
        <5>2. i # 1 /\ i \in 1..Len(turns)
          BY <1>0, <2>1, <3>2, <5>1
        <5>3. i - 1 \in DOMAIN turns' /\ turns'[i - 1] = g
          BY <1>0, <2>1, <5>1, <5>2
        <5> QED BY <5>3
      <4> QED BY <4>1, <4>2
    <3> QED BY <3>1, <3>2
  <2>3. turns' \in Seq(InTurn)
    BY <1>0, <2>1
  <2> QED BY <2>2, <2>3 DEF TurnsOK
<1> QED BY <1>1, <1>2

LEMMA SaveFailsKeeps ==
  ASSUME SaveInv, NEW f \in Fields, SaveFails(f)
  PROVE  SaveInv'
<1>1. /\ f \in Jobs /\ job[f].pc = "read" /\ job'[f] = Idle
      /\ \A k \in Jobs \ {f} : job'[k] = job[k]
  BY DEF SaveFails, SaveInv, Kept, Jobs
<1>2. UNCHANGED <<file, held, line, pub, plan, members, seen>>
  BY DEF SaveFails, published
<1>3. TurnsOK' /\ turns' \in Seq(InTurn)
  BY <1>1, TurnLeft DEF SaveFails, Idle
<1>4. job' \in [Jobs -> [pc : {"idle", "waits", "read", "publishes"}, copy : Copies]]
  BY DEF SaveFails, SaveInv, Kept, Copies, Idle
<1>5. Kept'
  BY <1>1, <1>2, <1>3, <1>4 DEF SaveInv, Kept, Idle
<1>6. LineOK'
  BY <1>1, <1>2, LineStays
<1>7. CopiesFresh'
  BY <1>1, <1>2 DEF SaveInv, CopiesFresh, Jobs, Idle
<1> QED BY <1>3, <1>5, <1>6, <1>7 DEF SaveInv

-----------------------------------------------------------------------------
\* The mesh, and the Portal's restart

LEMMA MeshChangesKeeps ==
  ASSUME SaveInv, MeshChanges
  PROVE  SaveInv'
<1>1. /\ "vpn" \in Jobs \ Fields /\ job["vpn"].pc = "idle"
      /\ job'["vpn"] = [pc |-> "read", copy |-> file]
      /\ \A k \in Jobs \ {"vpn"} : job'[k] = job[k]
  BY CurrentIsFile DEF MeshChanges, SaveInv, Kept, Jobs, Fields, Idle
<1>2. held' \in {None, file} /\ members' \in {0, 1} /\ UNCHANGED <<file, turns, line, pub, plan, seen>>
  BY CurrentIsFile DEF MeshChanges, Reads, published, SaveInv
<1>3. job' \in [Jobs -> [pc : {"idle", "waits", "read", "publishes"}, copy : Copies]]
  BY CurrentIsFile DEF MeshChanges, SaveInv, Kept, Copies
<1>4. Kept'
  BY <1>1, <1>2, <1>3 DEF SaveInv, Kept
<1>5. LineOK'
  BY <1>1, <1>2, LineStays
<1>6. TurnsOK' /\ CopiesFresh'
  BY <1>1, <1>2 DEF SaveInv, TurnsOK, CopiesFresh, InTurn, Jobs
<1> QED BY <1>4, <1>5, <1>6 DEF SaveInv

LEMMA MeshPublishesKeeps ==
  ASSUME SaveInv, MeshPublishes
  PROVE  SaveInv'
<1>1. /\ "vpn" \in Jobs \ Fields /\ job["vpn"].pc = "read" /\ job'["vpn"].pc = "publishes"
      /\ \A k \in Jobs \ {"vpn"} : job'[k] = job[k]
      /\ job' \in [Jobs -> [pc : {"idle", "waits", "read", "publishes"}, copy : Copies]]
  BY DEF MeshPublishes, SaveInv, Kept, Jobs, Fields
<1>2. UNCHANGED <<file, held, turns, pub, plan, members, seen>>
  BY DEF MeshPublishes, published
<1>3. LineOK' /\ line' \in Seq(Jobs)
  BY <1>1, <1>2, LineJoined DEF MeshPublishes
<1>4. Kept'
  BY <1>1, <1>2, <1>3 DEF SaveInv, Kept
<1>5. TurnsOK' /\ CopiesFresh'
  BY <1>1, <1>2 DEF SaveInv, TurnsOK, CopiesFresh, InTurn, Jobs
<1> QED BY <1>3, <1>4, <1>5 DEF SaveInv

LEMMA BootStarts ==
  /\ <<"boot">> \in Seq(Jobs) /\ DOMAIN <<"boot">> = {1} /\ <<"boot">>[1] = "boot" /\ <<"boot">> # <<>>
  /\ <<>> \in Seq(InTurn) /\ "boot" \in Jobs \ Fields
BY DEF Jobs, Fields

LEMMA RestartKeeps ==
  ASSUME SaveInv, PortalRestarts
  PROVE  SaveInv'
<1>1. job' \in [Jobs -> [pc : {"idle", "waits", "read", "publishes"}, copy : Copies]]
  BY DEF PortalRestarts, SaveInv, Kept, Copies, Idle
<1>2. \A j \in Jobs : job'[j].pc = IF j = "boot" THEN "publishes" ELSE "idle"
  BY DEF PortalRestarts, Idle
<1>3. /\ UNCHANGED <<file, plan, members, seen>> /\ held' = None
      /\ turns' = <<>> /\ line' = <<"boot">> /\ pub' = NoPub
  BY DEF PortalRestarts, published
<1>4. NoPub \in [pc : {"none", "members", "secrets", "plan"}, copy : Copies, mesh : Meshes] /\ NoPub.pc = "none"
  BY DEF NoPub, Copies, Meshes
<1>5. Kept'
  BY <1>1, <1>2, <1>3, <1>4, BootStarts DEF SaveInv, Kept
<1>6. TurnsOK' /\ CopiesFresh'
  BY <1>2, BootStarts DEF TurnsOK, CopiesFresh, InTurn, Jobs
<1>7. LineOK'
  BY <1>2, <1>3, <1>4, BootStarts DEF LineOK
<1> QED BY <1>5, <1>6, <1>7 DEF SaveInv
-----------------------------------------------------------------------------
\* Publishing

\* A step of a publish that goes on leaves who saves, waits and is in line as they are.
LEMMA PublishGoesOn ==
  ASSUME SaveInv, UNCHANGED <<file, turns, job, line, members>>, held' \in {None, file},
         pub' \in [pc : {"none", "members", "secrets", "plan"}, copy : Copies, mesh : Meshes],
         line # <<>>, plan' = plan,
         DOMAIN seen' = DOMAIN seen, seen'.crossed = seen.crossed
  PROVE  SaveInv'
BY DEF SaveInv, Kept, TurnsOK, LineOK, CopiesFresh

LEMMA StepsGoOn ==
  ASSUME SaveInv, PublishStarts \/ PublishMembers \/ PublishSecrets
  PROVE  SaveInv'
<1> USE DEF Publishing
<1>0. held \in {None, file} /\ pub \in [pc : {"none", "members", "secrets", "plan"}, copy : Copies, mesh : Meshes]
      /\ members \in Meshes /\ previousMeshPolicy \in Meshes /\ file \in Copies /\ None \in Meshes
  BY DEF SaveInv, Kept, Meshes, Copies, previousMeshPolicy
<1>1. CASE PublishStarts
  BY <1>0, <1>1, PublishGoesOn, CurrentIsFile DEF PublishStarts, Reads, Wanted, SaveInv, published
<1>2. CASE PublishMembers
  <2>1. DOMAIN seen' = DOMAIN seen /\ seen'.crossed = seen.crossed
    BY <1>2 DEF PublishMembers, SaveInv, Kept
  <2>2. pub' \in [pc : {"none", "members", "secrets", "plan"}, copy : Copies, mesh : Meshes]
    BY <1>0, <1>2 DEF PublishMembers
  <2> QED BY <1>0, <1>2, <2>1, <2>2, PublishGoesOn DEF PublishMembers, published
<1>3. CASE PublishSecrets
  <2>1. DOMAIN seen' = DOMAIN seen /\ seen'.crossed = seen.crossed
    BY <1>3 DEF PublishSecrets, SaveInv, Kept
  <2>2. pub' \in [pc : {"none", "members", "secrets", "plan"}, copy : Copies, mesh : Meshes]
    BY <1>0, <1>3 DEF PublishSecrets
  <2> QED BY <1>0, <1>3, <2>1, <2>2, PublishGoesOn DEF PublishSecrets
<1> QED BY <1>1, <1>2, <1>3

\* Who has published is first in line, and leaves it and the turn.
LEMMA LeavesKeeps ==
  ASSUME SaveInv, line # <<>>, Leaves, UNCHANGED <<file, held, members>>,
         plan' # None => plan'.mesh \in Meshes,
         DOMAIN seen' = DOMAIN seen, seen'.crossed = seen.crossed
  PROVE  /\ SaveInv' /\ Publisher \in Jobs /\ job[Publisher].pc = "publishes"
         /\ \A k \in Jobs \ {Publisher} : job'[k] = job[k]
<1>1. line \in Seq(Jobs) /\ Publisher \in Jobs /\ Publisher = line[1] /\ 1 \in DOMAIN line
  BY DEF SaveInv, Kept, Publisher
<1>2. /\ job[Publisher].pc = "publishes" /\ job'[Publisher] = Idle
      /\ \A k \in Jobs \ {Publisher} : job'[k] = job[k]
  BY <1>1 DEF SaveInv, Kept, LineOK, Leaves
<1>3. TurnsOK' /\ turns' \in Seq(InTurn)
  BY <1>1, <1>2, TurnLeft DEF Leaves, Idle
<1>4. job' \in [Jobs -> [pc : {"idle", "waits", "read", "publishes"}, copy : Copies]]
  BY DEF Leaves, SaveInv, Kept, Copies, Idle
<1>5. line' \in Seq(Jobs) /\ \A i \in DOMAIN line' : i + 1 \in DOMAIN line /\ line'[i] = line[i + 1] /\ i \in Nat \ {0}
  BY <1>1 DEF Leaves
<1>6. NoPub \in [pc : {"none", "members", "secrets", "plan"}, copy : Copies, mesh : Meshes] /\ NoPub.pc = "none"
  BY DEF NoPub, Copies, Meshes
<1>7. pub' = NoPub
  BY DEF Leaves
<1>8. LineOK'
  <2>1. ASSUME NEW i \in DOMAIN line'
        PROVE  line'[i] \in Jobs \ {Publisher}
    BY <1>1, <1>5, <2>1 DEF SaveInv, LineOK
  <2>2. \A i \in DOMAIN line' : job'[line'[i]].pc = "publishes"
    BY <1>2, <1>5, <2>1 DEF SaveInv, LineOK
  <2>3. \A i, k \in DOMAIN line' : line'[i] = line'[k] => i = k
    <3> SUFFICES ASSUME NEW i \in DOMAIN line', NEW k \in DOMAIN line', line'[i] = line'[k] PROVE i = k
      OBVIOUS
    <3>1. i + 1 = k + 1
      BY <1>5 DEF SaveInv, LineOK
    <3> QED BY <1>5, <3>1
  <2> QED BY <1>6, <1>7, <2>2, <2>3 DEF LineOK
<1>9. Kept'
  <2>1. \A j \in Jobs : job'[j].pc = "read" => job'[j].copy \in Settings
    BY <1>2 DEF SaveInv, Kept, Idle
  <2> QED BY <1>3, <1>4, <1>5, <1>6, <1>7, <2>1 DEF SaveInv, Kept
<1>10. CopiesFresh'
  BY <1>2 DEF SaveInv, CopiesFresh, Jobs, Idle
<1> QED BY <1>1, <1>2, <1>3, <1>8, <1>9, <1>10 DEF SaveInv

LEMMA PlanKeeps ==
  ASSUME SaveInv, PublishPlan \/ PublishFails
  PROVE  /\ SaveInv' /\ Publisher \in Jobs /\ job[Publisher].pc = "publishes"
         /\ \A k \in Jobs \ {Publisher} : job'[k] = job[k]
<1> USE DEF Publishing
<1>1. CASE PublishPlan
  <2>1. line # <<>> /\ Leaves /\ UNCHANGED <<file, held, members>> /\ plan'.mesh \in Meshes
    BY <1>1 DEF PublishPlan, Rendered, SaveInv, Kept
  <2>2. DOMAIN seen' = DOMAIN seen /\ seen'.crossed = seen.crossed
    BY <1>1 DEF PublishPlan, SaveInv, Kept
  <2> QED BY <2>1, <2>2, LeavesKeeps
<1>2. CASE PublishFails
  <2>1. line # <<>> /\ Leaves /\ UNCHANGED <<file, held, members, plan>>
    BY <1>2 DEF PublishFails, published
  <2>2. DOMAIN seen' = DOMAIN seen /\ seen'.crossed = seen.crossed
    BY <1>2 DEF PublishFails, SaveInv, Kept
  <2>3. plan' # None => plan'.mesh \in Meshes
    BY <2>1 DEF SaveInv, Kept
  <2> QED BY <2>1, <2>2, <2>3, LeavesKeeps
<1> QED BY <1>1, <1>2

LEMMA SaveStep ==
  ASSUME SaveInv, [Next]_vars
  PROVE  SaveInv'
<1>1. CASE NodeNext \/ HeldExpires \/ UNCHANGED vars
  BY <1>1, NodeUntouched, SaveInvUntouched
<1>2. CASE \E f \in Fields : SaveAsked(f) \/ SaveReads(f) \/ Persists(f) \/ SaveFails(f)
  BY <1>2, SaveAskedKeeps, SaveReadsKeeps, PersistsKeeps, SaveFailsKeeps
<1>3. CASE MeshChanges \/ MeshPublishes \/ PortalRestarts
  BY <1>3, MeshChangesKeeps, MeshPublishesKeeps, RestartKeeps
<1>4. CASE PublishStarts \/ PublishMembers \/ PublishSecrets \/ PublishPlan \/ PublishFails
  BY <1>4, StepsGoOn, PlanKeeps
<1> QED BY <1>1, <1>2, <1>3, <1>4 DEF Next, PortalNext

LEMMA SaveStarts == Init => SaveInv
<1> SUFFICES ASSUME Init PROVE SaveInv
  OBVIOUS
<1>1. Start \in Settings
  BY DEF Start, Settings
<1>2. job \in [Jobs -> [pc : {"idle", "waits", "read", "publishes"}, copy : Copies]]
  BY <1>1 DEF Init, Copies, Idle
<1>3. \A j \in Jobs : job[j].pc = IF j = "boot" THEN "publishes" ELSE "idle"
  BY DEF Init, Idle
<1>4. NoPub \in [pc : {"none", "members", "secrets", "plan"}, copy : Copies, mesh : Meshes] /\ NoPub.pc = "none"
  BY DEF NoPub, Copies, Meshes
<1>5. Kept
  BY <1>1, <1>2, <1>3, <1>4, BootStarts DEF Init, Kept
<1>6. TurnsOK /\ CopiesFresh
  BY <1>3, BootStarts DEF TurnsOK, CopiesFresh, InTurn, Jobs
<1>7. LineOK
  BY <1>3, <1>4, BootStarts DEF Init, LineOK
<1> QED BY <1>5, <1>6, <1>7 DEF SaveInv

\* settings.ts, settingsTurn: a save leaves what others saved as it is.
THEOREM SavesKeepOthers == Spec => NothingUndone
<1>1. Init => SaveInv
  BY SaveStarts
<1>2. SaveInv /\ [Next]_vars => SaveInv'
  BY SaveStep
<1>3. SaveInv /\ [Next]_vars =>
        [\A f \in Fields : Saves(f) /\ f \notin seen.crossed => \A g \in Fields \ {f} : file'[g] = file[g]]_vars
  <2> SUFFICES ASSUME SaveInv, Next, NEW f \in Fields, Saves(f), f \notin seen.crossed, NEW g \in Fields \ {f}
               PROVE  file'[g] = file[g]
    OBVIOUS
  <2>1. f \in Jobs
    BY DEF Jobs
  <2>2. CASE \E h \in Fields : Persists(h)
    <3>1. PICK h \in Fields : Persists(h)
      BY <2>2
    <3>2. h = f
      BY <2>1, <3>1 DEF Persists, Saves, SaveInv, Kept
    <3>3. job[f].copy = file
      BY DEF Saves, SaveInv, CopiesFresh
    <3> QED BY <3>1, <3>2, <3>3, ChangedTyped DEF Persists, SaveInv, Kept
  <2>3. CASE ~\E h \in Fields : Persists(h)
    <3>1. CASE NodeNext \/ HeldExpires
      BY <3>1, NodeUntouched DEF Untouched
    <3>2. CASE ~(NodeNext \/ HeldExpires)
      BY <2>3, <3>2 DEF Next, PortalNext, SaveAsked, SaveReads, SaveFails, MeshChanges, MeshPublishes,
                        PublishStarts, PublishMembers, PublishSecrets, PublishPlan, PublishFails, PortalRestarts
    <3> QED BY <3>1, <3>2
  <2> QED BY <2>2, <2>3
<1> QED BY <1>1, <1>2, <1>3, PTL DEF Spec, NothingUndone

-----------------------------------------------------------------------------
\* What is published

LEMMA PublishInvUntouched ==
  ASSUME PublishInv, UNCHANGED <<file, line, plan, given, members>>, pub' = pub, job'["vpn"] = job["vpn"],
         seen'.behind = seen.behind, seen'.unread = seen.unread
  PROVE  PublishInv'
BY DEF PublishInv, LastIsLatest, SecretsFirst, MeshKept, LatestPublished

\* While somebody is in line, nothing is said of what is published.
LEMMA LineHides ==
  ASSUME line' # <<>>
  PROVE  LatestPublished'
BY DEF LatestPublished

\* Whoever joins a line with a publish under way is not alone in it.
LEMMA JoinKeeps ==
  ASSUME SaveInv, PublishInv, NEW j \in Jobs, line' = Append(line, j), UNCHANGED <<pub, plan, given>>
  PROVE  PublishInv'
<1>1. line \in Seq(Jobs)
  BY DEF SaveInv, Kept
<1>2. pub.pc # "none" => Len(line') # 1
  BY <1>1, Appended DEF SaveInv, LineOK
<1>3. LatestPublished'
  BY <1>1, Appended, LineHides
<1>4. pub.pc \in {"none", "members", "secrets", "plan"}
  BY DEF SaveInv, Kept
<1> QED BY <1>2, <1>3, <1>4 DEF PublishInv, LastIsLatest, SecretsFirst, MeshKept

LEMMA SavesPublishNothing ==
  ASSUME SaveInv, PublishInv, NEW f \in Fields, SaveAsked(f) \/ SaveReads(f) \/ Persists(f) \/ SaveFails(f)
  PROVE  PublishInv'
<1>0. f # "vpn" /\ f \in Jobs
  BY DEF Fields, Jobs
<1>1. CASE SaveAsked(f) \/ SaveFails(f)
  <2>1. job'["vpn"] = job["vpn"]
    BY <1>0, <1>1 DEF SaveAsked, SaveFails, SaveInv, Kept, Jobs
  <2>2. UNCHANGED <<file, line, pub, plan, given, members, seen>>
    BY <1>1 DEF SaveAsked, SaveFails, published
  <2> QED BY <2>1, <2>2, PublishInvUntouched
<1>2. CASE SaveReads(f)
  BY <1>0, <1>2, PublishInvUntouched DEF SaveReads, SaveInv, Kept, published
<1>3. CASE Persists(f)
  BY <1>0, <1>3, JoinKeeps DEF Persists, published
<1> QED BY <1>1, <1>2, <1>3

LEMMA MeshPublishesNothing ==
  ASSUME SaveInv, PublishInv, MeshChanges \/ MeshPublishes
  PROVE  PublishInv'
<1>0. "vpn" \in Jobs
  BY DEF Jobs
<1>1. CASE MeshChanges
  <2>1. job'["vpn"].pc = "read" /\ job'["vpn"] # Idle /\ UNCHANGED <<file, line, pub, plan, given, seen>>
    BY <1>0, <1>1 DEF MeshChanges, SaveInv, Kept, published, Idle
  <2> QED BY <2>1 DEF PublishInv, LastIsLatest, SecretsFirst, MeshKept, LatestPublished
<1>2. CASE MeshPublishes
  BY <1>0, <1>2, JoinKeeps DEF MeshPublishes, published
<1> QED BY <1>1, <1>2

LEMMA RestartPublishesNothing ==
  ASSUME SaveInv, PublishInv, PortalRestarts
  PROVE  PublishInv'
<1>1. line' # <<>> /\ pub'.pc = "none"
  BY BootStarts DEF PortalRestarts, NoPub
<1> QED BY <1>1, LineHides DEF PublishInv, LastIsLatest, SecretsFirst, MeshKept

LEMMA StepsPublish ==
  ASSUME SaveInv, PublishInv, PublishStarts \/ PublishMembers \/ PublishSecrets
  PROVE  PublishInv'
<1> USE DEF Publishing
<1>1. CASE PublishStarts
  <2>1. line' = line /\ line # <<>> /\ file' = file /\ pub'.pc = "members" /\ pub'.copy = file
    BY <1>1, CurrentIsFile DEF PublishStarts, Wanted, SaveInv
  <2> QED BY <2>1, LineHides DEF PublishInv, LastIsLatest, SecretsFirst, MeshKept
<1>2. CASE PublishMembers
  <2>1. /\ line' = line /\ line # <<>> /\ UNCHANGED <<file, job, plan, given, members>>
        /\ pub.pc = "members" /\ pub'.pc = "secrets" /\ pub'.copy = pub.copy
        /\ pub'.mesh = members \/ (seen'.unread /\ pub'.mesh = previousMeshPolicy)
    BY <1>2 DEF PublishMembers, published, SaveInv, Kept
  <2>2. members # None /\ (plan # None /\ plan.mesh # None => previousMeshPolicy # None)
    BY DeploymentAssumption DEF SaveInv, Kept, previousMeshPolicy
  <2> QED BY <2>1, <2>2, LineHides DEF PublishInv, LastIsLatest, SecretsFirst, MeshKept
<1>3. CASE PublishSecrets
  <2>1. /\ line' = line /\ line # <<>> /\ UNCHANGED <<file, job, plan, members>>
        /\ pub.pc = "secrets" /\ pub'.pc = "plan" /\ pub'.copy = pub.copy /\ pub'.mesh = pub.mesh
        /\ given' = Secrets(pub.copy) /\ seen'.unread = seen.unread
    BY <1>3 DEF PublishSecrets, SaveInv, Kept
  <2>2. given' = Secrets(pub'.copy)
    BY <2>1 DEF Secrets
  <2> QED BY <2>1, <2>2, LineHides DEF PublishInv, LastIsLatest, SecretsFirst, MeshKept
<1> QED BY <1>1, <1>2, <1>3

LEMMA PlanPublishes ==
  ASSUME SaveInv, PublishInv, PublishPlan \/ PublishFails
  PROVE  PublishInv'
<1> USE DEF Publishing
<1>0. pub'.pc = "none"
  BY DEF PublishPlan, PublishFails, Leaves, NoPub
<1>1. LastIsLatest' /\ SecretsFirst' /\ MeshKept'
  BY <1>0 DEF LastIsLatest, SecretsFirst, MeshKept
<1>2. CASE PublishFails
  <2>1. seen'.behind
    BY <1>2 DEF PublishFails, SaveInv, Kept
  <2> QED BY <1>1, <2>1 DEF PublishInv, LatestPublished
<1>3. CASE PublishPlan
  <2> SUFFICES ASSUME line' = <<>>, job'["vpn"] = Idle
               PROVE  given' = Secrets(file') /\ plan' = Rendered(file', IF seen'.unread THEN plan'.mesh ELSE members')
    BY <1>1 DEF PublishInv, LatestPublished
  <2>1. /\ UNCHANGED <<file, given, members>> /\ plan' = Rendered(pub.copy, pub.mesh) /\ pub.pc = "plan"
        /\ seen'.unread = seen.unread /\ line # <<>> /\ line' = Tail(line)
    BY <1>3 DEF PublishPlan, Leaves, SaveInv, Kept
  <2>2. Len(line) = 1
    <3>1. line \in Seq(Jobs)
      BY DEF SaveInv, Kept
    <3>2. Len(Tail(line)) = Len(line) - 1 /\ Tail(line) = <<>>
      BY <2>1, <3>1
    <3>3. Len(Tail(line)) = 0
      BY <3>2
    <3>4. Len(line) \in Nat
      BY <3>1
    <3> QED BY <3>2, <3>3, <3>4
  <2>3. job["vpn"].pc # "read"
    BY PlanKeeps DEF Jobs, Idle
  <2>4. pub.copy = file /\ given = Secrets(pub.copy) /\ (~seen.unread => pub.mesh = members)
    BY <2>1, <2>2, <2>3 DEF PublishInv, LastIsLatest, SecretsFirst
  <2>5. plan'.mesh = pub.mesh
    BY <2>1 DEF Rendered
  <2>6. given' = Secrets(file')
    BY <2>1, <2>4 DEF Secrets
  <2>7. plan' = Rendered(file', IF seen'.unread THEN plan'.mesh ELSE members')
    BY <2>1, <2>4, <2>5
  <2> QED BY <2>6, <2>7
<1> QED BY <1>2, <1>3

LEMMA PublishStep ==
  ASSUME SaveInv, PublishInv, [Next]_vars
  PROVE  PublishInv'
<1>1. CASE NodeNext \/ HeldExpires \/ UNCHANGED vars
  BY <1>1, NodeUntouched, PublishInvUntouched DEF Untouched, published, SaveInv, Kept
<1>2. CASE \E f \in Fields : SaveAsked(f) \/ SaveReads(f) \/ Persists(f) \/ SaveFails(f)
  BY <1>2, SavesPublishNothing
<1>3. CASE MeshChanges \/ MeshPublishes \/ PortalRestarts
  BY <1>3, MeshPublishesNothing, RestartPublishesNothing
<1>4. CASE PublishStarts \/ PublishMembers \/ PublishSecrets \/ PublishPlan \/ PublishFails
  BY <1>4, StepsPublish, PlanPublishes
<1> QED BY <1>1, <1>2, <1>3, <1>4 DEF Next, PortalNext

LEMMA PublishBegins == Init => PublishInv
BY BootStarts DEF Init, NoPub, PublishInv, LastIsLatest, SecretsFirst, MeshKept, LatestPublished

LEMMA Inductive == Spec => [](SaveInv /\ PublishInv)
<1>1. Init => SaveInv /\ PublishInv
  BY SaveStarts, PublishBegins
<1>2. SaveInv /\ PublishInv /\ [Next]_vars => (SaveInv /\ PublishInv)'
  BY SaveStep, PublishStep
<1> QED BY <1>1, <1>2, PTL DEF Spec

\* desired-state.ts, publishDesiredState: once nobody is left to publish, what is published is what
\* is saved, however saves, changes of the mesh, failures and restarts interleaved.
THEOREM LatestIsPublished == Spec => []LatestPublished
<1>1. PublishInv => LatestPublished
  BY DEF PublishInv
<1> QED BY <1>1, Inductive, PTL

\* desired-state.ts, "must not silently empty the mesh policy".
THEOREM PolicyNeverEmptied == Spec => PolicyStays
<1>1. SaveInv /\ PublishInv /\ [Next]_vars => [plan # None /\ plan.mesh # None => plan'.mesh # None]_vars
  <2> SUFFICES ASSUME PublishInv, Next, plan # None, plan.mesh # None PROVE plan'.mesh # None
    OBVIOUS
  <2>1. CASE PublishPlan
    BY <2>1 DEF PublishPlan, Publishing, Rendered, PublishInv, MeshKept
  <2>2. CASE ~PublishPlan
    <3>1. CASE NodeNext \/ HeldExpires
      BY <3>1, NodeUntouched DEF Untouched, published
    <3>2. CASE ~(NodeNext \/ HeldExpires)
      BY <2>2, <3>2 DEF Next, PortalNext, SaveAsked, SaveReads, SaveFails, Persists, MeshChanges, MeshPublishes,
                        PublishStarts, PublishMembers, PublishSecrets, PublishFails, PortalRestarts, published
    <3> QED BY <3>1, <3>2
  <2> QED BY <2>1, <2>2
<1> QED BY <1>1, Inductive, PTL DEF Spec, PolicyStays

-----------------------------------------------------------------------------
\* What runs
Plans == [on : BOOLEAN, doc : {0, 1, None}, tunnel : {0, 1}, mesh : Meshes]
AnyPlan == Plans \cup {None}
Docs == {None} \cup ({0, 1, None} \X Meshes)
Written == {"doc", "mesh"}
Stages == {"none", "load", "render", "compose", "restart", "setup", "mesh", "end"}
Done == {"compose", "restart", "setup", "mesh", "end"}   \* what was rendered is there

NodeTyped ==
  /\ plan \in AnyPlan /\ given \in Meshes
  /\ pub.pc # "none" => pub.copy \in Settings
  /\ pass \in [pc : Stages, seen : AnyPlan, plan : AnyPlan, given : Meshes, changed : SUBSET Written,
               failed : SUBSET {"doc", "mesh", "setup"}]
  /\ pass.pc # "none" => plan \in Plans
  /\ pass.pc \notin {"none", "load"} => pass.plan \in Plans
  /\ applied \in [plan : AnyPlan, retry : BOOLEAN]
  /\ rendered \in [doc : Docs, mesh : Meshes]
  /\ runs \in [app : Meshes, doc : Docs, tunnel : Meshes, mesh : Meshes]
  /\ status \in [plan : AnyPlan, state : {"none", "applying", "ready", "failed"}, failed : SUBSET {"doc", "mesh", "setup"}]
  /\ seen \in [crossed : SUBSET Fields, behind : BOOLEAN, unread : BOOLEAN, rekeyed : BOOLEAN,
               slipped : BOOLEAN, missed : SUBSET Written]
  /\ bounds \in [changes : 0..MaxChanges, mishaps : 0..MaxMishaps]

\* What a pass has rendered is what its plan asks for, and the secrets it read.
PassOK ==
  /\ pass.pc \in Done =>
       /\ pass.plan.on => (pass.given # None /\ rendered.doc = Doc(pass.plan, pass.given))
       /\ pass.plan.mesh # None => rendered.mesh = pass.plan.mesh
       /\ ~seen.rekeyed => pass.given = given
  /\ pass.pc \in Done \ {"compose"} =>
       /\ runs.app = (IF pass.plan.on THEN pass.given ELSE None)
       /\ runs.tunnel = pass.plan.tunnel
  /\ pass.pc \notin {"none", "load"} => status.state # "ready"

\* What is reported as running does, but for a secret that changed since.
ReportOK ==
  status.state = "ready" =>
    /\ status.plan \in Plans /\ runs.tunnel = status.plan.tunnel
    /\ status.plan.mesh # None => rendered.mesh = status.plan.mesh
    /\ ~seen.rekeyed => /\ runs.app = (IF status.plan.on THEN given ELSE None)
                        /\ status.plan.on => (given # None /\ rendered.doc = Doc(status.plan, given))

\* What was written is in use, unless this pass has yet to see to it or an earlier one failed to.
InUse ==
  /\ (runs.app # None /\ "doc" \notin seen.missed /\ ~(pass.pc \in {"compose", "restart"} /\ "doc" \in pass.changed))
       => runs.doc = rendered.doc
  /\ ("mesh" \notin seen.missed /\ ~(pass.pc \in Done \ {"end"} /\ "mesh" \in pass.changed))
       => runs.mesh = rendered.mesh

RunInv == NodeTyped /\ PassOK /\ ReportOK /\ InUse

LEMMA RunBegins == Init => RunInv
<1> SUFFICES ASSUME Init PROVE RunInv
  OBVIOUS
<1>1. MaxChanges \in Nat /\ MaxMishaps \in Nat
  BY DeploymentAssumption
<1>2. NodeTyped
  BY <1>1 DEF Init, NodeTyped, NoPub, NoPass, AnyPlan, Meshes, Docs, Stages, Written
<1>3. PassOK /\ ReportOK /\ InUse
  BY DEF Init, NoPass, PassOK, ReportOK, InUse, Done
<1> QED BY <1>2, <1>3 DEF RunInv

\* The Portal changes the secret only if it says so, and else nothing the reconciler has.
LEMMA PortalLeavesRunning ==
  ASSUME RunInv, UNCHANGED node, plan' \in AnyPlan, given' \in Meshes,
         pub'.pc # "none" => pub'.copy \in Settings, plan \in Plans => plan' \in Plans,
         seen' \in [crossed : SUBSET Fields, behind : BOOLEAN, unread : BOOLEAN, rekeyed : BOOLEAN,
                    slipped : BOOLEAN, missed : SUBSET Written],
         seen'.missed = seen.missed, ~seen'.rekeyed => (given' = given /\ ~seen.rekeyed),
         bounds' \in [changes : 0..MaxChanges, mishaps : 0..MaxMishaps]
  PROVE  RunInv'
<1> USE DEF RunInv, node
<1>1. NodeTyped'
  <2>1. pass'.pc # "none" => plan' \in Plans
    BY DEF NodeTyped
  <2> QED BY <2>1 DEF NodeTyped
<1>2. PassOK'
  BY DEF PassOK
<1>3. ReportOK'
  BY DEF ReportOK
<1>4. InUse'
  BY DEF InUse
<1> QED BY <1>1, <1>2, <1>3, <1>4

\* What the bounds allow.
LEMMA Bounded ==
  ASSUME NodeTyped
  PROVE  /\ Mishap => bounds' \in [changes : 0..MaxChanges, mishaps : 0..MaxMishaps]
         /\ Change => bounds' \in [changes : 0..MaxChanges, mishaps : 0..MaxMishaps]
BY DeploymentAssumption DEF NodeTyped, Mishap, Change

LEMMA RenderedTyped ==
  ASSUME NEW s \in Settings, NEW mesh \in Meshes
  PROVE  Rendered(s, mesh) \in Plans /\ Secrets(s) \in Meshes
BY DEF Rendered, Secrets, Settings, Plans, Meshes

LEMMA PortalKeepsRunning ==
  ASSUME SaveInv, RunInv, PortalNext
  PROVE  RunInv'
<1> DEFINE Same == seen'.missed = seen.missed /\ (~seen'.rekeyed => (given' = given /\ ~seen.rekeyed))
           Typed == seen' \in [crossed : SUBSET Fields, behind : BOOLEAN, unread : BOOLEAN, rekeyed : BOOLEAN,
                               slipped : BOOLEAN, missed : SUBSET Written]
           InBounds == bounds' \in [changes : 0..MaxChanges, mishaps : 0..MaxMishaps]
<1>0. /\ plan \in AnyPlan /\ given \in Meshes /\ bounds \in [changes : 0..MaxChanges, mishaps : 0..MaxMishaps]
      /\ (pub.pc # "none" => pub.copy \in Settings) /\ pub.mesh \in Meshes
      /\ seen \in [crossed : SUBSET Fields, behind : BOOLEAN, unread : BOOLEAN, rekeyed : BOOLEAN,
                   slipped : BOOLEAN, missed : SUBSET Written]
      /\ members \in {0, 1} /\ file \in Settings /\ Current = file
  BY CurrentIsFile DEF RunInv, NodeTyped, SaveInv, Kept
<1>b. (Mishap \/ Change) => InBounds
  BY Bounded DEF RunInv
<1>1. CASE HeldExpires \/ MeshChanges \/ MeshPublishes \/ (\E f \in Fields : SaveAsked(f) \/ SaveReads(f) \/ Persists(f) \/ SaveFails(f))
  <2>1. UNCHANGED <<pub, plan, given, node>>
    BY <1>1 DEF HeldExpires, MeshChanges, MeshPublishes, SaveAsked, SaveReads, Persists, SaveFails, published
  <2>2. InBounds
    BY <1>0, <1>1, <1>b DEF HeldExpires, MeshChanges, MeshPublishes, SaveAsked, SaveReads, Persists, SaveFails
  <2>3. Same /\ Typed
    <3>1. CASE HeldExpires \/ MeshChanges \/ MeshPublishes
      BY <1>0, <2>1, <3>1 DEF HeldExpires, MeshChanges, MeshPublishes
    <3>2. ASSUME NEW f \in Fields, SaveAsked(f) \/ SaveReads(f) \/ Persists(f) \/ SaveFails(f) PROVE Same /\ Typed
      <4>1. CASE SaveAsked(f) \/ SaveFails(f)
        BY <1>0, <2>1, <4>1 DEF SaveAsked, SaveFails
      <4>2. CASE SaveReads(f)
        BY <1>0, <2>1, <4>2 DEF SaveReads
      <4>3. CASE Persists(f)
        BY <1>0, <2>1, <4>3 DEF Persists
      <4> QED BY <3>2, <4>1, <4>2, <4>3
    <3> QED BY <1>1, <3>1, <3>2
  <2> QED BY <1>0, <2>1, <2>2, <2>3, PortalLeavesRunning
<1>2. CASE PublishStarts
  <2>1. pub'.copy \in Settings /\ UNCHANGED <<plan, given, node, seen, bounds>>
    BY <1>0, <1>2 DEF PublishStarts, Wanted, published
  <2> QED BY <1>0, <2>1, PortalLeavesRunning
<1>3. CASE PublishMembers
  <2>1. pub'.copy = pub.copy /\ pub.pc # "none" /\ UNCHANGED <<plan, given, node>>
    BY <1>0, <1>3 DEF PublishMembers, Publishing, published, SaveInv, Kept
  <2>2. Same /\ Typed
    BY <1>0, <1>3, <2>1 DEF PublishMembers
  <2>3. InBounds
    BY <1>0, <1>3, <1>b DEF PublishMembers
  <2> QED BY <1>0, <2>1, <2>2, <2>3, PortalLeavesRunning
<1>4. CASE PublishSecrets
  <2>1. pub'.copy = pub.copy /\ pub.pc # "none" /\ UNCHANGED <<plan, node, bounds>>
    BY <1>0, <1>4 DEF PublishSecrets, Publishing, SaveInv, Kept
  <2>2. given' \in Meshes
    BY <1>0, <1>4, <2>1, RenderedTyped DEF PublishSecrets
  <2>3. Same /\ Typed
    BY <1>0, <1>4 DEF PublishSecrets
  <2> QED BY <1>0, <2>1, <2>2, <2>3, PortalLeavesRunning
<1>5. CASE PublishPlan
  <2>1. plan' \in Plans
    BY <1>0, <1>5, RenderedTyped DEF PublishPlan, Publishing
  <2>2. pub'.pc = "none" /\ UNCHANGED <<given, node, bounds>>
    BY <1>5 DEF PublishPlan, Leaves, NoPub
  <2>3. Same /\ Typed
    BY <1>0, <1>5 DEF PublishPlan
  <2> QED BY <1>0, <2>1, <2>2, <2>3, PortalLeavesRunning DEF AnyPlan
<1>6. CASE PublishFails
  <2>1. pub'.pc = "none" /\ UNCHANGED <<plan, given, node>>
    BY <1>6 DEF PublishFails, Leaves, NoPub, published
  <2>2. Same /\ Typed /\ InBounds
    BY <1>0, <1>6, <1>b, <2>1 DEF PublishFails
  <2> QED BY <1>0, <2>1, <2>2, PortalLeavesRunning
<1>7. CASE PortalRestarts
  <2>1. pub'.pc = "none" /\ UNCHANGED <<plan, given, node, seen>> /\ InBounds
    BY <1>7, <1>b DEF PortalRestarts, NoPub, published
  <2> QED BY <1>0, <2>1, PortalLeavesRunning
<1> QED BY <1>1, <1>2, <1>3, <1>4, <1>5, <1>6, <1>7 DEF PortalNext

-----------------------------------------------------------------------------
\* The reconciler's steps

\* What every one of them leaves alone.
NodeKeeps == UNCHANGED <<plan, given, pub>>

LEMMA NodeLeavesPortal ==
  ASSUME NodeNext
  PROVE  NodeKeeps
BY DEF NodeNext, NodeStep, Looks, Loads, Renders, Composes, Restarts, SetsUp, Reloads, Finishes, NodeRestarts,
       Outside, portal, published, NodeKeeps

LEMMA LooksKeeps ==
  ASSUME RunInv, Looks
  PROVE  RunInv'
<1>1. /\ pass.pc = "none" /\ plan \in Plans
      /\ pass' = [NoPass EXCEPT !.pc = "load", !.seen = plan]
      /\ UNCHANGED <<applied, rendered, runs, status, bounds, seen, plan, given, pub>>
  BY DEF Looks, At, RunInv, NodeTyped, AnyPlan, Outside, portal, published
<1>2. /\ pass'.pc = "load"
      /\ pass' \in [pc : Stages, seen : AnyPlan, plan : AnyPlan, given : Meshes, changed : SUBSET Written,
                    failed : SUBSET {"doc", "mesh", "setup"}]
  BY <1>1 DEF NoPass, Stages, AnyPlan, Meshes
<1>3. NodeTyped'
  BY <1>1, <1>2 DEF RunInv, NodeTyped
<1>4. PassOK' /\ ReportOK' /\ InUse'
  BY <1>1, <1>2 DEF RunInv, PassOK, ReportOK, InUse, Done
<1> QED BY <1>3, <1>4 DEF RunInv

LEMMA LoadsKeeps ==
  ASSUME RunInv, Loads
  PROVE  RunInv'
<1>1. /\ pass.pc = "load" /\ plan \in Plans
      /\ pass' = [pass EXCEPT !.pc = "render", !.plan = plan]
      /\ status' = [plan |-> plan, state |-> "applying", failed |-> {}]
      /\ seen' = [seen EXCEPT !.slipped = plan # pass.seen]
      /\ UNCHANGED <<applied, rendered, runs, bounds, plan, given, pub>>
  BY DEF Loads, At, RunInv, NodeTyped, Outside, portal, published
<1>2. /\ pass'.pc = "render" /\ pass'.plan = plan
      /\ pass' \in [pc : Stages, seen : AnyPlan, plan : AnyPlan, given : Meshes, changed : SUBSET Written,
                    failed : SUBSET {"doc", "mesh", "setup"}]
  BY <1>1 DEF RunInv, NodeTyped, Stages, AnyPlan
<1>3. /\ seen' \in [crossed : SUBSET Fields, behind : BOOLEAN, unread : BOOLEAN, rekeyed : BOOLEAN,
                    slipped : BOOLEAN, missed : SUBSET Written]
      /\ seen'.missed = seen.missed /\ seen'.rekeyed = seen.rekeyed
  BY <1>1 DEF RunInv, NodeTyped
<1>4. /\ status' \in [plan : AnyPlan, state : {"none", "applying", "ready", "failed"}, failed : SUBSET {"doc", "mesh", "setup"}]
      /\ status'.state = "applying"
  BY <1>1 DEF AnyPlan
<1>5. NodeTyped'
  BY <1>1, <1>2, <1>3, <1>4 DEF RunInv, NodeTyped
<1>6. PassOK' /\ ReportOK' /\ InUse'
  BY <1>1, <1>2, <1>3, <1>4 DEF RunInv, PassOK, ReportOK, InUse, Done
<1> QED BY <1>5, <1>6 DEF RunInv

\* A pass that fails leaves what it had changed to be brought about.
LEMMA FailsKeeps ==
  ASSUME RunInv, NEW missed \in SUBSET Written, Fails(missed), NodeKeeps, UNCHANGED <<rendered, runs>>,
         pass.pc \in {"render", "compose"},
         pass.pc = "compose" => missed = pass.changed,
         bounds' \in [changes : 0..MaxChanges, mishaps : 0..MaxMishaps]
  PROVE  RunInv'
<1>1. /\ status' = [plan |-> pass.plan, state |-> "failed", failed |-> {}]
      /\ applied' = [applied EXCEPT !.retry = TRUE] /\ pass' = NoPass
      /\ seen' = [seen EXCEPT !.missed = @ \cup missed, !.rekeyed = @ /\ pass.pc # "render"]
  BY DEF Fails
<1>2. /\ pass'.pc = "none"
      /\ pass' \in [pc : Stages, seen : AnyPlan, plan : AnyPlan, given : Meshes, changed : SUBSET Written,
                    failed : SUBSET {"doc", "mesh", "setup"}]
  BY <1>1 DEF NoPass, Stages, AnyPlan, Meshes
<1>3. /\ seen' \in [crossed : SUBSET Fields, behind : BOOLEAN, unread : BOOLEAN, rekeyed : BOOLEAN,
                    slipped : BOOLEAN, missed : SUBSET Written]
      /\ seen'.missed = seen.missed \cup missed
  BY <1>1 DEF RunInv, NodeTyped
<1>4. /\ status' \in [plan : AnyPlan, state : {"none", "applying", "ready", "failed"}, failed : SUBSET {"doc", "mesh", "setup"}]
      /\ status'.state = "failed" /\ applied' \in [plan : AnyPlan, retry : BOOLEAN]
  BY <1>1 DEF RunInv, NodeTyped
<1>5. NodeTyped'
  BY <1>2, <1>3, <1>4 DEF RunInv, NodeTyped, NodeKeeps
<1>6. PassOK' /\ ReportOK' /\ InUse'
  BY <1>2, <1>3, <1>4 DEF RunInv, PassOK, ReportOK, InUse, Done
<1> QED BY <1>5, <1>6 DEF RunInv

LEMMA RendersKeeps ==
  ASSUME RunInv, Renders
  PROVE  RunInv'
<1> DEFINE p == pass.plan
           doc == IF p.on THEN Doc(p, given) ELSE rendered.doc
           mesh == IF p.mesh = None THEN rendered.mesh ELSE p.mesh
<1>0. pass.pc = "render" /\ p \in Plans /\ given \in Meshes /\ UNCHANGED <<runs, bounds, plan, given, pub>>
  BY DEF Renders, At, RunInv, NodeTyped, Outside, portal, published
<1>1. CASE p.on /\ given = None
  <2>1. Fails({}) /\ UNCHANGED rendered
    BY <1>1 DEF Renders
  <2>2. bounds' \in [changes : 0..MaxChanges, mishaps : 0..MaxMishaps]
    BY <1>0 DEF RunInv, NodeTyped
  <2> QED BY <1>0, <2>1, <2>2, FailsKeeps DEF NodeKeeps
<1>2. CASE ~(p.on /\ given = None)
  <2>1. /\ rendered' = [doc |-> doc, mesh |-> mesh]
        /\ pass' = [pass EXCEPT !.pc = "compose", !.given = given, !.changed =
                      {x \in {"doc", "mesh"} : rendered'[x] # rendered[x]}]
        /\ seen' = [seen EXCEPT !.rekeyed = FALSE]
        /\ UNCHANGED <<applied, status>>
    BY <1>2 DEF Renders
  <2>2. doc \in Docs /\ mesh \in Meshes
    BY <1>0 DEF RunInv, NodeTyped, Docs, Plans, Doc
  <2> DEFINE changed == {x \in {"doc", "mesh"} : rendered'[x] # rendered[x]}
  <2>3. changed \subseteq Written
    BY DEF Written
  <2>4. /\ "doc" \notin changed => rendered'.doc = rendered.doc
        /\ "mesh" \notin changed => rendered'.mesh = rendered.mesh
    OBVIOUS
  <2> HIDE DEF changed
  <2>5. pass' = [pass EXCEPT !.pc = "compose", !.given = given, !.changed = changed]
    BY <2>1 DEF changed
  <2>6. /\ pass' \in [pc : Stages, seen : AnyPlan, plan : AnyPlan, given : Meshes, changed : SUBSET Written,
                      failed : SUBSET {"doc", "mesh", "setup"}]
        /\ pass'.pc = "compose" /\ pass'.given = given /\ pass'.changed = changed /\ pass'.plan = p
    BY <1>0, <2>3, <2>5 DEF RunInv, NodeTyped, Stages
  <2>7. rendered' \in [doc : Docs, mesh : Meshes] /\ rendered'.doc = doc /\ rendered'.mesh = mesh
    BY <2>1, <2>2
  <2>8. /\ seen' \in [crossed : SUBSET Fields, behind : BOOLEAN, unread : BOOLEAN, rekeyed : BOOLEAN,
                      slipped : BOOLEAN, missed : SUBSET Written]
        /\ seen'.missed = seen.missed
    BY <2>1 DEF RunInv, NodeTyped
  <2>9. NodeTyped'
    BY <1>0, <2>1, <2>6, <2>7, <2>8 DEF RunInv, NodeTyped
  <2>10. PassOK'
    BY <1>0, <1>2, <2>1, <2>6, <2>7 DEF RunInv, PassOK, Done
  <2>11. ReportOK'
    BY <1>0, <2>1 DEF RunInv, ReportOK, PassOK
  <2>12. InUse'
    <3>1. /\ (runs.app # None /\ "doc" \notin seen.missed) => runs.doc = rendered.doc
          /\ "mesh" \notin seen.missed => runs.mesh = rendered.mesh
      BY <1>0 DEF RunInv, InUse, Done
    <3>2. /\ (runs.app # None /\ "doc" \notin seen.missed /\ "doc" \notin changed) => runs.doc = rendered'.doc
          /\ ("mesh" \notin seen.missed /\ "mesh" \notin changed) => runs.mesh = rendered'.mesh
      BY <3>1, <2>4
    <3> QED BY <1>0, <2>6, <2>8, <3>2 DEF InUse, Done
  <2> QED BY <2>9, <2>10, <2>11, <2>12 DEF RunInv
<1> QED BY <1>1, <1>2

LEMMA ComposesKeeps ==
  ASSUME RunInv, Composes
  PROVE  RunInv'
<1> DEFINE keeps == pass.plan.on /\ runs.app = pass.given
<1>0. pass.pc = "compose" /\ pass.plan \in Plans /\ UNCHANGED <<rendered, plan, given, pub>>
  BY DEF Composes, At, RunInv, NodeTyped, Outside, portal, published
<1>1. CASE Mishap /\ Fails(pass.changed) /\ UNCHANGED runs
  <2>1. bounds' \in [changes : 0..MaxChanges, mishaps : 0..MaxMishaps] /\ pass.changed \in SUBSET Written
    BY <1>1, Bounded DEF RunInv, NodeTyped
  <2> QED BY <1>0, <1>1, <2>1, FailsKeeps DEF NodeKeeps
<1>2. CASE /\ pass' = [pass EXCEPT !.pc = "restart"]
           /\ runs' = [runs EXCEPT !.app = IF pass.plan.on THEN pass.given ELSE None,
                                   !.doc = IF keeps THEN @ ELSE IF pass.plan.on THEN rendered.doc ELSE None,
                                   !.tunnel = pass.plan.tunnel]
           /\ seen' = [seen EXCEPT !.missed = IF keeps THEN @ ELSE @ \ {"doc"}]
           /\ UNCHANGED <<applied, status, bounds>>
  <2>1. /\ pass' \in [pc : Stages, seen : AnyPlan, plan : AnyPlan, given : Meshes, changed : SUBSET Written,
                      failed : SUBSET {"doc", "mesh", "setup"}]
        /\ pass'.pc = "restart" /\ pass'.given = pass.given /\ pass'.changed = pass.changed /\ pass'.plan = pass.plan
    BY <1>2 DEF RunInv, NodeTyped, Stages
  <2> DEFINE app == IF pass.plan.on THEN pass.given ELSE None
             doc == IF keeps THEN runs.doc ELSE IF pass.plan.on THEN rendered.doc ELSE None
             missed == IF keeps THEN seen.missed ELSE seen.missed \ {"doc"}
  <2>2. app \in Meshes /\ doc \in Docs /\ pass.plan.tunnel \in Meshes /\ missed \in SUBSET Written
    BY <1>0 DEF RunInv, NodeTyped, Meshes, Docs, Plans
  <2>3. (keeps => doc = runs.doc) /\ (~keeps /\ pass.plan.on => doc = rendered.doc) /\ (~pass.plan.on => app = None) /\ (pass.plan.on => app = pass.given)
    OBVIOUS
  <2>4. (keeps => missed = seen.missed) /\ ("mesh" \notin missed => "mesh" \notin seen.missed)
    OBVIOUS
  <2>5. runs' = [runs EXCEPT !.app = app, !.doc = doc, !.tunnel = pass.plan.tunnel] /\ seen' = [seen EXCEPT !.missed = missed]
    BY <1>2
  <2> HIDE DEF app, doc, missed, keeps
  <2>6. /\ runs' \in [app : Meshes, doc : Docs, tunnel : Meshes, mesh : Meshes]
        /\ runs'.app = app /\ runs'.doc = doc /\ runs'.tunnel = pass.plan.tunnel /\ runs'.mesh = runs.mesh
    BY <2>2, <2>5 DEF RunInv, NodeTyped
  <2>7. /\ seen' \in [crossed : SUBSET Fields, behind : BOOLEAN, unread : BOOLEAN, rekeyed : BOOLEAN,
                      slipped : BOOLEAN, missed : SUBSET Written]
        /\ seen'.missed = missed /\ seen'.rekeyed = seen.rekeyed
    BY <2>2, <2>5 DEF RunInv, NodeTyped
  <2>8. NodeTyped'
    BY <1>0, <1>2, <2>1, <2>6, <2>7 DEF RunInv, NodeTyped
  <2>9. PassOK'
    BY <1>0, <1>2, <2>1, <2>3, <2>6, <2>7 DEF RunInv, PassOK, Done
  <2>10. ReportOK'
    BY <1>0, <1>2 DEF RunInv, ReportOK, PassOK
  <2>11. InUse'
    <3>1. (keeps /\ "doc" \notin missed /\ "doc" \notin pass.changed) => doc = rendered.doc
      <4>1. keeps => runs.app # None
        BY <1>0 DEF RunInv, PassOK, Done, keeps
      <4> QED BY <1>0, <2>3, <2>4, <4>1 DEF RunInv, InUse
    <3>2. app # None => pass.plan.on
      BY <2>3
    <3>3. ("mesh" \notin missed /\ "mesh" \notin pass.changed) => runs.mesh = rendered.mesh
      BY <1>0, <2>4 DEF RunInv, InUse, Done
    <3> QED BY <1>0, <2>1, <2>3, <2>6, <2>7, <3>1, <3>2, <3>3 DEF InUse, Done
  <2> QED BY <2>8, <2>9, <2>10, <2>11 DEF RunInv
<1> QED BY <1>1, <1>2 DEF Composes

\* A file is taken up, or that is missed.
LEMMA StepKeeps ==
  ASSUME RunInv, NEW x \in Written, NEW pc \in {"setup", "end"}, NEW done \in BOOLEAN, Step(x, pc, done),
         NodeKeeps, UNCHANGED <<applied, rendered, status>>,
         \/ x = "doc" /\ pass.pc = "restart" /\ pc = "setup" /\ done = ("doc" \in pass.changed /\ pass.plan.on)
         \/ x = "mesh" /\ pass.pc = "mesh" /\ pc = "end" /\ done = ("mesh" \in pass.changed)
  PROVE  RunInv'
<1>0. /\ pass \in [pc : Stages, seen : AnyPlan, plan : AnyPlan, given : Meshes, changed : SUBSET Written,
                   failed : SUBSET {"doc", "mesh", "setup"}]
      /\ runs \in [app : Meshes, doc : Docs, tunnel : Meshes, mesh : Meshes] /\ rendered \in [doc : Docs, mesh : Meshes]
      /\ seen \in [crossed : SUBSET Fields, behind : BOOLEAN, unread : BOOLEAN, rekeyed : BOOLEAN,
                   slipped : BOOLEAN, missed : SUBSET Written]
      /\ pass.plan \in Plans /\ pass.pc \in Done \ {"compose", "end"} /\ x \in {"doc", "mesh"}
  BY DEF RunInv, NodeTyped, Done, Written
<1>1. bounds' \in [changes : 0..MaxChanges, mishaps : 0..MaxMishaps]
  BY Bounded DEF Step, RunInv, NodeTyped
<1>2. /\ pass'.pc = pc /\ pass'.plan = pass.plan /\ pass'.given = pass.given /\ pass'.changed = pass.changed
      /\ pass' \in [pc : Stages, seen : AnyPlan, plan : AnyPlan, given : Meshes, changed : SUBSET Written,
                    failed : SUBSET {"doc", "mesh", "setup"}]
  <2>1. CASE pass' = [pass EXCEPT !.pc = pc]
    BY <1>0, <2>1 DEF Stages
  <2>2. CASE pass' = [pass EXCEPT !.pc = pc, !.failed = @ \cup {x}]
    <3>1. pass.failed \cup {x} \in SUBSET {"doc", "mesh", "setup"}
      BY <1>0
    <3> QED BY <1>0, <2>2, <3>1 DEF Stages
  <2> QED BY <2>1, <2>2 DEF Step
<1>3. /\ runs' \in [app : Meshes, doc : Docs, tunnel : Meshes, mesh : Meshes]
      /\ runs'.app = runs.app /\ runs'.tunnel = runs.tunnel
      /\ x = "doc" => runs'.mesh = runs.mesh
      /\ x = "mesh" => runs'.doc = runs.doc
  BY <1>0 DEF Step
<1>4. /\ seen' \in [crossed : SUBSET Fields, behind : BOOLEAN, unread : BOOLEAN, rekeyed : BOOLEAN,
                    slipped : BOOLEAN, missed : SUBSET Written]
      /\ seen'.rekeyed = seen.rekeyed
      /\ \A y \in {"doc", "mesh"} : y # x => (y \in seen'.missed <=> y \in seen.missed)
  BY <1>0 DEF Step
<1>5. /\ done => (x \in seen'.missed \/ (x = "doc" /\ runs'.doc = rendered.doc) \/ (x = "mesh" /\ runs'.mesh = rendered.mesh))
      /\ ~done => (runs' = runs /\ seen' = seen)
  BY <1>0 DEF Step
<1>6. NodeTyped'
  BY <1>0, <1>1, <1>2, <1>3, <1>4 DEF RunInv, NodeTyped, NodeKeeps
<1>7. PassOK'
  BY <1>0, <1>2, <1>3, <1>4 DEF RunInv, PassOK, Done, NodeKeeps
<1>8. ReportOK'
  BY <1>0 DEF RunInv, ReportOK, PassOK, Done
<1>9. InUse'
  <2>1. /\ (runs.app # None /\ "doc" \notin seen.missed /\ ~(pass.pc = "restart" /\ "doc" \in pass.changed)) => runs.doc = rendered.doc
        /\ ("mesh" \notin seen.missed /\ "mesh" \notin pass.changed) => runs.mesh = rendered.mesh
    BY <1>0 DEF RunInv, InUse, Done
  <2>2. CASE x = "doc"
    <3>1. pass.pc = "restart" /\ pc = "setup" /\ (done <=> ("doc" \in pass.changed /\ pass.plan.on))
      BY <2>2
    <3>2. runs.app # None => pass.plan.on
      BY <3>1 DEF RunInv, PassOK, Done
    <3>3. (runs'.app # None /\ "doc" \notin seen'.missed) => runs'.doc = rendered.doc
      BY <1>3, <1>5, <2>1, <2>2, <3>1, <3>2
    <3>4. ("mesh" \notin seen'.missed /\ "mesh" \notin pass'.changed) => runs'.mesh = rendered.mesh
      BY <1>2, <1>3, <1>4, <2>1, <2>2
    <3> QED BY <1>2, <3>1, <3>3, <3>4 DEF InUse, Done
  <2>3. CASE x = "mesh"
    <3>1. pass.pc = "mesh" /\ pc = "end" /\ (done <=> "mesh" \in pass.changed)
      BY <2>3
    <3>2. "mesh" \notin seen'.missed => runs'.mesh = rendered.mesh
      BY <1>5, <2>1, <2>3, <3>1
    <3>3. (runs'.app # None /\ "doc" \notin seen'.missed) => runs'.doc = rendered.doc
      BY <1>3, <1>4, <2>1, <2>3, <3>1
    <3> QED BY <1>2, <3>1, <3>2, <3>3 DEF InUse, Done
  <2> QED BY <1>0, <2>2, <2>3
<1> QED BY <1>6, <1>7, <1>8, <1>9 DEF RunInv

LEMMA RestartsKeeps ==
  ASSUME RunInv, Restarts
  PROVE  RunInv'
<1> DEFINE done == "doc" \in pass.changed /\ pass.plan.on
<1>1. pass.pc = "restart" /\ Step("doc", "setup", done) /\ UNCHANGED <<applied, rendered, status>> /\ NodeKeeps
  BY NodeLeavesPortal DEF Restarts, At, Stale, NodeNext, NodeStep
<1>2. done \in BOOLEAN
  BY DEF RunInv, NodeTyped, Plans
<1>3. "doc" \in Written
  BY DEF Written
<1> QED BY <1>1, <1>2, <1>3, StepKeeps

LEMMA ReloadsKeeps ==
  ASSUME RunInv, Reloads
  PROVE  RunInv'
<1> DEFINE done == "mesh" \in pass.changed
<1>1. pass.pc = "mesh" /\ Step("mesh", "end", done) /\ UNCHANGED <<applied, rendered, status>> /\ NodeKeeps
  BY NodeLeavesPortal DEF Reloads, At, Stale, NodeNext, NodeStep
<1>2. done \in BOOLEAN
  OBVIOUS
<1>3. "mesh" \in Written
  BY DEF Written
<1> QED BY <1>1, <1>2, <1>3, StepKeeps

LEMMA SetsUpKeeps ==
  ASSUME RunInv, SetsUp
  PROVE  RunInv'
<1>1. pass.pc = "setup" /\ UNCHANGED <<applied, rendered, runs, status, seen, plan, given, pub>>
  BY NodeLeavesPortal DEF SetsUp, At, NodeNext, NodeStep, NodeKeeps
<1>2. /\ pass'.pc = "mesh" /\ pass'.plan = pass.plan /\ pass'.given = pass.given /\ pass'.changed = pass.changed
      /\ pass' \in [pc : Stages, seen : AnyPlan, plan : AnyPlan, given : Meshes, changed : SUBSET Written,
                    failed : SUBSET {"doc", "mesh", "setup"}]
  <2>0. pass \in [pc : Stages, seen : AnyPlan, plan : AnyPlan, given : Meshes, changed : SUBSET Written,
                  failed : SUBSET {"doc", "mesh", "setup"}]
    BY DEF RunInv, NodeTyped
  <2>1. CASE pass' = [pass EXCEPT !.pc = "mesh"]
    BY <2>0, <2>1 DEF Stages
  <2>2. CASE pass' = [pass EXCEPT !.pc = "mesh", !.failed = @ \cup {"setup"}]
    <3>1. pass.failed \cup {"setup"} \in SUBSET {"doc", "mesh", "setup"}
      BY <2>0
    <3> QED BY <2>0, <2>2, <3>1 DEF Stages
  <2> QED BY <2>1, <2>2 DEF SetsUp
<1>3. bounds' \in [changes : 0..MaxChanges, mishaps : 0..MaxMishaps]
  BY Bounded DEF SetsUp, RunInv, NodeTyped
<1>4. NodeTyped'
  BY <1>1, <1>2, <1>3 DEF RunInv, NodeTyped
<1>5. PassOK' /\ ReportOK' /\ InUse'
  BY <1>1, <1>2 DEF RunInv, PassOK, ReportOK, InUse, Done
<1> QED BY <1>4, <1>5 DEF RunInv

\* A pass that ends reports what its plan asked for, and that it runs.
LEMMA FinishesKeeps ==
  ASSUME RunInv, Finishes
  PROVE  RunInv'
<1>1. /\ pass.pc = "end" /\ UNCHANGED <<rendered, runs, bounds, seen, plan, given, pub>> /\ pass' = NoPass
      /\ status' = [plan |-> pass.plan, state |-> "ready", failed |-> pass.failed]
      /\ applied' = [plan |-> pass.seen, retry |-> "setup" \in pass.failed]
  BY NodeLeavesPortal DEF Finishes, Fingerprint, At, NodeNext, NodeStep, NodeKeeps
<1>2. /\ pass'.pc = "none"
      /\ pass' \in [pc : Stages, seen : AnyPlan, plan : AnyPlan, given : Meshes, changed : SUBSET Written,
                    failed : SUBSET {"doc", "mesh", "setup"}]
  BY <1>1 DEF NoPass, Stages, AnyPlan, Meshes
<1>3. /\ status' \in [plan : AnyPlan, state : {"none", "applying", "ready", "failed"}, failed : SUBSET {"doc", "mesh", "setup"}]
      /\ status'.state = "ready" /\ status'.plan = pass.plan /\ applied' \in [plan : AnyPlan, retry : BOOLEAN]
  BY <1>1 DEF RunInv, NodeTyped
<1>4. NodeTyped'
  BY <1>1, <1>2, <1>3 DEF RunInv, NodeTyped
<1>5. PassOK'
  BY <1>2 DEF PassOK, Done
<1>6. ReportOK'
  BY <1>1, <1>3 DEF RunInv, NodeTyped, PassOK, ReportOK, Done
<1>7. InUse'
  BY <1>1, <1>2 DEF RunInv, InUse, Done
<1> QED BY <1>4, <1>5, <1>6, <1>7 DEF RunInv

\* A restart forgets the pass, and with it what that had changed.
LEMMA NodeRestartsKeeps ==
  ASSUME RunInv, NodeRestarts
  PROVE  RunInv'
<1> DEFINE lost == IF pass.pc \in {"compose", "restart"} THEN pass.changed
                   ELSE IF pass.pc \in {"setup", "mesh"} THEN pass.changed \ {"doc"} ELSE {}
<1>1. /\ UNCHANGED <<rendered, runs, status, plan, given, pub>> /\ pass' = NoPass
      /\ applied' = [plan |-> None, retry |-> FALSE]
      /\ seen' = [seen EXCEPT !.missed = @ \cup lost]
      /\ bounds' \in [changes : 0..MaxChanges, mishaps : 0..MaxMishaps]
  BY NodeLeavesPortal, Bounded DEF NodeRestarts, NodeNext, NodeKeeps, RunInv
<1>2. /\ pass'.pc = "none" /\ applied' \in [plan : AnyPlan, retry : BOOLEAN]
      /\ pass' \in [pc : Stages, seen : AnyPlan, plan : AnyPlan, given : Meshes, changed : SUBSET Written,
                    failed : SUBSET {"doc", "mesh", "setup"}]
  BY <1>1 DEF NoPass, Stages, AnyPlan, Meshes
<1>3. /\ lost \in SUBSET Written
      /\ "doc" \notin lost => ~(pass.pc \in {"compose", "restart"} /\ "doc" \in pass.changed)
      /\ "mesh" \notin lost => ~(pass.pc \in Done \ {"end"} /\ "mesh" \in pass.changed)
  BY DEF RunInv, NodeTyped, Done
<1> HIDE DEF lost
<1>4. /\ seen' \in [crossed : SUBSET Fields, behind : BOOLEAN, unread : BOOLEAN, rekeyed : BOOLEAN,
                    slipped : BOOLEAN, missed : SUBSET Written]
      /\ seen'.missed = seen.missed \cup lost /\ seen'.rekeyed = seen.rekeyed
  BY <1>1, <1>3 DEF RunInv, NodeTyped
<1>5. NodeTyped'
  BY <1>1, <1>2, <1>4 DEF RunInv, NodeTyped
<1>6. PassOK' /\ ReportOK'
  BY <1>1, <1>2, <1>4 DEF RunInv, PassOK, ReportOK, Done
<1>7. InUse'
  BY <1>1, <1>2, <1>3, <1>4 DEF RunInv, InUse
<1> QED BY <1>5, <1>6, <1>7 DEF RunInv

LEMMA RunStep ==
  ASSUME SaveInv, RunInv, [Next]_vars
  PROVE  RunInv'
<1>1. CASE PortalNext
  BY <1>1, PortalKeepsRunning
<1>2. CASE Looks \/ Loads \/ Renders \/ Composes
  BY <1>2, LooksKeeps, LoadsKeeps, RendersKeeps, ComposesKeeps
<1>3. CASE Restarts \/ SetsUp \/ Reloads \/ Finishes \/ NodeRestarts
  BY <1>3, RestartsKeeps, SetsUpKeeps, ReloadsKeeps, FinishesKeeps, NodeRestartsKeeps
<1>4. CASE UNCHANGED vars
  <2>1. UNCHANGED <<pub, plan, given, pass, applied, rendered, runs, status, bounds, seen>>
    BY <1>4 DEF vars, portal, published, node
  <2> QED BY <2>1 DEF RunInv, NodeTyped, PassOK, ReportOK, InUse
<1> QED BY <1>1, <1>2, <1>3, <1>4 DEF Next, NodeNext, NodeStep

LEMMA RunInductive == Spec => [](SaveInv /\ RunInv)
<1>1. Init => SaveInv /\ RunInv
  BY SaveStarts, RunBegins
<1>2. SaveInv /\ RunInv /\ [Next]_vars => (SaveInv /\ RunInv)'
  BY SaveStep, RunStep
<1> QED BY <1>1, <1>2, PTL DEF Spec

\* apply.go and watch.go: once the plan that was published is reported as applied, the app, the connector
\* and the policy run as it says, whatever failed or restarted on the way, but for what a pass that was cut
\* short had changed, and for a secret changed by itself.
THEOREM WhatIsReportedRuns == Spec => []ReadyRuns
<1>1. RunInv => ReadyRuns
  <2> SUFFICES ASSUME RunInv, Settled, ~seen.rekeyed PROVE
        /\ runs.app = (IF plan.on THEN given ELSE None) /\ runs.tunnel = plan.tunnel
        /\ plan.on /\ "doc" \notin seen.missed => runs.doc = Doc(plan, given)
        /\ plan.mesh # None /\ "mesh" \notin seen.missed => runs.mesh = plan.mesh
    BY DEF ReadyRuns
  <2>1. pass.pc = "none" /\ status.state = "ready" /\ status.plan = plan
    BY DEF Settled, At
  <2>2. /\ runs.tunnel = plan.tunnel /\ (plan.mesh # None => rendered.mesh = plan.mesh)
        /\ runs.app = (IF plan.on THEN given ELSE None)
        /\ plan.on => (given # None /\ rendered.doc = Doc(plan, given))
    BY <2>1 DEF RunInv, ReportOK
  <2>3. /\ runs.app # None /\ "doc" \notin seen.missed => runs.doc = rendered.doc
        /\ "mesh" \notin seen.missed => runs.mesh = rendered.mesh
    BY <2>1 DEF RunInv, InUse, Done
  <2> QED BY <2>2, <2>3
<1> QED BY <1>1, RunInductive, PTL

-----------------------------------------------------------------------------
\* Types

\* Nobody waits twice for a turn, nor without a save; whoever is to publish is in line.
PlacesOK ==
  /\ \A i, k \in DOMAIN turns : turns[i] = turns[k] => i = k
  /\ \A i \in DOMAIN turns : job[turns[i]].pc # "idle"
  /\ \A j \in Jobs : job[j].pc = "publishes" => \E i \in DOMAIN line : line[i] = j

\* A job goes on without asking to publish, and stays where it waits.
LEMMA GoesOnInPlace ==
  ASSUME Kept, PlacesOK, NEW j \in Jobs, job'[j].pc \in {"waits", "read"}, \A k \in Jobs \ {j} : job'[k] = job[k],
         UNCHANGED <<turns, line>>
  PROVE  PlacesOK'
<1>1. turns \in Seq(InTurn) /\ InTurn \subseteq Jobs
  BY DEF Kept, InTurn, Jobs
<1>2. \A i \in DOMAIN turns : turns[i] \in Jobs
  BY <1>1
<1> QED BY <1>2 DEF PlacesOK

\* A save that begins gets in behind the others.
LEMMA WaitsInPlace ==
  ASSUME Kept, PlacesOK, NEW f \in Fields, SaveAsked(f)
  PROVE  PlacesOK'
<1>1. /\ job[f].pc = "idle" /\ job'[f].pc = "waits" /\ f \in Jobs /\ line' = line
      /\ \A k \in Jobs \ {f} : job'[k] = job[k]
  BY DEF SaveAsked, Kept, Jobs, Idle
<1>2. CASE f \notin InTurn
  BY <1>1, <1>2, GoesOnInPlace DEF SaveAsked
<1>3. CASE f \in InTurn
  <2>1. turns' = Append(turns, f) /\ turns \in Seq(InTurn) /\ InTurn \subseteq Jobs
    BY <1>3 DEF SaveAsked, Kept, InTurn, Jobs
  <2>2. \A i \in DOMAIN turns : turns[i] \in Jobs \ {f}
    BY <1>1, <2>1 DEF PlacesOK
  <2>3. /\ DOMAIN turns' = DOMAIN turns \cup {Len(turns) + 1} /\ turns'[Len(turns) + 1] = f
        /\ \A i \in DOMAIN turns : turns'[i] = turns[i]
    BY <1>3, <2>1, Appended
  <2> QED BY <1>1, <2>2, <2>3 DEF PlacesOK
<1> QED BY <1>2, <1>3

\* One more gets in line to publish.
LEMMA JoinsInPlace ==
  ASSUME Kept, PlacesOK, NEW j \in Jobs, job'[j].pc = "publishes", \A k \in Jobs \ {j} : job'[k] = job[k],
         line' = Append(line, j), turns' = turns
  PROVE  PlacesOK'
<1>1. turns \in Seq(InTurn) /\ InTurn \subseteq Jobs /\ line \in Seq(Jobs)
  BY DEF Kept, InTurn, Jobs
<1>2. \A i \in DOMAIN turns : turns[i] \in Jobs
  BY <1>1
<1>3. /\ DOMAIN line' = DOMAIN line \cup {Len(line) + 1} /\ line'[Len(line) + 1] = j
      /\ \A i \in DOMAIN line : line'[i] = line[i]
  BY <1>1, Appended
<1> QED BY <1>2, <1>3 DEF PlacesOK

\* Whoever leaves had the turn, and nobody else is moved but up.
LEMMA LeavesInPlace ==
  ASSUME SaveInv, PlacesOK, NEW j \in Jobs, job[j].pc \in {"read", "publishes"}, job'[j].pc = "idle",
         \A k \in Jobs \ {j} : job'[k] = job[k], turns' = Turned(j),
         \/ line' = line
         \/ line # <<>> /\ Head(line) = j /\ line' = Tail(line)
  PROVE  PlacesOK'
<1>0. turns \in Seq(InTurn) /\ InTurn \subseteq Jobs /\ line \in Seq(Jobs)
  BY DEF SaveInv, Kept, InTurn, Jobs
<1>1. /\ \A i, k \in DOMAIN turns' : turns'[i] = turns'[k] => i = k
      /\ \A i \in DOMAIN turns' : turns'[i] \in Jobs \ {j} /\ job[turns'[i]].pc # "idle"
  <2>1. CASE j \notin InTurn
    BY <1>0, <2>1 DEF Turned, PlacesOK
  <2>2. CASE j \in InTurn
    <3>1. turns # <<>> /\ turns[1] = j /\ turns' = Tail(turns) /\ 1 \in DOMAIN turns
      BY <1>0, <2>2 DEF SaveInv, TurnsOK, Turned
    <3>2. \A i \in DOMAIN turns' : i \in Nat \ {0} /\ i + 1 \in DOMAIN turns /\ turns'[i] = turns[i + 1]
      BY <1>0, <3>1
    <3>3. ASSUME NEW i \in DOMAIN turns' PROVE turns'[i] \in Jobs \ {j} /\ job[turns'[i]].pc # "idle"
      <4>1. i + 1 # 1 /\ turns[i + 1] \in Jobs
        BY <1>0, <3>2, <3>3
      <4> QED BY <3>1, <3>2, <3>3, <4>1 DEF PlacesOK
    <3>4. ASSUME NEW i \in DOMAIN turns', NEW k \in DOMAIN turns', turns'[i] = turns'[k] PROVE i = k
      <4>1. i + 1 = k + 1
        BY <3>2, <3>4 DEF PlacesOK
      <4> QED BY <3>2, <4>1
    <3> QED BY <3>3, <3>4
  <2> QED BY <2>1, <2>2
<1>2. ASSUME NEW k \in Jobs, job'[k].pc = "publishes" PROVE \E i \in DOMAIN line' : line'[i] = k
  <2>1. k # j /\ job[k].pc = "publishes"
    BY <1>2
  <2>2. PICK i \in DOMAIN line : line[i] = k
    BY <2>1 DEF PlacesOK
  <2>3. CASE line' = line
    BY <2>2, <2>3
  <2>4. CASE line # <<>> /\ Head(line) = j /\ line' = Tail(line)
    <3>1. i # 1 /\ i \in 1..Len(line)
      BY <1>0, <2>1, <2>2, <2>4
    <3>2. i - 1 \in DOMAIN line' /\ line'[i - 1] = k
      BY <1>0, <2>2, <2>4, <3>1
    <3> QED BY <3>2
  <2> QED BY <2>3, <2>4
<1>3. \A i \in DOMAIN turns' : job'[turns'[i]].pc # "idle"
  BY <1>1
<1> QED BY <1>1, <1>2, <1>3 DEF PlacesOK

LEMMA PlacesStep ==
  ASSUME SaveInv, PlacesOK, [Next]_vars
  PROVE  PlacesOK'
<1>0. Kept /\ "vpn" \in Jobs \ Fields /\ Fields \subseteq Jobs
  BY DEF SaveInv, Jobs, Fields
<1>1. CASE NodeNext \/ HeldExpires \/ UNCHANGED vars
  BY <1>1, NodeUntouched DEF Untouched, PlacesOK
<1>2. ASSUME NEW f \in Fields, SaveAsked(f) \/ SaveReads(f) \/ Persists(f) \/ SaveFails(f) PROVE PlacesOK'
  <2>1. CASE SaveAsked(f)
    BY <1>0, <2>1, WaitsInPlace
  <2>2. CASE SaveReads(f)
    <3>1. job'[f].pc = "read" /\ (\A k \in Jobs \ {f} : job'[k] = job[k]) /\ UNCHANGED <<turns, line>>
      BY <1>0, <2>2 DEF SaveReads, Kept
    <3> QED BY <1>0, <3>1, GoesOnInPlace
  <2>3. CASE Persists(f)
    <3>1. /\ job'[f].pc = "publishes" /\ (\A k \in Jobs \ {f} : job'[k] = job[k])
          /\ line' = Append(line, f) /\ turns' = turns
      BY <1>0, <2>3 DEF Persists, Kept
    <3> QED BY <1>0, <3>1, JoinsInPlace
  <2>4. CASE SaveFails(f)
    <3>1. /\ job[f].pc = "read" /\ job'[f].pc = "idle" /\ (\A k \in Jobs \ {f} : job'[k] = job[k])
          /\ line' = line /\ turns' = Turned(f)
      BY <1>0, <2>4 DEF SaveFails, Kept, Idle
    <3> QED BY <1>0, <3>1, LeavesInPlace
  <2> QED BY <1>2, <2>1, <2>2, <2>3, <2>4
<1>3. CASE MeshChanges
  <2>1. job'["vpn"].pc = "read" /\ (\A k \in Jobs \ {"vpn"} : job'[k] = job[k]) /\ UNCHANGED <<turns, line>>
    BY <1>0, <1>3 DEF MeshChanges, Kept
  <2> QED BY <1>0, <2>1, GoesOnInPlace
<1>4. CASE MeshPublishes
  <2>1. /\ job'["vpn"].pc = "publishes" /\ (\A k \in Jobs \ {"vpn"} : job'[k] = job[k])
        /\ line' = Append(line, "vpn") /\ turns' = turns
    BY <1>0, <1>4 DEF MeshPublishes, Kept
  <2> QED BY <1>0, <2>1, JoinsInPlace
<1>5. CASE PublishStarts \/ PublishMembers \/ PublishSecrets
  BY <1>5 DEF PublishStarts, PublishMembers, PublishSecrets, PlacesOK
<1>6. CASE PublishPlan \/ PublishFails
  <2>1. line # <<>> /\ Leaves
    BY <1>6 DEF PublishPlan, PublishFails, Publishing
  <2>2. /\ Publisher \in Jobs /\ job[Publisher].pc = "publishes" /\ job'[Publisher].pc = "idle"
        /\ \A k \in Jobs \ {Publisher} : job'[k] = job[k]
    BY <1>0, <1>6, <2>1, PlanKeeps DEF Leaves, Kept, Idle
  <2>3. turns' = Turned(Publisher) /\ Head(line) = Publisher /\ line' = Tail(line)
    BY <2>1 DEF Leaves, Publisher
  <2> QED BY <2>1, <2>2, <2>3, LeavesInPlace
<1>7. CASE PortalRestarts
  <2>1. turns' = <<>> /\ line' = <<"boot">> /\ \A j \in Jobs : job'[j].pc = "publishes" => j = "boot"
    BY <1>7 DEF PortalRestarts, Idle
  <2> QED BY <2>1, BootStarts DEF PlacesOK
<1> QED BY <1>1, <1>2, <1>3, <1>4, <1>5, <1>6, <1>7 DEF Next, PortalNext

LEMMA Typed ==
  ASSUME SaveInv, PlacesOK, RunInv
  PROVE  TypeOK
<1>1. /\ file \in Settings /\ held \in Settings \cup {None} /\ members \in {0, 1} /\ given \in {0, 1, None}
      /\ plan = None \/ plan.mesh \in {0, 1, None}
  BY DEF SaveInv, Kept, RunInv, NodeTyped, Meshes
<1>2. \A i, k \in DOMAIN turns : turns[i] \in InTurn /\ (turns[i] = turns[k] => i = k)
  <2>1. turns \in Seq(InTurn)
    BY DEF SaveInv, Kept
  <2> QED BY <2>1 DEF PlacesOK
<1>3. \A i, k \in DOMAIN line : line[i] \in Jobs /\ (line[i] = line[k] => i = k)
  <2>1. line \in Seq(Jobs)
    BY DEF SaveInv, Kept
  <2> QED BY <2>1 DEF SaveInv, LineOK
<1>4. \A j \in Jobs : job[j].pc \in {"idle", "waits", "read", "publishes"} /\ job[j].copy \in Settings \cup {None}
  BY DEF SaveInv, Kept, Copies
<1>5. \A j \in Jobs : (job[j].pc = "publishes") = (\E i \in DOMAIN line : line[i] = j)
  BY DEF SaveInv, LineOK, PlacesOK
<1>6. pub.pc \in {"none", "members", "secrets", "plan"} /\ (pub.pc # "none" => line # <<>>)
  BY DEF SaveInv, Kept, LineOK
<1>7. /\ pass.pc \in {"none", "load", "render", "compose", "restart", "setup", "mesh", "end"}
      /\ pass.changed \subseteq {"doc", "mesh"} /\ pass.failed \subseteq {"doc", "mesh", "setup"}
      /\ status.state \in {"none", "applying", "ready", "failed"}
  BY DEF RunInv, NodeTyped, Stages, Written
<1>8. bounds.changes <= MaxChanges /\ bounds.mishaps <= MaxMishaps
  BY DeploymentAssumption DEF RunInv, NodeTyped
<1> QED BY <1>1, <1>2, <1>3, <1>4, <1>5, <1>6, <1>7, <1>8 DEF TypeOK

\* Deployment keeps its types: nobody waits twice for a turn or in line, and whoever is to publish is in line.
THEOREM TypeInvariant == Spec => []TypeOK
<1>1. Init => PlacesOK
  <2> SUFFICES ASSUME Init PROVE PlacesOK
    OBVIOUS
  <2>1. turns = <<>> /\ line = <<"boot">> /\ \A j \in Jobs : job[j].pc = "publishes" => j = "boot"
    BY DEF Init, Idle
  <2> QED BY <2>1, BootStarts DEF PlacesOK
<1>2. SaveInv /\ PlacesOK /\ [Next]_vars => PlacesOK'
  BY PlacesStep
<1>3. SaveInv /\ PlacesOK /\ RunInv => TypeOK
  BY Typed
<1> QED BY <1>1, <1>2, <1>3, RunInductive, PTL DEF Spec
=============================================================================
