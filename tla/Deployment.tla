------------------------------ MODULE Deployment ------------------------------
(***************************************************************************)
(* From Save in the Admin pages to what runs on the server: the settings   *)
(* file and the saves that take turns over it (lib/settings.ts), publishing*)
(* the plan and its secrets (lib/desired-state.ts), and the reconciler     *)
(* that watches the plan and applies it (cli/internal/reconcile).          *)
(*                                                                         *)
(* One app stands for all: on or off, a document it reads as it starts, a  *)
(* secret of its own, and a tunnel beside it.  A job is a save, named by   *)
(* what it changes, a change of who is on the mesh, or the Portal's start. *)
(* "tunnel" is the save a Cloudflare login ends in: it takes no turn.      *)
(***************************************************************************)
EXTENDS Naturals, Sequences, FiniteSets

CONSTANTS
  None,         \* model value: nothing there
  MaxChanges,   \* bound on saves and changes of the mesh
  MaxMishaps    \* bound on steps that fail and restarts

ASSUME DeploymentAssumption == MaxChanges \in Nat /\ MaxMishaps \in Nat /\ None \notin {0, 1}

Fields == {"on", "doc", "secret", "tunnel"}
InTurn == Fields \ {"tunnel"}
Jobs == Fields \cup {"vpn", "boot"}
Settings == [on : BOOLEAN, doc : 0..1, secret : 0..1, tunnel : 0..1]

VARIABLES
  file,       \* settings.json
  held,       \* the copy getPlatformSettings keeps for a while
  turns,      \* settingsTurn: who waits and who has the turn, first
  job,        \* what each job works on: [pc, copy]
  line,       \* who waits to publish and who publishes, first
  pub,        \* the publish under way: [pc, copy, mesh]
  plan,       \* plan.json
  given,      \* secrets.env: the app's secret
  members,    \* who is on the mesh, as the identity provider has it
  pass,       \* the reconciler's pass: [pc, seen, plan, given, changed, failed]
  applied,    \* Watch's applied and nextRetry
  rendered,   \* what the reconciler has written: the document and the policy
  runs,       \* the app's container, the connector and the policy in force
  status,     \* status.json
  bounds,     \* changes and mishaps so far
  seen        \* for the properties: crossed, behind, unread, rekeyed, slipped, missed

portal == <<file, held, turns, job, line, pub>>
published == <<plan, given>>
node == <<pass, applied, rendered, runs, status>>
vars == <<portal, published, members, node, bounds, seen>>

NoPub == [pc |-> "none", copy |-> None, mesh |-> None]
Idle == [pc |-> "idle", copy |-> None]
NoPass == [pc |-> "none", seen |-> None, plan |-> None, given |-> None, changed |-> {}, failed |-> {}]
Doc(p, s) == <<p.doc, s>>

\* renderDeploymentPlan: a secret is a reference only; an app that is off leaves nothing behind.
Rendered(s, mesh) == [on |-> s.on, doc |-> IF s.on THEN s.doc ELSE None, tunnel |-> s.tunnel, mesh |-> mesh]
Secrets(s) == IF s.on THEN s.secret ELSE None

TypeOK ==
  /\ file \in Settings /\ held \in Settings \cup {None}
  /\ \A i, k \in DOMAIN turns : turns[i] \in InTurn /\ (turns[i] = turns[k] => i = k)
  /\ \A i, k \in DOMAIN line : line[i] \in Jobs /\ (line[i] = line[k] => i = k)
  /\ \A j \in Jobs : job[j].pc \in {"idle", "waits", "read", "publishes"} /\ job[j].copy \in Settings \cup {None}
  /\ \A j \in Jobs : (job[j].pc = "publishes") = (\E i \in DOMAIN line : line[i] = j)
  /\ pub.pc \in {"none", "members", "secrets", "plan"} /\ (pub.pc # "none" => line # <<>>)
  /\ plan = None \/ plan.mesh \in {0, 1, None}
  /\ given \in {0, 1, None} /\ members \in {0, 1}
  /\ pass.pc \in {"none", "load", "render", "compose", "restart", "setup", "mesh", "end"}
  /\ pass.changed \subseteq {"doc", "mesh"} /\ pass.failed \subseteq {"doc", "mesh", "setup"}
  /\ status.state \in {"none", "applying", "ready", "failed"}
  /\ bounds.changes <= MaxChanges /\ bounds.mishaps <= MaxMishaps

\* The app has been set up and runs; the Portal starts.
Start == [on |-> TRUE, doc |-> 0, secret |-> 0, tunnel |-> 0]
Init ==
  /\ file = Start /\ held = None /\ turns = <<>> /\ line = <<"boot">> /\ pub = NoPub
  /\ job = [j \in Jobs |-> IF j = "boot" THEN [pc |-> "publishes", copy |-> Start] ELSE Idle]
  /\ plan = None /\ given = None /\ members = 0
  /\ pass = NoPass /\ applied = [plan |-> None, retry |-> FALSE]
  /\ rendered = [doc |-> None, mesh |-> None]
  /\ runs = [app |-> None, doc |-> None, tunnel |-> None, mesh |-> None]
  /\ status = [plan |-> None, state |-> "none", failed |-> {}]
  /\ bounds = [changes |-> 0, mishaps |-> 0]
  /\ seen = [crossed |-> {}, behind |-> FALSE, unread |-> FALSE, rekeyed |-> FALSE, slipped |-> FALSE,
            missed |-> {}]

Mishap == bounds.mishaps < MaxMishaps /\ bounds' = [bounds EXCEPT !.mishaps = @ + 1]
Change == bounds.changes < MaxChanges /\ bounds' = [bounds EXCEPT !.changes = @ + 1]

-----------------------------------------------------------------------------
(***************************************************************************)
(* Saving.                                                                 *)
(***************************************************************************)

\* getPlatformSettings: one read serves everyone for a while.
Current == IF held = None THEN file ELSE held
Reads == held' = Current
HeldExpires == held # None /\ held' = None /\ UNCHANGED <<file, turns, job, line, pub, published, members, node, bounds, seen>>

\* Mutant: a save does not wait for its turn.
MayRead_Now(f) == job[f].pc = "waits"

MayRead(f) == job[f].pc = "waits" /\ (f \in InTurn => Head(turns) = f)

SaveAsked(f) ==
  /\ job[f] = Idle /\ Change
  /\ job' = [job EXCEPT ![f].pc = "waits"]
  /\ turns' = IF f \in InTurn THEN Append(turns, f) ELSE turns
  /\ UNCHANGED <<file, held, line, pub, published, members, node, seen>>

\* Every save begins by reading what is saved.
SaveReads(f) ==
  /\ MayRead(f) /\ Reads
  /\ job' = [job EXCEPT ![f] = [pc |-> "read", copy |-> Current]]
  /\ seen' = [seen EXCEPT !.crossed = @ \ {f}]
  /\ UNCHANGED <<file, turns, line, pub, published, members, node, bounds>>

Changed(f, copy) == [copy EXCEPT ![f] = IF f = "on" THEN ~@ ELSE 1 - @]

\* Whoever has the turn is first, and leaves.
Turned(f) == IF f \in InTurn THEN Tail(turns) ELSE turns

forgetSettings == held' = None

\* persist: the file is swapped in whole, the copy dropped, and the publish asked for.
Persists(f) ==
  /\ job[f].pc = "read"
  /\ file' = Changed(f, job[f].copy) /\ forgetSettings
  /\ job' = [job EXCEPT ![f] = [pc |-> "publishes", copy |-> file']]
  /\ line' = Append(line, f)
  /\ seen' = [seen EXCEPT !.crossed = @ \cup {g \in Fields : job[g].pc = "read" /\ (f = "tunnel" \/ g = "tunnel")}]
  /\ UNCHANGED <<turns, pub, published, members, node, bounds>>

\* A form is refused, or the write fails: nothing is saved.
SaveFails(f) ==
  /\ job[f].pc = "read" /\ Mishap
  /\ job' = [job EXCEPT ![f] = Idle] /\ turns' = Turned(f)
  /\ UNCHANGED <<file, held, line, pub, published, members, node, seen>>

\* The pages that let people on the mesh, or a guest in, change the provider, read the settings and
\* publish; saving backups reads, checks the form and publishes, with no change of the mesh.
MeshChanges ==
  /\ job["vpn"] = Idle /\ Change
  /\ members' \in {0, 1}
  /\ Reads /\ job' = [job EXCEPT !["vpn"] = [pc |-> "read", copy |-> Current]]
  /\ UNCHANGED <<file, turns, line, pub, published, node, seen>>

MeshPublishes ==
  /\ job["vpn"].pc = "read"
  /\ job' = [job EXCEPT !["vpn"].pc = "publishes"] /\ line' = Append(line, "vpn")
  /\ UNCHANGED <<file, held, turns, pub, published, members, node, bounds, seen>>

-----------------------------------------------------------------------------
(***************************************************************************)
(* Publishing, one at a time.                                              *)
(***************************************************************************)

Publisher == Head(line)
Publishing(pc) == line # <<>> /\ pub.pc = pc

\* Mutant: what the caller handed over is published.
Wanted_Handed == job[Publisher].copy

\* The settings as they are when its turn comes.
Wanted == Current

PublishStarts ==
  /\ Publishing("none") /\ Reads
  /\ pub' = [pc |-> "members", copy |-> Wanted, mesh |-> None]
  /\ UNCHANGED <<file, turns, job, line, published, members, node, bounds, seen>>

previousMeshPolicy == IF plan = None THEN None ELSE plan.mesh

\* A provider that can't be reached leaves the policy that was published.
PublishMembers ==
  /\ Publishing("members")
  /\ \/ pub' = [pub EXCEPT !.pc = "secrets", !.mesh = members]
        /\ seen' = [seen EXCEPT !.unread = FALSE] /\ UNCHANGED bounds
     \/ Mishap /\ pub' = [pub EXCEPT !.pc = "secrets", !.mesh = previousMeshPolicy]
        /\ seen' = [seen EXCEPT !.unread = TRUE]
  /\ UNCHANGED <<file, held, turns, job, line, published, members, node>>

\* The values travel beside the plan and are written first.
PublishSecrets ==
  /\ Publishing("secrets")
  /\ given' = Secrets(pub.copy) /\ pub' = [pub EXCEPT !.pc = "plan"]
  /\ seen' = [seen EXCEPT !.rekeyed = @ \/ given' # given]
  /\ UNCHANGED <<file, held, turns, job, line, plan, members, node, bounds>>

Leaves ==
  /\ pub' = NoPub /\ line' = Tail(line)
  /\ job' = [job EXCEPT ![Publisher] = Idle] /\ turns' = Turned(Publisher)

PublishPlan ==
  /\ Publishing("plan")
  /\ plan' = Rendered(pub.copy, pub.mesh) /\ Leaves
  /\ seen' = [seen EXCEPT !.behind = FALSE]
  /\ UNCHANGED <<file, held, given, members, node, bounds>>

\* Any step of it may fail: the save is told, and what was saved stays saved.
PublishFails ==
  /\ line # <<>> /\ pub.pc # "none" /\ Mishap /\ Leaves
  /\ seen' = [seen EXCEPT !.behind = TRUE]
  /\ UNCHANGED <<file, held, published, members, node>>

\* register: a Portal that starts publishes what is saved.
PortalRestarts ==
  /\ Mishap
  /\ held' = None /\ turns' = <<>> /\ line' = <<"boot">> /\ pub' = NoPub
  /\ job' = [j \in Jobs |-> IF j = "boot" THEN [pc |-> "publishes", copy |-> file] ELSE Idle]
  /\ UNCHANGED <<file, published, members, node, seen>>

PortalNext ==
  \/ HeldExpires \/ MeshChanges \/ MeshPublishes \/ PublishStarts \/ PublishMembers \/ PublishSecrets \/ PublishPlan
  \/ PublishFails \/ PortalRestarts
  \/ \E f \in Fields : SaveAsked(f) \/ SaveReads(f) \/ Persists(f) \/ SaveFails(f)

-----------------------------------------------------------------------------
(***************************************************************************)
(* The reconciler.                                                         *)
(***************************************************************************)

Outside == UNCHANGED <<portal, published, members>>
At(pc) == pass.pc = pc

\* Watch: a plan that is new to it, or the time to try again.
Looks ==
  /\ At("none") /\ plan # None
  /\ plan # applied.plan \/ applied.retry
  /\ pass' = [NoPass EXCEPT !.pc = "load", !.seen = plan]
  /\ UNCHANGED <<applied, rendered, runs, status, bounds, seen>> /\ Outside

\* Apply reads the plan again by itself.
Loads ==
  /\ At("load")
  /\ pass' = [pass EXCEPT !.pc = "render", !.plan = plan]
  /\ status' = [plan |-> plan, state |-> "applying", failed |-> {}]
  /\ seen' = [seen EXCEPT !.slipped = plan # pass.seen]
  /\ UNCHANGED <<applied, rendered, runs, bounds>> /\ Outside

\* A pass that fails is tried again; what it had changed is not known to the next.
Fails(missed) ==
  /\ status' = [plan |-> pass.plan, state |-> "failed", failed |-> {}]
  /\ applied' = [applied EXCEPT !.retry = TRUE] /\ pass' = NoPass
  /\ seen' = [seen EXCEPT !.missed = @ \cup missed, !.rekeyed = @ /\ pass.pc # "render"]

\* Render: the secrets as they are now; files are written where they differ.
Renders ==
  /\ At("render")
  /\ LET p == pass.plan
         doc == IF p.on THEN Doc(p, given) ELSE rendered.doc
         mesh == IF p.mesh = None THEN rendered.mesh ELSE p.mesh
     IN IF p.on /\ given = None THEN Fails({}) /\ UNCHANGED rendered
        ELSE /\ rendered' = [doc |-> doc, mesh |-> mesh]
             /\ pass' = [pass EXCEPT !.pc = "compose", !.given = given, !.changed =
                           {x \in {"doc", "mesh"} : rendered'[x] # rendered[x]}]
             /\ seen' = [seen EXCEPT !.rekeyed = FALSE]
             /\ UNCHANGED <<applied, status>>
  /\ UNCHANGED <<runs, bounds>> /\ Outside

\* docker compose up: a container is made again when its definition differs, and reads its document then.
Composes ==
  /\ At("compose")
  /\ \/ /\ pass' = [pass EXCEPT !.pc = "restart"]
        /\ LET keeps == pass.plan.on /\ runs.app = pass.given
           IN /\ runs' = [runs EXCEPT !.app = IF pass.plan.on THEN pass.given ELSE None,
                                      !.doc = IF keeps THEN @ ELSE IF pass.plan.on THEN rendered.doc ELSE None,
                                      !.tunnel = pass.plan.tunnel]
              /\ seen' = [seen EXCEPT !.missed = IF keeps THEN @ ELSE @ \ {"doc"}]
        /\ UNCHANGED <<applied, status, bounds>>
     \/ Mishap /\ Fails(pass.changed) /\ UNCHANGED runs
  /\ UNCHANGED rendered /\ Outside

\* Mutant: nothing is restarted for a file it reads.
Stale_Nothing == {}

\* restartStaleServices, and the mesh's reload: for what this pass rewrote.
Stale == pass.changed

\* A step that fails is reported and not tried again.
Step(x, pc, done) ==
  \/ /\ pass' = [pass EXCEPT !.pc = pc]
     /\ runs' = IF done THEN [runs EXCEPT ![x] = rendered[x]] ELSE runs
     /\ seen' = IF done THEN [seen EXCEPT !.missed = @ \ {x}] ELSE seen
     /\ UNCHANGED bounds
  \/ /\ done /\ Mishap
     /\ pass' = [pass EXCEPT !.pc = pc, !.failed = @ \cup {x}]
     /\ seen' = [seen EXCEPT !.missed = @ \cup {x}]
     /\ UNCHANGED runs

Restarts == At("restart") /\ Step("doc", "setup", "doc" \in Stale /\ pass.plan.on)
            /\ UNCHANGED <<applied, rendered, status>> /\ Outside

\* runBootstraps: an app that is still starting is tried again.
SetsUp ==
  /\ At("setup")
  /\ \/ pass' = [pass EXCEPT !.pc = "mesh"] /\ UNCHANGED bounds
     \/ pass.plan.on /\ Mishap /\ pass' = [pass EXCEPT !.pc = "mesh", !.failed = @ \cup {"setup"}]
  /\ UNCHANGED <<applied, rendered, runs, status, seen>> /\ Outside

Reloads == At("mesh") /\ Step("mesh", "end", "mesh" \in Stale)
           /\ UNCHANGED <<applied, rendered, status>> /\ Outside

\* Mutant: what is on disk when the pass ends counts as applied.
Fingerprint_After == plan

Fingerprint == pass.seen

Finishes ==
  /\ At("end")
  /\ status' = [plan |-> pass.plan, state |-> "ready", failed |-> pass.failed]
  /\ applied' = [plan |-> Fingerprint, retry |-> "setup" \in pass.failed]
  /\ pass' = NoPass
  /\ UNCHANGED <<rendered, runs, bounds, seen>> /\ Outside

NodeRestarts ==
  /\ Mishap /\ pass' = NoPass /\ applied' = [plan |-> None, retry |-> FALSE]
  /\ seen' = [seen EXCEPT !.missed = @ \cup IF pass.pc \in {"compose", "restart"} THEN pass.changed
                                            ELSE IF pass.pc \in {"setup", "mesh"} THEN pass.changed \ {"doc"} ELSE {}]
  /\ UNCHANGED <<rendered, runs, status>> /\ Outside

NodeStep == Looks \/ Loads \/ Renders \/ Composes \/ Restarts \/ SetsUp \/ Reloads \/ Finishes
NodeNext == NodeStep \/ NodeRestarts

Next == PortalNext \/ NodeNext

\* Promises that settle go on, and Watch loops for as long as the reconciler runs.
Spec == Init /\ [][Next]_vars
        /\ WF_vars(PublishStarts \/ PublishMembers \/ PublishSecrets \/ PublishPlan) /\ WF_vars(NodeStep)
        /\ \A f \in Fields : WF_vars(SaveReads(f) \/ Persists(f))

-----------------------------------------------------------------------------
(***************************************************************************)
(* Properties.                                                             *)
(***************************************************************************)

\* settings.ts, "Read, change and write the settings with no other change in between": a save leaves
\* what others saved as it is, unless a login's save came between.
Saves(f) == job[f].pc = "read" /\ job'[f].pc = "publishes"
NothingUndone == [][\A f \in Fields : Saves(f) /\ f \notin seen.crossed =>
                      \A g \in Fields \ {f} : file'[g] = file[g]]_vars

\* desired-state.ts, "a publish that began earlier can't finish last with what it read then": when
\* nobody is left to publish, or has yet to, and the last one didn't fail, what is published is what is saved.
LatestPublished ==
  line = <<>> /\ job["vpn"] = Idle /\ ~seen.behind =>
    given = Secrets(file) /\ plan = Rendered(file, IF seen.unread THEN plan.mesh ELSE members)

\* desired-state.ts, "must not silently empty the mesh policy".
PolicyStays == [][plan # None /\ plan.mesh # None => plan'.mesh # None]_vars

Settled == At("none") /\ status.state = "ready" /\ applied.plan = plan /\ status.plan = plan

\* apply.go: what is reported as running runs as published, but for what an earlier pass changed and
\* could not bring about, and for a secret changed by itself.
ReadyRuns ==
  Settled /\ ~seen.rekeyed =>
    /\ runs.app = (IF plan.on THEN given ELSE None) /\ runs.tunnel = plan.tunnel
    /\ plan.on /\ "doc" \notin seen.missed => runs.doc = Doc(plan, given)
    /\ plan.mesh # None /\ "mesh" \notin seen.missed => runs.mesh = plan.mesh

\* watch.go, "an administrator only ever presses Save in the Portal": whatever fails on the way, saves
\* that wait for those before them and hold their turn while they publish are answered, and the plan
\* last published is applied in the end, unless Apply read another plan than Watch had seen (the
\* one Watch saw may come back, and counts as applied).
Converges ==
  /\ []<>(\A f \in Fields : job[f] = Idle)
  /\ <>[](seen.behind \/ seen.slipped \/ (status.state = "ready" /\ status.plan = plan))

\* watch.go, the same sentence at its word: a secret that was saved comes to be what the app runs with.
SecretsArrive == <>[](seen.behind \/ (plan # None /\ (plan.on => runs.app = given)))
=============================================================================
