---------------------------- MODULE SandboxSleep ----------------------------
(***************************************************************************)
(* The life of the agent sandboxes of one node (cli/internal/sandbox):     *)
(* API calls that wake a sandbox, the sweep that puts quiet ones to sleep, *)
(* the caps on how many are awake, deletion, and the node restarting.      *)
(*                                                                         *)
(* Calls are goroutines serving one request each; the sweep is one more.   *)
(* They interleave between any two Docker commands and any two critical    *)
(* sections of s.mu, w.op, s.room and the per-sandbox wake locks.  Docker  *)
(* is modelled from the commands the node runs.                            *)
(***************************************************************************)
EXTENDS Naturals, FiniteSets

CONSTANTS
  Sandboxes,     \* workspace ids
  Chats,         \* the ones with no repository
  People,        \* who they belong to
  Owner,         \* [Sandboxes -> People]
  Calls,         \* requests the node serves at once
  Kinds,         \* what happens in an instance: kinds of request, and the sweep
  PerPerson,     \* Limits.AwakePerPerson
  PerNode,       \* Limits.AwakePerNode
  PauseAfter, StopAfter, RemoveAfter, ForgetAfter,
  MaxQuiet,      \* bound: quiet times saturate here
  MaxRestarts,   \* bound on node restarts
  DockerFails,   \* whether docker run and docker start may fail
  None, Sweeper

ASSUME SleepAssumption ==
  /\ IsFiniteSet(Sandboxes)
  /\ Chats \subseteq Sandboxes
  /\ Owner \in [Sandboxes -> People]
  /\ Kinds \subseteq {"ensure", "turn", "file", "delete", "sweep"}
  /\ PerPerson \in Nat \ {0} /\ PerNode \in Nat \ {0}
  /\ PauseAfter \in Nat \ {0} /\ StopAfter \in Nat /\ PauseAfter <= StopAfter
  /\ RemoveAfter \in Nat /\ ForgetAfter \in Nat /\ MaxQuiet \in Nat
  /\ RemoveAfter = 0 \/ StopAfter <= RemoveAfter
  /\ ForgetAfter = 0 \/ RemoveAfter <= ForgetAfter
  /\ MaxRestarts \in Nat
  /\ DockerFails \in BOOLEAN
  /\ None \notin Sandboxes \cup Calls \cup People
  /\ Sweeper \notin Calls /\ Sweeper # None

VARIABLES
  container,  \* docker ps: each sandbox's container
  volume,     \* its volume: none, empty (just made) or filled with what was synced in
  record,     \* s.records, as kept in sandboxes.json
  quiet,      \* how long since the latest of record.Last and workspace.lastActive
  saved,      \* how long since record.Last alone: what a restart knows
  space,      \* s.spaces: none, known (no credentials) or ensured
  busy,       \* workspace.busy
  fresh,      \* workspace.fresh
  op,         \* holder of workspace.op
  wakeLock,   \* holder of s.wakeLocks[id]
  room,       \* holder of s.room
  call,       \* the requests being served
  sweep,      \* the sweep under way
  synced,     \* Portal: what it has synced into the sandbox, as its database says
  deleted,    \* Portal: the workspace's row is gone, so nothing asks for it again
  restarts

docker == <<container, volume>>
known  == <<record, quiet, saved>>
spaces == <<space, busy, fresh>>
locks  == <<op, wakeLock, room>>
portal == <<synced, deleted>>
vars   == <<docker, known, spaces, locks, call, sweep, portal, restarts>>

Ages == 0..MaxQuiet

\* A request not being served.  "evict" is what makeRoom still has to stop,
\* "victim" the one it is stopping, "job" how the container comes back,
\* "dead" that the workspace it holds was taken out of s.spaces by a delete.
Resting == [kind |-> "none", pc |-> "idle", id |-> None, job |-> "none",
            evict |-> {}, victim |-> None, dead |-> FALSE, fresh |-> FALSE]

SweepRest == [pc |-> "rest", left |-> {}, found |-> [s \in Sandboxes |-> "none"],
              id |-> None, action |-> "stay"]

Awake == {s \in Sandboxes : container[s] \in {"running", "paused"}}

\* A turn's agent is at work in the sandbox.
Working(s) == \E c \in Calls : call[c].pc = "turn" /\ call[c].id = s

\* Whether waking a removed sandbox knows its repository, and whose it is.
HasRepo(s) == record[s] \in {"label", "ensured"} /\ s \notin Chats
OwnerOf(s) == IF record[s] = "ensured" THEN Owner[s] ELSE None

----------------------------------------------------------------------------
\* Pure policy

\* Mutant: the running case forgets that a container may be old enough to remove.
decide_RunningStays(state, isBusy, age) ==
  LET removable == RemoveAfter > 0 /\ age >= RemoveAfter
  IN  IF isBusy THEN "stay"
      ELSE CASE state \in {"paused", "exited"} /\ removable -> "remove"
             [] state \in {"running", "paused"} /\ ~removable /\ age >= StopAfter -> "stop"
             [] state = "running" /\ ~removable /\ age < StopAfter /\ age >= PauseAfter -> "pause"
             [] OTHER -> "stay"

decide(state, isBusy, age) ==
  LET removable == RemoveAfter > 0 /\ age >= RemoveAfter
  IN  IF isBusy THEN "stay"
      ELSE CASE state \in {"running", "paused", "exited"} /\ removable -> "remove"
             [] state \in {"running", "paused"} /\ ~removable /\ age >= StopAfter -> "stop"
             [] state = "running" /\ ~removable /\ age < StopAfter /\ age >= PauseAfter -> "pause"
             [] OTHER -> "stay"

\* Mutant: room for as many as the limit, not one fewer.
Takes_OffByOne(cands, chosen, limit) ==
  LET held  == cands \ chosen
      spare == {s \in held : ~busy[s]}
      need  == IF Cardinality(held) <= limit THEN 0 ELSE Cardinality(held) - limit
  IN  {E \in SUBSET spare : /\ Cardinality(E) = need
                            /\ \A e \in E, k \in spare \ E : quiet[e] >= quiet[k]}

\* The ways take() may put enough of cands to sleep to leave fewer than limit
\* awake, given those already chosen: the least recently used that are not
\* busy.  Empty when it cannot.  Equal quiet times leave the choice open.
Takes(cands, chosen, limit) ==
  LET held  == cands \ chosen
      spare == {s \in held : ~busy[s]}
      need  == IF Cardinality(held) < limit THEN 0 ELSE Cardinality(held) - limit + 1
  IN  {E \in SUBSET spare : /\ Cardinality(E) = need
                            /\ \A e \in E, k \in spare \ E : quiet[e] >= quiet[k]}

\* planRoom: what makeRoom may stop so that s can wake; empty when refused.
planRoom(s) ==
  LET others == Awake \ {s}
      mine   == {o \in others : OwnerOf(o) = OwnerOf(s)}
      person == IF OwnerOf(s) = None THEN {{}} ELSE Takes(mine, {}, PerPerson)
  IN  UNION {{P \cup E : E \in Takes(others, P, PerNode)} : P \in person}

----------------------------------------------------------------------------
\* Shared pieces of the requests

Goto(c, pc) == call' = [call EXCEPT ![c].pc = pc]
End(c)      == call' = [call EXCEPT ![c] = Resting]

Without(holder, c) == [s \in Sandboxes |-> IF holder[s] = c THEN None ELSE holder[s]]
ReleaseWake(c) == /\ wakeLock' = Without(wakeLock, c)
                  /\ room' = IF room = c THEN None ELSE room
ReleaseAll(c)  == ReleaseWake(c) /\ op' = Without(op, c)

\* The request returns an error: every deferred Unlock runs.
Fail(c) == /\ End(c)
           /\ ReleaseAll(c)
           /\ UNCHANGED <<docker, known, spaces, sweep, portal, restarts>>

Begin(c, s, kind, pc) ==
  /\ kind \in Kinds
  /\ call[c].pc = "idle"
  /\ ~deleted[s]
  /\ call' = [call EXCEPT ![c] = [Resting EXCEPT !.kind = kind, !.pc = pc, !.id = s]]

----------------------------------------------------------------------------
\* Ensure, turns and every call that needs the container

EnsureStart(c, s) ==
  /\ Begin(c, s, "ensure", "op")
  /\ space' = [space EXCEPT ![s] = IF @ = "none" THEN "known" ELSE @]
  /\ UNCHANGED <<docker, known, busy, fresh, locks, sweep, portal, restarts>>

\* Under w.op: credentials in, and remember().
EnsureRemember(c) ==
  LET s == call[c].id IN
  /\ call[c].pc = "op"
  /\ IF call[c].dead THEN UNCHANGED <<space, op>>
     ELSE /\ op[s] = None
          /\ op' = [op EXCEPT ![s] = c]
          /\ space' = [space EXCEPT ![s] = "ensured"]
  /\ record' = [record EXCEPT ![s] = "ensured"]
  /\ quiet' = [quiet EXCEPT ![s] = 0]
  /\ saved' = [saved EXCEPT ![s] = 0]
  /\ Goto(c, "lock")
  /\ UNCHANGED <<docker, busy, fresh, wakeLock, room, sweep, portal, restarts>>

\* remembered() for a turn; every other workspace call goes straight to running().
TurnStart(c, s) ==
  /\ space[s] = "ensured"
  /\ Begin(c, s, "turn", "lock")
  /\ UNCHANGED <<docker, known, spaces, locks, sweep, portal, restarts>>

FileStart(c, s) ==
  /\ Begin(c, s, "file", "lock")
  /\ UNCHANGED <<docker, known, spaces, locks, sweep, portal, restarts>>

\* wakeFor: the wake lock, then touch().
WakeLock(c) ==
  LET s == call[c].id IN
  /\ call[c].pc = "lock"
  /\ wakeLock[s] = None
  /\ wakeLock' = [wakeLock EXCEPT ![s] = c]
  /\ record' = [record EXCEPT ![s] = IF @ = "none" THEN "blank" ELSE @]
  /\ quiet' = [quiet EXCEPT ![s] = 0]
  /\ saved' = [saved EXCEPT ![s] = 0]
  /\ Goto(c, "look")
  /\ UNCHANGED <<docker, spaces, op, room, sweep, portal, restarts>>

\* Running already, or paused: a paused sandbox holds its slot, so it only thaws.
WakeAwake(c) ==
  LET s == call[c].id IN
  /\ call[c].pc = "look"
  /\ container[s] \in {"running", "paused"}
  /\ container' = [container EXCEPT ![s] = "running"]
  /\ Goto(c, "woken")
  /\ ReleaseWake(c)
  /\ UNCHANGED <<volume, known, spaces, op, sweep, portal, restarts>>

\* Mutant: a removed sandbox is made again without looking for its volume.
WakeAsleep_AnyVolume(c) ==
  LET s == call[c].id IN
  /\ call[c].pc = "look"
  /\ container[s] = "exited" \/ (container[s] = "none" /\ HasRepo(s))
  /\ call' = [call EXCEPT ![c].pc = "room",
                          ![c].job = IF container[s] = "none" THEN "create" ELSE "start"]
  /\ UNCHANGED <<docker, known, spaces, locks, sweep, portal, restarts>>

\* Stopped, or removed while quiet with its files kept: it needs a slot.
WakeAsleep(c) ==
  LET s == call[c].id IN
  /\ call[c].pc = "look"
  /\ \/ container[s] = "exited"
     \/ container[s] = "none" /\ HasRepo(s) /\ volume[s] # "none"
  /\ call' = [call EXCEPT ![c].pc = "room",
                          ![c].job = IF container[s] = "none" THEN "create" ELSE "start"]
  /\ UNCHANGED <<docker, known, spaces, locks, sweep, portal, restarts>>

\* Nothing to wake: 404.  Only ensure goes on, and makes a sandbox from
\* nothing, without the wake lock.
Gone(s) == container[s] = "none" /\ ~(HasRepo(s) /\ volume[s] # "none")

WakeGone(c) ==
  /\ call[c].pc = "look"
  /\ Gone(call[c].id)
  /\ IF call[c].kind = "ensure"
     THEN /\ call' = [call EXCEPT ![c].pc = "room", ![c].job = "scratch"]
          /\ ReleaseWake(c)
          /\ UNCHANGED <<docker, known, spaces, op, sweep, portal, restarts>>
     ELSE Fail(c)

\* Mutant: s.room is not held while room is made.
RoomLock_Shared(c) ==
  /\ call[c].pc = "room"
  /\ room' = c
  /\ Goto(c, "plan")
  /\ UNCHANGED <<docker, known, spaces, op, wakeLock, sweep, portal, restarts>>

RoomLock(c) ==
  /\ call[c].pc = "room"
  /\ room = None
  /\ room' = c
  /\ Goto(c, "plan")
  /\ UNCHANGED <<docker, known, spaces, op, wakeLock, sweep, portal, restarts>>

\* makeRoom reads who is awake and who is busy, and chooses.
MakeRoom(c) ==
  /\ call[c].pc = "plan"
  /\ \E E \in planRoom(call[c].id) :
       call' = [call EXCEPT ![c].pc = "evict", ![c].evict = E]
  /\ UNCHANGED <<docker, known, spaces, locks, sweep, portal, restarts>>

RoomRefused(c) ==
  /\ call[c].pc = "plan"
  /\ planRoom(call[c].id) = {}
  /\ Fail(c)

\* TryLock on the next one's wake lock; someone waking it means "try again".
EvictLock(c, v) ==
  /\ call[c].pc = "evict"
  /\ v \in call[c].evict
  /\ IF wakeLock[v] # None THEN Fail(c)
     ELSE /\ wakeLock' = [wakeLock EXCEPT ![v] = c]
          /\ call' = [call EXCEPT ![c].pc = "stop", ![c].victim = v]
          /\ UNCHANGED <<docker, known, spaces, op, room, sweep, portal, restarts>>

\* docker stop, whatever it has been doing meanwhile.
EvictStop(c) ==
  LET v == call[c].victim IN
  /\ call[c].pc = "stop"
  /\ IF container[v] = "none" THEN Fail(c)
     ELSE /\ container' = [container EXCEPT ![v] = "exited"]
          /\ wakeLock' = [wakeLock EXCEPT ![v] = None]
          /\ call' = [call EXCEPT ![c].pc = "evict", ![c].victim = None,
                                  ![c].evict = @ \ {v}]
          /\ UNCHANGED <<volume, known, spaces, op, room, sweep, portal, restarts>>

\* docker start; or docker volume create and docker run, which fails on a
\* container that is there already.
BringUp(c) ==
  LET s == call[c].id
      made == call[c].job # "start"
  IN
  /\ call[c].pc = "evict" /\ call[c].evict = {}
  /\ made <=> container[s] = "none"
  /\ container' = [container EXCEPT ![s] = "running"]
  /\ volume' = [volume EXCEPT ![s] = IF @ = "none" THEN "empty" ELSE @]
  /\ call' = [call EXCEPT ![c].pc = "woken", ![c].fresh = call[c].job = "scratch" /\ call[c].dead]
  /\ fresh' = [fresh EXCEPT ![s] = @ \/ (call[c].job = "scratch" /\ ~call[c].dead)]
  /\ ReleaseWake(c)
  /\ UNCHANGED <<known, space, busy, op, sweep, portal, restarts>>

BringUpRefused(c) ==
  LET s == call[c].id IN
  /\ call[c].pc = "evict" /\ call[c].evict = {}
  /\ (call[c].job # "start") # (container[s] = "none")
  /\ Fail(c)

\* docker start fails; or docker run does, before or after it has created the
\* container; or the probe after it does.  The volume was made first.
BringUpFails(c) ==
  LET s == call[c].id
      made == call[c].job # "start"
  IN
  /\ DockerFails
  /\ call[c].pc = "evict" /\ call[c].evict = {}
  /\ made <=> container[s] = "none"
  /\ volume' = [volume EXCEPT ![s] = IF made /\ @ = "none" THEN "empty" ELSE @]
  /\ \/ container' = container
     \/ made /\ \E left \in {"exited", "running"} : container' = [container EXCEPT ![s] = left]
  /\ End(c)
  /\ ReleaseAll(c)
  /\ UNCHANGED <<known, spaces, sweep, portal, restarts>>

----------------------------------------------------------------------------
\* What a request does once its sandbox is awake

\* Whether the ensure answer carries "fresh": true.
Fresh(c) == IF call[c].dead THEN call[c].fresh ELSE fresh[call[c].id]

\* checkout succeeds and the answer goes out; Portal forgets what it had synced
\* if the sandbox is fresh, then syncs in what is missing.
EnsureAnswer(c) ==
  LET s == call[c].id IN
  /\ call[c].pc = "woken" /\ call[c].kind = "ensure"
  /\ container[s] = "running"
  /\ fresh' = IF call[c].dead THEN fresh ELSE [fresh EXCEPT ![s] = FALSE]
  /\ volume' = [volume EXCEPT ![s] = IF Fresh(c) \/ ~synced[s] THEN "filled" ELSE @]
  /\ synced' = [synced EXCEPT ![s] = ~deleted[s]]
  /\ End(c)
  /\ ReleaseAll(c)
  /\ UNCHANGED <<container, known, space, busy, sweep, deleted, restarts>>

\* checkout fails: put to sleep meanwhile, or Kimono Git would not answer.
EnsureFails(c) ==
  /\ call[c].pc = "woken" /\ call[c].kind = "ensure"
  /\ Fail(c)

FileDone(c) ==
  LET s == call[c].id IN
  /\ call[c].pc = "woken" /\ call[c].kind = "file"
  /\ space' = [space EXCEPT ![s] = IF @ = "none" THEN "known" ELSE @]
  /\ quiet' = [quiet EXCEPT ![s] = 0]
  /\ End(c)
  /\ UNCHANGED <<docker, record, saved, busy, fresh, locks, sweep, portal, restarts>>

\* running() touches the workspace; then busy is read and set under space.mu.
TurnBusy(c) ==
  LET s == call[c].id IN
  /\ call[c].pc = "woken" /\ call[c].kind = "turn"
  /\ space' = [space EXCEPT ![s] = IF @ = "none" THEN "known" ELSE @]
  /\ quiet' = [quiet EXCEPT ![s] = 0]
  /\ IF busy[s] /\ ~call[c].dead
     THEN End(c) /\ busy' = busy
     ELSE Goto(c, "turn") /\ busy' = [busy EXCEPT ![s] = @ \/ ~call[c].dead]
  /\ UNCHANGED <<docker, record, saved, fresh, locks, sweep, portal, restarts>>

\* The agent's output touches the workspace, not the record.
TurnOutput(c) ==
  LET s == call[c].id IN
  /\ call[c].pc = "turn" /\ ~call[c].dead /\ container[s] = "running"
  /\ quiet[s] > 0
  /\ quiet' = [quiet EXCEPT ![s] = 0]
  /\ UNCHANGED <<docker, record, saved, spaces, locks, call, sweep, portal, restarts>>

TurnEnd(c) ==
  LET s == call[c].id IN
  /\ call[c].pc = "turn"
  /\ IF call[c].dead THEN UNCHANGED <<busy, quiet>>
     ELSE /\ busy' = [busy EXCEPT ![s] = FALSE]
          /\ quiet' = [quiet EXCEPT ![s] = 0]
  /\ End(c)
  /\ UNCHANGED <<docker, record, saved, space, fresh, locks, sweep, portal, restarts>>

----------------------------------------------------------------------------
\* Deleting a workspace: no wake lock, no w.op

\* Requests that hold s's workspace keep one that s.spaces no longer has.
Orphaned(s) == [c \in Calls |-> IF call[c].id = s THEN [call[c] EXCEPT !.dead = TRUE] ELSE call[c]]

\* Out of s.spaces (a turn is cancelled: TurnEnd), and forget().  With neither
\* left, quiet counts from the node's start, however long ago that was.
DeleteStart(c, s) ==
  /\ "delete" \in Kinds
  /\ call[c].pc = "idle" /\ ~deleted[s]
  /\ call' = [Orphaned(s) EXCEPT ![c] = [Resting EXCEPT !.kind = "delete", !.pc = "rm", !.id = s]]
  /\ space' = [space EXCEPT ![s] = "none"]
  /\ busy' = [busy EXCEPT ![s] = FALSE]
  /\ fresh' = [fresh EXCEPT ![s] = FALSE]
  /\ op' = [op EXCEPT ![s] = None]
  /\ record' = [record EXCEPT ![s] = "none"]
  /\ \E age \in Ages : quiet' = [quiet EXCEPT ![s] = age]
  /\ saved' = [saved EXCEPT ![s] = 0]
  /\ UNCHANGED <<docker, wakeLock, room, sweep, portal, restarts>>

DeleteContainer(c) ==
  LET s == call[c].id IN
  /\ call[c].pc = "rm"
  /\ container' = [container EXCEPT ![s] = "none"]
  /\ Goto(c, "volume")
  /\ UNCHANGED <<volume, known, spaces, locks, sweep, portal, restarts>>

\* Docker keeps a volume some container uses.  Portal drops the workspace's
\* row whatever the node answered.
DeleteVolume(c) ==
  LET s == call[c].id IN
  /\ call[c].pc = "volume"
  /\ volume' = [volume EXCEPT ![s] = IF container[s] = "none" THEN "none" ELSE @]
  /\ deleted' = [deleted EXCEPT ![s] = TRUE]
  /\ synced' = [synced EXCEPT ![s] = FALSE]
  /\ End(c)
  /\ UNCHANGED <<container, known, spaces, locks, sweep, restarts>>

----------------------------------------------------------------------------
\* The sweep

\* docker ps once; everything after works from that answer.
SweepStart ==
  /\ "sweep" \in Kinds
  /\ sweep.pc = "rest"
  /\ sweep' = [SweepRest EXCEPT !.pc = "boxes", !.found = container,
                                !.left = {s \in Sandboxes : container[s] # "none"}]
  /\ UNCHANGED <<docker, known, spaces, locks, call, portal, restarts>>

Due(s) == decide(sweep.found[s], busy[s], quiet[s])

SweepLook(s) ==
  /\ sweep.pc = "boxes" /\ s \in sweep.left
  /\ sweep' = IF Due(s) = "stay" THEN [sweep EXCEPT !.left = @ \ {s}]
              ELSE [sweep EXCEPT !.pc = "lock", !.id = s, !.action = Due(s)]
  /\ UNCHANGED <<docker, known, spaces, locks, call, portal, restarts>>

SweepNext(phase) == [sweep EXCEPT !.pc = phase, !.left = @ \ {sweep.id}, !.id = None, !.action = "stay"]

\* Mutant: acts on what it decided before it had the lock.
SweepLock_NoSecondLook ==
  /\ sweep.pc = "lock"
  /\ wakeLock[sweep.id] = None
  /\ sweep' = [sweep EXCEPT !.pc = "act"]
  /\ wakeLock' = [wakeLock EXCEPT ![sweep.id] = Sweeper]
  /\ UNCHANGED <<docker, known, spaces, op, room, call, portal, restarts>>

\* Mutant: keeps the lock when it finds the sandbox was used.
SweepLock_NoUnlock ==
  LET s == sweep.id IN
  /\ sweep.pc = "lock"
  /\ wakeLock[s] = None
  /\ sweep' = IF Due(s) = sweep.action THEN [sweep EXCEPT !.pc = "act"] ELSE SweepNext("boxes")
  /\ wakeLock' = [wakeLock EXCEPT ![s] = Sweeper]
  /\ UNCHANGED <<docker, known, spaces, op, room, call, portal, restarts>>

\* Something may have used it while the lock was being taken: look again.
SweepLock ==
  LET s == sweep.id IN
  /\ sweep.pc = "lock"
  /\ wakeLock[s] = None
  /\ IF Due(s) = sweep.action
     THEN /\ sweep' = [sweep EXCEPT !.pc = "act"]
          /\ wakeLock' = [wakeLock EXCEPT ![s] = Sweeper]
     ELSE /\ sweep' = SweepNext("boxes")
          /\ UNCHANGED wakeLock
  /\ UNCHANGED <<docker, known, spaces, op, room, call, portal, restarts>>

\* Mutant: the container goes without its repository being kept.
KeepRepoLabel_Skipped(s) == s \in Sandboxes /\ UNCHANGED known

\* keepRepoLabel: a container made for a repository carries its name.
KeepRepoLabel(s) ==
  IF container[s] # "none" /\ record[s] \in {"none", "blank"} /\ s \notin Chats
  THEN /\ record' = [record EXCEPT ![s] = "label"]
       /\ saved' = [saved EXCEPT ![s] = IF record[s] = "none" THEN 0 ELSE @]
       /\ quiet' = [quiet EXCEPT ![s] = IF record[s] = "none" THEN 0 ELSE @]
  ELSE UNCHANGED known

\* What Docker answers to each command, given the container as it is now.
SweepAct ==
  LET s == sweep.id IN
  /\ sweep.pc = "act"
  /\ \/ /\ sweep.action = "pause"
        /\ container' = [container EXCEPT ![s] = IF @ = "running" THEN "paused" ELSE @]
        /\ UNCHANGED known
     \/ /\ sweep.action = "stop"
        /\ container' = [container EXCEPT ![s] = IF @ = "none" THEN @ ELSE "exited"]
        /\ UNCHANGED known
     \/ /\ sweep.action = "remove"
        /\ KeepRepoLabel(s)
        /\ container' = [container EXCEPT ![s] = "none"]
  /\ wakeLock' = [wakeLock EXCEPT ![s] = None]
  /\ sweep' = SweepNext("boxes")
  /\ UNCHANGED <<volume, spaces, op, room, call, portal, restarts>>

\* forgetQuiet: the recorded sandboxes docker ps did not show.
ForgetStart ==
  /\ sweep.pc = "boxes" /\ sweep.left = {}
  /\ sweep' = IF ForgetAfter = 0 THEN SweepRest
              ELSE [sweep EXCEPT !.pc = "quiet",
                                 !.left = {s \in Sandboxes : record[s] # "none" /\ sweep.found[s] = "none"}]
  /\ UNCHANGED <<docker, known, spaces, locks, call, portal, restarts>>

Forgettable(s) == ~busy[s] /\ quiet[s] >= ForgetAfter

ForgetLook(s) ==
  /\ sweep.pc = "quiet" /\ s \in sweep.left
  /\ sweep' = IF Forgettable(s) THEN [sweep EXCEPT !.pc = "forgetlock", !.id = s]
              ELSE [sweep EXCEPT !.left = @ \ {s}]
  /\ UNCHANGED <<docker, known, spaces, locks, call, portal, restarts>>

ForgetLock ==
  LET s == sweep.id IN
  /\ sweep.pc = "forgetlock"
  /\ wakeLock[s] = None
  /\ IF Forgettable(s) /\ container[s] = "none"
     THEN /\ sweep' = [sweep EXCEPT !.pc = "forget"]
          /\ wakeLock' = [wakeLock EXCEPT ![s] = Sweeper]
     ELSE /\ sweep' = SweepNext("quiet")
          /\ UNCHANGED wakeLock
  /\ UNCHANGED <<docker, known, spaces, op, room, call, portal, restarts>>

\* The volume goes, unless a container has appeared on it; then forget().
ForgetVolume ==
  LET s == sweep.id IN
  /\ sweep.pc = "forget"
  /\ IF container[s] # "none" THEN UNCHANGED <<volume, known>>
     ELSE /\ volume' = [volume EXCEPT ![s] = "none"]
          /\ record' = [record EXCEPT ![s] = "none"]
          /\ saved' = [saved EXCEPT ![s] = 0]
          /\ UNCHANGED quiet
  /\ wakeLock' = [wakeLock EXCEPT ![s] = None]
  /\ sweep' = SweepNext("quiet")
  /\ UNCHANGED <<container, spaces, op, room, call, portal, restarts>>

SweepEnd ==
  /\ sweep.pc = "quiet" /\ sweep.left = {}
  /\ sweep' = SweepRest
  /\ UNCHANGED <<docker, known, spaces, locks, call, portal, restarts>>

----------------------------------------------------------------------------
\* The node and time

\* Portal has dropped the workspace, or waits for the node to remove it.
Leaving(s) == deleted[s] \/ \E c \in Calls : call[c].kind = "delete" /\ call[c].id = s

\* Everything in memory goes; records come back from sandboxes.json.  A delete
\* cut short has dropped the workspace's row all the same.
Restart ==
  /\ restarts < MaxRestarts
  /\ restarts' = restarts + 1
  /\ call' = [c \in Calls |-> Resting]
  /\ sweep' = SweepRest
  /\ space' = [s \in Sandboxes |-> "none"]
  /\ busy' = [s \in Sandboxes |-> FALSE]
  /\ fresh' = [s \in Sandboxes |-> FALSE]
  /\ op' = [s \in Sandboxes |-> None]
  /\ wakeLock' = [s \in Sandboxes |-> None]
  /\ room' = None
  /\ quiet' = [s \in Sandboxes |-> IF record[s] = "none" THEN 0 ELSE saved[s]]
  /\ deleted' = [s \in Sandboxes |-> Leaving(s)]
  /\ synced' = [s \in Sandboxes |-> synced[s] /\ ~Leaving(s)]
  /\ UNCHANGED <<docker, record, saved>>

\* What may outlast a tick: a turn, a checkout, and waiting for w.op behind one.
\* Everything else a request does takes seconds; PauseAfter is a minute.
Slow(c) == \/ call[c].pc \in {"idle", "turn"}
           \/ call[c].pc = "woken" /\ call[c].kind = "ensure"
           \/ call[c].pc = "op" /\ ~call[c].dead /\ op[call[c].id] # None

Older(age) == [s \in Sandboxes |-> IF age[s] < MaxQuiet THEN age[s] + 1 ELSE age[s]]

Tick ==
  /\ \A c \in Calls : Slow(c)
  /\ quiet' = Older(quiet)
  /\ saved' = Older(saved)
  /\ quiet # quiet'
  /\ UNCHANGED <<docker, record, spaces, locks, call, sweep, portal, restarts>>

\* The machine has started: sandboxes made and filled before are stopped.
Init ==
  /\ container \in [Sandboxes -> {"none", "exited"}]
  /\ volume = [s \in Sandboxes |-> IF container[s] = "none" THEN "none" ELSE "filled"]
  /\ record = [s \in Sandboxes |-> IF container[s] = "none" THEN "none" ELSE "ensured"]
  /\ quiet = [s \in Sandboxes |-> 0]
  /\ saved = [s \in Sandboxes |-> 0]
  /\ space = [s \in Sandboxes |-> "none"]
  /\ busy = [s \in Sandboxes |-> FALSE]
  /\ fresh = [s \in Sandboxes |-> FALSE]
  /\ op = [s \in Sandboxes |-> None]
  /\ wakeLock = [s \in Sandboxes |-> None]
  /\ room = None
  /\ call = [c \in Calls |-> Resting]
  /\ sweep = SweepRest
  /\ synced = [s \in Sandboxes |-> container[s] # "none"]
  /\ deleted = [s \in Sandboxes |-> FALSE]
  /\ restarts = 0

Arrives(c) == \E s \in Sandboxes :
  EnsureStart(c, s) \/ TurnStart(c, s) \/ FileStart(c, s) \/ DeleteStart(c, s)

Locks(c) == EnsureRemember(c) \/ WakeLock(c) \/ RoomLock(c)

Proceeds(c) ==
  \/ WakeAwake(c) \/ WakeAsleep(c) \/ WakeGone(c)
  \/ MakeRoom(c) \/ RoomRefused(c)
  \/ (\E v \in Sandboxes : EvictLock(c, v)) \/ EvictStop(c)
  \/ BringUp(c) \/ BringUpRefused(c) \/ BringUpFails(c)
  \/ EnsureAnswer(c) \/ EnsureFails(c) \/ FileDone(c) \/ TurnBusy(c)
  \/ DeleteContainer(c) \/ DeleteVolume(c)

Serves(c) == Arrives(c) \/ Locks(c) \/ Proceeds(c) \/ TurnOutput(c) \/ TurnEnd(c)

Sweeps ==
  \/ SweepStart \/ (\E s \in Sandboxes : SweepLook(s)) \/ SweepAct
  \/ ForgetStart \/ (\E s \in Sandboxes : ForgetLook(s)) \/ ForgetVolume \/ SweepEnd
  \/ SweepLock \/ ForgetLock

Next == (\E c \in Calls : Serves(c)) \/ Sweeps \/ Restart \/ Tick

Spec == Init /\ [][Next]_vars

\* Docker commands and the agent come to an end, a mutex is handed to a waiter
\* that has starved (strong: the lock comes and goes), the ticker sweeps again,
\* and time passes.  Nothing obliges a request to arrive or the node to restart.
Fairness ==
  /\ \A c \in Calls : SF_vars(Locks(c) \/ Proceeds(c) \/ TurnEnd(c))
  /\ SF_vars(Sweeps)
  /\ WF_vars(Tick)

FairSpec == Spec /\ Fairness

----------------------------------------------------------------------------
\* What should hold

Requests ==
  [kind : {"none", "ensure", "turn", "file", "delete"},
   pc : {"idle", "op", "lock", "look", "room", "plan", "evict", "stop", "woken", "turn", "rm", "volume"},
   id : Sandboxes \cup {None}, job : {"none", "start", "create", "scratch"},
   evict : SUBSET Sandboxes, victim : Sandboxes \cup {None}, dead : BOOLEAN, fresh : BOOLEAN]

States == {"none", "running", "paused", "exited"}

DockerOK == /\ container \in [Sandboxes -> States]
            /\ volume \in [Sandboxes -> {"none", "empty", "filled"}]

KnownOK == /\ record \in [Sandboxes -> {"none", "blank", "label", "ensured"}]
           /\ quiet \in [Sandboxes -> Ages]
           /\ saved \in [Sandboxes -> Ages]

SpacesOK == /\ space \in [Sandboxes -> {"none", "known", "ensured"}]
            /\ busy \in [Sandboxes -> BOOLEAN]
            /\ fresh \in [Sandboxes -> BOOLEAN]

LocksOK == /\ op \in [Sandboxes -> Calls \cup {None}]
           /\ wakeLock \in [Sandboxes -> Calls \cup {None, Sweeper}]
           /\ room \in Calls \cup {None}

\* A request being served names its sandbox, and the one it is stopping.
Named(r) == /\ r.pc # "idle" => r.id \in Sandboxes
            /\ r.pc = "stop" => r.victim \in Sandboxes

CallsOK == /\ call \in [Calls -> Requests]
           /\ \A c \in Calls : Named(call[c])

SweepOK == /\ sweep \in [pc : {"rest", "boxes", "lock", "act", "quiet", "forgetlock", "forget"},
                         left : SUBSET Sandboxes, found : [Sandboxes -> States],
                         id : Sandboxes \cup {None}, action : {"stay", "pause", "stop", "remove"}]
           /\ sweep.pc \in {"lock", "act", "forgetlock", "forget"} => sweep.id \in Sandboxes

PortalOK == /\ synced \in [Sandboxes -> BOOLEAN]
            /\ deleted \in [Sandboxes -> BOOLEAN]
            /\ restarts \in 0..MaxRestarts

\* Every variable stays in its type, and whoever is past choosing a sandbox
\* names one.
TypeOK == DockerOK /\ KnownOK /\ SpacesOK /\ LocksOK /\ CallsOK /\ SweepOK /\ PortalOK

\* limits.go: running or paused sandboxes never exceed the node's cap, however
\* requests, the sweep, deletes, failures and restarts interleave.
AwakeCap == Cardinality(Awake) <= PerNode

\* limits.go: nor does any one person's, among the sandboxes known to be theirs.
PersonCap == \A p \in People : Cardinality({s \in Awake : OwnerOf(s) = p}) <= PerPerson

\* Only who holds s.room chooses, stops and starts.
RoomHeld == \A c \in Calls : call[c].pc \in {"plan", "evict", "stop"} => room = c

\* Once what it chose is asleep there is a slot for the sandbox it is waking,
\* whatever woke, slept or vanished since it chose.
RoomMade ==
  \A c \in Calls :
    call[c].pc \in {"evict", "stop"}
      => Cardinality(Awake \ (call[c].evict \cup {call[c].id})) < PerNode

\* limits.go: why the cap holds. Room made for a sandbox stays made until that
\* sandbox has taken it, although the locks guarding it come and go.
CapInv == AwakeCap /\ RoomHeld /\ RoomMade

\* AwakeSlots: sandboxes take the node's slots one at a time.
Slots == INSTANCE AwakeSlots WITH Boxes <- Sandboxes, Cap <- PerNode, awake <- Awake

\* limits.go: whatever the requests, the sweep, deletes, failures and restarts
\* do, the node takes and gives up slots as AwakeSlots allows.
TakesSlots == Slots!Spec

\* A request that woke s is at work in it, or about to be.
InUse(s) == \E c \in Calls : /\ call[c].id = s /\ ~call[c].dead
                             /\ \/ call[c].pc = "turn"
                                \/ call[c].pc = "woken" /\ call[c].kind \in {"turn", "file"}

\* sleep.go: the sweep never acts on a sandbox a request is bringing back or
\* using, although it chose what to do before it had the lock.
SweepSparesUsed == sweep.pc \in {"act", "forget"} => ~InUse(sweep.id)

\* kimono-code.md: a sandbox that lost what was synced into it is never
\* answered for as if it still held it; its chat's files would go to the trash.
FreshTold ==
  \A c \in Calls : LET s == call[c].id IN
    /\ call[c].kind = "ensure" /\ call[c].pc = "woken" /\ container[s] = "running"
    /\ synced[s] /\ ~Leaving(s) /\ ~Fresh(c)
    => volume[s] = "filled"

\* kimono-code.md: a call to a removed sandbox whose files were kept makes the
\* container again; it never finds the sandbox gone.
KeptFilesWake ==
  \A c \in Calls : LET s == call[c].id IN
    call[c].pc = "look" /\ volume[s] = "filled" /\ ~Leaving(s) => ~Gone(s)

\* Every request is answered in the end: the locks cannot be waited on for ever.
RequestsEnd == \A c \in Calls : call[c].pc # "idle" ~> call[c].pc = "idle"

\* A sandbox that stays quiet does not stay awake.
QuietSleeps ==
  \A s \in Sandboxes : LET idle == container[s] = "running" /\ ~busy[s] /\ quiet[s] >= PauseAfter
                       IN  idle ~> ~idle

\* A deleted workspace leaves neither a container nor a volume behind.
DeletedReclaimed ==
  \A s \in Sandboxes : deleted[s] ~> container[s] = "none" /\ volume[s] = "none"
=============================================================================
