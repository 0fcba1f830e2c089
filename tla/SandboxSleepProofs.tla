------------------------- MODULE SandboxSleepProofs -------------------------
(***************************************************************************)
(* Theorems about SandboxSleep, for any number of sandboxes and requests   *)
(* and any caps and thresholds: its types, the node's cap and each         *)
(* person's on awake sandboxes, that it implements AwakeSlots, that the    *)
(* sweep spares what is used, and that a sandbox put away with its files   *)
(* comes back with them, or is told of as fresh.                           *)
(***************************************************************************)
EXTENDS SandboxSleep, FiniteSetTheorems, TLAPS

----------------------------------------------------------------------------
\* Types

\* A request is replaced by one of its type.
LEMMA CallReplaced ==
  ASSUME CallsOK, NEW c \in Calls, NEW r \in Requests, Named(r), call' = [call EXCEPT ![c] = r]
  PROVE  CallsOK'
  BY DEF CallsOK

LEMMA RestingTyped == Resting \in Requests /\ Named(Resting)
  BY DEF Resting, Requests, Named

LEMMA CallEnds ==
  ASSUME CallsOK, NEW c \in Calls, End(c)
  PROVE  CallsOK'
  BY CallReplaced, RestingTyped DEF End

LEMMA CallBegins ==
  ASSUME CallsOK, NEW c \in Calls, NEW s \in Sandboxes,
         NEW kind \in {"ensure", "turn", "file"}, NEW pc \in {"op", "lock"}, Begin(c, s, kind, pc)
  PROVE  CallsOK'
<1> DEFINE r == [Resting EXCEPT !.kind = kind, !.pc = pc, !.id = s]
<1>1. r \in Requests /\ Named(r)
  BY DEF Resting, Requests, Named
<1> QED BY <1>1, CallReplaced DEF Begin

\* A request moves on to a step other than stopping a victim.
LEMMA CallGoes ==
  ASSUME CallsOK, NEW c \in Calls, call[c].pc # "idle",
         NEW pc \in {"lock", "look", "plan", "woken", "turn", "volume"}, Goto(c, pc)
  PROVE  CallsOK'
<1> DEFINE r == [call[c] EXCEPT !.pc = pc]
<1>1. r \in Requests /\ Named(r)
  BY DEF CallsOK, Requests, Named
<1>2. call' = [call EXCEPT ![c] = r]
  BY DEF CallsOK, Goto
<1> QED BY <1>1, <1>2, CallReplaced

LEMMA LocksReleased ==
  ASSUME LocksOK, NEW c
  PROVE  /\ ReleaseWake(c) /\ op' = op => LocksOK'
         /\ ReleaseAll(c) => LocksOK'
  BY DEF LocksOK, ReleaseWake, ReleaseAll, Without

LEMMA FailTyped ==
  ASSUME TypeOK, NEW c \in Calls, Fail(c)
  PROVE  TypeOK'
<1>1. CallsOK' /\ LocksOK'
  BY CallEnds, LocksReleased DEF Fail, TypeOK
<1> QED BY <1>1 DEF Fail, TypeOK, DockerOK, KnownOK, SpacesOK, SweepOK, PortalOK,
              docker, known, spaces, portal

\* What a step leaves alone keeps its type.
LEMMA Untouched ==
  ASSUME TypeOK
  PROVE  /\ UNCHANGED docker => DockerOK'
         /\ UNCHANGED known => KnownOK'
         /\ UNCHANGED spaces => SpacesOK'
         /\ UNCHANGED locks => LocksOK'
         /\ UNCHANGED call => CallsOK'
         /\ UNCHANGED sweep => SweepOK'
         /\ UNCHANGED <<portal, restarts>> => PortalOK'
<1>1. UNCHANGED docker => DockerOK'
  BY DEF TypeOK, DockerOK, docker
<1>2. UNCHANGED known => KnownOK'
  BY DEF TypeOK, KnownOK, known
<1>3. UNCHANGED spaces => SpacesOK'
  BY DEF TypeOK, SpacesOK, spaces
<1>4. UNCHANGED locks => LocksOK'
  BY DEF TypeOK, LocksOK, locks
<1>5. UNCHANGED call => CallsOK'
  BY DEF TypeOK, CallsOK
<1>6. UNCHANGED sweep => SweepOK'
  BY DEF TypeOK, SweepOK
<1>7. UNCHANGED <<portal, restarts>> => PortalOK'
  BY DEF TypeOK, PortalOK, portal
<1> QED BY <1>1, <1>2, <1>3, <1>4, <1>5, <1>6, <1>7

LEMMA NoAge == 0 \in Ages
  BY SleepAssumption DEF Ages

\* Requests arriving.
LEMMA ArrivesTyped ==
  ASSUME TypeOK, NEW c \in Calls, NEW s \in Sandboxes
  PROVE  EnsureStart(c, s) \/ TurnStart(c, s) \/ FileStart(c, s) => TypeOK'
<1>1. ASSUME EnsureStart(c, s) PROVE TypeOK'
  <2>1. CallsOK' BY <1>1, CallBegins DEF EnsureStart, TypeOK
  <2>2. SpacesOK' BY <1>1 DEF EnsureStart, TypeOK, SpacesOK
  <2> QED BY <1>1, <2>1, <2>2, Untouched DEF EnsureStart, TypeOK
<1>2. ASSUME TurnStart(c, s) PROVE TypeOK'
  <2>1. CallsOK' BY <1>2, CallBegins DEF TurnStart, TypeOK
  <2> QED BY <1>2, <2>1, Untouched DEF TurnStart, TypeOK
<1>3. ASSUME FileStart(c, s) PROVE TypeOK'
  <2>1. CallsOK' BY <1>3, CallBegins DEF FileStart, TypeOK
  <2> QED BY <1>3, <2>1, Untouched DEF FileStart, TypeOK
<1> QED BY <1>1, <1>2, <1>3

\* A request being served names a sandbox.
LEMMA Serving ==
  ASSUME TypeOK, NEW c \in Calls, call[c].pc # "idle"
  PROVE  call[c] \in Requests /\ call[c].id \in Sandboxes
  BY DEF TypeOK, CallsOK, Named

\* Requests taking the locks.
LEMMA LocksTyped ==
  ASSUME TypeOK, NEW c \in Calls, Locks(c)
  PROVE  TypeOK'
<1>1. CASE EnsureRemember(c)
  <2>1. CallsOK' BY <1>1, CallGoes DEF EnsureRemember, TypeOK
  <2>2. KnownOK' BY <1>1, NoAge DEF EnsureRemember, TypeOK, KnownOK
  <2>3. SpacesOK' BY <1>1 DEF EnsureRemember, TypeOK, SpacesOK
  <2>4. LocksOK' BY <1>1 DEF EnsureRemember, TypeOK, LocksOK
  <2> QED BY <1>1, <2>1, <2>2, <2>3, <2>4, Untouched DEF EnsureRemember, TypeOK
<1>2. CASE WakeLock(c)
  <2>1. CallsOK' BY <1>2, CallGoes DEF WakeLock, TypeOK
  <2>2. KnownOK' BY <1>2, NoAge DEF WakeLock, TypeOK, KnownOK
  <2>3. LocksOK' BY <1>2 DEF WakeLock, TypeOK, LocksOK
  <2> QED BY <1>2, <2>1, <2>2, <2>3, Untouched DEF WakeLock, TypeOK
<1>3. CASE RoomLock(c)
  <2>1. CallsOK' BY <1>3, CallGoes DEF RoomLock, TypeOK
  <2>2. LocksOK' BY <1>3 DEF RoomLock, TypeOK, LocksOK
  <2> QED BY <1>3, <2>1, <2>2, Untouched DEF RoomLock, TypeOK
<1> QED BY <1>1, <1>2, <1>3 DEF Locks

\* Waking a sandbox.
LEMMA WakesTyped ==
  ASSUME TypeOK, NEW c \in Calls, WakeAwake(c) \/ WakeAsleep(c) \/ WakeGone(c)
  PROVE  TypeOK'
<1> USE Serving
<1>1. CASE WakeAwake(c)
  <2>1. CallsOK' BY <1>1, CallGoes DEF WakeAwake, TypeOK
  <2>2. DockerOK' BY <1>1 DEF WakeAwake, TypeOK, DockerOK, States
  <2>3. LocksOK' BY <1>1, LocksReleased DEF WakeAwake, TypeOK
  <2> QED BY <1>1, <2>1, <2>2, <2>3, Untouched DEF WakeAwake, TypeOK
<1>2. CASE WakeAsleep(c)
  <2> DEFINE r == [call[c] EXCEPT !.pc = "room",
                                  !.job = IF container[call[c].id] = "none" THEN "create" ELSE "start"]
  <2>1. r \in Requests /\ Named(r)
    BY <1>2 DEF WakeAsleep, Requests, Named
  <2>2. call' = [call EXCEPT ![c] = r]
    BY <1>2 DEF WakeAsleep, TypeOK, CallsOK
  <2>3. CallsOK' BY <2>1, <2>2, CallReplaced DEF TypeOK
  <2> QED BY <1>2, <2>3, Untouched DEF WakeAsleep, TypeOK
<1>3. CASE WakeGone(c)
  <2>1. CASE call[c].kind = "ensure"
    <3> DEFINE r == [call[c] EXCEPT !.pc = "room", !.job = "scratch"]
    <3>1. r \in Requests /\ Named(r)
      BY <1>3 DEF WakeGone, Requests, Named
    <3>2. call' = [call EXCEPT ![c] = r]
      BY <1>3, <2>1 DEF WakeGone, TypeOK, CallsOK
    <3>3. CallsOK' BY <3>1, <3>2, CallReplaced DEF TypeOK
    <3>4. LocksOK' BY <1>3, <2>1, LocksReleased DEF WakeGone, TypeOK
    <3> QED BY <1>3, <2>1, <3>3, <3>4, Untouched DEF WakeGone, TypeOK
  <2>2. CASE call[c].kind # "ensure"
    BY <1>3, <2>2, FailTyped DEF WakeGone
  <2> QED BY <2>1, <2>2
<1> QED BY <1>1, <1>2, <1>3

\* What take() chooses is not busy, is among the candidates, and leaves fewer
\* than the limit of them awake.
LEMMA TakesEnough ==
  ASSUME NEW cands, IsFiniteSet(cands), NEW chosen, NEW limit \in Nat \ {0},
         NEW E \in Takes(cands, chosen, limit)
  PROVE  /\ E \subseteq cands \ chosen
         /\ Cardinality((cands \ chosen) \ E) < limit
<1> DEFINE held == cands \ chosen
           need == IF Cardinality(held) < limit THEN 0 ELSE Cardinality(held) - limit + 1
<1>1. E \subseteq held /\ Cardinality(E) = need
  BY DEF Takes
<1>2. IsFiniteSet(held) /\ IsFiniteSet(E)
  BY <1>1, FS_Subset
<1>3. Cardinality(held) \in Nat /\ Cardinality(E) \in Nat
  BY <1>2, FS_CardinalityType
<1>4. Cardinality(held \ E) = Cardinality(held) - Cardinality(E)
  <2>1. Cardinality(held \ E) = Cardinality(held) - Cardinality(held \cap E)
    BY <1>2, FS_Difference
  <2>2. held \cap E = E
    BY <1>1
  <2> QED BY <2>1, <2>2
<1>5. Cardinality(held \ E) < limit
  BY <1>1, <1>3, <1>4
<1> QED BY <1>1, <1>5

\* Once what planRoom chose is asleep, there is a slot for s on the node.
LEMMA RoomEnough ==
  ASSUME NEW s \in Sandboxes, NEW E \in planRoom(s)
  PROVE  /\ E \subseteq Awake \ {s}
         /\ Cardinality(Awake \ (E \cup {s})) < PerNode
<1> DEFINE others == Awake \ {s}
           mine   == {o \in others : OwnerOf(o) = OwnerOf(s)}
           person == IF OwnerOf(s) = None THEN {{}} ELSE Takes(mine, {}, PerPerson)
<1>1. IsFiniteSet(others) /\ IsFiniteSet(mine)
  <2>1. others \subseteq Sandboxes /\ mine \subseteq Sandboxes
    BY DEF Awake
  <2> QED BY <2>1, FS_Subset, SleepAssumption
<1>2. planRoom(s) = UNION {{P \cup F : F \in Takes(others, P, PerNode)} : P \in person}
  BY DEF planRoom
<1>3. person = IF OwnerOf(s) = None THEN {{}} ELSE Takes(mine, {}, PerPerson)
  OBVIOUS
<1>4. mine \subseteq others /\ others = Awake \ {s}
  OBVIOUS
<1> HIDE DEF others, mine, person
<1>5. PICK P \in person : \E F \in Takes(others, P, PerNode) : E = P \cup F
  BY <1>2
<1>6. P \subseteq others
  <2>1. CASE OwnerOf(s) = None
    BY <1>3, <1>5, <2>1
  <2>2. CASE OwnerOf(s) # None
    <3>1. P \in Takes(mine, {}, PerPerson)
      BY <1>3, <1>5, <2>2
    <3>2. P \subseteq mine
      BY <3>1 DEF Takes
    <3> QED BY <3>2, <1>4
  <2> QED BY <2>1, <2>2
<1>7. PICK F \in Takes(others, P, PerNode) : E = P \cup F
  BY <1>5
<1>8. F \subseteq others \ P /\ Cardinality((others \ P) \ F) < PerNode
  BY <1>1, <1>7, TakesEnough, SleepAssumption
<1>9. (others \ P) \ F = Awake \ (E \cup {s})
  BY <1>4, <1>7
<1> QED BY <1>4, <1>6, <1>7, <1>8, <1>9

\* Making room.
LEMMA RoomTyped ==
  ASSUME TypeOK, NEW c \in Calls,
         MakeRoom(c) \/ RoomRefused(c) \/ (\E v \in Sandboxes : EvictLock(c, v)) \/ EvictStop(c)
  PROVE  TypeOK'
<1> USE Serving
<1>1. CASE MakeRoom(c)
  <2>1. PICK E \in planRoom(call[c].id) :
          call' = [call EXCEPT ![c].pc = "evict", ![c].evict = E]
    BY <1>1 DEF MakeRoom
  <2> DEFINE r == [call[c] EXCEPT !.pc = "evict", !.evict = E]
  <2>2. E \subseteq Sandboxes
    BY <1>1, <2>1, RoomEnough DEF MakeRoom, Awake
  <2>3. r \in Requests /\ Named(r)
    BY <1>1, <2>2 DEF MakeRoom, Requests, Named
  <2>4. call' = [call EXCEPT ![c] = r]
    BY <2>1 DEF TypeOK, CallsOK
  <2>5. CallsOK' BY <2>3, <2>4, CallReplaced DEF TypeOK
  <2> QED BY <1>1, <2>5, Untouched DEF MakeRoom, TypeOK
<1>2. CASE RoomRefused(c)
  BY <1>2, FailTyped DEF RoomRefused
<1>3. ASSUME NEW v \in Sandboxes, EvictLock(c, v) PROVE TypeOK'
  <2>1. CASE wakeLock[v] # None
    BY <1>3, <2>1, FailTyped DEF EvictLock
  <2>2. CASE wakeLock[v] = None
    <3> DEFINE r == [call[c] EXCEPT !.pc = "stop", !.victim = v]
    <3>1. r \in Requests /\ Named(r)
      BY <1>3 DEF EvictLock, Requests, Named
    <3>2. call' = [call EXCEPT ![c] = r]
      BY <1>3, <2>2 DEF EvictLock, TypeOK, CallsOK
    <3>3. CallsOK' BY <3>1, <3>2, CallReplaced DEF TypeOK
    <3>4. LocksOK' BY <1>3, <2>2 DEF EvictLock, TypeOK, LocksOK
    <3> QED BY <1>3, <2>2, <3>3, <3>4, Untouched DEF EvictLock, TypeOK
  <2> QED BY <2>1, <2>2
<1>4. CASE EvictStop(c)
  <2> DEFINE v == call[c].victim
  <2>1. CASE container[v] = "none"
    BY <1>4, <2>1, FailTyped DEF EvictStop
  <2>2. CASE container[v] # "none"
    <3> DEFINE r == [call[c] EXCEPT !.pc = "evict", !.victim = None, !.evict = @ \ {v}]
    <3>1. r \in Requests /\ Named(r)
      BY <1>4 DEF EvictStop, Requests, Named
    <3>2. call' = [call EXCEPT ![c] = r]
      BY <1>4, <2>2 DEF EvictStop, TypeOK, CallsOK
    <3>3. CallsOK' BY <3>1, <3>2, CallReplaced DEF TypeOK
    <3>4. LocksOK' BY <1>4, <2>2 DEF EvictStop, TypeOK, LocksOK
    <3>5. DockerOK' BY <1>4, <2>2 DEF EvictStop, TypeOK, DockerOK, States
    <3> QED BY <1>4, <2>2, <3>3, <3>4, <3>5, Untouched DEF EvictStop, TypeOK
  <2> QED BY <2>1, <2>2
<1> QED BY <1>1, <1>2, <1>3, <1>4

\* Bringing a sandbox up.
LEMMA BringsUpTyped ==
  ASSUME TypeOK, NEW c \in Calls, BringUp(c) \/ BringUpRefused(c) \/ BringUpFails(c)
  PROVE  TypeOK'
<1> USE Serving
<1>1. CASE BringUp(c)
  <2> DEFINE r == [call[c] EXCEPT !.pc = "woken", !.fresh = call[c].job = "scratch" /\ call[c].dead]
  <2>1. r \in Requests /\ Named(r)
    BY <1>1 DEF BringUp, Requests, Named
  <2>2. call' = [call EXCEPT ![c] = r]
    BY <1>1 DEF BringUp, TypeOK, CallsOK
  <2>3. CallsOK' BY <2>1, <2>2, CallReplaced DEF TypeOK
  <2>4. DockerOK' BY <1>1 DEF BringUp, TypeOK, DockerOK, States
  <2>5. SpacesOK' BY <1>1 DEF BringUp, TypeOK, SpacesOK
  <2>6. LocksOK' BY <1>1, LocksReleased DEF BringUp, TypeOK
  <2> QED BY <1>1, <2>3, <2>4, <2>5, <2>6, Untouched DEF BringUp, TypeOK
<1>2. CASE BringUpRefused(c)
  BY <1>2, FailTyped DEF BringUpRefused
<1>3. CASE BringUpFails(c)
  <2>1. CallsOK' BY <1>3, CallEnds DEF BringUpFails, TypeOK
  <2>2. DockerOK' BY <1>3 DEF BringUpFails, TypeOK, DockerOK, States
  <2>3. LocksOK' BY <1>3, LocksReleased DEF BringUpFails, TypeOK
  <2> QED BY <1>3, <2>1, <2>2, <2>3, Untouched DEF BringUpFails, TypeOK
<1> QED BY <1>1, <1>2, <1>3

\* Working in a sandbox that is awake.
LEMMA WorksTyped ==
  ASSUME TypeOK, NEW c \in Calls,
         EnsureAnswer(c) \/ EnsureFails(c) \/ FileDone(c) \/ TurnBusy(c) \/ TurnOutput(c) \/ TurnEnd(c)
  PROVE  TypeOK'
<1> USE Serving, NoAge
<1>1. CASE EnsureAnswer(c)
  <2>1. CallsOK' BY <1>1, CallEnds DEF EnsureAnswer, TypeOK
  <2>2. DockerOK' BY <1>1 DEF EnsureAnswer, TypeOK, DockerOK
  <2>3. SpacesOK' BY <1>1 DEF EnsureAnswer, TypeOK, SpacesOK
  <2>4. LocksOK' BY <1>1, LocksReleased DEF EnsureAnswer, TypeOK
  <2>5. PortalOK' BY <1>1 DEF EnsureAnswer, TypeOK, PortalOK
  <2> QED BY <1>1, <2>1, <2>2, <2>3, <2>4, <2>5, Untouched DEF EnsureAnswer, TypeOK
<1>2. CASE EnsureFails(c)
  BY <1>2, FailTyped DEF EnsureFails
<1>3. CASE FileDone(c)
  <2>1. CallsOK' BY <1>3, CallEnds DEF FileDone, TypeOK
  <2>2. KnownOK' BY <1>3 DEF FileDone, TypeOK, KnownOK
  <2>3. SpacesOK' BY <1>3 DEF FileDone, TypeOK, SpacesOK
  <2> QED BY <1>3, <2>1, <2>2, <2>3, Untouched DEF FileDone, TypeOK
<1>4. CASE TurnBusy(c)
  <2>1. CallsOK' BY <1>4, CallEnds, CallGoes DEF TurnBusy, TypeOK
  <2>2. KnownOK' BY <1>4 DEF TurnBusy, TypeOK, KnownOK
  <2>3. SpacesOK' BY <1>4 DEF TurnBusy, TypeOK, SpacesOK
  <2> QED BY <1>4, <2>1, <2>2, <2>3, Untouched DEF TurnBusy, TypeOK
<1>5. CASE TurnOutput(c)
  <2>1. KnownOK' BY <1>5 DEF TurnOutput, TypeOK, KnownOK
  <2> QED BY <1>5, <2>1, Untouched DEF TurnOutput, TypeOK
<1>6. CASE TurnEnd(c)
  <2>1. CallsOK' BY <1>6, CallEnds DEF TurnEnd, TypeOK
  <2>2. KnownOK' BY <1>6 DEF TurnEnd, TypeOK, KnownOK
  <2>3. SpacesOK' BY <1>6 DEF TurnEnd, TypeOK, SpacesOK, spaces
  <2> QED BY <1>6, <2>1, <2>2, <2>3, Untouched DEF TurnEnd, TypeOK
<1> QED BY <1>1, <1>2, <1>3, <1>4, <1>5, <1>6

\* Deleting a workspace.
LEMMA DeletesTyped ==
  ASSUME TypeOK, NEW c \in Calls,
         (\E s \in Sandboxes : DeleteStart(c, s)) \/ DeleteContainer(c) \/ DeleteVolume(c)
  PROVE  TypeOK'
<1> USE Serving, NoAge
<1>1. ASSUME NEW s \in Sandboxes, DeleteStart(c, s) PROVE TypeOK'
  <2> DEFINE r == [Resting EXCEPT !.kind = "delete", !.pc = "rm", !.id = s]
  <2>1. r \in Requests /\ Named(r)
    BY DEF Resting, Requests, Named
  <2>2. Orphaned(s) \in [Calls -> Requests] /\ \A k \in Calls : Named(Orphaned(s)[k])
    <3>1. ASSUME NEW k \in Calls
          PROVE  [call[k] EXCEPT !.dead = TRUE] \in Requests /\ Named([call[k] EXCEPT !.dead = TRUE])
      BY DEF TypeOK, CallsOK, Requests, Named
    <3>2. \A k \in Calls : call[k] \in Requests /\ Named(call[k])
      BY DEF TypeOK, CallsOK
    <3> QED BY <3>1, <3>2 DEF Orphaned
  <2>3. call' = [Orphaned(s) EXCEPT ![c] = r]
    BY <1>1 DEF DeleteStart
  <2>4. CallsOK' BY <2>1, <2>2, <2>3 DEF CallsOK
  <2>5. KnownOK' BY <1>1 DEF DeleteStart, TypeOK, KnownOK
  <2>6. SpacesOK' BY <1>1 DEF DeleteStart, TypeOK, SpacesOK
  <2>7. LocksOK' BY <1>1 DEF DeleteStart, TypeOK, LocksOK
  <2> QED BY <1>1, <2>4, <2>5, <2>6, <2>7, Untouched DEF DeleteStart, TypeOK
<1>2. CASE DeleteContainer(c)
  <2>1. CallsOK' BY <1>2, CallGoes DEF DeleteContainer, TypeOK
  <2>2. DockerOK' BY <1>2 DEF DeleteContainer, TypeOK, DockerOK, States
  <2> QED BY <1>2, <2>1, <2>2, Untouched DEF DeleteContainer, TypeOK
<1>3. CASE DeleteVolume(c)
  <2>1. CallsOK' BY <1>3, CallEnds DEF DeleteVolume, TypeOK
  <2>2. DockerOK' BY <1>3 DEF DeleteVolume, TypeOK, DockerOK
  <2>3. PortalOK' BY <1>3 DEF DeleteVolume, TypeOK, PortalOK
  <2> QED BY <1>3, <2>1, <2>2, <2>3, Untouched DEF DeleteVolume, TypeOK
<1> QED BY <1>1, <1>2, <1>3

LEMMA SweepRestTyped ==
  /\ SweepRest.pc = "rest" /\ SweepRest.left = {} /\ SweepRest.id = None
  /\ SweepRest.action = "stay" /\ SweepRest.found \in [Sandboxes -> States]
  BY DEF SweepRest, States

LEMMA DueTyped ==
  ASSUME NEW s \in Sandboxes
  PROVE  Due(s) \in {"stay", "pause", "stop", "remove"}
  BY DEF Due, decide

LEMMA SweepNextTyped ==
  ASSUME TypeOK, NEW phase \in {"boxes", "quiet"}, sweep' = SweepNext(phase)
  PROVE  SweepOK'
  BY DEF TypeOK, SweepOK, SweepNext

\* The sweep puts sandboxes to sleep.
LEMMA SleepsTyped ==
  ASSUME TypeOK, SweepStart \/ (\E s \in Sandboxes : SweepLook(s)) \/ SweepLock \/ SweepAct
  PROVE  TypeOK'
<1> USE NoAge
<1>1. CASE SweepStart
  <2>1. SweepOK' BY <1>1 DEF SweepStart, SweepRest, TypeOK, SweepOK, DockerOK
  <2> QED BY <1>1, <2>1, Untouched DEF SweepStart, TypeOK
<1>2. ASSUME NEW s \in Sandboxes, SweepLook(s) PROVE TypeOK'
  <2>1. SweepOK' BY <1>2, DueTyped DEF SweepLook, TypeOK, SweepOK
  <2> QED BY <1>2, <2>1, Untouched DEF SweepLook, TypeOK
<1>3. CASE SweepLock
  <2>1. SweepOK' BY <1>3, SweepNextTyped DEF SweepLock, TypeOK, SweepOK
  <2>2. LocksOK' BY <1>3 DEF SweepLock, TypeOK, LocksOK
  <2> QED BY <1>3, <2>1, <2>2, Untouched DEF SweepLock, TypeOK
<1>4. CASE SweepAct
  <2>1. SweepOK' BY <1>4, SweepNextTyped DEF SweepAct
  <2>2. LocksOK' BY <1>4 DEF SweepAct, TypeOK, LocksOK
  <2>3. DockerOK' BY <1>4 DEF SweepAct, TypeOK, DockerOK, States
  <2>4. KnownOK'
    <3>1. KeepRepoLabel(sweep.id) => KnownOK'
      BY DEF KeepRepoLabel, TypeOK, KnownOK, known
    <3> QED BY <1>4, <3>1, Untouched DEF SweepAct
  <2> QED BY <1>4, <2>1, <2>2, <2>3, <2>4, Untouched DEF SweepAct, TypeOK
<1> QED BY <1>1, <1>2, <1>3, <1>4

\* The sweep forgets removed sandboxes.
LEMMA ForgetsTyped ==
  ASSUME TypeOK,
         \/ ForgetStart \/ (\E s \in Sandboxes : ForgetLook(s)) \/ ForgetLock
         \/ ForgetVolume \/ SweepEnd
  PROVE  TypeOK'
<1> USE NoAge
<1>1. CASE ForgetStart
  <2>1. SweepOK' BY <1>1 DEF ForgetStart, SweepRest, States, TypeOK, SweepOK
  <2> QED BY <1>1, <2>1, Untouched DEF ForgetStart, TypeOK
<1>2. ASSUME NEW s \in Sandboxes, ForgetLook(s) PROVE TypeOK'
  <2>1. SweepOK' BY <1>2 DEF ForgetLook, TypeOK, SweepOK
  <2> QED BY <1>2, <2>1, Untouched DEF ForgetLook, TypeOK
<1>3. CASE ForgetLock
  <2>1. SweepOK' BY <1>3, SweepNextTyped DEF ForgetLock, TypeOK, SweepOK
  <2>2. LocksOK' BY <1>3 DEF ForgetLock, TypeOK, LocksOK
  <2> QED BY <1>3, <2>1, <2>2, Untouched DEF ForgetLock, TypeOK
<1>4. CASE ForgetVolume
  <2>1. SweepOK' BY <1>4, SweepNextTyped DEF ForgetVolume
  <2>2. LocksOK' BY <1>4 DEF ForgetVolume, TypeOK, LocksOK
  <2>3. DockerOK' BY <1>4 DEF ForgetVolume, TypeOK, DockerOK
  <2>4. KnownOK' BY <1>4 DEF ForgetVolume, TypeOK, KnownOK, known
  <2> QED BY <1>4, <2>1, <2>2, <2>3, <2>4, Untouched DEF ForgetVolume, TypeOK
<1>5. CASE SweepEnd
  <2>1. SweepOK' BY <1>5 DEF SweepEnd, SweepRest, States, SweepOK
  <2> QED BY <1>5, <2>1, Untouched DEF SweepEnd, TypeOK
<1> QED BY <1>1, <1>2, <1>3, <1>4, <1>5

\* The node restarts.
LEMMA RestartTyped ==
  ASSUME TypeOK, Restart
  PROVE  TypeOK'
<1>1. CallsOK' BY RestingTyped DEF Restart, CallsOK
<1>2. SweepOK' BY DEF Restart, SweepRest, States, SweepOK
<1>3. SpacesOK' BY DEF Restart, SpacesOK
<1>4. LocksOK' BY DEF Restart, LocksOK
<1>5. KnownOK' BY NoAge DEF Restart, TypeOK, KnownOK
<1>6. PortalOK'
  <2>1. \A s \in Sandboxes : Leaving(s) \in BOOLEAN
    BY DEF Leaving, TypeOK, PortalOK
  <2>2. deleted' \in [Sandboxes -> BOOLEAN]
    BY <2>1 DEF Restart
  <2>3. synced' \in [Sandboxes -> BOOLEAN]
    BY <2>1 DEF Restart, TypeOK, PortalOK
  <2>4. restarts' \in 0..MaxRestarts
    BY SleepAssumption DEF Restart, TypeOK, PortalOK
  <2> QED BY <2>2, <2>3, <2>4 DEF PortalOK
<1> QED BY <1>1, <1>2, <1>3, <1>4, <1>5, <1>6, Untouched DEF Restart, TypeOK

\* Time passes.
LEMMA TickTyped ==
  ASSUME TypeOK, Tick
  PROVE  TypeOK'
<1>1. \A age \in [Sandboxes -> Ages] : Older(age) \in [Sandboxes -> Ages]
  BY SleepAssumption DEF Older, Ages
<1>2. KnownOK'
  BY <1>1 DEF Tick, TypeOK, KnownOK
<1> QED BY <1>2, Untouched DEF Tick, TypeOK

\* Every variable stays in its type, whatever the requests, the sweep, deletes,
\* failures and restarts do.
THEOREM TypeInvariant == Spec => []TypeOK
<1>1. Init => TypeOK
  <2> SUFFICES ASSUME Init PROVE TypeOK
    OBVIOUS
  <2>1. DockerOK /\ KnownOK BY NoAge DEF Init, DockerOK, KnownOK, States
  <2>2. SpacesOK /\ LocksOK BY DEF Init, SpacesOK, LocksOK
  <2>3. CallsOK BY RestingTyped DEF Init, CallsOK
  <2>4. SweepOK BY DEF Init, SweepRest, States, SweepOK
  <2>5. PortalOK BY SleepAssumption DEF Init, PortalOK
  <2> QED BY <2>1, <2>2, <2>3, <2>4, <2>5 DEF TypeOK
<1>2. TypeOK /\ [Next]_vars => TypeOK'
  <2> SUFFICES ASSUME TypeOK, [Next]_vars PROVE TypeOK'
    OBVIOUS
  <2>1. ASSUME NEW c \in Calls, Serves(c) PROVE TypeOK'
    <3>1. CASE Arrives(c)
      BY <3>1, ArrivesTyped, DeletesTyped DEF Arrives
    <3>2. CASE Locks(c)
      BY <3>2, LocksTyped
    <3>3. CASE Proceeds(c)
      BY <3>3, WakesTyped, RoomTyped, BringsUpTyped, WorksTyped, DeletesTyped DEF Proceeds
    <3>4. CASE TurnOutput(c) \/ TurnEnd(c)
      BY <3>4, WorksTyped
    <3> QED BY <2>1, <3>1, <3>2, <3>3, <3>4 DEF Serves
  <2>2. CASE Sweeps
    BY <2>2, SleepsTyped, ForgetsTyped DEF Sweeps
  <2>3. CASE Restart
    BY <2>3, RestartTyped
  <2>4. CASE Tick
    BY <2>4, TickTyped
  <2>5. CASE UNCHANGED vars
    BY <2>5, Untouched DEF TypeOK, vars
  <2> QED BY <2>1, <2>2, <2>3, <2>4, <2>5 DEF Next
<1> QED BY <1>1, <1>2, PTL DEF Spec

----------------------------------------------------------------------------
\* The node's cap

LEMMA AwakeFinite == IsFiniteSet(Awake)
<1>1. Awake \subseteq Sandboxes
  BY DEF Awake
<1> QED BY <1>1, FS_Subset, SleepAssumption

\* A step that wakes nothing, hands s.room to no one unduly, and leaves nobody
\* making room with more to stop than before.
LEMMA CapKept ==
  ASSUME CapInv, Awake' \subseteq Awake, RoomHeld',
         \A k \in Calls : call'[k].pc \in {"evict", "stop"}
           => /\ call[k].pc \in {"evict", "stop"}
              /\ Awake' \ (call'[k].evict \cup {call'[k].id})
                   \subseteq Awake \ (call[k].evict \cup {call[k].id})
  PROVE  CapInv'
<1>1. \A S, T : IsFiniteSet(S) /\ T \subseteq S => Cardinality(T) \in Nat /\ Cardinality(S) \in Nat /\ Cardinality(T) <= Cardinality(S)
  BY FS_Subset, FS_CardinalityType
<1>2. AwakeCap'
  <2>1. Cardinality(Awake') \in Nat /\ Cardinality(Awake) \in Nat /\ Cardinality(Awake') <= Cardinality(Awake)
    BY <1>1, AwakeFinite
  <2> QED BY <2>1, SleepAssumption DEF CapInv, AwakeCap
<1>3. RoomMade'
  <2> SUFFICES ASSUME NEW k \in Calls, call'[k].pc \in {"evict", "stop"}
               PROVE  Cardinality(Awake' \ (call'[k].evict \cup {call'[k].id})) < PerNode
    BY DEF RoomMade
  <2> DEFINE S == Awake \ (call[k].evict \cup {call[k].id})
             T == Awake' \ (call'[k].evict \cup {call'[k].id})
  <2>1. T \subseteq S /\ Cardinality(S) < PerNode
    BY DEF CapInv, RoomMade
  <2>2. IsFiniteSet(S)
    BY AwakeFinite, FS_Difference
  <2>3. Cardinality(T) \in Nat /\ Cardinality(S) \in Nat /\ Cardinality(T) <= Cardinality(S)
    BY <1>1, <2>1, <2>2
  <2> QED BY <2>1, <2>3, SleepAssumption
<1> QED BY <1>2, <1>3 DEF CapInv

\* A request that is not making room afterwards does not disturb one that is.
LEMMA CapAside ==
  ASSUME CapInv, NEW c \in Calls, Awake' \subseteq Awake,
         call'[c].pc \notin {"plan", "evict", "stop"},
         \A k \in Calls \ {c} : /\ call'[k].pc = call[k].pc
                               /\ call'[k].id = call[k].id
                               /\ call'[k].evict = call[k].evict,
         room' = room \/ room = c
  PROVE  CapInv'
<1>1. RoomHeld'
  BY DEF CapInv, RoomHeld
<1> QED BY <1>1, CapKept

\* So does everything that leaves requests and s.room alone.
LEMMA CapApart ==
  ASSUME CapInv, Awake' \subseteq Awake, call' = call, room' = room
  PROVE  CapInv'
<1>1. RoomHeld'
  BY DEF CapInv, RoomHeld
<1> QED BY <1>1, CapKept

LEMMA CapFail ==
  ASSUME TypeOK, CapInv, NEW c \in Calls, Fail(c)
  PROVE  CapInv'
<1>1. Awake' = Awake
  BY DEF Fail, docker, Awake
<1>2. /\ call'[c].pc = "idle"
      /\ \A k \in Calls \ {c} : call'[k] = call[k]
  BY DEF Fail, End, Resting, TypeOK, CallsOK
<1>3. room' = room \/ room = c
  BY DEF Fail, ReleaseAll, ReleaseWake
<1> QED BY <1>1, <1>2, <1>3, CapAside

\* What c's own step does to its request leaves the others' alone.
LEMMA OthersKept ==
  ASSUME NEW c \in Calls, NEW r, call' = [call EXCEPT ![c] = r]
  PROVE  \A k \in Calls \ {c} : call'[k] = call[k]
  OBVIOUS

\* Steps of one request that take no slot and leave it not making room.
LEMMA CapArrives ==
  ASSUME TypeOK, CapInv, NEW c \in Calls, Arrives(c)
  PROVE  CapInv' /\ Awake' \subseteq Awake
<1>1. PICK s \in Sandboxes :
        EnsureStart(c, s) \/ TurnStart(c, s) \/ FileStart(c, s) \/ DeleteStart(c, s)
  BY DEF Arrives
<1>2. Awake' = Awake /\ room' = room
  BY <1>1 DEF EnsureStart, TurnStart, FileStart, DeleteStart, docker, locks, Awake
<1>3. /\ call'[c].pc \notin {"plan", "evict", "stop"}
      /\ \A k \in Calls \ {c} : /\ call'[k].pc = call[k].pc
                               /\ call'[k].id = call[k].id
                               /\ call'[k].evict = call[k].evict
  <2>1. CASE EnsureStart(c, s) \/ TurnStart(c, s) \/ FileStart(c, s)
    BY <2>1 DEF EnsureStart, TurnStart, FileStart, Begin, Resting, TypeOK, CallsOK
  <2>2. CASE DeleteStart(c, s)
    <3>1. \A k \in Calls : call[k] \in Requests
      BY DEF TypeOK, CallsOK
    <3>2. \A k \in Calls : /\ Orphaned(s)[k].pc = call[k].pc
                           /\ Orphaned(s)[k].id = call[k].id
                           /\ Orphaned(s)[k].evict = call[k].evict
      BY <3>1 DEF Orphaned, Requests
    <3>3. call' = [Orphaned(s) EXCEPT ![c] = [Resting EXCEPT !.kind = "delete", !.pc = "rm", !.id = s]]
      BY <2>2 DEF DeleteStart
    <3> QED BY <3>2, <3>3 DEF Orphaned, Resting
  <2> QED BY <1>1, <2>1, <2>2
<1> QED BY <1>2, <1>3, CapAside

LEMMA CapRemember ==
  ASSUME TypeOK, CapInv, NEW c \in Calls, EnsureRemember(c) \/ WakeLock(c)
  PROVE  CapInv' /\ Awake' = Awake
<1>1. Awake' = Awake /\ room' = room
  BY DEF EnsureRemember, WakeLock, docker, Awake
<1>2. /\ call'[c].pc \notin {"plan", "evict", "stop"}
      /\ \A k \in Calls \ {c} : call'[k] = call[k]
  BY DEF EnsureRemember, WakeLock, Goto, TypeOK, CallsOK, Requests
<1> QED BY <1>1, <1>2, CapAside

LEMMA CapWakes ==
  ASSUME TypeOK, CapInv, NEW c \in Calls, WakeAwake(c) \/ WakeAsleep(c) \/ WakeGone(c)
  PROVE  CapInv' /\ Awake' = Awake
<1>1. CASE WakeAwake(c)
  <2>1. Awake' = Awake
    BY <1>1, Serving DEF WakeAwake, TypeOK, DockerOK, Awake
  <2>2. room' = room \/ room = c
    BY <1>1 DEF WakeAwake, ReleaseWake
  <2>3. /\ call'[c].pc \notin {"plan", "evict", "stop"}
        /\ \A k \in Calls \ {c} : call'[k] = call[k]
    BY <1>1 DEF WakeAwake, Goto, TypeOK, CallsOK, Requests
  <2> QED BY <2>1, <2>2, <2>3, CapAside
<1>2. CASE WakeAsleep(c)
  <2>1. Awake' = Awake /\ room' = room
    BY <1>2 DEF WakeAsleep, docker, locks, Awake
  <2>2. /\ call'[c].pc \notin {"plan", "evict", "stop"}
        /\ \A k \in Calls \ {c} : call'[k] = call[k]
    BY <1>2 DEF WakeAsleep, TypeOK, CallsOK, Requests
  <2> QED BY <2>1, <2>2, CapAside
<1>3. CASE WakeGone(c)
  <2>1. CASE call[c].kind = "ensure"
    <3>1. Awake' = Awake /\ (room' = room \/ room = c)
      BY <1>3, <2>1 DEF WakeGone, ReleaseWake, docker, Awake
    <3>2. /\ call'[c].pc \notin {"plan", "evict", "stop"}
          /\ \A k \in Calls \ {c} : call'[k] = call[k]
      BY <1>3, <2>1 DEF WakeGone, TypeOK, CallsOK, Requests
    <3> QED BY <3>1, <3>2, CapAside
  <2>2. CASE Fail(c)
    BY <2>2, CapFail DEF Fail, docker, Awake
  <2> QED BY <1>3, <2>1, <2>2 DEF WakeGone
<1> QED BY <1>1, <1>2, <1>3

\* Taking s.room, choosing, and stopping what was chosen.
LEMMA CapRoom ==
  ASSUME TypeOK, CapInv, NEW c \in Calls,
         \/ RoomLock(c) \/ MakeRoom(c) \/ RoomRefused(c)
         \/ (\E v \in Sandboxes : EvictLock(c, v)) \/ EvictStop(c)
  PROVE  CapInv' /\ Awake' \subseteq Awake
<1>0. call[c] \in Requests
  BY DEF TypeOK, CallsOK
<1>1. CASE RoomLock(c)
  <2>1. Awake' = Awake
    BY <1>1 DEF RoomLock, docker, Awake
  <2>2. /\ call'[c].pc = "plan"
        /\ \A k \in Calls \ {c} : call'[k] = call[k]
    BY <1>0, <1>1 DEF RoomLock, Goto, TypeOK, CallsOK, Requests
  <2>3. RoomHeld'
    <3>1. \A k \in Calls \ {c} : call[k].pc \notin {"plan", "evict", "stop"}
      BY <1>1, SleepAssumption DEF RoomLock, CapInv, RoomHeld
    <3> QED BY <1>1, <2>2, <3>1 DEF RoomLock, RoomHeld
  <2> QED BY <2>1, <2>2, <2>3, CapKept
<1>2. CASE MakeRoom(c)
  <2>1. PICK E \in planRoom(call[c].id) :
          call' = [call EXCEPT ![c].pc = "evict", ![c].evict = E]
    BY <1>2 DEF MakeRoom
  <2>2. /\ call'[c].pc = "evict" /\ call'[c].evict = E /\ call'[c].id = call[c].id
        /\ \A k \in Calls \ {c} : call'[k] = call[k]
    BY <1>0, <2>1 DEF TypeOK, CallsOK, Requests
  <2>3. Awake' = Awake /\ room' = room
    BY <1>2 DEF MakeRoom, docker, locks, Awake
  <2>4. RoomHeld'
    BY <1>2, <2>2, <2>3 DEF MakeRoom, CapInv, RoomHeld
  <2>5. Cardinality(Awake \ (E \cup {call[c].id})) < PerNode
    BY <1>2, RoomEnough, Serving DEF MakeRoom
  <2>6. RoomMade'
    <3> SUFFICES ASSUME NEW k \in Calls, call'[k].pc \in {"evict", "stop"}
                 PROVE  Cardinality(Awake' \ (call'[k].evict \cup {call'[k].id})) < PerNode
      BY DEF RoomMade
    <3>1. CASE k = c
      BY <3>1, <2>2, <2>3, <2>5
    <3>2. CASE k # c
      BY <3>2, <2>2, <2>3 DEF CapInv, RoomMade
    <3> QED BY <3>1, <3>2
  <2> QED BY <2>3, <2>4, <2>6 DEF CapInv, AwakeCap
<1>3. CASE RoomRefused(c)
  BY <1>3, CapFail DEF RoomRefused, Fail, docker, Awake
<1>4. ASSUME NEW v \in Sandboxes, EvictLock(c, v) PROVE CapInv' /\ Awake' = Awake
  <2>1. CASE Fail(c)
    BY <2>1, CapFail DEF Fail, docker, Awake
  <2>2. CASE wakeLock[v] = None
    <3>1. Awake' = Awake /\ room' = room
      BY <1>4, <2>2 DEF EvictLock, docker, Awake
    <3>2. call[c].pc = "evict" /\ call' = [call EXCEPT ![c].pc = "stop", ![c].victim = v]
      BY <1>4, <2>2 DEF EvictLock
    <3>3. /\ call'[c].pc = "stop" /\ call'[c].evict = call[c].evict /\ call'[c].id = call[c].id
          /\ \A k \in Calls \ {c} : call'[k] = call[k]
      BY <1>0, <3>2 DEF TypeOK, CallsOK, Requests
    <3>4. RoomHeld'
      BY <3>1, <3>2, <3>3 DEF CapInv, RoomHeld
    <3> QED BY <3>1, <3>2, <3>3, <3>4, CapKept
  <2> QED BY <1>4, <2>1, <2>2 DEF EvictLock
<1>5. CASE EvictStop(c)
  <2> DEFINE v == call[c].victim
  <2>1. CASE Fail(c)
    BY <2>1, CapFail DEF Fail, docker, Awake
  <2>2. CASE container[v] # "none"
    <3>1. /\ room' = room /\ call[c].pc = "stop"
          /\ container' = [container EXCEPT ![v] = "exited"]
          /\ call' = [call EXCEPT ![c].pc = "evict", ![c].victim = None, ![c].evict = @ \ {v}]
      BY <1>5, <2>2 DEF EvictStop
    <3>2. Awake' = Awake \ {v}
      BY <3>1 DEF Awake, TypeOK, DockerOK
    <3>3. /\ call'[c].pc = "evict" /\ call'[c].evict = call[c].evict \ {v} /\ call'[c].id = call[c].id
          /\ \A k \in Calls \ {c} : call'[k] = call[k]
      BY <1>0, <3>1 DEF TypeOK, CallsOK, Requests
    <3>4. RoomHeld'
      BY <3>1, <3>3 DEF CapInv, RoomHeld
    <3> HIDE DEF v
    <3>5. Awake' \subseteq Awake
          /\ \A k \in Calls : call'[k].pc \in {"evict", "stop"}
               => /\ call[k].pc \in {"evict", "stop"}
                  /\ Awake' \ (call'[k].evict \cup {call'[k].id})
                       \subseteq Awake \ (call[k].evict \cup {call[k].id})
      BY <3>1, <3>2, <3>3
    <3> QED BY <3>4, <3>5, CapKept
  <2> QED BY <1>5, <2>1, <2>2 DEF EvictStop
<1> QED BY <1>1, <1>2, <1>3, <1>4, <1>5 DEF RoomLock, MakeRoom, docker, Awake

\* Bringing a sandbox up takes the slot that was made for it.
LEMMA CapBringsUp ==
  ASSUME TypeOK, CapInv, NEW c \in Calls, BringUp(c) \/ BringUpRefused(c) \/ BringUpFails(c)
  PROVE  /\ CapInv'
         /\ \/ Awake' \subseteq Awake
            \/ \E s \in Sandboxes : /\ Awake' = Awake \cup {s}
                                   /\ Cardinality(Awake \cup {s}) <= PerNode
<1>1. CASE BringUpRefused(c)
  <2>1. Fail(c)
    BY <1>1 DEF BringUpRefused
  <2> QED BY <2>1, CapFail DEF Fail, docker, Awake
<1>2. CASE BringUp(c) \/ BringUpFails(c)
  <2> DEFINE s == call[c].id
  <2>1. /\ call[c] \in Requests /\ s \in Sandboxes /\ room = c
        /\ call[c].pc = "evict" /\ call[c].evict = {}
    BY <1>2, Serving DEF BringUp, BringUpFails, CapInv, RoomHeld
  <2>2. Cardinality(Awake \cup {s}) <= PerNode
    <3>1. Cardinality(Awake \ ({} \cup {s})) < PerNode
      BY <2>1 DEF CapInv, RoomMade
    <3>2. Awake \ ({} \cup {s}) = Awake \ {s} /\ Awake \cup {s} = (Awake \ {s}) \cup {s} /\ s \notin Awake \ {s}
      OBVIOUS
    <3>3. IsFiniteSet(Awake \ {s})
      BY AwakeFinite, FS_RemoveElement
    <3>4. Cardinality((Awake \ {s}) \cup {s}) = Cardinality(Awake \ {s}) + 1
      BY <3>2, <3>3, FS_AddElement
    <3>5. Cardinality(Awake \ {s}) \in Nat
      BY <3>3, FS_CardinalityType
    <3>6. Cardinality(Awake \ {s}) < PerNode
      BY <3>1, <3>2
    <3>7. PerNode \in Nat
      BY SleepAssumption
    <3>8. Awake \cup {s} = (Awake \ {s}) \cup {s}
      BY <3>2
    <3>9. \A m, n \in Nat : m < n => m + 1 <= n
      OBVIOUS
    <3> QED BY <3>4, <3>5, <3>6, <3>7, <3>8, <3>9
  <2>3. Awake' = Awake \/ Awake' = Awake \cup {s}
    <3>1. \/ container' = container
          \/ container' = [container EXCEPT ![s] = "running"]
          \/ container[s] = "none" /\ container' = [container EXCEPT ![s] = "exited"]
      BY <1>2 DEF BringUp, BringUpFails
    <3>2. CASE container[s] = "none" /\ container' = [container EXCEPT ![s] = "exited"]
      BY <3>2, <2>1 DEF Awake, TypeOK, DockerOK
    <3> QED BY <3>1, <3>2, <2>1 DEF Awake, TypeOK, DockerOK
  <2>4. call'[c].pc \notin {"plan", "evict", "stop"} /\ \A k \in Calls \ {c} : call'[k] = call[k]
    BY <1>2, <2>1 DEF BringUp, BringUpFails, End, Resting, Requests, TypeOK, CallsOK
  <2>5. \A k \in Calls : call'[k].pc \notin {"plan", "evict", "stop"}
    BY <2>1, <2>4 DEF CapInv, RoomHeld
  <2>6. AwakeCap'
    BY <2>2, <2>3 DEF CapInv, AwakeCap
  <2>7. RoomHeld' /\ RoomMade'
    BY <2>5 DEF RoomHeld, RoomMade
  <2> QED BY <2>1, <2>2, <2>3, <2>6, <2>7 DEF CapInv
<1> QED BY <1>1, <1>2

\* Steps that take no slot.
LEMMA CapWorks ==
  ASSUME TypeOK, CapInv, NEW c \in Calls,
         EnsureAnswer(c) \/ EnsureFails(c) \/ FileDone(c) \/ TurnBusy(c) \/ TurnOutput(c) \/ TurnEnd(c)
  PROVE  CapInv' /\ Awake' = Awake
<1>1. CASE EnsureFails(c)
  <2>1. Fail(c)
    BY <1>1 DEF EnsureFails
  <2> QED BY <2>1, CapFail DEF Fail, docker, Awake
<1>2. CASE TurnOutput(c)
  <2>1. Awake' = Awake /\ call' = call /\ room' = room
    BY <1>2 DEF TurnOutput, docker, locks, Awake
  <2> QED BY <2>1, CapApart
<1>3. CASE EnsureAnswer(c) \/ FileDone(c) \/ TurnBusy(c) \/ TurnEnd(c)
  <2>1. Awake' = Awake
    BY <1>3 DEF EnsureAnswer, FileDone, TurnBusy, TurnEnd, docker, Awake
  <2>2. room' = room \/ room = c
    BY <1>3 DEF EnsureAnswer, FileDone, TurnBusy, TurnEnd, ReleaseAll, ReleaseWake, locks
  <2>3. /\ call'[c].pc \notin {"plan", "evict", "stop"}
        /\ \A k \in Calls \ {c} : call'[k] = call[k]
    BY <1>3 DEF EnsureAnswer, FileDone, TurnBusy, TurnEnd, End, Goto, Resting, Requests, TypeOK, CallsOK
  <2> QED BY <2>1, <2>2, <2>3, CapAside
<1> QED BY <1>1, <1>2, <1>3

LEMMA CapDeletes ==
  ASSUME TypeOK, CapInv, NEW c \in Calls, DeleteContainer(c) \/ DeleteVolume(c)
  PROVE  CapInv' /\ Awake' \subseteq Awake
<1>1. Awake' \subseteq Awake
  <2>1. container' = container \/ container' = [container EXCEPT ![call[c].id] = "none"]
    BY DEF DeleteContainer, DeleteVolume
  <2> QED BY <2>1 DEF Awake, TypeOK, DockerOK
<1>2. room' = room
  BY DEF DeleteContainer, DeleteVolume, locks
<1>3. /\ call'[c].pc \notin {"plan", "evict", "stop"}
      /\ \A k \in Calls \ {c} : call'[k] = call[k]
  BY DEF DeleteContainer, DeleteVolume, End, Goto, Resting, Requests, TypeOK, CallsOK
<1> QED BY <1>1, <1>2, <1>3, CapAside

LEMMA CapSweeps ==
  ASSUME TypeOK, CapInv, Sweeps
  PROVE  CapInv' /\ Awake' \subseteq Awake
<1>1. call' = call /\ room' = room
  BY DEF Sweeps, SweepStart, SweepLook, SweepLock, SweepAct, ForgetStart, ForgetLook, ForgetLock,
         ForgetVolume, SweepEnd, locks
<1>2. Awake' \subseteq Awake
  <2>1. CASE SweepAct
    BY <2>1 DEF SweepAct, Awake, TypeOK, DockerOK
  <2>2. CASE container' = container
    BY <2>2 DEF Awake
  <2> QED BY <2>1, <2>2 DEF Sweeps, SweepStart, SweepLook, SweepLock, ForgetStart, ForgetLook,
                            ForgetLock, ForgetVolume, SweepEnd, docker
<1> QED BY <1>1, <1>2, CapApart

LEMMA CapRestart ==
  ASSUME CapInv, Restart \/ Tick \/ UNCHANGED vars
  PROVE  CapInv' /\ Awake' = Awake
<1>1. Awake' = Awake
  BY DEF Restart, Tick, vars, docker, Awake
<1>2. CASE Restart
  <2>1. \A k \in Calls : call'[k].pc = "idle"
    BY <1>2 DEF Restart, Resting
  <2> QED BY <1>1, <2>1 DEF CapInv, AwakeCap, RoomHeld, RoomMade
<1>3. CASE Tick \/ UNCHANGED vars
  <2>1. call' = call /\ room' = room
    BY <1>3 DEF Tick, vars, locks
  <2> QED BY <1>1, <2>1, CapApart
<1> QED BY <1>1, <1>2, <1>3

\* Every step keeps the cap, and takes at most one sandbox's slot, within it.
LEMMA CapStep ==
  ASSUME TypeOK, CapInv, [Next]_vars
  PROVE  /\ CapInv'
         /\ \/ Awake' \subseteq Awake
            \/ \E s \in Sandboxes : /\ Awake' = Awake \cup {s}
                                   /\ Cardinality(Awake \cup {s}) <= PerNode
<1>1. ASSUME NEW c \in Calls, Serves(c)
      PROVE  /\ CapInv'
             /\ \/ Awake' \subseteq Awake
                \/ \E s \in Sandboxes : /\ Awake' = Awake \cup {s}
                                       /\ Cardinality(Awake \cup {s}) <= PerNode
  <2>1. CASE Arrives(c)
    BY <2>1, CapArrives
  <2>2. CASE Locks(c)
    BY <2>2, CapRemember, CapRoom DEF Locks
  <2>3. CASE WakeAwake(c) \/ WakeAsleep(c) \/ WakeGone(c)
    BY <2>3, CapWakes
  <2>4. CASE MakeRoom(c) \/ RoomRefused(c) \/ (\E v \in Sandboxes : EvictLock(c, v)) \/ EvictStop(c)
    BY <2>4, CapRoom
  <2>5. CASE BringUp(c) \/ BringUpRefused(c) \/ BringUpFails(c)
    BY <2>5, CapBringsUp
  <2>6. CASE EnsureAnswer(c) \/ EnsureFails(c) \/ FileDone(c) \/ TurnBusy(c) \/ TurnOutput(c) \/ TurnEnd(c)
    BY <2>6, CapWorks
  <2>7. CASE DeleteContainer(c) \/ DeleteVolume(c)
    BY <2>7, CapDeletes
  <2> QED BY <1>1, <2>1, <2>2, <2>3, <2>4, <2>5, <2>6, <2>7 DEF Serves, Proceeds
<1>2. CASE Sweeps
  BY <1>2, CapSweeps
<1>3. CASE Restart \/ Tick \/ UNCHANGED vars
  BY <1>3, CapRestart
<1> QED BY <1>1, <1>2, <1>3 DEF Next

LEMMA CapStarts ==
  ASSUME Init
  PROVE  CapInv /\ Awake = {}
<1>1. Awake = {}
  BY DEF Init, Awake
<1>2. AwakeCap
  BY <1>1, FS_EmptySet, SleepAssumption DEF AwakeCap
<1>3. \A c \in Calls : call[c].pc = "idle"
  BY DEF Init, Resting
<1> QED BY <1>1, <1>2, <1>3 DEF CapInv, RoomHeld, RoomMade

\* limits.go: room made for a sandbox stays made until it has taken it.
THEOREM CapInvariant == Spec => []CapInv
<1>1. Init => CapInv
  BY CapStarts
<1>2. TypeOK /\ CapInv /\ [Next]_vars => CapInv'
  BY CapStep
<1> QED BY <1>1, <1>2, TypeInvariant, PTL DEF Spec

\* limits.go: the node never has more sandboxes awake than its cap.
THEOREM NodeCap == Spec => []AwakeCap
<1>1. CapInv => AwakeCap
  BY DEF CapInv
<1> QED BY <1>1, CapInvariant, PTL

\* limits.go: sandboxes take the node's slots one at a time, as AwakeSlots has it.
THEOREM SlotsTaken == Spec => TakesSlots
<1>1. Init => Slots!Init
  BY CapStarts DEF Slots!Init
<1>2. TypeOK /\ CapInv /\ [Next]_vars => [Slots!Next]_Awake
  <2> SUFFICES ASSUME TypeOK, CapInv, [Next]_vars PROVE [Slots!Next]_Awake
    OBVIOUS
  <2>1. CASE Awake' \subseteq Awake
    <3>1. Awake' = Awake \ (Awake \ Awake') /\ Awake \ Awake' \in SUBSET Awake
      BY <2>1
    <3>2. Slots!Sleep
      BY <3>1 DEF Slots!Sleep
    <3> QED BY <3>2 DEF Slots!Next
  <2>2. CASE \E s \in Sandboxes : Awake' = Awake \cup {s} /\ Cardinality(Awake \cup {s}) <= PerNode
    <3>1. PICK s \in Sandboxes : Awake' = Awake \cup {s} /\ Cardinality(Awake \cup {s}) <= PerNode
      BY <2>2
    <3>2. Slots!Wake(s)
      BY <3>1 DEF Slots!Wake, Cardinality, Slots!Cardinality, IsFiniteSet, Slots!IsFiniteSet
    <3> QED BY <3>2 DEF Slots!Next
  <2> QED BY <2>1, <2>2, CapStep
<1> QED BY <1>1, <1>2, TypeInvariant, CapInvariant, PTL DEF Spec, TakesSlots, Slots!Spec

----------------------------------------------------------------------------
\* The sweep and the requests it must spare

Waking == {"look", "room", "plan", "evict", "stop"}
Guest(c) == call[c].kind \in {"turn", "file"}

\* Who brings a sandbox back for a turn or a file holds its wake lock all the while.
WakesLocked == \A c \in Calls : Guest(c) /\ call[c].pc \in Waking => wakeLock[call[c].id] = c

\* So does who stops one to make room, and it is not the one room is made for.
StopsLocked == \A c \in Calls : call[c].pc = "stop" =>
  wakeLock[call[c].victim] = c /\ (Guest(c) => call[c].victim # call[c].id)

\* The sweep acts under the lock, on what was quiet when it took it.
SweepLocked ==
  /\ sweep.pc \in {"act", "forget"} => wakeLock[sweep.id] = Sweeper
  /\ sweep.pc = "lock" => sweep.action # "stay"
  /\ sweep.pc \in {"quiet", "forgetlock", "forget"} => ForgetAfter # 0

\* What is being brought back was used a moment ago, by a workspace that is still there.
JustUsed == \A c \in Calls :
  Guest(c) /\ ~call[c].dead /\ call[c].pc \in Waking \cup {"woken"} => quiet[call[c].id] = 0

\* A sandbox with a turn is busy, and has no other.
TurnsBusy == \A c \in Calls : call[c].pc = "turn" /\ ~call[c].dead =>
  /\ busy[call[c].id]
  /\ \A k \in Calls \ {c} : call[k].pc = "turn" /\ ~call[k].dead => call[k].id # call[c].id

\* c has the use of a sandbox.
Uses(c) == ~call[c].dead /\ (call[c].pc = "turn" \/ (call[c].pc = "woken" /\ Guest(c)))

Spared == sweep.pc \in {"act", "forget"} => \A c \in Calls : Uses(c) => call[c].id # sweep.id

UsedInv == WakesLocked /\ StopsLocked /\ SweepLocked /\ JustUsed /\ TurnsBusy /\ Spared

\* A request moves: what it holds, has touched and uses is as it should be, and nobody else is concerned.
LEMMA Moves ==
  ASSUME TypeOK, UsedInv, NEW c \in Calls, \A k \in Calls \ {c} : call'[k] = call[k], sweep' = sweep,
         \A s \in Sandboxes : wakeLock'[s] = wakeLock[s] \/ wakeLock[s] \in {c, None},
         \A s \in Sandboxes : quiet'[s] = quiet[s] \/ quiet'[s] = 0,
         \A s \in Sandboxes : busy[s] => busy'[s] \/ (call[c].pc = "turn" /\ ~call[c].dead /\ s = call[c].id),
         Guest(c)' /\ call'[c].pc \in Waking => wakeLock'[call'[c].id] = c,
         call'[c].pc = "stop" =>
           wakeLock'[call'[c].victim] = c /\ (Guest(c)' => call'[c].victim # call'[c].id),
         Guest(c)' /\ ~call'[c].dead /\ call'[c].pc \in Waking \cup {"woken"} => quiet'[call'[c].id] = 0,
         call'[c].pc = "turn" /\ ~call'[c].dead =>
           /\ busy'[call'[c].id]
           /\ \A k \in Calls \ {c} : call[k].pc = "turn" /\ ~call[k].dead => call[k].id # call'[c].id,
         Uses(c)' /\ sweep.pc \in {"act", "forget"} => call'[c].id # sweep.id
  PROVE  UsedInv'
<1>0. /\ \A k \in Calls : call[k].pc # "idle" => call[k].id \in Sandboxes
      /\ \A k \in Calls : call[k].pc = "stop" => call[k].victim \in Sandboxes
      /\ sweep.pc \in {"act", "forget"} => sweep.id \in Sandboxes
      /\ None \notin Calls /\ Sweeper \notin Calls /\ Sweeper # None
  BY SleepAssumption DEF TypeOK, CallsOK, Named, SweepOK
<1>1. WakesLocked'
  <2> SUFFICES ASSUME NEW k \in Calls, Guest(k)', call'[k].pc \in Waking PROVE wakeLock'[call'[k].id] = k
    BY DEF WakesLocked
  <2>1. CASE k # c
    <3>1. Guest(k) /\ call[k].pc \in Waking /\ call'[k] = call[k]
      BY <2>1 DEF Guest
    <3>2. wakeLock[call[k].id] = k /\ call[k].id \in Sandboxes
      BY <1>0, <3>1 DEF UsedInv, WakesLocked, Waking
    <3> QED BY <1>0, <2>1, <3>1, <3>2
  <2> QED BY <2>1
<1>2. StopsLocked'
  <2> SUFFICES ASSUME NEW k \in Calls, call'[k].pc = "stop"
               PROVE  wakeLock'[call'[k].victim] = k /\ (Guest(k)' => call'[k].victim # call'[k].id)
    BY DEF StopsLocked
  <2>1. CASE k # c
    <3>1. call[k].pc = "stop" /\ call'[k] = call[k]
      BY <2>1
    <3>2. /\ wakeLock[call[k].victim] = k /\ call[k].victim \in Sandboxes
          /\ Guest(k) => call[k].victim # call[k].id
      BY <1>0, <3>1 DEF UsedInv, StopsLocked
    <3> QED BY <1>0, <2>1, <3>1, <3>2 DEF Guest
  <2> QED BY <2>1
<1>3. SweepLocked'
  BY <1>0 DEF UsedInv, SweepLocked
<1>4. JustUsed'
  <2> SUFFICES ASSUME NEW k \in Calls, Guest(k)', ~call'[k].dead, call'[k].pc \in Waking \cup {"woken"}
               PROVE  quiet'[call'[k].id] = 0
    BY DEF JustUsed
  <2>1. CASE k # c
    <3>1. Guest(k) /\ call'[k] = call[k] /\ call[k].id \in Sandboxes
      BY <1>0, <2>1 DEF Guest, Waking
    <3>2. quiet[call[k].id] = 0
      BY <3>1 DEF UsedInv, JustUsed
    <3> QED BY <3>1, <3>2
  <2> QED BY <2>1
<1>5. TurnsBusy'
  <2> SUFFICES ASSUME NEW k \in Calls, call'[k].pc = "turn", ~call'[k].dead
               PROVE  /\ busy'[call'[k].id]
                      /\ \A j \in Calls \ {k} : call'[j].pc = "turn" /\ ~call'[j].dead => call'[j].id # call'[k].id
    BY DEF TurnsBusy
  <2>1. CASE k # c
    <3>1. /\ call'[k] = call[k] /\ call[k].id \in Sandboxes /\ busy[call[k].id]
          /\ \A j \in Calls \ {k} : call[j].pc = "turn" /\ ~call[j].dead => call[j].id # call[k].id
      BY <1>0, <2>1 DEF UsedInv, TurnsBusy
    <3>2. busy'[call[k].id]
      BY <2>1, <3>1
    <3> QED BY <2>1, <3>1, <3>2
  <2>2. CASE k = c
    BY <2>2
  <2> QED BY <2>1, <2>2
<1>6. Spared'
  BY DEF UsedInv, Spared, Uses, Guest
<1> QED BY <1>1, <1>2, <1>3, <1>4, <1>5, <1>6 DEF UsedInv

\* Whose call is replaced.
LEMMA OneReplaced ==
  ASSUME TypeOK, NEW c \in Calls, NEW r, call' = [call EXCEPT ![c] = r]
  PROVE  call'[c] = r /\ \A k \in Calls \ {c} : call'[k] = call[k]
BY DEF TypeOK, CallsOK

LEMMA OneGoes ==
  ASSUME TypeOK, NEW c \in Calls, NEW pc, Goto(c, pc)
  PROVE  /\ call'[c] = [call[c] EXCEPT !.pc = pc] /\ \A k \in Calls \ {c} : call'[k] = call[k]
         /\ call'[c].pc = pc /\ call'[c].kind = call[c].kind /\ call'[c].id = call[c].id /\ call'[c].dead = call[c].dead
         /\ call'[c].victim = call[c].victim
BY DEF TypeOK, CallsOK, Requests, Goto

LEMMA LocksLetGo ==
  ASSUME TypeOK, NEW c \in Calls, ReleaseWake(c)
  PROVE  \A s \in Sandboxes : wakeLock'[s] = wakeLock[s] \/ wakeLock[s] = c
BY DEF TypeOK, LocksOK, ReleaseWake, Without

\* A request that ends lets go of its locks.
LEMMA EndsAside ==
  ASSUME TypeOK, UsedInv, NEW c \in Calls, End(c), sweep' = sweep,
         ReleaseWake(c) \/ UNCHANGED wakeLock,
         \A s \in Sandboxes : quiet'[s] = quiet[s] \/ quiet'[s] = 0,
         \A s \in Sandboxes : busy[s] => busy'[s] \/ (call[c].pc = "turn" /\ ~call[c].dead /\ s = call[c].id)
  PROVE  UsedInv'
<1>1. call'[c] = Resting /\ \A k \in Calls \ {c} : call'[k] = call[k]
  BY OneReplaced DEF End
<1>2. call'[c].pc = "idle"
  BY <1>1 DEF Resting
<1>3. \A s \in Sandboxes : wakeLock'[s] = wakeLock[s] \/ wakeLock[s] \in {c, None}
  BY LocksLetGo
<1>4. /\ ~(Guest(c)' /\ call'[c].pc \in Waking) /\ call'[c].pc # "stop" /\ call'[c].pc # "turn"
      /\ call'[c].pc \notin Waking \cup {"woken"} /\ ~Uses(c)'
  BY <1>2 DEF Waking, Uses
<1> QED BY <1>1, <1>3, <1>4, Moves

LEMMA FailsAside ==
  ASSUME TypeOK, UsedInv, NEW c \in Calls, Fail(c)
  PROVE  UsedInv'
<1>1. End(c) /\ sweep' = sweep /\ ReleaseWake(c) /\ quiet' = quiet /\ busy' = busy
  BY DEF Fail, ReleaseAll, known, spaces
<1> QED BY <1>1, EndsAside

\* Requests that arrive, or are not about to have the use of a sandbox.
LEMMA ArrivesSpared ==
  ASSUME TypeOK, UsedInv, NEW c \in Calls, NEW s \in Sandboxes, EnsureStart(c, s) \/ TurnStart(c, s) \/ FileStart(c, s)
  PROVE  UsedInv'
<1>1. /\ call'[c].pc \in {"op", "lock"} /\ \A k \in Calls \ {c} : call'[k] = call[k]
      /\ UNCHANGED <<wakeLock, quiet, busy, sweep>>
  <2>1. \E kind, pc : pc \in {"op", "lock"} /\ call' = [call EXCEPT ![c] = [Resting EXCEPT !.kind = kind, !.pc = pc, !.id = s]]
    BY DEF EnsureStart, TurnStart, FileStart, Begin
  <2>2. PICK kind, pc : pc \in {"op", "lock"} /\ call' = [call EXCEPT ![c] = [Resting EXCEPT !.kind = kind, !.pc = pc, !.id = s]]
    BY <2>1
  <2>3. /\ call'[c] = [Resting EXCEPT !.kind = kind, !.pc = pc, !.id = s]
        /\ \A k \in Calls \ {c} : call'[k] = call[k]
    BY <2>2, OneReplaced
  <2>4. call'[c].pc = pc
    BY <2>3 DEF Resting
  <2> QED BY <2>2, <2>3, <2>4 DEF EnsureStart, TurnStart, FileStart, locks, known, spaces
<1>2. /\ call'[c].pc \notin Waking \cup {"woken"} /\ call'[c].pc # "stop" /\ call'[c].pc # "turn" /\ ~Uses(c)'
  BY <1>1 DEF Waking, Uses
<1> QED BY <1>1, <1>2, Moves

LEMMA RememberSpared ==
  ASSUME TypeOK, UsedInv, NEW c \in Calls, EnsureRemember(c)
  PROVE  UsedInv'
<1>1. call'[c].pc = "lock" /\ \A k \in Calls \ {c} : call'[k] = call[k]
  BY OneGoes DEF EnsureRemember
<1>2. UNCHANGED <<wakeLock, busy, sweep>> /\ \A s \in Sandboxes : quiet'[s] = quiet[s] \/ quiet'[s] = 0
  BY DEF EnsureRemember, TypeOK, KnownOK
<1>3. /\ call'[c].pc \notin Waking \cup {"woken"} /\ call'[c].pc # "stop" /\ call'[c].pc # "turn" /\ ~Uses(c)'
  BY <1>1 DEF Waking, Uses
<1> QED BY <1>1, <1>2, <1>3, Moves

LEMMA WakeLockSpared ==
  ASSUME TypeOK, UsedInv, NEW c \in Calls, WakeLock(c)
  PROVE  UsedInv'
<1> DEFINE s == call[c].id
<1>1. /\ call'[c].pc = "look" /\ call'[c].id = s /\ \A k \in Calls \ {c} : call'[k] = call[k]
  BY OneGoes DEF WakeLock
<1>2. s \in Sandboxes
  BY Serving DEF WakeLock
<1>3. /\ wakeLock[s] = None /\ wakeLock' = [wakeLock EXCEPT ![s] = c] /\ quiet' = [quiet EXCEPT ![s] = 0]
      /\ busy' = busy /\ sweep' = sweep
  BY DEF WakeLock, spaces
<1>4. /\ wakeLock'[s] = c /\ quiet'[s] = 0
      /\ \A r \in Sandboxes : wakeLock'[r] = wakeLock[r] \/ wakeLock[r] \in {c, None}
      /\ \A r \in Sandboxes : quiet'[r] = quiet[r] \/ quiet'[r] = 0
  BY <1>2, <1>3 DEF TypeOK, LocksOK, KnownOK
<1>5. call'[c].pc # "stop" /\ call'[c].pc # "turn" /\ ~Uses(c)'
  BY <1>1 DEF Uses
<1> QED BY <1>1, <1>3, <1>4, <1>5, Moves

\* On the way to having the use of a sandbox, under its lock.
LEMMA StaysWaking ==
  ASSUME TypeOK, UsedInv, NEW c \in Calls, call[c].pc \in Waking, call'[c].pc \in Waking, call'[c].pc # "stop",
         call'[c].kind = call[c].kind, call'[c].id = call[c].id, call'[c].dead = call[c].dead,
         \A k \in Calls \ {c} : call'[k] = call[k], UNCHANGED <<quiet, busy, sweep>>,
         \A s \in Sandboxes : wakeLock'[s] = wakeLock[s] \/ (wakeLock[s] = c /\ (Guest(c) => s # call[c].id))
  PROVE  UsedInv'
<1>0. call[c].id \in Sandboxes
  BY Serving DEF Waking
<1>1. Guest(c)' <=> Guest(c)
  BY DEF Guest
<1>2. Guest(c) => wakeLock'[call[c].id] = c
  BY <1>0 DEF UsedInv, WakesLocked
<1>3. Guest(c) /\ ~call[c].dead => quiet'[call[c].id] = 0
  BY DEF UsedInv, JustUsed
<1>4. call'[c].pc # "turn" /\ ~Uses(c)'
  BY DEF Uses, Waking
<1> QED BY <1>1, <1>2, <1>3, <1>4, Moves

\* A request comes to have the use of the sandbox it brought back, and lets go of the locks.
LEMMA ComesAwake ==
  ASSUME TypeOK, UsedInv, NEW c \in Calls, call[c].pc \in Waking, call'[c].pc = "woken",
         call'[c].kind = call[c].kind, call'[c].id = call[c].id, call'[c].dead = call[c].dead,
         \A k \in Calls \ {c} : call'[k] = call[k], UNCHANGED <<quiet, busy, sweep>>, ReleaseWake(c)
  PROVE  UsedInv'
<1>1. Guest(c)' <=> Guest(c)
  BY DEF Guest
<1>2. Guest(c) /\ ~call[c].dead => quiet'[call[c].id] = 0
  BY DEF UsedInv, JustUsed
<1>3. Guest(c) /\ sweep.pc \in {"act", "forget"} => call[c].id # sweep.id
  BY SleepAssumption DEF UsedInv, WakesLocked, SweepLocked
<1>4. \A s \in Sandboxes : wakeLock'[s] = wakeLock[s] \/ wakeLock[s] \in {c, None}
  BY LocksLetGo
<1>5. call'[c].pc \notin Waking /\ call'[c].pc # "stop" /\ call'[c].pc # "turn"
  BY DEF Waking
<1>6. Uses(c)' => Guest(c)
  BY <1>1 DEF Uses
<1> QED BY <1>1, <1>2, <1>3, <1>4, <1>5, <1>6, Moves

LEMMA WakesSpared ==
  ASSUME TypeOK, UsedInv, NEW c \in Calls, WakeAwake(c) \/ WakeAsleep(c) \/ WakeGone(c)
  PROVE  UsedInv'
<1>0. call[c].pc = "look" /\ call[c].pc \in Waking /\ call[c] \in Requests
  BY DEF WakeAwake, WakeAsleep, WakeGone, Waking, TypeOK, CallsOK
<1>1. CASE WakeAwake(c)
  <2>1. Goto(c, "woken") /\ ReleaseWake(c) /\ UNCHANGED <<quiet, busy, sweep>>
    BY <1>1 DEF WakeAwake, known, spaces
  <2> QED BY <1>0, <2>1, OneGoes, ComesAwake
<1>2. CASE WakeAsleep(c)
  <2> DEFINE job == IF container[call[c].id] = "none" THEN "create" ELSE "start"
  <2>1. call' = [call EXCEPT ![c].pc = "room", ![c].job = job] /\ UNCHANGED <<wakeLock, quiet, busy, sweep>>
    BY <1>2 DEF WakeAsleep, known, spaces, locks
  <2> HIDE DEF job
  <2>2. /\ call'[c].pc = "room" /\ call'[c].kind = call[c].kind /\ call'[c].id = call[c].id /\ call'[c].dead = call[c].dead
        /\ \A k \in Calls \ {c} : call'[k] = call[k]
    BY <1>0, <2>1 DEF TypeOK, CallsOK, Requests
  <2> QED BY <1>0, <2>1, <2>2, StaysWaking DEF Waking
<1>3. CASE WakeGone(c)
  <2>1. CASE Fail(c)
    BY <2>1, FailsAside
  <2>2. CASE ~Fail(c)
    <3>1. /\ call' = [call EXCEPT ![c].pc = "room", ![c].job = "scratch"] /\ call[c].kind = "ensure"
          /\ ReleaseWake(c) /\ UNCHANGED <<quiet, busy, sweep>>
      BY <1>3, <2>2 DEF WakeGone, known, spaces
    <3>2. /\ call'[c].pc = "room" /\ call'[c].kind = "ensure" /\ \A k \in Calls \ {c} : call'[k] = call[k]
      BY <1>0, <3>1 DEF TypeOK, CallsOK, Requests
    <3>3. \A s \in Sandboxes : wakeLock'[s] = wakeLock[s] \/ wakeLock[s] \in {c, None}
      BY <3>1, LocksLetGo
    <3>4. ~Guest(c)' /\ call'[c].pc # "stop" /\ call'[c].pc # "turn" /\ ~Uses(c)'
      BY <3>2 DEF Guest, Uses
    <3> QED BY <3>1, <3>2, <3>3, <3>4, Moves
  <2> QED BY <2>1, <2>2
<1> QED BY <1>1, <1>2, <1>3

LEMMA RoomSpared ==
  ASSUME TypeOK, UsedInv, NEW c \in Calls, RoomLock(c) \/ MakeRoom(c) \/ RoomRefused(c)
  PROVE  UsedInv'
<1>0. call[c].pc \in Waking /\ call[c] \in Requests
  BY DEF RoomLock, MakeRoom, RoomRefused, Waking, TypeOK, CallsOK
<1>1. CASE RoomLock(c)
  <2>1. Goto(c, "plan") /\ UNCHANGED <<wakeLock, quiet, busy, sweep>>
    BY <1>1 DEF RoomLock, known, spaces
  <2> QED BY <1>0, <2>1, OneGoes, StaysWaking DEF Waking
<1>2. CASE MakeRoom(c)
  <2>1. PICK E : call' = [call EXCEPT ![c].pc = "evict", ![c].evict = E]
    BY <1>2 DEF MakeRoom
  <2>2. UNCHANGED <<wakeLock, quiet, busy, sweep>>
    BY <1>2 DEF MakeRoom, known, spaces, locks
  <2>3. /\ call'[c].pc = "evict" /\ call'[c].kind = call[c].kind /\ call'[c].id = call[c].id /\ call'[c].dead = call[c].dead
        /\ \A k \in Calls \ {c} : call'[k] = call[k]
    BY <1>0, <2>1 DEF TypeOK, CallsOK, Requests
  <2> QED BY <1>0, <2>2, <2>3, StaysWaking DEF Waking
<1>3. CASE RoomRefused(c)
  BY <1>3, FailsAside DEF RoomRefused
<1> QED BY <1>1, <1>2, <1>3

LEMMA EvictsSpared ==
  ASSUME TypeOK, UsedInv, NEW c \in Calls, (\E v \in Sandboxes : EvictLock(c, v)) \/ EvictStop(c)
  PROVE  UsedInv'
<1>0. call[c].pc \in Waking /\ call[c] \in Requests /\ call[c].id \in Sandboxes
  BY Serving DEF EvictLock, EvictStop, Waking
<1>1. ASSUME NEW v \in Sandboxes, EvictLock(c, v) PROVE UsedInv'
  <2>1. CASE Fail(c)
    BY <2>1, FailsAside
  <2>2. CASE wakeLock[v] = None
    <3>1. /\ wakeLock' = [wakeLock EXCEPT ![v] = c] /\ UNCHANGED <<quiet, busy, sweep>>
          /\ call' = [call EXCEPT ![c].pc = "stop", ![c].victim = v]
      BY <1>1, <2>2 DEF EvictLock, known, spaces
    <3>2. /\ call'[c].pc = "stop" /\ call'[c].kind = call[c].kind /\ call'[c].id = call[c].id /\ call'[c].dead = call[c].dead
          /\ call'[c].victim = v /\ \A k \in Calls \ {c} : call'[k] = call[k]
      BY <1>0, <3>1 DEF TypeOK, CallsOK, Requests
    <3>3. wakeLock'[v] = c /\ \A s \in Sandboxes \ {v} : wakeLock'[s] = wakeLock[s]
      BY <3>1 DEF TypeOK, LocksOK
    <3>4. Guest(c) => wakeLock[call[c].id] = c /\ v # call[c].id /\ wakeLock'[call[c].id] = c
      BY <1>0, <2>2, <3>3, SleepAssumption DEF UsedInv, WakesLocked
    <3>5. Guest(c)' <=> Guest(c)
      BY <3>2 DEF Guest
    <3>6. Guest(c) /\ ~call[c].dead => quiet'[call[c].id] = 0
      BY <1>0, <3>1 DEF UsedInv, JustUsed
    <3>7. call'[c].pc # "turn" /\ ~Uses(c)'
      BY <3>2 DEF Uses
    <3>8. \A s \in Sandboxes : wakeLock'[s] = wakeLock[s] \/ wakeLock[s] \in {c, None}
      BY <2>2, <3>3
    <3> QED BY <3>1, <3>2, <3>3, <3>4, <3>5, <3>6, <3>7, <3>8, Moves
  <2> QED BY <1>1, <2>1, <2>2 DEF EvictLock
<1>2. CASE EvictStop(c)
  <2>1. CASE Fail(c)
    BY <2>1, FailsAside
  <2>2. CASE container[call[c].victim] # "none"
    <3> DEFINE v == call[c].victim
    <3>1. /\ wakeLock' = [wakeLock EXCEPT ![v] = None] /\ UNCHANGED <<quiet, busy, sweep>> /\ call[c].pc = "stop"
          /\ call' = [call EXCEPT ![c].pc = "evict", ![c].victim = None, ![c].evict = @ \ {v}]
      BY <1>2, <2>2 DEF EvictStop, known, spaces
    <3>2. /\ call'[c].pc = "evict" /\ call'[c].kind = call[c].kind /\ call'[c].id = call[c].id /\ call'[c].dead = call[c].dead
          /\ \A k \in Calls \ {c} : call'[k] = call[k]
      BY <1>0, <3>1 DEF TypeOK, CallsOK, Requests
    <3>3. wakeLock[v] = c /\ (Guest(c) => v # call[c].id)
      BY <3>1 DEF UsedInv, StopsLocked
    <3>4. \A s \in Sandboxes : wakeLock'[s] = wakeLock[s] \/ (wakeLock[s] = c /\ (Guest(c) => s # call[c].id))
      BY <3>1, <3>3 DEF TypeOK, LocksOK
    <3> QED BY <1>0, <3>1, <3>2, <3>4, StaysWaking DEF Waking
  <2> QED BY <1>2, <2>1, <2>2 DEF EvictStop
<1> QED BY <1>1, <1>2

LEMMA BringsSpared ==
  ASSUME TypeOK, UsedInv, NEW c \in Calls, BringUp(c) \/ BringUpRefused(c) \/ BringUpFails(c)
  PROVE  UsedInv'
<1>0. call[c].pc \in Waking /\ call[c] \in Requests
  BY DEF BringUp, BringUpRefused, BringUpFails, Waking, TypeOK, CallsOK
<1>1. CASE BringUp(c)
  <2>1. PICK b : call' = [call EXCEPT ![c].pc = "woken", ![c].fresh = b]
    BY <1>1 DEF BringUp
  <2>2. ReleaseWake(c) /\ UNCHANGED <<quiet, busy, sweep>>
    BY <1>1 DEF BringUp, known
  <2>3. /\ call'[c].pc = "woken" /\ call'[c].kind = call[c].kind /\ call'[c].id = call[c].id /\ call'[c].dead = call[c].dead
        /\ \A k \in Calls \ {c} : call'[k] = call[k]
    BY <1>0, <2>1 DEF TypeOK, CallsOK, Requests
  <2> QED BY <1>0, <2>2, <2>3, ComesAwake
<1>2. CASE BringUpRefused(c)
  BY <1>2, FailsAside DEF BringUpRefused
<1>3. CASE BringUpFails(c)
  <2>1. End(c) /\ ReleaseWake(c) /\ UNCHANGED <<quiet, busy, sweep>>
    BY <1>3 DEF BringUpFails, ReleaseAll, known, spaces
  <2> QED BY <2>1, EndsAside
<1> QED BY <1>1, <1>2, <1>3

\* Requests that are done, and turns.
LEMMA WorksSpared ==
  ASSUME TypeOK, UsedInv, NEW c \in Calls,
         EnsureAnswer(c) \/ EnsureFails(c) \/ FileDone(c) \/ TurnOutput(c) \/ TurnEnd(c)
  PROVE  UsedInv'
<1>1. CASE EnsureAnswer(c)
  <2>1. End(c) /\ ReleaseWake(c) /\ UNCHANGED <<quiet, busy, sweep>>
    BY <1>1 DEF EnsureAnswer, ReleaseAll, known
  <2> QED BY <2>1, EndsAside
<1>2. CASE EnsureFails(c)
  BY <1>2, FailsAside DEF EnsureFails
<1>3. CASE FileDone(c)
  <2>1. End(c) /\ UNCHANGED <<wakeLock, busy, sweep>> /\ \A s \in Sandboxes : quiet'[s] = quiet[s] \/ quiet'[s] = 0
    BY <1>3 DEF FileDone, locks, TypeOK, KnownOK
  <2> QED BY <2>1, EndsAside
<1>4. CASE TurnOutput(c)
  <2>1. UNCHANGED <<wakeLock, busy, sweep, call>> /\ \A s \in Sandboxes : quiet'[s] = quiet[s] \/ quiet'[s] = 0
    BY <1>4 DEF TurnOutput, locks, spaces, TypeOK, KnownOK
  <2>2. \A k \in Calls : call[k].pc # "idle" => call[k].id \in Sandboxes
    BY DEF TypeOK, CallsOK, Named
  <2>3. JustUsed'
    BY <2>1, <2>2 DEF UsedInv, JustUsed, Guest, Waking
  <2>4. WakesLocked' /\ StopsLocked' /\ SweepLocked' /\ TurnsBusy' /\ Spared'
    BY <2>1 DEF UsedInv, WakesLocked, StopsLocked, SweepLocked, TurnsBusy, Spared, Uses, Guest
  <2> QED BY <2>3, <2>4 DEF UsedInv
<1>5. CASE TurnEnd(c)
  <2>1. End(c) /\ UNCHANGED <<wakeLock, sweep>> /\ call[c].pc = "turn"
    BY <1>5 DEF TurnEnd, locks
  <2>2. \A s \in Sandboxes : quiet'[s] = quiet[s] \/ quiet'[s] = 0
    BY <1>5 DEF TurnEnd, TypeOK, KnownOK
  <2>3. \A s \in Sandboxes : busy[s] => busy'[s] \/ (~call[c].dead /\ s = call[c].id)
    BY <1>5 DEF TurnEnd, TypeOK, SpacesOK
  <2> QED BY <2>1, <2>2, <2>3, EndsAside
<1> QED BY <1>1, <1>2, <1>3, <1>4, <1>5

\* A turn begins only where none is.
LEMMA TurnBusySpared ==
  ASSUME TypeOK, UsedInv, NEW c \in Calls, TurnBusy(c)
  PROVE  UsedInv'
<1> DEFINE s == call[c].id
<1>0. /\ s \in Sandboxes /\ call[c].pc = "woken" /\ call[c].kind = "turn" /\ UNCHANGED <<wakeLock, sweep>>
      /\ \A r \in Sandboxes : quiet'[r] = quiet[r] \/ quiet'[r] = 0
  BY Serving DEF TurnBusy, locks, TypeOK, KnownOK
<1>1. CASE End(c) /\ busy' = busy
  BY <1>0, <1>1, EndsAside
<1>2. CASE ~(busy[s] /\ ~call[c].dead)
  <2>1. Goto(c, "turn") /\ busy' = [busy EXCEPT ![s] = @ \/ ~call[c].dead]
    BY <1>2 DEF TurnBusy
  <2>2. /\ call'[c].pc = "turn" /\ call'[c].id = s /\ call'[c].dead = call[c].dead
        /\ \A k \in Calls \ {c} : call'[k] = call[k]
    BY <2>1, OneGoes
  <2>3. (\A r \in Sandboxes : busy[r] => busy'[r]) /\ (~call[c].dead => busy'[s])
    BY <1>0, <2>1 DEF TypeOK, SpacesOK
  <2>4. ~call[c].dead => \A k \in Calls \ {c} : call[k].pc = "turn" /\ ~call[k].dead => call[k].id # s
    BY <1>2 DEF UsedInv, TurnsBusy
  <2>5. ~call[c].dead /\ sweep.pc \in {"act", "forget"} => s # sweep.id
    BY <1>0 DEF UsedInv, Spared, Uses, Guest
  <2>6. call'[c].pc \notin Waking \cup {"woken"} /\ call'[c].pc # "stop" /\ (Uses(c)' => ~call[c].dead)
    BY <2>2 DEF Waking, Uses
  <2> QED BY <1>0, <2>2, <2>3, <2>4, <2>5, <2>6, Moves
<1> QED BY <1>1, <1>2 DEF TurnBusy

\* A delete orphans whoever holds the workspace it drops.
LEMMA DeleteSpared ==
  ASSUME TypeOK, UsedInv, NEW c \in Calls, NEW s \in Sandboxes, DeleteStart(c, s)
  PROVE  UsedInv'
<1>1. /\ call'[c] = [Resting EXCEPT !.kind = "delete", !.pc = "rm", !.id = s]
      /\ \A k \in Calls \ {c} : call'[k] = IF call[k].id = s THEN [call[k] EXCEPT !.dead = TRUE] ELSE call[k]
      /\ UNCHANGED <<wakeLock, sweep>>
  BY DEF DeleteStart, Orphaned
<1>2. call'[c].pc = "rm"
  BY <1>1 DEF Resting
<1>3. \A k \in Calls \ {c} : /\ call'[k].pc = call[k].pc /\ call'[k].kind = call[k].kind /\ call'[k].id = call[k].id
                             /\ call'[k].victim = call[k].victim
                             /\ (~call'[k].dead => ~call[k].dead /\ call[k].id # s)
  <2> SUFFICES ASSUME NEW k \in Calls \ {c}
               PROVE  /\ call'[k].pc = call[k].pc /\ call'[k].kind = call[k].kind /\ call'[k].id = call[k].id
                      /\ call'[k].victim = call[k].victim
                      /\ (~call'[k].dead => ~call[k].dead /\ call[k].id # s)
    OBVIOUS
  <2>0. call[k] \in Requests
    BY DEF TypeOK, CallsOK
  <2>1. CASE call[k].id = s
    BY <1>1, <2>0, <2>1 DEF Requests
  <2>2. CASE call[k].id # s
    BY <1>1, <2>2
  <2> QED BY <2>1, <2>2
<1>4. \A r \in Sandboxes \ {s} : quiet'[r] = quiet[r] /\ busy'[r] = busy[r]
  BY DEF DeleteStart, TypeOK, KnownOK, SpacesOK
<1>5. \A k \in Calls : call[k].pc # "idle" => call[k].id \in Sandboxes
  BY DEF TypeOK, CallsOK, Named
<1>6. WakesLocked' /\ StopsLocked' /\ SweepLocked'
  <2>1. WakesLocked'
    BY <1>1, <1>2, <1>3 DEF UsedInv, WakesLocked, Guest, Waking
  <2>2. StopsLocked'
    BY <1>1, <1>2, <1>3 DEF UsedInv, StopsLocked, Guest
  <2>3. SweepLocked'
    BY <1>1 DEF UsedInv, SweepLocked
  <2> QED BY <2>1, <2>2, <2>3
<1>7. JustUsed'
  BY <1>2, <1>3, <1>4, <1>5 DEF UsedInv, JustUsed, Guest, Waking
<1>8. TurnsBusy'
  BY <1>2, <1>3, <1>4, <1>5 DEF UsedInv, TurnsBusy
<1>9. Spared'
  BY <1>1, <1>2, <1>3 DEF UsedInv, Spared, Uses, Guest
<1> QED BY <1>6, <1>7, <1>8, <1>9 DEF UsedInv

LEMMA DeletesSpared ==
  ASSUME TypeOK, UsedInv, NEW c \in Calls, DeleteContainer(c) \/ DeleteVolume(c)
  PROVE  UsedInv'
<1>1. CASE DeleteContainer(c)
  <2>1. call'[c].pc = "volume" /\ (\A k \in Calls \ {c} : call'[k] = call[k]) /\ UNCHANGED <<wakeLock, quiet, busy, sweep>>
    BY <1>1, OneGoes DEF DeleteContainer, known, spaces, locks
  <2>2. /\ call'[c].pc \notin Waking \cup {"woken"} /\ call'[c].pc # "stop" /\ call'[c].pc # "turn" /\ ~Uses(c)'
    BY <2>1 DEF Waking, Uses
  <2> QED BY <2>1, <2>2, Moves
<1>2. CASE DeleteVolume(c)
  <2>1. End(c) /\ UNCHANGED <<wakeLock, quiet, busy, sweep>>
    BY <1>2 DEF DeleteVolume, known, spaces, locks
  <2> QED BY <2>1, EndsAside
<1> QED BY <1>1, <1>2

\* What is due has been quiet, and is not busy.
LEMMA DueIsQuiet ==
  ASSUME TypeOK, NEW s \in Sandboxes, Due(s) # "stay"
  PROVE  ~busy[s] /\ quiet[s] # 0
BY SleepAssumption DEF Due, decide, TypeOK, KnownOK, Ages

\* Nobody uses what is not busy and has been quiet.
LEMMA QuietUnused ==
  ASSUME UsedInv, NEW s \in Sandboxes, ~busy[s], quiet[s] # 0
  PROVE  \A c \in Calls : Uses(c) => call[c].id # s
BY DEF UsedInv, JustUsed, TurnsBusy, Uses

\* The sweep's own steps.
LEMMA SweepSpared ==
  ASSUME TypeOK, UsedInv, Sweeps
  PROVE  UsedInv'
<1>0. /\ sweep.pc \in {"lock", "act", "forgetlock", "forget"} => sweep.id \in Sandboxes
      /\ call' = call /\ busy' = busy
      /\ \A k \in Calls : call[k].pc # "idle" => call[k].id \in Sandboxes
      /\ \A k \in Calls : call[k].pc = "stop" => call[k].victim \in Sandboxes
      /\ None \notin Calls /\ Sweeper \notin Calls /\ Sweeper # None
  <2>1. call' = call /\ busy' = busy
    BY DEF Sweeps, SweepStart, SweepLook, SweepLock, SweepAct, ForgetStart, ForgetLook, ForgetLock, ForgetVolume,
           SweepEnd, spaces
  <2> QED BY <2>1, SleepAssumption DEF TypeOK, CallsOK, Named, SweepOK
<1>1. \A s \in Sandboxes : quiet'[s] = quiet[s] \/ quiet'[s] = 0
  BY DEF Sweeps, SweepStart, SweepLook, SweepLock, SweepAct, ForgetStart, ForgetLook, ForgetLock, ForgetVolume,
         SweepEnd, known, KeepRepoLabel, TypeOK, KnownOK
<1>2. JustUsed' /\ TurnsBusy'
  BY <1>0, <1>1 DEF UsedInv, JustUsed, TurnsBusy, Guest, Waking
<1>3. \/ wakeLock' = wakeLock
      \/ sweep.pc \in {"lock", "forgetlock"} /\ wakeLock[sweep.id] = None /\ wakeLock' = [wakeLock EXCEPT ![sweep.id] = Sweeper]
      \/ sweep.pc \in {"act", "forget"} /\ wakeLock' = [wakeLock EXCEPT ![sweep.id] = None]
  BY DEF Sweeps, SweepStart, SweepLook, SweepLock, SweepAct, ForgetStart, ForgetLook, ForgetLock, ForgetVolume,
         SweepEnd, locks
<1>4. \A s \in Sandboxes : wakeLock[s] \in Calls => wakeLock'[s] = wakeLock[s]
  BY <1>0, <1>3 DEF UsedInv, SweepLocked, TypeOK, LocksOK
<1>5. WakesLocked' /\ StopsLocked'
  BY <1>0, <1>4 DEF UsedInv, WakesLocked, StopsLocked, Guest, Waking
<1>6. SweepLocked' /\ Spared'
  <2>1. CASE SweepLock
    <3>1. CASE Due(sweep.id) = sweep.action
      <4>1. /\ sweep' = [sweep EXCEPT !.pc = "act"] /\ wakeLock' = [wakeLock EXCEPT ![sweep.id] = Sweeper] /\ sweep.pc = "lock"
        BY <2>1, <3>1 DEF SweepLock
      <4>2. sweep'.pc = "act" /\ sweep'.id = sweep.id /\ wakeLock'[sweep.id] = Sweeper /\ sweep.id \in Sandboxes
        BY <1>0, <4>1 DEF TypeOK, SweepOK, LocksOK
      <4>3. \A c \in Calls : Uses(c) => call[c].id # sweep.id
        BY <3>1, <4>1, <4>2, DueIsQuiet, QuietUnused DEF UsedInv, SweepLocked
      <4> QED BY <1>0, <4>2, <4>3 DEF SweepLocked, Spared, Uses, Guest
    <3>2. CASE Due(sweep.id) # sweep.action
      <4>1. sweep'.pc = "boxes"
        BY <2>1, <3>2 DEF SweepLock, SweepNext, TypeOK, SweepOK
      <4> QED BY <4>1 DEF SweepLocked, Spared
    <3> QED BY <3>1, <3>2
  <2>2. CASE ForgetLock
    <3>1. CASE Forgettable(sweep.id) /\ container[sweep.id] = "none"
      <4>1. /\ sweep' = [sweep EXCEPT !.pc = "forget"] /\ wakeLock' = [wakeLock EXCEPT ![sweep.id] = Sweeper] /\ sweep.pc = "forgetlock"
        BY <2>2, <3>1 DEF ForgetLock
      <4>2. sweep'.pc = "forget" /\ sweep'.id = sweep.id /\ wakeLock'[sweep.id] = Sweeper /\ sweep.id \in Sandboxes
        BY <1>0, <4>1 DEF TypeOK, SweepOK, LocksOK
      <4>3. ForgetAfter # 0 /\ ~busy[sweep.id] /\ quiet[sweep.id] # 0
        BY <3>1, <4>1, <4>2, SleepAssumption DEF UsedInv, SweepLocked, Forgettable, TypeOK, KnownOK, Ages
      <4>4. \A c \in Calls : Uses(c) => call[c].id # sweep.id
        BY <4>2, <4>3, QuietUnused
      <4> QED BY <1>0, <4>2, <4>3, <4>4 DEF SweepLocked, Spared, Uses, Guest
    <3>2. CASE ~(Forgettable(sweep.id) /\ container[sweep.id] = "none")
      <4>1. sweep'.pc = "quiet" /\ sweep.pc = "forgetlock"
        BY <2>2, <3>2 DEF ForgetLock, SweepNext, TypeOK, SweepOK
      <4> QED BY <4>1 DEF SweepLocked, Spared, UsedInv
    <3> QED BY <3>1, <3>2
  <2>3. ASSUME NEW s \in Sandboxes, SweepLook(s) PROVE SweepLocked' /\ Spared'
    <3>1. sweep'.pc = "boxes" \/ (sweep'.pc = "lock" /\ sweep'.action # "stay")
      BY <2>3 DEF SweepLook, TypeOK, SweepOK
    <3> QED BY <3>1 DEF SweepLocked, Spared
  <2>4. CASE ForgetStart
    <3>1. sweep'.pc = "rest" \/ (sweep'.pc = "quiet" /\ ForgetAfter # 0)
      BY <2>4 DEF ForgetStart, SweepRest, TypeOK, SweepOK
    <3> QED BY <3>1 DEF SweepLocked, Spared
  <2>5. ASSUME NEW s \in Sandboxes, ForgetLook(s) PROVE SweepLocked' /\ Spared'
    <3>1. sweep'.pc \in {"quiet", "forgetlock"} /\ sweep.pc = "quiet"
      BY <2>5 DEF ForgetLook, TypeOK, SweepOK
    <3> QED BY <3>1 DEF SweepLocked, Spared, UsedInv
  <2>6. CASE SweepStart \/ SweepAct \/ SweepEnd
    <3>1. CASE SweepStart
      <4>1. sweep'.pc = "boxes"
        BY <3>1 DEF SweepStart, SweepRest
      <4> QED BY <4>1 DEF SweepLocked, Spared
    <3>2. CASE SweepAct
      <4>1. sweep' = SweepNext("boxes")
        BY <3>2 DEF SweepAct
      <4>2. sweep'.pc = "boxes"
        BY <4>1 DEF SweepNext, TypeOK, SweepOK
      <4> QED BY <4>2 DEF SweepLocked, Spared
    <3>3. CASE SweepEnd
      BY <3>3 DEF SweepEnd, SweepRest, SweepLocked, Spared
    <3> QED BY <2>6, <3>1, <3>2, <3>3
  <2>7. CASE ForgetVolume
    <3>1. sweep'.pc = "quiet" /\ sweep.pc = "forget"
      BY <2>7 DEF ForgetVolume, SweepNext, TypeOK, SweepOK
    <3> QED BY <3>1 DEF SweepLocked, Spared, UsedInv
  <2> QED BY <2>1, <2>2, <2>3, <2>4, <2>5, <2>6, <2>7 DEF Sweeps
<1> QED BY <1>2, <1>5, <1>6 DEF UsedInv

\* Time passes only while nobody brings a sandbox back, and a restart forgets who did.
LEMMA NodeSpared ==
  ASSUME TypeOK, UsedInv, Restart \/ Tick \/ UNCHANGED vars
  PROVE  UsedInv'
<1>1. CASE Restart
  <2>1. (\A c \in Calls : call'[c].pc = "idle") /\ sweep'.pc = "rest"
    BY <1>1 DEF Restart, Resting, SweepRest
  <2> QED BY <2>1 DEF UsedInv, WakesLocked, StopsLocked, SweepLocked, JustUsed, TurnsBusy, Spared, Uses, Waking
<1>2. CASE Tick
  <2>1. UNCHANGED <<call, wakeLock, busy, sweep>> /\ \A c \in Calls : Slow(c)
    BY <1>2 DEF Tick, locks, spaces
  <2>2. \A c \in Calls : ~(Guest(c) /\ call[c].pc \in Waking \cup {"woken"})
    BY <2>1 DEF Slow, Guest, Waking
  <2>3. JustUsed'
    BY <2>1, <2>2 DEF JustUsed, Guest
  <2>4. WakesLocked' /\ StopsLocked' /\ SweepLocked' /\ TurnsBusy' /\ Spared'
    BY <2>1 DEF UsedInv, WakesLocked, StopsLocked, SweepLocked, TurnsBusy, Spared, Uses, Guest
  <2> QED BY <2>3, <2>4 DEF UsedInv
<1>3. CASE UNCHANGED vars
  <2>1. UNCHANGED <<call, wakeLock, busy, sweep, quiet>>
    BY <1>3 DEF vars, locks, spaces, known
  <2> QED BY <2>1 DEF UsedInv, WakesLocked, StopsLocked, SweepLocked, JustUsed, TurnsBusy, Spared, Uses, Guest
<1> QED BY <1>1, <1>2, <1>3

LEMMA UsedStep ==
  ASSUME TypeOK, UsedInv, [Next]_vars
  PROVE  UsedInv'
<1>1. ASSUME NEW c \in Calls, Serves(c) PROVE UsedInv'
  <2>1. CASE Arrives(c)
    BY <2>1, ArrivesSpared, DeleteSpared DEF Arrives
  <2>2. CASE Locks(c)
    BY <2>2, RememberSpared, WakeLockSpared, RoomSpared DEF Locks
  <2>3. CASE WakeAwake(c) \/ WakeAsleep(c) \/ WakeGone(c)
    BY <2>3, WakesSpared
  <2>4. CASE MakeRoom(c) \/ RoomRefused(c) \/ (\E v \in Sandboxes : EvictLock(c, v)) \/ EvictStop(c)
    BY <2>4, RoomSpared, EvictsSpared
  <2>5. CASE BringUp(c) \/ BringUpRefused(c) \/ BringUpFails(c)
    BY <2>5, BringsSpared
  <2>6. CASE EnsureAnswer(c) \/ EnsureFails(c) \/ FileDone(c) \/ TurnBusy(c) \/ TurnOutput(c) \/ TurnEnd(c)
    BY <2>6, WorksSpared, TurnBusySpared
  <2>7. CASE DeleteContainer(c) \/ DeleteVolume(c)
    BY <2>7, DeletesSpared
  <2> QED BY <1>1, <2>1, <2>2, <2>3, <2>4, <2>5, <2>6, <2>7 DEF Serves, Proceeds
<1>2. CASE Sweeps
  BY <1>2, SweepSpared
<1>3. CASE Restart \/ Tick \/ UNCHANGED vars
  BY <1>3, NodeSpared
<1> QED BY <1>1, <1>2, <1>3 DEF Next

LEMMA UsedHolds == Spec => []UsedInv
<1>1. Init => UsedInv
  <2> SUFFICES ASSUME Init PROVE UsedInv
    OBVIOUS
  <2>1. (\A c \in Calls : call[c].pc = "idle") /\ sweep.pc = "rest"
    BY DEF Init, Resting, SweepRest
  <2> QED BY <2>1 DEF UsedInv, WakesLocked, StopsLocked, SweepLocked, JustUsed, TurnsBusy, Spared, Uses, Waking
<1>2. TypeOK /\ UsedInv /\ [Next]_vars => UsedInv'
  BY UsedStep
<1> QED BY <1>1, <1>2, TypeInvariant, PTL DEF Spec

\* sleep.go, sweepOnce: the sweep never acts on a sandbox a request has the use of, although it chose what to
\* do before it had the lock, and requests, deletes, failures, time and restarts come in between.
THEOREM SweepLeavesUsedAlone == Spec => []SweepSparesUsed
<1>1. UsedInv => SweepSparesUsed
  BY DEF UsedInv, Spared, Uses, Guest, SweepSparesUsed, InUse
<1> QED BY <1>1, UsedHolds, PTL

----------------------------------------------------------------------------
\* A person's cap

\* A request that is to make room, or makes it.
MakesRoom(c) == call[c].pc \in {"room", "plan", "evict", "stop"}

\* Whose a sandbox is stays known while it has a container, and while one is made for it.
OwnersKnown ==
  /\ \A s \in Sandboxes : record[s] # "label" /\ (container[s] # "none" => record[s] = "ensured")
  /\ \A c \in Calls : MakesRoom(c) \/ (call[c].kind = "ensure" /\ call[c].pc \notin {"idle", "op"})
                        => record[call[c].id] = "ensured"

\* Nothing drops a record.
NoneDropped ==
  /\ \A c \in Calls : call[c].pc \notin {"rm", "volume"}
  /\ sweep.pc \notin {"quiet", "forgetlock", "forget"}

Theirs(p) == {s \in Awake : Owner[s] = p}

TheirCap == \A p \in People : Cardinality(Theirs(p)) <= PerPerson

\* Once what it chose is asleep there is a slot among its owner's for the sandbox it is waking.
TheirRoomMade ==
  \A c \in Calls : call[c].pc \in {"evict", "stop"}
    => Cardinality(Theirs(Owner[call[c].id]) \ (call[c].evict \cup {call[c].id})) < PerPerson

PersonInv == OwnersKnown /\ NoneDropped /\ TheirCap /\ TheirRoomMade

\* No workspace is deleted, or forgotten by the sweep.
NothingDropped == "delete" \notin Kinds /\ ForgetAfter = 0

LEMMA TheirsFinite == \A p : IsFiniteSet(Theirs(p)) /\ Cardinality(Theirs(p)) \in Nat
<1>1. \A p : Theirs(p) \subseteq Awake
  BY DEF Theirs
<1> QED BY <1>1, AwakeFinite, FS_Subset, FS_CardinalityType

\* What is left of a finite set is no more.
LEMMA FewerLeft ==
  ASSUME NEW S, IsFiniteSet(S), NEW T, T \subseteq S, NEW n \in Nat
  PROVE  /\ Cardinality(S) <= n => Cardinality(T) <= n
         /\ Cardinality(S) < n => Cardinality(T) < n
<1>1. Cardinality(T) \in Nat /\ Cardinality(S) \in Nat /\ Cardinality(T) <= Cardinality(S)
  BY FS_Subset, FS_CardinalityType
<1> QED BY <1>1

\* Once what planRoom chose is asleep, there is a slot for s among its owner's.
LEMMA TheirRoomEnough ==
  ASSUME NEW s \in Sandboxes, NEW E \in planRoom(s), OwnersKnown, record[s] = "ensured"
  PROVE  Cardinality(Theirs(Owner[s]) \ (E \cup {s})) < PerPerson
<1> DEFINE others == Awake \ {s}
           mine   == {o \in others : OwnerOf(o) = OwnerOf(s)}
<1>1. OwnerOf(s) = Owner[s] /\ Owner[s] \in People /\ OwnerOf(s) # None
  BY SleepAssumption DEF OwnerOf
<1>2. \A o \in Awake : OwnerOf(o) = Owner[o]
  BY DEF OwnersKnown, OwnerOf, Awake
<1>3. mine = Theirs(Owner[s]) \ {s}
  BY <1>1, <1>2 DEF Theirs
<1>4. IsFiniteSet(mine)
  BY <1>3, TheirsFinite, FS_RemoveElement
<1>5. planRoom(s) = UNION {{P \cup F : F \in Takes(others, P, PerNode)} : P \in Takes(mine, {}, PerPerson)}
  BY <1>1 DEF planRoom
<1> HIDE DEF others, mine
<1>6. PICK P \in Takes(mine, {}, PerPerson) : \E F \in Takes(others, P, PerNode) : E = P \cup F
  BY <1>5
<1>7. Cardinality((mine \ {}) \ P) < PerPerson
  BY <1>4, TakesEnough, SleepAssumption
<1>8. mine \ {} = mine
  OBVIOUS
<1>9. IsFiniteSet(mine \ P) /\ Theirs(Owner[s]) \ (E \cup {s}) \subseteq mine \ P
  BY <1>3, <1>4, <1>6, FS_Difference
<1> QED BY <1>7, <1>8, <1>9, FewerLeft, SleepAssumption

\* A step that wakes nothing, drops nothing, and leaves nobody making room with more to stop than before.
LEMMA PersonKept ==
  ASSUME TypeOK, PersonInv, Awake' \subseteq Awake, OwnersKnown', NoneDropped',
         \A k \in Calls : call'[k].pc \in {"evict", "stop"}
           => /\ call[k].pc \in {"evict", "stop"} /\ call'[k].id = call[k].id
              /\ Awake' \ call'[k].evict \subseteq Awake \ call[k].evict
  PROVE  PersonInv'
<1>1. \A p : Theirs(p)' \subseteq Theirs(p)
  BY DEF Theirs
<1>2. TheirCap'
  BY <1>1, TheirsFinite, FewerLeft, SleepAssumption DEF PersonInv, TheirCap
<1>3. TheirRoomMade'
  <2> SUFFICES ASSUME NEW k \in Calls, call'[k].pc \in {"evict", "stop"}
               PROVE  Cardinality({s \in Awake' : Owner[s] = Owner[call'[k].id]} \ (call'[k].evict \cup {call'[k].id})) < PerPerson
    BY DEF TheirRoomMade, Theirs
  <2> DEFINE S == Theirs(Owner[call[k].id]) \ (call[k].evict \cup {call[k].id})
             T == {s \in Awake' : Owner[s] = Owner[call'[k].id]} \ (call'[k].evict \cup {call'[k].id})
  <2>1. Cardinality(S) < PerPerson
    BY DEF PersonInv, TheirRoomMade
  <2>2. IsFiniteSet(S)
    BY TheirsFinite, FS_Difference
  <2>3. T \subseteq S
    BY DEF Theirs
  <2> HIDE DEF S, T
  <2>4. Cardinality(T) < PerPerson
    BY <2>1, <2>2, <2>3, FewerLeft, SleepAssumption
  <2> QED BY <2>4 DEF T
<1> QED BY <1>2, <1>3 DEF PersonInv

\* A record is never less, and a request is about a sandbox whose owner is known by the time it makes room.
LEMMA KnownKept ==
  ASSUME TypeOK, PersonInv, NEW c \in Calls, \A k \in Calls \ {c} : call'[k] = call[k],
         \A s \in Sandboxes : record[s] = "ensured" => record'[s] = "ensured",
         \A s \in Sandboxes : record'[s] # "label",
         \A s \in Sandboxes : container'[s] # "none" => container[s] # "none" \/ record'[s] = "ensured",
         \/ MakesRoom(c)' \/ (call'[c].kind = "ensure" /\ call'[c].pc \notin {"idle", "op"})
           => record'[call'[c].id] = "ensured",
         call'[c].pc \notin {"rm", "volume"}, sweep' = sweep
  PROVE  OwnersKnown' /\ NoneDropped'
<1>1. NoneDropped'
  BY DEF PersonInv, NoneDropped
<1>2. \A s \in Sandboxes : record'[s] # "label" /\ (container'[s] # "none" => record'[s] = "ensured")
  BY DEF PersonInv, OwnersKnown
<1>3. ASSUME NEW k \in Calls, MakesRoom(k)' \/ (call'[k].kind = "ensure" /\ call'[k].pc \notin {"idle", "op"})
      PROVE  record'[call'[k].id] = "ensured"
  <2>1. CASE k = c
    BY <1>3, <2>1
  <2>2. CASE k # c
    <3>1. call'[k] = call[k]
      BY <2>2
    <3>2. record[call[k].id] = "ensured"
      BY <1>3, <3>1 DEF PersonInv, OwnersKnown, MakesRoom
    <3>3. call[k].pc # "idle"
      BY <1>3, <3>1 DEF MakesRoom
    <3> QED BY <3>1, <3>2, <3>3, Serving
  <2> QED BY <2>1, <2>2
<1> QED BY <1>1, <1>2, <1>3 DEF OwnersKnown, MakesRoom

\* A step of one request that wakes nothing and leaves it not making room.
LEMMA PersonAside ==
  ASSUME TypeOK, PersonInv, NEW c \in Calls, \A k \in Calls \ {c} : call'[k] = call[k],
         container' = container \/ (Awake' \subseteq Awake /\ \A s \in Sandboxes : container'[s] # "none" => container[s] # "none"),
         record' = record, sweep' = sweep,
         call'[c].pc \notin {"evict", "stop", "rm", "volume"},
         \/ MakesRoom(c)' \/ (call'[c].kind = "ensure" /\ call'[c].pc \notin {"idle", "op"})
           => record[call'[c].id] = "ensured"
  PROVE  PersonInv'
<1>1. \A s \in Sandboxes : record[s] # "label"
  BY DEF PersonInv, OwnersKnown
<1>2. OwnersKnown' /\ NoneDropped'
  BY <1>1, KnownKept
<1>3. Awake' \subseteq Awake
  BY DEF Awake
<1>4. \A k \in Calls : call'[k].pc \in {"evict", "stop"}
           => /\ call[k].pc \in {"evict", "stop"} /\ call'[k].id = call[k].id
              /\ Awake' \ call'[k].evict \subseteq Awake \ call[k].evict
  BY <1>3
<1> QED BY <1>2, <1>3, <1>4, PersonKept

LEMMA PersonFail ==
  ASSUME TypeOK, PersonInv, NEW c \in Calls, Fail(c)
  PROVE  PersonInv'
<1>1. container' = container /\ record' = record /\ sweep' = sweep
  BY DEF Fail, docker, known
<1>2. call'[c] = Resting /\ \A k \in Calls \ {c} : call'[k] = call[k]
  BY OneReplaced DEF Fail, End
<1> QED BY <1>1, <1>2, PersonAside DEF Resting, MakesRoom

LEMMA PersonArrives ==
  ASSUME NothingDropped, TypeOK, PersonInv, NEW c \in Calls, Arrives(c)
  PROVE  PersonInv'
<1>1. PICK s \in Sandboxes : EnsureStart(c, s) \/ TurnStart(c, s) \/ FileStart(c, s) \/ DeleteStart(c, s)
  BY DEF Arrives
<1>2. EnsureStart(c, s) \/ TurnStart(c, s) \/ FileStart(c, s)
  BY <1>1 DEF DeleteStart, NothingDropped
<1>3. container' = container /\ record' = record /\ sweep' = sweep
  BY <1>2 DEF EnsureStart, TurnStart, FileStart, docker, known
<1>4. PICK kind \in {"ensure", "turn", "file"}, pc \in {"op", "lock"} : Begin(c, s, kind, pc) /\ (kind = "ensure" => pc = "op")
  BY <1>2 DEF EnsureStart, TurnStart, FileStart
<1>5. /\ call'[c] = [Resting EXCEPT !.kind = kind, !.pc = pc, !.id = s]
      /\ \A k \in Calls \ {c} : call'[k] = call[k]
  BY <1>4, OneReplaced DEF Begin
<1>6. call'[c].pc = pc /\ call'[c].kind = kind
  BY <1>5 DEF Resting
<1> QED BY <1>3, <1>4, <1>5, <1>6, PersonAside DEF MakesRoom

LEMMA PersonLocks ==
  ASSUME TypeOK, PersonInv, NEW c \in Calls, EnsureRemember(c) \/ WakeLock(c)
  PROVE  PersonInv'
<1>1. call[c] \in Requests /\ call[c].id \in Sandboxes
  BY Serving DEF EnsureRemember, WakeLock
<1>2. container' = container /\ sweep' = sweep
  BY DEF EnsureRemember, WakeLock, docker
<1>3. PICK pc \in {"lock", "look"} : Goto(c, pc)
  BY DEF EnsureRemember, WakeLock
<1>4. /\ call'[c].pc \in {"lock", "look"} /\ call'[c].id = call[c].id /\ call'[c].kind = call[c].kind
      /\ \A k \in Calls \ {c} : call'[k] = call[k]
  BY <1>1, <1>3, OneGoes DEF Requests
<1>5. /\ \A s \in Sandboxes : record[s] = "ensured" => record'[s] = "ensured"
      /\ \A s \in Sandboxes : record'[s] # "label"
      /\ call'[c].kind = "ensure" => record'[call[c].id] = "ensured"
  <2>1. record \in [Sandboxes -> {"none", "blank", "label", "ensured"}] /\ \A s \in Sandboxes : record[s] # "label"
    BY DEF TypeOK, KnownOK, PersonInv, OwnersKnown
  <2>2. CASE EnsureRemember(c)
    <3>1. record' = [record EXCEPT ![call[c].id] = "ensured"]
      BY <2>2 DEF EnsureRemember
    <3> QED BY <1>1, <2>1, <3>1
  <2>3. CASE WakeLock(c)
    <3>1. record' = [record EXCEPT ![call[c].id] = IF @ = "none" THEN "blank" ELSE @] /\ call[c].pc = "lock"
      BY <2>3 DEF WakeLock
    <3>2. call[c].kind = "ensure" => record[call[c].id] = "ensured"
      BY <3>1 DEF PersonInv, OwnersKnown
    <3> QED BY <1>1, <1>4, <2>1, <3>1, <3>2
  <2> QED BY <2>2, <2>3
<1>6. OwnersKnown' /\ NoneDropped'
  BY <1>2, <1>4, <1>5, KnownKept DEF MakesRoom
<1>7. Awake' = Awake
  BY <1>2 DEF Awake
<1> QED BY <1>4, <1>6, <1>7, PersonKept

LEMMA PersonWakes ==
  ASSUME TypeOK, PersonInv, NEW c \in Calls, WakeAwake(c) \/ WakeAsleep(c) \/ WakeGone(c)
  PROVE  PersonInv'
<1>1. call[c] \in Requests /\ call[c].id \in Sandboxes /\ call[c].pc = "look"
  BY Serving DEF WakeAwake, WakeAsleep, WakeGone
<1>2. call[c].kind = "ensure" => record[call[c].id] = "ensured"
  BY <1>1 DEF PersonInv, OwnersKnown
<1>3. CASE WakeAwake(c)
  <2>1. /\ record' = record /\ sweep' = sweep /\ container' = [container EXCEPT ![call[c].id] = "running"]
        /\ container[call[c].id] \in {"running", "paused"}
    BY <1>3 DEF WakeAwake, known
  <2>2. Awake' \subseteq Awake /\ \A s \in Sandboxes : container'[s] # "none" => container[s] # "none"
    BY <2>1, <1>1 DEF Awake, TypeOK, DockerOK
  <2>3. call'[c] = [call[c] EXCEPT !.pc = "woken"] /\ \A k \in Calls \ {c} : call'[k] = call[k]
    BY <1>3, OneGoes DEF WakeAwake
  <2>4. call'[c].pc = "woken" /\ call'[c].kind = call[c].kind /\ call'[c].id = call[c].id
    BY <2>3, <1>1 DEF Requests
  <2> QED BY <1>2, <2>1, <2>2, <2>3, <2>4, PersonAside DEF MakesRoom
<1>4. CASE WakeAsleep(c)
  <2>1. record' = record /\ sweep' = sweep /\ container' = container
    BY <1>4 DEF WakeAsleep, known, docker
  <2>2. record[call[c].id] = "ensured"
    BY <1>1, <1>4 DEF WakeAsleep, HasRepo, PersonInv, OwnersKnown
  <2>3. /\ call'[c].pc = "room" /\ call'[c].id = call[c].id
        /\ \A k \in Calls \ {c} : call'[k] = call[k]
    BY <1>1, <1>4 DEF WakeAsleep, TypeOK, CallsOK, Requests
  <2> QED BY <2>1, <2>2, <2>3, PersonAside
<1>5. CASE WakeGone(c)
  <2>1. CASE call[c].kind = "ensure"
    <3>1. record' = record /\ sweep' = sweep /\ container' = container
      BY <1>5, <2>1 DEF WakeGone, known, docker
    <3>2. /\ call'[c].pc = "room" /\ call'[c].id = call[c].id
          /\ \A k \in Calls \ {c} : call'[k] = call[k]
      BY <1>1, <1>5, <2>1 DEF WakeGone, TypeOK, CallsOK, Requests
    <3> QED BY <1>2, <2>1, <3>1, <3>2, PersonAside
  <2>2. CASE call[c].kind # "ensure"
    BY <1>5, <2>2, PersonFail DEF WakeGone
  <2> QED BY <2>1, <2>2
<1> QED BY <1>3, <1>4, <1>5

\* Taking s.room, choosing, and stopping what was chosen.
LEMMA PersonRoom ==
  ASSUME TypeOK, CapInv, PersonInv, NEW c \in Calls,
         \/ RoomLock(c) \/ MakeRoom(c) \/ RoomRefused(c)
         \/ (\E v \in Sandboxes : EvictLock(c, v)) \/ EvictStop(c)
  PROVE  PersonInv'
<1>1. CASE Fail(c)
  BY <1>1, PersonFail
<1>2. CASE ~Fail(c)
  <2>1. /\ call[c] \in Requests /\ call[c].id \in Sandboxes /\ MakesRoom(c)
    BY Serving DEF RoomLock, MakeRoom, RoomRefused, EvictLock, EvictStop, MakesRoom
  <2>2. record[call[c].id] = "ensured"
    BY <2>1 DEF PersonInv, OwnersKnown
  <2>3. CASE RoomLock(c)
    <3>1. record' = record /\ sweep' = sweep /\ container' = container
      BY <2>3 DEF RoomLock, known, docker
    <3>2. call'[c] = [call[c] EXCEPT !.pc = "plan"] /\ \A k \in Calls \ {c} : call'[k] = call[k]
      BY <2>3, OneGoes DEF RoomLock
    <3>3. call'[c].pc = "plan" /\ call'[c].id = call[c].id
      BY <3>2, <2>1 DEF Requests
    <3> QED BY <2>2, <3>1, <3>2, <3>3, PersonAside
  <2>4. CASE MakeRoom(c)
    <3>1. PICK E \in planRoom(call[c].id) :
            call' = [call EXCEPT ![c].pc = "evict", ![c].evict = E]
      BY <2>4 DEF MakeRoom
    <3>2. /\ call'[c].pc = "evict" /\ call'[c].evict = E /\ call'[c].id = call[c].id
          /\ \A k \in Calls \ {c} : call'[k] = call[k]
      BY <2>1, <3>1 DEF TypeOK, CallsOK, Requests
    <3>3. record' = record /\ sweep' = sweep /\ container' = container
      BY <2>4 DEF MakeRoom, known, docker
    <3>4. \A s \in Sandboxes : record[s] # "label"
      BY DEF PersonInv, OwnersKnown
    <3>5. OwnersKnown' /\ NoneDropped'
      BY <2>2, <3>2, <3>3, <3>4, KnownKept
    <3>6. Cardinality(Theirs(Owner[call[c].id]) \ (E \cup {call[c].id})) < PerPerson
      BY <2>1, <2>2, TheirRoomEnough DEF PersonInv
    <3>7. Awake' = Awake
      BY <3>3 DEF Awake
    <3>8. TheirCap'
      BY <3>7 DEF PersonInv, TheirCap, Theirs
    <3>9. TheirRoomMade'
      <4> SUFFICES ASSUME NEW k \in Calls, call'[k].pc \in {"evict", "stop"}
                   PROVE  Cardinality({s \in Awake' : Owner[s] = Owner[call'[k].id]} \ (call'[k].evict \cup {call'[k].id})) < PerPerson
        BY DEF TheirRoomMade, Theirs
      <4>1. CASE k = c
        BY <4>1, <3>2, <3>6, <3>7 DEF Theirs
      <4>2. CASE k # c
        BY <4>2, <3>2, <3>7 DEF PersonInv, TheirRoomMade, Theirs
      <4> QED BY <4>1, <4>2
    <3> QED BY <3>5, <3>8, <3>9 DEF PersonInv
  <2>5. ASSUME NEW v \in Sandboxes, EvictLock(c, v)
        PROVE  PersonInv'
    <3>1. call[c].pc = "evict" /\ call' = [call EXCEPT ![c].pc = "stop", ![c].victim = v]
      BY <1>2, <2>5 DEF EvictLock
    <3>2. /\ call'[c].pc = "stop" /\ call'[c].evict = call[c].evict /\ call'[c].id = call[c].id
          /\ \A k \in Calls \ {c} : call'[k] = call[k]
      BY <2>1, <3>1 DEF TypeOK, CallsOK, Requests
    <3>3. record' = record /\ sweep' = sweep /\ container' = container
      BY <1>2, <2>5 DEF EvictLock, known, docker
    <3>4. \A s \in Sandboxes : record[s] # "label"
      BY DEF PersonInv, OwnersKnown
    <3>5. OwnersKnown' /\ NoneDropped'
      BY <2>2, <3>2, <3>3, <3>4, KnownKept
    <3>6. Awake' = Awake
      BY <3>3 DEF Awake
    <3> QED BY <3>1, <3>2, <3>5, <3>6, PersonKept
  <2>6. CASE EvictStop(c)
    <3> DEFINE v == call[c].victim
    <3>1. /\ call[c].pc = "stop" /\ container[v] # "none"
          /\ container' = [container EXCEPT ![v] = "exited"]
          /\ call' = [call EXCEPT ![c].pc = "evict", ![c].victim = None, ![c].evict = @ \ {v}]
          /\ record' = record /\ sweep' = sweep
      BY <1>2, <2>6 DEF EvictStop, known
    <3>2. Awake' = Awake \ {v} /\ \A s \in Sandboxes : container'[s] # "none" => container[s] # "none"
      BY <3>1 DEF Awake, TypeOK, DockerOK
    <3>3. /\ call'[c].pc = "evict" /\ call'[c].evict = call[c].evict \ {v} /\ call'[c].id = call[c].id
          /\ \A k \in Calls \ {c} : call'[k] = call[k]
      BY <2>1, <3>1 DEF TypeOK, CallsOK, Requests
    <3> HIDE DEF v
    <3>4. \A s \in Sandboxes : record[s] # "label"
      BY DEF PersonInv, OwnersKnown
    <3>5. OwnersKnown' /\ NoneDropped'
      BY <2>2, <3>1, <3>2, <3>3, <3>4, KnownKept
    <3>6. \A k \in Calls : call'[k].pc \in {"evict", "stop"}
           => /\ call[k].pc \in {"evict", "stop"} /\ call'[k].id = call[k].id
              /\ Awake' \ call'[k].evict \subseteq Awake \ call[k].evict
      BY <3>1, <3>2, <3>3
    <3> QED BY <3>2, <3>5, <3>6, PersonKept
  <2> QED BY <1>2, <2>3, <2>4, <2>5, <2>6 DEF RoomRefused
<1> QED BY <1>1, <1>2

\* Bringing a sandbox up takes the slot that was made for it among its owner's.
LEMMA PersonBringsUp ==
  ASSUME TypeOK, CapInv, PersonInv, NEW c \in Calls, BringUp(c) \/ BringUpRefused(c) \/ BringUpFails(c)
  PROVE  PersonInv'
<1>1. CASE BringUpRefused(c)
  BY <1>1, PersonFail DEF BringUpRefused
<1>2. CASE BringUp(c) \/ BringUpFails(c)
  <2> DEFINE s == call[c].id
  <2>1. /\ call[c] \in Requests /\ s \in Sandboxes /\ room = c
        /\ call[c].pc = "evict" /\ call[c].evict = {}
        /\ record' = record /\ sweep' = sweep
    BY <1>2, Serving DEF BringUp, BringUpFails, CapInv, RoomHeld, known
  <2>2. record[s] = "ensured"
    BY <2>1 DEF PersonInv, OwnersKnown, MakesRoom
  <2>3. \/ container' = container
        \/ \E left \in {"running", "exited"} : container' = [container EXCEPT ![s] = left] /\ (left = "exited" => container[s] = "none")
    BY <1>2 DEF BringUp, BringUpFails
  <2>4. call'[c].pc \in {"woken", "idle"} /\ \A k \in Calls \ {c} : call'[k] = call[k]
    BY <1>2, <2>1 DEF BringUp, BringUpFails, End, Resting, Requests, TypeOK, CallsOK
  <2>5. call'[c].pc = "idle" \/ (call'[c].kind = call[c].kind /\ call'[c].id = s)
    BY <1>2, <2>1 DEF BringUp, BringUpFails, End, Resting, Requests, TypeOK, CallsOK
  <2>6. Awake' = Awake \/ Awake' = Awake \cup {s}
    BY <2>1, <2>3 DEF Awake, TypeOK, DockerOK
  <2>7. \A z \in Sandboxes : container'[z] # "none" => container[z] # "none" \/ record'[z] = "ensured"
    BY <2>1, <2>2, <2>3 DEF TypeOK, DockerOK
  <2>8. \A z \in Sandboxes : record[z] # "label"
    BY DEF PersonInv, OwnersKnown
  <2>9. OwnersKnown' /\ NoneDropped'
    BY <2>1, <2>2, <2>4, <2>5, <2>7, <2>8, KnownKept DEF MakesRoom
  <2>10. TheirRoomMade'
    <3>1. \A k \in Calls : call'[k].pc \notin {"evict", "stop"}
      BY <2>1, <2>4 DEF CapInv, RoomHeld
    <3> QED BY <3>1 DEF TheirRoomMade
  <2>11. Cardinality(Theirs(Owner[s]) \cup {s}) <= PerPerson
    <3>1. Cardinality(Theirs(Owner[s]) \ ({} \cup {s})) < PerPerson
      BY <2>1 DEF PersonInv, TheirRoomMade
    <3> DEFINE S == Theirs(Owner[s]) \ {s}
    <3>2. Theirs(Owner[s]) \ ({} \cup {s}) = S /\ Theirs(Owner[s]) \cup {s} = S \cup {s} /\ s \notin S
      OBVIOUS
    <3>3. IsFiniteSet(S)
      BY TheirsFinite, FS_RemoveElement
    <3> HIDE DEF S, s
    <3>4. Cardinality(S \cup {s}) = Cardinality(S) + 1 /\ Cardinality(S) \in Nat
      BY <3>2, <3>3, FS_AddElement, FS_CardinalityType
    <3>5. Cardinality(S) < PerPerson
      BY <3>1, <3>2
    <3>6. Cardinality(S \cup {s}) <= PerPerson
      BY <3>4, <3>5, SleepAssumption
    <3> QED BY <3>2, <3>6
  <2>12. TheirCap'
    <3> SUFFICES ASSUME NEW p \in People PROVE Cardinality({z \in Awake' : Owner[z] = p}) <= PerPerson
      BY DEF TheirCap, Theirs
    <3>1. CASE p # Owner[s] \/ Awake' = Awake
      <4>1. {z \in Awake' : Owner[z] = p} = Theirs(p)
        BY <2>6, <3>1 DEF Theirs
      <4> QED BY <4>1 DEF PersonInv, TheirCap
    <3>2. CASE p = Owner[s] /\ Awake' = Awake \cup {s}
      <4>1. {z \in Awake' : Owner[z] = p} = Theirs(Owner[s]) \cup {s}
        BY <3>2 DEF Theirs
      <4> QED BY <4>1, <2>11
    <3> QED BY <2>6, <3>1, <3>2
  <2> QED BY <2>9, <2>10, <2>12 DEF PersonInv
<1> QED BY <1>1, <1>2

LEMMA PersonWorks ==
  ASSUME TypeOK, PersonInv, NEW c \in Calls,
         EnsureAnswer(c) \/ EnsureFails(c) \/ FileDone(c) \/ TurnBusy(c) \/ TurnOutput(c) \/ TurnEnd(c)
  PROVE  PersonInv'
<1>1. CASE EnsureFails(c)
  BY <1>1, PersonFail DEF EnsureFails
<1>2. CASE ~EnsureFails(c)
  <2>1. record' = record /\ sweep' = sweep /\ container' = container
    BY <1>2 DEF EnsureAnswer, FileDone, TurnBusy, TurnOutput, TurnEnd, known, docker
  <2>2. call[c] \in Requests
    BY DEF TypeOK, CallsOK
  <2>3. /\ call'[c].pc = "idle" \/ (call'[c].pc = "turn" /\ call'[c].kind = "turn") \/ call'[c] = call[c]
        /\ call'[c] = call[c] => call[c].pc = "turn"
        /\ \A k \in Calls \ {c} : call'[k] = call[k]
    BY <1>2, <2>2 DEF EnsureAnswer, FileDone, TurnBusy, TurnOutput, TurnEnd, End, Goto, Resting, Requests, TypeOK, CallsOK
  <2>4. call'[c].pc \in {"idle", "turn"}
    BY <2>3
  <2>5. call'[c].kind = "ensure" /\ call'[c].pc \notin {"idle", "op"} => record[call'[c].id] = "ensured"
    BY <2>3 DEF PersonInv, OwnersKnown
  <2> QED BY <2>1, <2>3, <2>4, <2>5, PersonAside DEF MakesRoom
<1> QED BY <1>1, <1>2

LEMMA PersonSweeps ==
  ASSUME NothingDropped, TypeOK, PersonInv, Sweeps
  PROVE  PersonInv'
<1>0. /\ sweep \in [pc : {"rest", "boxes", "lock", "act", "quiet", "forgetlock", "forget"},
                    left : SUBSET Sandboxes, found : [Sandboxes -> States],
                    id : Sandboxes \cup {None}, action : {"stay", "pause", "stop", "remove"}]
      /\ sweep.pc \notin {"quiet", "forgetlock", "forget"}
  BY DEF TypeOK, SweepOK, PersonInv, NoneDropped
<1>1. call' = call
  BY DEF Sweeps, SweepStart, SweepLook, SweepLock, SweepAct, ForgetStart, ForgetLook, ForgetLock,
         ForgetVolume, SweepEnd
<1>2. SweepStart \/ (\E s \in Sandboxes : SweepLook(s)) \/ SweepLock \/ SweepAct \/ (ForgetStart /\ ForgetAfter = 0)
  BY <1>0 DEF Sweeps, ForgetLook, ForgetLock, ForgetVolume, SweepEnd, NothingDropped
<1>3. sweep'.pc \in {"rest", "boxes", "lock", "act"}
  <2>1. CASE SweepStart
    BY <2>1 DEF SweepStart, SweepRest
  <2>4. CASE ForgetStart /\ ForgetAfter = 0
    <3>1. sweep' = SweepRest
      BY <2>4 DEF ForgetStart
    <3> QED BY <3>1 DEF SweepRest
  <2>2. CASE \E s \in Sandboxes : SweepLook(s)
    BY <1>0, <2>2 DEF SweepLook
  <2>3. CASE SweepLock \/ SweepAct
    BY <1>0, <2>3 DEF SweepLock, SweepAct, SweepNext
  <2> QED BY <1>2, <2>1, <2>2, <2>3, <2>4
<1>4. NoneDropped'
  BY <1>1, <1>3 DEF PersonInv, NoneDropped
<1>5. record' = record /\ Awake' \subseteq Awake /\ \A s \in Sandboxes : container'[s] # "none" => container[s] # "none"
  <2>1. CASE SweepAct
    <3>1. record' = record
      <4>1. container[sweep.id] = "none" \/ record[sweep.id] = "ensured"
        BY <2>1, <1>0 DEF SweepAct, TypeOK, SweepOK, PersonInv, OwnersKnown
      <4> QED BY <2>1, <4>1 DEF SweepAct, KeepRepoLabel, known
    <3>2. Awake' \subseteq Awake /\ \A s \in Sandboxes : container'[s] # "none" => container[s] # "none"
      BY <2>1 DEF SweepAct, Awake, TypeOK, DockerOK
    <3> QED BY <3>1, <3>2
  <2>2. CASE ~SweepAct
    BY <1>2, <2>2 DEF SweepStart, SweepLook, SweepLock, ForgetStart, known, docker, Awake
  <2> QED BY <2>1, <2>2
<1>6. OwnersKnown'
  BY <1>1, <1>5 DEF PersonInv, OwnersKnown, MakesRoom
<1> QED BY <1>1, <1>4, <1>5, <1>6, PersonKept

LEMMA PersonStep ==
  ASSUME NothingDropped, TypeOK, CapInv, PersonInv, [Next]_vars
  PROVE  PersonInv'
<1>1. ASSUME NEW c \in Calls, Serves(c) PROVE PersonInv'
  <2>1. CASE Arrives(c)
    BY <2>1, PersonArrives
  <2>2. CASE Locks(c)
    BY <2>2, PersonLocks, PersonRoom DEF Locks
  <2>3. CASE WakeAwake(c) \/ WakeAsleep(c) \/ WakeGone(c)
    BY <2>3, PersonWakes
  <2>4. CASE MakeRoom(c) \/ RoomRefused(c) \/ (\E v \in Sandboxes : EvictLock(c, v)) \/ EvictStop(c)
    BY <2>4, PersonRoom
  <2>5. CASE BringUp(c) \/ BringUpRefused(c) \/ BringUpFails(c)
    BY <2>5, PersonBringsUp
  <2>6. CASE EnsureAnswer(c) \/ EnsureFails(c) \/ FileDone(c) \/ TurnBusy(c) \/ TurnOutput(c) \/ TurnEnd(c)
    BY <2>6, PersonWorks
  <2>7. CASE DeleteContainer(c) \/ DeleteVolume(c)
    BY <2>7 DEF DeleteContainer, DeleteVolume, PersonInv, NoneDropped
  <2> QED BY <1>1, <2>1, <2>2, <2>3, <2>4, <2>5, <2>6, <2>7 DEF Serves, Proceeds
<1>2. CASE Sweeps
  BY <1>2, PersonSweeps
<1>3. CASE Restart
  <2>1. /\ record' = record /\ container' = container /\ sweep'.pc = "rest"
        /\ \A k \in Calls : call'[k].pc = "idle"
    BY <1>3 DEF Restart, Resting, SweepRest, docker
  <2>2. OwnersKnown' /\ NoneDropped'
    BY <2>1 DEF PersonInv, OwnersKnown, NoneDropped, MakesRoom
  <2>3. Awake' = Awake
    BY <2>1 DEF Awake
  <2> QED BY <2>1, <2>2, <2>3, PersonKept
<1>4. CASE Tick \/ UNCHANGED vars
  <2>1. record' = record /\ container' = container /\ sweep' = sweep /\ call' = call
    BY <1>4 DEF Tick, vars, known, docker
  <2>2. OwnersKnown' /\ NoneDropped'
    BY <2>1 DEF PersonInv, OwnersKnown, NoneDropped, MakesRoom
  <2>3. Awake' = Awake
    BY <2>1 DEF Awake
  <2> QED BY <2>1, <2>2, <2>3, PersonKept
<1> QED BY <1>1, <1>2, <1>3, <1>4 DEF Next

LEMMA PersonStarts ==
  ASSUME Init
  PROVE  PersonInv
<1>1. Awake = {}
  BY DEF Init, Awake
<1>2. /\ \A c \in Calls : call[c].pc = "idle"
      /\ sweep.pc = "rest"
      /\ \A s \in Sandboxes : record[s] = IF container[s] = "none" THEN "none" ELSE "ensured"
  BY DEF Init, Resting, SweepRest
<1>3. \A p : Theirs(p) = {}
  BY <1>1 DEF Theirs
<1>4. TheirCap
  BY <1>3, FS_EmptySet, SleepAssumption DEF TheirCap
<1> QED BY <1>2, <1>4 DEF PersonInv, OwnersKnown, NoneDropped, TheirRoomMade, MakesRoom

\* limits.go: nobody has more sandboxes awake than their share, whatever fails, sleeps or restarts, while no
\* workspace is deleted or forgotten: one that is, and is asked for again at once, is nobody's for a while.
THEOREM PersonsCap ==
  ASSUME NothingDropped
  PROVE  Spec => []PersonCap
<1>1. TypeOK /\ CapInv /\ PersonInv /\ [Next]_vars => PersonInv'
  BY PersonStep
<1>2. Spec => []PersonInv
  BY <1>1, PersonStarts, TypeInvariant, CapInvariant, PTL DEF Spec
<1>3. PersonInv => PersonCap
  <2> SUFFICES ASSUME PersonInv, NEW p \in People PROVE Cardinality({s \in Awake : OwnerOf(s) = p}) <= PerPerson
    BY DEF PersonCap
  <2>1. {s \in Awake : OwnerOf(s) = p} = Theirs(p)
    BY DEF PersonInv, OwnersKnown, OwnerOf, Awake, Theirs
  <2> QED BY <2>1 DEF PersonInv, TheirCap
<1> QED BY <1>2, <1>3, PTL

----------------------------------------------------------------------------
\* What a sandbox's volume holds

\* A request is a delete while it removes the container and the volume.
DeletesAre == \A c \in Calls : call[c].kind = "delete" <=> call[c].pc \in {"rm", "volume"}

\* A step of one request that deletes nothing.
Ordinary(c) ==
  /\ \A k \in Calls \ {c} : call'[k] = call[k]
  /\ call[c].pc \notin {"rm", "volume"} /\ call'[c].pc \notin {"rm", "volume"}
  /\ call'[c].kind # "delete" \/ call'[c].kind = call[c].kind
  /\ deleted' = deleted

LEMMA OrdinaryEnds ==
  ASSUME TypeOK, NEW c \in Calls, End(c), call[c].pc \notin {"rm", "volume"}, deleted' = deleted
  PROVE  Ordinary(c) /\ call'[c] = Resting
<1>1. call'[c] = Resting /\ \A k \in Calls \ {c} : call'[k] = call[k]
  BY OneReplaced DEF End
<1> QED BY <1>1 DEF Ordinary, Resting

LEMMA OrdinaryGoes ==
  ASSUME TypeOK, NEW c \in Calls, NEW pc, pc \notin {"rm", "volume"}, Goto(c, pc), call[c].pc \notin {"rm", "volume"}, deleted' = deleted
  PROVE  Ordinary(c)
BY OneGoes DEF Ordinary

LEMMA OrdinaryFails ==
  ASSUME TypeOK, NEW c \in Calls, Fail(c), call[c].pc \notin {"rm", "volume"}
  PROVE  Ordinary(c) /\ call'[c] = Resting
BY OrdinaryEnds DEF Fail, portal

LEMMA OrdinaryArrives ==
  ASSUME TypeOK, NEW c \in Calls, NEW s \in Sandboxes, EnsureStart(c, s) \/ TurnStart(c, s) \/ FileStart(c, s)
  PROVE  /\ Ordinary(c) /\ UNCHANGED <<container, volume, record, wakeLock, fresh, sweep>>
         /\ call'[c].pc \in {"op", "lock"} /\ ~call'[c].dead
<1>1. UNCHANGED <<container, volume, record, wakeLock, fresh, sweep, deleted>>
  BY DEF EnsureStart, TurnStart, FileStart, docker, known, locks, portal, spaces
<1>2. PICK kind \in {"ensure", "turn", "file"}, pc \in {"op", "lock"} : Begin(c, s, kind, pc)
  BY DEF EnsureStart, TurnStart, FileStart
<1>3. /\ call'[c] = [Resting EXCEPT !.kind = kind, !.pc = pc, !.id = s]
      /\ \A k \in Calls \ {c} : call'[k] = call[k]
      /\ call[c].pc = "idle"
  BY <1>2, OneReplaced DEF Begin
<1>4. call'[c].pc = pc /\ call'[c].kind = kind /\ call'[c].dead = FALSE
  BY <1>3 DEF Resting
<1> QED BY <1>1, <1>3, <1>4 DEF Ordinary

LEMMA OrdinaryWakes ==
  ASSUME TypeOK, NEW c \in Calls,
         \/ EnsureRemember(c) \/ WakeLock(c) \/ RoomLock(c)
         \/ WakeAwake(c) \/ WakeAsleep(c) \/ WakeGone(c)
  PROVE  Ordinary(c)
<1>0. call[c] \in Requests
  BY DEF TypeOK, CallsOK
<1>1. CASE EnsureRemember(c) \/ WakeLock(c) \/ RoomLock(c) \/ WakeAwake(c)
  <2>1. PICK pc \in {"lock", "look", "plan", "woken"} : Goto(c, pc)
    BY <1>1 DEF EnsureRemember, WakeLock, RoomLock, WakeAwake
  <2>2. call[c].pc \notin {"rm", "volume"} /\ deleted' = deleted
    BY <1>1 DEF EnsureRemember, WakeLock, RoomLock, WakeAwake, portal
  <2> QED BY <2>1, <2>2, OrdinaryGoes
<1>2. CASE WakeAsleep(c)
  <2>1. /\ call'[c].pc = "room" /\ call'[c].kind = call[c].kind
        /\ \A k \in Calls \ {c} : call'[k] = call[k]
    BY <1>0, <1>2 DEF WakeAsleep, TypeOK, CallsOK, Requests
  <2> QED BY <1>2, <2>1 DEF WakeAsleep, Ordinary, portal
<1>3. CASE WakeGone(c)
  <2>1. CASE call[c].kind = "ensure"
    <3>1. /\ call'[c].pc = "room" /\ call'[c].kind = call[c].kind
          /\ \A k \in Calls \ {c} : call'[k] = call[k]
      BY <1>0, <1>3, <2>1 DEF WakeGone, TypeOK, CallsOK, Requests
    <3> QED BY <1>3, <2>1, <3>1 DEF WakeGone, Ordinary, portal
  <2>2. CASE call[c].kind # "ensure"
    BY <1>3, <2>2, OrdinaryFails DEF WakeGone
  <2> QED BY <2>1, <2>2
<1> QED BY <1>1, <1>2, <1>3

LEMMA OrdinaryRoom ==
  ASSUME TypeOK, NEW c \in Calls,
         \/ MakeRoom(c) \/ RoomRefused(c) \/ (\E v \in Sandboxes : EvictLock(c, v)) \/ EvictStop(c)
         \/ BringUp(c) \/ BringUpRefused(c) \/ BringUpFails(c)
  PROVE  Ordinary(c)
<1>0. call[c] \in Requests /\ call[c].pc \in {"plan", "evict", "stop"}
  BY DEF TypeOK, CallsOK, MakeRoom, RoomRefused, EvictLock, EvictStop, BringUp, BringUpRefused, BringUpFails
<1>1. CASE Fail(c) \/ BringUpFails(c)
  BY <1>0, <1>1, OrdinaryFails, OrdinaryEnds DEF BringUpFails, portal
<1>2. CASE ~Fail(c) /\ ~BringUpFails(c)
  <2>1. deleted' = deleted
    BY <1>2 DEF MakeRoom, RoomRefused, EvictLock, EvictStop, BringUp, BringUpRefused, portal
  <2>2. /\ call'[c].kind = call[c].kind /\ call'[c].pc \in {"evict", "stop", "woken"}
        /\ \A k \in Calls \ {c} : call'[k] = call[k]
    <3>1. CASE MakeRoom(c)
      BY <1>0, <3>1 DEF MakeRoom, TypeOK, CallsOK, Requests
    <3>2. ASSUME NEW v \in Sandboxes, EvictLock(c, v)
          PROVE  /\ call'[c].kind = call[c].kind /\ call'[c].pc \in {"evict", "stop", "woken"}
                 /\ \A k \in Calls \ {c} : call'[k] = call[k]
      BY <1>0, <1>2, <3>2 DEF EvictLock, TypeOK, CallsOK, Requests
    <3>3. CASE EvictStop(c)
      BY <1>0, <1>2, <3>3 DEF EvictStop, TypeOK, CallsOK, Requests
    <3>4. CASE BringUp(c)
      BY <1>0, <3>4 DEF BringUp, TypeOK, CallsOK, Requests
    <3> QED BY <1>2, <3>1, <3>2, <3>3, <3>4 DEF RoomRefused, BringUpRefused
  <2> QED BY <1>0, <2>1, <2>2 DEF Ordinary
<1> QED BY <1>1, <1>2

LEMMA OrdinaryWorks ==
  ASSUME TypeOK, NEW c \in Calls,
         EnsureAnswer(c) \/ EnsureFails(c) \/ FileDone(c) \/ TurnBusy(c) \/ TurnOutput(c) \/ TurnEnd(c)
  PROVE  Ordinary(c)
<1>0. call[c].pc \in {"woken", "turn"} /\ deleted' = deleted
  BY DEF EnsureAnswer, EnsureFails, FileDone, TurnBusy, TurnOutput, TurnEnd, Fail, portal
<1>1. End(c) \/ Goto(c, "turn") \/ call' = call
  BY DEF EnsureAnswer, EnsureFails, FileDone, TurnBusy, TurnOutput, TurnEnd, Fail
<1>2. CASE call' = call
  BY <1>0, <1>2 DEF Ordinary
<1>3. CASE Goto(c, "turn")
  BY <1>0, <1>3, OrdinaryGoes
<1> QED BY <1>0, <1>1, <1>2, <1>3, OrdinaryEnds

\* A step that deletes nothing leaves who is leaving as it is.
LEMMA OrdinaryLeaves ==
  ASSUME DeletesAre, NEW c \in Calls, Ordinary(c)
  PROVE  DeletesAre' /\ \A s \in Sandboxes : Leaving(s)' <=> Leaving(s)
<1>1. call[c].kind # "delete" /\ call'[c].kind # "delete"
  BY DEF DeletesAre, Ordinary
<1>2. DeletesAre'
  <2> SUFFICES ASSUME NEW k \in Calls PROVE call'[k].kind = "delete" <=> call'[k].pc \in {"rm", "volume"}
    BY DEF DeletesAre
  <2> QED BY <1>1 DEF DeletesAre, Ordinary
<1>3. \A k \in Calls : call'[k].kind = "delete" <=> call[k].kind = "delete"
  BY <1>1 DEF Ordinary
<1>4. \A k \in Calls : call[k].kind = "delete" => call'[k] = call[k]
  BY <1>1 DEF Ordinary
<1> QED BY <1>2, <1>3, <1>4 DEF Leaving, Ordinary

LEMMA DeletesLeave ==
  ASSUME TypeOK, DeletesAre, NEW c \in Calls, NEW s \in Sandboxes,
         DeleteStart(c, s) \/ (s = call[c].id /\ (DeleteContainer(c) \/ DeleteVolume(c)))
  PROVE  /\ DeletesAre' /\ Leaving(s)'
         /\ \A r \in Sandboxes : Leaving(r) => Leaving(r)'
         /\ \A r \in Sandboxes \ {s} : Leaving(r)' => Leaving(r)
<1>0. call \in [Calls -> Requests] /\ deleted \in [Sandboxes -> BOOLEAN]
  BY DEF TypeOK, CallsOK, PortalOK
<1>1. CASE DeleteStart(c, s)
  <2>1. /\ call' = [Orphaned(s) EXCEPT ![c] = [Resting EXCEPT !.kind = "delete", !.pc = "rm", !.id = s]]
        /\ deleted' = deleted /\ call[c].pc = "idle"
    BY <1>1 DEF DeleteStart, portal
  <2>2. \A k \in Calls \ {c} : call'[k].kind = call[k].kind /\ call'[k].pc = call[k].pc /\ call'[k].id = call[k].id
    BY <1>0, <2>1 DEF Orphaned, Requests
  <2>3. call'[c].kind = "delete" /\ call'[c].pc = "rm" /\ call'[c].id = s
    BY <2>1 DEF Orphaned, Resting
  <2>4. call[c].kind # "delete"
    BY <2>1 DEF DeletesAre
  <2>5. DeletesAre'
    BY <2>2, <2>3 DEF DeletesAre
  <2> QED BY <2>1, <2>2, <2>3, <2>4, <2>5 DEF Leaving
<1>2. CASE s = call[c].id /\ DeleteContainer(c)
  <2>1. Goto(c, "volume") /\ deleted' = deleted /\ call[c].pc = "rm"
    BY <1>2 DEF DeleteContainer, portal
  <2>2. /\ \A k \in Calls : call'[k].kind = call[k].kind /\ call'[k].id = call[k].id
        /\ \A k \in Calls \ {c} : call'[k].pc = call[k].pc
        /\ call'[c].pc = "volume"
    BY <2>1, OneGoes
  <2>3. call[c].kind = "delete"
    BY <2>1 DEF DeletesAre
  <2>4. DeletesAre'
    BY <2>2, <2>3 DEF DeletesAre
  <2> QED BY <1>2, <2>1, <2>2, <2>3, <2>4 DEF Leaving
<1>3. CASE s = call[c].id /\ DeleteVolume(c)
  <2>1. End(c) /\ deleted' = [deleted EXCEPT ![s] = TRUE]
    BY <1>3 DEF DeleteVolume
  <2>2. call'[c] = Resting /\ \A k \in Calls \ {c} : call'[k] = call[k]
    BY <2>1, OneReplaced DEF End
  <2>3. call'[c].kind = "none" /\ call'[c].pc = "idle"
    BY <2>2 DEF Resting
  <2>4. DeletesAre'
    BY <2>2, <2>3 DEF DeletesAre
  <2>5. deleted'[s] /\ \A r \in Sandboxes \ {s} : deleted'[r] = deleted[r]
    BY <1>0, <2>1
  <2> QED BY <1>0, <1>3, <2>1, <2>2, <2>3, <2>4, <2>5 DEF Leaving
<1> QED BY <1>1, <1>2, <1>3

\* A removed sandbox whose files were kept is known by its repository.
KeptInv ==
  /\ DeletesAre
  /\ \A s \in Sandboxes : ~Leaving(s) /\ volume[s] = "filled" /\ container[s] = "none" => record[s] \in {"label", "ensured"}

\* A step that removes nothing and forgets nothing of what is kept.
LEMMA KeptOn ==
  ASSUME KeptInv, DeletesAre', \A s \in Sandboxes : Leaving(s) => Leaving(s)',
         \A s \in Sandboxes : ~Leaving(s)' /\ volume'[s] = "filled" /\ container'[s] = "none" =>
           \/ record'[s] \in {"label", "ensured"}
           \/ volume[s] = "filled" /\ container[s] = "none" /\ (record[s] \in {"label", "ensured"} => record'[s] \in {"label", "ensured"})
  PROVE  KeptInv'
BY DEF KeptInv

LEMMA KeptSweeps ==
  ASSUME Chats = {}, TypeOK, KeptInv, Sweeps
  PROVE  KeptInv'
<1>1. call' = call /\ deleted' = deleted
  BY DEF Sweeps, SweepStart, SweepLook, SweepLock, SweepAct, ForgetStart, ForgetLook, ForgetLock,
         ForgetVolume, SweepEnd, portal
<1>2. DeletesAre' /\ \A s \in Sandboxes : Leaving(s) => Leaving(s)'
  BY <1>1 DEF KeptInv, DeletesAre, Leaving
<1>3. /\ container \in [Sandboxes -> States] /\ volume \in [Sandboxes -> {"none", "empty", "filled"}]
      /\ record \in [Sandboxes -> {"none", "blank", "label", "ensured"}]
  BY DEF TypeOK, DockerOK, KnownOK
<1>4. ASSUME NEW s \in Sandboxes, volume'[s] = "filled", container'[s] = "none"
      PROVE  \/ record'[s] \in {"label", "ensured"}
             \/ volume[s] = "filled" /\ container[s] = "none" /\ (record[s] \in {"label", "ensured"} => record'[s] \in {"label", "ensured"})
  <2>1. CASE SweepAct
    <3>1. volume' = volume
      BY <2>1 DEF SweepAct
    <3>2. CASE UNCHANGED known
      <4>1. record' = record
        BY <3>2 DEF known
      <4>2. CASE s # sweep.id \/ container[s] = "none"
        BY <2>1, <4>1, <4>2, <3>1, <1>3, <1>4 DEF SweepAct
      <4>3. CASE s = sweep.id /\ container[s] # "none"
        <5>1. sweep.action = "remove" /\ KeepRepoLabel(s)
          BY <2>1, <4>3, <1>3, <1>4 DEF SweepAct, States
        <5>2. record[s] \notin {"none", "blank"} \/ record' = [record EXCEPT ![s] = "label"]
          BY <5>1, <4>3 DEF KeepRepoLabel
        <5> QED BY <5>2, <4>1, <1>3
      <4> QED BY <4>2, <4>3
    <3>3. CASE ~UNCHANGED known
      <4>1. container[sweep.id] # "none" /\ record' = [record EXCEPT ![sweep.id] = "label"]
        BY <2>1, <3>3 DEF SweepAct, KeepRepoLabel
      <4>2. container' = [container EXCEPT ![sweep.id] = "none"]
        BY <2>1, <3>3 DEF SweepAct
      <4> QED BY <3>1, <4>1, <4>2, <1>3, <1>4
    <3> QED BY <3>2, <3>3
  <2>2. CASE ForgetVolume
    <3>1. container' = container
      BY <2>2 DEF ForgetVolume
    <3>2. CASE container[sweep.id] # "none"
      BY <2>2, <3>1, <3>2, <1>4 DEF ForgetVolume, known
    <3>3. CASE container[sweep.id] = "none"
      BY <2>2, <3>1, <3>3, <1>3, <1>4 DEF ForgetVolume
    <3> QED BY <3>2, <3>3
  <2>3. CASE ~SweepAct /\ ~ForgetVolume
    <3>1. UNCHANGED <<container, volume, record>>
      BY <2>3 DEF Sweeps, SweepStart, SweepLook, SweepLock, ForgetStart, ForgetLook, ForgetLock, SweepEnd, docker, known
    <3> QED BY <3>1, <1>4
  <2> QED BY <2>1, <2>2, <2>3
<1> QED BY <1>2, <1>4, KeptOn

LEMMA KeptStep ==
  ASSUME Chats = {}, TypeOK, KeptInv, [Next]_vars
  PROVE  KeptInv'
<1>0. /\ container \in [Sandboxes -> States] /\ volume \in [Sandboxes -> {"none", "empty", "filled"}]
      /\ record \in [Sandboxes -> {"none", "blank", "label", "ensured"}]
  BY DEF TypeOK, DockerOK, KnownOK
<1>1. ASSUME NEW c \in Calls, Serves(c) PROVE KeptInv'
  <2>0. call[c].pc # "idle" => call[c].id \in Sandboxes
    BY Serving
  <2>1. ASSUME NEW s \in Sandboxes, EnsureStart(c, s) \/ TurnStart(c, s) \/ FileStart(c, s)
        PROVE  KeptInv'
    <3>1. Ordinary(c) /\ UNCHANGED <<container, volume, record>>
      BY <2>1, OrdinaryArrives
    <3> QED BY <3>1, OrdinaryLeaves, KeptOn DEF KeptInv
  <2>2. ASSUME NEW s \in Sandboxes, DeleteStart(c, s) \/ (s = call[c].id /\ (DeleteContainer(c) \/ DeleteVolume(c)))
        PROVE  KeptInv'
    <3>1. /\ DeletesAre' /\ Leaving(s)' /\ \A r \in Sandboxes : Leaving(r) => Leaving(r)'
      BY <2>2, DeletesLeave DEF KeptInv
    <3>2. \A r \in Sandboxes \ {s} : container'[r] = container[r] /\ volume'[r] = volume[r] /\ record'[r] = record[r]
      <4>1. CASE DeleteStart(c, s)
        BY <4>1, <1>0 DEF DeleteStart, docker
      <4>2. CASE s = call[c].id /\ DeleteContainer(c)
        BY <4>2, <1>0 DEF DeleteContainer, known
      <4>3. CASE s = call[c].id /\ DeleteVolume(c)
        BY <4>3, <1>0 DEF DeleteVolume, known
      <4> QED BY <2>2, <4>1, <4>2, <4>3
    <3> QED BY <3>1, <3>2, KeptOn
  <2>3. CASE EnsureRemember(c) \/ WakeLock(c)
    <3>1. Ordinary(c) /\ UNCHANGED <<container, volume>>
      BY <2>3, OrdinaryWakes DEF EnsureRemember, WakeLock, docker
    <3>2. \A s \in Sandboxes : record[s] \in {"label", "ensured"} => record'[s] \in {"label", "ensured"}
      BY <2>3, <1>0 DEF EnsureRemember, WakeLock
    <3> QED BY <3>1, <3>2, OrdinaryLeaves, KeptOn DEF KeptInv
  <2>4. CASE \/ RoomLock(c) \/ WakeAsleep(c) \/ WakeGone(c) \/ MakeRoom(c) \/ RoomRefused(c)
             \/ (\E v \in Sandboxes : EvictLock(c, v)) \/ BringUpRefused(c)
             \/ EnsureFails(c) \/ FileDone(c) \/ TurnBusy(c) \/ TurnOutput(c) \/ TurnEnd(c)
    <3>1. Ordinary(c)
      BY <2>4, OrdinaryWakes, OrdinaryRoom, OrdinaryWorks
    <3>2. UNCHANGED <<container, volume, record>>
      BY <2>4 DEF RoomLock, WakeAsleep, WakeGone, MakeRoom, RoomRefused, EvictLock, BringUpRefused,
                  EnsureFails, FileDone, TurnBusy, TurnOutput, TurnEnd, Fail, docker, known
    <3> QED BY <3>1, <3>2, OrdinaryLeaves, KeptOn DEF KeptInv
  <2>5. CASE WakeAwake(c) \/ EvictStop(c) \/ BringUp(c) \/ BringUpFails(c) \/ EnsureAnswer(c)
    <3>1. Ordinary(c)
      BY <2>5, OrdinaryWakes, OrdinaryRoom, OrdinaryWorks
    <3>2. record' = record
      BY <2>5 DEF WakeAwake, EvictStop, Fail, BringUp, BringUpFails, EnsureAnswer, known
    <3>3. \A s \in Sandboxes : container'[s] = "none" => container[s] = "none"
      BY <2>5, <1>0 DEF WakeAwake, EvictStop, Fail, BringUp, BringUpFails, EnsureAnswer, docker
    <3>4. \A s \in Sandboxes : volume'[s] = "filled" => volume[s] = "filled" \/ container'[s] # "none"
      BY <2>5, <1>0 DEF WakeAwake, EvictStop, Fail, BringUp, BringUpFails, EnsureAnswer, docker
    <3> QED BY <3>1, <3>2, <3>3, <3>4, OrdinaryLeaves, KeptOn DEF KeptInv
  <2> QED BY <1>1, <2>0, <2>1, <2>2, <2>3, <2>4, <2>5 DEF Serves, Arrives, Locks, Proceeds, DeleteContainer, DeleteVolume
<1>2. CASE Sweeps
  BY <1>2, KeptSweeps
<1>3. CASE Restart
  <2>1. /\ UNCHANGED <<container, volume, record>>
        /\ deleted' = [s \in Sandboxes |-> Leaving(s)]
        /\ \A k \in Calls : call'[k].kind = "none" /\ call'[k].pc = "idle"
    BY <1>3 DEF Restart, Resting, docker
  <2>2. DeletesAre' /\ \A s \in Sandboxes : Leaving(s) => Leaving(s)'
    BY <2>1 DEF DeletesAre, Leaving
  <2> QED BY <2>1, <2>2, KeptOn
<1>4. CASE Tick \/ UNCHANGED vars
  <2>1. UNCHANGED <<container, volume, record, call, deleted>>
    BY <1>4 DEF Tick, vars, docker, known, portal
  <2> QED BY <2>1 DEF KeptInv, DeletesAre, Leaving
<1> QED BY <1>1, <1>2, <1>3, <1>4 DEF Next

\* kimono-code.md: a call to a removed sandbox whose files were kept makes the container again and never finds
\* it gone, whatever fails, restarts and is forgotten. A chat has no repository to be known by (sleep.go:379).
THEOREM KeptSandboxesWake ==
  ASSUME Chats = {}
  PROVE  Spec => []KeptFilesWake
<1>1. Init => KeptInv
  <2> SUFFICES ASSUME Init PROVE KeptInv
    OBVIOUS
  <2>1. \A c \in Calls : call[c].kind = "none" /\ call[c].pc = "idle"
    BY DEF Init, Resting
  <2>2. \A s \in Sandboxes : volume[s] = "filled" => container[s] # "none"
    BY DEF Init
  <2> QED BY <2>1, <2>2 DEF KeptInv, DeletesAre
<1>2. TypeOK /\ KeptInv /\ [Next]_vars => KeptInv'
  BY KeptStep
<1>3. TypeOK /\ KeptInv => KeptFilesWake
  <2> SUFFICES ASSUME TypeOK, KeptInv, NEW c \in Calls, call[c].pc = "look",
                      volume[call[c].id] = "filled", ~Leaving(call[c].id)
               PROVE  ~Gone(call[c].id)
    BY DEF KeptFilesWake
  <2>1. call[c].id \in Sandboxes
    BY Serving
  <2> QED BY <2>1 DEF KeptInv, Gone, HasRepo
<1> QED BY <1>1, <1>2, <1>3, TypeInvariant, PTL DEF Spec

\* Who looks at a sandbox, or makes one again, holds its wake lock: its volume stays, and no room is made by it.
Creates(c) == MakesRoom(c) /\ call[c].job = "create"
CreateOK(c) ==
  /\ MakesRoom(c) => call[c].job # "none"
  /\ call[c].pc = "look" \/ Creates(c) => wakeLock[call[c].id] = c
  /\ Creates(c) /\ ~Leaving(call[c].id) => volume[call[c].id] # "none"
  /\ call[c].pc \in {"evict", "stop"} => call[c].id \notin call[c].evict
  /\ call[c].pc = "stop" => call[c].victim # call[c].id

\* A request keeps a workspace that is gone only where one was deleted.
DeadLeave == \A c \in Calls : call[c].dead => call[c].id \in Sandboxes /\ Leaving(call[c].id)

\* A container has a volume, and an empty one is to be told of.
Empties == \A s \in Sandboxes :
  ~Leaving(s) => (container[s] # "none" => volume[s] # "none") /\ (volume[s] = "empty" => fresh[s])

FreshInv == DeletesAre /\ (\A c \in Calls : CreateOK(c)) /\ DeadLeave /\ Empties

\* No Docker command fails, and the node does not restart.
NothingFails == ~DockerFails /\ MaxRestarts = 0

\* A step of one request that keeps every volume and takes nobody else's lock.
LEMMA FreshMoves ==
  ASSUME TypeOK, FreshInv, NEW c \in Calls, Ordinary(c),
         \A s \in Sandboxes : wakeLock'[s] = wakeLock[s] \/ wakeLock[s] \in {c, None},
         \A s \in Sandboxes : volume[s] # "none" => volume'[s] # "none",
         \A s \in Sandboxes : ~Leaving(s) =>
           (container'[s] # "none" => volume'[s] # "none") /\ (volume'[s] = "empty" => fresh'[s]),
         call'[c].dead => call[c].dead /\ call'[c].id = call[c].id,
         CreateOK(c)'
  PROVE  FreshInv'
<1>1. DeletesAre' /\ \A s \in Sandboxes : Leaving(s)' <=> Leaving(s)
  BY OrdinaryLeaves DEF FreshInv
<1>2. \A k \in Calls \ {c} : call'[k] = call[k]
  BY DEF Ordinary
<1>3. DeadLeave'
  <2> SUFFICES ASSUME NEW k \in Calls, call'[k].dead PROVE call'[k].id \in Sandboxes /\ Leaving(call[k].id)'
    BY DEF DeadLeave
  <2>1. call[k].dead /\ call'[k].id = call[k].id
    BY <1>2
  <2>2. call[k].id \in Sandboxes /\ Leaving(call[k].id)
    BY <2>1 DEF FreshInv, DeadLeave
  <2>3. PICK r \in Sandboxes : r = call[k].id
    BY <2>2
  <2>4. Leaving(r)'
    BY <1>1, <2>2, <2>3
  <2> QED BY <2>1, <2>3, <2>4 DEF Leaving
<1>4. Empties'
  BY <1>1 DEF Empties
<1>5. ASSUME NEW k \in Calls, k # c PROVE CreateOK(k)'
  <2>1. call'[k] = call[k]
    BY <1>2, <1>5
  <2>2. call[k].pc # "idle" => call[k].id \in Sandboxes
    BY Serving
  <2>3. CreateOK(k) /\ k # None
    BY SleepAssumption DEF FreshInv
  <2>4. CASE call[k].pc = "look" \/ Creates(k)
    <3>1. call[k].id \in Sandboxes /\ wakeLock[call[k].id] = k
      BY <2>2, <2>3, <2>4 DEF CreateOK, Creates, MakesRoom
    <3>2. wakeLock'[call[k].id] = k
      BY <1>5, <2>3, <3>1
    <3>3. Leaving(call[k].id)' <=> Leaving(call[k].id)
      <4>1. PICK r \in Sandboxes : r = call[k].id
        BY <3>1
      <4>2. Leaving(r)' <=> Leaving(r)
        BY <1>1
      <4> QED BY <2>1, <4>1, <4>2 DEF Leaving
    <3>4. Creates(k) /\ ~Leaving(call[k].id) => volume'[call[k].id] # "none"
      BY <2>3, <3>1 DEF CreateOK
    <3> QED BY <2>1, <2>3, <3>2, <3>3, <3>4 DEF CreateOK, Creates, MakesRoom
  <2>5. CASE ~(call[k].pc = "look" \/ Creates(k))
    BY <2>1, <2>3, <2>5 DEF CreateOK, Creates, MakesRoom
  <2> QED BY <2>4, <2>5
<1>6. \A k \in Calls : CreateOK(k)'
  BY <1>5
<1> QED BY <1>1, <1>3, <1>4, <1>6 DEF FreshInv

LEMMA FreshAside ==
  ASSUME TypeOK, FreshInv, NEW c \in Calls, Ordinary(c), UNCHANGED <<container, volume, fresh>>,
         \A s \in Sandboxes : wakeLock'[s] = wakeLock[s] \/ wakeLock[s] \in {c, None},
         call'[c].dead => call[c].dead /\ call'[c].id = call[c].id,
         CreateOK(c)'
  PROVE  FreshInv'
BY FreshMoves DEF FreshInv, Empties

LEMMA FreshFails ==
  ASSUME TypeOK, FreshInv, NEW c \in Calls, Fail(c), call[c].pc \notin {"rm", "volume"}
  PROVE  FreshInv'
<1>1. Ordinary(c) /\ call'[c] = Resting
  BY OrdinaryFails
<1>2. UNCHANGED <<container, volume, fresh>> /\ ReleaseWake(c)
  BY DEF Fail, ReleaseAll, docker, spaces
<1>3. call'[c].pc = "idle" /\ call'[c].dead = FALSE
  BY <1>1 DEF Resting
<1>4. CreateOK(c)'
  BY <1>3 DEF CreateOK, Creates, MakesRoom
<1> QED BY <1>1, <1>2, <1>3, <1>4, LocksLetGo, FreshAside

LEMMA FreshArrives ==
  ASSUME TypeOK, FreshInv, NEW c \in Calls, NEW s \in Sandboxes, EnsureStart(c, s) \/ TurnStart(c, s) \/ FileStart(c, s)
  PROVE  FreshInv'
<1>1. /\ Ordinary(c) /\ UNCHANGED <<container, volume, record, wakeLock, fresh, sweep>>
      /\ call'[c].pc \in {"op", "lock"} /\ ~call'[c].dead
  BY OrdinaryArrives
<1>2. CreateOK(c)'
  BY <1>1 DEF CreateOK, Creates, MakesRoom
<1> QED BY <1>1, <1>2, FreshAside

LEMMA FreshDeletes ==
  ASSUME TypeOK, FreshInv, NEW c \in Calls, NEW s \in Sandboxes,
         DeleteStart(c, s) \/ (s = call[c].id /\ (DeleteContainer(c) \/ DeleteVolume(c)))
  PROVE  FreshInv'
<1>1. /\ DeletesAre' /\ Leaving(s)'
      /\ \A r \in Sandboxes : Leaving(r) => Leaving(r)'
      /\ \A r \in Sandboxes \ {s} : Leaving(r)' => Leaving(r)
  BY DeletesLeave DEF FreshInv
<1>2. wakeLock' = wakeLock
  BY DEF DeleteStart, DeleteContainer, DeleteVolume, locks
<1>3. \A r \in Sandboxes \ {s} : container'[r] = container[r] /\ volume'[r] = volume[r] /\ fresh'[r] = fresh[r]
  <2>0. /\ container \in [Sandboxes -> States] /\ volume \in [Sandboxes -> {"none", "empty", "filled"}]
        /\ fresh \in [Sandboxes -> BOOLEAN]
    BY DEF TypeOK, DockerOK, SpacesOK
  <2>1. CASE DeleteStart(c, s)
    BY <2>0, <2>1 DEF DeleteStart, docker
  <2>2. CASE s = call[c].id /\ DeleteContainer(c)
    BY <2>0, <2>2 DEF DeleteContainer, spaces
  <2>3. CASE s = call[c].id /\ DeleteVolume(c)
    BY <2>0, <2>3 DEF DeleteVolume, spaces
  <2> QED BY <2>1, <2>2, <2>3
<1>4. Empties'
  <2> SUFFICES ASSUME NEW r \in Sandboxes, ~Leaving(r)'
               PROVE  (container'[r] # "none" => volume'[r] # "none") /\ (volume'[r] = "empty" => fresh'[r])
    BY DEF Empties
  <2>1. r # s /\ ~Leaving(r)
    BY <1>1
  <2> QED BY <1>3, <2>1 DEF FreshInv, Empties
<1>5. /\ \A k \in Calls : k # c =>
           /\ call'[k].pc = call[k].pc /\ call'[k].id = call[k].id /\ call'[k].job = call[k].job
           /\ call'[k].evict = call[k].evict /\ call'[k].victim = call[k].victim
           /\ (call'[k].dead => (call[k].dead \/ call[k].id = s))
      /\ call'[c].pc \in {"idle", "rm", "volume"}
      /\ call'[c].dead => call[c].dead /\ call'[c].id = call[c].id
  <2>1. CASE DeleteStart(c, s)
    <3>1. call' = [Orphaned(s) EXCEPT ![c] = [Resting EXCEPT !.kind = "delete", !.pc = "rm", !.id = s]]
      BY <2>1 DEF DeleteStart
    <3>2. call'[c].pc = "rm" /\ call'[c].dead = FALSE
      BY <3>1 DEF Orphaned, Resting
    <3>3. ASSUME NEW k \in Calls, k # c
          PROVE  /\ call'[k].pc = call[k].pc /\ call'[k].id = call[k].id /\ call'[k].job = call[k].job
                 /\ call'[k].evict = call[k].evict /\ call'[k].victim = call[k].victim
                 /\ (call'[k].dead => (call[k].dead \/ call[k].id = s))
      <4>1. call[k] \in Requests
        BY DEF TypeOK, CallsOK
      <4>2. call'[k] = IF call[k].id = s THEN [call[k] EXCEPT !.dead = TRUE] ELSE call[k]
        BY <3>1, <3>3 DEF Orphaned
      <4> QED BY <4>1, <4>2 DEF Requests
    <3> QED BY <3>2, <3>3
  <2>2. CASE DeleteContainer(c)
    BY <2>2, OneGoes DEF DeleteContainer
  <2>3. CASE DeleteVolume(c)
    <3>1. call'[c] = Resting /\ \A k \in Calls \ {c} : call'[k] = call[k]
      BY <2>3, OneReplaced DEF DeleteVolume, End
    <3>2. call'[c].pc = "idle" /\ call'[c].dead = FALSE
      BY <3>1 DEF Resting
    <3> QED BY <3>1, <3>2
  <2> QED BY <2>1, <2>2, <2>3
<1>6. DeadLeave'
  <2> SUFFICES ASSUME NEW k \in Calls, call'[k].dead PROVE call'[k].id \in Sandboxes /\ Leaving(call[k].id)'
    BY DEF DeadLeave
  <2>1. call'[k].id = call[k].id /\ (call[k].dead \/ call[k].id = s)
    <3>1. CASE k = c
      BY <1>5, <3>1
    <3>2. CASE k # c
      BY <1>5, <3>2
    <3> QED BY <3>1, <3>2
  <2>2. call[k].id \in Sandboxes /\ (Leaving(call[k].id) \/ call[k].id = s)
    BY <2>1 DEF FreshInv, DeadLeave
  <2>3. PICK r \in Sandboxes : r = call[k].id
    BY <2>2
  <2>4. Leaving(r)'
    BY <1>1, <2>2, <2>3
  <2> QED BY <2>1, <2>3, <2>4 DEF Leaving
<1>7. ASSUME NEW k \in Calls PROVE CreateOK(k)'
  <2>1. CASE k = c
    BY <1>5, <2>1 DEF CreateOK, Creates, MakesRoom
  <2>2. CASE k # c
    <3>1. /\ call'[k].pc = call[k].pc /\ call'[k].id = call[k].id /\ call'[k].job = call[k].job
          /\ call'[k].evict = call[k].evict /\ call'[k].victim = call[k].victim
      BY <1>5, <2>2
    <3>2. CreateOK(k)
      BY DEF FreshInv
    <3>3. Creates(k) /\ ~Leaving(call[k].id)' => volume'[call[k].id] # "none"
      <4> SUFFICES ASSUME Creates(k), ~Leaving(call[k].id)' PROVE volume'[call[k].id] # "none"
        OBVIOUS
      <4>1. call[k].id \in Sandboxes
        BY Serving DEF Creates, MakesRoom
      <4>2. PICK r \in Sandboxes : r = call[k].id
        BY <4>1
      <4>3. ~Leaving(r)'
        BY <3>1, <4>2 DEF Leaving
      <4>4. r # s /\ ~Leaving(r)
        BY <1>1, <4>3
      <4>5. volume[r] # "none"
        BY <3>2, <4>2, <4>4 DEF CreateOK
      <4> QED BY <1>3, <4>2, <4>4, <4>5
    <3> QED BY <1>2, <3>1, <3>2, <3>3 DEF CreateOK, Creates, MakesRoom
  <2> QED BY <2>1, <2>2
<1> QED BY <1>1, <1>4, <1>6, <1>7 DEF FreshInv

LEMMA FreshWakes ==
  ASSUME TypeOK, FreshInv, NEW c \in Calls,
         \/ EnsureRemember(c) \/ WakeLock(c) \/ RoomLock(c)
         \/ WakeAwake(c) \/ WakeAsleep(c) \/ WakeGone(c)
  PROVE  FreshInv'
<1>0. /\ Ordinary(c) /\ call[c] \in Requests /\ call[c].id \in Sandboxes
      /\ call[c].pc \in {"op", "lock", "room", "look"} /\ CreateOK(c)
  BY OrdinaryWakes, Serving DEF EnsureRemember, WakeLock, RoomLock, WakeAwake, WakeAsleep, WakeGone, FreshInv
<1>1. CASE EnsureRemember(c)
  <2>1. call'[c].pc = "lock" /\ call'[c].id = call[c].id /\ call'[c].dead = call[c].dead
    BY <1>1, OneGoes DEF EnsureRemember
  <2>2. CreateOK(c)'
    BY <2>1 DEF CreateOK, Creates, MakesRoom
  <2>3. UNCHANGED <<container, volume, fresh, wakeLock>>
    BY <1>1 DEF EnsureRemember, docker
  <2> QED BY <1>0, <2>1, <2>2, <2>3, FreshAside
<1>2. CASE WakeLock(c)
  <2>1. call'[c].pc = "look" /\ call'[c].id = call[c].id /\ call'[c].dead = call[c].dead
    BY <1>2, OneGoes DEF WakeLock
  <2>2. wakeLock[call[c].id] = None /\ wakeLock' = [wakeLock EXCEPT ![call[c].id] = c]
    BY <1>2 DEF WakeLock
  <2>3. /\ \A s \in Sandboxes : wakeLock'[s] = wakeLock[s] \/ wakeLock[s] \in {c, None}
        /\ wakeLock'[call[c].id] = c
    BY <1>0, <2>2 DEF TypeOK, LocksOK
  <2>4. CreateOK(c)'
    BY <2>1, <2>3 DEF CreateOK, Creates, MakesRoom
  <2>5. UNCHANGED <<container, volume, fresh>>
    BY <1>2 DEF WakeLock, docker, spaces
  <2> QED BY <1>0, <2>1, <2>3, <2>4, <2>5, FreshAside
<1>3. CASE RoomLock(c)
  <2>1. /\ call'[c].pc = "plan" /\ call'[c].id = call[c].id /\ call'[c].dead = call[c].dead
        /\ call'[c].job = call[c].job /\ call[c].pc = "room"
    BY <1>0, <1>3 DEF RoomLock, Goto, TypeOK, CallsOK, Requests
  <2>2. UNCHANGED <<container, volume, fresh, wakeLock, deleted>>
    BY <1>3 DEF RoomLock, docker, spaces, portal
  <2>3. Leaving(call[c].id)' <=> Leaving(call[c].id)
    <3>1. PICK r \in Sandboxes : r = call[c].id
      BY <1>0
    <3>2. Leaving(r)' <=> Leaving(r)
      BY <1>0, OrdinaryLeaves DEF FreshInv
    <3> QED BY <2>1, <3>1, <3>2 DEF Leaving
  <2>4. CreateOK(c)'
    BY <1>0, <2>1, <2>2, <2>3 DEF CreateOK, Creates, MakesRoom
  <2> QED BY <1>0, <2>1, <2>2, <2>4, FreshAside
<1>4. CASE WakeAwake(c)
  <2>1. call'[c].pc = "woken" /\ call'[c].id = call[c].id /\ call'[c].dead = call[c].dead
    BY <1>4, OneGoes DEF WakeAwake
  <2>2. CreateOK(c)'
    BY <2>1 DEF CreateOK, Creates, MakesRoom
  <2>3. ReleaseWake(c) /\ volume' = volume /\ fresh' = fresh
    BY <1>4 DEF WakeAwake, spaces
  <2>4. \A s \in Sandboxes : container'[s] # "none" => container[s] # "none"
    BY <1>4 DEF WakeAwake, TypeOK, DockerOK
  <2> QED BY <1>0, <2>1, <2>2, <2>3, <2>4, LocksLetGo, FreshMoves DEF FreshInv, Empties
<1>5. CASE WakeAsleep(c)
  <2>1. /\ call'[c].pc = "room" /\ call'[c].id = call[c].id /\ call'[c].dead = call[c].dead
        /\ call'[c].job = IF container[call[c].id] = "none" THEN "create" ELSE "start"
    BY <1>0, <1>5 DEF WakeAsleep, TypeOK, CallsOK, Requests
  <2>2. /\ UNCHANGED <<container, volume, fresh, wakeLock>> /\ call[c].pc = "look"
        /\ container[call[c].id] = "none" => volume[call[c].id] # "none"
    BY <1>5 DEF WakeAsleep, docker, spaces, locks
  <2>3. wakeLock[call[c].id] = c
    BY <1>0, <2>2 DEF CreateOK
  <2>4. CreateOK(c)'
    BY <2>1, <2>2, <2>3 DEF CreateOK, Creates, MakesRoom
  <2> QED BY <1>0, <2>1, <2>2, <2>4, FreshAside
<1>6. CASE WakeGone(c)
  <2>1. CASE call[c].kind = "ensure"
    <3>1. /\ call'[c].pc = "room" /\ call'[c].id = call[c].id /\ call'[c].dead = call[c].dead /\ call'[c].job = "scratch"
      BY <1>0, <1>6, <2>1 DEF WakeGone, TypeOK, CallsOK, Requests
    <3>2. ReleaseWake(c) /\ UNCHANGED <<container, volume, fresh>>
      BY <1>6, <2>1 DEF WakeGone, docker, spaces
    <3>3. CreateOK(c)'
      BY <3>1 DEF CreateOK, Creates, MakesRoom
    <3> QED BY <1>0, <3>1, <3>2, <3>3, LocksLetGo, FreshAside
  <2>2. CASE call[c].kind # "ensure"
    BY <1>0, <1>6, <2>2, FreshFails DEF WakeGone
  <2> QED BY <2>1, <2>2
<1> QED BY <1>1, <1>2, <1>3, <1>4, <1>5, <1>6

LEMMA FreshRoom ==
  ASSUME TypeOK, UsedInv, FreshInv, NEW c \in Calls,
         MakeRoom(c) \/ RoomRefused(c) \/ (\E v \in Sandboxes : EvictLock(c, v)) \/ EvictStop(c)
  PROVE  FreshInv'
<1>0. /\ Ordinary(c) /\ call[c] \in Requests /\ call[c].id \in Sandboxes
      /\ call[c].pc \in {"plan", "evict", "stop"} /\ CreateOK(c)
  BY OrdinaryRoom, Serving DEF MakeRoom, RoomRefused, EvictLock, EvictStop, FreshInv
<1>1. CASE Fail(c)
  BY <1>0, <1>1, FreshFails
<1>2. ASSUME ~Fail(c), call'[c].id = call[c].id PROVE Leaving(call[c].id)' <=> Leaving(call[c].id)
  <2>1. PICK r \in Sandboxes : r = call[c].id
    BY <1>0
  <2>2. Leaving(r)' <=> Leaving(r)
    BY <1>0, OrdinaryLeaves DEF FreshInv
  <2> QED BY <1>2, <2>1, <2>2 DEF Leaving
<1>3. CASE MakeRoom(c) /\ ~Fail(c)
  <2>1. PICK E \in planRoom(call[c].id) : call' = [call EXCEPT ![c].pc = "evict", ![c].evict = E]
    BY <1>3 DEF MakeRoom
  <2>2. /\ call'[c].pc = "evict" /\ call'[c].evict = E /\ call'[c].id = call[c].id
        /\ call'[c].dead = call[c].dead /\ call'[c].job = call[c].job /\ call[c].pc = "plan"
    BY <1>0, <1>3, <2>1 DEF MakeRoom, TypeOK, CallsOK, Requests
  <2>3. call[c].id \notin E
    <3>1. E \subseteq Awake \ {call[c].id}
      BY <1>0, RoomEnough
    <3> QED BY <3>1
  <2>4. UNCHANGED <<container, volume, fresh, wakeLock>>
    BY <1>3 DEF MakeRoom, docker, spaces, locks
  <2>5. CreateOK(c)'
    BY <1>0, <1>2, <1>3, <2>2, <2>3, <2>4 DEF CreateOK, Creates, MakesRoom
  <2> QED BY <1>0, <2>2, <2>4, <2>5, FreshAside
<1>4. ASSUME NEW v \in Sandboxes, EvictLock(c, v), ~Fail(c) PROVE FreshInv'
  <2>1. /\ call[c].pc = "evict" /\ v \in call[c].evict /\ wakeLock[v] = None
        /\ wakeLock' = [wakeLock EXCEPT ![v] = c]
        /\ call' = [call EXCEPT ![c].pc = "stop", ![c].victim = v]
        /\ UNCHANGED <<container, volume, fresh>>
    BY <1>4 DEF EvictLock, docker, spaces
  <2>2. /\ call'[c].pc = "stop" /\ call'[c].evict = call[c].evict /\ call'[c].id = call[c].id /\ call'[c].victim = v
        /\ call'[c].dead = call[c].dead /\ call'[c].job = call[c].job
    BY <1>0, <2>1 DEF TypeOK, CallsOK, Requests
  <2>3. v # call[c].id
    BY <1>0, <2>1 DEF CreateOK
  <2>4. /\ \A s \in Sandboxes : wakeLock'[s] = wakeLock[s] \/ wakeLock[s] \in {c, None}
        /\ wakeLock'[call[c].id] = wakeLock[call[c].id]
    BY <1>0, <2>1, <2>3 DEF TypeOK, LocksOK
  <2>5. CreateOK(c)'
    BY <1>0, <1>2, <1>4, <2>1, <2>2, <2>3, <2>4 DEF CreateOK, Creates, MakesRoom
  <2> QED BY <1>0, <2>1, <2>2, <2>4, <2>5, FreshAside
<1>5. CASE EvictStop(c) /\ ~Fail(c)
  <2> DEFINE v == call[c].victim
  <2>1. /\ call[c].pc = "stop" /\ container[v] # "none"
        /\ wakeLock' = [wakeLock EXCEPT ![v] = None]
        /\ container' = [container EXCEPT ![v] = "exited"]
        /\ call' = [call EXCEPT ![c].pc = "evict", ![c].victim = None, ![c].evict = @ \ {v}]
        /\ volume' = volume /\ fresh' = fresh
    BY <1>5 DEF EvictStop, spaces
  <2>2. /\ call'[c].pc = "evict" /\ call'[c].evict = call[c].evict \ {v} /\ call'[c].id = call[c].id
        /\ call'[c].dead = call[c].dead /\ call'[c].job = call[c].job
    BY <1>0, <2>1 DEF TypeOK, CallsOK, Requests
  <2>3. v # call[c].id /\ v \in Sandboxes /\ wakeLock[v] = c
    BY <1>0, <2>1 DEF CreateOK, UsedInv, StopsLocked, TypeOK, CallsOK, Named
  <2> HIDE DEF v
  <2>4. /\ \A s \in Sandboxes : wakeLock'[s] = wakeLock[s] \/ wakeLock[s] \in {c, None}
        /\ wakeLock'[call[c].id] = wakeLock[call[c].id]
    BY <1>0, <2>1, <2>3 DEF TypeOK, LocksOK
  <2>5. CreateOK(c)'
    BY <1>0, <1>2, <1>5, <2>1, <2>2, <2>4 DEF CreateOK, Creates, MakesRoom
  <2>6. \A s \in Sandboxes : container'[s] # "none" => container[s] # "none"
    BY <2>1, <2>3 DEF TypeOK, DockerOK
  <2> QED BY <1>0, <2>1, <2>2, <2>4, <2>5, <2>6, FreshMoves DEF FreshInv, Empties
<1> QED BY <1>1, <1>3, <1>4, <1>5 DEF RoomRefused

\* Bringing a sandbox up: an empty volume is made only from nothing, and then it is to be told of.
LEMMA FreshBringsUp ==
  ASSUME NothingFails, TypeOK, FreshInv, NEW c \in Calls, BringUp(c) \/ BringUpRefused(c) \/ BringUpFails(c)
  PROVE  FreshInv'
<1>1. CASE BringUpRefused(c)
  BY <1>1, FreshFails DEF BringUpRefused
<1>2. CASE BringUp(c)
  <2> DEFINE s == call[c].id
  <2>0. /\ Ordinary(c) /\ call[c] \in Requests /\ s \in Sandboxes /\ CreateOK(c)
        /\ call[c].pc = "evict" /\ ReleaseWake(c) /\ (call[c].job # "start" <=> container[s] = "none")
        /\ container' = [container EXCEPT ![s] = "running"]
        /\ volume' = [volume EXCEPT ![s] = IF @ = "none" THEN "empty" ELSE @]
        /\ fresh' = [fresh EXCEPT ![s] = @ \/ (call[c].job = "scratch" /\ ~call[c].dead)]
    BY <1>2, OrdinaryRoom, Serving DEF BringUp, FreshInv
  <2>1. call'[c].pc = "woken" /\ call'[c].id = s /\ call'[c].dead = call[c].dead
    BY <1>2, <2>0 DEF BringUp, TypeOK, CallsOK, Requests
  <2>2. CreateOK(c)'
    BY <2>1 DEF CreateOK, Creates, MakesRoom
  <2>3. /\ \A r \in Sandboxes \ {s} : container'[r] = container[r] /\ volume'[r] = volume[r] /\ fresh'[r] = fresh[r]
        /\ volume'[s] = IF volume[s] = "none" THEN "empty" ELSE volume[s]
        /\ fresh[s] => fresh'[s]
        /\ call[c].job = "scratch" /\ ~call[c].dead => fresh'[s]
    BY <2>0 DEF TypeOK, DockerOK, SpacesOK
  <2>4. ~Leaving(s) => (volume[s] = "none" => call[c].job = "scratch" /\ ~call[c].dead)
    <3> SUFFICES ASSUME ~Leaving(s), volume[s] = "none" PROVE call[c].job = "scratch" /\ ~call[c].dead
      OBVIOUS
    <3>1. ~call[c].dead
      BY DEF FreshInv, DeadLeave
    <3>2. call[c].job # "start"
      BY <2>0 DEF FreshInv, Empties
    <3>3. call[c].job \notin {"none", "create"}
      BY <2>0 DEF CreateOK, Creates, MakesRoom
    <3>4. call[c].job \in {"none", "start", "create", "scratch"}
      BY <2>0 DEF Requests
    <3> QED BY <3>1, <3>2, <3>3, <3>4
  <2> HIDE DEF s
  <2>5. \A r \in Sandboxes : ~Leaving(r) =>
           (container'[r] # "none" => volume'[r] # "none") /\ (volume'[r] = "empty" => fresh'[r])
    <3> SUFFICES ASSUME NEW r \in Sandboxes, ~Leaving(r)
                 PROVE  (container'[r] # "none" => volume'[r] # "none") /\ (volume'[r] = "empty" => fresh'[r])
      OBVIOUS
    <3>1. (container[r] # "none" => volume[r] # "none") /\ (volume[r] = "empty" => fresh[r])
      BY DEF FreshInv, Empties
    <3>2. CASE r # s
      BY <2>3, <3>1, <3>2
    <3>3. CASE r = s /\ volume[s] = "none"
      BY <2>3, <2>4, <3>3
    <3>4. CASE r = s /\ volume[s] # "none"
      BY <2>3, <3>1, <3>4
    <3> QED BY <3>2, <3>3, <3>4
  <2>6. \A r \in Sandboxes : volume[r] # "none" => volume'[r] # "none"
    BY <2>0, <2>3
  <2> QED BY <2>0, <2>1, <2>2, <2>5, <2>6, LocksLetGo, FreshMoves DEF s
<1> QED BY <1>1, <1>2 DEF BringUpFails, NothingFails

LEMMA FreshWorks ==
  ASSUME TypeOK, FreshInv, NEW c \in Calls,
         EnsureAnswer(c) \/ EnsureFails(c) \/ FileDone(c) \/ TurnBusy(c) \/ TurnOutput(c) \/ TurnEnd(c)
  PROVE  FreshInv'
<1>0. /\ Ordinary(c) /\ call[c] \in Requests /\ call[c].id \in Sandboxes /\ call[c].pc \in {"woken", "turn"}
  BY OrdinaryWorks, Serving DEF EnsureAnswer, EnsureFails, FileDone, TurnBusy, TurnOutput, TurnEnd
<1>1. CASE EnsureFails(c)
  BY <1>0, <1>1, FreshFails DEF EnsureFails
<1>2. CASE EnsureAnswer(c)
  <2> DEFINE s == call[c].id
  <2>1. /\ End(c) /\ ReleaseWake(c) /\ container' = container
        /\ fresh' = IF call[c].dead THEN fresh ELSE [fresh EXCEPT ![s] = FALSE]
        /\ volume' = [volume EXCEPT ![s] = IF Fresh(c) \/ ~synced[s] THEN "filled" ELSE @]
    BY <1>2 DEF EnsureAnswer, ReleaseAll
  <2>2. call'[c].pc = "idle" /\ call'[c].dead = FALSE
    <3>1. call'[c] = Resting
      BY <2>1, OneReplaced DEF End
    <3> QED BY <3>1 DEF Resting
  <2>3. CreateOK(c)'
    BY <2>2 DEF CreateOK, Creates, MakesRoom
  <2>4. /\ \A r \in Sandboxes \ {s} : volume'[r] = volume[r] /\ fresh'[r] = fresh[r]
        /\ volume'[s] = "filled" \/ (volume'[s] = volume[s] /\ ~Fresh(c))
    BY <1>0, <2>1 DEF TypeOK, DockerOK, SpacesOK
  <2>5. ~Leaving(s) => ~call[c].dead
    BY DEF FreshInv, DeadLeave
  <2>6. ASSUME NEW r \in Sandboxes, ~Leaving(r)
        PROVE  (container'[r] # "none" => volume'[r] # "none") /\ (volume'[r] = "empty" => fresh'[r])
    <3>1. (container[r] # "none" => volume[r] # "none") /\ (volume[r] = "empty" => fresh[r])
      BY <2>6 DEF FreshInv, Empties
    <3>2. CASE r # s
      BY <2>1, <2>4, <3>1, <3>2
    <3>3. CASE r = s /\ volume'[s] = "filled"
      BY <3>3
    <3>4. CASE r = s /\ volume'[s] = volume[s] /\ ~Fresh(c)
      <4>1. ~fresh[s]
        BY <2>5, <2>6, <3>4 DEF Fresh
      <4> QED BY <2>1, <3>1, <3>4, <4>1
    <3> QED BY <2>4, <3>2, <3>3, <3>4
  <2>7. \A r \in Sandboxes : volume[r] # "none" => volume'[r] # "none"
    BY <2>4
  <2> QED BY <1>0, <2>1, <2>2, <2>3, <2>6, <2>7, LocksLetGo, FreshMoves
<1>3. CASE FileDone(c) \/ TurnBusy(c) \/ TurnOutput(c) \/ TurnEnd(c)
  <2>1. UNCHANGED <<container, volume, fresh, wakeLock>>
    BY <1>3 DEF FileDone, TurnBusy, TurnOutput, TurnEnd, docker, spaces, locks
  <2>2. End(c) \/ Goto(c, "turn") \/ (call' = call /\ call[c].pc = "turn")
    BY <1>3 DEF FileDone, TurnBusy, TurnOutput, TurnEnd
  <2>3. /\ call'[c].pc \in {"idle", "turn"} /\ (call'[c].dead => call[c].dead /\ call'[c].id = call[c].id)
    <3>1. CASE End(c)
      <4>1. call'[c] = Resting
        BY <3>1, OneReplaced DEF End
      <4>2. call'[c].pc = "idle" /\ call'[c].dead = FALSE
        BY <4>1 DEF Resting
      <4> QED BY <4>2
    <3>2. CASE Goto(c, "turn")
      BY <3>2, OneGoes
    <3> QED BY <2>2, <3>1, <3>2
  <2>4. CreateOK(c)'
    BY <2>3 DEF CreateOK, Creates, MakesRoom
  <2> QED BY <1>0, <2>1, <2>3, <2>4, FreshAside
<1> QED BY <1>1, <1>2, <1>3

LEMMA FreshSweeps ==
  ASSUME TypeOK, UsedInv, FreshInv, Sweeps
  PROVE  FreshInv'
<1>0. /\ container \in [Sandboxes -> States] /\ volume \in [Sandboxes -> {"none", "empty", "filled"}]
      /\ sweep.pc \in {"lock", "act", "forgetlock", "forget"} => sweep.id \in Sandboxes
      /\ wakeLock \in [Sandboxes -> Calls \cup {None, Sweeper}] /\ Sweeper \notin Calls /\ Sweeper # None
      /\ None \notin Calls
  BY SleepAssumption DEF TypeOK, DockerOK, LocksOK, SweepOK
<1>1. call' = call /\ deleted' = deleted /\ fresh' = fresh
  BY DEF Sweeps, SweepStart, SweepLook, SweepLock, SweepAct, ForgetStart, ForgetLook, ForgetLock,
         ForgetVolume, SweepEnd, portal, spaces
<1>2. \A s \in Sandboxes : wakeLock'[s] = wakeLock[s] \/ wakeLock[s] \in {Sweeper, None}
  <2>1. CASE SweepAct \/ ForgetVolume
    <3>1. wakeLock' = [wakeLock EXCEPT ![sweep.id] = None] /\ wakeLock[sweep.id] = Sweeper
      BY <2>1 DEF SweepAct, ForgetVolume, UsedInv, SweepLocked
    <3> QED BY <1>0, <3>1
  <2>2. CASE SweepLock \/ ForgetLock
    <3>1. wakeLock' = wakeLock \/ (wakeLock[sweep.id] = None /\ wakeLock' = [wakeLock EXCEPT ![sweep.id] = Sweeper])
      BY <2>2 DEF SweepLock, ForgetLock
    <3> QED BY <1>0, <3>1
  <2>3. CASE ~(SweepAct \/ ForgetVolume \/ SweepLock \/ ForgetLock)
    BY <2>3 DEF Sweeps, SweepStart, SweepLook, ForgetStart, ForgetLook, SweepEnd, locks
  <2> QED BY <2>1, <2>2, <2>3
<1>3. \A s \in Sandboxes : /\ container'[s] # "none" => container[s] # "none"
                           /\ volume'[s] = volume[s] \/ (volume'[s] = "none" /\ container'[s] = "none" /\ wakeLock[s] = Sweeper)
  <2>1. CASE SweepAct
    BY <1>0, <2>1 DEF SweepAct
  <2>2. CASE ForgetVolume
    <3>1. container' = container /\ wakeLock[sweep.id] = Sweeper /\ sweep.id \in Sandboxes
      BY <1>0, <2>2 DEF ForgetVolume, UsedInv, SweepLocked
    <3>2. volume' = volume \/ (container[sweep.id] = "none" /\ volume' = [volume EXCEPT ![sweep.id] = "none"])
      BY <2>2 DEF ForgetVolume
    <3> QED BY <1>0, <3>1, <3>2
  <2>3. CASE ~(SweepAct \/ ForgetVolume)
    BY <2>3 DEF Sweeps, SweepStart, SweepLook, SweepLock, ForgetStart, ForgetLook, ForgetLock, SweepEnd, docker
  <2> QED BY <2>1, <2>2, <2>3
<1>4. \A s : Leaving(s)' <=> Leaving(s)
  BY <1>1 DEF Leaving
<1>5. Empties'
  BY <1>1, <1>3, <1>4 DEF FreshInv, Empties
<1>6. ASSUME NEW k \in Calls PROVE CreateOK(k)'
  <2>1. CreateOK(k) /\ (call[k].pc # "idle" => call[k].id \in Sandboxes)
    BY Serving DEF FreshInv
  <2>2. CASE call[k].pc = "look" \/ Creates(k)
    <3>1. call[k].id \in Sandboxes /\ wakeLock[call[k].id] = k
      BY <2>1, <2>2 DEF CreateOK, Creates, MakesRoom
    <3>2. wakeLock'[call[k].id] = k /\ volume'[call[k].id] = volume[call[k].id]
      BY <1>0, <1>2, <1>3, <3>1
    <3> QED BY <1>1, <2>1, <3>2 DEF CreateOK, Creates, MakesRoom, Leaving
  <2>3. CASE ~(call[k].pc = "look" \/ Creates(k))
    BY <1>1, <2>1, <2>3 DEF CreateOK, Creates, MakesRoom
  <2> QED BY <2>2, <2>3
<1>7. DeletesAre' /\ DeadLeave'
  BY <1>1 DEF FreshInv, DeletesAre, DeadLeave, Leaving
<1> QED BY <1>5, <1>6, <1>7 DEF FreshInv

LEMMA FreshStep ==
  ASSUME NothingFails, TypeOK, UsedInv, FreshInv, [Next]_vars
  PROVE  FreshInv'
<1>1. ASSUME NEW c \in Calls, Serves(c) PROVE FreshInv'
  <2>1. CASE Arrives(c)
    BY <2>1, FreshArrives, FreshDeletes DEF Arrives
  <2>2. CASE Locks(c) \/ WakeAwake(c) \/ WakeAsleep(c) \/ WakeGone(c)
    BY <2>2, FreshWakes DEF Locks
  <2>3. CASE MakeRoom(c) \/ RoomRefused(c) \/ (\E v \in Sandboxes : EvictLock(c, v)) \/ EvictStop(c)
    BY <2>3, FreshRoom
  <2>4. CASE BringUp(c) \/ BringUpRefused(c) \/ BringUpFails(c)
    BY <2>4, FreshBringsUp
  <2>5. CASE EnsureAnswer(c) \/ EnsureFails(c) \/ FileDone(c) \/ TurnBusy(c) \/ TurnOutput(c) \/ TurnEnd(c)
    BY <2>5, FreshWorks
  <2>6. CASE DeleteContainer(c) \/ DeleteVolume(c)
    <3>1. call[c].id \in Sandboxes
      BY <2>6, Serving DEF DeleteContainer, DeleteVolume
    <3> QED BY <2>6, <3>1, FreshDeletes
  <2> QED BY <1>1, <2>1, <2>2, <2>3, <2>4, <2>5, <2>6 DEF Serves, Proceeds
<1>2. CASE Sweeps
  BY <1>2, FreshSweeps
<1>3. CASE Restart
  <2>1. restarts \in 0..0 /\ restarts < 0
    BY <1>3 DEF Restart, NothingFails, TypeOK, PortalOK
  <2> QED BY <2>1
<1>4. CASE Tick \/ UNCHANGED vars
  <2>1. UNCHANGED <<container, volume, fresh, wakeLock, call, deleted>>
    BY <1>4 DEF Tick, vars, docker, spaces, locks, portal
  <2> QED BY <2>1 DEF FreshInv, DeletesAre, CreateOK, Creates, MakesRoom, DeadLeave, Empties, Leaving
<1> QED BY <1>1, <1>2, <1>3, <1>4 DEF Next

\* kimono-code.md: a sandbox that lost what was synced into it is never answered for as if it still held it,
\* whoever asks, evicts, deletes, sweeps and forgets meanwhile, while no Docker command fails and the node does not
\* restart: a first attempt that fails leaves a volume, and the next does not say it is fresh (workspace.go:246).
THEOREM LostFilesAreTold ==
  ASSUME NothingFails
  PROVE  Spec => []FreshTold
<1>1. Init => FreshInv
  <2> SUFFICES ASSUME Init PROVE FreshInv
    OBVIOUS
  <2>1. \A c \in Calls : call[c].kind = "none" /\ call[c].pc = "idle" /\ call[c].dead = FALSE
    BY DEF Init, Resting
  <2>2. \A s \in Sandboxes : volume[s] = IF container[s] = "none" THEN "none" ELSE "filled"
    BY DEF Init
  <2> QED BY <2>1, <2>2 DEF FreshInv, DeletesAre, CreateOK, Creates, MakesRoom, DeadLeave, Empties
<1>2. TypeOK /\ UsedInv /\ FreshInv /\ [Next]_vars => FreshInv'
  BY FreshStep
<1>3. TypeOK /\ FreshInv => FreshTold
  <2> SUFFICES ASSUME TypeOK, FreshInv, NEW c \in Calls, call[c].pc = "woken",
                      container[call[c].id] = "running", ~Leaving(call[c].id), ~Fresh(c)
               PROVE  volume[call[c].id] = "filled"
    BY DEF FreshTold
  <2>1. call[c].id \in Sandboxes
    BY Serving
  <2>2. ~call[c].dead
    BY DEF FreshInv, DeadLeave
  <2>3. ~fresh[call[c].id]
    BY <2>2 DEF Fresh
  <2>4. volume[call[c].id] \in {"none", "empty", "filled"}
    BY <2>1 DEF TypeOK, DockerOK
  <2> QED BY <2>1, <2>3, <2>4 DEF FreshInv, Empties
<1> QED BY <1>1, <1>2, <1>3, UsedHolds, TypeInvariant, PTL DEF Spec
=============================================================================
