------------------------------ MODULE TestFlight ------------------------------
(***************************************************************************)
(* Keeping Apple's TestFlight in step with Kimono's accounts (the Portal's *)
(* lib/testflight.ts and testflight-plan.ts): who asked for a phone app    *)
(* and was approved, the syncs that invite and take off, fresh invites     *)
(* sent meanwhile, and the one file all of them write, while Apple's calls *)
(* fail, the Portal stops, the admin changes the key, and people accept.   *)
(*                                                                         *)
(* A person can be invited at their Kimono email or at their Apple one.    *)
(* Apple knows a member, an invitation and a tester by email here; names,  *)
(* statuses, expiry and the wait between two fresh invites are left out.   *)
(***************************************************************************)
EXTENDS Naturals, FiniteSets

CONSTANTS
  People,
  Main, Others,   \* the Kimono app, and the other phone apps in App Store Connect
  Keys, NoKey,    \* App Store Connect keys, each of a team of its own or of the same one
  MaxChanges,     \* bound on what people, the admin and Apple's own pages do
  MaxMishaps      \* bound on failed calls and stops

Apps == {Main} \cup Others
Emails == People \X {"kimono", "apple"}
Owner(e) == e[1]

ASSUME TestFlightAssumption ==
  /\ IsFiniteSet(People) /\ IsFiniteSet(Others) /\ Main \notin Others /\ NoKey \notin Keys
  /\ MaxChanges \in Nat /\ MaxMishaps \in Nat

VARIABLES
  active,    \* the people whose Kimono account may sign in
  config,    \* testflight.json: the key, whom the Portal invited, who was approved, whose Apple email counts
  apple,     \* App Store Connect: the team and each member's role, invitations, each app's group
  sync,      \* the sync under way
  resend,    \* the fresh invites under way
  changes, mishaps,
  sent,      \* emails the Portal invited, that are still invited or on the team with the role it gave
  lost,      \* emails a stop, a lost answer, another key or a race took from the file or made a stale plan of
  entitled,  \* emails of active, approved people, all the time since the sync began
  asked,     \* a sync was asked for and none has begun since
  calm       \* how undisturbed the latest sync was: "no", "so far", "yes"

shared == <<active, config, apple>>
counts == <<changes, mishaps>>
notes == <<sent, lost, entitled, asked, calm>>
vars == <<shared, sync, resend, counts, notes>>

Requests == [People -> [Apps -> {"none", "pending", "approved", "declined"}]]
Kept == [key : Keys \cup {NoKey}, invited : SUBSET Emails, requests : Requests, appleEmails : SUBSET People]
Kinds == {"invite", "add", "removeInvitation", "removeUser", "forget"}
Step == [kind : Kinds, email : Emails, app : Apps]
\* A sync, or fresh invites, under way: the copy of the file it works on, what it was told, what it has left to do.
Work == [phase : {"none", "listing", "steps", "also"}, config : Kept, got : SUBSET {"team", "invitations"},
         team : SUBSET Emails, support : SUBSET Emails, invitations : SUBSET Emails, ended : SUBSET People, todo : SUBSET Step,
         removed : SUBSET Emails, late : SUBSET Emails]
AppStoreConnect == [role : [Emails -> {"none", "support", "other"}], invitations : SUBSET Emails,
                    group : [Apps -> SUBSET Emails]]
NobodyAsked == [p \in People |-> [a \in Apps |-> "none"]]
Nothing == [key |-> NoKey, invited |-> {}, requests |-> NobodyAsked, appleEmails |-> {}]
Idle == [phase |-> "none", config |-> Nothing, got |-> {}, team |-> {}, support |-> {}, invitations |-> {},
         ended |-> {}, todo |-> {}, removed |-> {}, late |-> {}]

TypeOK ==
  /\ active \subseteq People
  /\ config \in Kept /\ (config.key = NoKey => config.requests = NobodyAsked /\ config.appleEmails = {})
  /\ apple \in AppStoreConnect /\ sync \in Work /\ resend \in Work
  /\ changes \in 0..MaxChanges /\ mishaps \in 0..MaxMishaps
  /\ sent \subseteq Emails /\ lost \subseteq Emails /\ entitled \subseteq Emails
  /\ asked \in BOOLEAN /\ calm \in {"no", "so far", "yes"}

\* Someone may have been on the team before, with a role an admin gave them.
Init ==
  /\ active = People
  /\ \E k \in Keys : config = [Nothing EXCEPT !.key = k]
  /\ \E old \in SUBSET (People \X {"kimono"}) :
       apple = [role |-> [e \in Emails |-> IF e \in old THEN "other" ELSE "none"],
                invitations |-> {}, group |-> [a \in Apps |-> {}]]
  /\ sync = Idle /\ resend = Idle
  /\ changes = 0 /\ mishaps = 0
  /\ sent = {} /\ lost = {} /\ entitled = {} /\ asked = FALSE /\ calm = "no"

-----------------------------------------------------------------------------
(***************************************************************************)
(* Who should be where.                                                    *)
(***************************************************************************)

Team == {e \in Emails : apple.role[e] # "none"}
Approved(c, p, a) == c.requests[p][a] = "approved"
EmailOf(c, p) == <<p, IF p \in c.appleEmails THEN "apple" ELSE "kimono">>
Entitled(c, those) == {EmailOf(c, p) : p \in {q \in those : \E a \in Apps : Approved(c, q, a)}}

\* kimonoAccounts: those approved for an app, and those invited already.
Asks(c, p) == (\E a \in Apps : Approved(c, p, a)) \/ EmailOf(c, p) \in c.invited

S(kind, e, a) == [kind |-> kind, email |-> e, app |-> a]

\* Mutant: everyone on the team who should not be goes.
planSync_Anyone(s) ==
  LET c == s.config
      wanted == {EmailOf(c, p) : p \in {q \in People \ s.ended : Asks(c, q)}}
      over == Emails \ wanted
  IN {S("invite", e, Main) : e \in (wanted \ s.team) \ s.invitations}
     \cup {S("add", e, Main) : e \in {f \in (wanted \cap s.team) \ apple.group[Main] : Approved(c, Owner(f), Main)}}
     \cup {S("removeInvitation", e, Main) : e \in over \cap s.invitations}
     \cup {S("removeUser", e, Main) : e \in (over \cap s.team) \ s.invitations}

\* Mutant: nobody is invited twice.
planSync_Once(s) ==
  LET c == s.config
      wanted == {EmailOf(c, p) : p \in {q \in People \ s.ended : Asks(c, q)}}
      over == c.invited \ wanted
      ours == over \cap s.support
  IN {S("invite", e, Main) : e \in ((wanted \ s.team) \ s.invitations) \ c.invited}
     \cup {S("add", e, Main) : e \in {f \in (wanted \cap s.team) \ apple.group[Main] : Approved(c, Owner(f), Main)}}
     \cup {S("removeInvitation", e, Main) : e \in over \cap s.invitations}
     \cup {S("removeUser", e, Main) : e \in ours \ s.invitations}
     \cup {S("forget", e, Main) : e \in (over \ ours) \ s.invitations}

\* planSync: invite who is nowhere, add who has joined; take off only whom the Portal invited, and
\* only with the role it gave, as its lists have these. Nobody the directory can't speak for has ended.
\* (A group is changed by syncs alone, so it is as it was listed.)
planSync(s) ==
  LET c == s.config
      wanted == {EmailOf(c, p) : p \in {q \in People \ s.ended : Asks(c, q)}}
      over == c.invited \ wanted
      ours == over \cap s.support
  IN {S("invite", e, Main) : e \in (wanted \ s.team) \ s.invitations}
     \cup {S("add", e, Main) : e \in {f \in (wanted \cap s.team) \ apple.group[Main] : Approved(c, Owner(f), Main)}}
     \cup {S("removeInvitation", e, Main) : e \in over \cap s.invitations}
     \cup {S("removeUser", e, Main) : e \in ours \ s.invitations}
     \cup {S("forget", e, Main) : e \in (over \ ours) \ s.invitations}

\* planAlso: into each other app's group, those on the team who are approved for it.
planAlso(s) ==
  {S("add", EmailOf(s.config, q[1]), q[2]) : q \in
     {r \in (People \ s.ended) \X Others :
        LET e == EmailOf(s.config, r[1])
        IN Approved(s.config, r[1], r[2]) /\ e \in (s.team \ s.removed) \ apple.group[r[2]]}}

-----------------------------------------------------------------------------
(***************************************************************************)
(* What people, the admin and Apple's own pages do.                        *)
(***************************************************************************)

Change == changes < MaxChanges /\ changes' = changes + 1 /\ calm' = "no"
Elsewhere == UNCHANGED <<sync, resend, mishaps>>
StillEntitled(c, those) == entitled' = IF sync.phase = "none" THEN {} ELSE entitled \cap Entitled(c, those)

\* syncTestflight: one at a time; asking during one runs one more after it, shared by all who ask.
AskSync == asked' = TRUE

Configured(c) ==
  /\ config' = c /\ StillEntitled(c, active)
  /\ UNCHANGED <<active, apple, sent, lost>> /\ Elsewhere

\* requestTestflight
requestTestflight(p, a) ==
  /\ Change /\ config.key # NoKey /\ config.requests[p][a] \in {"none", "declined"}
  /\ Configured([config EXCEPT !.requests[p][a] = "pending"])
  /\ UNCHANGED asked

\* decideTestflight: an answer, given to whoever has asked or not; a yes syncs.
decideTestflight(p, a, approve) ==
  /\ Change /\ config.key # NoKey
  /\ Configured([config EXCEPT !.requests[p][a] = IF approve THEN "approved" ELSE "declined"])
  /\ IF approve THEN AskSync ELSE UNCHANGED asked

\* setAppleEmail: given, or taken back.
setAppleEmail(p) ==
  /\ Change /\ config.key # NoKey
  /\ Configured([config EXCEPT !.appleEmails = IF p \in @ THEN @ \ {p} ELSE @ \cup {p}])
  /\ AskSync

\* saveTestflightKey: what is kept stays; the page syncs.
saveTestflightKey(k) ==
  /\ Change /\ config.key # k
  /\ Configured([config EXCEPT !.key = k])
  /\ AskSync

\* forgetTestflightKey: only whom the Portal invited is kept.
forgetTestflightKey ==
  /\ Change /\ config.key # NoKey
  /\ Configured([Nothing EXCEPT !.invited = config.invited])
  /\ UNCHANGED asked

\* Someone's Kimono access ends, or is given back.
AccountChanges(p) ==
  /\ Change
  /\ active' = IF p \in active THEN active \ {p} ELSE active \cup {p}
  /\ StillEntitled(config, active')
  /\ UNCHANGED <<config, apple, asked, sent, lost>> /\ Elsewhere

\* An hour has gone by, or someone opened the page or asked for updates: a sync, unless one is under way.
syncTestflightIfDue ==
  /\ sync.phase = "none" /\ ~asked /\ calm # "yes"
  /\ AskSync
  /\ UNCHANGED <<shared, counts, sent, entitled, calm>> /\ UNCHANGED <<sync, resend, lost>>

AppleChanges == Change /\ UNCHANGED <<active, config, entitled, asked>> /\ Elsewhere
\* Whoever accepts after a sync listed the team and before it lists the invitations is on neither list.
Accept(e) ==
  /\ AppleChanges /\ e \in apple.invitations
  /\ apple' = [apple EXCEPT !.invitations = @ \ {e}, !.role[e] = "support"]
  /\ lost' = IF sync.got = {"team"} THEN lost \cup {e} ELSE lost
  /\ UNCHANGED sent
\* Whoever an admin gives another role after a sync listed the team still has theirs in its plan.
Promoted(e) ==
  /\ AppleChanges /\ apple.role[e] = "support"
  /\ apple' = [apple EXCEPT !.role[e] = "other"] /\ sent' = sent \ {e}
  /\ lost' = IF "team" \in sync.got THEN lost \cup {e} ELSE lost

-----------------------------------------------------------------------------
(***************************************************************************)
(* A sync.                                                                 *)
(***************************************************************************)

Mishap == mishaps < MaxMishaps /\ mishaps' = mishaps + 1 /\ calm' = "no"

\* runSync reads the file; without a key there is nothing to do.
Begin ==
  /\ sync.phase = "none" /\ asked
  /\ asked' = FALSE
  /\ IF config.key = NoKey THEN UNCHANGED <<sync, entitled, calm>>
     ELSE /\ sync' = [Idle EXCEPT !.phase = "listing", !.config = config]
          /\ entitled' = Entitled(config, active) /\ calm' = IF resend.phase = "none" THEN "so far" ELSE "no"
  /\ UNCHANGED <<shared, resend, counts, sent, lost>>

\* Its lists come in as they will; the directory may not know of someone.
ListTeam ==
  /\ sync.phase = "listing" /\ "team" \notin sync.got
  /\ sync' = [sync EXCEPT !.got = @ \cup {"team"}, !.team = Team, !.support = {e \in Team : apple.role[e] = "support"}]
  /\ UNCHANGED <<shared, resend, counts, notes>>
ListInvitations ==
  /\ sync.phase = "listing" /\ "invitations" \notin sync.got
  /\ sync' = [sync EXCEPT !.got = @ \cup {"invitations"}, !.invitations = apple.invitations]
  /\ UNCHANGED <<shared, resend, counts, notes>>

Plan ==
  /\ sync.phase = "listing" /\ sync.got = {"team", "invitations"}
  /\ \E unsure \in SUBSET People :
       LET read == [sync EXCEPT !.phase = "steps", !.ended = (People \ active) \ unsure]
       IN /\ sync' = [read EXCEPT !.todo = planSync(read)]
          /\ IF unsure = {} THEN UNCHANGED <<mishaps, calm>> ELSE Mishap
  /\ UNCHANGED <<shared, resend, changes, sent, lost, entitled, asked>>

\* What Apple makes of a call; it refuses one that makes no sense by now.
Can(s) ==
  CASE s.kind = "invite" -> s.email \notin Team \cup apple.invitations
    [] s.kind = "add" -> s.email \in Team
    [] s.kind = "removeInvitation" -> s.email \in apple.invitations
    [] s.kind = "removeUser" -> s.email \in Team
    [] OTHER -> TRUE
Call(s) ==
  apple' = CASE s.kind = "invite" -> [apple EXCEPT !.invitations = @ \cup {s.email}]
             [] s.kind = "add" -> [apple EXCEPT !.group[s.app] = @ \cup {s.email}]
             [] s.kind = "removeInvitation" -> [apple EXCEPT !.invitations = @ \ {s.email}]
             [] s.kind = "removeUser" -> [apple EXCEPT !.role[s.email] = "none",
                                                       !.group = [a \in Apps |-> @[a] \ {s.email}]]
             [] OTHER -> apple
SentBy(s) ==
  CASE s.kind = "invite" -> sent \cup {s.email}
    [] s.kind \in {"removeInvitation", "removeUser"} -> sent \ {s.email}
    [] OTHER -> sent

\* Mutant: whom it invited is not noted.
Noted_NotInvites(s) == IF s.kind \in {"invite", "add"} THEN sync.config.invited ELSE sync.config.invited \ {s.email}

\* In the sync's own copy of the file.
Noted(s) ==
  CASE s.kind = "invite" -> sync.config.invited \cup {s.email}
    [] s.kind = "add" -> sync.config.invited
    [] OTHER -> sync.config.invited \ {s.email}

DoStep ==
  /\ \E s \in sync.todo :
       /\ Can(s) /\ Call(s)
       /\ sync' = [sync EXCEPT !.todo = @ \ {s}, !.config.invited = Noted(s),
                               !.removed = IF s.kind \in {"removeInvitation", "removeUser"} THEN @ \cup {s.email} ELSE @]
       /\ sent' = SentBy(s)
  /\ UNCHANGED <<active, config, resend, counts, lost, entitled, asked, calm>>

\* A step that makes no sense by now, or whose call fails, done or not; the rest go on.
StepRefused ==
  /\ \E s \in sync.todo : ~Can(s) /\ sync' = [sync EXCEPT !.todo = @ \ {s}]
  /\ calm' = "no"
  /\ UNCHANGED <<shared, resend, counts, sent, lost, entitled, asked>>
StepFails ==
  /\ Mishap
  /\ \E s \in sync.todo :
       /\ s.kind # "forget" /\ Can(s)
       /\ sync' = [sync EXCEPT !.todo = @ \ {s}]
       /\ \/ UNCHANGED <<apple, sent, lost>>
          \/ Call(s) /\ sent' = SentBy(s) /\ lost' = lost \cup (sent' \ sent)
  /\ UNCHANGED <<active, config, resend, changes, entitled, asked>>

\* Then the other apps' groups.
PlanAlso ==
  /\ sync.phase = "steps" /\ sync.todo = {}
  /\ sync' = [sync EXCEPT !.phase = "also", !.todo = planAlso(sync)]
  /\ UNCHANGED <<shared, resend, counts, notes>>

\* The file as it is by now, but for whom this sync invited.
Written == [config EXCEPT !.invited = sync.config.invited]

\* Dropped by its write, though the Portal did invite them: whom fresh invites sent meanwhile, or
\* whom it invited itself under a key since replaced.
Unrecorded == IF config.key = sync.config.key THEN sync.late \ sync.config.invited
              ELSE sync.config.invited \ config.invited

Ends(kept) ==
  /\ sync' = Idle /\ UNCHANGED asked
  /\ config' = IF config.key # sync.config.key THEN config ELSE kept
  /\ lost' = lost \cup Unrecorded
  /\ entitled' = {}
  /\ UNCHANGED <<active, apple, resend, sent>>

End ==
  /\ sync.phase = "also" /\ sync.todo = {}
  /\ Ends(Written)
  /\ calm' = IF calm = "so far" THEN "yes" ELSE calm
  /\ UNCHANGED counts

\* A list can't be had: the sync is over, its copy of the file written as well.
ListFails ==
  /\ sync.phase = "listing" /\ Mishap
  /\ Ends(Written)
  /\ UNCHANGED changes

-----------------------------------------------------------------------------
(***************************************************************************)
(* Fresh invites, and stops.                                               *)
(***************************************************************************)

\* resendTestflight, for those asked for: it reads the file and its lists of Apple.
Resend ==
  /\ Change /\ resend.phase = "none" /\ config.key # NoKey
  /\ \E who \in SUBSET {p \in active : Asks(config, p)} :
       /\ who # {}
       /\ resend' = [Idle EXCEPT !.phase = "steps", !.config = config, !.team = Team, !.invitations = apple.invitations,
                       !.todo = {S("invite", EmailOf(config, p), Main) : p \in who}]
  /\ UNCHANGED <<shared, sync, mishaps, sent, lost, entitled, asked>>

\* A new team invite in place of the old one; someone on the team is only written to again.
\* Apple may refuse the new one, or the call fail, once the old one is gone.
ResendOne ==
  /\ \E s \in resend.todo :
       LET e == s.email
           left == [apple EXCEPT !.invitations = @ \ (resend.invitations \cap {e})]
           send == e \in resend.invitations \/ e \notin resend.team
           refused == \/ e \in resend.invitations /\ e \notin apple.invitations
                      \/ e \in Team \/ e \in left.invitations
       IN \/ /\ ~send \/ refused
             /\ resend' = [resend EXCEPT !.todo = @ \ {s}]
             /\ UNCHANGED <<apple, sent, mishaps, calm>>
          \/ /\ send /\ ~refused
             /\ apple' = [left EXCEPT !.invitations = @ \cup {e}]
             /\ sent' = sent \cup {e}
             /\ resend' = [resend EXCEPT !.todo = @ \ {s}, !.config.invited = @ \cup {e}]
             /\ UNCHANGED <<mishaps, calm>>
          \/ /\ send /\ ~refused /\ Mishap
             /\ apple' = left /\ sent' = sent \ (resend.invitations \cap {e})
             /\ resend' = [resend EXCEPT !.todo = @ \ {s}]
  /\ UNCHANGED <<active, config, sync, changes, lost, entitled, asked>>

\* What was sent is kept, unless the key is another; and a sync is asked for.
ResendEnds ==
  /\ resend.phase = "steps" /\ resend.todo = {}
  /\ resend' = Idle
  /\ LET same == config.key = resend.config.key
     IN /\ config' = IF same THEN [config EXCEPT !.invited = @ \cup resend.config.invited] ELSE config
        /\ lost' = IF same THEN lost ELSE lost \cup (resend.config.invited \ config.invited)
        /\ sync' = IF sync.phase # "none" THEN [sync EXCEPT !.late = @ \cup resend.config.invited] ELSE sync
  /\ AskSync
  /\ UNCHANGED <<active, apple, counts, sent, entitled, calm>>

\* The Portal stops: nothing under way is written.
Stops ==
  /\ Mishap /\ (sync.phase # "none" \/ resend.phase # "none")
  /\ sync' = Idle /\ resend' = Idle /\ asked' = FALSE /\ entitled' = {}
  /\ lost' = lost \cup ((sync.config.invited \cup resend.config.invited) \ config.invited)
  /\ UNCHANGED <<shared, changes, sent>>

-----------------------------------------------------------------------------
Sync == Begin \/ ListTeam \/ ListInvitations \/ Plan \/ DoStep \/ StepRefused \/ PlanAlso \/ End

Doing ==
  \/ \E p \in People, a \in Apps : requestTestflight(p, a) \/ \E yes \in BOOLEAN : decideTestflight(p, a, yes)
  \/ \E p \in People : setAppleEmail(p) \/ AccountChanges(p)
  \/ \E k \in Keys : saveTestflightKey(k)
  \/ forgetTestflightKey \/ syncTestflightIfDue
  \/ \E e \in Emails : Accept(e) \/ Promoted(e)

Next == Doing \/ Sync \/ StepFails \/ ListFails \/ Resend \/ ResendOne \/ ResendEnds \/ Stops

Spec == Init /\ [][Next]_vars /\ WF_vars(Sync) /\ WF_vars(ResendOne \/ ResendEnds) /\ WF_vars(syncTestflightIfDue)

-----------------------------------------------------------------------------
(***************************************************************************)
(* Properties.                                                             *)
(***************************************************************************)

Right(p) ==
  LET e == EmailOf(config, p)
  IN IF p \in active
     THEN /\ (\E a \in Apps : Approved(config, p, a)) => e \in Team \cup apple.invitations
          /\ \A a \in Apps : Approved(config, p, a) /\ e \in Team => e \in apple.group[a]
     ELSE \A f \in sent \ lost : Owner(f) # p

Off(e) == (e \in Team \cup apple.invitations) /\ ~(apple'.role[e] # "none" \/ e \in apple'.invitations)

\* testflight-plan.ts, "only people this Portal invited are taken off never anyone else on
\* the team": what a sync takes off, the Portal had sent; someone whose access the directory can't
\* speak for, or who is active and approved all the while, stays.
OnlyOurs == [][Sync => \A e \in Emails : Off(e) => e \in sent \cup lost /\ e \notin entitled]_vars

\* testflight.ts, "remembers whom it invited, so it only ever takes those people off again": between
\* syncs whoever the Portal invited is in the file, so that they can be taken off again.
Remembers == sync.phase = "none" /\ resend.phase = "none" => sent \subseteq config.invited \cup lost

\* testflight-plan.ts, "Everyone approved for an app, with an active Kimono account and an email,
\* becomes an internal tester", and is off again when that ends; instrumentation.ts, "TestFlight
\* follows Kimono's accounts on its own": whatever calls failed, whoever else wrote the file and
\* whenever the Portal stopped, everyone is right in the end.
InTheEnd == <>[](config.key # NoKey => \A p \in People : Right(p))
=============================================================================
