-------------------------- MODULE TestFlightProofs --------------------------
(***************************************************************************)
(* Theorems about TestFlight, for any people, apps, keys and bounds: whom  *)
(* the Portal invited stays in the file, and a sync takes off only whom    *)
(* the Portal invited and who was not entitled to stay all the while.      *)
(***************************************************************************)
EXTENDS TestFlight, TLAPS

-----------------------------------------------------------------------------
(***************************************************************************)
(* Types.                                                                  *)
(***************************************************************************)

LEMMA EmailsOfPeople == \A c, p : p \in People => EmailOf(c, p) \in Emails /\ Owner(EmailOf(c, p)) = p
BY DEF EmailOf, Emails, Owner

LEMMA NothingKept == Nothing \in Kept /\ Idle \in Work /\ Nothing.invited = {}
BY DEF Nothing, Kept, Idle, Work, NobodyAsked, Requests

LEMMA KeptUpdates ==
  ASSUME NEW c \in Kept
  PROVE  /\ \A x \in SUBSET Emails : [c EXCEPT !.invited = x] \in Kept /\ [c EXCEPT !.invited = x].invited = x
         /\ \A x \in Keys \cup {NoKey} : [c EXCEPT !.key = x] \in Kept
         /\ \A x \in SUBSET People : [c EXCEPT !.appleEmails = x] \in Kept
         /\ \A p \in People, a \in Apps, x \in {"none", "pending", "approved", "declined"} :
              [c EXCEPT !.requests[p][a] = x] \in Kept
<1>1. /\ \A x \in SUBSET Emails : [c EXCEPT !.invited = x] \in Kept /\ [c EXCEPT !.invited = x].invited = x
      /\ \A x \in Keys \cup {NoKey} : [c EXCEPT !.key = x] \in Kept
      /\ \A x \in SUBSET People : [c EXCEPT !.appleEmails = x] \in Kept
  BY DEF Kept
<1>2. ASSUME NEW p \in People, NEW a \in Apps, NEW x \in {"none", "pending", "approved", "declined"}
      PROVE  [c EXCEPT !.requests[p][a] = x] \in Kept
  <2>1. [c.requests EXCEPT ![p][a] = x] \in Requests
    BY DEF Kept, Requests
  <2> QED BY <2>1 DEF Kept
<1> QED BY <1>1, <1>2

LEMMA WorkUpdates ==
  ASSUME NEW w \in Work
  PROVE  /\ \A x \in SUBSET Step : [w EXCEPT !.todo = x] \in Work
         /\ \A x \in SUBSET Emails : [w EXCEPT !.late = x] \in Work
         /\ \A x \in SUBSET Step, y \in SUBSET Emails : [w EXCEPT !.todo = x, !.config.invited = y] \in Work
         /\ \A x \in SUBSET Step, y, z \in SUBSET Emails :
              [w EXCEPT !.todo = x, !.config.invited = y, !.removed = z] \in Work
         /\ \A x \in SUBSET {"team", "invitations"}, y \in SUBSET Emails :
              [w EXCEPT !.got = x, !.invitations = y] \in Work
         /\ \A x \in SUBSET {"team", "invitations"}, y, z \in SUBSET Emails :
              [w EXCEPT !.got = x, !.team = y, !.support = z] \in Work
BY DEF Work, Kept

LEMMA PlansAreSteps ==
  ASSUME NEW w \in Work
  PROVE  planSync(w) \subseteq Step /\ planAlso(w) \subseteq Step
<1>1. \A k \in Kinds, e \in Emails, a \in Apps : S(k, e, a) \in Step
  BY DEF S, Step
<1>2. w.team \subseteq Emails /\ w.support \subseteq Emails /\ w.invitations \subseteq Emails /\ w.config.invited \subseteq Emails /\ w.config \in Kept
  BY DEF Work, Kept
<1>3. Main \in Apps /\ Others \subseteq Apps
  BY DEF Apps
<1>4. planSync(w) \subseteq Step
  BY <1>1, <1>2, <1>3, EmailsOfPeople DEF planSync, Kinds
<1>5. planAlso(w) \subseteq Step
  BY <1>1, <1>2, <1>3, EmailsOfPeople DEF planAlso, Kinds
<1> QED BY <1>4, <1>5

LEMMA EntitledAreEmails == \A c, those : those \subseteq People => Entitled(c, those) \subseteq Emails
BY EmailsOfPeople DEF Entitled

\* What Apple can make of a step is App Store Connect still.
LEMMA CallKeepsApple ==
  ASSUME NEW s \in Step, apple \in AppStoreConnect, Call(s)
  PROVE  apple' \in AppStoreConnect
<1>1. s.email \in Emails /\ s.app \in Apps /\ s.kind \in Kinds
  BY DEF Step
<1>2. CASE s.kind = "invite"
  BY <1>1, <1>2 DEF Call, AppStoreConnect
<1>3. CASE s.kind = "add"
  <2>1. apple' = [apple EXCEPT !.group[s.app] = @ \cup {s.email}]
    BY <1>3 DEF Call
  <2>2. [apple.group EXCEPT ![s.app] = @ \cup {s.email}] \in [Apps -> SUBSET Emails]
    BY <1>1 DEF AppStoreConnect
  <2> QED BY <2>1, <2>2 DEF AppStoreConnect
<1>4. CASE s.kind = "removeInvitation"
  BY <1>1, <1>4 DEF Call, AppStoreConnect
<1>5. CASE s.kind = "removeUser"
  <2>1. apple' = [apple EXCEPT !.role[s.email] = "none", !.group = [a \in Apps |-> @[a] \ {s.email}]]
    BY <1>5 DEF Call
  <2>2. [apple.role EXCEPT ![s.email] = "none"] \in [Emails -> {"none", "support", "other"}]
    BY <1>1 DEF AppStoreConnect
  <2>3. [a \in Apps |-> apple.group[a] \ {s.email}] \in [Apps -> SUBSET Emails]
    BY DEF AppStoreConnect
  <2> QED BY <2>1, <2>2, <2>3 DEF AppStoreConnect
<1>6. CASE s.kind = "forget"
  BY <1>6 DEF Call
<1> QED BY <1>1, <1>2, <1>3, <1>4, <1>5, <1>6 DEF Kinds

LEMMA WithinBounds ==
  /\ 0 \in 0..MaxChanges /\ 0 \in 0..MaxMishaps
  /\ TypeOK /\ Change => changes' \in 0..MaxChanges /\ calm' = "no"
  /\ TypeOK /\ Mishap => mishaps' \in 0..MaxMishaps /\ calm' = "no"
<1>1. TypeOK => changes \in 0..MaxChanges /\ mishaps \in 0..MaxMishaps
  BY DEF TypeOK
<1>2. MaxChanges \in Nat /\ MaxMishaps \in Nat
  BY TestFlightAssumption
<1> QED BY <1>1, <1>2 DEF Change, Mishap

LEMMA TypeInit == Init => TypeOK
<1> SUFFICES ASSUME Init PROVE TypeOK
  OBVIOUS
<1>1. PICK k \in Keys : config = [Nothing EXCEPT !.key = k]
  BY DEF Init
<1>2. config \in Kept /\ config.key # NoKey
  <2>1. config.key = k
    BY <1>1, NothingKept DEF Kept
  <2> QED BY <1>1, <2>1, KeptUpdates, NothingKept, TestFlightAssumption
<1>3. apple \in AppStoreConnect
  <2>1. PICK old \in SUBSET (People \X {"kimono"}) :
          apple = [role |-> [e \in Emails |-> IF e \in old THEN "other" ELSE "none"],
                   invitations |-> {}, group |-> [a \in Apps |-> {}]]
    BY DEF Init
  <2>2. [e \in Emails |-> IF e \in old THEN "other" ELSE "none"] \in [Emails -> {"none", "support", "other"}]
    OBVIOUS
  <2>3. [a \in Apps |-> {}] \in [Apps -> SUBSET Emails]
    OBVIOUS
  <2> QED BY <2>1, <2>2, <2>3 DEF AppStoreConnect
<1> QED BY <1>2, <1>3, NothingKept, WithinBounds DEF Init, TypeOK

\* What people and the admin do to the file.
LEMMA TypeOfFile ==
  ASSUME TypeOK,
         \/ \E p \in People, a \in Apps : requestTestflight(p, a) \/ \E yes \in BOOLEAN : decideTestflight(p, a, yes)
         \/ \E p \in People : setAppleEmail(p)
         \/ \E k \in Keys : saveTestflightKey(k)
         \/ forgetTestflightKey
  PROVE  TypeOK'
<1>1. config' \in Kept /\ (config'.key = NoKey => config'.requests = NobodyAsked /\ config'.appleEmails = {})
  <2>0. config \in Kept /\ (config.key = NoKey => config.requests = NobodyAsked /\ config.appleEmails = {})
    BY DEF TypeOK
  <2>1. ASSUME NEW p \in People, NEW a \in Apps, NEW x \in {"pending", "approved", "declined"}, config.key # NoKey,
               config' = [config EXCEPT !.requests[p][a] = x]
        PROVE  config' \in Kept /\ config'.key # NoKey
    <3>1. config' \in Kept
      BY <2>0, <2>1, KeptUpdates
    <3>2. config'.key = config.key
      BY <2>0, <2>1 DEF Kept
    <3> QED BY <2>1, <3>1, <3>2
  <2>2. ASSUME NEW x \in SUBSET People, config.key # NoKey, config' = [config EXCEPT !.appleEmails = x]
        PROVE  config' \in Kept /\ config'.key # NoKey
    <3>1. config' \in Kept
      BY <2>0, <2>2, KeptUpdates
    <3>2. config'.key = config.key
      BY <2>0, <2>2 DEF Kept
    <3> QED BY <2>2, <3>1, <3>2
  <2>3. ASSUME NEW p \in People, NEW a \in Apps, requestTestflight(p, a)
        PROVE  config' \in Kept /\ config'.key # NoKey
    BY <2>1, <2>3 DEF requestTestflight, Configured
  <2>4. ASSUME NEW p \in People, NEW a \in Apps, NEW yes \in BOOLEAN, decideTestflight(p, a, yes)
        PROVE  config' \in Kept /\ config'.key # NoKey
    BY <2>1, <2>4 DEF decideTestflight, Configured
  <2>5. ASSUME NEW p \in People, setAppleEmail(p)
        PROVE  config' \in Kept /\ config'.key # NoKey
    <3>1. config.appleEmails \subseteq People
      BY <2>0 DEF Kept
    <3>2. PICK x \in SUBSET People : config' = [config EXCEPT !.appleEmails = x]
      BY <2>5, <3>1 DEF setAppleEmail, Configured
    <3> QED BY <2>2, <2>5, <3>2 DEF setAppleEmail
  <2>6. ASSUME NEW k \in Keys, saveTestflightKey(k)
        PROVE  config' \in Kept /\ config'.key # NoKey
    <3>1. config' = [config EXCEPT !.key = k]
      BY <2>6 DEF saveTestflightKey, Configured
    <3>2. config' \in Kept
      BY <2>0, <3>1, KeptUpdates
    <3>3. config'.key = k
      BY <2>0, <3>1 DEF Kept
    <3> QED BY <3>2, <3>3, TestFlightAssumption
  <2>7. ASSUME forgetTestflightKey
        PROVE  config' \in Kept /\ config'.requests = NobodyAsked /\ config'.appleEmails = {}
    <3>1. config' = [Nothing EXCEPT !.invited = config.invited]
      BY <2>7 DEF forgetTestflightKey, Configured
    <3>2. config.invited \in SUBSET Emails
      BY <2>0 DEF Kept
    <3>3. config' \in Kept
      BY <3>1, <3>2, KeptUpdates, NothingKept
    <3>4. config'.requests = Nothing.requests /\ config'.appleEmails = Nothing.appleEmails
      BY <3>1, NothingKept DEF Kept
    <3> QED BY <3>3, <3>4 DEF Nothing
  <2> QED BY <2>3, <2>4, <2>5, <2>6, <2>7
<1>2. /\ \E c : StillEntitled(c, active)
      /\ UNCHANGED <<active, apple, sent, lost, sync, resend, mishaps>>
      /\ Change /\ asked' \in {asked, TRUE}
  BY DEF requestTestflight, decideTestflight, setAppleEmail, saveTestflightKey, forgetTestflightKey, Configured,
         Elsewhere, AskSync
<1>3. entitled' \subseteq Emails
  BY <1>2 DEF StillEntitled, TypeOK
<1>4. changes' \in 0..MaxChanges /\ calm' = "no"
  BY <1>2, WithinBounds
<1> QED BY <1>1, <1>2, <1>3, <1>4 DEF TypeOK

LEMMA TypeElsewhere ==
  ASSUME TypeOK,
         \/ \E p \in People : AccountChanges(p)
         \/ syncTestflightIfDue
         \/ \E e \in Emails : Accept(e) \/ Promoted(e)
  PROVE  TypeOK'
<1>1. ASSUME NEW p \in People, AccountChanges(p)
      PROVE  TypeOK'
  <2>1. changes' \in 0..MaxChanges /\ calm' = "no"
    BY <1>1, WithinBounds DEF AccountChanges
  <2>2. active' \subseteq People /\ entitled' \subseteq Emails
    BY <1>1 DEF AccountChanges, StillEntitled, TypeOK
  <2> QED BY <1>1, <2>1, <2>2 DEF AccountChanges, Elsewhere, TypeOK
<1>2. CASE syncTestflightIfDue
  BY <1>2 DEF syncTestflightIfDue, AskSync, shared, counts, TypeOK
<1>3. ASSUME NEW e \in Emails, Accept(e) \/ Promoted(e)
      PROVE  TypeOK'
  <2>1. apple' \in AppStoreConnect
    <3>1. \A x \in {"support", "other"} : [apple.role EXCEPT ![e] = x] \in [Emails -> {"none", "support", "other"}]
      BY DEF TypeOK, AppStoreConnect
    <3>2. \A x \in {"support", "other"}, y \in SUBSET Emails :
            [apple EXCEPT !.invitations = y, !.role[e] = x] \in AppStoreConnect
      BY <3>1 DEF TypeOK, AppStoreConnect
    <3>3. \A x \in {"support", "other"} : [apple EXCEPT !.role[e] = x] \in AppStoreConnect
      BY <3>1 DEF TypeOK, AppStoreConnect
    <3>4. apple.invitations \ {e} \in SUBSET Emails
      BY DEF TypeOK, AppStoreConnect
    <3> QED BY <1>3, <3>2, <3>3, <3>4 DEF Accept, Promoted
  <2>2. lost' \subseteq Emails /\ sent' \subseteq Emails
    BY <1>3 DEF Accept, Promoted, TypeOK
  <2>3. UNCHANGED <<active, config, entitled, asked, sync, resend, mishaps>>
        /\ changes' \in 0..MaxChanges /\ calm' = "no"
    BY <1>3, WithinBounds DEF Accept, Promoted, AppleChanges, Elsewhere
  <2> QED BY <2>1, <2>2, <2>3 DEF TypeOK
<1> QED BY <1>1, <1>2, <1>3

\* The steps of a sync that only work on its own copy.
LEMMA TypeOfSync ==
  ASSUME TypeOK, Begin \/ ListTeam \/ ListInvitations \/ Plan \/ StepRefused \/ PlanAlso
  PROVE  TypeOK'
<1>0. config \in Kept /\ active \subseteq People /\ sync \in Work
  BY DEF TypeOK
<1>1. CASE Begin
  <2>1. sync' \in Work
    BY <1>0, <1>1, NothingKept DEF Begin, Work
  <2>2. entitled' \subseteq Emails
    <3>1. Entitled(config, active) \subseteq Emails /\ entitled \subseteq Emails
      BY <1>0, EntitledAreEmails DEF TypeOK
    <3>2. entitled' \in {entitled, Entitled(config, active)}
      BY <1>1 DEF Begin
    <3> QED BY <3>1, <3>2
  <2> QED BY <1>1, <2>1, <2>2 DEF Begin, shared, counts, TypeOK
<1>2. CASE ListTeam
  <2>1. Team \in SUBSET Emails /\ {e \in Team : apple.role[e] = "support"} \in SUBSET Emails
    BY DEF Team
  <2>2. sync.got \cup {"team"} \in SUBSET {"team", "invitations"}
    BY <1>0 DEF Work
  <2>3. sync' \in Work
    BY <1>0, <1>2, <2>1, <2>2, WorkUpdates DEF ListTeam
  <2> QED BY <1>2, <2>3 DEF ListTeam, shared, counts, notes, TypeOK
<1>3. CASE ListInvitations
  <2>1. apple.invitations \in SUBSET Emails
    BY DEF TypeOK, AppStoreConnect
  <2>2. sync.got \cup {"invitations"} \in SUBSET {"team", "invitations"}
    BY <1>0 DEF Work
  <2>3. sync' \in Work
    BY <1>0, <1>3, <2>1, <2>2, WorkUpdates DEF ListInvitations
  <2> QED BY <1>3, <2>3 DEF ListInvitations, shared, counts, notes, TypeOK
<1>4. CASE Plan
  <2>1. PICK unsure \in SUBSET People :
          LET read == [sync EXCEPT !.phase = "steps", !.ended = (People \ active) \ unsure]
          IN /\ sync' = [read EXCEPT !.todo = planSync(read)]
             /\ IF unsure = {} THEN UNCHANGED <<mishaps, calm>> ELSE Mishap
    BY <1>4 DEF Plan
  <2> DEFINE read == [sync EXCEPT !.phase = "steps", !.ended = (People \ active) \ unsure]
  <2>2. read \in Work
    BY <1>0 DEF Work
  <2>3. planSync(read) \in SUBSET Step
    BY <2>2, PlansAreSteps
  <2>4. sync' = [read EXCEPT !.todo = planSync(read)]
    BY <2>1
  <2> HIDE DEF read
  <2>5. sync' \in Work
    BY <2>2, <2>3, <2>4, WorkUpdates
  <2>6. mishaps' \in 0..MaxMishaps /\ calm' \in {calm, "no"}
    BY <2>1, WithinBounds DEF TypeOK
  <2> QED BY <1>4, <2>5, <2>6 DEF Plan, shared, TypeOK
<1>5. CASE StepRefused
  <2>1. PICK s \in sync.todo : sync' = [sync EXCEPT !.todo = @ \ {s}]
    BY <1>5 DEF StepRefused
  <2>2. sync.todo \ {s} \in SUBSET Step
    BY <1>0 DEF Work
  <2>3. sync' \in Work
    BY <1>0, <2>1, <2>2, WorkUpdates
  <2> QED BY <1>5, <2>3 DEF StepRefused, shared, counts, TypeOK
<1>6. CASE PlanAlso
  <2>1. planAlso(sync) \in SUBSET Step
    BY <1>0, PlansAreSteps
  <2>2. sync' = [sync EXCEPT !.phase = "also", !.todo = planAlso(sync)]
    BY <1>6 DEF PlanAlso
  <2> DEFINE also == planAlso(sync)
  <2>3. sync' = [sync EXCEPT !.phase = "also", !.todo = also] /\ also \in SUBSET Step
    BY <2>1, <2>2
  <2> HIDE DEF also
  <2>4. sync' \in Work
    BY <1>0, <2>3 DEF Work
  <2> QED BY <1>6, <2>4 DEF PlanAlso, shared, counts, notes, TypeOK
<1> QED BY <1>1, <1>2, <1>3, <1>4, <1>5, <1>6

\* Whom a step made the Portal invite or take off is one of the emails there are.
LEMMA NotesOfStep ==
  ASSUME NEW s \in Step, TypeOK
  PROVE  SentBy(s) \subseteq Emails /\ Noted(s) \subseteq Emails
<1>1. s.email \in Emails /\ sent \subseteq Emails /\ sync.config.invited \subseteq Emails
  BY DEF TypeOK, Work, Kept, Step
<1> QED BY <1>1 DEF SentBy, Noted

LEMMA TypeOfStep ==
  ASSUME TypeOK, DoStep \/ StepFails
  PROVE  TypeOK'
<1>0. sync \in Work /\ apple \in AppStoreConnect /\ sync.todo \subseteq Step /\ sync.removed \subseteq Emails
  BY DEF TypeOK, Work
<1>1. CASE DoStep
  <2>1. PICK s \in sync.todo :
          /\ Call(s) /\ sent' = SentBy(s)
          /\ sync' = [sync EXCEPT !.todo = @ \ {s}, !.config.invited = Noted(s),
                        !.removed = IF s.kind \in {"removeInvitation", "removeUser"} THEN @ \cup {s.email} ELSE @]
    BY <1>1 DEF DoStep
  <2> DEFINE gone == IF s.kind \in {"removeInvitation", "removeUser"} THEN sync.removed \cup {s.email} ELSE sync.removed
             noted == Noted(s)
  <2>2. s \in Step /\ s.email \in Emails
    BY <1>0 DEF Step
  <2>3. sync' = [sync EXCEPT !.todo = @ \ {s}, !.config.invited = noted, !.removed = gone]
    BY <2>1
  <2>4. noted \in SUBSET Emails /\ gone \in SUBSET Emails /\ sync.todo \ {s} \in SUBSET Step
    BY <1>0, <2>2, NotesOfStep
  <2> HIDE DEF noted, gone
  <2>5. sync' \in Work
    BY <1>0, <2>3, <2>4, WorkUpdates
  <2>6. apple' \in AppStoreConnect /\ sent' \subseteq Emails
    BY <1>0, <2>1, <2>2, CallKeepsApple, NotesOfStep
  <2> QED BY <1>1, <2>5, <2>6 DEF DoStep, counts, TypeOK
<1>2. CASE StepFails
  <2>1. PICK s \in sync.todo :
          /\ sync' = [sync EXCEPT !.todo = @ \ {s}]
          /\ \/ UNCHANGED <<apple, sent, lost>>
             \/ Call(s) /\ sent' = SentBy(s) /\ lost' = lost \cup (sent' \ sent)
    BY <1>2 DEF StepFails
  <2>2. s \in Step /\ sync.todo \ {s} \in SUBSET Step
    BY <1>0
  <2>3. sync' \in Work
    BY <1>0, <2>1, <2>2, WorkUpdates
  <2>4. apple' \in AppStoreConnect /\ sent' \subseteq Emails
    BY <1>0, <2>1, <2>2, CallKeepsApple, NotesOfStep DEF TypeOK
  <2>5. lost' \subseteq Emails
    BY <2>1, <2>4 DEF TypeOK
  <2>6. mishaps' \in 0..MaxMishaps /\ calm' = "no"
    BY <1>2, WithinBounds DEF StepFails
  <2> QED BY <1>2, <2>3, <2>4, <2>5, <2>6 DEF StepFails, TypeOK
<1> QED BY <1>1, <1>2

LEMMA TypeOfEnd ==
  ASSUME TypeOK, End \/ ListFails \/ Stops
  PROVE  TypeOK'
<1>0. /\ config \in Kept /\ sync \in Work /\ resend \in Work
      /\ sync.config.invited \in SUBSET Emails /\ sync.late \in SUBSET Emails
      /\ resend.config.invited \in SUBSET Emails
      /\ config.key = NoKey => config.requests = NobodyAsked /\ config.appleEmails = {}
  BY DEF TypeOK, Work, Kept
<1>1. Written \in Kept /\ (Written.key = NoKey => Written.requests = NobodyAsked /\ Written.appleEmails = {})
  <2>1. Written \in Kept
    BY <1>0, KeptUpdates DEF Written
  <2>2. Written.key = config.key /\ Written.requests = config.requests /\ Written.appleEmails = config.appleEmails
    BY <1>0 DEF Written, Kept
  <2> QED BY <1>0, <2>1, <2>2
<1>2. CASE Stops
  <2>1. mishaps' \in 0..MaxMishaps /\ calm' = "no"
    BY <1>2, WithinBounds DEF Stops
  <2>2. lost' \subseteq Emails
    BY <1>0, <1>2 DEF Stops, TypeOK
  <2> QED BY <1>2, <2>1, <2>2, NothingKept DEF Stops, shared, TypeOK
<1>3. ASSUME Ends(Written), UNCHANGED changes, mishaps' \in 0..MaxMishaps, calm' \in {"no", "so far", "yes"}
      PROVE  TypeOK'
  <2>1. config' = config \/ config' = Written
    BY <1>3 DEF Ends
  <2>2. lost' \subseteq Emails
    BY <1>0, <1>3 DEF Ends, Unrecorded, TypeOK, Kept
  <2> QED BY <1>1, <1>3, <2>1, <2>2, NothingKept DEF Ends, TypeOK
<1>4. CASE End
  <2>1. mishaps' \in 0..MaxMishaps /\ calm' \in {"no", "so far", "yes"} /\ UNCHANGED changes /\ Ends(Written)
    BY <1>4 DEF End, counts, TypeOK
  <2> QED BY <1>3, <2>1
<1>5. CASE ListFails
  <2>1. mishaps' \in 0..MaxMishaps /\ calm' = "no" /\ UNCHANGED changes /\ Ends(Written)
    BY <1>5, WithinBounds DEF ListFails
  <2> QED BY <1>3, <2>1
<1> QED BY <1>2, <1>4, <1>5

LEMMA TypeOfResend ==
  ASSUME TypeOK, Resend \/ ResendOne \/ ResendEnds
  PROVE  TypeOK'
<1>0. /\ config \in Kept /\ sync \in Work /\ resend \in Work /\ apple \in AppStoreConnect
      /\ resend.config.invited \in SUBSET Emails /\ resend.todo \in SUBSET Step /\ sync.late \in SUBSET Emails
      /\ apple.invitations \in SUBSET Emails /\ config.invited \in SUBSET Emails /\ active \subseteq People
  BY DEF TypeOK, Work, Kept, AppStoreConnect
<1>1. CASE Resend
  <2>1. PICK who \in SUBSET {p \in active : Asks(config, p)} :
          resend' = [Idle EXCEPT !.phase = "steps", !.config = config, !.team = Team, !.invitations = apple.invitations,
                       !.todo = {S("invite", EmailOf(config, p), Main) : p \in who}]
    BY <1>1 DEF Resend
  <2> DEFINE those == {S("invite", EmailOf(config, p), Main) : p \in who}
             team == Team
  <2>2. those \in SUBSET Step
    BY <1>0, EmailsOfPeople DEF S, Step, Kinds, Apps
  <2>3. team \in SUBSET Emails
    BY DEF Team
  <2>4. resend' = [Idle EXCEPT !.phase = "steps", !.config = config, !.team = team, !.invitations = apple.invitations,
                     !.todo = those]
    BY <2>1
  <2> HIDE DEF those, team
  <2>5. resend' \in Work
    BY <1>0, <2>2, <2>3, <2>4, NothingKept DEF Work
  <2>6. changes' \in 0..MaxChanges /\ calm' = "no"
    BY <1>1, WithinBounds DEF Resend
  <2> QED BY <1>1, <2>5, <2>6 DEF Resend, shared, TypeOK
<1>2. CASE ResendOne
  <2>1. PICK s \in resend.todo :
          LET left == [apple EXCEPT !.invitations = @ \ (resend.invitations \cap {s.email})]
          IN \/ /\ resend' = [resend EXCEPT !.todo = @ \ {s}]
                /\ UNCHANGED <<apple, sent, mishaps, calm>>
             \/ /\ apple' = [left EXCEPT !.invitations = @ \cup {s.email}]
                /\ sent' = sent \cup {s.email}
                /\ resend' = [resend EXCEPT !.todo = @ \ {s}, !.config.invited = @ \cup {s.email}]
                /\ UNCHANGED <<mishaps, calm>>
             \/ /\ Mishap
                /\ apple' = left /\ sent' = sent \ (resend.invitations \cap {s.email})
                /\ resend' = [resend EXCEPT !.todo = @ \ {s}]
    BY <1>2 DEF ResendOne
  <2>2. s.email \in Emails /\ resend.todo \ {s} \in SUBSET Step /\ resend.config.invited \cup {s.email} \in SUBSET Emails
    BY <1>0 DEF Step
  <2>3. resend' \in Work
    <3> DEFINE known == resend.config.invited \cup {s.email}
               todo == resend.todo \ {s}
    <3>1. resend' = [resend EXCEPT !.todo = todo] \/ resend' = [resend EXCEPT !.todo = todo, !.config.invited = known]
      BY <2>1
    <3>2. todo \in SUBSET Step /\ known \in SUBSET Emails
      BY <2>2
    <3> HIDE DEF known, todo
    <3>3. resend \in Work
      BY <1>0
    <3>4. [resend EXCEPT !.todo = todo] \in Work /\ [resend EXCEPT !.todo = todo, !.config.invited = known] \in Work
      BY <3>2, <3>3, WorkUpdates
    <3> QED BY <3>1, <3>4
  <2>4. apple' \in AppStoreConnect
    <3> DEFINE left == [apple EXCEPT !.invitations = @ \ (resend.invitations \cap {s.email})]
    <3>1. left \in AppStoreConnect
      BY <1>0 DEF AppStoreConnect
    <3>2. apple' \in {apple, left, [left EXCEPT !.invitations = @ \cup {s.email}]}
      BY <2>1
    <3> HIDE DEF left
    <3>3. [left EXCEPT !.invitations = @ \cup {s.email}] \in AppStoreConnect
      BY <2>2, <3>1 DEF AppStoreConnect
    <3> QED BY <1>0, <3>1, <3>2, <3>3
  <2>5. sent' \subseteq Emails
    BY <2>1, <2>2 DEF TypeOK
  <2>6. mishaps' \in 0..MaxMishaps /\ calm' \in {calm, "no"}
    BY <2>1, WithinBounds DEF TypeOK
  <2> QED BY <1>2, <2>3, <2>4, <2>5, <2>6 DEF ResendOne, TypeOK
<1>3. CASE ResendEnds
  <2>1. sync' \in Work
    <3>1. sync.late \cup resend.config.invited \in SUBSET Emails
      BY <1>0
    <3>2. sync' = sync \/ sync' = [sync EXCEPT !.late = @ \cup resend.config.invited]
      BY <1>3 DEF ResendEnds
    <3> QED BY <1>0, <3>1, <3>2, WorkUpdates
  <2>2. config' \in Kept /\ (config'.key = NoKey => config'.requests = NobodyAsked /\ config'.appleEmails = {})
    <3>1. config.invited \cup resend.config.invited \in SUBSET Emails
      BY <1>0
    <3>2. config' = config \/ config' = [config EXCEPT !.invited = @ \cup resend.config.invited]
      BY <1>3 DEF ResendEnds
    <3>3. config' \in Kept
      BY <1>0, <3>1, <3>2, KeptUpdates
    <3>4. config'.key = config.key /\ config'.requests = config.requests /\ config'.appleEmails = config.appleEmails
      BY <1>0, <3>2 DEF Kept
    <3> QED BY <3>3, <3>4 DEF TypeOK
  <2>3. lost' \subseteq Emails
    BY <1>0, <1>3 DEF ResendEnds, TypeOK
  <2> QED BY <1>3, <2>1, <2>2, <2>3, NothingKept DEF ResendEnds, AskSync, counts, TypeOK
<1> QED BY <1>1, <1>2, <1>3

LEMMA TypeStep == TypeOK /\ [Next]_vars => TypeOK'
<1> SUFFICES ASSUME TypeOK, [Next]_vars PROVE TypeOK'
  OBVIOUS
<1>1. CASE UNCHANGED vars
  BY <1>1 DEF vars, shared, counts, notes, TypeOK
<1> QED BY <1>1, TypeOfFile, TypeElsewhere, TypeOfSync, TypeOfStep, TypeOfEnd, TypeOfResend DEF Next, Doing, Sync

\* TestFlight keeps its types.
THEOREM TypeInvariant == Spec => []TypeOK
BY TypeInit, TypeStep, PTL DEF Spec

-----------------------------------------------------------------------------
(***************************************************************************)
(* What Apple has.                                                         *)
(***************************************************************************)

\* Nobody is invited and on the team at once; and whoever is invited, or on the team with the role
\* the Portal gives, is there by the Portal's invite.
AppleInv ==
  /\ apple.invitations \cap Team = {}
  /\ sent = apple.invitations \cup {e \in Emails : apple.role[e] = "support"}

LEMMA CallDoes ==
  ASSUME NEW s \in Step, apple \in AppStoreConnect, Call(s)
  PROVE  /\ apple'.invitations = CASE s.kind = "invite" -> apple.invitations \cup {s.email}
                                   [] s.kind = "removeInvitation" -> apple.invitations \ {s.email}
                                   [] OTHER -> apple.invitations
         /\ apple'.role = IF s.kind = "removeUser" THEN [apple.role EXCEPT ![s.email] = "none"] ELSE apple.role
<1>1. s.email \in Emails /\ s.app \in Apps /\ s.kind \in Kinds
  BY DEF Step
<1>2. CASE s.kind = "invite"
  BY <1>1, <1>2 DEF Call, AppStoreConnect
<1>3. CASE s.kind = "add"
  BY <1>1, <1>3 DEF Call, AppStoreConnect
<1>4. CASE s.kind = "removeInvitation"
  BY <1>1, <1>4 DEF Call, AppStoreConnect
<1>5. CASE s.kind = "removeUser"
  BY <1>1, <1>5 DEF Call, AppStoreConnect
<1>6. CASE s.kind = "forget"
  BY <1>6 DEF Call
<1> QED BY <1>1, <1>2, <1>3, <1>4, <1>5, <1>6 DEF Kinds

LEMMA AppleOfCall ==
  ASSUME NEW s \in Step, apple \in AppStoreConnect, AppleInv, Can(s), Call(s), sent' = SentBy(s)
  PROVE  AppleInv'
<1>1. s.email \in Emails /\ s.kind \in Kinds /\ apple.role \in [Emails -> {"none", "support", "other"}]
  BY DEF Step, AppStoreConnect
<1>2. CASE s.kind = "invite"
  <2>1. apple'.invitations = apple.invitations \cup {s.email} /\ apple'.role = apple.role /\ sent' = sent \cup {s.email}
    BY <1>2, CallDoes DEF SentBy
  <2>2. s.email \notin Team
    BY <1>2 DEF Can
  <2> QED BY <2>1, <2>2 DEF AppleInv, Team
<1>3. CASE s.kind \in {"add", "forget"}
  <2>1. apple'.invitations = apple.invitations /\ apple'.role = apple.role /\ sent' = sent
    BY <1>3, CallDoes DEF SentBy
  <2> QED BY <2>1 DEF AppleInv, Team
<1>4. CASE s.kind = "removeInvitation"
  <2>1. apple'.invitations = apple.invitations \ {s.email} /\ apple'.role = apple.role /\ sent' = sent \ {s.email}
    BY <1>4, CallDoes DEF SentBy
  <2>2. s.email \in apple.invitations
    BY <1>4 DEF Can
  <2>3. apple.role[s.email] # "support"
    BY <1>1, <2>2 DEF AppleInv, Team
  <2> QED BY <2>1, <2>3 DEF AppleInv, Team
<1>5. CASE s.kind = "removeUser"
  <2>1. apple'.invitations = apple.invitations /\ apple'.role = [apple.role EXCEPT ![s.email] = "none"]
        /\ sent' = sent \ {s.email}
    BY <1>5, CallDoes DEF SentBy
  <2>2. s.email \in Team
    BY <1>5 DEF Can
  <2>3. s.email \notin apple.invitations
    BY <2>2 DEF AppleInv
  <2>4. \A e \in Emails : apple'.role[e] = IF e = s.email THEN "none" ELSE apple.role[e]
    BY <1>1, <2>1
  <2> QED BY <1>1, <2>1, <2>3, <2>4 DEF AppleInv, Team
<1> QED BY <1>1, <1>2, <1>3, <1>4, <1>5 DEF Kinds

LEMMA AppleElsewhere ==
  ASSUME NEW e \in Emails, apple \in AppStoreConnect, AppleInv, Accept(e) \/ Promoted(e)
  PROVE  AppleInv'
<1>1. apple.role \in [Emails -> {"none", "support", "other"}]
  BY DEF AppStoreConnect
<1>2. CASE Accept(e)
  <2>1. /\ apple'.invitations = apple.invitations \ {e} /\ apple'.role = [apple.role EXCEPT ![e] = "support"]
        /\ e \in apple.invitations /\ sent' = sent
    BY <1>2 DEF Accept, AppStoreConnect
  <2>2. \A f \in Emails : apple'.role[f] = IF f = e THEN "support" ELSE apple.role[f]
    BY <1>1, <2>1
  <2> QED BY <2>1, <2>2 DEF AppleInv, Team
<1>3. CASE Promoted(e)
  <2>1. /\ apple'.invitations = apple.invitations /\ apple'.role = [apple.role EXCEPT ![e] = "other"]
        /\ apple.role[e] = "support" /\ sent' = sent \ {e}
    BY <1>3 DEF Promoted, AppStoreConnect
  <2>2. \A f \in Emails : apple'.role[f] = IF f = e THEN "other" ELSE apple.role[f]
    BY <1>1, <2>1
  <2>3. e \notin apple.invitations
    BY <2>1 DEF AppleInv, Team
  <2> QED BY <2>1, <2>2, <2>3 DEF AppleInv, Team
<1> QED BY <1>2, <1>3

\* What one fresh invite may come to: nothing, a new invitation for an old one, or the old one gone.
Refreshed(e) ==
  \/ apple'.invitations = apple.invitations /\ sent' = sent /\ resend'.config.invited = resend.config.invited
  \/ /\ apple'.invitations = apple.invitations \cup {e} /\ sent' = sent \cup {e} /\ e \notin Team
     /\ resend'.config.invited = resend.config.invited \cup {e}
  \/ /\ apple'.invitations = apple.invitations \ {e} /\ sent' = sent \ {e} /\ e \notin Team
     /\ resend'.config.invited = resend.config.invited

LEMMA ResendOneDoes ==
  ASSUME TypeOK, ResendOne
  PROVE  /\ \E e \in Emails : Refreshed(e)
         /\ apple'.role = apple.role
         /\ resend'.phase = resend.phase /\ resend.todo # {}
<1>0. /\ resend \in Work /\ apple \in AppStoreConnect /\ resend.todo \in SUBSET Step
      /\ resend.invitations \in SUBSET Emails /\ apple.invitations \in SUBSET Emails
      /\ resend.config.invited \in SUBSET Emails
  BY DEF TypeOK, Work, AppStoreConnect, Kept
<1>1. PICK s \in resend.todo :
        LET e == s.email
            left == [apple EXCEPT !.invitations = @ \ (resend.invitations \cap {e})]
            send == e \in resend.invitations \/ e \notin resend.team
            refused == \/ e \in resend.invitations /\ e \notin apple.invitations
                       \/ e \in Team \/ e \in left.invitations
        IN \/ /\ resend' = [resend EXCEPT !.todo = @ \ {s}]
              /\ UNCHANGED <<apple, sent, mishaps, calm>>
           \/ /\ send /\ ~refused
              /\ apple' = [left EXCEPT !.invitations = @ \cup {e}]
              /\ sent' = sent \cup {e}
              /\ resend' = [resend EXCEPT !.todo = @ \ {s}, !.config.invited = @ \cup {e}]
           \/ /\ send /\ ~refused
              /\ apple' = left /\ sent' = sent \ (resend.invitations \cap {e})
              /\ resend' = [resend EXCEPT !.todo = @ \ {s}]
  BY DEF ResendOne
<1> DEFINE e == s.email
           left == [apple EXCEPT !.invitations = @ \ (resend.invitations \cap {e})]
<1>2. e \in Emails
  BY <1>0 DEF Step
<1>3. left.invitations = apple.invitations \ (resend.invitations \cap {e}) /\ left.role = apple.role
      /\ left \in AppStoreConnect
  BY <1>0 DEF AppStoreConnect
<1>4. CASE resend' = [resend EXCEPT !.todo = @ \ {s}] /\ UNCHANGED <<apple, sent, mishaps, calm>>
  <2>1. resend'.config = resend.config /\ resend'.phase = resend.phase
    BY <1>0, <1>4 DEF Work
  <2> QED BY <1>2, <1>4, <2>1 DEF Refreshed
<1>5. CASE /\ e \notin Team /\ apple' = [left EXCEPT !.invitations = @ \cup {e}] /\ sent' = sent \cup {e}
           /\ resend' = [resend EXCEPT !.todo = @ \ {s}, !.config.invited = @ \cup {e}]
  <2>1. resend'.config.invited = resend.config.invited \cup {e} /\ resend'.phase = resend.phase
    BY <1>0, <1>5 DEF Work, Kept
  <2> HIDE DEF left
  <2>2. apple'.invitations = left.invitations \cup {e} /\ apple'.role = left.role
    BY <1>3, <1>5 DEF AppStoreConnect
  <2>3. apple'.invitations = apple.invitations \cup {e}
    BY <1>3, <2>2
  <2> QED BY <1>2, <1>3, <1>5, <2>1, <2>2, <2>3 DEF Refreshed
<1>6. CASE /\ e \notin Team /\ apple' = left /\ sent' = sent \ (resend.invitations \cap {e})
           /\ resend' = [resend EXCEPT !.todo = @ \ {s}]
  <2>1. resend'.config = resend.config /\ resend'.phase = resend.phase
    BY <1>0, <1>6 DEF Work
  <2> HIDE DEF left
  <2>2. CASE e \in resend.invitations
    <3>1. resend.invitations \cap {e} = {e}
      BY <2>2
    <3> QED BY <1>2, <1>3, <1>6, <2>1, <3>1 DEF Refreshed
  <2>3. CASE e \notin resend.invitations
    <3>1. resend.invitations \cap {e} = {}
      BY <2>3
    <3> QED BY <1>2, <1>3, <1>6, <2>1, <3>1 DEF Refreshed
  <2> QED BY <2>2, <2>3
<1> QED BY <1>1, <1>4, <1>5, <1>6

LEMMA AppleOfResend ==
  ASSUME TypeOK, AppleInv, ResendOne
  PROVE  AppleInv'
<1>1. PICK e \in Emails : Refreshed(e)
  BY ResendOneDoes
<1>2. apple'.role = apple.role
  BY ResendOneDoes
<1>3. apple.invitations \subseteq Emails
  BY DEF TypeOK, AppStoreConnect
<1>4. Team' = Team
  BY <1>2 DEF Team
<1> QED BY <1>1, <1>2, <1>3, <1>4 DEF AppleInv, Refreshed, Team

LEMMA AppleStep == TypeOK /\ AppleInv /\ [Next]_vars => AppleInv'
<1> SUFFICES ASSUME TypeOK, AppleInv, [Next]_vars PROVE AppleInv'
  OBVIOUS
<1>0. apple \in AppStoreConnect /\ sync.todo \subseteq Step
  BY DEF TypeOK, Work
<1>1. CASE UNCHANGED <<apple, sent>>
  BY <1>1 DEF AppleInv, Team
<1>2. CASE \E e \in Emails : Accept(e) \/ Promoted(e)
  BY <1>0, <1>2, AppleElsewhere
<1>3. CASE DoStep
  BY <1>0, <1>3, AppleOfCall DEF DoStep
<1>4. CASE StepFails
  BY <1>0, <1>1, <1>4, AppleOfCall DEF StepFails
<1>5. CASE ResendOne
  BY <1>5, AppleOfResend
<1>6. CASE \/ \E p \in People, a \in Apps : requestTestflight(p, a) \/ \E yes \in BOOLEAN : decideTestflight(p, a, yes)
           \/ \E p \in People : setAppleEmail(p) \/ AccountChanges(p)
           \/ \E k \in Keys : saveTestflightKey(k)
           \/ forgetTestflightKey \/ syncTestflightIfDue
  BY <1>1, <1>6 DEF requestTestflight, decideTestflight, setAppleEmail, AccountChanges, saveTestflightKey,
                    forgetTestflightKey, syncTestflightIfDue, Configured, shared
<1>7. CASE Begin \/ ListTeam \/ ListInvitations \/ Plan \/ StepRefused \/ PlanAlso \/ End \/ ListFails
           \/ Resend \/ ResendEnds \/ Stops
  BY <1>1, <1>7 DEF Begin, ListTeam, ListInvitations, Plan, StepRefused, PlanAlso, End, ListFails, Ends,
                    Resend, ResendEnds, Stops, shared, notes
<1>8. CASE UNCHANGED vars
  BY <1>1, <1>8 DEF vars, shared, notes
<1> QED BY <1>2, <1>3, <1>4, <1>5, <1>6, <1>7, <1>8 DEF Next, Doing, Sync

-----------------------------------------------------------------------------
(***************************************************************************)
(* Whom the Portal invited is remembered: in the file, in the copy a sync  *)
(* works on and will write, or among those that fresh invites sent while   *)
(* it went on, which its write drops.                                      *)
(***************************************************************************)

Resting ==
  /\ sync.phase = "none" => sync = Idle
  /\ resend.phase = "none" => resend = Idle
  /\ sync.phase \in {"none", "listing"} => sync.todo = {}
  /\ "invitations" \notin sync.got => sync.invitations = {}

\* Known elsewhere than in the sync's copy of the file.
Aside == sync.late \cup resend.config.invited \cup lost

InFile == sync.phase = "none" => sent \subseteq config.invited \cup resend.config.invited \cup lost
InCopy == sync.phase # "none" => sent \subseteq sync.config.invited \cup Aside
LateInFile == sync.phase # "none" => sync.late \subseteq config.invited \cup lost

\* Whoever got onto a list of Apple's since a sync read it is known aside from it, or on its other list.
ListsAreKnown ==
  sync.phase = "listing" =>
    /\ "invitations" \in sync.got => apple.invitations \subseteq sync.invitations \cup Aside
    /\ "team" \in sync.got => Team \subseteq sync.team \cup sync.invitations \cup Aside

\* A sync forgets no one who is still where the Portal's invite brought them, but for those known aside,
\* and invites no one it forgets.
ForgetsTheGone ==
  \A s \in sync.todo : s.kind = "forget" =>
    /\ s.email \in sent => s.email \in Aside
    /\ \A t \in sync.todo : t.kind = "invite" => t.email # s.email

MemoryInv == Resting /\ InFile /\ InCopy /\ LateInFile /\ ListsAreKnown /\ ForgetsTheGone

-----------------------------------------------------------------------------
(***************************************************************************)
(* A sync plans by the roles it listed: whoever has another since is known *)
(* to be lost.                                                             *)
(***************************************************************************)

ListedRoles ==
  sync.phase = "listing" /\ "team" \in sync.got =>
    /\ sync.team \subseteq Team
    /\ \A e \in sync.team : apple.role[e] = "support" => e \in sync.support
    /\ \A e \in sync.support : apple.role[e] # "other" \/ e \in lost

TeamListed == sync.phase \in {"steps", "also"} => "team" \in sync.got

RolesInv == ListedRoles /\ TeamListed

LEMMA RolesInit == Init => RolesInv
BY DEF Init, Idle, RolesInv, ListedRoles, TeamListed

\* A step that changes neither roles nor what a sync listed.
LEMMA RolesOfQuiet ==
  ASSUME RolesInv, apple'.role = apple.role, lost \subseteq lost',
         sync'.phase = sync.phase, sync'.got = sync.got, sync'.team = sync.team, sync'.support = sync.support
  PROVE  RolesInv'
BY DEF RolesInv, ListedRoles, TeamListed, Team

LEMMA RolesOfApple ==
  ASSUME TypeOK, AppleInv, RolesInv, NEW e \in Emails, Accept(e) \/ Promoted(e)
  PROVE  RolesInv'
<1>0. /\ apple.role \in [Emails -> {"none", "support", "other"}] /\ UNCHANGED sync /\ lost \subseteq lost'
      /\ sync.team \subseteq Emails /\ sync.support \subseteq Emails
  BY DEF TypeOK, AppStoreConnect, Work, Accept, Promoted, AppleChanges, Elsewhere
<1>1. TeamListed'
  BY <1>0 DEF RolesInv, TeamListed
<1>2. CASE ~(sync.phase = "listing" /\ "team" \in sync.got)
  BY <1>0, <1>1, <1>2 DEF RolesInv, ListedRoles
<1>3. CASE sync.phase = "listing" /\ "team" \in sync.got /\ Accept(e)
  <2>1. apple'.role = [apple.role EXCEPT ![e] = "support"] /\ e \notin Team
    BY <1>3 DEF Accept, AppleInv, TypeOK, AppStoreConnect
  <2>2. \A f \in Emails : apple'.role[f] = IF f = e THEN "support" ELSE apple.role[f]
    BY <1>0, <2>1
  <2>3. e \notin sync.team
    BY <1>3, <2>1 DEF RolesInv, ListedRoles
  <2> QED BY <1>0, <1>1, <1>3, <2>2, <2>3 DEF RolesInv, ListedRoles, Team
<1>4. CASE sync.phase = "listing" /\ "team" \in sync.got /\ Promoted(e)
  <2>1. apple'.role = [apple.role EXCEPT ![e] = "other"] /\ e \in lost'
    BY <1>4 DEF Promoted, TypeOK, AppStoreConnect
  <2>2. \A f \in Emails : apple'.role[f] = IF f = e THEN "other" ELSE apple.role[f]
    BY <1>0, <2>1
  <2> QED BY <1>0, <1>1, <1>4, <2>1, <2>2 DEF RolesInv, ListedRoles, Team
<1> QED BY <1>2, <1>3, <1>4

LEMMA RolesOfSync ==
  ASSUME TypeOK, AppleInv, MemoryInv, RolesInv, Sync \/ StepFails \/ ListFails \/ Stops
  PROVE  RolesInv'
<1>0. sync \in Work /\ lost \subseteq lost'
  BY DEF TypeOK, Sync, Begin, ListTeam, ListInvitations, Plan, DoStep, StepRefused, StepFails, PlanAlso, End, ListFails,
         Ends, Stops, notes
<1>1. CASE Begin
  <2>1. UNCHANGED <<apple, lost>> /\ (sync' = sync \/ sync' = [Idle EXCEPT !.phase = "listing", !.config = config])
    BY <1>1 DEF Begin, shared
  <2>2. CASE sync' = sync
    BY <2>1, <2>2, RolesOfQuiet
  <2>3. CASE sync' = [Idle EXCEPT !.phase = "listing", !.config = config]
    BY <2>3 DEF Idle, RolesInv, ListedRoles, TeamListed
  <2> QED BY <2>1, <2>2, <2>3
<1>2. CASE ListTeam
  <2>1. /\ sync'.phase = "listing" /\ sync'.team = Team /\ sync'.support = {e \in Team : apple.role[e] = "support"}
        /\ apple' = apple
    BY <1>0, <1>2 DEF ListTeam, shared, Work
  <2> QED BY <2>1 DEF RolesInv, ListedRoles, TeamListed, Team
<1>3. CASE ListInvitations
  <2>1. /\ sync'.phase = sync.phase /\ sync'.team = sync.team /\ sync'.support = sync.support
        /\ apple' = apple /\ lost' = lost /\ sync.phase = "listing" /\ ("team" \in sync'.got <=> "team" \in sync.got)
    BY <1>0, <1>3 DEF ListInvitations, shared, notes, Work
  <2> QED BY <2>1 DEF RolesInv, ListedRoles, TeamListed, Team
<1>4. CASE Plan
  <2>1. PICK unsure \in SUBSET People :
          LET read == [sync EXCEPT !.phase = "steps", !.ended = (People \ active) \ unsure]
          IN sync' = [read EXCEPT !.todo = planSync(read)]
    BY <1>4 DEF Plan
  <2>2. PICK ended, todo : sync' = [sync EXCEPT !.phase = "steps", !.ended = ended, !.todo = todo]
    BY <2>1
  <2>3. sync'.phase = "steps" /\ sync'.got = sync.got
    BY <1>0, <2>2 DEF Work
  <2>4. "team" \in sync.got
    BY <1>4 DEF Plan
  <2> QED BY <2>3, <2>4 DEF RolesInv, ListedRoles, TeamListed
<1>5. CASE PlanAlso
  <2>1. sync'.phase = "also" /\ sync'.got = sync.got /\ sync.phase = "steps"
    BY <1>0, <1>5 DEF PlanAlso, Work
  <2> QED BY <2>1 DEF RolesInv, ListedRoles, TeamListed
<1>6. CASE DoStep \/ StepRefused \/ StepFails
  <2>1. PICK todo, invited, removed :
          \/ sync' = [sync EXCEPT !.todo = todo]
          \/ sync' = [sync EXCEPT !.todo = todo, !.config.invited = invited, !.removed = removed]
    BY <1>6 DEF DoStep, StepRefused, StepFails
  <2>2. sync'.phase = sync.phase /\ sync'.got = sync.got
    BY <1>0, <2>1 DEF Work
  <2>3. sync.phase # "listing"
    BY <1>6 DEF DoStep, StepRefused, StepFails, MemoryInv, Resting
  <2> QED BY <2>2, <2>3 DEF RolesInv, ListedRoles, TeamListed
<1>7. CASE End \/ ListFails \/ Stops
  <2>1. sync' = Idle
    BY <1>7 DEF End, ListFails, Ends, Stops
  <2> QED BY <2>1 DEF Idle, RolesInv, ListedRoles, TeamListed
<1> QED BY <1>1, <1>2, <1>3, <1>4, <1>5, <1>6, <1>7 DEF Sync

LEMMA RolesStep == TypeOK /\ AppleInv /\ MemoryInv /\ RolesInv /\ [Next]_vars => RolesInv'
<1> SUFFICES ASSUME TypeOK, AppleInv, MemoryInv, RolesInv, [Next]_vars PROVE RolesInv'
  OBVIOUS
<1>1. CASE UNCHANGED vars
  BY <1>1, RolesOfQuiet DEF vars, shared, notes
<1>2. CASE \/ \E p \in People, a \in Apps : requestTestflight(p, a) \/ \E yes \in BOOLEAN : decideTestflight(p, a, yes)
           \/ \E p \in People : setAppleEmail(p) \/ AccountChanges(p)
           \/ \E k \in Keys : saveTestflightKey(k)
           \/ forgetTestflightKey \/ syncTestflightIfDue
  <2>1. UNCHANGED <<sync, apple, lost>>
    BY <1>2 DEF requestTestflight, decideTestflight, setAppleEmail, saveTestflightKey, forgetTestflightKey, Configured,
                AccountChanges, Elsewhere, syncTestflightIfDue, shared
  <2> QED BY <2>1, RolesOfQuiet
<1>3. CASE Resend \/ ResendOne \/ ResendEnds
  <2>1. lost \subseteq lost'
    BY <1>3 DEF Resend, ResendOne, ResendEnds
  <2>2. apple'.role = apple.role
    BY <1>3, ResendOneDoes DEF Resend, ResendEnds, shared
  <2>3. sync' = sync \/ sync' = [sync EXCEPT !.late = @ \cup resend.config.invited]
    BY <1>3 DEF Resend, ResendOne, ResendEnds
  <2>4. sync'.phase = sync.phase /\ sync'.got = sync.got /\ sync'.team = sync.team /\ sync'.support = sync.support
    BY <2>3 DEF TypeOK, Work
  <2> QED BY <2>1, <2>2, <2>4, RolesOfQuiet
<1> QED BY <1>1, <1>2, <1>3, RolesOfApple, RolesOfSync DEF Next, Doing

-----------------------------------------------------------------------------
(***************************************************************************)
(* Whom the Portal invited, step by step.                                  *)
(***************************************************************************)

\* A step that is neither a sync's nor one that invites.
LEMMA MemoryOfQuiet ==
  ASSUME MemoryInv, UNCHANGED <<sync, resend>>, sent' \subseteq sent, lost \subseteq lost',
         config'.invited = config.invited, apple'.invitations = apple.invitations, Team' = Team
  PROVE  MemoryInv'
BY DEF MemoryInv, Resting, InFile, InCopy, LateInFile, ListsAreKnown, ForgetsTheGone, Aside

LEMMA MemoryOfFile ==
  ASSUME TypeOK, MemoryInv,
         \/ \E p \in People, a \in Apps : requestTestflight(p, a) \/ \E yes \in BOOLEAN : decideTestflight(p, a, yes)
         \/ \E p \in People : setAppleEmail(p) \/ AccountChanges(p)
         \/ \E k \in Keys : saveTestflightKey(k)
         \/ forgetTestflightKey \/ syncTestflightIfDue
  PROVE  MemoryInv'
<1>1. UNCHANGED <<sync, resend, sent, lost, apple>>
  BY DEF requestTestflight, decideTestflight, setAppleEmail, saveTestflightKey, forgetTestflightKey, Configured,
         AccountChanges, Elsewhere, syncTestflightIfDue, shared
<1>2. config'.invited = config.invited
  <2>1. config \in Kept
    BY DEF TypeOK
  <2>2. \/ \E p \in People, a \in Apps, x \in {"pending", "approved", "declined"} : config' = [config EXCEPT !.requests[p][a] = x]
        \/ \E x \in SUBSET People : config' = [config EXCEPT !.appleEmails = x]
        \/ \E x : config' = [config EXCEPT !.key = x]
        \/ config' = config \/ config' = [Nothing EXCEPT !.invited = config.invited]
    <3>1. config.appleEmails \subseteq People
      BY <2>1 DEF Kept
    <3>2. CASE \E p \in People, a \in Apps : requestTestflight(p, a) \/ \E yes \in BOOLEAN : decideTestflight(p, a, yes)
      BY <3>2 DEF requestTestflight, decideTestflight, Configured
    <3>3. CASE \E p \in People : setAppleEmail(p)
      BY <3>1, <3>3 DEF setAppleEmail, Configured
    <3>4. CASE \E k \in Keys : saveTestflightKey(k)
      BY <3>4 DEF saveTestflightKey, Configured
    <3>5. CASE forgetTestflightKey
      BY <3>5 DEF forgetTestflightKey, Configured
    <3>6. CASE (\E p \in People : AccountChanges(p)) \/ syncTestflightIfDue
      BY <3>6 DEF AccountChanges, syncTestflightIfDue, shared
    <3> QED BY <3>2, <3>3, <3>4, <3>5, <3>6
  <2>3. config.invited \in SUBSET Emails
    BY <2>1 DEF Kept
  <2> QED BY <2>1, <2>2, <2>3, KeptUpdates, NothingKept DEF Kept
<1> QED BY <1>1, <1>2, MemoryOfQuiet DEF Team

LEMMA MemoryOfApple ==
  ASSUME TypeOK, AppleInv, MemoryInv, NEW e \in Emails, Accept(e) \/ Promoted(e)
  PROVE  MemoryInv'
<1>0. apple.role \in [Emails -> {"none", "support", "other"}]
  BY DEF TypeOK, AppStoreConnect
<1>1. UNCHANGED <<sync, resend, config>> /\ lost \subseteq lost'
  BY DEF Accept, Promoted, AppleChanges, Elsewhere
<1>2. CASE Accept(e)
  <2>1. /\ apple'.invitations = apple.invitations \ {e} /\ apple'.role = [apple.role EXCEPT ![e] = "support"]
        /\ e \in apple.invitations /\ sent' = sent /\ (sync.got = {"team"} => e \in lost')
    BY <1>2 DEF Accept, TypeOK, AppStoreConnect
  <2>2. Team' = Team \cup {e}
    <3>1. \A f \in Emails : apple'.role[f] = IF f = e THEN "support" ELSE apple.role[f]
      BY <1>0, <2>1
    <3> QED BY <3>1 DEF Team
  <2>3. Aside \subseteq Aside'
    BY <1>1 DEF Aside
  <2>4. ListsAreKnown'
    <3>1. SUFFICES ASSUME sync.phase = "listing" PROVE ListsAreKnown'
      BY <1>1 DEF ListsAreKnown
    <3>2. sync.got \in SUBSET {"team", "invitations"}
      BY DEF TypeOK, Work
    <3>3. CASE "invitations" \in sync.got
      <4>1. e \in sync.invitations \cup Aside
        BY <2>1, <3>1, <3>3 DEF MemoryInv, ListsAreKnown
      <4> QED BY <1>1, <2>1, <2>2, <2>3, <3>1, <4>1 DEF MemoryInv, ListsAreKnown
    <3>4. CASE "invitations" \notin sync.got /\ "team" \in sync.got
      <4>1. sync.got = {"team"}
        BY <3>2, <3>4
      <4>2. e \in Aside'
        BY <2>1, <4>1 DEF Aside
      <4> QED BY <1>1, <2>1, <2>2, <2>3, <3>1, <3>4, <4>2 DEF MemoryInv, ListsAreKnown
    <3>5. CASE "invitations" \notin sync.got /\ "team" \notin sync.got
      BY <1>1, <3>5 DEF ListsAreKnown
    <3> QED BY <3>3, <3>4, <3>5
  <2>5. Resting' /\ InFile' /\ InCopy' /\ LateInFile' /\ ForgetsTheGone'
    BY <1>1, <2>1, <2>3 DEF MemoryInv, Resting, InFile, InCopy, LateInFile, ForgetsTheGone
  <2> QED BY <2>4, <2>5 DEF MemoryInv
<1>3. CASE Promoted(e)
  <2>1. /\ apple'.invitations = apple.invitations /\ apple'.role = [apple.role EXCEPT ![e] = "other"]
        /\ apple.role[e] = "support" /\ sent' = sent \ {e}
    BY <1>3 DEF Promoted, TypeOK, AppStoreConnect
  <2>2. \A f \in Emails : apple'.role[f] = IF f = e THEN "other" ELSE apple.role[f]
    BY <1>0, <2>1
  <2>3. Team' = Team
    BY <2>1, <2>2 DEF Team
  <2> QED BY <1>1, <2>1, <2>3, MemoryOfQuiet
<1> QED BY <1>2, <1>3

LEMMA MemoryOfLists ==
  ASSUME TypeOK, AppleInv, MemoryInv, Begin \/ ListTeam \/ ListInvitations
  PROVE  MemoryInv'
<1>0. sync \in Work /\ config \in Kept
  BY DEF TypeOK
<1>1. UNCHANGED <<apple, config, resend, sent, lost>> /\ Team' = Team
  BY DEF Begin, ListTeam, ListInvitations, shared, notes, Team
<1>2. CASE Begin /\ config.key = NoKey
  <2>1. sync' = sync
    BY <1>2 DEF Begin
  <2> QED BY <1>1, <2>1, MemoryOfQuiet
<1>3. CASE Begin /\ config.key # NoKey
  <2>1. sync.phase = "none" /\ sync' = [Idle EXCEPT !.phase = "listing", !.config = config]
    BY <1>3 DEF Begin
  <2>2. /\ sync'.phase = "listing" /\ sync'.config = config /\ sync'.got = {} /\ sync'.todo = {}
        /\ sync'.late = {} /\ sync'.invitations = {}
    BY <2>1, NothingKept DEF Work, Idle
  <2>3. sent \subseteq config.invited \cup resend.config.invited \cup lost
    BY <2>1 DEF MemoryInv, InFile
  <2> QED BY <1>1, <2>2, <2>3 DEF MemoryInv, Resting, InFile, InCopy, LateInFile, ListsAreKnown, ForgetsTheGone, Aside
<1>4. CASE ListTeam
  <2>1. /\ sync.phase = "listing" /\ sync'.phase = "listing" /\ sync'.config = sync.config /\ sync'.todo = sync.todo
        /\ sync'.got = sync.got \cup {"team"} /\ sync'.team = Team
        /\ sync'.late = sync.late /\ sync'.invitations = sync.invitations
    BY <1>0, <1>4 DEF ListTeam, Work
  <2>2. Aside' = Aside
    BY <1>1, <2>1 DEF Aside
  <2> QED BY <1>1, <2>1, <2>2 DEF MemoryInv, Resting, InFile, InCopy, LateInFile, ListsAreKnown, ForgetsTheGone
<1>5. CASE ListInvitations
  <2>1. /\ sync.phase = "listing" /\ sync'.phase = "listing" /\ sync'.config = sync.config /\ sync'.todo = sync.todo
        /\ sync'.got = sync.got \cup {"invitations"} /\ sync'.team = sync.team
        /\ sync'.late = sync.late /\ sync'.invitations = apple.invitations
    BY <1>0, <1>5 DEF ListInvitations, Work
  <2>2. Aside' = Aside
    BY <1>1, <2>1 DEF Aside
  <2>3. ListsAreKnown'
    <3>1. "team" \in sync.got => Team \subseteq sync.team \cup apple.invitations \cup Aside
      <4>1. CASE "invitations" \in sync.got
        BY <1>5, <4>1 DEF ListInvitations
      <4>2. CASE "invitations" \notin sync.got
        BY <2>1, <4>2 DEF MemoryInv, Resting, ListsAreKnown
      <4> QED BY <4>1, <4>2
    <3> QED BY <1>1, <2>1, <2>2, <3>1 DEF ListsAreKnown
  <2> QED BY <1>1, <2>1, <2>2, <2>3 DEF MemoryInv, Resting, InFile, InCopy, LateInFile, ForgetsTheGone
<1> QED BY <1>2, <1>3, <1>4, <1>5

\* What a plan forgets is neither among the invitations it knows of nor listed with the role the Portal
\* gives; and it forgets no one it invites.
LEMMA PlanForgets ==
  ASSUME NEW w, NEW s \in planSync(w), s.kind = "forget"
  PROVE  /\ s.email \notin w.invitations
         /\ s.email \notin w.support
         /\ \A t \in planSync(w) : t.kind = "invite" => t.email # s.email
<1> DEFINE wanted == {EmailOf(w.config, p) : p \in {q \in People \ w.ended : Asks(w.config, q)}}
<1>1. \A t \in planSync(w) : t.kind = "invite" => t.email \in wanted
  BY DEF planSync, S
<1>2. /\ s.email \notin wanted /\ s.email \notin w.invitations
      /\ s.email \notin w.support
  BY DEF planSync, S
<1> QED BY <1>1, <1>2

LEMMA MemoryOfPlan ==
  ASSUME TypeOK, AppleInv, MemoryInv, RolesInv, Plan \/ PlanAlso
  PROVE  MemoryInv'
<1>0. sync \in Work
  BY DEF TypeOK
<1>1. UNCHANGED <<apple, config, resend, sent, lost>> /\ Team' = Team
  BY DEF Plan, PlanAlso, shared, notes, Team
<1>2. CASE Plan
  <2>1. PICK unsure \in SUBSET People :
          LET read == [sync EXCEPT !.phase = "steps", !.ended = (People \ active) \ unsure]
          IN sync' = [read EXCEPT !.todo = planSync(read)]
    BY <1>2 DEF Plan
  <2> DEFINE read == [sync EXCEPT !.phase = "steps", !.ended = (People \ active) \ unsure]
             todo == planSync(read)
  <2>2. /\ read \in Work /\ read.phase = "steps" /\ read.config = sync.config /\ read.late = sync.late /\ read.got = sync.got
        /\ read.support = sync.support /\ read.invitations = sync.invitations
    BY <1>0 DEF Work
  <2>3. sync' = [read EXCEPT !.todo = todo]
    BY <2>1
  <2>4. \A s \in todo : s.kind = "forget" =>
          /\ s.email \notin sync.invitations
          /\ s.email \notin sync.support
          /\ \A t \in todo : t.kind = "invite" => t.email # s.email
    BY <2>2, PlanForgets
  <2> HIDE DEF read, todo
  <2>5. /\ sync'.phase = "steps" /\ sync'.config = sync.config /\ sync'.late = sync.late /\ sync'.todo = todo
        /\ sync'.got = sync.got /\ sync'.invitations = sync.invitations
    BY <2>2, <2>3 DEF Work
  <2>6. Aside' = Aside
    BY <1>1, <2>5 DEF Aside
  <2>7. sync.phase = "listing" /\ sync.got = {"team", "invitations"}
    BY <1>2 DEF Plan
  <2>8. ForgetsTheGone'
    <3>1. SUFFICES ASSUME NEW s \in todo, s.kind = "forget", s.email \in sent PROVE s.email \in Aside
      BY <1>1, <2>4, <2>5, <2>6 DEF ForgetsTheGone
    <3>2. apple.invitations \subseteq sync.invitations \cup Aside /\ Team \subseteq sync.team \cup sync.invitations \cup Aside
      BY <2>7 DEF MemoryInv, ListsAreKnown
    <3>3. CASE s.email \in apple.invitations
      BY <2>4, <3>1, <3>2, <3>3
    <3>4. CASE s.email \in Emails /\ apple.role[s.email] = "support"
      <4>1. s.email \in Team
        BY <3>4 DEF Team
      <4>2. s.email \in sync.team => s.email \in sync.support
        BY <2>7, <3>4 DEF RolesInv, ListedRoles
      <4> QED BY <2>4, <3>1, <3>2, <4>1, <4>2
    <3> QED BY <3>1, <3>3, <3>4 DEF AppleInv
  <2>9. Resting' /\ InFile' /\ InCopy' /\ LateInFile' /\ ListsAreKnown'
    BY <1>1, <2>5, <2>6, <2>7 DEF MemoryInv, Resting, InFile, InCopy, LateInFile, ListsAreKnown
  <2> QED BY <2>8, <2>9 DEF MemoryInv
<1>3. CASE PlanAlso
  <2> DEFINE todo == planAlso(sync)
  <2>1. \A s \in todo : s.kind = "add"
    BY DEF planAlso, S
  <2>2. sync.phase = "steps" /\ sync' = [sync EXCEPT !.phase = "also", !.todo = todo]
    BY <1>3 DEF PlanAlso
  <2> HIDE DEF todo
  <2>3. /\ sync'.phase = "also" /\ sync'.config = sync.config /\ sync'.late = sync.late /\ sync'.todo = todo
        /\ sync'.got = sync.got /\ sync'.invitations = sync.invitations
    BY <1>0, <2>2 DEF Work
  <2>4. Aside' = Aside
    BY <1>1, <2>3 DEF Aside
  <2>5. ForgetsTheGone'
    BY <2>1, <2>3 DEF ForgetsTheGone
  <2> QED BY <1>1, <2>2, <2>3, <2>4, <2>5 DEF MemoryInv, Resting, InFile, InCopy, LateInFile, ListsAreKnown
<1> QED BY <1>2, <1>3

\* A step of a sync that is done, and noted in its copy.
LEMMA MemoryOfDone ==
  ASSUME TypeOK, MemoryInv, DoStep
  PROVE  MemoryInv'
<1>0. sync \in Work /\ apple \in AppStoreConnect /\ sync.config.invited \subseteq Emails /\ sync.todo \subseteq Step
  BY DEF TypeOK, Work, Kept
<1>1. PICK s \in sync.todo :
        /\ Call(s) /\ sent' = SentBy(s)
        /\ sync' = [sync EXCEPT !.todo = @ \ {s}, !.config.invited = Noted(s),
                      !.removed = IF s.kind \in {"removeInvitation", "removeUser"} THEN @ \cup {s.email} ELSE @]
  BY DEF DoStep
<1> DEFINE noted == Noted(s)
<1>2. /\ sync'.phase = sync.phase /\ sync'.config.invited = noted /\ sync'.late = sync.late
      /\ sync'.todo = sync.todo \ {s} /\ sync'.got = sync.got /\ sync'.invitations = sync.invitations
  BY <1>0, <1>1 DEF Work, Kept
<1>3. UNCHANGED <<config, resend, lost>>
  BY DEF DoStep
<1>4. sync.phase \notin {"none", "listing"}
  BY DEF MemoryInv, Resting, DoStep
<1>5. Aside' = Aside
  BY <1>2, <1>3 DEF Aside
<1>6. s.kind \in Kinds /\ sent \subseteq sync.config.invited \cup Aside
  BY <1>0, <1>4 DEF Step, MemoryInv, InCopy
<1>7. s.kind = "forget" => s.email \notin sent \/ s.email \in Aside
  BY DEF MemoryInv, ForgetsTheGone
<1>8. /\ s.kind = "invite" => sent' = sent \cup {s.email} /\ noted = sync.config.invited \cup {s.email}
      /\ s.kind = "add" => sent' = sent /\ noted = sync.config.invited
      /\ s.kind \in {"removeInvitation", "removeUser"} => sent' = sent \ {s.email} /\ noted = sync.config.invited \ {s.email}
      /\ s.kind = "forget" => sent' = sent /\ noted = sync.config.invited \ {s.email}
  BY <1>1 DEF SentBy, Noted
<1>9. InCopy'
  BY <1>2, <1>5, <1>6, <1>7, <1>8 DEF InCopy, Kinds
<1>10. ForgetsTheGone'
  <2>1. SUFFICES ASSUME NEW t \in sync.todo, t.kind = "forget", t.email \in sent' PROVE t.email \in Aside
    BY <1>2, <1>5 DEF MemoryInv, ForgetsTheGone
  <2>2. s.kind = "invite" => s.email # t.email
    BY <2>1 DEF MemoryInv, ForgetsTheGone
  <2>3. t.email \in sent
    BY <1>6, <1>8, <2>1, <2>2 DEF Kinds
  <2> QED BY <2>1, <2>3 DEF MemoryInv, ForgetsTheGone
<1>11. Resting' /\ InFile' /\ LateInFile' /\ ListsAreKnown'
  BY <1>2, <1>3, <1>4, <1>5 DEF MemoryInv, Resting, InFile, LateInFile, ListsAreKnown
<1> QED BY <1>9, <1>10, <1>11 DEF MemoryInv

\* A step that is refused, or whose call fails; done all the same, who it invited counts as lost.
LEMMA MemoryOfFailed ==
  ASSUME TypeOK, MemoryInv, StepRefused \/ StepFails
  PROVE  MemoryInv'
<1>0. sync \in Work /\ sync.todo \subseteq Step
  BY DEF TypeOK, Work
<1>1. PICK s \in sync.todo :
        /\ sync' = [sync EXCEPT !.todo = @ \ {s}]
        /\ lost \subseteq lost' /\ sent' \subseteq sent \cup lost'
  <2>1. CASE StepRefused
    BY <2>1 DEF StepRefused
  <2>2. CASE StepFails
    BY <2>2 DEF StepFails
  <2> QED BY <2>1, <2>2
<1>2. /\ sync'.phase = sync.phase /\ sync'.config = sync.config /\ sync'.late = sync.late
      /\ sync'.todo = sync.todo \ {s} /\ sync'.got = sync.got /\ sync'.invitations = sync.invitations
  BY <1>0, <1>1 DEF Work
<1>3. UNCHANGED <<config, resend>>
  BY DEF StepRefused, StepFails, shared
<1>4. sync.phase \notin {"none", "listing"}
  BY <1>1 DEF MemoryInv, Resting
<1>5. Aside \subseteq Aside' /\ lost' \subseteq Aside'
  BY <1>1, <1>2, <1>3 DEF Aside
<1>6. InCopy' /\ ForgetsTheGone'
  BY <1>1, <1>2, <1>4, <1>5 DEF MemoryInv, InCopy, ForgetsTheGone
<1>7. Resting' /\ InFile' /\ LateInFile' /\ ListsAreKnown'
  BY <1>1, <1>2, <1>3, <1>4 DEF MemoryInv, Resting, InFile, LateInFile, ListsAreKnown
<1> QED BY <1>6, <1>7 DEF MemoryInv

\* A sync's write leaves in the file whom it invited, and out of it whom others noted meanwhile.
LEMMA MemoryOfEnd ==
  ASSUME TypeOK, MemoryInv, End \/ ListFails \/ Stops
  PROVE  MemoryInv'
<1>0. config \in Kept /\ sync.config.invited \in SUBSET Emails
  BY DEF TypeOK, Work, Kept
<1>1. sync' = Idle /\ Idle.phase = "none" /\ Idle.todo = {} /\ Idle.invitations = {} /\ Idle.config.invited = {}
  BY NothingKept DEF End, ListFails, Ends, Stops, Idle
<1>2. Resting' /\ InCopy' /\ LateInFile' /\ ListsAreKnown' /\ ForgetsTheGone'
  <2>1. (resend.phase = "none" => resend = Idle)'
    BY DEF MemoryInv, Resting, End, ListFails, Ends, Stops
  <2> QED BY <1>1, <2>1 DEF Resting, InCopy, LateInFile, ListsAreKnown, ForgetsTheGone
<1>3. InFile'
  <2>1. CASE Stops
    <3>1. sent' = sent /\ config' = config /\ resend' = Idle
          /\ lost' = lost \cup ((sync.config.invited \cup resend.config.invited) \ config.invited)
      BY <2>1 DEF Stops, shared
    <3>2. sent \subseteq config.invited \cup sync.config.invited \cup resend.config.invited \cup lost
      BY DEF MemoryInv, InFile, InCopy, LateInFile, Aside
    <3> QED BY <1>1, <3>1, <3>2 DEF InFile
  <2>2. CASE Ends(Written) /\ sync.phase # "none"
    <3>1. UNCHANGED <<sent, resend>> /\ lost' = lost \cup Unrecorded
      BY <2>2 DEF Ends
    <3>2. sent \subseteq sync.config.invited \cup sync.late \cup resend.config.invited \cup lost
      BY <2>2 DEF MemoryInv, InCopy, Aside
    <3>3. CASE config.key = sync.config.key
      <4>1. config'.invited = sync.config.invited
        BY <1>0, <2>2, <3>3, KeptUpdates DEF Ends, Written
      <4>2. lost' = lost \cup (sync.late \ sync.config.invited)
        BY <3>1, <3>3 DEF Unrecorded
      <4> QED BY <3>1, <3>2, <4>1, <4>2 DEF InFile
    <3>4. CASE config.key # sync.config.key
      <4>1. config' = config
        BY <2>2, <3>4 DEF Ends
      <4>2. lost' = lost \cup (sync.config.invited \ config.invited)
        BY <3>1, <3>4 DEF Unrecorded
      <4>3. sync.late \subseteq config.invited \cup lost
        BY <2>2 DEF MemoryInv, LateInFile
      <4> QED BY <3>1, <3>2, <4>1, <4>2, <4>3 DEF InFile
    <3> QED BY <3>3, <3>4
  <2> QED BY <2>1, <2>2 DEF End, ListFails
<1> QED BY <1>2, <1>3 DEF MemoryInv

LEMMA MemoryOfResend ==
  ASSUME TypeOK, MemoryInv, Resend \/ ResendOne \/ ResendEnds
  PROVE  MemoryInv'
<1>0. sync \in Work /\ config \in Kept /\ config.invited \in SUBSET Emails /\ resend.config.invited \in SUBSET Emails
  BY DEF TypeOK, Work, Kept
<1>1. CASE Resend
  <2>1. PICK todo, team :
          resend' = [Idle EXCEPT !.phase = "steps", !.config = config, !.team = team, !.invitations = apple.invitations,
                       !.todo = todo]
    BY <1>1 DEF Resend
  <2>2. resend'.phase = "steps" /\ resend'.config = config
    BY <2>1 DEF Idle
  <2>3. resend.phase = "none" /\ UNCHANGED <<config, apple, sync, sent, lost>> /\ Team' = Team
    BY <1>1 DEF Resend, shared, Team
  <2>4. resend.config.invited = {}
    BY <2>3, NothingKept DEF MemoryInv, Resting, Idle
  <2>5. Aside \subseteq Aside'
    BY <2>3, <2>4 DEF Aside
  <2> QED BY <2>2, <2>3, <2>4, <2>5 DEF MemoryInv, Resting, InFile, InCopy, LateInFile, ListsAreKnown, ForgetsTheGone
<1>2. CASE ResendOne
  <2>1. PICK e \in Emails : Refreshed(e)
    BY <1>2, ResendOneDoes
  <2>2. UNCHANGED <<config, sync, lost>> /\ Team' = Team /\ resend'.phase = resend.phase /\ resend.todo # {}
    BY <1>2, ResendOneDoes DEF ResendOne, Team
  <2>3. Aside \subseteq Aside' /\ resend.config.invited \subseteq resend'.config.invited
    BY <2>1, <2>2 DEF Aside, Refreshed
  <2>4. sent' \subseteq sent \cup resend'.config.invited /\ apple'.invitations \subseteq apple.invitations \cup resend'.config.invited
        /\ resend'.config.invited \subseteq Aside'
    BY <2>1 DEF Refreshed, Aside
  <2>5. resend.phase # "none"
    BY <2>2 DEF MemoryInv, Resting, Idle
  <2> QED BY <2>2, <2>3, <2>4, <2>5 DEF MemoryInv, Resting, InFile, InCopy, LateInFile, ListsAreKnown, ForgetsTheGone
<1>3. CASE ResendEnds
  <2>1. resend' = Idle /\ Idle.phase = "none" /\ Idle.config.invited = {} /\ UNCHANGED <<apple, sent>> /\ Team' = Team
    BY <1>3, NothingKept DEF ResendEnds, Idle, Team
  <2>2. config.invited \subseteq config'.invited /\ lost \subseteq lost'
        /\ resend.config.invited \subseteq config'.invited \cup lost'
    <3>1. CASE config.key = resend.config.key
      <4>1. config' = [config EXCEPT !.invited = @ \cup resend.config.invited] /\ lost' = lost
        BY <1>3, <3>1 DEF ResendEnds
      <4>2. config'.invited = config.invited \cup resend.config.invited
        BY <1>0, <4>1 DEF Kept
      <4> QED BY <4>1, <4>2
    <3>2. CASE config.key # resend.config.key
      BY <1>3, <3>2 DEF ResendEnds
    <3> QED BY <3>1, <3>2
  <2>3. CASE sync.phase = "none"
    <3>1. sync' = sync
      BY <1>3, <2>3 DEF ResendEnds
    <3>2. sync = Idle /\ Idle.todo = {} /\ Idle.invitations = {}
      BY <2>3 DEF MemoryInv, Resting, Idle
    <3> QED BY <2>1, <2>2, <2>3, <3>1, <3>2
            DEF MemoryInv, Resting, InFile, InCopy, LateInFile, ListsAreKnown, ForgetsTheGone
  <2>4. CASE sync.phase # "none"
    <3>1. sync' = [sync EXCEPT !.late = @ \cup resend.config.invited]
      BY <1>3, <2>4 DEF ResendEnds
    <3>2. /\ sync'.phase = sync.phase /\ sync'.config = sync.config /\ sync'.late = sync.late \cup resend.config.invited
          /\ sync'.todo = sync.todo /\ sync'.got = sync.got /\ sync'.team = sync.team /\ sync'.invitations = sync.invitations
      BY <1>0, <3>1 DEF Work
    <3>3. Aside \subseteq Aside'
      BY <2>1, <2>2, <3>2 DEF Aside
    <3> QED BY <2>1, <2>2, <2>4, <3>2, <3>3
            DEF MemoryInv, Resting, InFile, InCopy, LateInFile, ListsAreKnown, ForgetsTheGone
  <2> QED BY <2>3, <2>4
<1> QED BY <1>1, <1>2, <1>3

LEMMA MemoryInit == Init => AppleInv /\ MemoryInv
<1> SUFFICES ASSUME Init PROVE AppleInv /\ MemoryInv
  OBVIOUS
<1>1. sync = Idle /\ resend = Idle /\ sent = {} /\ Idle.phase = "none" /\ Idle.todo = {} /\ Idle.invitations = {}
  BY DEF Init, Idle
<1>2. PICK old \in SUBSET (People \X {"kimono"}) :
        apple = [role |-> [e \in Emails |-> IF e \in old THEN "other" ELSE "none"],
                 invitations |-> {}, group |-> [a \in Apps |-> {}]]
  BY DEF Init
<1>3. apple.invitations = {} /\ \A e \in Emails : apple.role[e] # "support"
  BY <1>2
<1>4. AppleInv
  BY <1>1, <1>3 DEF AppleInv
<1>5. MemoryInv
  BY <1>1 DEF MemoryInv, Resting, InFile, InCopy, LateInFile, ListsAreKnown, ForgetsTheGone
<1> QED BY <1>4, <1>5

LEMMA MemoryStep == TypeOK /\ AppleInv /\ MemoryInv /\ RolesInv /\ [Next]_vars => MemoryInv'
<1> SUFFICES ASSUME TypeOK, AppleInv, MemoryInv, RolesInv, [Next]_vars PROVE MemoryInv'
  OBVIOUS
<1>1. CASE UNCHANGED vars
  BY <1>1, MemoryOfQuiet DEF vars, shared, notes, Team
<1> QED BY <1>1, MemoryOfFile, MemoryOfApple, MemoryOfLists, MemoryOfPlan, MemoryOfDone, MemoryOfFailed, MemoryOfEnd,
           MemoryOfResend DEF Next, Doing, Sync

\* testflight.ts, "remembers whom it invited, so it only ever takes those people off again": between
\* syncs whoever the Portal invited is in the file, but for those a stop, a lost answer, another key
\* or fresh invites during a sync took from it.
THEOREM InvitedAreRemembered == Spec => []Remembers
<1>1. AppleInv /\ MemoryInv => Remembers
  <2>1. Idle.config.invited = {}
    BY NothingKept DEF Idle
  <2> QED BY <2>1 DEF MemoryInv, Resting, InFile, Remembers
<1>2. Spec => [](AppleInv /\ MemoryInv /\ RolesInv)
  BY TypeInvariant, AppleStep, MemoryInit, MemoryStep, RolesInit, RolesStep, PTL DEF Spec
<1> QED BY <1>1, <1>2, PTL

-----------------------------------------------------------------------------
(***************************************************************************)
(* A sync takes off only whom the Portal invited.                          *)
(***************************************************************************)

TakingOff == {"removeInvitation", "removeUser"}

\* Whoever is entitled all the while is so by the sync's copy of the file too, and may sign in.
EntitledByCopy ==
  sync.phase # "none" => \A e \in entitled :
    /\ Owner(e) \in active /\ e = EmailOf(sync.config, Owner(e))
    /\ \E a \in Apps : Approved(sync.config, Owner(e), a)

\* Whom a sync is about to take off was not entitled all the while; and on the team, has the role the
\* Portal gave, unless an admin promoted them since.
TakesOursOff ==
  \A s \in sync.todo :
    /\ s.kind \in TakingOff => s.email \notin entitled
    /\ s.kind = "removeUser" => apple.role[s.email] # "other" \/ s.email \in lost

OursInv == EntitledByCopy /\ TakesOursOff

LEMMA OursOfFile ==
  ASSUME TypeOK, OursInv,
         \/ \E p \in People, a \in Apps : requestTestflight(p, a) \/ \E yes \in BOOLEAN : decideTestflight(p, a, yes)
         \/ \E p \in People : setAppleEmail(p) \/ AccountChanges(p)
         \/ \E k \in Keys : saveTestflightKey(k)
         \/ forgetTestflightKey \/ syncTestflightIfDue
  PROVE  OursInv'
<1>1. UNCHANGED <<sync, apple, lost>>
  BY DEF requestTestflight, decideTestflight, setAppleEmail, saveTestflightKey, forgetTestflightKey, Configured,
         AccountChanges, Elsewhere, syncTestflightIfDue, shared
<1>2. entitled' \subseteq entitled /\ (sync.phase # "none" => \A e \in entitled' : Owner(e) \in active')
  <2>1. CASE UNCHANGED <<active, entitled>>
    BY <2>1 DEF OursInv, EntitledByCopy
  <2>2. CASE active' \subseteq People /\ \E c : StillEntitled(c, active')
    <3>1. PICK c : StillEntitled(c, active')
      BY <2>2
    <3>2. \A e \in Entitled(c, active') : Owner(e) \in active'
      BY <2>2, EmailsOfPeople DEF Entitled
    <3> QED BY <3>1, <3>2 DEF StillEntitled
  <2>3. CASE \/ \E p \in People, a \in Apps : requestTestflight(p, a) \/ \E yes \in BOOLEAN : decideTestflight(p, a, yes)
             \/ \E p \in People : setAppleEmail(p)
             \/ \E k \in Keys : saveTestflightKey(k)
             \/ forgetTestflightKey
    <3>1. UNCHANGED active /\ \E c : StillEntitled(c, active)
      BY <2>3 DEF requestTestflight, decideTestflight, setAppleEmail, saveTestflightKey, forgetTestflightKey, Configured
    <3> QED BY <2>2, <3>1 DEF TypeOK
  <2>4. CASE \E p \in People : AccountChanges(p)
    <3>1. active' \subseteq People /\ StillEntitled(config, active')
      BY <2>4 DEF AccountChanges, TypeOK
    <3> QED BY <2>2, <3>1
  <2>5. CASE syncTestflightIfDue
    BY <2>1, <2>5 DEF syncTestflightIfDue, shared
  <2> QED BY <2>3, <2>4, <2>5
<1> QED BY <1>1, <1>2 DEF OursInv, EntitledByCopy, TakesOursOff

LEMMA OursOfApple ==
  ASSUME TypeOK, MemoryInv, RolesInv, OursInv, NEW e \in Emails, Accept(e) \/ Promoted(e)
  PROVE  OursInv'
<1>1. UNCHANGED <<sync, active, entitled>> /\ lost \subseteq lost'
  BY DEF Accept, Promoted, AppleChanges, Elsewhere
<1>2. apple.role \in [Emails -> {"none", "support", "other"}] /\ sync.todo \subseteq Step
  BY DEF TypeOK, AppStoreConnect, Work
<1>3. PICK x \in {"support", "other"} : apple'.role = [apple.role EXCEPT ![e] = x] /\ (x = "other" => Promoted(e))
  BY DEF Accept, Promoted, TypeOK, AppStoreConnect
<1>4. x = "other" => "team" \notin sync.got \/ e \in lost'
  BY <1>3 DEF Promoted
<1>5. "team" \notin sync.got => sync.todo = {}
  <2>1. sync.phase \in {"none", "listing", "steps", "also"}
    BY DEF TypeOK, Work
  <2> QED BY <2>1 DEF MemoryInv, Resting, RolesInv, TeamListed
<1>6. \A s \in sync.todo : apple'.role[s.email] = IF s.email = e THEN x ELSE apple.role[s.email]
  BY <1>2, <1>3 DEF Step
<1> QED BY <1>1, <1>4, <1>5, <1>6 DEF OursInv, EntitledByCopy, TakesOursOff

LEMMA OursOfPlan ==
  ASSUME TypeOK, MemoryInv, RolesInv, OursInv, Begin \/ ListTeam \/ ListInvitations \/ Plan \/ PlanAlso
  PROVE  OursInv'
<1>0. sync \in Work /\ config \in Kept /\ active \subseteq People
  BY DEF TypeOK
<1>1. UNCHANGED <<apple, active, lost>>
  BY DEF Begin, ListTeam, ListInvitations, Plan, PlanAlso, shared, notes
<1>2. CASE Begin
  <2>1. CASE config.key = NoKey
    BY <1>1, <1>2, <2>1 DEF Begin, OursInv, EntitledByCopy, TakesOursOff
  <2>2. CASE config.key # NoKey
    <3>1. sync' = [Idle EXCEPT !.phase = "listing", !.config = config] /\ entitled' = Entitled(config, active)
      BY <1>2, <2>2 DEF Begin
    <3>2. sync'.config = config /\ sync'.todo = {}
      BY <3>1 DEF Idle
    <3>3. \A e \in entitled' : /\ Owner(e) \in active /\ e = EmailOf(config, Owner(e))
                              /\ \E a \in Apps : Approved(config, Owner(e), a)
      BY <1>0, <3>1, EmailsOfPeople DEF Entitled
    <3> QED BY <1>1, <3>2, <3>3 DEF OursInv, EntitledByCopy, TakesOursOff
  <2> QED BY <2>1, <2>2
<1>3. CASE ListTeam \/ ListInvitations
  <2>1. sync'.config = sync.config /\ sync'.todo = sync.todo /\ sync'.phase = sync.phase /\ UNCHANGED entitled
    BY <1>0, <1>3 DEF ListTeam, ListInvitations, notes, Work
  <2> QED BY <1>1, <2>1 DEF OursInv, EntitledByCopy, TakesOursOff
<1>4. CASE Plan
  <2>1. PICK unsure \in SUBSET People :
          LET read == [sync EXCEPT !.phase = "steps", !.ended = (People \ active) \ unsure]
          IN sync' = [read EXCEPT !.todo = planSync(read)]
    BY <1>4 DEF Plan
  <2> DEFINE read == [sync EXCEPT !.phase = "steps", !.ended = (People \ active) \ unsure]
             todo == planSync(read)
             wanted == {EmailOf(read.config, p) : p \in {q \in People \ read.ended : Asks(read.config, q)}}
  <2>2. /\ read \in Work /\ read.config = sync.config /\ read.ended = (People \ active) \ unsure
        /\ read.support = sync.support
    BY <1>0 DEF Work
  <2>3. \A s \in todo : s.kind \in TakingOff => s.email \notin wanted
    BY DEF planSync, S, TakingOff
  <2>4. \A s \in todo : s.kind = "removeUser" => apple.role[s.email] # "other" \/ s.email \in lost
    <3>1. \A s \in todo : s.kind = "removeUser" => s.email \in read.support
      BY DEF planSync, S
    <3>2. sync.phase = "listing" /\ "team" \in sync.got
      BY <1>4 DEF Plan
    <3> QED BY <2>2, <3>1, <3>2 DEF RolesInv, ListedRoles
  <2>5. UNCHANGED entitled /\ sync.phase # "none"
    BY <1>4 DEF Plan
  <2>6. \A e \in entitled : e \in wanted
    <3>1. SUFFICES ASSUME NEW e \in entitled PROVE e \in wanted
      OBVIOUS
    <3>2. /\ Owner(e) \in active /\ e = EmailOf(sync.config, Owner(e))
          /\ \E a \in Apps : Approved(sync.config, Owner(e), a)
      BY <2>5 DEF OursInv, EntitledByCopy
    <3>3. Owner(e) \in People \ read.ended /\ Asks(read.config, Owner(e))
      BY <1>0, <2>2, <3>2 DEF Asks
    <3> QED BY <2>2, <3>2, <3>3
  <2>7. sync' = [read EXCEPT !.todo = todo]
    BY <2>1
  <2> HIDE DEF read, todo, wanted
  <2>8. sync'.config = sync.config /\ sync'.todo = todo
    BY <2>2, <2>7 DEF Work
  <2> QED BY <1>1, <2>3, <2>4, <2>5, <2>6, <2>8 DEF OursInv, EntitledByCopy, TakesOursOff
<1>5. CASE PlanAlso
  <2> DEFINE todo == planAlso(sync)
  <2>1. \A s \in todo : s.kind = "add"
    BY DEF planAlso, S
  <2>2. sync.phase = "steps" /\ sync' = [sync EXCEPT !.phase = "also", !.todo = todo] /\ UNCHANGED entitled
    BY <1>5 DEF PlanAlso, notes
  <2> HIDE DEF todo
  <2>3. sync'.config = sync.config /\ sync'.todo = todo
    BY <1>0, <2>2 DEF Work
  <2> QED BY <1>1, <2>1, <2>2, <2>3 DEF OursInv, EntitledByCopy, TakesOursOff, TakingOff
<1> QED BY <1>2, <1>3, <1>4, <1>5

LEMMA OursOfStep ==
  ASSUME TypeOK, MemoryInv, OursInv, DoStep \/ StepRefused \/ StepFails
  PROVE  OursInv'
<1>0. sync \in Work /\ apple \in AppStoreConnect /\ sync.todo \subseteq Step
  BY DEF TypeOK, Work
<1>1. UNCHANGED <<active, entitled>> /\ lost \subseteq lost'
  BY DEF DoStep, StepRefused, StepFails, shared
<1>2. sync'.todo \subseteq sync.todo /\ sync.phase # "none" /\ sync'.config.requests = sync.config.requests
      /\ sync'.config.appleEmails = sync.config.appleEmails
  <2>1. CASE DoStep
    <3>1. PICK s \in sync.todo : \E noted, gone :
            sync' = [sync EXCEPT !.todo = @ \ {s}, !.config.invited = noted, !.removed = gone]
      BY <2>1 DEF DoStep
    <3>2. sync.phase # "none"
      BY <3>1 DEF MemoryInv, Resting
    <3>3. PICK noted, gone : sync' = [sync EXCEPT !.todo = @ \ {s}, !.config.invited = noted, !.removed = gone]
      BY <3>1
    <3> QED BY <1>0, <3>2, <3>3 DEF Work, Kept
  <2>2. CASE StepRefused \/ StepFails
    BY <1>0, <2>2 DEF StepRefused, StepFails, Work, MemoryInv, Resting
  <2> QED BY <2>1, <2>2
<1>3. \A s \in sync.todo : apple'.role[s.email] \in {apple.role[s.email], "none"}
  <2>1. CASE UNCHANGED apple
    BY <2>1
  <2>2. CASE \E t \in sync.todo : Call(t)
    <3>1. PICK t \in Step : Call(t)
      BY <1>0, <2>2
    <3>2. apple'.role = apple.role \/ apple'.role = [apple.role EXCEPT ![t.email] = "none"]
      BY <1>0, <3>1, CallDoes
    <3> QED BY <1>0, <3>2 DEF AppStoreConnect, Step
  <2> QED BY <2>1, <2>2 DEF DoStep, StepRefused, StepFails, shared
<1>4. \A p : EmailOf(sync'.config, p) = EmailOf(sync.config, p)
  BY <1>2 DEF EmailOf
<1>5. \A p, a : Approved(sync'.config, p, a) = Approved(sync.config, p, a)
  BY <1>2 DEF Approved
<1>6. EntitledByCopy'
  BY <1>1, <1>2, <1>4, <1>5 DEF OursInv, EntitledByCopy
<1>7. TakesOursOff'
  BY <1>1, <1>2, <1>3 DEF OursInv, TakesOursOff
<1> QED BY <1>6, <1>7 DEF OursInv

LEMMA OursOfOthers ==
  ASSUME TypeOK, MemoryInv, OursInv, End \/ ListFails \/ Stops \/ Resend \/ ResendOne \/ ResendEnds
  PROVE  OursInv'
<1>0. sync \in Work
  BY DEF TypeOK
<1>1. CASE End \/ ListFails \/ Stops
  <2>1. sync' = Idle
    BY <1>1 DEF End, ListFails, Ends, Stops
  <2> QED BY <2>1 DEF OursInv, EntitledByCopy, TakesOursOff, Idle
<1>2. CASE Resend \/ ResendOne \/ ResendEnds
  <2>1. UNCHANGED <<active, entitled>> /\ lost \subseteq lost'
    BY <1>2 DEF Resend, ResendOne, ResendEnds, shared
  <2>2. apple'.role = apple.role
    BY <1>2, ResendOneDoes DEF Resend, ResendEnds, shared
  <2>3. sync'.phase = sync.phase /\ sync'.config = sync.config /\ sync'.todo = sync.todo
    <3>1. sync' = sync \/ sync' = [sync EXCEPT !.late = @ \cup resend.config.invited]
      BY <1>2 DEF Resend, ResendOne, ResendEnds
    <3> QED BY <1>0, <3>1 DEF Work
  <2> QED BY <2>1, <2>2, <2>3 DEF OursInv, EntitledByCopy, TakesOursOff
<1> QED BY <1>1, <1>2

LEMMA OursStep == TypeOK /\ MemoryInv /\ RolesInv /\ OursInv /\ [Next]_vars => OursInv'
<1> SUFFICES ASSUME TypeOK, MemoryInv, RolesInv, OursInv, [Next]_vars PROVE OursInv'
  OBVIOUS
<1>1. CASE UNCHANGED vars
  BY <1>1 DEF vars, shared, notes, OursInv, EntitledByCopy, TakesOursOff
<1> QED BY <1>1, OursOfFile, OursOfApple, OursOfPlan, OursOfStep, OursOfOthers DEF Next, Doing, Sync

LEMMA SyncTakesOurs ==
  ASSUME TypeOK, AppleInv, OursInv, Sync, NEW e \in Emails, Off(e)
  PROVE  e \in sent \cup lost /\ e \notin entitled
<1>0. apple \in AppStoreConnect /\ sync.todo \subseteq Step
  BY DEF TypeOK, Work
<1>1. DoStep
  <2>1. ~DoStep => UNCHANGED apple
    BY DEF Sync, Begin, ListTeam, ListInvitations, Plan, StepRefused, PlanAlso, End, Ends, shared
  <2> QED BY <2>1 DEF Off, Team
<1>2. PICK s \in sync.todo : Can(s) /\ Call(s)
  BY <1>1 DEF DoStep
<1>3. apple.role \in [Emails -> {"none", "support", "other"}] /\ s \in Step
  BY <1>0 DEF AppStoreConnect
<1>4. s.kind \in TakingOff /\ s.email = e
  <2>1. CASE s.kind = "removeUser"
    <3>1. apple'.role = [apple.role EXCEPT ![s.email] = "none"] /\ apple'.invitations = apple.invitations
      BY <1>0, <1>2, <1>3, <2>1, CallDoes
    <3>2. e # s.email => apple'.role[e] = apple.role[e]
      BY <1>3, <3>1
    <3> QED BY <2>1, <3>1, <3>2 DEF Off, Team, TakingOff
  <2>2. CASE s.kind # "removeUser"
    <3>1. apple'.role = apple.role
      BY <1>0, <1>2, <1>3, <2>2, CallDoes
    <3>2. s.kind # "removeInvitation" \/ e # s.email => apple.invitations \cap {e} \subseteq apple'.invitations
      BY <1>0, <1>2, <1>3, <2>2, CallDoes
    <3> QED BY <3>1, <3>2 DEF Off, Team, TakingOff
  <2> QED BY <2>1, <2>2
<1>5. CASE s.kind = "removeInvitation"
  <2>1. e \in apple.invitations
    BY <1>2, <1>4, <1>5 DEF Can
  <2> QED BY <1>4, <2>1 DEF AppleInv, OursInv, TakesOursOff
<1>6. CASE s.kind = "removeUser"
  <2>1. apple.role[e] # "none"
    BY <1>2, <1>4, <1>6 DEF Can, Team
  <2>2. apple.role[e] # "other" \/ e \in lost
    BY <1>4, <1>6 DEF OursInv, TakesOursOff
  <2>3. apple.role[e] \in {"none", "support", "other"}
    BY <1>3
  <2>4. e \in sent \cup lost
    BY <2>1, <2>2, <2>3 DEF AppleInv
  <2> QED BY <1>4, <2>4 DEF OursInv, TakesOursOff
<1> QED BY <1>4, <1>5, <1>6 DEF TakingOff

\* testflight-plan.ts, "only people this Portal invited are taken off never anyone else on the team":
\* whom a sync takes off, the Portal had sent, but for a race, and was not entitled to stay all the while.
THEOREM SyncTakesOnlyOurs == Spec => OnlyOurs
<1>1. TypeOK /\ AppleInv /\ OursInv /\ [Next]_vars => [Sync => \A e \in Emails : Off(e) => e \in sent \cup lost /\ e \notin entitled]_vars
  BY SyncTakesOurs
<1>2. Init => OursInv
  BY DEF Init, OursInv, EntitledByCopy, TakesOursOff, Idle
<1>3. Spec => [](TypeOK /\ AppleInv /\ MemoryInv /\ RolesInv /\ OursInv)
  BY <1>2, TypeInit, TypeStep, AppleStep, MemoryInit, MemoryStep, RolesInit, RolesStep, OursStep, PTL DEF Spec
<1> QED BY <1>1, <1>3, PTL DEF Spec, OnlyOurs
=============================================================================
