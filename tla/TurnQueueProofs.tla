-------------------------- MODULE TurnQueueProofs --------------------------
(***************************************************************************)
(* Theorems about TurnQueue, for any messages, answers and restarts: its   *)
(* types, that a chat runs one turn at a time and drives it, that what     *)
(* waits is waited for by a turn, and that no message is lost.             *)
(***************************************************************************)
EXTENDS TurnQueue, FiniteSetTheorems, TLAPS

\* What turns were started with so far.
Used == UNION {prompt[t] : t \in Turns}

\* Each turn started with something of its own, so there are turns enough.
OwnItems ==
  /\ last <= Cardinality(Used) /\ Used \subseteq sent
  /\ \A t \in Turns : t > last => prompt[t] = {}
  /\ queue \cup carry \cup requests \subseteq sent \ Used /\ carry \cap requests = {}

\* Each turn lets go of one Set, as it ends.
BeforeTaking == {"wroteBack", "ensure", "agent", "look", "takeback"}
OneSetEach == current \in Nat \ {0} /\ current <= last + 1 /\ \A t \in Turns : at[t] \in BeforeTaking => current <= last

TurnInv == RowsOK /\ TurnDriven /\ OwnItems /\ OneSetEach
LineInv == WaitingOK /\ WaitingServed /\ NothingLost

-----------------------------------------------------------------------------
LEMMA ItemsFinite == IsFiniteSet(Items) /\ Cardinality(Items) \in Nat
<1>1. IsFiniteSet(Items)
  BY QueueAssumption, FS_Union DEF Items
<1> QED BY <1>1, FS_CardinalityType

\* There is a turn left for what no turn was started with.
LEMMA TurnLeft ==
  ASSUME RowsOK, OwnItems, NEW items \in SUBSET (Items \ Used), items # {}
  PROVE  /\ last + 1 \in Turns /\ last \in Nat
         /\ last + 1 <= Cardinality(Used \cup items)
<1>1. Used \cup items \subseteq Items /\ Used \subseteq Items
  BY DEF RowsOK, Used
<1>2. PICK i \in items : i \notin Used
  OBVIOUS
<1>3. /\ IsFiniteSet(Used) /\ IsFiniteSet(Used \cup items) /\ IsFiniteSet(Used \cup {i})
      /\ Cardinality(Used) \in Nat /\ Cardinality(Used \cup items) \in Nat
      /\ Cardinality(Used \cup items) <= Cardinality(Items)
  BY <1>1, <1>2, ItemsFinite, FS_Subset, FS_CardinalityType, FS_AddElement
<1>4. Cardinality(Used \cup {i}) = Cardinality(Used) + 1
  BY <1>2, <1>3, FS_AddElement
<1>5. Cardinality(Used \cup {i}) <= Cardinality(Used \cup items)
  BY <1>2, <1>3, FS_Subset
<1>6. last \in Nat /\ last <= Cardinality(Used)
  BY ItemsFinite DEF RowsOK, OwnItems
<1> QED BY <1>3, <1>4, <1>5, <1>6, ItemsFinite DEF Turns

\* A turn starts with what none was started with.
LEMMA Starting ==
  ASSUME RowsOK, OwnItems, NEW items \in SUBSET (Items \ Used), items # {},
         last' = last + 1, prompt' = Started(prompt, items, items)
  PROVE  /\ last + 1 \in Turns /\ last' \in 0..Cardinality(Items)
         /\ prompt' \in [Turns -> SUBSET Items] /\ prompt'[last + 1] = items
         /\ \A t \in Turns \ {last + 1} : prompt'[t] = prompt[t]
         /\ Used' = Used \cup items /\ last' <= Cardinality(Used')
         /\ \A t \in Turns : t > last' => prompt'[t] = {}
<1>1. last + 1 \in Turns /\ last \in Nat /\ last + 1 <= Cardinality(Used \cup items) /\ prompt[last + 1] = {}
  BY TurnLeft DEF OwnItems
<1>2. /\ prompt' \in [Turns -> SUBSET Items] /\ prompt'[last + 1] = items
      /\ \A t \in Turns \ {last + 1} : prompt'[t] = prompt[t]
  BY <1>1 DEF Started, RowsOK
<1>3. Used' = Used \cup items
  BY <1>1, <1>2 DEF Used
<1>4. \A t \in Turns : t > last' => prompt'[t] = {}
  BY <1>1, <1>2 DEF OwnItems, Turns
<1>5. last' \in 0..Cardinality(Items)
  BY <1>1, ItemsFinite DEF Turns
<1> QED BY <1>1, <1>2, <1>3, <1>4, <1>5

-----------------------------------------------------------------------------
(***************************************************************************)
(* The turns and the line, by what a step does to them.                    *)
(***************************************************************************)

LEMMA Quiet ==
  ASSUME TurnInv, LineInv, UNCHANGED <<rows, waiting, current, steered, dropped, cut, refused, deleted>>
  PROVE  TurnInv' /\ LineInv'
<1> USE DEF rows, waiting
<1>1. RowsOK' /\ TurnDriven' /\ OneSetEach'
  BY DEF TurnInv, RowsOK, TurnDriven, OneSetEach, Running, UnderWay
<1>2. OwnItems'
  BY DEF TurnInv, OwnItems, Used
<1>3. LineInv'
  BY DEF LineInv, WaitingOK, WaitingServed, NothingLost, Accounted, Idle, Running
<1> QED BY <1>1, <1>2, <1>3 DEF TurnInv

\* Runs under way move on, and end only once the chat is gone.
Moves ==
  /\ UNCHANGED <<row, last, prompt, requests, sent, deleted, cut, refused, dropped>>
  /\ RowsOK'
  /\ \A t \in Turns : UnderWay(t)' => UnderWay(t)
  /\ deleted \/ \A t \in Turns : UnderWay(t) => UnderWay(t)'
  /\ \A t \in Turns : at'[t] \in BeforeTaking => at[t] \in BeforeTaking

LEMMA Moving ==
  ASSUME TurnInv, LineInv, Moves, UNCHANGED current,
         queue' \subseteq queue, carry' \subseteq carry, steered \subseteq steered',
         deleted \/ queue \ queue' \subseteq steered'
  PROVE  TurnInv' /\ LineInv'
<1>1. TurnDriven' /\ OneSetEach'
  BY DEF TurnInv, TurnDriven, OneSetEach, Moves, Running
<1>2. OwnItems'
  BY DEF TurnInv, OwnItems, Used, Moves
<1>3. WaitingOK' /\ WaitingServed'
  BY DEF LineInv, WaitingOK, WaitingServed, Moves, Idle, Running
<1>4. NothingLost'
  BY DEF LineInv, NothingLost, Accounted, Moves
<1> QED BY <1>1, <1>2, <1>3, <1>4 DEF TurnInv, LineInv, Moves

\* finally, up to the last look.
LEMMA Finishing ==
  ASSUME TurnInv, LineInv, NEW t \in Turns, NEW how \in Ended, UnderWay(t), at[t] \in BeforeTaking,
         Finish(t, how), UNCHANGED <<current, traces, deleted>>
  PROVE  TurnInv' /\ LineInv'
<1>1. RowsOK'
  BY DEF TurnInv, RowsOK, Finish, Ended
<1>2. Moves
  BY <1>1 DEF TurnInv, RowsOK, Moves, Finish, UnderWay, BeforeTaking, traces
<1>3. /\ queue' \subseteq queue /\ carry' \subseteq carry /\ UNCHANGED steered
      /\ deleted \/ queue' = queue
  BY DEF Finish, traces
<1> QED BY <1>2, <1>3, Moving

LEMMA Runs ==
  ASSUME TurnInv, LineInv, NEW t \in Turns,
         Begin(t) \/ EnsureFails(t) \/ AgentStarts(t) \/ Aborts(t) \/ StreamEnds(t) \/ StreamBreaks(t)
  PROVE  TurnInv' /\ LineInv'
<1>1. UNCHANGED <<current, traces, deleted>>
  BY DEF Begin, EnsureFails, AgentStarts, Aborts, StreamEnds, StreamBreaks, steering, others, traces
<1>2. CASE \E how \in Ended : Finish(t, how) /\ at[t] \in {"ensure", "agent"}
  <2>1. UnderWay(t) /\ at[t] \in BeforeTaking
    BY <1>2 DEF UnderWay, BeforeTaking
  <2> QED BY <1>1, <1>2, <2>1, Finishing
<1>3. CASE ~\E how \in Ended : Finish(t, how) /\ at[t] \in {"ensure", "agent"}
  <2>1. CASE Begin(t)
    <3>1. RowsOK'
      BY <2>1 DEF TurnInv, RowsOK, Begin
    <3>2. Moves
      BY <1>1, <2>1, <3>1 DEF TurnInv, RowsOK, Moves, Begin, UnderWay, BeforeTaking, traces, waiting
    <3> QED BY <1>1, <2>1, <3>2, Moving DEF Begin, waiting, traces
  <2>2. CASE AgentStarts(t)
    <3>1. at[t] = "ensure" /\ at' = [at EXCEPT ![t] = "agent"]
          /\ UNCHANGED <<row, last, prompt, aborted, outcome, waiting>>
      BY <1>3, <2>2 DEF AgentStarts, Ended
    <3>2. RowsOK'
      BY <3>1 DEF TurnInv, RowsOK
    <3>3. Moves
      BY <1>1, <3>1, <3>2 DEF TurnInv, RowsOK, Moves, UnderWay, BeforeTaking, traces, waiting
    <3> QED BY <1>1, <3>1, <3>3, Moving DEF waiting, traces
  <2>3. CASE EnsureFails(t) \/ Aborts(t) \/ StreamEnds(t) \/ StreamBreaks(t)
    BY <1>3, <2>3 DEF EnsureFails, Aborts, StreamEnds, StreamBreaks, Ended
  <2> QED BY <2>1, <2>2, <2>3
<1> QED BY <1>2, <1>3

LEMMA Looking ==
  ASSUME TurnInv, LineInv, NEW w \in Looks, LookAnswered(w) \/ LookFails(w)
  PROVE  TurnInv' /\ LineInv'
<1>1. /\ at' = After(w)
      /\ UNCHANGED <<row, last, prompt, aborted, outcome, carry, requests, sent, current, dropped, cut, refused, deleted>>
  BY DEF LookAnswered, LookFails, node, traces, others, waiting
<1>2. RowsOK'
  BY <1>1 DEF TurnInv, RowsOK, After
<1>3. Moves
  BY <1>1, <1>2 DEF Moves, After, UnderWay, BeforeTaking
<1>4. /\ queue' \subseteq queue /\ steered \subseteq steered'
      /\ deleted \/ queue \ queue' \subseteq steered'
  BY DEF LookAnswered, LookFails, waiting, traces
<1> QED BY <1>1, <1>3, <1>4, Moving

LEMMA TakingBack ==
  ASSUME TurnInv, LineInv, NEW t \in Turns, TakeBack(t)
  PROVE  TurnInv' /\ LineInv'
<1>1. /\ at[t] = "takeback" /\ at' = [at EXCEPT ![t] = "taking"] /\ current' = current + 1
      /\ UNCHANGED <<row, last, prompt, aborted, outcome, waiting, traces, deleted>>
  BY DEF TakeBack, others
<1>2. RowsOK'
  BY <1>1 DEF TurnInv, RowsOK
<1>3. t = last /\ \A u \in Turns : UnderWay(u) => u = t
  BY <1>1 DEF TurnInv, TurnDriven, UnderWay
<1>4. TurnDriven'
  BY <1>1 DEF TurnInv, RowsOK, TurnDriven, UnderWay, Running
<1>5. OneSetEach'
  <2>1. current <= last
    BY <1>1 DEF TurnInv, OneSetEach, BeforeTaking
  <2>2. \A u \in Turns : at'[u] \notin BeforeTaking
    BY <1>1, <1>3 DEF TurnInv, RowsOK, UnderWay, BeforeTaking
  <2> QED BY <1>1, <2>1, <2>2, ItemsFinite DEF OneSetEach, TurnInv, RowsOK
<1>6. OwnItems'
  BY <1>1 DEF TurnInv, OwnItems, Used, waiting
<1>7. LineInv'
  BY <1>1 DEF LineInv, WaitingOK, WaitingServed, NothingLost, Accounted, Idle, Running, waiting, traces
<1> QED BY <1>2, <1>4, <1>5, <1>6, <1>7 DEF TurnInv

LEMMA StopAborting ==
  ASSUME TurnInv, LineInv, StopAborts
  PROVE  TurnInv' /\ LineInv'
<1>1. /\ UNCHANGED <<row, last, at, prompt, outcome, waiting, traces, deleted, current>>
      /\ aborted' = [aborted EXCEPT ![stopper.turn] = @ \/ at[stopper.turn] \in {"ensure", "agent"}]
  BY DEF StopAborts, steering
<1>2. aborted' \in [Turns -> BOOLEAN]
  BY <1>1 DEF TurnInv, RowsOK
<1>3. RowsOK'
  BY <1>1, <1>2 DEF TurnInv, RowsOK
<1>4. Moves
  BY <1>1, <1>3 DEF Moves, UnderWay, waiting, traces
<1> QED BY <1>1, <1>4, Moving DEF waiting, traces

-----------------------------------------------------------------------------
\* The next turn has started, and nothing else is under way.
Starts(items) ==
  /\ items \in SUBSET (Items \ Used) /\ items # {}
  /\ last' = last + 1 /\ prompt' = Started(prompt, items, items)
  /\ \A t \in Turns \ {last + 1} : row'[t] # "running" /\ at'[t] \in {"none", "over"}
  /\ row'[last + 1] = "running" /\ at'[last + 1] \in {"wroteBack", "ensure"}
  /\ row' \in [Turns -> {"none", "running"} \cup Ended]
  /\ at' \in [Turns -> {"none", "wroteBack", "ensure", "agent", "look", "takeback", "taking", "over"}]
  /\ UNCHANGED <<aborted, current>> /\ outcome' \in [Turns -> {"none"} \cup Ended]
  /\ queue' \cup carry' \cup requests' \subseteq sent' \ (Used \cup items)
  /\ sent \cup items \subseteq sent' /\ carry' \cap requests' = {}

LEMMA StartKeeps ==
  ASSUME TurnInv, NEW items, Starts(items)
  PROVE  TurnInv' /\ WaitingServed'
<1>1. /\ last + 1 \in Turns /\ last' \in 0..Cardinality(Items)
      /\ prompt' \in [Turns -> SUBSET Items] /\ prompt'[last + 1] = items
      /\ \A t \in Turns \ {last + 1} : prompt'[t] = prompt[t]
      /\ Used' = Used \cup items /\ last' <= Cardinality(Used')
      /\ \A t \in Turns : t > last' => prompt'[t] = {}
  BY Starting DEF Starts, TurnInv
<1>2. RowsOK'
  BY <1>1 DEF Starts, TurnInv, RowsOK
<1>3. TurnDriven' /\ WaitingServed'
  BY <1>1 DEF Starts, TurnDriven, WaitingServed, Idle, Running, UnderWay
<1>4. OwnItems'
  BY <1>1 DEF Starts, OwnItems, TurnInv
<1>5. OneSetEach'
  <2>1. /\ current <= last + 1 /\ last \in Nat /\ current \in Nat \ {0}
        /\ current' = current /\ last' = last + 1
    BY ItemsFinite DEF TurnInv, OneSetEach, RowsOK, Starts
  <2>2. current' <= last' + 1
    BY <2>1 DEF OneSetEach
  <2> QED BY <2>1, <2>2 DEF OneSetEach
<1> QED BY <1>2, <1>3, <1>4, <1>5 DEF TurnInv

LEMMA NothingUnderWay ==
  ASSUME TurnInv, Idle, ~deleted
  PROVE  \A t \in Turns : row[t] # "running" /\ at[t] \in {"none", "over"}
BY DEF TurnInv, TurnDriven, Idle, Running, UnderWay

\* startTurn, of what no turn was started with.
LEMMA StartTurns ==
  ASSUME TurnInv, NEW i \in Items \ Used, StartTurn({i}), Idle, ~deleted, UNCHANGED current,
         queue' \cup carry' \cup requests' \subseteq sent' \ (Used \cup {i}), sent \cup {i} \subseteq sent',
         carry' \cap requests' = {}
  PROVE  Starts({i})
<1>1. last + 1 \in Turns
  BY TurnLeft DEF TurnInv
<1> QED BY <1>1, NothingUnderWay DEF Starts, StartTurn, Started, TurnInv, RowsOK

LEMMA Asking ==
  ASSUME TurnInv, LineInv, NEW m \in Messages, Ask(m)
  PROVE  TurnInv' /\ LineInv'
<1>1. /\ m \in Items \ Used /\ m \notin sent /\ ~deleted /\ sent' = sent \cup {m}
      /\ UNCHANGED <<carry, requests, current, traces, deleted>>
  BY DEF Ask, TurnInv, OwnItems, Items, others
<1>2. CASE Idle
  <2>1. StartTurn({m}) /\ queue' = queue
    BY <1>2 DEF Ask
  <2>2. Starts({m})
    BY <1>1, <1>2, <2>1, StartTurns DEF TurnInv, OwnItems
  <2>3. TurnInv' /\ WaitingServed'
    BY <2>2, StartKeeps
  <2>4. WaitingOK'
    BY <1>1, <2>1 DEF LineInv, WaitingOK, Items
  <2>5. \E t \in Turns : prompt'[t] = {m} /\ \A u \in Turns \ {t} : prompt'[u] = prompt[u]
    BY <2>2, Starting DEF Starts, TurnInv
  <2>6. \A t \in Turns : prompt[t] # {} => prompt'[t] = prompt[t]
    <3>1. \A t \in Turns \ {last + 1} : prompt'[t] = prompt[t]
      BY <2>2, Starting DEF Starts, TurnInv
    <3>2. last + 1 \in Turns => prompt[last + 1] = {}
      BY ItemsFinite DEF TurnInv, OwnItems, RowsOK
    <3> QED BY <3>1, <3>2
  <2>7. NothingLost'
    BY <1>1, <2>1, <2>5, <2>6 DEF LineInv, NothingLost, Accounted, traces
  <2> QED BY <2>3, <2>4, <2>7 DEF LineInv
<1>3. CASE ~Idle
  <2>1. queue' = queue \cup {m} /\ UNCHANGED rows
    BY <1>3 DEF Ask
  <2>2. RowsOK' /\ TurnDriven' /\ OneSetEach'
    BY <1>1, <2>1 DEF TurnInv, RowsOK, TurnDriven, OneSetEach, Running, UnderWay, rows
  <2>3. OwnItems'
    BY <1>1, <2>1 DEF TurnInv, OwnItems, Used, rows
  <2>4. WaitingOK' /\ WaitingServed'
    BY <1>1, <1>3, <2>1 DEF LineInv, WaitingOK, WaitingServed, Idle, Running, rows, Items
  <2>5. NothingLost'
    BY <1>1, <2>1 DEF LineInv, NothingLost, Accounted, rows, traces
  <2> QED BY <2>2, <2>3, <2>4, <2>5 DEF TurnInv, LineInv
<1> QED BY <1>2, <1>3

LEMMA Answering ==
  ASSUME TurnInv, LineInv, NEW n \in Notes, AccessAnswered(n)
  PROVE  TurnInv' /\ LineInv'
<1>1. /\ n \in requests /\ n \in Items \ Used /\ n \in sent /\ ~deleted /\ requests' = requests \ {n}
      /\ UNCHANGED <<queue, sent, current, traces, deleted>>
  BY DEF AccessAnswered, TurnInv, OwnItems, Items, steering, others
<1>2. CASE UNCHANGED rows
  <2>1. carry' = carry \/ (carry' = carry \cup {n} /\ ~Idle)
    BY <1>2 DEF AccessAnswered
  <2>2. RowsOK' /\ TurnDriven' /\ OneSetEach'
    BY <1>1, <1>2 DEF TurnInv, RowsOK, TurnDriven, OneSetEach, Running, UnderWay, rows
  <2>3. OwnItems'
    BY <1>1, <1>2, <2>1 DEF TurnInv, OwnItems, Used, rows
  <2>4. WaitingOK' /\ WaitingServed'
    BY <1>1, <1>2, <2>1 DEF LineInv, WaitingOK, WaitingServed, Idle, Running, rows
  <2>5. NothingLost'
    BY <1>1, <1>2 DEF LineInv, NothingLost, Accounted, rows, traces
  <2> QED BY <2>2, <2>3, <2>4, <2>5 DEF TurnInv, LineInv
<1>3. CASE ~UNCHANGED rows
  <2>1. Idle /\ StartTurn({n}) /\ carry' = carry
    BY <1>3 DEF AccessAnswered
  <2>0. n \notin queue
    BY QueueAssumption DEF LineInv, WaitingOK
  <2>2. Starts({n})
    BY <1>1, <2>0, <2>1, StartTurns DEF TurnInv, OwnItems
  <2>3. TurnInv' /\ WaitingServed'
    BY <2>2, StartKeeps
  <2>4. WaitingOK'
    BY <1>1, <2>1 DEF LineInv, WaitingOK
  <2>5. \A t \in Turns : prompt[t] # {} => prompt'[t] = prompt[t]
    <3>1. \A t \in Turns \ {last + 1} : prompt'[t] = prompt[t]
      BY <2>2, Starting DEF Starts, TurnInv
    <3>2. last + 1 \in Turns => prompt[last + 1] = {}
      BY ItemsFinite DEF TurnInv, OwnItems, RowsOK
    <3> QED BY <3>1, <3>2
  <2>6. NothingLost'
    BY <1>1, <2>1, <2>5 DEF LineInv, NothingLost, Accounted, traces
  <2> QED BY <2>3, <2>4, <2>6 DEF LineInv
<1> QED BY <1>2, <1>3

LEMMA AgentAsks ==
  ASSUME TurnInv, LineInv, NEW n \in Notes, AccessAsked(n)
  PROVE  TurnInv' /\ LineInv'
<1>1. /\ n \notin sent /\ sent' = sent \cup {n} /\ \E t \in Turns : at[t] = "agent"
      /\ \/ carry' = carry \cup {n} /\ UNCHANGED requests
         \/ requests' = requests \cup {n} /\ UNCHANGED carry
      /\ UNCHANGED <<rows, queue, current, traces, deleted>>
  BY DEF AccessAsked, steering, others
<1>2. RowsOK' /\ TurnDriven' /\ OneSetEach'
  BY <1>1 DEF TurnInv, RowsOK, TurnDriven, OneSetEach, Running, UnderWay, rows
<1>3. OwnItems'
  BY <1>1 DEF TurnInv, OwnItems, Used, rows
<1>4. WaitingServed'
  <2>1. deleted \/ ~Idle
    BY <1>1 DEF TurnInv, TurnDriven, UnderWay, Idle
  <2> QED BY <1>1, <2>1 DEF LineInv, WaitingServed, Idle, Running, rows
<1>5. WaitingOK'
  BY <1>1 DEF LineInv, WaitingOK, Items
<1>6. NothingLost'
  <2>1. n \notin Messages
    BY QueueAssumption
  <2> QED BY <1>1, <2>1 DEF LineInv, NothingLost, Accounted, rows, traces
<1> QED BY <1>2, <1>3, <1>4, <1>5, <1>6 DEF TurnInv, LineInv

-----------------------------------------------------------------------------
\* The end of a turn: nothing starts, or what waited does.
LEMMA Ending ==
  ASSUME TurnInv, LineInv, NEW t \in Turns, EndTurn(t)
  PROVE  TurnInv' /\ LineInv'
<1> DEFINE waits == IF outcome[t] = "cancelled" THEN {} ELSE queue \cup carry
           next  == IF spent THEN {} ELSE waits
<1>1. /\ at[t] = "taking" /\ ~deleted /\ queue' = {} /\ carry' = {}
      /\ dropped' = (IF outcome[t] = "cancelled" THEN dropped \cup queue ELSE dropped)
      /\ refused' = refused \cup (waits \ (next \cup Notes))
      /\ last' = (IF next = {} THEN last ELSE last + 1)
      /\ row' = Started([row EXCEPT ![t] = outcome[t]], next, "running")
      /\ at' = Started([at EXCEPT ![t] = "over"], next, "wroteBack")
      /\ prompt' = Started(prompt, next, next)
      /\ outcome' = [outcome EXCEPT ![t] = "none"]
      /\ UNCHANGED <<aborted, requests, sent, current, steered, cut, deleted>>
  BY DEF EndTurn, steering, others
<1>2. t = last /\ \A u \in Turns \ {t} : row[u] # "running" /\ at[u] \in {"none", "over"}
  BY <1>1 DEF TurnInv, TurnDriven, UnderWay, Running
<1>3. /\ outcome' \in [Turns -> {"none"} \cup Ended] /\ outcome[t] \in {"none"} \cup Ended
      /\ row \in [Turns -> {"none", "running"} \cup Ended]
      /\ at \in [Turns -> {"none", "wroteBack", "ensure", "agent", "look", "takeback", "taking", "over"}]
  BY <1>1 DEF TurnInv, RowsOK
<1>4. next \in SUBSET (Items \ Used) /\ requests \subseteq sent \ (Used \cup next)
  <2>1. queue \cup carry \subseteq Items \ Used /\ requests \subseteq Notes /\ queue \subseteq Messages
    BY DEF TurnInv, OwnItems, LineInv, WaitingOK, Items
  <2>2. (queue \cup carry) \cap requests = {}
    BY <2>1, QueueAssumption DEF TurnInv, OwnItems
  <2> QED BY <2>1, <2>2 DEF TurnInv, OwnItems
<1>5. queue \subseteq (IF outcome[t] = "cancelled" THEN dropped' ELSE next \cup refused')
  <2>1. queue \cap Notes = {}
    BY QueueAssumption DEF LineInv, WaitingOK
  <2> QED BY <1>1, <2>1
<1>6. sent \subseteq Items /\ requests \subseteq Notes
  BY DEF LineInv, WaitingOK
<1> HIDE DEF next, waits
<1>7. CASE next = {}
  <2>1. /\ last' = last /\ row' = [row EXCEPT ![t] = outcome[t]] /\ at' = [at EXCEPT ![t] = "over"]
        /\ UNCHANGED prompt
    BY <1>1, <1>7 DEF Started
  <2>2. RowsOK'
    BY <1>1, <1>3, <2>1 DEF TurnInv, RowsOK
  <2>3. TurnDriven' /\ OneSetEach'
    <3>1. \A u \in Turns : row'[u] # "running" /\ at'[u] \in {"none", "over"}
      BY <1>2, <1>3, <2>1 DEF Ended
    <3>2. current' = current /\ last' = last
      BY <1>1, <2>1
    <3> QED BY <3>1, <3>2 DEF TurnInv, TurnDriven, OneSetEach, Running, UnderWay, BeforeTaking
  <2>4. OwnItems'
    BY <1>1, <2>1 DEF TurnInv, OwnItems, Used
  <2>5. WaitingOK' /\ WaitingServed'
    BY <1>1, <1>6 DEF WaitingOK, WaitingServed
  <2>6. NothingLost'
    BY <1>1, <1>5, <1>7, <2>1 DEF LineInv, NothingLost, Accounted
  <2> QED BY <2>2, <2>3, <2>4, <2>5, <2>6 DEF TurnInv, LineInv
<1>8. CASE next # {}
  <2>0. /\ last + 1 \in Turns /\ last \in Nat
        /\ prompt'[last + 1] = next /\ \A u \in Turns \ {last + 1} : prompt'[u] = prompt[u]
    BY <1>1, <1>4, <1>8, TurnLeft, Starting DEF TurnInv
  <2>1. Starts(next)
    <3>1. /\ row' \in [Turns -> {"none", "running"} \cup Ended] /\ row'[last + 1] = "running"
          /\ \A u \in Turns \ {last + 1} : row'[u] # "running"
      BY <1>1, <1>2, <1>3, <1>8, <2>0 DEF Started, Ended
    <3>2. /\ at' \in [Turns -> {"none", "wroteBack", "ensure", "agent", "look", "takeback", "taking", "over"}]
          /\ at'[last + 1] = "wroteBack"
          /\ \A u \in Turns \ {last + 1} : at'[u] \in {"none", "over"}
      BY <1>1, <1>2, <1>3, <1>8, <2>0 DEF Started
    <3>3. sent \cup next \subseteq sent'
      BY <1>1 DEF next, waits, TurnInv, OwnItems
    <3> QED BY <1>1, <1>3, <1>4, <1>8, <3>1, <3>2, <3>3 DEF Starts
  <2>2. TurnInv' /\ WaitingServed'
    BY <2>1, StartKeeps
  <2>3. WaitingOK'
    BY <1>1, <1>6 DEF WaitingOK
  <2>4. prompt[last + 1] = {}
    BY <2>0 DEF TurnInv, OwnItems
  <2>5. NothingLost'
    BY <1>1, <1>5, <2>0, <2>4 DEF LineInv, NothingLost, Accounted
  <2> QED BY <2>2, <2>3, <2>5 DEF LineInv
<1> QED BY <1>7, <1>8

LEMMA EndingGone ==
  ASSUME TurnInv, LineInv, NEW t \in Turns, EndTurnGone(t)
  PROVE  TurnInv' /\ LineInv'
<1>1. /\ deleted /\ at' = [at EXCEPT ![t] = "over"] /\ outcome' = [outcome EXCEPT ![t] = "none"]
      /\ UNCHANGED <<row, last, prompt, aborted, waiting, current, traces, deleted>>
  BY DEF EndTurnGone, steering, others
<1>2. RowsOK'
  BY <1>1 DEF TurnInv, RowsOK
<1>3. Moves
  BY <1>1, <1>2 DEF TurnInv, RowsOK, Moves, UnderWay, BeforeTaking, waiting, traces
<1> QED BY <1>1, <1>3, Moving DEF waiting, traces

LEMMA Removing ==
  ASSUME TurnInv, LineInv, Removed
  PROVE  TurnInv' /\ LineInv'
<1>1. /\ deleted' = TRUE /\ row' = [t \in Turns |-> "none"]
      /\ UNCHANGED <<last, at, prompt, aborted, outcome, waiting, current, traces>>
  BY DEF Removed, steering
<1>2. RowsOK' /\ TurnDriven' /\ OneSetEach'
  BY <1>1 DEF TurnInv, RowsOK, TurnDriven, OneSetEach, Running, UnderWay
<1>3. OwnItems'
  BY <1>1 DEF TurnInv, OwnItems, Used, waiting
<1>4. LineInv'
  BY <1>1 DEF LineInv, WaitingOK, WaitingServed, NothingLost, waiting
<1> QED BY <1>2, <1>3, <1>4 DEF TurnInv

LEMMA Restarting ==
  ASSUME TurnInv, LineInv, Restart
  PROVE  TurnInv' /\ LineInv'
<1>1. /\ row' = [t \in Turns |-> IF Running(t) THEN "failed" ELSE row[t]]
      /\ at' = [t \in Turns |-> IF at[t] = "none" THEN "none" ELSE "over"]
      /\ aborted' = [t \in Turns |-> FALSE] /\ outcome' = [t \in Turns |-> "none"]
      /\ cut' = cut \cup queue /\ queue' = {} /\ carry' = {}
      /\ UNCHANGED <<last, prompt, requests, sent, current, steered, dropped, refused, deleted>>
  BY DEF Restart
<1>2. RowsOK'
  BY <1>1 DEF TurnInv, RowsOK, Running, Ended
<1>3. TurnDriven' /\ OneSetEach'
  BY <1>1 DEF TurnInv, TurnDriven, OneSetEach, Running, UnderWay, BeforeTaking
<1>4. OwnItems'
  BY <1>1 DEF TurnInv, OwnItems, Used
<1>5. WaitingOK' /\ WaitingServed'
  BY <1>1 DEF LineInv, WaitingOK, WaitingServed
<1>6. NothingLost'
  BY <1>1 DEF LineInv, NothingLost, Accounted
<1> QED BY <1>2, <1>3, <1>4, <1>5, <1>6 DEF TurnInv, LineInv

\* What none of the above does leaves the turns and the line alone.
LEMMA Others ==
  ASSUME TurnInv, LineInv,
         \/ \E m \in Messages : Hands(m) \/ SteerFails(m)
         \/ \E t \in Turns : LastLook(t) \/ StopAsked(t) \/ KillLands(t) \/ \E m \in Messages : TakeBackFile(t, m)
         \/ \E w \in Looks : Listed(w)
         \/ Agent \/ ToolResult \/ ShareSpent \/ ShareReopens \/ DeleteAsked \/ StopAtNode
         \/ UNCHANGED vars
  PROVE  TurnInv' /\ LineInv'
<1>1. UNCHANGED <<rows, waiting, current, steered, dropped, cut, refused, deleted>>
  BY DEF Hands, SteerLands, SteerNoted, SteerFails, LastLook, StopAsked, KillLands, TakeBackFile, Listed,
         Agent, AgentReads, AgentFinishes, AgentGone, NodeNotices, ToolResult, ShareSpent, ShareReopens,
         DeleteAsked, StopAtNode, traces, others, steering, vars
<1> QED BY <1>1, Quiet

LEMMA TurnStep ==
  ASSUME TurnInv, LineInv, [Next]_vars
  PROVE  TurnInv' /\ LineInv'
<1>1. CASE \E m \in Messages : Ask(m) \/ Hands(m) \/ SteerFails(m)
  BY <1>1, Asking, Others
<1>2. CASE \E t \in Turns : Works(t) \/ StreamBreaks(t) \/ StopAsked(t) \/ KillLands(t)
  BY <1>2, Runs, TakingBack, Ending, EndingGone, Others DEF Works
<1>3. CASE \E n \in Notes : AccessAsked(n) \/ AccessAnswered(n)
  BY <1>3, AgentAsks, Answering
<1>4. CASE \E w \in Looks : Checks(w)
  BY <1>4, Looking, Others DEF Checks
<1>5. CASE Agent \/ ToolResult \/ ShareSpent \/ ShareReopens \/ DeleteAsked \/ StopAtNode \/ UNCHANGED vars
  BY <1>5, Others
<1>6. CASE StopAborts \/ Removed \/ Restart
  BY <1>6, StopAborting, Removing, Restarting
<1> QED BY <1>1, <1>2, <1>3, <1>4, <1>5, <1>6 DEF Next

LEMMA TurnInit == Init => TurnInv /\ LineInv
<1> SUFFICES ASSUME Init PROVE TurnInv /\ LineInv
  OBVIOUS
<1>1. /\ row = [t \in Turns |-> "none"] /\ last = 0 /\ at = [t \in Turns |-> "none"]
      /\ prompt = [t \in Turns |-> {}] /\ aborted = [t \in Turns |-> FALSE] /\ outcome = [t \in Turns |-> "none"]
      /\ queue = {} /\ carry = {} /\ requests \in SUBSET Notes /\ sent = requests /\ current = 1
  BY DEF Init
<1>2. Used = {}
  BY <1>1 DEF Used
<1>3. RowsOK /\ TurnDriven
  BY <1>1, ItemsFinite DEF RowsOK, TurnDriven, Running, UnderWay, Ended
<1>4. OwnItems /\ OneSetEach
  BY <1>1, <1>2, FS_EmptySet DEF OwnItems, OneSetEach, BeforeTaking
<1>5. LineInv
  <2>1. sent \cap Messages = {}
    BY <1>1, QueueAssumption
  <2> QED BY <1>1, <2>1 DEF LineInv, WaitingOK, WaitingServed, NothingLost, Items
<1> QED BY <1>3, <1>4, <1>5 DEF TurnInv

\* index.ts, run and startTurn: whatever is sent, stopped, deleted, fails or restarts, at most one
\* turn runs, the last, and a run() is under way exactly for a turn that runs.
THEOREM OneTurnAtATime == Spec => []TurnDriven
<1>1. TurnInv => TurnDriven
  BY DEF TurnInv
<1> QED BY <1>1, TurnInit, TurnStep, PTL DEF Spec

\* index.ts, run: what waits, some turn under way will take up at its end.
THEOREM LineIsServed == Spec => []WaitingServed
<1>1. LineInv => WaitingServed
  BY DEF LineInv
<1> QED BY <1>1, TurnInit, TurnStep, PTL DEF Spec

\* index.ts, ask and run: each message waits, was put to a turn, or the timeline says what became of
\* it, but for a restart, a deleted chat and a share used up.
THEOREM NoMessageLost == Spec => []NothingLost
<1>1. LineInv => NothingLost
  BY DEF LineInv
<1> QED BY <1>1, TurnInit, TurnStep, PTL DEF Spec

-----------------------------------------------------------------------------
(***************************************************************************)
(* The types of all that is left.                                          *)
(***************************************************************************)

Sets == 1..Cardinality(Items) + 1
RestOK == SteeringOK /\ NodeOK /\ TracesOK /\ OthersOK

LEMMA SetsEnough ==
  ASSUME NEW set \in Nat \ {0}, NEW turn \in 0..Cardinality(Items), set <= turn + 1
  PROVE  set \in Sets
BY ItemsFinite DEF Sets

LEMMA SteeringTypes ==
  ASSUME TurnInv, TurnInv', SteeringOK, NodeOK, [Next]_vars
  PROVE  SteeringOK'
<1>1. current \in Sets /\ current' \in Sets
  <2>1. current \in Nat \ {0} /\ current <= last + 1 /\ last \in 0..Cardinality(Items)
    BY DEF TurnInv, OneSetEach, RowsOK
  <2>2. current' \in Nat \ {0} /\ current' <= last' + 1 /\ last' \in 0..Cardinality(Items)
    BY DEF TurnInv, OneSetEach, RowsOK
  <2> QED BY <2>1, <2>2, SetsEnough
<1>2. /\ handing \subseteq Messages /\ written \subseteq Messages /\ takeback \subseteq Messages
      /\ pending \in [Sets -> SUBSET Messages] /\ files \subseteq Messages
      /\ looks \in [Looks -> [pc : {"none", "asked", "listed"}, set : Sets, left : SUBSET Messages]]
  BY DEF SteeringOK, NodeOK, Sets
<1>3. 1 \in Sets
  BY ItemsFinite DEF Sets
<1>0. ASSUME handing' \subseteq Messages, written' \subseteq Messages, takeback' \subseteq Messages,
             pending' \in [Sets -> SUBSET Messages],
             looks' \in [Looks -> [pc : {"none", "asked", "listed"}, set : Sets, left : SUBSET Messages]]
      PROVE  SteeringOK'
  BY <1>0, <1>1 DEF SteeringOK, Sets
<1>4. CASE UNCHANGED steering
  BY <1>4 DEF SteeringOK, steering
<1>5. CASE \E m \in Messages : Ask(m) \/ Hands(m) \/ SteerFails(m)
  <2>1. PICK m \in Messages : Ask(m) \/ SteerLands(m) \/ SteerNoted(m) \/ SteerFails(m)
    BY <1>5 DEF Hands
  <2>2. handing' \subseteq Messages /\ written' \subseteq Messages /\ UNCHANGED <<looks, takeback>>
    BY <1>2, <2>1 DEF Ask, SteerLands, SteerNoted, SteerFails
  <2>3. pending' = pending \/ pending' = [pending EXCEPT ![current] = @ \cup {m}]
    BY <2>1 DEF Ask, SteerLands, SteerNoted, SteerFails
  <2>4. pending' \in [Sets -> SUBSET Messages]
    BY <1>2, <2>3
  <2> QED BY <1>0, <1>2, <2>2, <2>4
<1>6. CASE ToolResult \/ \E t \in Turns : LastLook(t)
  <2>1. UNCHANGED <<handing, written, takeback, pending>>
    BY <1>6 DEF ToolResult, LastLook
  <2>2. \E who \in Looks : looks' = [looks EXCEPT ![who] = [pc |-> "asked", set |-> current, left |-> {}]]
    BY <1>6 DEF ToolResult, LastLook, Look, Looks
  <2>3. looks' \in [Looks -> [pc : {"none", "asked", "listed"}, set : Sets, left : SUBSET Messages]]
    BY <1>1, <1>2, <2>2
  <2> QED BY <1>0, <1>2, <2>1, <2>3
<1>7. CASE \E w \in Looks : Listed(w)
  <2>1. UNCHANGED <<handing, written, takeback, pending>>
    BY <1>7 DEF Listed
  <2>2. looks' \in [Looks -> [pc : {"none", "asked", "listed"}, set : Sets, left : SUBSET Messages]]
    <3>1. PICK w \in Looks : looks' = [looks EXCEPT ![w] = [looks[w] EXCEPT !.pc = "listed", !.left = files]]
      BY <1>7 DEF Listed
    <3>2. [looks[w] EXCEPT !.pc = "listed", !.left = files]
            \in [pc : {"none", "asked", "listed"}, set : Sets, left : SUBSET Messages]
      BY <1>2
    <3> QED BY <1>2, <3>1, <3>2
  <2> QED BY <1>0, <1>2, <2>1, <2>2
<1>8. CASE \E w \in Looks : LookAnswered(w) \/ LookFails(w)
  <2>1. PICK w \in Looks : LookAnswered(w) \/ LookFails(w)
    BY <1>8
  <2>2. NoLook \in [pc : {"none", "asked", "listed"}, set : Sets, left : SUBSET Messages]
    BY <1>3 DEF NoLook
  <2>3. looks' \in [Looks -> [pc : {"none", "asked", "listed"}, set : Sets, left : SUBSET Messages]]
    BY <1>2, <2>1, <2>2 DEF LookAnswered, LookFails, LookOver
  <2>4. pending' \in [Sets -> SUBSET Messages] /\ UNCHANGED <<handing, written, takeback>>
    BY <1>2, <2>1 DEF LookAnswered, LookFails
  <2> QED BY <1>0, <1>2, <2>3, <2>4
<1>9. CASE \E t \in Turns : TakeBack(t) \/ \E m \in Messages : TakeBackFile(t, m)
  <2>1. takeback' \subseteq Messages
    BY <1>1, <1>2, <1>9 DEF TakeBack, TakeBackFile
  <2>2. UNCHANGED <<handing, written, pending, looks>>
    BY <1>9 DEF TakeBack, TakeBackFile
  <2> QED BY <1>0, <1>2, <2>1, <2>2
<1>10. CASE Restart
  <2>1. /\ handing' = {} /\ written' = {} /\ takeback' = {} /\ pending' = [g \in Sets |-> {}]
        /\ looks' = [w \in Looks |-> NoLook]
    BY <1>2, <1>10 DEF Restart
  <2> QED BY <1>1, <1>3, <2>1 DEF SteeringOK, Sets, NoLook
<1>11. CASE Agent \/ ShareSpent \/ ShareReopens \/ DeleteAsked \/ StopAtNode \/ StopAborts \/ Removed
            \/ UNCHANGED vars
  BY <1>4, <1>11 DEF Agent, AgentReads, AgentFinishes, AgentGone, NodeNotices, ShareSpent, ShareReopens,
     DeleteAsked, StopAtNode, StopAborts, Removed, vars
<1>12. CASE \E n \in Notes : AccessAsked(n) \/ AccessAnswered(n)
  BY <1>4, <1>12 DEF AccessAsked, AccessAnswered
<1>13. CASE \E t \in Turns : \/ Begin(t) \/ EnsureFails(t) \/ AgentStarts(t) \/ Aborts(t) \/ StreamEnds(t)
                             \/ EndTurn(t) \/ EndTurnGone(t) \/ StreamBreaks(t) \/ StopAsked(t) \/ KillLands(t)
  BY <1>4, <1>13 DEF Begin, EnsureFails, AgentStarts, Aborts, StreamEnds, EndTurn, EndTurnGone, StreamBreaks,
     StopAsked, KillLands
<1> QED BY <1>5, <1>6, <1>7, <1>8, <1>9, <1>10, <1>11, <1>12, <1>13 DEF Next, Works, Checks

LEMMA NodeTypes ==
  ASSUME TurnInv, RestOK, [Next]_vars
  PROVE  NodeOK'
<1>1. CASE UNCHANGED node
  BY <1>1 DEF RestOK, NodeOK, Busy, node
<1> DEFINE A == [pc : {"none", "working", "closing"}, turn : 0..Cardinality(Items), cancelled : BOOLEAN, ok : BOOLEAN]
<1>2. /\ files \subseteq Messages /\ kills \subseteq Turns /\ agent \in A /\ (agent.pc # "none" => agent.turn \in Turns)
      /\ told \in [Items -> SUBSET {"prompt", "file", "back", "late"}]
      /\ handing \subseteq Messages /\ written \subseteq Messages
  BY DEF RestOK, NodeOK, SteeringOK, Busy
<1>3. NoAgent \in A /\ NoAgent.pc = "none"
  BY ItemsFinite DEF NoAgent
<1>4. \A ok \in BOOLEAN : Closes(ok) /\ agent.pc = "working" => agent' \in A /\ agent'.turn \in Turns
  BY <1>2 DEF Closes
<1>5. Cancelled => agent' \in A /\ (agent'.pc # "none" => agent'.turn \in Turns) /\ kills' \subseteq Turns
  BY <1>2 DEF Cancelled, Busy
<1>6. CASE \E m \in Messages : SteerLands(m) \/ SteerNoted(m)
  <2>1. UNCHANGED <<agent, kills>> /\ files' \subseteq Messages
    BY <1>2, <1>6 DEF SteerLands, SteerNoted
  <2>2. told' \in [Items -> SUBSET {"prompt", "file", "back", "late"}]
    BY <1>2, <1>6 DEF SteerLands, SteerNoted
  <2> QED BY <1>2, <2>1, <2>2 DEF NodeOK, Busy
<1>7. CASE \E t \in Turns : AgentStarts(t)
  <2>1. PICK t \in Turns : AgentStarts(t)
    BY <1>7
  <2>2. UNCHANGED <<files, kills>>
    BY <2>1 DEF AgentStarts
  <2>3. told' \in [Items -> SUBSET {"prompt", "file", "back", "late"}]
    BY <1>2, <2>1 DEF AgentStarts
  <2>4. agent' \in A /\ (agent'.pc # "none" => agent'.turn \in Turns)
    <3>1. CASE Busy
      BY <1>2, <2>1, <3>1 DEF AgentStarts
    <3>2. CASE ~Busy
      <4>1. agent' = [NoAgent EXCEPT !.pc = "working", !.turn = t]
        BY <2>1, <3>2 DEF AgentStarts
      <4>2. t \in 0..Cardinality(Items)
        BY ItemsFinite DEF Turns
      <4> QED BY <4>1, <4>2 DEF NoAgent
    <3> QED BY <3>1, <3>2
  <2> QED BY <1>2, <2>2, <2>3, <2>4 DEF NodeOK, Busy
<1>8. CASE (\E t \in Turns : StreamEnds(t)) \/ AgentGone
  <2>1. UNCHANGED <<files, kills, told>> /\ agent' = NoAgent
    BY <1>8 DEF StreamEnds, AgentGone
  <2> QED BY <1>2, <1>3, <2>1 DEF NodeOK, Busy
<1>9. CASE \E t \in Turns, m \in Messages : TakeBackFile(t, m)
  <2>1. UNCHANGED <<agent, kills>> /\ files' \subseteq Messages
    BY <1>2, <1>9 DEF TakeBackFile
  <2>2. told' \in [Items -> SUBSET {"prompt", "file", "back", "late"}]
    BY <1>2, <1>9 DEF TakeBackFile
  <2> QED BY <1>2, <2>1, <2>2 DEF NodeOK, Busy
<1>10. CASE AgentReads
  BY <1>2, <1>10 DEF AgentReads, NodeOK, Busy
<1>11. CASE AgentFinishes
  <2>1. UNCHANGED <<files, kills, told>> /\ agent' \in A /\ agent'.turn \in Turns
    BY <1>4, <1>11 DEF AgentFinishes
  <2> QED BY <1>2, <2>1 DEF NodeOK, Busy
<1>12. CASE NodeNotices \/ StopAtNode
  <2>1. UNCHANGED <<files, told>> /\ (Cancelled \/ UNCHANGED <<agent, kills>>)
    BY <1>12 DEF NodeNotices, StopAtNode
  <2> QED BY <1>2, <1>5, <2>1 DEF NodeOK, Busy
<1>13. CASE (\E t \in Turns : KillLands(t)) \/ Removed
  <2>1. /\ files' \subseteq Messages /\ kills' \subseteq Turns /\ UNCHANGED told
        /\ UNCHANGED agent \/ (agent.pc = "working" /\ Closes(FALSE))
    BY <1>2, <1>13 DEF KillLands, Removed
  <2> QED BY <1>2, <1>4, <2>1 DEF NodeOK, Busy
<1>14. CASE Restart
  BY <1>2, <1>14 DEF Restart, NodeOK, Busy
<1>15. CASE \/ \E m \in Messages : Ask(m) \/ SteerFails(m)
            \/ \E n \in Notes : AccessAsked(n) \/ AccessAnswered(n)
            \/ \E w \in Looks : Checks(w)
            \/ ToolResult \/ ShareSpent \/ ShareReopens \/ DeleteAsked \/ StopAborts \/ UNCHANGED vars
  BY <1>1, <1>15 DEF Ask, SteerFails, AccessAsked, AccessAnswered, Checks, Listed, LookAnswered, LookFails,
     ToolResult, ShareSpent, ShareReopens, DeleteAsked, StopAborts, vars
<1>16. CASE \E t \in Turns : \/ Begin(t) \/ EnsureFails(t) \/ Aborts(t) \/ LastLook(t) \/ TakeBack(t)
                             \/ EndTurn(t) \/ EndTurnGone(t) \/ StreamBreaks(t) \/ StopAsked(t)
  BY <1>1, <1>16 DEF Begin, EnsureFails, Aborts, LastLook, TakeBack, EndTurn, EndTurnGone, StreamBreaks, StopAsked
<1> QED BY <1>6, <1>7, <1>8, <1>9, <1>10, <1>11, <1>12, <1>13, <1>14, <1>15, <1>16 DEF Next, Works, Hands, Agent

LEMMA TraceTypes ==
  ASSUME LineInv, SteeringOK, TracesOK, [Next]_vars
  PROVE  TracesOK'
<1>1. CASE UNCHANGED traces
  BY <1>1 DEF TracesOK, traces
<1>2. CASE \E w \in Looks : LookAnswered(w)
  BY <1>2 DEF LookAnswered, TracesOK, SteeringOK
<1>3. CASE \E t \in Turns : EndTurn(t)
  <2>1. queue \cup carry \subseteq Messages \cup Notes /\ queue \subseteq Messages
    BY DEF LineInv, WaitingOK
  <2>2. dropped' \subseteq dropped \cup queue /\ refused' \subseteq refused \cup ((queue \cup carry) \ Notes)
        /\ UNCHANGED <<steered, cut>>
    BY <1>3 DEF EndTurn
  <2> QED BY <2>1, <2>2 DEF TracesOK
<1>4. CASE Restart
  BY <1>4 DEF Restart, TracesOK, LineInv, WaitingOK
<1>5. CASE \/ \E m \in Messages : Ask(m) \/ Hands(m) \/ SteerFails(m)
           \/ \E n \in Notes : AccessAsked(n) \/ AccessAnswered(n)
           \/ \E w \in Looks : Listed(w) \/ LookFails(w)
           \/ Agent \/ ToolResult \/ ShareSpent \/ ShareReopens \/ DeleteAsked \/ StopAtNode \/ StopAborts
           \/ Removed \/ UNCHANGED vars
  BY <1>1, <1>5 DEF Ask, Hands, SteerLands, SteerNoted, SteerFails, AccessAsked, AccessAnswered, Listed, LookFails,
     Agent, AgentReads, AgentFinishes, AgentGone, NodeNotices, ToolResult, ShareSpent, ShareReopens, DeleteAsked,
     StopAtNode, StopAborts, Removed, vars
<1>6. CASE \E t \in Turns : \/ Begin(t) \/ EnsureFails(t) \/ AgentStarts(t) \/ Aborts(t) \/ StreamEnds(t)
                            \/ LastLook(t) \/ TakeBack(t) \/ (\E m \in Messages : TakeBackFile(t, m))
                            \/ EndTurnGone(t) \/ StreamBreaks(t) \/ StopAsked(t) \/ KillLands(t)
  BY <1>1, <1>6 DEF Begin, EnsureFails, AgentStarts, Aborts, StreamEnds, LastLook, TakeBack, TakeBackFile,
     EndTurnGone, StreamBreaks, StopAsked, KillLands
<1> QED BY <1>2, <1>3, <1>4, <1>5, <1>6 DEF Next, Works, Checks

LEMMA OtherTypes ==
  ASSUME OthersOK, [Next]_vars
  PROVE  OthersOK'
<1> USE ItemsFinite
<1> DEFINE S == [pc : {"none", "cancel", "abort", "remove"}, turn : 0..Cardinality(Items), delete : BOOLEAN]
<1>9. stopper \in S /\ (stopper.pc \in {"cancel", "abort"} => stopper.turn \in Turns)
  BY DEF OthersOK
<1>10. NoStop \in S /\ NoStop.pc = "none"
  BY DEF NoStop
<1>11. ASSUME stopper' \in S, stopper'.pc \in {"cancel", "abort"} => stopper'.turn \in Turns,
              UNCHANGED <<spent, deleted, restarts>>
       PROVE  OthersOK'
  BY <1>11 DEF OthersOK
<1>1. CASE UNCHANGED others
  BY <1>1 DEF OthersOK, others
<1>2. CASE ShareSpent \/ ShareReopens
  BY <1>2 DEF ShareSpent, ShareReopens, OthersOK
<1>3. CASE (\E t \in Turns : StopAsked(t)) \/ DeleteAsked
  <2>1. UNCHANGED <<spent, deleted, restarts>>
    BY <1>3 DEF StopAsked, DeleteAsked
  <2>2. \/ \E t \in Turns, d \in BOOLEAN : stopper' = [pc |-> "cancel", turn |-> t, delete |-> d]
        \/ stopper' = [NoStop EXCEPT !.pc = "remove", !.delete = TRUE]
    <3>1. ~Idle => (CHOOSE t \in Turns : Running(t)) \in Turns
      BY DEF Idle
    <3> QED BY <1>3, <3>1 DEF StopAsked, DeleteAsked
  <2>3. Turns \subseteq 0..Cardinality(Items)
    BY DEF Turns
  <2>4. stopper' \in S /\ (stopper'.pc \in {"cancel", "abort"} => stopper'.turn \in Turns)
    <3>1. CASE stopper' = [NoStop EXCEPT !.pc = "remove", !.delete = TRUE]
      BY <1>10, <3>1
    <3>2. CASE \E t \in Turns, d \in BOOLEAN : stopper' = [pc |-> "cancel", turn |-> t, delete |-> d]
      BY <2>3, <3>2
    <3> QED BY <2>2, <3>1, <3>2
  <2> QED BY <1>11, <2>1, <2>4
<1>4. CASE StopAtNode \/ StopAborts
  <2>1. UNCHANGED <<spent, deleted, restarts>> /\ stopper.pc \in {"cancel", "abort"}
    BY <1>4 DEF StopAtNode, StopAborts
  <2>2. stopper' = NoStop \/ \E pc \in {"abort", "remove"} : stopper' = [stopper EXCEPT !.pc = pc]
    BY <1>4 DEF StopAtNode, StopAborts
  <2> QED BY <1>9, <1>10, <1>11, <2>1, <2>2
<1>5. CASE Removed
  BY <1>5 DEF Removed, OthersOK, NoStop
<1>6. CASE Restart
  BY <1>6, QueueAssumption DEF Restart, OthersOK, NoStop
<1>7. CASE \/ \E m \in Messages : Ask(m) \/ Hands(m) \/ SteerFails(m)
           \/ \E n \in Notes : AccessAsked(n) \/ AccessAnswered(n)
           \/ \E w \in Looks : Checks(w)
           \/ Agent \/ ToolResult \/ UNCHANGED vars
  BY <1>1, <1>7 DEF Ask, Hands, SteerLands, SteerNoted, SteerFails, AccessAsked, AccessAnswered, Checks, Listed,
     LookAnswered, LookFails, Agent, AgentReads, AgentFinishes, AgentGone, NodeNotices, ToolResult, vars
<1>8. CASE \E t \in Turns : Works(t) \/ StreamBreaks(t) \/ KillLands(t)
  BY <1>1, <1>8 DEF Works, Begin, EnsureFails, AgentStarts, Aborts, StreamEnds, LastLook, TakeBack, TakeBackFile,
     EndTurn, EndTurnGone, StreamBreaks, KillLands
<1> QED BY <1>2, <1>3, <1>4, <1>5, <1>6, <1>7, <1>8 DEF Next

LEMMA TypeInit == Init => RestOK
<1> SUFFICES ASSUME Init PROVE RestOK
  OBVIOUS
<1> USE ItemsFinite
<1>1. SteeringOK
  <2>1. NoLook \in [pc : {"none", "asked", "listed"}, set : 1..Cardinality(Items) + 1, left : SUBSET Messages]
    BY DEF NoLook
  <2> QED BY <2>1 DEF Init, SteeringOK
<1>2. NodeOK
  <2>1. /\ NoAgent \in [pc : {"none", "working", "closing"}, turn : 0..Cardinality(Items), cancelled : BOOLEAN, ok : BOOLEAN]
        /\ NoAgent.pc = "none"
    BY DEF NoAgent
  <2> QED BY <2>1 DEF Init, NodeOK, Busy
<1>3. TracesOK
  BY DEF Init, TracesOK
<1>4. OthersOK
  <2>1. /\ NoStop \in [pc : {"none", "cancel", "abort", "remove"}, turn : 0..Cardinality(Items), delete : BOOLEAN]
        /\ NoStop.pc = "none"
    BY DEF NoStop
  <2>2. 0 \in 0..MaxRestarts
    BY QueueAssumption
  <2>3. stopper = NoStop /\ spent = FALSE /\ deleted = FALSE /\ restarts = 0
    BY DEF Init
  <2> QED BY <2>1, <2>2, <2>3, Zenon DEF OthersOK
<1> QED BY <1>1, <1>2, <1>3, <1>4 DEF RestOK

\* Every variable stays in its type; turns and Sets are enough, as each turn starts with something of
\* its own and lets go of one Set.
THEOREM TypeInvariant == Spec => []TypeOK
<1>1. TurnInv /\ LineInv /\ RestOK /\ [Next]_vars => (TurnInv /\ LineInv /\ RestOK)'
  BY TurnStep, SteeringTypes, NodeTypes, TraceTypes, OtherTypes DEF RestOK
<1>2. TurnInv /\ LineInv /\ RestOK => TypeOK
  BY DEF TurnInv, LineInv, RestOK, TypeOK
<1> QED BY <1>1, <1>2, TurnInit, TypeInit, PTL DEF Spec

-----------------------------------------------------------------------------
(***************************************************************************)
(* What the timeline says was read.                                        *)
(***************************************************************************)

Known(m) == told[m] \cap {"file", "back", "late"} # {}

\* Each message is handed over once, and noted in one Set.
HandedOnce ==
  /\ handing \cap written = {} /\ (handing \cup written) \cap takeback = {}
  /\ handing \cup written \cup takeback \subseteq sent
  /\ \A g \in Sets : pending[g] \cap (handing \cup written) = {} /\ pending[g] \subseteq sent
  /\ pending[current] \cap takeback = {}
  /\ \A g \in Sets : g > current => pending[g] = {}

\* What a look takes for read has been, or is one of those it takes for read wrongly.
LooksRight ==
  /\ \A m \in pending[current] \cup written : m \in files \/ Known(m)
  /\ \A w \in Looks : looks[w].pc = "asked" => \A m \in pending[looks[w].set] : m \in files \/ Known(m)
  /\ \A w \in Looks : looks[w].pc = "listed" => \A m \in pending[looks[w].set] : m \in looks[w].left \/ Known(m)

LastLookAwaited == looks["last"].pc # "none" => \E t \in Turns : at[t] = "look"

ReadInv == HandedOnce /\ (deleted \/ LooksRight) /\ LastLookAwaited /\ SaidRead

\* Nothing is handed over, noted or looked at: what is known is known still.
LEMMA KnownStays ==
  ASSUME SteeringOK, TurnInv, ReadInv, UNCHANGED <<steering, steered>>, sent \subseteq sent', deleted => deleted',
         deleted' \/ \A m \in Messages : m \in files => m \in files' \/ Known(m)',
         NodeOK, TracesOK, \A m \in Messages : Known(m) => Known(m)',
         \A t \in Turns : at[t] = "look" => at'[t] = "look"
  PROVE  ReadInv'
<1> USE DEF steering
<1>1. HandedOnce'
  BY DEF ReadInv, HandedOnce
<1>2. /\ pending[current] \subseteq Messages /\ written \subseteq Messages
      /\ \A w \in Looks : pending[looks[w].set] \subseteq Messages
  BY DEF SteeringOK
<1>3. deleted' \/ LooksRight'
  BY <1>2 DEF ReadInv, LooksRight
<1>4. LastLookAwaited'
  BY DEF ReadInv, LastLookAwaited
<1>5. SaidRead'
  BY DEF ReadInv, SaidRead, Known, TracesOK
<1> QED BY <1>1, <1>3, <1>4, <1>5 DEF ReadInv

LEMMA TurnsRead ==
  ASSUME TurnInv, LineInv, RestOK, ReadInv, NEW t \in Turns,
         \/ Begin(t) \/ EnsureFails(t) \/ AgentStarts(t) \/ Aborts(t) \/ StreamEnds(t) \/ StreamBreaks(t)
         \/ EndTurn(t) \/ EndTurnGone(t)
  PROVE  ReadInv'
<1>1. UNCHANGED <<steering, steered, sent, deleted, files>>
  BY DEF Begin, EnsureFails, AgentStarts, Aborts, StreamEnds, StreamBreaks, EndTurn, EndTurnGone, Finish,
     waiting, node, traces, others
<1>2. UNCHANGED told \/ told' = [i \in Items |-> told[i] \cup IF i \in prompt[t] THEN {"prompt"} ELSE {}]
  BY DEF Begin, EnsureFails, AgentStarts, Aborts, StreamEnds, StreamBreaks, EndTurn, EndTurnGone, node
<1>3. \A m \in Messages : Known(m) => Known(m)'
  BY <1>2 DEF Known, Items
<1>4. \A u \in Turns : at[u] = "look" => at'[u] = "look"
  <2>1. CASE Begin(t) \/ EnsureFails(t) \/ AgentStarts(t) \/ Aborts(t) \/ StreamEnds(t) \/ StreamBreaks(t) \/ EndTurnGone(t)
    BY <2>1 DEF Begin, EnsureFails, AgentStarts, Aborts, StreamEnds, StreamBreaks, EndTurnGone, Finish, TurnInv, RowsOK
  <2>2. CASE EndTurn(t)
    <3>1. at[t] = "taking"
      BY <2>2 DEF EndTurn
    <3>2. \A u \in Turns : at[u] # "look"
      BY <3>1 DEF TurnInv, TurnDriven, UnderWay
    <3> QED BY <3>2
  <2> QED BY <2>1, <2>2
<1> QED BY <1>1, <1>3, <1>4, KnownStays DEF RestOK

\* A turn starts only when none is under way.
LEMMA StartsRead ==
  ASSUME TurnInv, LineInv, RestOK, ReadInv, NEW n \in Notes, AccessAsked(n) \/ AccessAnswered(n)
  PROVE  ReadInv'
<1>1. UNCHANGED <<steering, steered, deleted, files, told>> /\ sent \subseteq sent'
  BY DEF AccessAsked, AccessAnswered, node, traces, others
<1>2. \A u \in Turns : at[u] = "look" => at'[u] = "look"
  <2>1. CASE UNCHANGED rows
    BY <2>1 DEF rows
  <2>2. CASE ~UNCHANGED rows
    <3>1. Idle /\ ~deleted
      BY <2>2 DEF AccessAsked, AccessAnswered
    <3> QED BY <3>1, NothingUnderWay
  <2> QED BY <2>1, <2>2
<1>3. \A m \in Messages : Known(m) => Known(m)'
  BY <1>1 DEF Known
<1> QED BY <1>1, <1>2, <1>3, KnownStays DEF RestOK

LEMMA AroundRead ==
  ASSUME TurnInv, RestOK, ReadInv,
         \/ ShareSpent \/ ShareReopens \/ DeleteAsked \/ StopAtNode \/ StopAborts \/ Removed \/ Agent
         \/ \E t \in Turns : StopAsked(t) \/ KillLands(t)
         \/ UNCHANGED vars
  PROVE  ReadInv'
<1>1. UNCHANGED <<steering, steered, sent, at>> /\ (UNCHANGED deleted \/ deleted' = TRUE)
  BY DEF ShareSpent, ShareReopens, DeleteAsked, StopAtNode, StopAborts, Removed, Agent, AgentReads, AgentFinishes,
     AgentGone, NodeNotices, StopAsked, KillLands, steering, rows, waiting, traces, others, vars
<1>2. \/ UNCHANGED <<files, told>>
      \/ deleted' = TRUE /\ UNCHANGED told
      \/ told' = [i \in Items |-> told[i] \cup IF i \in files THEN {"file"} ELSE {}]
  BY DEF ShareSpent, ShareReopens, DeleteAsked, StopAtNode, StopAborts, Removed, Agent, AgentReads, AgentFinishes,
     AgentGone, NodeNotices, StopAsked, KillLands, node, vars
<1>3. \A m \in Messages : (Known(m) => Known(m)') /\ (deleted' \/ (m \in files => m \in files' \/ Known(m)'))
  BY <1>2 DEF Known, Items
<1> QED BY <1>1, <1>3, KnownStays DEF RestOK

LEMMA AskRead ==
  ASSUME TurnInv, RestOK, ReadInv, NEW m \in Messages, Ask(m)
  PROVE  ReadInv'
<1>1. /\ m \notin sent /\ sent' = sent \cup {m} /\ handing' \subseteq handing \cup {m}
      /\ UNCHANGED <<written, pending, current, looks, takeback, files, told, steered, deleted>>
  BY DEF Ask, node, traces, others
<1>2. HandedOnce'
  BY <1>1 DEF ReadInv, HandedOnce
<1>3. (deleted \/ LooksRight)' /\ SaidRead'
  BY <1>1 DEF ReadInv, LooksRight, SaidRead, Known
<1>4. \A u \in Turns : at[u] = "look" => at'[u] = "look"
  <2>1. CASE Idle
    <3>1. ~deleted
      BY DEF Ask
    <3> QED BY <2>1, <3>1, NothingUnderWay
  <2>2. CASE ~Idle
    BY <2>2 DEF Ask, rows
  <2> QED BY <2>1, <2>2
<1>5. LastLookAwaited'
  BY <1>1, <1>4 DEF ReadInv, LastLookAwaited
<1> QED BY <1>2, <1>3, <1>5 DEF ReadInv

LEMMA HandRead ==
  ASSUME TurnInv, RestOK, ReadInv, NEW m \in Messages, SteerLands(m) \/ SteerNoted(m) \/ SteerFails(m)
  PROVE  ReadInv'
<1>1. UNCHANGED <<at, sent, current, looks, takeback, steered, deleted>> /\ current \in Sets
  BY DEF SteerLands, SteerNoted, SteerFails, rows, waiting, traces, others, RestOK, SteeringOK, Sets
<1>2. pending \in [Sets -> SUBSET Messages] /\ \A w \in Looks : looks[w].set \in Sets
  BY DEF RestOK, SteeringOK, Sets
<1>3. LastLookAwaited'
  BY <1>1 DEF ReadInv, LastLookAwaited
<1>4. CASE SteerLands(m)
  <2>1. /\ m \in handing /\ handing' = handing \ {m} /\ written' = written \cup {m} /\ UNCHANGED <<pending, told>>
        /\ deleted \/ files' = files \cup {m}
    BY <1>4 DEF SteerLands
  <2>2. HandedOnce'
    BY <1>1, <2>1 DEF ReadInv, HandedOnce
  <2>3. (deleted \/ LooksRight)' /\ SaidRead'
    BY <1>1, <2>1 DEF ReadInv, LooksRight, SaidRead, Known
  <2> QED BY <1>3, <2>2, <2>3 DEF ReadInv
<1>5. CASE SteerNoted(m)
  <2>1. /\ m \in written /\ written' = written \ {m} /\ UNCHANGED <<handing, files>>
        /\ pending' = [pending EXCEPT ![current] = @ \cup {m}]
        /\ told' = [told EXCEPT ![m] = @ \cup IF Unlisted(m) THEN {"late"} ELSE {}]
    BY <1>5 DEF SteerNoted
  <2>2. pending'[current] = pending[current] \cup {m} /\ \A g \in Sets \ {current} : pending'[g] = pending[g]
    BY <1>1, <1>2, <2>1
  <2>3. HandedOnce'
    <3>1. \A g \in Sets : g > current => g # current
      BY <1>1, ItemsFinite DEF Sets
    <3>2. (\A g \in Sets : g > current' => pending'[g] = {}) /\ pending'[current'] \cap takeback' = {}
      BY <1>1, <2>1, <2>2, <3>1 DEF ReadInv, HandedOnce
    <3>3. \A g \in Sets : pending'[g] \cap (handing' \cup written') = {} /\ pending'[g] \subseteq sent'
      BY <1>1, <2>1, <2>2 DEF ReadInv, HandedOnce
    <3> QED BY <1>1, <2>1, <3>2, <3>3 DEF ReadInv, HandedOnce
  <2>4. DOMAIN told = Items /\ m \in Items
    BY DEF RestOK, NodeOK, Items
  <2>5. (\A i \in Messages : Known(i) => Known(i)') /\ (Unlisted(m) => Known(m)')
    BY <2>1, <2>4 DEF Known, Items
  <2>6. SaidRead'
    BY <1>1, <2>5 DEF ReadInv, SaidRead, Known, RestOK, TracesOK
  <2>7. ASSUME LooksRight PROVE LooksRight'
    <3>1. \A i \in pending'[current] \cup written' : i \in files \/ Known(i)'
      BY <1>1, <1>2, <2>1, <2>2, <2>5, <2>7 DEF LooksRight, RestOK, SteeringOK
    <3>2. ASSUME NEW w \in Looks, looks[w].pc = "asked", NEW i \in pending'[looks[w].set] PROVE i \in files \/ Known(i)'
      BY <1>1, <1>2, <2>1, <2>2, <2>5, <2>7, <3>2 DEF LooksRight
    <3>3. ASSUME NEW w \in Looks, looks[w].pc = "listed", NEW i \in pending'[looks[w].set] PROVE i \in looks[w].left \/ Known(i)'
      BY <1>1, <1>2, <2>1, <2>2, <2>5, <2>7, <3>3 DEF LooksRight, Unlisted
    <3> QED BY <1>1, <2>1, <3>1, <3>2, <3>3 DEF LooksRight
  <2> QED BY <1>1, <1>3, <2>3, <2>6, <2>7 DEF ReadInv
<1>6. CASE SteerFails(m)
  <2>1. handing' \subseteq handing /\ written' \subseteq written /\ UNCHANGED <<pending, told, files>>
    BY <1>6 DEF SteerFails, node
  <2>2. HandedOnce'
    BY <1>1, <2>1 DEF ReadInv, HandedOnce
  <2>3. (deleted \/ LooksRight)' /\ SaidRead'
    BY <1>1, <2>1 DEF ReadInv, LooksRight, SaidRead, Known
  <2> QED BY <1>3, <2>2, <2>3 DEF ReadInv
<1> QED BY <1>4, <1>5, <1>6

LEMMA LookBegins ==
  ASSUME RestOK, ReadInv, ToolResult \/ (\E t \in Turns : LastLook(t)) \/ (\E w \in Looks : Listed(w))
  PROVE  ReadInv'
<1>1. UNCHANGED <<at, sent, deleted, steered, handing, written, pending, current, takeback, files, told>>
  BY DEF ToolResult, LastLook, Listed, rows, waiting, node, traces, others
<1>2. HandedOnce' /\ SaidRead'
  BY <1>1 DEF ReadInv, HandedOnce, SaidRead
<1>3. DOMAIN looks = Looks
  BY DEF RestOK, SteeringOK
<1>4. LastLookAwaited'
  BY <1>1, <1>3 DEF ToolResult, LastLook, Listed, Look, ReadInv, LastLookAwaited, Looks
<1>5. ASSUME LooksRight PROVE LooksRight'
  <2>1. CASE ToolResult \/ \E t \in Turns : LastLook(t)
    <3>1. PICK who \in Looks : looks' = [looks EXCEPT ![who] = [pc |-> "asked", set |-> current, left |-> {}]]
      BY <2>1 DEF ToolResult, LastLook, Look, Looks
    <3>2. looks'[who].pc = "asked" /\ looks'[who].set = current /\ \A w \in Looks \ {who} : looks'[w] = looks[w]
      BY <1>3, <3>1
    <3> QED BY <1>1, <1>5, <3>2 DEF LooksRight, Known
  <2>2. CASE \E w \in Looks : Listed(w)
    <3>1. PICK who \in Looks : /\ looks[who].pc = "asked"
                               /\ looks' = [looks EXCEPT ![who] = [looks[who] EXCEPT !.pc = "listed", !.left = files]]
      BY <2>2 DEF Listed
    <3>2. looks[who] \in [pc : {"none", "asked", "listed"}, set : 1..Cardinality(Items) + 1, left : SUBSET Messages]
      BY DEF RestOK, SteeringOK
    <3>3. /\ looks'[who].pc = "listed" /\ looks'[who].set = looks[who].set /\ looks'[who].left = files
          /\ \A w \in Looks \ {who} : looks'[w] = looks[w]
      BY <1>3, <3>1, <3>2
    <3> QED BY <1>1, <1>5, <3>1, <3>3 DEF LooksRight, Known
  <2> QED BY <2>1, <2>2, <1>5
<1> QED BY <1>1, <1>2, <1>4, <1>5 DEF ReadInv

LEMMA LookEnds ==
  ASSUME RestOK, ReadInv, NEW who \in Looks, LookAnswered(who) \/ LookFails(who)
  PROVE  ReadInv'
<1>1. /\ at' = After(who) /\ looks' = [looks EXCEPT ![who] = NoLook]
      /\ UNCHANGED <<sent, deleted, handing, written, current, takeback, files, told>>
  BY DEF LookAnswered, LookFails, LookOver, waiting, node, others
<1>2. pending \in [Sets -> SUBSET Messages] /\ DOMAIN looks = Looks /\ current \in Sets /\ \A w \in Looks : looks[w].set \in Sets
  BY DEF RestOK, SteeringOK, Sets
<1>3. \A g \in Sets : pending'[g] \subseteq pending[g]
  BY <1>2 DEF LookAnswered, LookFails
<1>4. HandedOnce'
  BY <1>1, <1>2, <1>3 DEF ReadInv, HandedOnce
<1>5. looks'[who].pc = "none" /\ \A w \in Looks \ {who} : looks'[w] = looks[w]
  BY <1>1, <1>2 DEF NoLook
<1>6. LastLookAwaited'
  BY <1>1, <1>5 DEF ReadInv, LastLookAwaited, After, Looks
<1>7. ASSUME LooksRight PROVE LooksRight'
  BY <1>1, <1>2, <1>3, <1>5, <1>7 DEF LooksRight, Known
<1>8. SaidRead'
  <2>1. deleted \/ \A m \in steered' \ steered : looks[who].pc = "listed" /\ m \in pending[looks[who].set] \ looks[who].left
    BY DEF LookAnswered, LookFails, traces
  <2>2. deleted => steered' = steered
    BY DEF LookAnswered, LookFails, traces
  <2>3. \A m \in steered' \ steered : Known(m)
    BY <2>1, <2>2 DEF ReadInv, LooksRight
  <2> QED BY <1>1, <2>3 DEF ReadInv, SaidRead, Known
<1> QED BY <1>1, <1>4, <1>6, <1>7, <1>8 DEF ReadInv

LEMMA TakeBackRead ==
  ASSUME TurnInv, TurnInv', RestOK, ReadInv, NEW t \in Turns, TakeBack(t)
  PROVE  ReadInv'
<1>1. /\ at[t] = "takeback" /\ at' = [at EXCEPT ![t] = "taking"] /\ current' = current + 1 /\ takeback' = pending[current]
      /\ UNCHANGED <<sent, deleted, steered, handing, written, pending, looks, files, told>>
  BY DEF TakeBack, waiting, node, traces, others
<1>2. current \in Sets /\ current + 1 \in Sets /\ current + 1 > current /\ \A g \in Sets : g > current + 1 => g > current
  <2>1. current \in Nat \ {0} /\ current <= last + 1 /\ last \in 0..Cardinality(Items)
    BY DEF TurnInv, OneSetEach, RowsOK
  <2>2. current' \in Nat \ {0} /\ current' <= last' + 1 /\ last' \in 0..Cardinality(Items)
    BY DEF TurnInv, OneSetEach, RowsOK
  <2>3. current \in Sets /\ current' \in Sets
    BY <2>1, <2>2, SetsEnough
  <2> QED BY <1>1, <2>1, <2>3, ItemsFinite DEF Sets
<1>3. pending[current + 1] = {}
  BY <1>2 DEF ReadInv, HandedOnce
<1>4. HandedOnce'
  BY <1>1, <1>2, <1>3 DEF ReadInv, HandedOnce
<1>5. (deleted \/ LooksRight)' /\ SaidRead'
  BY <1>1, <1>3 DEF ReadInv, LooksRight, SaidRead, Known
<1>6. LastLookAwaited'
  <2>1. \A u \in Turns : at[u] # "look"
    BY <1>1 DEF TurnInv, TurnDriven, UnderWay
  <2> QED BY <1>1, <2>1 DEF ReadInv, LastLookAwaited
<1> QED BY <1>4, <1>5, <1>6 DEF ReadInv

LEMMA TakeFileRead ==
  ASSUME TurnInv, RestOK, ReadInv, NEW t \in Turns, NEW m \in Messages, TakeBackFile(t, m)
  PROVE  ReadInv'
<1>1. /\ at[t] = "taking" /\ m \in takeback /\ takeback' = takeback \ {m}
      /\ \/ /\ files' = files \ {m}
            /\ told' = [told EXCEPT ![m] = @ \cup IF looks["tool"].pc = "asked" THEN {"back"} ELSE {}]
         \/ UNCHANGED <<files, told>>
      /\ UNCHANGED <<at, sent, deleted, steered, handing, written, pending, current, looks>>
  BY DEF TakeBackFile, rows, waiting, traces, others
<1>2. looks["last"].pc = "none"
  <2>1. \A u \in Turns : at[u] # "look"
    BY <1>1 DEF TurnInv, TurnDriven, UnderWay
  <2> QED BY <2>1 DEF ReadInv, LastLookAwaited
<1>3. DOMAIN told = Items /\ m \in Items
  BY DEF RestOK, NodeOK, Items
<1>4. /\ \A i \in Items : Known(i) => Known(i)'
      /\ \A i \in Messages \ {m} : i \in files => i \in files'
      /\ looks["tool"].pc = "asked" => (m \in files => m \in files' \/ Known(m)')
  BY <1>1, <1>3 DEF Known
<1>5. HandedOnce' /\ LastLookAwaited'
  BY <1>1 DEF ReadInv, HandedOnce, LastLookAwaited
<1>6. SaidRead'
  BY <1>1, <1>4 DEF ReadInv, SaidRead, Known, RestOK, TracesOK, Items
<1>7. m \notin pending[current] \cup written
  BY <1>1 DEF ReadInv, HandedOnce
<1>8. /\ pending[current] \cup written \subseteq Messages /\ \A w \in Looks : pending[looks[w].set] \subseteq Messages
      /\ Messages \subseteq Items
  BY DEF RestOK, SteeringOK, Items
<1>9. ASSUME LooksRight PROVE LooksRight'
  <2>1. \A i \in pending[current] \cup written : i \in files' \/ Known(i)'
    BY <1>4, <1>7, <1>8, <1>9 DEF LooksRight
  <2>2. looks["tool"].pc = "asked" => \A i \in pending[looks["tool"].set] : i \in files' \/ Known(i)'
    BY <1>4, <1>8, <1>9 DEF LooksRight, Looks
  <2>3. \A w \in Looks : looks[w].pc = "listed" => \A i \in pending[looks[w].set] : i \in looks[w].left \/ Known(i)'
    BY <1>4, <1>8, <1>9 DEF LooksRight
  <2> QED BY <1>1, <1>2, <2>1, <2>2, <2>3 DEF LooksRight, Looks
<1> QED BY <1>1, <1>5, <1>6, <1>9 DEF ReadInv

LEMMA RestartRead ==
  ASSUME RestOK, ReadInv, Restart
  PROVE  ReadInv'
<1>1. /\ handing' = {} /\ written' = {} /\ takeback' = {} /\ \A g \in Sets : pending'[g] = {}
      /\ looks' = [w \in Looks |-> NoLook] /\ UNCHANGED <<sent, current, told, steered, deleted>>
  BY DEF Restart, RestOK, SteeringOK, Sets
<1>2. current \in Sets
  BY DEF RestOK, SteeringOK, Sets
<1>3. HandedOnce' /\ LastLookAwaited' /\ SaidRead' /\ LooksRight'
  BY <1>1, <1>2 DEF ReadInv, HandedOnce, LastLookAwaited, SaidRead, LooksRight, NoLook, Looks
<1> QED BY <1>3 DEF ReadInv

LEMMA ReadStep ==
  ASSUME TurnInv, LineInv, RestOK, ReadInv, TurnInv', [Next]_vars
  PROVE  ReadInv'
<1>1. CASE \E m \in Messages : Ask(m) \/ Hands(m) \/ SteerFails(m)
  BY <1>1, AskRead, HandRead DEF Hands
<1>2. CASE \E t \in Turns : Works(t) \/ StreamBreaks(t) \/ StopAsked(t) \/ KillLands(t)
  BY <1>2, TurnsRead, LookBegins, TakeBackRead, TakeFileRead, AroundRead DEF Works
<1>3. CASE \E n \in Notes : AccessAsked(n) \/ AccessAnswered(n)
  BY <1>3, StartsRead
<1>4. CASE ToolResult \/ \E w \in Looks : Checks(w)
  BY <1>4, LookBegins, LookEnds DEF Checks
<1>5. CASE Restart
  BY <1>5, RestartRead
<1>6. CASE Agent \/ ShareSpent \/ ShareReopens \/ DeleteAsked \/ StopAtNode \/ StopAborts \/ Removed \/ UNCHANGED vars
  BY <1>6, AroundRead
<1> QED BY <1>1, <1>2, <1>3, <1>4, <1>5, <1>6 DEF Next

LEMMA ReadInit == Init => ReadInv
<1> SUFFICES ASSUME Init PROVE ReadInv
  OBVIOUS
<1>1. /\ handing = {} /\ written = {} /\ takeback = {} /\ \A g \in Sets : pending[g] = {}
      /\ looks = [w \in Looks |-> NoLook] /\ steered = {} /\ current = 1 /\ 1 \in Sets
  BY ItemsFinite DEF Init, Sets
<1> QED BY <1>1 DEF ReadInv, HandedOnce, LooksRight, LastLookAwaited, SaidRead, NoLook, Looks

\* index.ts, checkSteered: however writes, looks, the agent's reading and taking back interleave, the
\* timeline says read only of what was, but for what a look after a tool's result takes for it.
THEOREM TimelineSaysRead == Spec => []SaidRead
<1>1. TurnInv /\ LineInv /\ RestOK /\ ReadInv /\ [Next]_vars => (TurnInv /\ LineInv /\ RestOK /\ ReadInv)'
  BY TurnStep, SteeringTypes, NodeTypes, TraceTypes, OtherTypes, ReadStep DEF RestOK
<1>2. ReadInv => SaidRead
  BY DEF ReadInv
<1> QED BY <1>1, <1>2, TurnInit, TypeInit, ReadInit, PTL DEF Spec
=============================================================================
