------------------------------ MODULE TurnQueue ------------------------------
(***************************************************************************)
(* What becomes of the messages sent to one chat (the Portal's             *)
(* lib/code/index.ts): one turn at a time, messages sent meanwhile kept in *)
(* line, handed to the running agent as files and taken back, stopping,    *)
(* deleting, and the Portal restarting.                                    *)
(*                                                                         *)
(* The Portal is one JavaScript thread: between two awaits nothing else    *)
(* runs, so each action is one such stretch, a step of the node that       *)
(* serves it (cli/internal/sandbox/turn.go), or one of the agent's hooks.  *)
(***************************************************************************)
EXTENDS Naturals, FiniteSets

CONSTANTS
  Messages,     \* what people send; each is sent once
  Steerable,    \* those with words and no attachments, handed over as files
  Notes,        \* answers about Drive access the agent should carry on with
  Rationed,     \* whether the people asking can use up their share of the plan
  Breaks,       \* whether calls to the node may fail and its stream may break
  MaxRestarts   \* bound on Portal restarts

ASSUME QueueAssumption ==
  /\ IsFiniteSet(Messages) /\ IsFiniteSet(Notes) /\ Messages \cap Notes = {}
  /\ Steerable \subseteq Messages
  /\ Rationed \in BOOLEAN /\ Breaks \in BOOLEAN
  /\ MaxRestarts \in Nat

Items == Messages \cup Notes
Turns == 1..Cardinality(Items)   \* each turn starts with an item of its own

VARIABLES
  row,       \* turns.state in the database
  last,      \* turns started so far
  at,        \* where each turn's run() is
  prompt,    \* what each turn's agent is asked
  aborted,   \* its controller.signal
  outcome,   \* how its stream ended
  queue,     \* live.queued
  carry,     \* live.carryOn
  requests,  \* access requests waiting for the person
  sent,      \* messages sent, or notes that came up, so far
  handing,   \* steer(): writes on their way to the node
  written,   \* ... and written, the answer on its way back
  pending,   \* the Set objects live.steering has held, by number
  current,   \* the one it holds now
  looks,     \* checkSteered calls: one started by a tool's result, and the last one
  takeback,  \* files unsteer has still to remove
  files,     \* .kimono/steer in the sandbox
  agent,     \* the node's turn: its agent, and space.busy
  kills,     \* turns whose cancelScript has still to run
  told,      \* how each item reached an agent, or which look took it for read
  steered,   \* messages the timeline says were read meanwhile
  dropped,   \* messages the timeline says were dropped
  cut,       \* what a Portal that restarted had in memory
  refused,   \* what waited when the person's share was used up
  stopper,   \* a stop or a delete under way
  spent,     \* the person's share is used up
  deleted,   \* the chat's row is gone
  restarts

rows     == <<row, last, at, prompt, aborted, outcome>>
waiting  == <<queue, carry, requests, sent>>
steering == <<handing, written, pending, current, looks, takeback>>
node     == <<files, agent, kills, told>>
traces   == <<steered, dropped, cut, refused>>
others   == <<stopper, spent, deleted, restarts>>
vars     == <<rows, waiting, steering, node, traces, others>>

NoLook  == [pc |-> "none", set |-> 1, left |-> {}]
NoAgent == [pc |-> "none", turn |-> 0, cancelled |-> FALSE, ok |-> FALSE]
NoStop  == [pc |-> "none", turn |-> 0, delete |-> FALSE]
Looks   == {"tool", "last"}

Running(t) == row[t] = "running"
Idle       == \A t \in Turns : ~Running(t)
Busy       == agent.pc # "none"

----------------------------------------------------------------------------
\* Sending

\* f once the next turn has started with items, if there are any.
Started(f, items, v) == IF items = {} THEN f ELSE [f EXCEPT ![last + 1] = v]

\* startTurn and run().
StartTurn(items) ==
  /\ last' = last + 1
  /\ row' = Started(row, items, "running")
  /\ at' = Started(at, items, "ensure")
  /\ prompt' = Started(prompt, items, items)
  /\ UNCHANGED <<aborted, outcome>>

\* Mutant: a message sent meanwhile starts a turn of its own.
Ask_NotInLine(m) ==
  /\ m \notin sent /\ ~deleted /\ ~spent
  /\ sent' = sent \cup {m}
  /\ StartTurn({m})
  /\ UNCHANGED <<queue, carry, requests, steering, node, traces, others>>

\* ask: starts a turn, or waits in line and is handed to the agent meanwhile.
Ask(m) ==
  /\ m \notin sent /\ ~deleted /\ ~spent
  /\ sent' = sent \cup {m}
  /\ IF Idle
     THEN /\ StartTurn({m})
          /\ UNCHANGED <<queue, handing>>
     ELSE /\ queue' = queue \cup {m}
          /\ handing' = handing \cup ({m} \cap Steerable)
          /\ UNCHANGED rows
  /\ UNCHANGED <<carry, requests, written, pending, current, looks, takeback,
                 node, traces, others>>

\* steer: the write reaches the sandbox, is answered, and is noted in the Set
\* live.steering holds by then.
SteerLands(m) ==
  /\ m \in handing
  /\ handing' = handing \ {m}
  /\ written' = written \cup {m}
  /\ files' = IF deleted THEN files ELSE files \cup {m}
  /\ UNCHANGED <<rows, waiting, pending, current, looks, takeback, agent, kills, told, traces, others>>

\* A look may be out that was listed before, and will miss it.
Unlisted(m) == \E w \in Looks : looks[w].pc = "listed" /\ looks[w].set = current /\ m \notin looks[w].left

SteerNoted(m) ==
  /\ m \in written
  /\ written' = written \ {m}
  /\ pending' = [pending EXCEPT ![current] = @ \cup {m}]
  /\ told' = [told EXCEPT ![m] = @ \cup IF Unlisted(m) THEN {"late"} ELSE {}]
  /\ UNCHANGED <<rows, waiting, handing, current, looks, takeback, files, agent, kills, traces, others>>

SteerFails(m) ==
  /\ Breaks
  /\ m \in handing \cup written
  /\ handing' = handing \ {m}
  /\ written' = written \ {m}
  /\ UNCHANGED <<rows, waiting, pending, current, looks, takeback, node, traces, others>>

----------------------------------------------------------------------------
\* A turn

\* wroteBack is settled: run() begins.
Begin(t) ==
  /\ at[t] = "wroteBack"
  /\ at' = [at EXCEPT ![t] = IF deleted THEN "over" ELSE "ensure"]
  /\ UNCHANGED <<row, last, prompt, aborted, outcome, waiting, steering, node, traces, others>>

\* finally: nothing is left to record to when the chat is gone; otherwise what
\* was handed over is looked at once more if there is any.
Finish(t, how) ==
  /\ outcome' = [outcome EXCEPT ![t] = how]
  /\ at' = [at EXCEPT ![t] = IF deleted THEN "over"
                             ELSE IF pending[current] = {} THEN "takeback" ELSE "look"]
  /\ queue' = IF deleted THEN {} ELSE queue
  /\ carry' = IF deleted THEN {} ELSE carry
  /\ aborted' = [aborted EXCEPT ![t] = FALSE]
  /\ UNCHANGED <<row, last, prompt, requests, sent>>

\* ensure and everything brought in first fail, or the chat is gone by then.
EnsureFails(t) ==
  /\ at[t] = "ensure"
  /\ Breaks \/ deleted
  /\ Finish(t, IF aborted[t] THEN "cancelled" ELSE "failed")
  /\ UNCHANGED <<steering, node, traces, others>>

\* POST turns: the node takes one turn at a time.
AgentStarts(t) ==
  /\ at[t] = "ensure" /\ ~aborted[t] /\ ~deleted
  /\ IF Busy
     THEN Finish(t, "failed") /\ UNCHANGED <<agent, told>>
     ELSE /\ agent' = [NoAgent EXCEPT !.pc = "working", !.turn = t]
          /\ told' = [i \in Items |-> told[i] \cup IF i \in prompt[t] THEN {"prompt"} ELSE {}]
          /\ at' = [at EXCEPT ![t] = "agent"]
          /\ UNCHANGED <<row, last, prompt, aborted, outcome, waiting>>
  /\ UNCHANGED <<steering, files, kills, traces, others>>

\* Stopped: the fetch, or reading its stream, throws.
Aborts(t) ==
  /\ at[t] \in {"ensure", "agent"} /\ aborted[t]
  /\ Finish(t, "cancelled")
  /\ UNCHANGED <<steering, node, traces, others>>

StreamBreaks(t) ==
  /\ Breaks
  /\ at[t] = "agent" /\ ~aborted[t]
  /\ Finish(t, "failed")
  /\ UNCHANGED <<steering, node, traces, others>>

\* kimono.done, and the end of the stream.
StreamEnds(t) ==
  /\ at[t] = "agent" /\ ~aborted[t]
  /\ agent.pc = "closing" /\ agent.turn = t
  /\ agent' = NoAgent
  /\ Finish(t, IF agent.cancelled THEN "cancelled" ELSE IF agent.ok THEN "done" ELSE "failed")
  /\ UNCHANGED <<steering, files, kills, told, traces, others>>

\* kimono.access: allowed already, or there is no such thing: it carries on with
\* that. Otherwise the person is asked.
AccessAsked(n) ==
  /\ n \in Notes \ sent
  /\ \E t \in Turns : at[t] = "agent"
  /\ sent' = sent \cup {n}
  /\ \/ carry' = carry \cup {n} /\ UNCHANGED requests
     \/ requests' = requests \cup {n} /\ UNCHANGED carry
  /\ UNCHANGED <<rows, queue, steering, node, traces, others>>

\* answerAccess, once what was allowed is open in the sandbox.
AccessAnswered(n) ==
  /\ n \in requests /\ ~deleted
  /\ requests' = requests \ {n}
  /\ IF Idle
     THEN /\ IF spent THEN UNCHANGED rows ELSE StartTurn({n})
          /\ UNCHANGED carry
     ELSE /\ carry' = carry \cup {n}
          /\ UNCHANGED rows
  /\ UNCHANGED <<queue, sent, steering, node, traces, others>>

\* kimono.usage takes the person past their share; later the window opens again.
ShareSpent ==
  /\ Rationed /\ ~spent
  /\ \E t \in Turns : at[t] = "agent"
  /\ spent' = TRUE
  /\ UNCHANGED <<rows, waiting, steering, node, traces, stopper, deleted, restarts>>

ShareReopens ==
  /\ spent
  /\ spent' = FALSE
  /\ UNCHANGED <<rows, waiting, steering, node, traces, stopper, deleted, restarts>>

----------------------------------------------------------------------------
\* Which handed-over messages were read

Look(who, set) == looks' = [looks EXCEPT ![who] = [pc |-> "asked", set |-> set, left |-> {}]]
LookOver(who)  == looks' = [looks EXCEPT ![who] = NoLook]

\* checkSteered after a tool's result, not waited for.
ToolResult ==
  /\ \E t \in Turns : at[t] = "agent"
  /\ pending[current] # {}
  /\ looks["tool"].pc = "none"     \* bound: one of these at a time
  /\ Look("tool", current)
  /\ UNCHANGED <<rows, waiting, handing, written, pending, current, takeback, node, traces, others>>

\* checkSteered once the stream has ended, waited for.
LastLook(t) ==
  /\ at[t] = "look"
  /\ looks["last"].pc = "none"
  /\ Look("last", current)
  /\ UNCHANGED <<rows, waiting, handing, written, pending, current, takeback, node, traces, others>>

\* The node lists the folder.
Listed(who) ==
  /\ looks[who].pc = "asked"
  /\ looks' = [looks EXCEPT ![who] = [@ EXCEPT !.pc = "listed", !.left = files]]
  /\ UNCHANGED <<rows, waiting, handing, written, pending, current, takeback, node, traces, others>>

After(who) == [t \in Turns |-> IF at[t] = "look" /\ who = "last" THEN "takeback" ELSE at[t]]

\* Mutant: whatever was handed over counts as read.
LookAnswered_Listed(who) ==
  LET look == looks[who]
      read == pending[look.set]
  IN
  /\ look.pc = "listed"
  /\ pending' = [pending EXCEPT ![look.set] = @ \ read]
  /\ queue' = queue \ read
  /\ steered' = IF deleted THEN steered ELSE steered \cup read
  /\ LookOver(who)
  /\ at' = After(who)
  /\ UNCHANGED <<row, last, prompt, aborted, outcome, carry, requests, sent,
                 handing, written, current, takeback, node, dropped, cut, refused, others>>

\* Those not listed any more have been read: out of the line, and on the timeline.
LookAnswered(who) ==
  LET look == looks[who]
      read == pending[look.set] \ look.left
  IN
  /\ look.pc = "listed"
  /\ pending' = [pending EXCEPT ![look.set] = @ \ read]
  /\ queue' = queue \ read
  /\ steered' = IF deleted THEN steered ELSE steered \cup read
  /\ LookOver(who)
  /\ at' = After(who)
  /\ UNCHANGED <<row, last, prompt, aborted, outcome, carry, requests, sent,
                 handing, written, current, takeback, node, dropped, cut, refused, others>>

\* Mutant: a last look that fails ends run() there.
LookFails_NotCaught(who) ==
  /\ Breaks
  /\ looks[who].pc # "none"
  /\ LookOver(who)
  /\ at' = [t \in Turns |-> IF at[t] = "look" /\ who = "last" THEN "over" ELSE at[t]]
  /\ UNCHANGED <<row, last, prompt, aborted, outcome, waiting, handing, written, pending,
                 current, takeback, node, traces, others>>

LookFails(who) ==
  /\ Breaks
  /\ looks[who].pc # "none"
  /\ LookOver(who)
  /\ at' = After(who)
  /\ UNCHANGED <<row, last, prompt, aborted, outcome, waiting, handing, written, pending,
                 current, takeback, node, traces, others>>

\* unsteer: the Set is let go of, and each file in it removed in turn.
TakeBack(t) ==
  /\ at[t] = "takeback"
  /\ takeback' = pending[current]
  /\ current' = current + 1
  /\ at' = [at EXCEPT ![t] = "taking"]
  /\ UNCHANGED <<row, last, prompt, aborted, outcome, waiting, handing, written, pending,
                 looks, node, traces, others>>

TakeBackFile(t, m) ==
  /\ at[t] = "taking" /\ m \in takeback
  /\ takeback' = takeback \ {m}
  /\ \/ files' = files \ {m}
        /\ told' = [told EXCEPT ![m] = @ \cup IF looks["tool"].pc = "asked" THEN {"back"} ELSE {}]
     \/ Breaks /\ UNCHANGED <<files, told>>
  /\ UNCHANGED <<rows, waiting, handing, written, pending, current, looks, agent, kills, traces, others>>
----------------------------------------------------------------------------
\* The end of a turn, in one stretch

\* Mutant: what waits is left in line for some later turn.
EndTurn_LeavesLine(t) ==
  LET stopped == outcome[t] = "cancelled"
  IN
  /\ at[t] = "taking" /\ takeback = {}
  /\ ~deleted
  /\ dropped' = IF stopped THEN dropped \cup queue ELSE dropped
  /\ queue' = IF stopped THEN {} ELSE queue
  /\ carry' = IF stopped THEN {} ELSE carry
  /\ row' = [row EXCEPT ![t] = outcome[t]]
  /\ at' = [at EXCEPT ![t] = "over"]
  /\ outcome' = [outcome EXCEPT ![t] = "none"]
  /\ UNCHANGED <<last, prompt, aborted, requests, sent, steering, node, steered, cut, refused, others>>

\* Mutant: stopping clears the line and says nothing of it.
EndTurn_DropsSilently(t) ==
  LET waits == IF outcome[t] = "cancelled" THEN {} ELSE queue \cup carry
      next  == IF spent THEN {} ELSE waits
  IN
  /\ at[t] = "taking" /\ takeback = {}
  /\ ~deleted
  /\ queue' = {} /\ carry' = {}
  /\ last' = IF next = {} THEN last ELSE last + 1
  /\ row' = Started([row EXCEPT ![t] = outcome[t]], next, "running")
  /\ at' = Started([at EXCEPT ![t] = "over"], next, "wroteBack")
  /\ prompt' = Started(prompt, next, next)
  /\ outcome' = [outcome EXCEPT ![t] = "none"]
  /\ UNCHANGED <<aborted, requests, sent, steering, node, traces, others>>

\* Stopped: what waited is dropped, and the timeline says so. Otherwise it is
\* the next turn, unless checkShare refuses the person: then it is nowhere.
EndTurn(t) ==
  LET stopped == outcome[t] = "cancelled"
      waits   == IF stopped THEN {} ELSE queue \cup carry
      next    == IF spent THEN {} ELSE waits
  IN
  /\ at[t] = "taking" /\ takeback = {}
  /\ ~deleted
  /\ dropped' = IF stopped THEN dropped \cup queue ELSE dropped
  /\ refused' = refused \cup (waits \ (next \cup Notes))
  /\ queue' = {} /\ carry' = {}
  /\ last' = IF next = {} THEN last ELSE last + 1
  /\ row' = Started([row EXCEPT ![t] = outcome[t]], next, "running")
  /\ at' = Started([at EXCEPT ![t] = "over"], next, "wroteBack")
  /\ prompt' = Started(prompt, next, next)
  /\ outcome' = [outcome EXCEPT ![t] = "none"]
  /\ UNCHANGED <<aborted, requests, sent, steering, node, steered, cut, others>>

\* The chat went while files were taken back: recording the outcome throws.
EndTurnGone(t) ==
  /\ at[t] = "taking" /\ takeback = {}
  /\ deleted
  /\ at' = [at EXCEPT ![t] = "over"]
  /\ outcome' = [outcome EXCEPT ![t] = "none"]
  /\ UNCHANGED <<row, last, prompt, aborted, waiting, steering, node, traces, others>>

----------------------------------------------------------------------------
\* The node and its agent

\* The hooks read what was handed over after a tool call, and when the agent
\* would finish: then it goes on.
AgentReads ==
  /\ agent.pc = "working"
  /\ files # {}
  /\ told' = [i \in Items |-> told[i] \cup IF i \in files THEN {"file"} ELSE {}]
  /\ files' = {}
  /\ UNCHANGED <<rows, waiting, steering, agent, kills, traces, others>>

Closes(ok) == agent' = [agent EXCEPT !.pc = "closing", !.ok = ok]

AgentFinishes ==
  /\ agent.pc = "working"
  /\ \/ files = {} /\ Closes(TRUE)
     \/ Breaks /\ Closes(FALSE)
  /\ UNCHANGED <<rows, waiting, steering, files, kills, told, traces, others>>

\* stop(): once for each turn; the script that kills the agent runs on its own.
Cancelled ==
  IF Busy /\ ~agent.cancelled
  THEN /\ agent' = [agent EXCEPT !.cancelled = TRUE]
       /\ kills' = kills \cup {agent.turn}
  ELSE UNCHANGED <<agent, kills>>

\* Nobody reads the turn's stream any more.
Unread == Busy /\ at[agent.turn] # "agent"

NodeNotices ==
  /\ Unread /\ ~agent.cancelled
  /\ Cancelled
  /\ UNCHANGED <<rows, waiting, steering, files, told, traces, others>>

\* cancelScript kills whatever agent the sandbox runs by then.
KillLands(t) ==
  /\ t \in kills
  /\ kills' = kills \ {t}
  /\ IF agent.pc = "working" THEN Closes(FALSE) ELSE UNCHANGED agent
  /\ UNCHANGED <<rows, waiting, steering, files, told, traces, others>>

AgentGone ==
  /\ Unread /\ agent.pc = "closing"
  /\ agent' = NoAgent
  /\ UNCHANGED <<rows, waiting, steering, files, kills, told, traces, others>>

----------------------------------------------------------------------------
\* Stopping, deleting, restarting

StopAsked(t) ==
  /\ stopper.pc = "none" /\ ~deleted /\ Running(t)
  /\ stopper' = [pc |-> "cancel", turn |-> t, delete |-> FALSE]
  /\ UNCHANGED <<rows, waiting, steering, node, traces, spent, deleted, restarts>>

\* Deleting a chat stops it first.
DeleteAsked ==
  /\ stopper.pc = "none" /\ ~deleted
  /\ stopper' = IF Idle THEN [NoStop EXCEPT !.pc = "remove", !.delete = TRUE]
                ELSE [pc |-> "cancel", turn |-> CHOOSE t \in Turns : Running(t), delete |-> TRUE]
  /\ UNCHANGED <<rows, waiting, steering, node, traces, spent, deleted, restarts>>

\* The node cancels the turn it has, whichever that is; not answering is no matter.
StopAtNode ==
  /\ stopper.pc = "cancel"
  /\ \/ Cancelled
     \/ Breaks /\ UNCHANGED <<agent, kills>>
  /\ stopper' = [stopper EXCEPT !.pc = "abort"]
  /\ UNCHANGED <<rows, waiting, steering, files, told, traces, spent, deleted, restarts>>

\* Only a run() under way has a controller.
StopAborts ==
  /\ stopper.pc = "abort"
  /\ aborted' = [aborted EXCEPT ![stopper.turn] = @ \/ at[stopper.turn] \in {"ensure", "agent"}]
  /\ stopper' = IF stopper.delete THEN [stopper EXCEPT !.pc = "remove"] ELSE NoStop
  /\ UNCHANGED <<row, last, at, prompt, outcome, waiting, steering, node, traces, spent, deleted, restarts>>

\* The sandbox goes, then the chat's rows.
Removed ==
  /\ stopper.pc = "remove"
  /\ stopper' = NoStop
  /\ deleted' = TRUE
  /\ row' = [t \in Turns |-> "none"]
  /\ files' = {}
  /\ IF agent.pc = "working" THEN Closes(FALSE) ELSE UNCHANGED agent
  /\ UNCHANGED <<last, at, prompt, aborted, outcome, waiting, steering, kills, told, traces, spent, restarts>>

\* What was in memory is gone; turns left running are failed as the database is
\* opened. Writes on their way may still reach the node.
Restart ==
  /\ restarts < MaxRestarts
  /\ restarts' = restarts + 1
  /\ row' = [t \in Turns |-> IF Running(t) THEN "failed" ELSE row[t]]
  /\ at' = [t \in Turns |-> IF at[t] = "none" THEN "none" ELSE "over"]
  /\ aborted' = [t \in Turns |-> FALSE]
  /\ cut' = cut \cup queue
  /\ queue' = {} /\ carry' = {}
  /\ \E landed \in SUBSET handing : files' = IF deleted THEN {} ELSE files \cup landed
  /\ handing' = {} /\ written' = {} /\ takeback' = {}
  /\ pending' = [g \in DOMAIN pending |-> {}]
  /\ looks' = [w \in Looks |-> NoLook]
  /\ stopper' = NoStop
  /\ outcome' = [t \in Turns |-> "none"]
  /\ UNCHANGED <<last, prompt, requests, sent, current, agent, kills, told, steered, dropped,
                 refused, spent, deleted>>

----------------------------------------------------------------------------
\* The person may not have answered yet what was asked before.
Init ==
  /\ row = [t \in Turns |-> "none"] /\ last = 0
  /\ at = [t \in Turns |-> "none"]
  /\ prompt = [t \in Turns |-> {}]
  /\ aborted = [t \in Turns |-> FALSE]
  /\ outcome = [t \in Turns |-> "none"]
  /\ queue = {} /\ carry = {} /\ requests \in SUBSET Notes /\ sent = requests
  /\ handing = {} /\ written = {} /\ takeback = {}
  /\ pending = [g \in 1..Cardinality(Items) + 1 |-> {}] /\ current = 1
  /\ looks = [w \in Looks |-> NoLook]
  /\ files = {} /\ agent = NoAgent /\ kills = {}
  /\ told = [i \in Items |-> {}]
  /\ steered = {} /\ dropped = {} /\ cut = {} /\ refused = {}
  /\ stopper = NoStop /\ spent = FALSE /\ deleted = FALSE /\ restarts = 0

\* What happens by itself once it can.
Works(t) ==
  \/ Begin(t) \/ EnsureFails(t) \/ AgentStarts(t) \/ Aborts(t) \/ StreamEnds(t)
  \/ LastLook(t) \/ TakeBack(t) \/ (\E m \in Messages : TakeBackFile(t, m))
  \/ EndTurn(t) \/ EndTurnGone(t)

Hands(m)  == SteerLands(m) \/ SteerNoted(m)
Checks(w) == Listed(w) \/ LookAnswered(w) \/ LookFails(w)
Agent     == AgentReads \/ AgentFinishes \/ AgentGone \/ NodeNotices

Next ==
  \/ \E m \in Messages : Ask(m) \/ Hands(m) \/ SteerFails(m)
  \/ \E t \in Turns : Works(t) \/ StreamBreaks(t) \/ StopAsked(t) \/ KillLands(t)
  \/ \E n \in Notes : AccessAsked(n) \/ AccessAnswered(n)
  \/ \E w \in Looks : Checks(w)
  \/ Agent \/ ToolResult \/ ShareSpent \/ ShareReopens
  \/ DeleteAsked \/ StopAtNode \/ StopAborts \/ Removed \/ Restart

Spec == Init /\ [][Next]_vars

\* Calls to the node are answered or time out, the agent finishes in the end,
\* and the Portal's thread gets to whatever is ready. Nobody has to send, stop,
\* answer or delete anything, and no share has to open again.
Fairness ==
  /\ \A t \in Turns : WF_vars(Works(t))
  /\ \A m \in Messages : WF_vars(Hands(m))
  /\ \A w \in Looks : WF_vars(Checks(w))
  /\ WF_vars(Agent)

FairSpec == Spec /\ Fairness

----------------------------------------------------------------------------
\* What should hold

Ended == {"done", "failed", "cancelled"}

RowsOK == /\ row \in [Turns -> {"none", "running"} \cup Ended]
          /\ last \in 0..Cardinality(Items)
          /\ at \in [Turns -> {"none", "wroteBack", "ensure", "agent", "look", "takeback", "taking", "over"}]
          /\ prompt \in [Turns -> SUBSET Items]
          /\ aborted \in [Turns -> BOOLEAN]
          /\ outcome \in [Turns -> {"none"} \cup Ended]

WaitingOK == /\ queue \subseteq Messages /\ sent \subseteq Items
             /\ carry \subseteq Notes /\ requests \subseteq Notes

SteeringOK == /\ handing \subseteq Messages /\ written \subseteq Messages /\ takeback \subseteq Messages
              /\ current \in 1..Cardinality(Items) + 1
              /\ pending \in [1..Cardinality(Items) + 1 -> SUBSET Messages]
              /\ looks \in [Looks -> [pc : {"none", "asked", "listed"}, set : 1..Cardinality(Items) + 1,
                                      left : SUBSET Messages]]

NodeOK == /\ files \subseteq Messages /\ kills \subseteq Turns
          /\ agent \in [pc : {"none", "working", "closing"}, turn : 0..Cardinality(Items),
                        cancelled : BOOLEAN, ok : BOOLEAN]
          /\ Busy => agent.turn \in Turns
          /\ told \in [Items -> SUBSET {"prompt", "file", "back", "late"}]

TracesOK == \A trace \in {steered, dropped, cut, refused} : trace \subseteq Messages

OthersOK == /\ stopper \in [pc : {"none", "cancel", "abort", "remove"}, turn : 0..Cardinality(Items), delete : BOOLEAN]
            /\ stopper.pc \in {"cancel", "abort"} => stopper.turn \in Turns
            /\ spent \in BOOLEAN /\ deleted \in BOOLEAN /\ restarts \in 0..MaxRestarts

\* Every variable stays in its type, turns and Sets within their bounds.
TypeOK == RowsOK /\ WaitingOK /\ SteeringOK /\ NodeOK /\ TracesOK /\ OthersOK

UnderWay(t) == at[t] \notin {"none", "over"}

\* model.ts startTurn, index.ts run: at most one turn runs in a chat; it is the
\* last, and a run() is under way exactly for a turn that runs.
TurnDriven ==
  /\ \A t, u \in Turns : Running(t) /\ Running(u) => t = u
  /\ \A t \in Turns : UnderWay(t) => t = last
  /\ ~deleted => \A t \in Turns : Running(t) <=> UnderWay(t)

\* index.ts run: nothing waits in line, and no note to carry on with, unless a
\* turn is running whose end will take it up.
WaitingServed == queue \cup carry # {} /\ ~deleted => ~Idle

\* The message waits, was put to a turn, or the timeline says what became of it.
Accounted(m) ==
  \/ m \in queue
  \/ \E t \in Turns : m \in prompt[t]
  \/ m \in steered \cup dropped

\* index.ts ask, steer, checkSteered, run: a message is lost without a trace only
\* by a Portal that restarted, a deleted chat, or a share used up as its turn ends.
NothingLost == \A m \in Messages \cap sent : Accounted(m) \/ m \in cut \cup refused \/ deleted

\* index.ts checkSteered, "Which handed-over messages the agent has read (their files gone)": the
\* timeline says so only of a message an agent read, but for two races of a look after a tool's
\* result: what unsteer took back before the look listed, and what was handed over after it had
\* ("back", "late").  What is said to be read out of these was.
SaidRead == \A m \in steered : told[m] \cap {"file", "back", "late"} # {}

\* index.ts run: however its stream, the node and its checks fail, a turn comes to
\* an end, and so does each one its end starts: with nothing more sent, the chat
\* comes to rest (and nothing waits in line then, by WaitingServed).
Rests == ~Idle ~> Idle
=============================================================================
