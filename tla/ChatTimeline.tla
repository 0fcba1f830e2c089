----------------------------- MODULE ChatTimeline -----------------------------
(***************************************************************************)
(* One chat's timeline and the pages that watch it: what the Portal        *)
(* records and sends (record, broadcast, editAsk and rewindTo in           *)
(* lib/code), the stream each page holds (events/route.ts), and what the   *)
(* page makes of it (useTimeline, itemsOf and the list in code-app.tsx).   *)
(* How a message reaches the agent is TurnQueue's; here a turn writes,     *)
(* reads what waits, and ends.                                             *)
(*                                                                         *)
(* A page takes messages one by one; drawing a batch a frame later gives   *)
(* the same list.  An EventSource connects again by itself and names the   *)
(* last id it received.                                                    *)
(***************************************************************************)
EXTENDS Naturals, FiniteSets, Sequences

CONSTANTS
  Pages,
  MaxSeq,   \* bound on events recorded
  MaxAway   \* bound on lost connections, reloads, restarts and failed loads

ASSUME TimelineAssumption == IsFiniteSet(Pages) /\ MaxSeq \in Nat /\ MaxAway \in Nat

VARIABLES
  events,   \* the events table: [seq, kind, seqs]
  lastSeq,  \* workspaces.last_seq
  running,  \* a turn is
  queue,    \* live.queued: the messages that wait
  open,     \* pages whose stream is open
  wire,     \* what is on its way to each
  lastId,   \* the last id each received
  list,     \* events a page shows
  draft,    \* pages that show words being written
  tell,     \* pages that are about to load the list again
  loads,    \* each page's loads on the way: what they will say
  shows,    \* whether a page's list says a turn is running
  away,
  missed,   \* events a page shows that went while it was away
  stale     \* pages whose last load failed

server == <<events, lastSeq, running, queue>>
page == <<list, draft, tell>>
loading == <<loads, shows, stale>>
vars == <<server, open, wire, lastId, page, loading, away, missed>>

Kinds == {"ask", "waits", "text", "steered", "dropped", "done"}   \* waits: an ask with queued
Event == [seq : 1..MaxSeq, kind : Kinds, seqs : SUBSET (1..MaxSeq)]
Passing == [seq : {0}, kind : {"draft", "rewound"}, seqs : SUBSET (1..MaxSeq)]
Says == {"working", "idle"}   \* what the list says of the chat
Nothing == [newest |-> "none", older |-> {}]
State == IF running THEN "working" ELSE "idle"

TypeOK ==
  /\ events \subseteq Event /\ lastSeq \in 0..MaxSeq /\ \A e \in events : e.seq <= lastSeq
  /\ \A e, f \in events : e.seq = f.seq => e = f
  /\ running \in BOOLEAN /\ queue \subseteq {e.seq : e \in {f \in events : f.kind = "waits"}}
  /\ open \subseteq Pages /\ tell \subseteq Pages /\ draft \subseteq Pages /\ stale \subseteq Pages
  /\ wire \in [Pages -> Seq(Event \cup Passing)] /\ \A p \in Pages \ open : wire[p] = <<>>
  /\ lastId \in [Pages -> 0..MaxSeq] /\ list \in [Pages -> SUBSET Event]
  /\ loads \in [Pages -> [newest : {"none"} \cup Says, older : SUBSET Says]]
  /\ shows \in [Pages -> Says] /\ away \in 0..MaxAway /\ missed \in [Pages -> SUBSET (1..MaxSeq)]

Init ==
  /\ events = {} /\ lastSeq = 0 /\ running = FALSE /\ queue = {}
  /\ open = {} /\ wire = [p \in Pages |-> <<>>] /\ lastId = [p \in Pages |-> 0]
  /\ list = [p \in Pages |-> {}] /\ draft = {} /\ tell = {}
  /\ loads = [p \in Pages |-> Nothing] /\ shows = [p \in Pages |-> "idle"] /\ stale = {}
  /\ away = 0 /\ missed = [p \in Pages |-> {}]

-----------------------------------------------------------------------------
(***************************************************************************)
(* The Portal.                                                             *)
(***************************************************************************)

Send(messages) == wire' = [p \in Pages |-> IF p \in open THEN wire[p] \o messages ELSE wire[p]]
Rewound(seq) == [seq |-> 0, kind |-> "rewound", seqs |-> {seq}]

\* appendEvent's n-th from here.
New(n, kind, seqs) == [seq |-> lastSeq + n, kind |-> kind, seqs |-> seqs]

\* record, one event or two; first what passes (broadcast) and what goes.
Recorded(gone, passing, new) ==
  /\ \A i \in DOMAIN new : new[i].seq <= MaxSeq
  /\ events' = (events \ gone) \cup {new[i] : i \in DOMAIN new}
  /\ lastSeq' = lastSeq + Len(new)
  /\ Send(passing \o new)
PagesKeep == UNCHANGED <<open, lastId, page, loading, away>>

ask ==
  /\ Recorded({}, <<>>, <<New(1, IF running THEN "waits" ELSE "ask", {})>>)
  /\ queue' = IF running THEN queue \cup {lastSeq + 1} ELSE queue
  /\ running' = TRUE
  /\ PagesKeep /\ UNCHANGED missed

\* rewindTo: the number goes on from where it was.
Gone(seq) == {e \in events : e.seq >= seq}

\* Mutant: the numbers of what went are given out again.
editAsk_Reuse(e) ==
  /\ ~running /\ e.kind = "ask"
  /\ events' = (events \ Gone(e.seq)) \cup {e} /\ lastSeq' = e.seq
  /\ Send(<<Rewound(e.seq), e>>)
  /\ missed' = [p \in Pages |-> IF p \in open THEN missed[p]
                                ELSE missed[p] \cup {f.seq : f \in {g \in list[p] : g.seq >= e.seq}}]
  /\ queue' = {} /\ running' = TRUE
  /\ PagesKeep

\* editAsk: what came from a message on goes, and it is asked again. A page that is away keeps it.
editAsk(e) ==
  /\ ~running /\ e.kind = "ask"
  /\ Recorded(Gone(e.seq), <<Rewound(e.seq)>>, <<New(1, "ask", {})>>)
  /\ missed' = [p \in Pages |-> IF p \in open THEN missed[p]
                                ELSE missed[p] \cup {f.seq : f \in {g \in list[p] : g.seq >= e.seq}}]
  /\ queue' = {} /\ running' = TRUE
  /\ PagesKeep

\* A turn writes: words as they come, kept nowhere, and then whole.
Writes ==
  /\ running /\ \A p \in Pages : \A i \in DOMAIN wire[p] : wire[p][i].kind # "draft"
  /\ Send(<<[seq |-> 0, kind |-> "draft", seqs |-> {}]>>)
  /\ UNCHANGED <<server, missed>> /\ PagesKeep
Text ==
  /\ running /\ Recorded({}, <<>>, <<New(1, "text", {})>>)
  /\ UNCHANGED <<running, queue, missed>> /\ PagesKeep

\* Mutant: all that waits is said to be read.
Noted_All(read) == queue

Noted(read) == read

\* checkSteered: the agent read some of what waits.
Steered ==
  /\ running
  /\ \E read \in SUBSET queue : read # {} /\ queue' = queue \ read /\ Recorded({}, <<>>, <<New(1, "steered", Noted(read))>>)
  /\ UNCHANGED <<running, missed>> /\ PagesKeep

\* run's end: stopped, what waits is dropped; else it starts the next turn, unless their share is used up.
Ends ==
  /\ running
  /\ \/ /\ queue # {}
        /\ Recorded({}, <<>>, <<New(1, "dropped", queue), New(2, "done", {})>>) /\ running' = FALSE
     \/ /\ Recorded({}, <<>>, <<New(1, "done", {})>>)
        /\ \E next \in BOOLEAN : (next => queue # {}) /\ running' = next
  /\ queue' = {}
  /\ PagesKeep /\ UNCHANGED missed

-----------------------------------------------------------------------------
(***************************************************************************)
(* The stream.                                                             *)
(***************************************************************************)

\* A message that took events away and never arrived leaves them on the page.
Lost(p) == {e.seq : e \in {f \in list[p] : \E i \in DOMAIN wire[p] :
                             wire[p][i].kind = "rewound" /\ \A s \in wire[p][i].seqs : f.seq >= s}}
Closes(those) ==
  /\ open' = open \ those
  /\ wire' = [p \in Pages |-> IF p \in those THEN <<>> ELSE wire[p]]
  /\ missed' = [p \in Pages |-> IF p \in those THEN missed[p] \cup Lost(p) ELSE missed[p]]
Away == away < MaxAway /\ away' = away + 1

\* GET events: listen, then what was recorded after the page's last id, in one stretch.
\* An event's place is how many of them come no later.
Place(e, those) == Cardinality({f \in those : f.seq <= e.seq})
Replay(after) ==
  LET those == {e \in events : e.seq > after}
  IN  [i \in 1..Cardinality(those) |-> CHOOSE e \in those : Place(e, those) = i]
Connects(p) ==
  /\ p \notin open
  /\ open' = open \cup {p} /\ wire' = [wire EXCEPT ![p] = Replay(lastId[p])]
  /\ UNCHANGED <<server, lastId, page, loading, away, missed>>

Drops(p) == Away /\ p \in open /\ Closes({p}) /\ UNCHANGED <<server, lastId, page, loading>>

\* abandonRunningTurns, as the Portal opens its database again.
Abandon ==
  IF ~running THEN UNCHANGED <<events, lastSeq>>
  ELSE lastSeq < MaxSeq /\ events' = events \cup {New(1, "done", {})} /\ lastSeq' = lastSeq + 1

Restarts ==
  /\ Away /\ Abandon /\ running' = FALSE /\ queue' = {}
  /\ Closes(Pages)
  /\ UNCHANGED <<lastId, page, loading>>

\* The page is loaded anew.
Reloads(p) ==
  /\ Away
  /\ open' = open \ {p} /\ wire' = [wire EXCEPT ![p] = <<>>] /\ missed' = [missed EXCEPT ![p] = {}]
  /\ lastId' = [lastId EXCEPT ![p] = 0] /\ list' = [list EXCEPT ![p] = {}]
  /\ draft' = draft \ {p} /\ tell' = tell \cup {p}
  /\ loads' = [loads EXCEPT ![p] = Nothing] /\ shows' = [shows EXCEPT ![p] = "idle"]
  /\ UNCHANGED <<server, stale>>

-----------------------------------------------------------------------------
(***************************************************************************)
(* The page.                                                               *)
(***************************************************************************)


Tells(m) == m.kind \in {"rewound", "done", "ask", "waits"}

\* useTimeline's flush, for one message.
Takes(p) ==
  /\ wire[p] # <<>>
  /\ LET m == Head(wire[p])
         fresh == m.seq # 0 /\ \A e \in list[p] : e.seq < m.seq
     IN /\ list' = [list EXCEPT ![p] =
             IF m.kind = "rewound" THEN {e \in @ : \A s \in m.seqs : e.seq < s}
             ELSE IF fresh THEN @ \cup {m} ELSE @]
        /\ draft' = IF m.kind = "draft" THEN draft \cup {p}
                    ELSE IF m.kind \in {"rewound", "text", "done"} THEN draft \ {p} ELSE draft
        /\ lastId' = IF m.seq = 0 THEN lastId ELSE [lastId EXCEPT ![p] = m.seq]
        /\ tell' = IF Tells(m) THEN tell \cup {p} ELSE tell
  /\ wire' = [wire EXCEPT ![p] = Tail(@)]
  /\ UNCHANGED <<server, open, loading, away, missed>>

\* load: the list as the Portal answers it now; an answer may be a while.
Loads(p) ==
  /\ p \in tell /\ tell' = tell \ {p}
  /\ loads' = [loads EXCEPT ![p] = [newest |-> State, older |-> @.older \cup ({@.newest} \ {"none"})]]
  /\ UNCHANGED <<server, open, wire, lastId, list, draft, shows, stale, away, missed>>

LoadKeep == UNCHANGED <<server, open, wire, lastId, page, missed>>
Answered(p) ==
  /\ loads[p].newest # "none"
  /\ loads' = [loads EXCEPT ![p].newest = "none"]
  /\ shows' = [shows EXCEPT ![p] = loads[p].newest] /\ stale' = stale \ {p}
  /\ LoadKeep /\ UNCHANGED away

\* Only the newest answer is drawn: an older one is let go.
AnsweredLate(p) ==
  /\ \E late \in loads[p].older : loads' = [loads EXCEPT ![p].older = @ \ {late}]
  /\ LoadKeep /\ UNCHANGED <<shows, stale, away>>

\* It isn't asked for again by itself.
LoadFails(p) ==
  /\ Away /\ loads[p].newest # "none"
  /\ loads' = [loads EXCEPT ![p].newest = "none"] /\ stale' = stale \cup {p}
  /\ LoadKeep /\ UNCHANGED shows

-----------------------------------------------------------------------------
Next ==
  \/ ask \/ (\E e \in events : editAsk(e)) \/ Writes \/ Text \/ Steered \/ Ends \/ Restarts
  \/ \E p \in Pages : \/ Connects(p) \/ Drops(p) \/ Reloads(p) \/ Takes(p)
                      \/ Loads(p) \/ Answered(p) \/ AnsweredLate(p) \/ LoadFails(p)

Spec == Init /\ [][Next]_vars /\ \A p \in Pages :
          WF_vars(Connects(p)) /\ WF_vars(Takes(p)) /\ WF_vars(Loads(p)) /\ WF_vars(Answered(p))

-----------------------------------------------------------------------------
(***************************************************************************)
(* Properties.                                                             *)
(***************************************************************************)

CaughtUp(p) == p \in open /\ wire[p] = <<>>

\* model.ts, "a page that reconnects replays exactly what happened": it shows all there is, and
\* nothing else but what went while it was away; words being written don't stay once nothing is written.
Mirror == \A p \in Pages : CaughtUp(p) =>
  /\ events \subseteq list[p] /\ {e.seq : e \in list[p] \ events} \subseteq missed[p]
  /\ ~running => p \notin draft

\* itemsOf: how an ask is drawn.
Waiting(p) == {e.seq : e \in {f \in list[p] : f.kind = "waits" /\
                ~\E g \in list[p] : g.kind \in {"steered", "dropped"} /\ f.seq \in g.seqs}}

\* code-app.tsx, "sent while it worked: read now, so no longer waiting; or never read": no message
\* that still waits is drawn as read or dropped.
WaitingShown == \A p \in Pages : CaughtUp(p) => queue \subseteq Waiting(p)

=============================================================================
