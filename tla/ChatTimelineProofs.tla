-------------------------- MODULE ChatTimelineProofs --------------------------
(***************************************************************************)
(* Proofs about ChatTimeline, for any number of pages, events and lost     *)
(* connections.                                                            *)
(*                                                                         *)
(* A page is told apart by what concerns it alone: its wire w, the last id *)
(* l it received, the events L it shows, whether it shows words being      *)
(* written (D), what went while it was away (ms).  What holds of a page is *)
(* said of these and of the server's events E, their last number n,        *)
(* whether a turn runs (r)       and what waits (q); each thing that       *)
(* happens to a page is a lemma about them, and an action does one or two  *)
(* of these things to each page.                                           *)
(***************************************************************************)
EXTENDS ChatTimeline, Integers, FiniteSetTheorems, SequenceTheorems, TLAPS

Message == Event \cup Passing

\* A message takes an event away.
Undoes(m, e) == m.kind = "rewound" /\ \A s \in m.seqs : s <= e.seq

\* What there is of one page.
PageTyped(p, O, w, l, L, ms) ==
  /\ w \in Seq(Message) /\ (p \notin O => w = <<>>)
  /\ l \in Nat /\ L \subseteq Event /\ ms \subseteq 1..MaxSeq
  /\ \A i \in DOMAIN w : w[i].kind = "rewound" => \E s \in 1..MaxSeq : w[i].seqs = {s}

\* Numbers go up: along the wire, and from what was received to what is on its way.
Numbered(E, n, w, l, L) ==
  /\ \A e \in E : e.seq <= n
  /\ l <= n
  /\ \A e \in L : e.seq <= l
  /\ \A i \in DOMAIN w : w[i].seq > 0 => (l < w[i].seq /\ w[i].seq <= n)
  /\ \A i, j \in DOMAIN w : (i < j /\ w[j].seq > 0) => w[i].seq < w[j].seq

\* Every event is shown or on its way, and what takes it from the page comes before it.
Arrives(p, E, O, w, l, L) ==
  /\ \A e \in E : e.seq <= l => e \in L
  /\ p \in O => \A e \in E : e.seq > l => \E i \in DOMAIN w : w[i] = e
  /\ \A i \in DOMAIN w : \A e \in E : Undoes(w[i], e) => \E j \in DOMAIN w : j > i /\ w[j] = e

\* What went is on its way to going from the page, or went while the page was away.
Undone(E, w, L, ms) ==
  /\ \A x \in L \ E : x.seq \in ms \/ \E i \in DOMAIN w : Undoes(w[i], x)
  /\ \A i \in DOMAIN w : (w[i].seq > 0 /\ w[i] \notin E) => \E j \in DOMAIN w : j > i /\ Undoes(w[j], w[i])

\* Once nothing is written, the end of it is on its way after any of its words.
Written(p, E, r, w, l, D) ==
  r = "idle" => /\ p \in D => \E e \in E : e.kind = "done" /\ e.seq > l
        /\ \A i \in DOMAIN w : w[i].kind = "draft" =>
             \E j \in DOMAIN w : j > i /\ w[j] \in E /\ w[j].kind = "done"

\* No event anywhere says of a message that waits that it was read or dropped.
Clears(g) == g.kind \in {"steered", "dropped"}
Unread(E, n, q, w, L) ==
  /\ \A g \in E \cup L : Clears(g) => (g.seqs \subseteq 1..n /\ g.seqs \cap q = {})
  /\ \A i \in DOMAIN w : Clears(w[i]) => (w[i].seqs \subseteq 1..n /\ w[i].seqs \cap q = {})

PageOK(p, E, n, r, q, O, w, l, L, D, ms) ==
  /\ PageTyped(p, O, w, l, L, ms) /\ Numbered(E, n, w, l, L) /\ Arrives(p, E, O, w, l, L)
  /\ Undone(E, w, L, ms) /\ Written(p, E, r, w, l, D) /\ Unread(E, n, q, w, L)

PagesOK == \A p \in Pages :
  PageOK(p, events, lastSeq, State, queue, open, wire[p], lastId[p], list[p], draft, missed[p])

Inv == TypeOK /\ PagesOK

-----------------------------------------------------------------------------
(***************************************************************************)
(* Replay.                                                                 *)
(***************************************************************************)

\* Events have numbers of their own.
Told(those) == /\ those \subseteq Event
               /\ \A e, f \in those : e.seq = f.seq => e = f

LEMMA ToldFinite ==
  ASSUME NEW E, Told(E)
  PROVE  IsFiniteSet(E)
<1> DEFINE F == [e \in E |-> e.seq]
<1>1. F \in [E -> 1..MaxSeq]
  BY DEF Told, Event
<1>2. \A e, f \in E : F[e] = F[f] => e = f
  BY DEF Told
<1>3. F \in Injection(E, 1..MaxSeq)
  BY <1>1, <1>2 DEF Injection, IsInjective
<1>4. IsFiniteSet(1..MaxSeq)
  BY FS_Interval, TimelineAssumption
<1> QED  BY <1>3, <1>4, FS_Injection

\* Places are numbers from 1 on, and go up as the events' numbers do.
LEMMA Places ==
  ASSUME NEW E, Told(E), NEW e \in E
  PROVE  Place(e, E) \in 1..Cardinality(E)
<1> DEFINE B == {f \in E : f.seq <= e.seq}
<1>1. IsFiniteSet(E)  BY ToldFinite
<1>2. B \subseteq E /\ e \in B
  BY DEF Told, Event
<1>3. IsFiniteSet(B) /\ Cardinality(B) <= Cardinality(E)
  BY <1>1, <1>2, FS_Subset
<1>4. Cardinality(B) # 0
  BY <1>2, <1>3, FS_EmptySet
<1>5. Cardinality(B) \in Nat /\ Cardinality(E) \in Nat
  BY <1>1, <1>3, FS_CardinalityType
<1> QED  BY <1>3, <1>4, <1>5 DEF Place

LEMMA PlacesAscend ==
  ASSUME NEW E, Told(E), NEW e \in E, NEW f \in E, e.seq < f.seq
  PROVE  Place(e, E) < Place(f, E)
<1> DEFINE B == {g \in E : g.seq <= e.seq}
           C == {g \in E : g.seq <= f.seq}
<1>0. \A g \in E : g.seq \in Nat
  BY DEF Told, Event
<1>1. IsFiniteSet(E)  BY ToldFinite
<1>2. B \subseteq C /\ C \subseteq E /\ f \in C /\ f \notin B
  BY <1>0
<1>3. IsFiniteSet(C)
  BY <1>1, <1>2, FS_Subset
<1>4. IsFiniteSet(B) /\ Cardinality(B) <= Cardinality(C) /\ Cardinality(C) # Cardinality(B)
  BY <1>2, <1>3, FS_Subset
<1>5. Cardinality(B) \in Nat /\ Cardinality(C) \in Nat
  BY <1>3, <1>4, FS_CardinalityType
<1> QED  BY <1>4, <1>5 DEF Place

\* Every place is some event's.
LEMMA PlacesTaken ==
  ASSUME NEW E, Told(E), NEW i \in 1..Cardinality(E)
  PROVE  \E e \in E : Place(e, E) = i
<1> DEFINE N == 1..Cardinality(E)
           F == [e \in E |-> Place(e, E)]
<1>1. IsFiniteSet(E)  BY ToldFinite
<1>2. Cardinality(E) \in Nat  BY <1>1, FS_CardinalityType
<1>3. IsFiniteSet(N) /\ Cardinality(N) = Cardinality(E)
  BY <1>2, FS_Interval
<1>4. F \in [E -> N]
  BY Places
<1>5. ASSUME NEW e \in E, NEW f \in E, F[e] = F[f] PROVE e = f
  <2>1. e.seq \in Nat /\ f.seq \in Nat
    BY DEF Told, Event
  <2>2. ~(e.seq < f.seq)
    <3> SUFFICES ASSUME e.seq < f.seq PROVE FALSE
      OBVIOUS
    <3>1. Place(e, E) < Place(f, E)  BY PlacesAscend
    <3> QED  BY <3>1, <1>5, <1>4
  <2>3. ~(f.seq < e.seq)
    <3> SUFFICES ASSUME f.seq < e.seq PROVE FALSE
      OBVIOUS
    <3>1. Place(f, E) < Place(e, E)  BY PlacesAscend
    <3> QED  BY <3>1, <1>5, <1>4
  <2> QED  BY <2>1, <2>2, <2>3 DEF Told
<1>6. F \in Injection(E, N)
  BY <1>4, <1>5 DEF Injection, IsInjective
<1>7. F \in Surjection(E, N)
  BY <1>3, <1>6, FS_Injection
<1> QED  BY <1>7 DEF Surjection

\* What is replayed is what came after, each once, in order.
LEMMA Replayed ==
  ASSUME NEW after \in Nat, Told(events)
  PROVE  /\ Replay(after) \in Seq(Event)
         /\ \A i \in DOMAIN Replay(after) : Replay(after)[i] \in events /\ Replay(after)[i].seq > after
         /\ \A i, j \in DOMAIN Replay(after) : i < j => Replay(after)[i].seq < Replay(after)[j].seq
         /\ \A e \in events : e.seq > after => \E i \in DOMAIN Replay(after) : Replay(after)[i] = e
<1> DEFINE E == {e \in events : e.seq > after}
           S == Replay(after)
           N == 1..Cardinality(E)
<1>1. Told(E)
  BY DEF Told
<1>2. Cardinality(E) \in Nat
  BY <1>1, ToldFinite, FS_CardinalityType
<1>3. S = [i \in N |-> CHOOSE e \in E : Place(e, E) = i]
  BY DEF Replay
<1>4. DOMAIN S = N
  BY <1>3
<1>5. \A i \in N : \E e \in E : Place(e, E) = i
  BY <1>1, PlacesTaken
<1>6. \A i \in N : S[i] \in E /\ Place(S[i], E) = i
  BY <1>3, <1>5
<1>7. S \in Seq(Event)
  <2>1. E \subseteq Event  BY <1>1 DEF Told
  <2>2. S \in [N -> Event]  BY <1>3, <1>6, <2>1
  <2> QED  BY <2>2, <1>2, SeqDef
<1>8. \A i, j \in N : i < j => S[i].seq < S[j].seq
  <2> SUFFICES ASSUME NEW i \in N, NEW j \in N, i < j PROVE S[i].seq < S[j].seq
    OBVIOUS
  <2>1. S[i] \in E /\ S[j] \in E /\ Place(S[i], E) = i /\ Place(S[j], E) = j
    BY <1>6
  <2>2. S[i].seq \in Nat /\ S[j].seq \in Nat
    BY <2>1, <1>1 DEF Told, Event
  <2>3. S[i].seq # S[j].seq
    <3> SUFFICES ASSUME S[i].seq = S[j].seq PROVE FALSE
      OBVIOUS
    <3>1. S[i] = S[j]  BY <2>1, <1>1 DEF Told
    <3>2. i = j  BY <3>1, <2>1
    <3> QED  BY <3>2, <1>2
  <2>4. ~(S[j].seq < S[i].seq)
    <3> SUFFICES ASSUME S[j].seq < S[i].seq PROVE FALSE
      OBVIOUS
    <3>1. Place(S[j], E) < Place(S[i], E)  BY <2>1, <1>1, PlacesAscend
    <3> HIDE DEF S, E
    <3>2. j < i  BY <3>1, <2>1
    <3> QED  BY <3>2, <1>2
  <2> QED  BY <2>2, <2>3, <2>4
<1>9. \A e \in E : \E i \in N : S[i] = e
  <2> SUFFICES ASSUME NEW e \in E PROVE \E i \in N : S[i] = e
    OBVIOUS
  <2> DEFINE i == Place(e, E)
  <2>1. i \in N  BY <1>1, Places
  <2>2. S[i] \in E /\ Place(S[i], E) = i  BY <2>1, <1>6
  <2>3. S[i].seq \in Nat /\ e.seq \in Nat  BY <2>2, <1>1 DEF Told, Event
  <2>4. ~(S[i].seq < e.seq)
    <3> SUFFICES ASSUME S[i].seq < e.seq PROVE FALSE
      OBVIOUS
    <3>1. Place(S[i], E) < Place(e, E)  BY <2>2, <1>1, PlacesAscend
    <3> QED  BY <3>1, <2>2, <2>1
  <2>5. ~(e.seq < S[i].seq)
    <3> SUFFICES ASSUME e.seq < S[i].seq PROVE FALSE
      OBVIOUS
    <3>1. Place(e, E) < Place(S[i], E)  BY <2>2, <1>1, PlacesAscend
    <3> QED  BY <3>1, <2>2, <2>1
  <2>6. S[i] = e  BY <2>2, <2>3, <2>4, <2>5, <1>1 DEF Told
  <2> QED  BY <2>1, <2>6
<1> QED  BY <1>4, <1>6, <1>7, <1>8, <1>9

-----------------------------------------------------------------------------
(***************************************************************************)
(* What happens to a page.                                                 *)
(***************************************************************************)

Sent(p, O, w, m) == IF p \in O THEN Append(w, m) ELSE w

LEMMA Kinded ==
  /\ \A m \in Message : m.seq \in Nat /\ m.seqs \subseteq 1..MaxSeq
  /\ \A m \in Message : m.seq > 0 <=> m \in Event
  /\ \A m \in Message : m.seq = 0 <=> m.kind \in {"draft", "rewound"}
BY TimelineAssumption DEF Message, Event, Passing, Kinds

\* A wire and one message more.
LEMMA Longer ==
  ASSUME NEW w \in Seq(Message), NEW m \in Message
  PROVE  /\ Append(w, m) \in Seq(Message)
         /\ Len(w) \in Nat /\ DOMAIN w = 1..Len(w) /\ DOMAIN Append(w, m) = 1..(Len(w) + 1)
         /\ \A i \in 1..Len(w) : Append(w, m)[i] = w[i]
         /\ Append(w, m)[Len(w) + 1] = m
BY AppendProperties, LenProperties

LEMMA MessagesOf ==
  ASSUME NEW w \in Seq(Message), NEW i \in DOMAIN w
  PROVE  w[i] \in Message
BY LenProperties, ElementOfSeq

\* An event is recorded and sent.
LEMMA EventSent ==
  ASSUME NEW p, NEW E, E \subseteq Event, NEW n \in Nat, NEW r, NEW s, NEW q, NEW t,
         NEW O, NEW w, NEW l, NEW L, NEW D, NEW ms,
         PageOK(p, E, n, r, q, O, w, l, L, D, ms),
         NEW e \in Event, e.seq = n + 1,
         s # "idle" \/ e.kind = "done",
         t \subseteq q \cup {n + 1},
         Clears(e) => (e.seqs \subseteq 1..n /\ e.seqs \cap t = {})
  PROVE  PageOK(p, E \cup {e}, n + 1, s, t, O, Sent(p, O, w, e), l, L, D, ms)
<1> DEFINE F == E \cup {e}
           v == Sent(p, O, w, e)
<1>0. PageTyped(p, O, w, l, L, ms) /\ Numbered(E, n, w, l, L) /\ Arrives(p, E, O, w, l, L) /\ Undone(E, w, L, ms) /\ Unread(E, n, q, w, L)
  BY DEF PageOK
<1>1. w \in Seq(Message) /\ l \in Nat /\ L \subseteq Event /\ e \in Message /\ l <= n
  BY <1>0 DEF PageTyped, Message, Numbered
<1>2. /\ Len(w) \in Nat /\ DOMAIN w = 1..Len(w) /\ DOMAIN Append(w, e) = 1..(Len(w) + 1)
      /\ \A i \in 1..Len(w) : Append(w, e)[i] = w[i]
      /\ Append(w, e)[Len(w) + 1] = e /\ Append(w, e) \in Seq(Message)
  BY <1>1, Longer
<1>3. e.kind \notin {"draft", "rewound"} /\ \A i \in DOMAIN w : w[i] \in Message
  BY <1>1, MessagesOf DEF Event, Kinds
<1>4. \A x \in Message : x.seq \in Nat /\ x.seqs \subseteq 1..MaxSeq
  BY Kinded
<1>5. e \notin E /\ \A i \in DOMAIN w : w[i] # e
  <2>1. e \notin E
    BY <1>0 DEF Numbered
  <2>2. ASSUME NEW i \in DOMAIN w, w[i] = e PROVE FALSE
    BY <1>0, <2>2 DEF Numbered
  <2> QED  BY <2>1, <2>2
<1>6. DOMAIN v \subseteq 1..(Len(w) + 1) /\ DOMAIN w \subseteq DOMAIN v /\ (\A i \in DOMAIN w : v[i] = w[i])
      /\ (\A i \in DOMAIN v : i \in DOMAIN w \/ (p \in O /\ i = Len(w) + 1 /\ v[i] = e))
      /\ (p \in O => Len(w) + 1 \in DOMAIN v /\ v[Len(w) + 1] = e)
  BY <1>2 DEF Sent
<1> HIDE DEF v
<1>a. PageTyped(p, O, v, l, L, ms)
  <2>1. v \in Seq(Message) /\ (p \notin O => v = <<>>)
    BY <1>0, <1>2 DEF PageTyped, v, Sent
  <2>2. \A i \in DOMAIN v : v[i].kind = "rewound" => \E c \in 1..MaxSeq : v[i].seqs = {c}
    BY <1>0, <1>3, <1>6 DEF PageTyped
  <2> QED  BY <1>0, <2>1, <2>2 DEF PageTyped
<1>b. Numbered(F, n + 1, v, l, L)
  <2>1. \A x \in F : x.seq <= n + 1
    BY <1>0, <1>4 DEF Numbered, Event
  <2>2. \A i \in DOMAIN v : v[i].seq > 0 => (l < v[i].seq /\ v[i].seq <= n + 1)
    <3> TAKE i \in DOMAIN v
    <3>1. CASE i \in DOMAIN w
      <4>1. v[i] = w[i] /\ w[i].seq \in Nat
        BY <3>1, <1>3, <1>4, <1>6
      <4> QED  BY <4>1, <3>1, <1>0, <1>1 DEF Numbered
    <3>2. CASE v[i] = e
      BY <3>2, <1>1
    <3> QED  BY <1>6, <3>1, <3>2
  <2>3. \A i, j \in DOMAIN v : (i < j /\ v[j].seq > 0) => v[i].seq < v[j].seq
    <3> SUFFICES ASSUME NEW i \in DOMAIN v, NEW j \in DOMAIN v, i < j, v[j].seq > 0 PROVE v[i].seq < v[j].seq
      OBVIOUS
    <3>0. i \in DOMAIN w
      BY <1>6, <1>2
    <3>1. v[i] = w[i] /\ w[i].seq \in Nat
      BY <3>0, <1>3, <1>4, <1>6
    <3>2. CASE j \in DOMAIN w
      BY <3>0, <3>1, <3>2, <1>6, <1>0 DEF Numbered
    <3>3. CASE v[j] = e
      <4>1. w[i].seq > 0 => w[i].seq <= n
        BY <3>0, <1>0 DEF Numbered
      <4> QED  BY <4>1, <3>1, <3>3
    <3> QED  BY <1>6, <3>2, <3>3
  <2> QED  BY <2>1, <2>2, <2>3, <1>0, <1>1 DEF Numbered
<1>c. Arrives(p, F, O, v, l, L)
  <2>1. \A x \in F : x.seq <= l => x \in L
    BY <1>0, <1>1 DEF Arrives
  <2>2. p \in O => \A x \in F : x.seq > l => \E i \in DOMAIN v : v[i] = x
    BY <1>0, <1>6 DEF Arrives
  <2>3. ASSUME NEW i \in DOMAIN v, NEW x \in F, Undoes(v[i], x) PROVE \E j \in DOMAIN v : j > i /\ v[j] = x
    <3>1. i \in DOMAIN w
      BY <2>3, <1>6, <1>3 DEF Undoes
    <3>2. CASE x \in E
      <4>1. PICK j \in DOMAIN w : j > i /\ w[j] = x
        BY <3>1, <3>2, <2>3, <1>6, <1>0 DEF Arrives
      <4> QED  BY <4>1, <1>6
    <3>3. CASE x = e
      <4>1. p \in O
        BY <3>1, <1>0, <1>2 DEF PageTyped
      <4> QED  BY <4>1, <3>1, <3>3, <1>6, <1>2
    <3> QED  BY <3>2, <3>3
  <2> QED  BY <2>1, <2>2, <2>3 DEF Arrives
<1>d. Undone(F, v, L, ms)
  <2>1. ASSUME NEW x \in L \ F PROVE x.seq \in ms \/ \E i \in DOMAIN v : Undoes(v[i], x)
    <3>1. x.seq \in ms \/ \E i \in DOMAIN w : Undoes(w[i], x)
      BY <1>0 DEF Undone
    <3> QED  BY <3>1, <1>6
  <2>2. ASSUME NEW i \in DOMAIN v, v[i].seq > 0, v[i] \notin F PROVE \E j \in DOMAIN v : j > i /\ Undoes(v[j], v[i])
    <3>1. i \in DOMAIN w
      BY <2>2, <1>6
    <3>2. PICK j \in DOMAIN w : j > i /\ Undoes(w[j], w[i])
      BY <3>1, <2>2, <1>6, <1>0 DEF Undone
    <3> QED  BY <3>1, <3>2, <1>6
  <2> QED  BY <2>1, <2>2 DEF Undone
<1>e. Written(p, F, s, v, l, D)
  <2> SUFFICES ASSUME s = "idle" PROVE /\ p \in D => \E x \in F : x.kind = "done" /\ x.seq > l
                               /\ \A i \in DOMAIN v : v[i].kind = "draft" =>
                                    \E j \in DOMAIN v : j > i /\ v[j] \in F /\ v[j].kind = "done"
    BY DEF Written
  <2>1. e.kind = "done" /\ e.seq > l /\ e \in F
    BY <1>1
  <2>2. ASSUME NEW i \in DOMAIN v, v[i].kind = "draft" PROVE \E j \in DOMAIN v : j > i /\ v[j] \in F /\ v[j].kind = "done"
    <3>1. i \in DOMAIN w
      BY <2>2, <1>6, <1>3
    <3>2. p \in O
      BY <3>1, <1>0, <1>2 DEF PageTyped
    <3> QED  BY <3>1, <3>2, <2>1, <1>6, <1>2
  <2> QED  BY <2>1, <2>2
<1>f. Unread(F, n + 1, t, v, L)
  <2>0. \A x : (x.seqs \subseteq 1..n /\ x.seqs \cap q = {}) => (x.seqs \subseteq 1..(n + 1) /\ x.seqs \cap t = {})
    BY SMT
  <2>1. Clears(e) => (e.seqs \subseteq 1..(n + 1) /\ e.seqs \cap t = {})
    OBVIOUS
  <2>2. \A g \in F \cup L : Clears(g) => (g.seqs \subseteq 1..(n + 1) /\ g.seqs \cap t = {})
    BY <2>0, <2>1, <1>0 DEF Unread
  <2>3. \A i \in DOMAIN v : Clears(v[i]) => (v[i].seqs \subseteq 1..(n + 1) /\ v[i].seqs \cap t = {})
    <3> TAKE i \in DOMAIN v
    <3>1. CASE i \in DOMAIN w
      BY <3>1, <2>0, <1>6, <1>0 DEF Unread
    <3>2. CASE v[i] = e
      BY <3>2, <2>1
    <3> QED  BY <1>6, <3>1, <3>2
  <2> QED  BY <2>2, <2>3 DEF Unread
<1> QED  BY <1>a, <1>b, <1>c, <1>d, <1>e, <1>f DEF PageOK, v

\* Words being written are sent.
LEMMA DraftSent ==
  ASSUME NEW p, NEW E, E \subseteq Event, NEW n \in Nat, NEW r, NEW q, NEW O, NEW w, NEW l, NEW L, NEW D, NEW ms,
         r # "idle", PageOK(p, E, n, r, q, O, w, l, L, D, ms),
         NEW m \in Passing, m.kind = "draft"
  PROVE  PageOK(p, E, n, r, q, O, Sent(p, O, w, m), l, L, D, ms)
<1> DEFINE v == Sent(p, O, w, m)
<1>0. PageTyped(p, O, w, l, L, ms) /\ Numbered(E, n, w, l, L) /\ Arrives(p, E, O, w, l, L) /\ Undone(E, w, L, ms) /\ Unread(E, n, q, w, L)
  BY DEF PageOK
<1>1. w \in Seq(Message) /\ m \in Message /\ m.seq = 0
  BY <1>0 DEF PageTyped, Message, Passing
<1>2. /\ Len(w) \in Nat /\ DOMAIN w = 1..Len(w) /\ DOMAIN Append(w, m) = 1..(Len(w) + 1)
      /\ \A i \in 1..Len(w) : Append(w, m)[i] = w[i]
      /\ Append(w, m)[Len(w) + 1] = m /\ Append(w, m) \in Seq(Message)
  BY <1>1, Longer
<1>6. DOMAIN v \subseteq 1..(Len(w) + 1) /\ DOMAIN w \subseteq DOMAIN v /\ (\A i \in DOMAIN w : v[i] = w[i])
      /\ (\A i \in DOMAIN v : i \in DOMAIN w \/ (p \in O /\ i = Len(w) + 1 /\ v[i] = m))
  BY <1>2 DEF Sent
<1>7. v \in Seq(Message) /\ (p \notin O => v = <<>>)
  BY <1>0, <1>2 DEF PageTyped, Sent
<1> HIDE DEF v
<1>a. PageTyped(p, O, v, l, L, ms)
  BY <1>0, <1>6, <1>7 DEF PageTyped
<1>b. Numbered(E, n, v, l, L)
  BY <1>0, <1>1, <1>2, <1>6 DEF Numbered
<1>c. Arrives(p, E, O, v, l, L)
  <2>1. ~ \E x : Undoes(m, x)
    BY DEF Undoes
  <2>2. \A i \in DOMAIN v : \A x \in E : Undoes(v[i], x) => \E j \in DOMAIN v : j > i /\ v[j] = x
    BY <2>1, <1>0, <1>6 DEF Arrives
  <2> QED  BY <2>2, <1>0, <1>6 DEF Arrives
<1>d. Undone(E, v, L, ms)
  BY <1>0, <1>1, <1>6 DEF Undone
<1>e. Written(p, E, r, v, l, D)
  BY DEF Written
<1>f. Unread(E, n, q, v, L)
  BY <1>0, <1>6 DEF Unread, Clears
<1> QED  BY <1>a, <1>b, <1>c, <1>d, <1>e, <1>f DEF PageOK, v

\* What came from a message on goes, and the page is told, or is away.
LEMMA RewindSent ==
  ASSUME NEW p, NEW E, E \subseteq Event, NEW n \in Nat, NEW r, NEW q, NEW O, NEW w, NEW l, NEW L,
         NEW D, NEW ms, PageOK(p, E, n, r, q, O, w, l, L, D, ms),
         NEW s \in 1..MaxSeq, NEW F \in SUBSET E, \A x \in E : x \in F <=> x.seq < s,
         NEW es \in SUBSET (1..MaxSeq), ms \subseteq es, p \in O \/ \A x \in L : x.seq >= s => x.seq \in es
  PROVE  PageOK(p, F, n, "working", {}, O, Sent(p, O, w, Rewound(s)), l, L, D, es)
<1> DEFINE m == Rewound(s)
           v == Sent(p, O, w, m)
<1>0. PageTyped(p, O, w, l, L, ms) /\ Numbered(E, n, w, l, L) /\ Arrives(p, E, O, w, l, L) /\ Undone(E, w, L, ms) /\ Unread(E, n, q, w, L)
  BY DEF PageOK
<1>1. /\ w \in Seq(Message) /\ m \in Message /\ m.seq = 0 /\ m.kind = "rewound" /\ m.seqs = {s} /\ s \in Nat
      /\ L \subseteq Event
  BY <1>0, TimelineAssumption DEF PageTyped, Message, Passing, Rewound
<1>2. /\ Len(w) \in Nat /\ DOMAIN w = 1..Len(w) /\ DOMAIN Append(w, m) = 1..(Len(w) + 1)
      /\ \A i \in 1..Len(w) : Append(w, m)[i] = w[i]
      /\ Append(w, m)[Len(w) + 1] = m /\ Append(w, m) \in Seq(Message)
  BY <1>1, Longer
<1>3. \A e \in F : e \in E /\ ~Undoes(m, e)
  BY <1>1 DEF Undoes, Event
<1>4. \A x \in E : x \notin F => Undoes(m, x)
  BY <1>1 DEF Undoes, Event
<1>5. \A i \in DOMAIN w : w[i] \in Message
  BY <1>1, MessagesOf
<1>6. DOMAIN v \subseteq 1..(Len(w) + 1) /\ DOMAIN w \subseteq DOMAIN v /\ (\A i \in DOMAIN w : v[i] = w[i])
      /\ (\A i \in DOMAIN v : i \in DOMAIN w \/ (p \in O /\ i = Len(w) + 1 /\ v[i] = m))
      /\ (p \in O => Len(w) + 1 \in DOMAIN v /\ v[Len(w) + 1] = m)
  BY <1>2 DEF Sent
<1>7. v \in Seq(Message) /\ (p \notin O => v = <<>> /\ w = <<>>)
  BY <1>0, <1>2 DEF PageTyped, Sent
<1>8. ms \subseteq es /\ es \subseteq 1..MaxSeq /\ (p \in O \/ \A x \in L : x.seq >= s => x.seq \in es)
  OBVIOUS
<1>9. DOMAIN <<>> = {}
  OBVIOUS
<1> HIDE DEF v, m
<1>a. PageTyped(p, O, v, l, L, es)
  <2>1. \A i \in DOMAIN v : v[i].kind = "rewound" => \E c \in 1..MaxSeq : v[i].seqs = {c}
    BY <1>0, <1>1, <1>6 DEF PageTyped
  <2> QED  BY <2>1, <1>0, <1>7, <1>8 DEF PageTyped
<1>b. Numbered(F, n, v, l, L)
  BY <1>0, <1>1, <1>2, <1>3, <1>6 DEF Numbered
<1>c. Arrives(p, F, O, v, l, L)
  <2>1. \A i \in DOMAIN v : \A x \in F : Undoes(v[i], x) => \E j \in DOMAIN v : j > i /\ v[j] = x
    BY <1>0, <1>3, <1>6 DEF Arrives
  <2> QED  BY <2>1, <1>0, <1>3, <1>6 DEF Arrives
<1>d. Undone(F, v, L, es)
  <2>1. ASSUME NEW x \in L \ F PROVE x.seq \in es \/ \E i \in DOMAIN v : Undoes(v[i], x)
    <3>1. CASE x \notin E
      <4>1. x.seq \in ms \/ \E i \in DOMAIN w : Undoes(w[i], x)
        BY <3>1, <1>0 DEF Undone
      <4> QED  BY <4>1, <1>6, <1>8
    <3>2. CASE x \in E
      <4>1. Undoes(m, x) /\ x.seq >= s
        BY <3>2, <1>4, <1>1 DEF Undoes
      <4> QED  BY <4>1, <1>6, <1>8
    <3> QED  BY <3>1, <3>2
  <2>2. ASSUME NEW i \in DOMAIN v, v[i].seq > 0, v[i] \notin F PROVE \E j \in DOMAIN v : j > i /\ Undoes(v[j], v[i])
    <3>1. i \in DOMAIN w /\ p \in O
      BY <2>2, <1>1, <1>6, <1>7, <1>9
    <3>2. CASE w[i] \notin E
      <4>1. PICK j \in DOMAIN w : j > i /\ Undoes(w[j], w[i])
        BY <3>1, <3>2, <2>2, <1>6, <1>0 DEF Undone
      <4> QED  BY <4>1, <3>1, <1>6
    <3>3. CASE w[i] \in E
      <4>1. Undoes(m, w[i])
        BY <3>1, <3>3, <2>2, <1>4, <1>6
      <4> QED  BY <4>1, <3>1, <1>6, <1>2
    <3> QED  BY <3>2, <3>3
  <2> QED  BY <2>1, <2>2 DEF Undone
<1>e. Written(p, F, "working", v, l, D)
  BY DEF Written
<1>f. Unread(F, n, {}, v, L)
  <2>1. \A g \in F \cup L : Clears(g) => (g.seqs \subseteq 1..n /\ g.seqs \cap {} = {})
    BY <1>0, <1>3 DEF Unread
  <2>2. ~Clears(m)
    BY <1>1 DEF Clears
  <2>3. \A i \in DOMAIN v : Clears(v[i]) => (v[i].seqs \subseteq 1..n /\ v[i].seqs \cap {} = {})
    BY <2>2, <1>0, <1>6 DEF Unread
  <2> QED  BY <2>1, <2>3 DEF Unread
<1> QED  BY <1>a, <1>b, <1>c, <1>d, <1>e, <1>f DEF PageOK, v, m

\* A page's stream opens: what it hasn't is on its way.
LEMMA PageConnects ==
  ASSUME NEW p, NEW O, NEW Q, p \notin O, p \in Q, NEW w, NEW l, NEW L, NEW D, NEW ms, TypeOK,
         PageOK(p, events, lastSeq, State, queue, O, w, l, L, D, ms)
  PROVE  PageOK(p, events, lastSeq, State, queue, Q, Replay(l), l, L, D, ms)
<1> DEFINE E == events
           v == Replay(l)
<1>0. /\ PageTyped(p, O, w, l, L, ms) /\ Numbered(E, lastSeq, w, l, L) /\ Arrives(p, E, O, w, l, L)
      /\ Undone(E, w, L, ms) /\ Written(p, E, State, w, l, D) /\ Unread(E, lastSeq, queue, w, L)
  BY DEF PageOK
<1>1. Told(E) /\ l \in Nat /\ w = <<>> /\ E \subseteq Event
  BY <1>0 DEF TypeOK, Told, PageTyped
<1>2. /\ v \in Seq(Event)
      /\ \A i \in DOMAIN v : v[i] \in E /\ v[i].seq > l
      /\ \A i, j \in DOMAIN v : i < j => v[i].seq < v[j].seq
      /\ \A e \in E : e.seq > l => \E i \in DOMAIN v : v[i] = e
  BY <1>1, Replayed
<1>3. v \in Seq(Message)
  BY <1>2, SeqMonotonic DEF Message
<1>4. \A e \in E : e.seq \in Nat /\ e.kind \notin {"draft", "rewound"}
  BY <1>1 DEF Event, Kinds
<1>5. DOMAIN w = {}
  BY <1>1
<1> HIDE DEF v
<1>a. PageTyped(p, Q, v, l, L, ms)
  BY <1>0, <1>2, <1>3, <1>4 DEF PageTyped
<1>b. Numbered(E, lastSeq, v, l, L)
  BY <1>0, <1>2, <1>4 DEF Numbered
<1>c. Arrives(p, E, Q, v, l, L)
  BY <1>0, <1>2, <1>4 DEF Arrives, Undoes
<1>d. Undone(E, v, L, ms)
  BY <1>0, <1>2, <1>5 DEF Undone
<1>e. Written(p, E, State, v, l, D)
  BY <1>0, <1>2, <1>4 DEF Written
<1>f. Unread(E, lastSeq, queue, v, L)
  BY <1>0, <1>2 DEF Unread
<1> QED  BY <1>a, <1>b, <1>c, <1>d, <1>e, <1>f DEF PageOK, v

\* A page's stream closes with what was on its way; what that would have taken off the page stays.
LEMMA PageCloses ==
  ASSUME NEW p, NEW E, E \subseteq Event, NEW n \in Nat, NEW r, NEW q, NEW O, NEW w, NEW l, NEW L,
         NEW D, NEW ms, NEW Q, p \notin Q, PageOK(p, E, n, r, q, O, w, l, L, D, ms),
         NEW es \in SUBSET (1..MaxSeq), ms \subseteq es,
         \A x \in L : (\E i \in DOMAIN w : Undoes(w[i], x)) => x.seq \in es
  PROVE  PageOK(p, E, n, r, q, Q, <<>>, l, L, D, es)
<1>0. /\ PageTyped(p, O, w, l, L, ms) /\ Numbered(E, n, w, l, L) /\ Arrives(p, E, O, w, l, L)
      /\ Undone(E, w, L, ms) /\ Written(p, E, r, w, l, D) /\ Unread(E, n, q, w, L)
  BY DEF PageOK
<1>4. DOMAIN <<>> = {} /\ <<>> \in Seq(Message)
  BY EmptySeq
<1>a. PageTyped(p, Q, <<>>, l, L, es)
  BY <1>0, <1>4 DEF PageTyped
<1>b. Numbered(E, n, <<>>, l, L)
  BY <1>0, <1>4 DEF Numbered
<1>c. Arrives(p, E, Q, <<>>, l, L)
  BY <1>0, <1>4 DEF Arrives
<1>d. Undone(E, <<>>, L, es)
  BY <1>0, <1>4 DEF Undone
<1>e. Written(p, E, r, <<>>, l, D)
  BY <1>0, <1>4 DEF Written
<1>f. Unread(E, n, q, <<>>, L)
  BY <1>0, <1>4 DEF Unread
<1> QED  BY <1>a, <1>b, <1>c, <1>d, <1>e, <1>f DEF PageOK

\* Nothing is written any more once a turn's end is recorded, or none was running.
LEMMA Stopped ==
  ASSUME NEW p, NEW E, NEW n, NEW r, NEW q, NEW O, NEW w, NEW l, NEW L, NEW D, NEW ms,
         PageOK(p, E, n, r, q, O, w, l, L, D, ms)
  PROVE  PageOK(p, E, n, r, {}, O, w, l, L, D, ms)
BY DEF PageOK, Unread

\* What other pages do is nothing to it.
LEMMA Unconcerned ==
  ASSUME NEW p, NEW E, NEW n, NEW r, NEW q, NEW O, NEW w, NEW l, NEW L, NEW D, NEW ms, NEW Q, NEW C,
         PageOK(p, E, n, r, q, O, w, l, L, D, ms), p \in O <=> p \in Q, p \in D <=> p \in C
  PROVE  PageOK(p, E, n, r, q, Q, w, l, L, C, ms)
BY DEF PageOK, PageTyped, Arrives, Written

\* A page is loaded anew: it knows nothing.
LEMMA PageLoads ==
  ASSUME NEW p, NEW E, E \subseteq Event, NEW n \in Nat, NEW r, NEW q, NEW O, NEW w, NEW l, NEW L,
         NEW D, NEW ms, NEW Q, p \notin Q, NEW C, p \notin C, PageOK(p, E, n, r, q, O, w, l, L, D, ms)
  PROVE  PageOK(p, E, n, r, q, Q, <<>>, 0, {}, C, {})
<1>0. Numbered(E, n, w, l, L) /\ Unread(E, n, q, w, L)
  BY DEF PageOK
<1>1. DOMAIN <<>> = {} /\ <<>> \in Seq(Message)
  BY EmptySeq
<1>2. \A e \in E : e.seq \in Nat /\ e.seq > 0
  BY DEF Event
<1>a. PageTyped(p, Q, <<>>, 0, {}, {})
  BY <1>1 DEF PageTyped
<1>b. Numbered(E, n, <<>>, 0, {})
  BY <1>0, <1>1 DEF Numbered
<1>c. Arrives(p, E, Q, <<>>, 0, {})
  BY <1>1, <1>2 DEF Arrives
<1>d. Undone(E, <<>>, {}, {})
  BY <1>1 DEF Undone
<1>e. Written(p, E, r, <<>>, 0, C)
  BY <1>1 DEF Written
<1>f. Unread(E, n, q, <<>>, {})
  BY <1>0, <1>1 DEF Unread
<1> QED  BY <1>a, <1>b, <1>c, <1>d, <1>e, <1>f DEF PageOK

\* A page takes the first message on its way.
Drawn(L, m) ==
  IF m.kind = "rewound" THEN {e \in L : \A s \in m.seqs : e.seq < s}
  ELSE IF m.seq # 0 /\ \A e \in L : e.seq < m.seq THEN L \cup {m} ELSE L
Drafting(p, D, m) ==
  IF m.kind = "draft" THEN D \cup {p} ELSE IF m.kind \in {"rewound", "text", "done"} THEN D \ {p} ELSE D
Received(l, m) == IF m.seq = 0 THEN l ELSE m.seq

LEMMA PageTakes ==
  ASSUME NEW p, NEW E, E \subseteq Event, NEW n \in Nat, NEW r, NEW q, NEW O, NEW w, NEW l, NEW L,
         NEW D, NEW ms, PageOK(p, E, n, r, q, O, w, l, L, D, ms),
         w # <<>>
  PROVE  PageOK(p, E, n, r, q, O, Tail(w), Received(l, Head(w)), Drawn(L, Head(w)), Drafting(p, D, Head(w)), ms)
<1> DEFINE m == Head(w)
           v == Tail(w)
           k == Received(l, m)
           K == Drawn(L, m)
           C == Drafting(p, D, m)
<1>0. /\ PageTyped(p, O, w, l, L, ms) /\ Numbered(E, n, w, l, L) /\ Arrives(p, E, O, w, l, L)
      /\ Undone(E, w, L, ms) /\ Written(p, E, r, w, l, D) /\ Unread(E, n, q, w, L)
  BY DEF PageOK
<1>1. w \in Seq(Message) /\ l \in Nat /\ L \subseteq Event /\ (p \notin O => w = <<>>)
  BY <1>0 DEF PageTyped
<1>2. /\ v \in Seq(Message) /\ DOMAIN v = 1..Len(v) /\ DOMAIN w = 1..Len(w)
      /\ Len(w) \in Nat \ {0} /\ Len(v) = Len(w) - 1
      /\ \A i \in 1..Len(v) : v[i] = w[i + 1]
  BY <1>1, HeadTailProperties, LenProperties, EmptySeq
<1>3. 1 \in DOMAIN w /\ m = w[1] /\ m \in Message
  BY <1>1, <1>2, HeadTailProperties
<1>4. m.seq \in Nat /\ (m.seq > 0 <=> m \in Event) /\ (m.seq = 0 <=> m.kind \in {"draft", "rewound"})
  BY <1>3, Kinded
<1>5. /\ \A i \in DOMAIN v : i + 1 \in DOMAIN w /\ v[i] = w[i + 1] /\ i + 1 > 1
      /\ \A j \in DOMAIN w : j > 1 => (j - 1 \in DOMAIN v /\ v[j - 1] = w[j])
      /\ \A i \in DOMAIN v : \A j \in DOMAIN w : j > i + 1 => (j > 1 /\ j - 1 > i)
      /\ \A i \in DOMAIN w : i \in Nat /\ (i = 1 \/ i > 1)
  BY <1>2
<1>6. p \in O
  BY <1>1
<1>7. \A i \in DOMAIN v : v[i] \in Message /\ v[i].seq \in Nat
  BY <1>2, MessagesOf, Kinded
<1>8. \A e \in L : e.seq \in Nat /\ e.seq <= l
  BY <1>0, <1>1 DEF Numbered, Event
<1>9. \A e \in E : e.seq \in Nat
  BY DEF Event
\* It draws just what the message says.
<1>10. m.seq > 0 => K = L \cup {m} /\ k = m.seq /\ l < m.seq /\ m.seq <= n
  <2> HAVE m.seq > 0
  <2>1. l < m.seq /\ m.seq <= n
    BY <1>0, <1>3 DEF Numbered
  <2>2. \A e \in L : e.seq < m.seq
    BY <2>1, <1>1, <1>4, <1>8
  <2> QED  BY <2>1, <2>2, <1>4 DEF Drawn, Received
<1>11. m.kind = "draft" => K = L /\ k = l
  BY <1>4 DEF Drawn, Received
<1>12. m.kind = "rewound" => /\ k = l /\ K \subseteq L
                             /\ \A x \in L : x \in K <=> ~Undoes(m, x)
  <2> HAVE m.kind = "rewound"
  <2>1. PICK s \in 1..MaxSeq : m.seqs = {s}
    BY <1>0, <1>3 DEF PageTyped
  <2>2. s \in Nat
    BY TimelineAssumption
  <2>3. K = {e \in L : e.seq < s}
    BY <2>1 DEF Drawn
  <2>4. \A x \in L : Undoes(m, x) <=> s <= x.seq
    BY <2>1 DEF Undoes
  <2>5. k = l
    BY <1>4 DEF Received
  <2> QED  BY <2>2, <2>3, <2>4, <2>5, <1>8
<1>13. m.seq > 0 \/ m.kind = "draft" \/ m.kind = "rewound"
  BY <1>4
<1>14. m \in E => m.seq > 0
  BY <1>4
<1> HIDE DEF m, v, k, K, C
<1>a. PageTyped(p, O, v, k, K, ms)
  <2>1. k \in Nat
    BY <1>1, <1>4, <1>10, <1>11, <1>12, <1>13
  <2>3. K \subseteq Event
    <3>1. CASE m.seq > 0
      BY <3>1, <1>1, <1>4, <1>10
    <3>2. CASE m.seq = 0
      BY <3>2, <1>1, <1>4, <1>11, <1>12
    <3> QED  BY <3>1, <3>2, <1>4
  <2>4. \A i \in DOMAIN w : w[i].kind = "rewound" => \E s \in 1..MaxSeq : w[i].seqs = {s}
    BY <1>0 DEF PageTyped
  <2>5. \A i \in DOMAIN v : i + 1 \in DOMAIN w /\ v[i] = w[i + 1]
    BY <1>5
  <2>2. \A i \in DOMAIN v : v[i].kind = "rewound" => \E s \in 1..MaxSeq : v[i].seqs = {s}
    BY <2>4, <2>5
  <2> QED  BY <2>1, <2>2, <2>3, <1>0, <1>2, <1>6 DEF PageTyped
<1>b. Numbered(E, n, v, k, K)
  <2>1. \A e \in K : e.seq <= k
    BY <1>1, <1>4, <1>8, <1>10, <1>11, <1>12, <1>13
  <2>2. k <= n
    BY <1>0, <1>10, <1>11, <1>12, <1>13 DEF Numbered
  <2>3. ASSUME NEW i \in DOMAIN v, v[i].seq > 0 PROVE k < v[i].seq /\ v[i].seq <= n
    <3>1. i + 1 \in DOMAIN w /\ v[i] = w[i + 1] /\ i + 1 > 1
      BY <1>5
    <3>2. l < w[i + 1].seq /\ w[i + 1].seq <= n
      BY <3>1, <2>3, <1>0 DEF Numbered
    <3>3. w[1].seq < w[i + 1].seq
      BY <3>1, <2>3, <1>0, <1>3 DEF Numbered
    <3> QED  BY <3>1, <3>2, <3>3, <1>3, <1>10, <1>11, <1>12, <1>13
  <2>4. ASSUME NEW i \in DOMAIN v, NEW j \in DOMAIN v, i < j, v[j].seq > 0 PROVE v[i].seq < v[j].seq
    <3>1. i + 1 \in DOMAIN w /\ v[i] = w[i + 1] /\ j + 1 \in DOMAIN w /\ v[j] = w[j + 1] /\ i + 1 < j + 1
      BY <2>4, <1>2, <1>5
    <3> QED  BY <3>1, <2>4, <1>0 DEF Numbered
  <2> QED  BY <2>1, <2>2, <2>3, <2>4, <1>0 DEF Numbered
\* An event on its way is the message, or stays on its way.
<1>15. \A e \in E : e.seq > l => e = m \/ \E i \in DOMAIN v : v[i] = e
  <2> SUFFICES ASSUME NEW e \in E, e.seq > l PROVE e = m \/ \E i \in DOMAIN v : v[i] = e
    OBVIOUS
  <2>1. PICK j \in DOMAIN w : w[j] = e
    BY <1>0, <1>6 DEF Arrives
  <2> QED  BY <2>1, <1>3, <1>5
<1>16. \A e \in E : Undoes(m, e) => \E i \in DOMAIN v : v[i] = e
  <2> SUFFICES ASSUME NEW e \in E, Undoes(m, e) PROVE \E i \in DOMAIN v : v[i] = e
    OBVIOUS
  <2>1. PICK j \in DOMAIN w : j > 1 /\ w[j] = e
    BY <1>0, <1>3 DEF Arrives
  <2> QED  BY <2>1, <1>5
<1>c. Arrives(p, E, O, v, k, K)
  <2>1. ASSUME NEW e \in E, e.seq <= k PROVE e \in K
    <3>1. CASE e.seq > l
      <4>1. m.seq > 0 /\ k = m.seq
        BY <3>1, <2>1, <1>1, <1>9, <1>10, <1>11, <1>12, <1>13
      <4>2. ~ \E i \in DOMAIN v : v[i] = e
        <5> SUFFICES ASSUME NEW i \in DOMAIN v, v[i] = e PROVE FALSE
          OBVIOUS
        <5>1. v[i].seq > 0 => k < v[i].seq
          BY <1>b DEF Numbered
        <5> QED  BY <5>1, <3>1, <2>1, <1>1, <1>9, <4>1, <1>4
      <4> QED  BY <4>1, <4>2, <3>1, <1>15, <1>10
    <3>2. CASE e.seq <= l
      <4>1. e \in L
        BY <3>2, <1>0 DEF Arrives
      <4>2. ~Undoes(m, e)
        <5> SUFFICES ASSUME Undoes(m, e) PROVE FALSE
          OBVIOUS
        <5>1. PICK i \in DOMAIN v : v[i] = e
          BY <1>16
        <5>2. v[i].seq > 0
          BY <5>1 DEF Event
        <5>3. i + 1 \in DOMAIN w /\ w[i + 1] = e
          BY <5>1, <1>5
        <5>4. l < e.seq
          BY <5>1, <5>2, <5>3, <1>0 DEF Numbered
        <5> QED  BY <5>4, <3>2, <1>1, <1>9
      <4> QED  BY <4>1, <4>2, <1>10, <1>11, <1>12, <1>13
    <3> QED  BY <3>1, <3>2, <1>1, <1>9
  <2>2. ASSUME NEW e \in E, e.seq > k PROVE \E i \in DOMAIN v : v[i] = e
    <3>1. e.seq > l /\ e # m
      BY <2>2, <1>1, <1>4, <1>9, <1>10, <1>11, <1>12, <1>13, <1>14
    <3> QED  BY <3>1, <1>15
  <2>3. ASSUME NEW i \in DOMAIN v, NEW e \in E, Undoes(v[i], e) PROVE \E j \in DOMAIN v : j > i /\ v[j] = e
    <3>1. PICK j \in DOMAIN w : j > i + 1 /\ w[j] = e
      BY <2>3, <1>0, <1>5 DEF Arrives
    <3> QED  BY <3>1, <1>5
  <2> QED  BY <2>1, <2>2, <2>3 DEF Arrives
<1>d. Undone(E, v, K, ms)
  <2>1. ASSUME NEW x \in L \ E, x \in K PROVE x.seq \in ms \/ \E i \in DOMAIN v : Undoes(v[i], x)
    <3>1. x.seq \in ms \/ \E i \in DOMAIN w : Undoes(w[i], x)
      BY <1>0 DEF Undone
    <3>2. ~Undoes(m, x)
      BY <2>1, <1>10, <1>11, <1>12, <1>13, <1>4 DEF Undoes
    <3> QED  BY <3>1, <3>2, <1>3, <1>5
  <2>2. ASSUME m \in K \ E, m.seq > 0 PROVE \E i \in DOMAIN v : Undoes(v[i], m)
    <3>1. PICK j \in DOMAIN w : j > 1 /\ Undoes(w[j], m)
      BY <2>2, <1>0, <1>3 DEF Undone
    <3> QED  BY <3>1, <1>5
  <2>3. \A x \in K : x \in L \/ (x = m /\ m.seq > 0)
    BY <1>10, <1>11, <1>12, <1>13
  <2>4. ASSUME NEW i \in DOMAIN v, v[i].seq > 0, v[i] \notin E PROVE \E j \in DOMAIN v : j > i /\ Undoes(v[j], v[i])
    <3>1. PICK j \in DOMAIN w : j > i + 1 /\ Undoes(w[j], w[i + 1])
      BY <2>4, <1>0, <1>5 DEF Undone
    <3> QED  BY <3>1, <1>5
  <2> QED  BY <2>1, <2>2, <2>3, <2>4 DEF Undone
<1>e. Written(p, E, r, v, k, C)
  <2> SUFFICES ASSUME r = "idle" PROVE /\ p \in C => \E e \in E : e.kind = "done" /\ e.seq > k
                               /\ \A i \in DOMAIN v : v[i].kind = "draft" =>
                                    \E j \in DOMAIN v : j > i /\ v[j] \in E /\ v[j].kind = "done"
    BY DEF Written
  <2>0. /\ p \in D => \E e \in E : e.kind = "done" /\ e.seq > l
        /\ \A i \in DOMAIN w : w[i].kind = "draft" =>
             \E j \in DOMAIN w : j > i /\ w[j] \in E /\ w[j].kind = "done"
    BY <1>0 DEF Written
  <2>1. ASSUME p \in C PROVE \E e \in E : e.kind = "done" /\ e.seq > k
    <3>1. CASE m.kind = "draft"
      <4>1. PICK j \in DOMAIN w : j > 1 /\ w[j] \in E /\ w[j].kind = "done"
        BY <3>1, <2>0, <1>3
      <4>2. w[j].seq > 0
        BY <4>1 DEF Event
      <4>3. w[j].seq > l
        BY <4>1, <4>2, <1>0 DEF Numbered
      <4> QED  BY <4>1, <4>3, <3>1, <1>11
    <3>2. CASE m.kind # "draft"
      <4>1. p \in D /\ m.kind \notin {"rewound", "text", "done"}
        BY <3>2, <2>1 DEF C, Drafting
      <4>2. PICK e \in E : e.kind = "done" /\ e.seq > l
        BY <4>1, <2>0
      <4>3. e # m
        BY <4>1, <4>2
      <4>4. PICK i \in DOMAIN v : v[i] = e
        BY <4>2, <4>3, <1>15
      <4>5. k < e.seq
        BY <4>4, <4>2, <1>b, <1>1, <1>9 DEF Numbered
      <4> QED  BY <4>2, <4>5, <1>9, <1>a DEF PageTyped
    <3> QED  BY <3>1, <3>2
  <2>2. ASSUME NEW i \in DOMAIN v, v[i].kind = "draft"
        PROVE  \E j \in DOMAIN v : j > i /\ v[j] \in E /\ v[j].kind = "done"
    <3>1. PICK j \in DOMAIN w : j > i + 1 /\ w[j] \in E /\ w[j].kind = "done"
      BY <2>2, <2>0, <1>5
    <3> QED  BY <3>1, <1>5
  <2> QED  BY <2>1, <2>2
<1>f. Unread(E, n, q, v, K)
  <2>1. Clears(m) => (m.seqs \subseteq 1..n /\ m.seqs \cap q = {})
    BY <1>0, <1>3 DEF Unread
  <2>2. \A g \in K : g \in L \/ g = m
    BY <1>10, <1>11, <1>12, <1>13
  <2>3. \A g \in E \cup K : Clears(g) => (g.seqs \subseteq 1..n /\ g.seqs \cap q = {})
    BY <2>1, <2>2, <1>0 DEF Unread
  <2>4. \A i \in DOMAIN v : Clears(v[i]) => (v[i].seqs \subseteq 1..n /\ v[i].seqs \cap q = {})
    BY <1>0, <1>5 DEF Unread
  <2> QED  BY <2>3, <2>4 DEF Unread
<1> QED  BY <1>a, <1>b, <1>c, <1>d, <1>e, <1>f DEF PageOK, m, v, k, K, C

-----------------------------------------------------------------------------
(***************************************************************************)
(* What is recorded.                                                       *)
(***************************************************************************)

\* One event.
LEMMA RecordedOne ==
  ASSUME TypeOK, NEW gone, NEW m, m.seq = lastSeq + 1, Recorded(gone, <<>>, <<m>>)
  PROVE  /\ m.seq <= MaxSeq /\ events' = (events \ gone) \cup {m} /\ lastSeq' = lastSeq + 1
         /\ wire' = [p \in Pages |-> Sent(p, open, wire[p], m)]
<1> DEFINE new == <<m>>
<1>1. DOMAIN new = {1} /\ new[1] = m /\ Len(new) = 1 /\ <<>> \o new = new
  OBVIOUS
<1>2. {new[i] : i \in DOMAIN new} = {m}
  BY <1>1
<1>3. \A p \in Pages : wire[p] \o new = Append(wire[p], m)
  OBVIOUS
<1> HIDE DEF new
<1>4. /\ \A i \in DOMAIN new : new[i].seq <= MaxSeq
      /\ events' = (events \ gone) \cup {new[i] : i \in DOMAIN new}
      /\ lastSeq' = lastSeq + Len(new)
      /\ wire' = [p \in Pages |-> IF p \in open THEN wire[p] \o (<<>> \o new) ELSE wire[p]]
  BY DEF Recorded, Send, new
<1> QED  BY <1>1, <1>2, <1>3, <1>4 DEF Sent


LEMMA TwoMore ==
  ASSUME NEW w \in Seq(Message), NEW m \in Message, NEW k \in Message
  PROVE  w \o <<m, k>> = Append(Append(w, m), k)
<1> DEFINE new == <<m, k>>
           s == Append(w, m)
           t == Append(s, k)
           u == w \o new
           n == Len(w)
<1>1. new \in Seq(Message) /\ Len(new) = 2 /\ new[1] = m /\ new[2] = k
  OBVIOUS
<1> HIDE DEF new
<1>a. /\ u \in Seq(Message) /\ Len(u) = n + Len(new)
      /\ \A i \in 1..(n + Len(new)) : u[i] = IF i <= n THEN w[i] ELSE new[i - n]
  BY <1>1, ConcatProperties
<1>2. /\ u \in Seq(Message) /\ Len(u) = n + 2
      /\ \A i \in 1..(n + 2) : u[i] = IF i <= n THEN w[i] ELSE new[i - n]
  BY <1>1, <1>a
<1>3. s \in Seq(Message) /\ Len(s) = n + 1 /\ (\A i \in 1..n : s[i] = w[i]) /\ s[n + 1] = m
  BY AppendProperties
<1> HIDE DEF s
<1>4. t \in Seq(Message) /\ Len(t) = Len(s) + 1 /\ (\A i \in 1..Len(s) : t[i] = s[i]) /\ t[Len(s) + 1] = k
  BY <1>3, AppendProperties
<1>5. n \in Nat
  BY LenProperties
<1> HIDE DEF t, u, n
<1>6. \A i \in 1..(n + 2) : i \in 1..n \/ i = n + 1 \/ i = n + 2
  BY <1>5
<1>7. (\A i \in 1..n : u[i] = w[i]) /\ u[n + 1] = m /\ u[n + 2] = k
  BY <1>1, <1>2, <1>5
<1>8. Len(t) = n + 2 /\ (\A i \in 1..n : t[i] = w[i]) /\ t[n + 1] = m /\ t[n + 2] = k
  BY <1>3, <1>4, <1>5
<1>9. \A i \in 1..Len(u) : u[i] = t[i]
  BY <1>2, <1>6, <1>7, <1>8
<1>10. u = t
  BY <1>2, <1>4, <1>8, <1>9, SeqEqual
<1> QED  BY <1>10 DEF s, t, u, new

\* Two events, and something that passes before one.
LEMMA TwoSent ==
  ASSUME TypeOK, NEW m \in Message, NEW k \in Message
  PROVE  \A p \in Pages : /\ wire[p] \o (<<>> \o <<m, k>>) = Append(Append(wire[p], m), k)
                          /\ wire[p] \o (<<m>> \o <<k>>) = Append(Append(wire[p], m), k)
<1> DEFINE new == <<m, k>>
           first == <<m>>
           one == <<k>>
<1>1. new \in Seq(Message) /\ Len(new) = 2 /\ new[1] = m /\ new[2] = k
  OBVIOUS
<1>2. <<>> \o new = new
  BY <1>1, ConcatEmptySeq
<1>3. /\ first \in Seq(Message) /\ Len(first) = 1 /\ first[1] = m
      /\ one \in Seq(Message) /\ Len(one) = 1 /\ one[1] = k
  OBVIOUS
<1>4. first \o one = new
  <2>1. /\ first \o one \in Seq(Message) /\ Len(first \o one) = Len(first) + Len(one)
        /\ \A i \in 1..(Len(first) + Len(one)) : (first \o one)[i] = IF i <= Len(first) THEN first[i] ELSE one[i - Len(first)]
    BY <1>3, ConcatProperties
  <2>2. Len(first \o one) = 2 /\ (first \o one)[1] = m /\ (first \o one)[2] = k
    <3> HIDE DEF first, one
    <3> QED  BY <1>3, <2>1
  <2>3. \A i \in 1..Len(first \o one) : (first \o one)[i] = new[i]
    BY <2>2, <1>1
  <2> QED  BY <2>1, <2>2, <2>3, <1>1, SeqEqual
<1>5. \A p \in Pages : wire[p] \o new = Append(Append(wire[p], m), k)
  BY TwoMore DEF TypeOK, Message
<1> HIDE DEF new, first, one
<1> QED  BY <1>2, <1>4, <1>5 DEF new, first, one

LEMMA RecordedTwo ==
  ASSUME TypeOK, NEW m \in Message, NEW k \in Message, m.seq = lastSeq + 1, k.seq = lastSeq + 2,
         Recorded({}, <<>>, <<m, k>>)
  PROVE  /\ k.seq <= MaxSeq /\ lastSeq' = lastSeq + 2 /\ events' = events \cup {m, k}
         /\ wire' = [p \in Pages |-> Sent(p, open, Sent(p, open, wire[p], m), k)]
<1> DEFINE new == <<m, k>>
<1>1. DOMAIN new = {1, 2} /\ new[1] = m /\ new[2] = k /\ Len(new) = 2
  OBVIOUS
<1>2. {new[i] : i \in DOMAIN new} = {m, k}
  BY <1>1
<1>3. /\ \A i \in DOMAIN new : new[i].seq <= MaxSeq
      /\ events' = (events \ {}) \cup {new[i] : i \in DOMAIN new}
      /\ lastSeq' = lastSeq + Len(new)
      /\ wire' = [p \in Pages |-> IF p \in open THEN wire[p] \o (<<>> \o new) ELSE wire[p]]
  BY DEF Recorded, Send
<1>4. \A p \in Pages : wire[p] \o (<<>> \o new) = Append(Append(wire[p], m), k)
  BY TwoSent
<1> HIDE DEF new
<1> QED  BY <1>1, <1>2, <1>3, <1>4 DEF Sent

LEMMA RecordedAfter ==
  ASSUME TypeOK, NEW gone, NEW m \in Message, NEW k \in Message, k.seq = lastSeq + 1,
         Recorded(gone, <<m>>, <<k>>)
  PROVE  /\ k.seq <= MaxSeq /\ lastSeq' = lastSeq + 1 /\ events' = (events \ gone) \cup {k}
         /\ wire' = [p \in Pages |-> Sent(p, open, Sent(p, open, wire[p], m), k)]
<1> DEFINE one == <<k>>
<1>1. DOMAIN one = {1} /\ one[1] = k /\ Len(one) = 1
  OBVIOUS
<1>2. {one[i] : i \in DOMAIN one} = {k}
  BY <1>1
<1>3. /\ \A i \in DOMAIN one : one[i].seq <= MaxSeq
      /\ events' = (events \ gone) \cup {one[i] : i \in DOMAIN one}
      /\ lastSeq' = lastSeq + Len(one)
      /\ wire' = [p \in Pages |-> IF p \in open THEN wire[p] \o (<<m>> \o one) ELSE wire[p]]
  BY DEF Recorded, Send
<1>4. \A p \in Pages : wire[p] \o (<<m>> \o one) = Append(Append(wire[p], m), k)
  BY TwoSent
<1> HIDE DEF one
<1> QED  BY <1>1, <1>2, <1>3, <1>4 DEF Sent

\* What was recorded is as events should be, if it is the next number's.
Numbers(E, n) == /\ E \subseteq Event /\ n \in 0..MaxSeq
                 /\ \A e \in E : e.seq <= n
                 /\ \A e, f \in E : e.seq = f.seq => e = f

LEMMA NextNumber ==
  ASSUME NEW E, NEW n, Numbers(E, n), NEW F \in SUBSET E, NEW m \in Event, m.seq = n + 1
  PROVE  Numbers(F \cup {m}, n + 1)
<1>1. n \in Nat /\ n + 1 \in 0..MaxSeq
  BY TimelineAssumption DEF Numbers, Event
<1>2. \A e \in E : e.seq \in Nat /\ e.seq <= n
  BY DEF Numbers, Event
<1>3. \A e \in F \cup {m} : e.seq <= n + 1
  BY <1>1, <1>2
<1>4. \A e, f \in F \cup {m} : e.seq = f.seq => e = f
  BY <1>1, <1>2 DEF Numbers
<1> QED  BY <1>1, <1>3, <1>4 DEF Numbers

\* The next event.
LEMMA NewEvent ==
  ASSUME NEW i \in {1, 2}, NEW kind \in Kinds, NEW seqs \in SUBSET (1..MaxSeq), lastSeq \in Nat, lastSeq + i <= MaxSeq
  PROVE  /\ New(i, kind, seqs) \in Event /\ New(i, kind, seqs).seq = lastSeq + i
         /\ New(i, kind, seqs).kind = kind /\ New(i, kind, seqs).seqs = seqs
BY TimelineAssumption DEF New, Event

-----------------------------------------------------------------------------
(***************************************************************************)
(* Init and the Portal's steps.                                            *)
(***************************************************************************)

\* What types there are to see to, once the pages are as they should be.
LEMMA TypesKept ==
  ASSUME PagesOK', wire' = [p \in Pages |-> wire'[p]], Numbers(events', lastSeq'), running' \in BOOLEAN,
         queue' \subseteq {e.seq : e \in {f \in events' : f.kind = "waits"}},
         open' \subseteq Pages, tell' \subseteq Pages, draft' \subseteq Pages, stale' \subseteq Pages,
         lastId' \in [Pages -> 0..MaxSeq], list' \in [Pages -> SUBSET Event],
         loads' \in [Pages -> [newest : {"none"} \cup Says, older : SUBSET Says]],
         shows' \in [Pages -> Says], away' \in 0..MaxAway, missed' \in [Pages -> SUBSET (1..MaxSeq)]
  PROVE  TypeOK'
<1>1. \A p \in Pages : wire'[p] \in Seq(Message) /\ (p \notin open' => wire'[p] = <<>>)
  BY DEF PagesOK, PageOK, PageTyped
<1>2. wire' \in [Pages -> Seq(Event \cup Passing)]
  BY <1>1 DEF Message
<1> QED  BY <1>1, <1>2 DEF TypeOK, Numbers

LEMMA InvInit ==
  ASSUME Init
  PROVE  Inv
<1>0. DOMAIN <<>> = {} /\ <<>> \in Seq(Message) /\ MaxSeq \in Nat /\ MaxAway \in Nat
  BY EmptySeq, TimelineAssumption
<1>1. TypeOK
  <2>1. events \subseteq Event /\ lastSeq \in 0..MaxSeq /\ \A e \in events : e.seq <= lastSeq
    BY <1>0 DEF Init
  <2>2. \A e, f \in events : e.seq = f.seq => e = f
    BY DEF Init
  <2>3. running \in BOOLEAN /\ queue \subseteq {e.seq : e \in {f \in events : f.kind = "waits"}}
    BY DEF Init
  <2>4. open \subseteq Pages /\ tell \subseteq Pages /\ draft \subseteq Pages /\ stale \subseteq Pages
    BY DEF Init
  <2>5. wire \in [Pages -> Seq(Event \cup Passing)] /\ \A p \in Pages \ open : wire[p] = <<>>
    BY <1>0 DEF Init, Message
  <2>6. lastId \in [Pages -> 0..MaxSeq] /\ list \in [Pages -> SUBSET Event]
    BY <1>0 DEF Init
  <2>7. loads \in [Pages -> [newest : {"none"} \cup Says, older : SUBSET Says]]
    BY DEF Init, Nothing
  <2>8. shows \in [Pages -> Says] /\ away \in 0..MaxAway /\ missed \in [Pages -> SUBSET (1..MaxSeq)]
    BY <1>0 DEF Init, Says
  <2> QED  BY <2>1, <2>2, <2>3, <2>4, <2>5, <2>6, <2>7, <2>8 DEF TypeOK
<1>2. ASSUME NEW p PROVE PageOK(p, {}, 0, "idle", {}, {}, <<>>, 0, {}, {}, {})
  <2>1. PageTyped(p, {}, <<>>, 0, {}, {})
    BY <1>0 DEF PageTyped
  <2>2. Numbered({}, 0, <<>>, 0, {}) /\ Arrives(p, {}, {}, <<>>, 0, {}) /\ Undone({}, <<>>, {}, {})
    BY <1>0 DEF Numbered, Arrives, Undone
  <2>3. Written(p, {}, "idle", <<>>, 0, {}) /\ Unread({}, 0, {}, <<>>, {})
    BY <1>0 DEF Written, Unread
  <2> QED  BY <2>1, <2>2, <2>3 DEF PageOK
<1>3. PagesOK
  BY <1>2 DEF PagesOK, Init, State
<1> QED  BY <1>1, <1>3 DEF Inv

LEMMA InvAsk ==
  ASSUME Inv, ask
  PROVE  Inv'
<1> DEFINE m == New(1, IF running THEN "waits" ELSE "ask", {})
<1>0. TypeOK /\ PagesOK /\ Recorded({}, <<>>, <<m>>)
  BY DEF Inv, ask
<1>1. m.seq = lastSeq + 1 /\ lastSeq \in Nat /\ Numbers(events, lastSeq)
  BY <1>0, TimelineAssumption DEF New, TypeOK, Numbers
<1>2. /\ m.seq <= MaxSeq /\ events' = events \cup {m} /\ lastSeq' = lastSeq + 1
      /\ wire' = [p \in Pages |-> Sent(p, open, wire[p], m)]
  BY <1>0, <1>1, RecordedOne
<1>3. m \in Event /\ m.kind \in {"ask", "waits"} /\ (running => m.kind = "waits")
  BY <1>1, <1>2, NewEvent DEF Kinds
<1>4. Numbers(events', lastSeq')
  BY <1>1, <1>2, <1>3, NextNumber
<1>5. running' = TRUE /\ queue' \subseteq queue \cup {lastSeq + 1} /\ (~running => queue' = queue)
  BY DEF ask
<1>6. UNCHANGED <<open, lastId, list, draft, tell, loads, shows, stale, away, missed>>
  BY DEF ask, PagesKeep, page, loading
<1> HIDE DEF m
<1>7. PagesOK'
  <2> SUFFICES ASSUME NEW p \in Pages
      PROVE PageOK(p, events \cup {m}, lastSeq + 1, "working", queue', open, Sent(p, open, wire[p], m), lastId[p], list[p], draft, missed[p])
    BY <1>2, <1>5, <1>6 DEF PagesOK, State
  <2>1. PageOK(p, events, lastSeq, State, queue, open, wire[p], lastId[p], list[p], draft, missed[p])
    BY <1>0 DEF PagesOK
  <2>2. ~Clears(m)
    BY <1>3 DEF Clears
  <2>3. events \subseteq Event
    BY <1>1 DEF Numbers
  <2> QED  BY <1>1, <1>3, <1>5, <2>1, <2>2, <2>3, EventSent
<1>8. queue' \subseteq {e.seq : e \in {f \in events' : f.kind = "waits"}}
  <2>1. queue \subseteq {e.seq : e \in {f \in events : f.kind = "waits"}}
    BY <1>0 DEF TypeOK
  <2>2. running => lastSeq + 1 \in {e.seq : e \in {f \in events' : f.kind = "waits"}}
    BY <1>1, <1>2, <1>3
  <2>3. queue \subseteq {e.seq : e \in {f \in events' : f.kind = "waits"}}
    BY <2>1, <1>2
  <2> QED  BY <2>2, <2>3, <1>5
<1>9. wire' = [p \in Pages |-> wire'[p]]
  BY <1>2
<1>10. TypeOK'
  BY <1>0, <1>4, <1>5, <1>6, <1>7, <1>8, <1>9, TypesKept DEF TypeOK
<1> QED  BY <1>7, <1>10 DEF Inv

LEMMA InvEditAsk ==
  ASSUME Inv, NEW e \in events, editAsk(e)
  PROVE  Inv'
<1> DEFINE m == Rewound(e.seq)
           k == New(1, "ask", {})
           F == events \ Gone(e.seq)
<1>0. TypeOK /\ PagesOK /\ Recorded(Gone(e.seq), <<m>>, <<k>>)
  BY DEF Inv, editAsk
<1>1. lastSeq \in Nat /\ Numbers(events, lastSeq) /\ e \in Event /\ e.seq \in 1..MaxSeq
  BY <1>0, TimelineAssumption DEF TypeOK, Numbers, Event
<1>2. lastSeq + 1 <= MaxSeq
  <2>1. DOMAIN <<k>> = {1} /\ <<k>>[1] = k
    OBVIOUS
  <2> QED  BY <1>0, <2>1 DEF Recorded, New
<1>3. k \in Event /\ k.seq = lastSeq + 1 /\ k.kind = "ask"
  BY <1>1, <1>2, NewEvent DEF Kinds
<1>4. m \in Message /\ k \in Message /\ m.seq = 0
  BY <1>1, <1>3 DEF Message, Passing, Rewound
<1> HIDE DEF m, k
<1>5. /\ lastSeq' = lastSeq + 1 /\ events' = F \cup {k}
      /\ wire' = [p \in Pages |-> Sent(p, open, Sent(p, open, wire[p], m), k)]
  <2> DEFINE gone == Gone(e.seq)
  <2>1. TypeOK /\ Recorded(gone, <<m>>, <<k>>) /\ k.seq = lastSeq + 1
    BY <1>0, <1>3
  <2> HIDE DEF gone
  <2>2. /\ lastSeq' = lastSeq + 1 /\ events' = (events \ gone) \cup {k}
        /\ wire' = [p \in Pages |-> Sent(p, open, Sent(p, open, wire[p], m), k)]
    BY <2>1, <1>4, RecordedAfter
  <2> QED  BY <2>2 DEF gone
<1>6. F \in SUBSET events /\ F = events \ {g \in events : g.seq >= e.seq}
  BY DEF Gone
<1>7. Numbers(events', lastSeq')
  BY <1>1, <1>3, <1>5, <1>6, NextNumber
<1>8. /\ running' = TRUE /\ queue' = {}
      /\ missed' = [p \in Pages |-> IF p \in open THEN missed[p] ELSE missed[p] \cup {f.seq : f \in {g \in list[p] : g.seq >= e.seq}}]
      /\ UNCHANGED <<open, lastId, list, draft, tell, loads, shows, stale, away>>
  BY DEF editAsk, PagesKeep, page, loading
<1> HIDE DEF F
<1>9. PagesOK'
  <2> SUFFICES ASSUME NEW p \in Pages
      PROVE PageOK(p, F \cup {k}, lastSeq + 1, "working", {}, open, Sent(p, open, Sent(p, open, wire[p], m), k), lastId[p], list[p], draft, missed'[p])
    BY <1>5, <1>8 DEF PagesOK, State
  <2>1. PageOK(p, events, lastSeq, State, queue, open, wire[p], lastId[p], list[p], draft, missed[p])
    BY <1>0 DEF PagesOK
  <2>2. missed'[p] = IF p \in open THEN missed[p] ELSE missed[p] \cup {f.seq : f \in {g \in list[p] : g.seq >= e.seq}}
    BY <1>8
  <2>3. PageOK(p, F, lastSeq, "working", {}, open, Sent(p, open, wire[p], m), lastId[p], list[p], draft, missed'[p])
    <3>1. events \subseteq Event
      BY <1>1 DEF Numbers
    <3>2. \A x \in events : x \in F <=> x.seq < e.seq
      <4>1. \A x \in events : x.seq \in Nat
        BY <3>1 DEF Event
      <4> QED  BY <4>1, <1>1, <1>6
    <3>3. /\ missed[p] \subseteq missed'[p] /\ missed'[p] \in SUBSET (1..MaxSeq)
          /\ p \in open \/ \A x \in list[p] : x.seq >= e.seq => x.seq \in missed'[p]
      <4>1. missed[p] \subseteq 1..MaxSeq /\ \A x \in list[p] : x.seq \in 1..MaxSeq
        BY <1>0 DEF TypeOK, Event
      <4> QED  BY <4>1, <2>2
    <3> DEFINE es == missed'[p]
    <3> HIDE DEF es
    <3> QED  BY <1>1, <1>6, <2>1, <3>1, <3>2, <3>3, RewindSent DEF m, es
  <2>4. ~Clears(k) /\ F \subseteq Event
    BY <1>1, <1>3, <1>6 DEF Clears, Numbers
  <2> QED  BY <1>1, <1>3, <2>3, <2>4, EventSent
<1>10. wire' = [p \in Pages |-> wire'[p]]
  BY <1>5
<1>11. missed' \in [Pages -> SUBSET (1..MaxSeq)]
  <2>1. \A p \in Pages : missed'[p] \subseteq 1..MaxSeq
    BY <1>9 DEF PagesOK, PageOK, PageTyped
  <2> QED  BY <2>1, <1>8
<1>12. TypeOK'
  BY <1>0, <1>7, <1>8, <1>9, <1>10, <1>11, TypesKept DEF TypeOK
<1> QED  BY <1>9, <1>12 DEF Inv

LEMMA InvWrites ==
  ASSUME Inv, Writes
  PROVE  Inv'
<1> DEFINE m == [seq |-> 0, kind |-> "draft", seqs |-> {}]
<1>0. TypeOK /\ PagesOK /\ running /\ wire' = [p \in Pages |-> IF p \in open THEN wire[p] \o <<m>> ELSE wire[p]]
  BY DEF Inv, Writes, Send
<1>1. m \in Passing /\ m.kind = "draft"
  BY DEF Passing
<1> HIDE DEF m
<1>2. \A p \in Pages : wire[p] \o <<m>> = Append(wire[p], m)
  OBVIOUS
<1>3. wire' = [p \in Pages |-> Sent(p, open, wire[p], m)]
  BY <1>0, <1>2 DEF Sent
<1>4. UNCHANGED <<events, lastSeq, running, queue, open, lastId, list, draft, tell, loads, shows, stale, away, missed>>
  BY DEF Writes, PagesKeep, server, page, loading
<1>5. lastSeq \in Nat /\ Numbers(events, lastSeq)
  BY <1>0, TimelineAssumption DEF TypeOK, Numbers
<1>6. PagesOK'
  <2> SUFFICES ASSUME NEW p \in Pages
      PROVE PageOK(p, events, lastSeq, State, queue, open, Sent(p, open, wire[p], m), lastId[p], list[p], draft, missed[p])
    BY <1>3, <1>4 DEF PagesOK, State
  <2>1. PageOK(p, events, lastSeq, State, queue, open, wire[p], lastId[p], list[p], draft, missed[p])
    BY <1>0 DEF PagesOK
  <2>2. State # "idle"
    BY <1>0 DEF State
  <2> QED  BY <1>1, <1>5, <2>1, <2>2, DraftSent DEF Numbers
<1>7. wire' = [p \in Pages |-> wire'[p]]
  BY <1>3
<1>8. Numbers(events', lastSeq')
  BY <1>4, <1>5
<1>9. TypeOK'
  BY <1>0, <1>4, <1>6, <1>7, <1>8, TypesKept DEF TypeOK
<1> QED  BY <1>6, <1>9 DEF Inv

\* A turn's text, or what it read of what waits.
LEMMA InvRecords ==
  ASSUME Inv, running, NEW m, m.seq = lastSeq + 1, m \in Event \/ lastSeq + 1 > MaxSeq,
         Recorded({}, <<>>, <<m>>), queue' \subseteq queue, running' = TRUE,
         Clears(m) => (m.seqs \subseteq queue /\ m.seqs \cap queue' = {}),
         UNCHANGED <<open, lastId, list, draft, tell, loads, shows, stale, away, missed>>
  PROVE  Inv'
<1>0. TypeOK /\ PagesOK
  BY DEF Inv
<1>1. lastSeq \in Nat /\ Numbers(events, lastSeq)
  BY <1>0, TimelineAssumption DEF TypeOK, Numbers
<1>2. /\ m.seq <= MaxSeq /\ events' = events \cup {m} /\ lastSeq' = lastSeq + 1
      /\ wire' = [p \in Pages |-> Sent(p, open, wire[p], m)]
  BY <1>0, RecordedOne
<1>3. m \in Event
  BY <1>1, <1>2, TimelineAssumption
<1>4. Numbers(events', lastSeq')
  BY <1>1, <1>2, <1>3, NextNumber
<1>5. queue \subseteq 1..lastSeq
  <2>1. \A f \in events : f.seq \in 1..lastSeq
    BY <1>1 DEF Numbers, Event
  <2> QED  BY <2>1, <1>0 DEF TypeOK
<1>6. PagesOK'
  <2> SUFFICES ASSUME NEW p \in Pages
      PROVE PageOK(p, events \cup {m}, lastSeq + 1, "working", queue', open, Sent(p, open, wire[p], m), lastId[p], list[p], draft, missed[p])
    BY <1>2 DEF PagesOK, State
  <2>1. PageOK(p, events, lastSeq, State, queue, open, wire[p], lastId[p], list[p], draft, missed[p])
    BY <1>0 DEF PagesOK
  <2>2. Clears(m) => (m.seqs \subseteq 1..lastSeq /\ m.seqs \cap queue' = {})
    BY <1>5
  <2>3. events \subseteq Event /\ queue' \subseteq queue \cup {lastSeq + 1}
    BY <1>1 DEF Numbers
  <2> QED  BY <1>1, <1>3, <2>1, <2>2, <2>3, EventSent
<1>7. wire' = [p \in Pages |-> wire'[p]]
  BY <1>2
<1>8. queue' \subseteq {e.seq : e \in {f \in events' : f.kind = "waits"}}
  BY <1>0, <1>2 DEF TypeOK
<1>9. TypeOK'
  BY <1>0, <1>4, <1>6, <1>7, <1>8, TypesKept DEF TypeOK
<1> QED  BY <1>6, <1>9 DEF Inv

\* lastSeq + 1 is the number of an event only if there is room for it.
LEMMA RoomForIt ==
  ASSUME TypeOK, NEW kind \in Kinds, NEW seqs \in SUBSET (1..MaxSeq)
  PROVE  /\ New(1, kind, seqs).seq = lastSeq + 1 /\ New(1, kind, seqs).kind = kind /\ New(1, kind, seqs).seqs = seqs
         /\ New(1, kind, seqs) \in Event \/ lastSeq + 1 > MaxSeq
BY TimelineAssumption DEF New, Event, TypeOK

LEMMA InvText ==
  ASSUME Inv, Text
  PROVE  Inv'
<1> DEFINE m == New(1, "text", {})
<1>1. TypeOK
  BY DEF Inv
<1>2. m.seq = lastSeq + 1 /\ m.kind = "text" /\ (m \in Event \/ lastSeq + 1 > MaxSeq)
  BY <1>1, RoomForIt DEF Kinds
<1>3. running /\ Recorded({}, <<>>, <<m>>) /\ UNCHANGED <<running, queue, missed, open, lastId, list, draft, tell, loads, shows, stale, away>>
  BY DEF Text, PagesKeep, page, loading
<1> HIDE DEF m
<1>4. ~Clears(m) /\ running' = TRUE
  BY <1>1, <1>2, <1>3 DEF Clears, TypeOK
<1> QED  BY <1>2, <1>3, <1>4, InvRecords

LEMMA InvSteered ==
  ASSUME Inv, Steered
  PROVE  Inv'
<1>1. TypeOK
  BY DEF Inv
<1>2. PICK read \in SUBSET queue : queue' = queue \ read /\ Recorded({}, <<>>, <<New(1, "steered", read)>>)
  BY DEF Steered, Noted
<1> DEFINE m == New(1, "steered", read)
<1>3. read \in SUBSET (1..MaxSeq)
  <2>1. \A f \in events : f.seq \in 1..MaxSeq
    BY <1>1 DEF TypeOK, Event
  <2> QED  BY <2>1, <1>1, <1>2 DEF TypeOK
<1>4. m.seq = lastSeq + 1 /\ m.kind = "steered" /\ m.seqs = read /\ (m \in Event \/ lastSeq + 1 > MaxSeq)
  BY <1>1, <1>3, RoomForIt DEF Kinds
<1>5. running /\ UNCHANGED <<running, missed, open, lastId, list, draft, tell, loads, shows, stale, away>>
  BY DEF Steered, PagesKeep, page, loading
<1> HIDE DEF m
<1>6. running' = TRUE /\ Recorded({}, <<>>, <<m>>)
  BY <1>1, <1>2, <1>5 DEF TypeOK, m
<1>7. m.seqs \subseteq queue /\ m.seqs \cap queue' = {} /\ queue' \subseteq queue
  BY <1>2, <1>4
<1> QED  BY <1>4, <1>5, <1>6, <1>7, InvRecords

LEMMA InvEnds ==
  ASSUME Inv, Ends
  PROVE  Inv'
<1>0. TypeOK /\ PagesOK
  BY DEF Inv
<1>1. lastSeq \in Nat /\ Numbers(events, lastSeq) /\ queue \subseteq 1..lastSeq
  <2>1. \A f \in events : f.seq \in 1..lastSeq
    BY <1>0, TimelineAssumption DEF TypeOK, Event
  <2> QED  BY <2>1, <1>0, TimelineAssumption DEF TypeOK, Numbers
<1>2. UNCHANGED <<open, lastId, list, draft, tell, loads, shows, stale, away, missed>> /\ queue' = {}
  BY DEF Ends, PagesKeep, page, loading
<1>3. CASE Recorded({}, <<>>, <<New(1, "dropped", queue), New(2, "done", {})>>) /\ running' = FALSE
  <2> DEFINE m == New(1, "dropped", queue)
             k == New(2, "done", {})
  <2>1. lastSeq + 2 <= MaxSeq
    <3> DEFINE new == <<m, k>>
    <3>1. DOMAIN new = {1, 2} /\ new[2] = k
      OBVIOUS
    <3> HIDE DEF new
    <3>2. \A i \in DOMAIN new : new[i].seq <= MaxSeq
      BY <1>3 DEF Recorded, new
    <3>3. k.seq <= MaxSeq
      BY <3>1, <3>2
    <3> QED  BY <3>3 DEF New
  <2>2. queue \in SUBSET (1..MaxSeq) /\ lastSeq + 1 <= MaxSeq
    BY <1>1, <2>1, TimelineAssumption
  <2>3. m \in Event /\ m.seq = lastSeq + 1 /\ m.kind = "dropped" /\ m.seqs = queue
    BY <1>1, <2>2, NewEvent DEF Kinds
  <2>4. k \in Event /\ k.seq = lastSeq + 2 /\ k.kind = "done"
    BY <1>1, <2>1, NewEvent DEF Kinds
  <2> HIDE DEF m, k
  <2>5. m \in Message /\ k \in Message /\ Recorded({}, <<>>, <<m, k>>)
    BY <1>3, <2>3, <2>4 DEF Message, m, k
  <2>6. /\ lastSeq' = lastSeq + 2 /\ events' = events \cup {m, k}
        /\ wire' = [p \in Pages |-> Sent(p, open, Sent(p, open, wire[p], m), k)]
    BY <1>0, <2>3, <2>4, <2>5, RecordedTwo
  <2>7. Numbers(events \cup {m}, lastSeq + 1)
    BY <1>1, <2>3, NextNumber
  <2>8. events' = (events \cup {m}) \cup {k} /\ lastSeq' = (lastSeq + 1) + 1 /\ k.seq = (lastSeq + 1) + 1
    BY <2>4, <2>6, <1>1
  <2>9. Numbers(events', lastSeq')
    BY <2>4, <2>7, <2>8, NextNumber
  <2>10. PagesOK'
    <3> SUFFICES ASSUME NEW p \in Pages
        PROVE PageOK(p, (events \cup {m}) \cup {k}, (lastSeq + 1) + 1, "idle", {}, open,
                     Sent(p, open, Sent(p, open, wire[p], m), k), lastId[p], list[p], draft, missed[p])
      BY <1>2, <1>3, <2>6, <2>8 DEF PagesOK, State
    <3>1. PageOK(p, events, lastSeq, State, queue, open, wire[p], lastId[p], list[p], draft, missed[p])
      BY <1>0 DEF PagesOK
    <3>2. events \subseteq Event /\ m.seqs \subseteq 1..lastSeq /\ m.seqs \cap {} = {}
      BY <1>1, <2>3 DEF Numbers
    <3>3. PageOK(p, events \cup {m}, lastSeq + 1, "working", {}, open, Sent(p, open, wire[p], m), lastId[p], list[p], draft, missed[p])
      BY <1>1, <2>3, <3>1, <3>2, EventSent
    <3>4. events \cup {m} \subseteq Event /\ lastSeq + 1 \in Nat /\ ~Clears(k)
      BY <1>1, <2>3, <2>4, <3>2 DEF Clears
    <3> QED  BY <2>4, <2>8, <3>3, <3>4, EventSent
  <2>11. wire' = [p \in Pages |-> wire'[p]]
    BY <2>6
  <2>12. TypeOK'
    BY <1>0, <1>2, <1>3, <2>9, <2>10, <2>11, TypesKept DEF TypeOK
  <2> QED  BY <2>10, <2>12 DEF Inv
<1>4. CASE Recorded({}, <<>>, <<New(1, "done", {})>>) /\ running' \in BOOLEAN
  <2> DEFINE m == New(1, "done", {})
  <2>1. m.seq = lastSeq + 1 /\ m.kind = "done" /\ (m \in Event \/ lastSeq + 1 > MaxSeq)
    BY <1>0, RoomForIt DEF Kinds
  <2> HIDE DEF m
  <2>2. Recorded({}, <<>>, <<m>>)
    BY <1>4 DEF m
  <2>3. /\ m.seq <= MaxSeq /\ events' = events \cup {m} /\ lastSeq' = lastSeq + 1
        /\ wire' = [p \in Pages |-> Sent(p, open, wire[p], m)]
    BY <1>0, <2>1, <2>2, RecordedOne
  <2>4. m \in Event
    BY <1>1, <2>1, <2>3, TimelineAssumption
  <2>5. Numbers(events', lastSeq')
    BY <1>1, <2>1, <2>3, <2>4, NextNumber
  <2>6. PagesOK'
    <3> SUFFICES ASSUME NEW p \in Pages
        PROVE PageOK(p, events \cup {m}, lastSeq + 1, State', {}, open, Sent(p, open, wire[p], m), lastId[p], list[p], draft, missed[p])
      BY <1>2, <2>3 DEF PagesOK
    <3>1. PageOK(p, events, lastSeq, State, queue, open, wire[p], lastId[p], list[p], draft, missed[p])
      BY <1>0 DEF PagesOK
    <3>2. events \subseteq Event /\ ~Clears(m)
      BY <1>1, <2>1 DEF Clears, Numbers
    <3> QED  BY <1>1, <2>1, <2>4, <3>1, <3>2, EventSent
  <2>7. wire' = [p \in Pages |-> wire'[p]]
    BY <2>3
  <2>8. TypeOK'
    BY <1>0, <1>2, <1>4, <2>5, <2>6, <2>7, TypesKept DEF TypeOK
  <2> QED  BY <2>6, <2>8 DEF Inv
<1> QED  BY <1>3, <1>4 DEF Ends

-----------------------------------------------------------------------------
(***************************************************************************)
(* The stream's steps and the page's.                                      *)
(***************************************************************************)

\* When nothing is recorded, each page need only be as it should be.
LEMMA NothingRecorded ==
  ASSUME Inv, UNCHANGED server, PagesOK', wire' = [p \in Pages |-> wire'[p]],
         open' \subseteq Pages, tell' \subseteq Pages, draft' \subseteq Pages, stale' \subseteq Pages,
         lastId' \in [Pages -> 0..MaxSeq], list' \in [Pages -> SUBSET Event],
         loads' \in [Pages -> [newest : {"none"} \cup Says, older : SUBSET Says]],
         shows' \in [Pages -> Says], away' \in 0..MaxAway, missed' \in [Pages -> SUBSET (1..MaxSeq)]
  PROVE  Inv'
<1>1. TypeOK /\ UNCHANGED <<events, lastSeq, running, queue>>
  BY DEF Inv, server
<1>2. Numbers(events', lastSeq')
  BY <1>1 DEF TypeOK, Numbers
<1>3. running' \in BOOLEAN /\ queue' \subseteq {e.seq : e \in {f \in events' : f.kind = "waits"}}
  BY <1>1 DEF TypeOK
<1>4. TypeOK'
  BY <1>2, <1>3, TypesKept
<1> QED  BY <1>4 DEF Inv

LEMMA InvConnects ==
  ASSUME Inv, NEW p \in Pages, Connects(p)
  PROVE  Inv'
<1>0. TypeOK /\ PagesOK
  BY DEF Inv
<1>1. /\ p \notin open /\ open' = open \cup {p} /\ wire' = [wire EXCEPT ![p] = Replay(lastId[p])]
      /\ UNCHANGED <<events, lastSeq, running, queue, lastId, list, draft, tell, loads, shows, stale, away, missed>>
  BY DEF Connects, server, page, loading
<1>2. PagesOK'
  <2> SUFFICES ASSUME NEW c \in Pages
      PROVE PageOK(c, events, lastSeq, State, queue, open', wire'[c], lastId[c], list[c], draft, missed[c])
    BY <1>1 DEF PagesOK, State
  <2>1. PageOK(c, events, lastSeq, State, queue, open, wire[c], lastId[c], list[c], draft, missed[c])
    BY <1>0 DEF PagesOK
  <2>2. CASE c = p
    <3>1. wire'[c] = Replay(lastId[c]) /\ c \notin open /\ c \in open'
      BY <2>2, <1>0, <1>1 DEF TypeOK
    <3>2. PageOK(c, events, lastSeq, State, queue, open', Replay(lastId[c]), lastId[c], list[c], draft, missed[c])
      BY <2>1, <3>1, <1>0, PageConnects
    <3> QED  BY <3>1, <3>2
  <2>3. CASE c # p
    <3>1. wire'[c] = wire[c] /\ (c \in open <=> c \in open')
      BY <2>3, <1>0, <1>1 DEF TypeOK
    <3> QED  BY <2>1, <3>1, Unconcerned
  <2> QED  BY <2>2, <2>3
<1>3. wire' = [c \in Pages |-> wire'[c]]
  BY <1>0, <1>1 DEF TypeOK
<1>4. UNCHANGED server
  BY <1>1 DEF server
<1>5. open' \subseteq Pages
  BY <1>0, <1>1 DEF TypeOK
<1> QED  BY <1>0, <1>1, <1>2, <1>3, <1>4, <1>5, NothingRecorded DEF TypeOK

\* What a page keeps that should have gone.
LEMMA LostOnes ==
  ASSUME TypeOK, NEW p \in Pages
  PROVE  /\ Lost(p) \subseteq 1..MaxSeq
         /\ \A x \in list[p] : (\E i \in DOMAIN wire[p] : Undoes(wire[p][i], x)) => x.seq \in Lost(p)
<1>1. list[p] \subseteq Event /\ wire[p] \in Seq(Message)
  BY DEF TypeOK, Message
<1>2. Lost(p) \subseteq 1..MaxSeq
  BY <1>1 DEF Lost, Event
<1>3. ASSUME NEW x \in list[p], NEW i \in DOMAIN wire[p], Undoes(wire[p][i], x) PROVE x.seq \in Lost(p)
  <2>1. x.seq \in Nat /\ wire[p][i].seqs \subseteq 1..MaxSeq
    BY <1>1, MessagesOf, Kinded DEF Event
  <2>2. \A s \in wire[p][i].seqs : x.seq >= s
    BY <2>1, <1>3, TimelineAssumption DEF Undoes
  <2> QED  BY <2>2, <1>3 DEF Undoes, Lost
<1> QED  BY <1>2, <1>3

\* Streams close.
LEMMA PagesClose ==
  ASSUME Inv, NEW those \in SUBSET Pages, Closes(those), NEW p \in Pages
  PROVE  /\ PageOK(p, events, lastSeq, State, queue, open', wire'[p], lastId[p], list[p], draft, missed'[p])
         /\ missed'[p] \subseteq 1..MaxSeq
         /\ open' = open \ those
<1>0. TypeOK /\ PagesOK
  BY DEF Inv
<1>1. PageOK(p, events, lastSeq, State, queue, open, wire[p], lastId[p], list[p], draft, missed[p])
  BY <1>0 DEF PagesOK
<1>2. /\ open' = open \ those /\ wire'[p] = (IF p \in those THEN <<>> ELSE wire[p])
      /\ missed'[p] = (IF p \in those THEN missed[p] \cup Lost(p) ELSE missed[p])
  BY DEF Closes
<1>3. missed[p] \subseteq 1..MaxSeq
  BY <1>0 DEF TypeOK
<1>4. CASE p \in those
  <2> DEFINE es == missed[p] \cup Lost(p)
  <2>1. /\ es \in SUBSET (1..MaxSeq) /\ missed[p] \subseteq es
        /\ \A x \in list[p] : (\E i \in DOMAIN wire[p] : Undoes(wire[p][i], x)) => x.seq \in es
    BY <1>0, <1>3, LostOnes
  <2>2. p \notin open' /\ wire'[p] = <<>> /\ missed'[p] = es
    BY <1>2, <1>4
  <2>3. events \subseteq Event /\ lastSeq \in Nat
    BY <1>0, TimelineAssumption DEF TypeOK
  <2> HIDE DEF es
  <2>4. PageOK(p, events, lastSeq, State, queue, open', <<>>, lastId[p], list[p], draft, es)
    BY <1>1, <2>1, <2>2, <2>3, PageCloses
  <2> QED  BY <1>2, <2>1, <2>2, <2>4
<1>5. CASE p \notin those
  <2>1. wire'[p] = wire[p] /\ missed'[p] = missed[p] /\ (p \in open <=> p \in open')
    BY <1>2, <1>5
  <2>2. PageOK(p, events, lastSeq, State, queue, open', wire[p], lastId[p], list[p], draft, missed[p])
    BY <1>1, <2>1, Unconcerned
  <2> QED  BY <1>2, <1>3, <2>1, <2>2
<1> QED  BY <1>4, <1>5

LEMMA InvDrops ==
  ASSUME Inv, NEW p \in Pages, Drops(p)
  PROVE  Inv'
<1>0. TypeOK
  BY DEF Inv
<1>1. Closes({p}) /\ UNCHANGED <<events, lastSeq, running, queue, lastId, list, draft, tell, loads, shows, stale>>
  BY DEF Drops, server, page, loading
<1>2. away' \in 0..MaxAway
  BY <1>0, TimelineAssumption DEF Drops, Away, TypeOK
<1>3. \A c \in Pages : /\ PageOK(c, events, lastSeq, State, queue, open', wire'[c], lastId[c], list[c], draft, missed'[c])
                       /\ missed'[c] \subseteq 1..MaxSeq /\ open' = open \ {p}
  BY <1>1, PagesClose
<1>4. PagesOK'
  BY <1>1, <1>3 DEF PagesOK, State
<1>5. wire' = [c \in Pages |-> wire'[c]] /\ missed' \in [Pages -> SUBSET (1..MaxSeq)]
  <2>1. DOMAIN missed' = Pages /\ missed' = [c \in Pages |-> missed'[c]] /\ wire' = [c \in Pages |-> wire'[c]]
    BY <1>1 DEF Closes
  <2> QED  BY <2>1, <1>3
<1>6. UNCHANGED server
  BY <1>1 DEF server
<1>7. open' \subseteq Pages
  BY <1>0, <1>3 DEF TypeOK
<1> QED  BY <1>0, <1>1, <1>2, <1>4, <1>5, <1>6, <1>7, NothingRecorded DEF TypeOK

LEMMA InvRestarts ==
  ASSUME Inv, Restarts
  PROVE  Inv'
<1>0. TypeOK
  BY DEF Inv
<1>1. Closes(Pages) /\ Abandon /\ running' = FALSE /\ queue' = {} /\ UNCHANGED <<lastId, list, draft, tell, loads, shows, stale>>
  BY DEF Restarts, page, loading
<1>2. away' \in 0..MaxAway
  BY <1>0, TimelineAssumption DEF Restarts, Away, TypeOK
<1>3. \A c \in Pages : /\ PageOK(c, events, lastSeq, State, queue, open', wire'[c], lastId[c], list[c], draft, missed'[c])
                       /\ missed'[c] \subseteq 1..MaxSeq /\ open' = open \ Pages
  BY <1>1, PagesClose
<1>4. wire' = [c \in Pages |-> wire'[c]] /\ missed' \in [Pages -> SUBSET (1..MaxSeq)]
  <2>1. DOMAIN missed' = Pages /\ missed' = [c \in Pages |-> missed'[c]] /\ wire' = [c \in Pages |-> wire'[c]]
    BY <1>1 DEF Closes
  <2> QED  BY <2>1, <1>3
<1>5. lastSeq \in Nat /\ Numbers(events, lastSeq)
  BY <1>0, TimelineAssumption DEF TypeOK, Numbers
<1>6. Numbers(events', lastSeq') /\ PagesOK'
  <2>1. CASE ~running
    <3>1. UNCHANGED <<events, lastSeq>> /\ State = "idle" /\ State' = "idle"
      BY <1>1, <2>1 DEF Abandon, State
    <3>2. Numbers(events', lastSeq')
      BY <3>1, <1>5
    <3>3. \A c \in Pages : PageOK(c, events, lastSeq, "idle", {}, open', wire'[c], lastId[c], list[c], draft, missed'[c])
      BY <1>3, <3>1, Stopped
    <3> QED  BY <3>1, <3>2, <3>3, <1>1 DEF PagesOK
  <2>2. CASE running
    <3> DEFINE m == New(1, "done", {})
    <3>1. lastSeq < MaxSeq /\ events' = events \cup {m} /\ lastSeq' = lastSeq + 1
      BY <1>1, <2>2 DEF Abandon
    <3>2. lastSeq + 1 <= MaxSeq
      BY <3>1, <1>5, TimelineAssumption
    <3>3. m \in Event /\ m.seq = lastSeq + 1 /\ m.kind = "done"
      BY <1>5, <3>2, NewEvent DEF Kinds
    <3> HIDE DEF m
    <3>4. Numbers(events', lastSeq')
      BY <1>5, <3>1, <3>3, NextNumber
    <3>5. PagesOK'
      <4> SUFFICES ASSUME NEW c \in Pages
          PROVE PageOK(c, events \cup {m}, lastSeq + 1, "idle", {}, open', wire'[c], lastId[c], list[c], draft, missed'[c])
        BY <1>1, <3>1 DEF PagesOK, State
      <4>1. PageOK(c, events, lastSeq, State, queue, open', wire'[c], lastId[c], list[c], draft, missed'[c]) /\ c \notin open'
        BY <1>3
      <4>2. events \subseteq Event /\ ~Clears(m)
        BY <1>5, <3>3 DEF Numbers, Clears
      <4>3. Sent(c, open', wire'[c], m) = wire'[c]
        BY <4>1 DEF Sent
      <4> DEFINE O == open'
                 w == wire'[c]
                 es == missed'[c]
      <4> HIDE DEF O, w, es
      <4>4. PageOK(c, events, lastSeq, State, queue, O, w, lastId[c], list[c], draft, es) /\ Sent(c, O, w, m) = w
        BY <4>1, <4>3 DEF O, w, es
      <4>5. PageOK(c, events \cup {m}, lastSeq + 1, "idle", {}, O, Sent(c, O, w, m), lastId[c], list[c], draft, es)
        BY <1>5, <3>3, <4>2, <4>4, EventSent
      <4>6. PageOK(c, events \cup {m}, lastSeq + 1, "idle", {}, O, w, lastId[c], list[c], draft, es)
        BY <4>4, <4>5
      <4> QED  BY <4>6 DEF O, w, es
    <3> QED  BY <3>4, <3>5
  <2> QED  BY <2>1, <2>2, <1>0 DEF TypeOK
<1>7. open' \subseteq Pages /\ queue' \subseteq {e.seq : e \in {f \in events' : f.kind = "waits"}}
  BY <1>0, <1>1 DEF TypeOK, Closes
<1>8. TypeOK'
  BY <1>0, <1>1, <1>2, <1>4, <1>6, <1>7, TypesKept DEF TypeOK
<1> QED  BY <1>6, <1>8 DEF Inv

LEMMA InvReloads ==
  ASSUME Inv, NEW p \in Pages, Reloads(p)
  PROVE  Inv'
<1>0. TypeOK /\ PagesOK
  BY DEF Inv
<1>1. /\ open' = open \ {p} /\ wire' = [wire EXCEPT ![p] = <<>>] /\ missed' = [missed EXCEPT ![p] = {}]
      /\ lastId' = [lastId EXCEPT ![p] = 0] /\ list' = [list EXCEPT ![p] = {}]
      /\ draft' = draft \ {p} /\ tell' = tell \cup {p}
      /\ loads' = [loads EXCEPT ![p] = Nothing] /\ shows' = [shows EXCEPT ![p] = "idle"]
      /\ UNCHANGED <<events, lastSeq, running, queue, stale>>
  BY DEF Reloads, server
<1>2. away' \in 0..MaxAway
  BY <1>0, TimelineAssumption DEF Reloads, Away, TypeOK
<1>3. events \subseteq Event /\ lastSeq \in Nat
  BY <1>0, TimelineAssumption DEF TypeOK
<1>4. PagesOK'
  <2> SUFFICES ASSUME NEW c \in Pages
      PROVE PageOK(c, events, lastSeq, State, queue, open', wire'[c], lastId'[c], list'[c], draft', missed'[c])
    BY <1>1 DEF PagesOK, State
  <2>1. PageOK(c, events, lastSeq, State, queue, open, wire[c], lastId[c], list[c], draft, missed[c])
    BY <1>0 DEF PagesOK
  <2>2. CASE c = p
    <3>1. wire'[c] = <<>> /\ missed'[c] = {} /\ lastId'[c] = 0 /\ list'[c] = {} /\ c \notin open' /\ c \notin draft'
      BY <2>2, <1>0, <1>1 DEF TypeOK
    <3>2. PageOK(c, events, lastSeq, State, queue, open', <<>>, 0, {}, draft', {})
      BY <1>3, <2>1, <3>1, PageLoads
    <3> QED  BY <3>1, <3>2
  <2>3. CASE c # p
    <3>1. /\ wire'[c] = wire[c] /\ missed'[c] = missed[c] /\ lastId'[c] = lastId[c] /\ list'[c] = list[c]
          /\ (c \in open <=> c \in open') /\ (c \in draft <=> c \in draft')
      BY <2>3, <1>0, <1>1 DEF TypeOK
    <3>2. PageOK(c, events, lastSeq, State, queue, open', wire[c], lastId[c], list[c], draft', missed[c])
      BY <2>1, <3>1, Unconcerned
    <3> QED  BY <3>1, <3>2
  <2> QED  BY <2>2, <2>3
<1>5. wire' = [c \in Pages |-> wire'[c]]
  BY <1>0, <1>1 DEF TypeOK
<1>6. UNCHANGED server
  BY <1>1 DEF server
<1>7. open' \subseteq Pages /\ tell' \subseteq Pages /\ draft' \subseteq Pages /\ stale' \subseteq Pages
  BY <1>0, <1>1 DEF TypeOK
<1>8. lastId' \in [Pages -> 0..MaxSeq] /\ list' \in [Pages -> SUBSET Event] /\ missed' \in [Pages -> SUBSET (1..MaxSeq)]
  BY <1>0, <1>1, TimelineAssumption DEF TypeOK
<1>9. loads' \in [Pages -> [newest : {"none"} \cup Says, older : SUBSET Says]] /\ shows' \in [Pages -> Says]
  BY <1>0, <1>1 DEF TypeOK, Nothing, Says
<1> QED  BY <1>2, <1>4, <1>5, <1>6, <1>7, <1>8, <1>9, NothingRecorded

LEMMA InvTakes ==
  ASSUME Inv, NEW p \in Pages, Takes(p)
  PROVE  Inv'
<1> DEFINE m == Head(wire[p])
<1>0. TypeOK /\ PagesOK
  BY DEF Inv
<1>1. /\ wire[p] # <<>> /\ wire' = [wire EXCEPT ![p] = Tail(wire[p])]
      /\ list' = [list EXCEPT ![p] = Drawn(list[p], m)]
      /\ draft' = Drafting(p, draft, m)
      /\ lastId' = [lastId EXCEPT ![p] = Received(lastId[p], m)]
      /\ tell' \subseteq tell \cup {p}
      /\ UNCHANGED <<events, lastSeq, running, queue, open, loads, shows, stale, away, missed>>
  <2>1. list' = [list EXCEPT ![p] = Drawn(list[p], m)]
    BY <1>0 DEF Takes, Drawn, TypeOK
  <2>2. draft' = Drafting(p, draft, m)
    BY DEF Takes, Drafting
  <2>3. lastId' = [lastId EXCEPT ![p] = Received(lastId[p], m)]
    <3>1. lastId' = IF m.seq = 0 THEN lastId ELSE [lastId EXCEPT ![p] = m.seq]
      BY DEF Takes
    <3>2. lastId = [lastId EXCEPT ![p] = lastId[p]]
      BY <1>0 DEF TypeOK
    <3> QED  BY <3>1, <3>2 DEF Received
  <2>4. tell' \subseteq tell \cup {p}
    BY DEF Takes
  <2> QED  BY <2>1, <2>2, <2>3, <2>4 DEF Takes, server, loading
<1>2. events \subseteq Event /\ lastSeq \in Nat /\ lastSeq <= MaxSeq
  BY <1>0, TimelineAssumption DEF TypeOK
<1>3. draft' \subseteq Pages /\ \A c \in Pages : c # p => (c \in draft <=> c \in draft')
  BY <1>0, <1>1 DEF Drafting, TypeOK
<1> HIDE DEF m
<1>4. PagesOK'
  <2> SUFFICES ASSUME NEW c \in Pages
      PROVE PageOK(c, events, lastSeq, State, queue, open, wire'[c], lastId'[c], list'[c], draft', missed[c])
    BY <1>1 DEF PagesOK, State
  <2>1. PageOK(c, events, lastSeq, State, queue, open, wire[c], lastId[c], list[c], draft, missed[c])
    BY <1>0 DEF PagesOK
  <2>2. CASE c = p
    <3>1. wire'[c] = Tail(wire[c]) /\ lastId'[c] = Received(lastId[c], m) /\ list'[c] = Drawn(list[c], m) /\ m = Head(wire[c])
      BY <2>2, <1>0, <1>1 DEF TypeOK, m
    <3>2. PageOK(c, events, lastSeq, State, queue, open, Tail(wire[c]), Received(lastId[c], m), Drawn(list[c], m), Drafting(c, draft, m), missed[c])
      BY <1>1, <1>2, <2>1, <2>2, <3>1, PageTakes
    <3> QED  BY <1>1, <2>2, <3>1, <3>2
  <2>3. CASE c # p
    <3>1. wire'[c] = wire[c] /\ lastId'[c] = lastId[c] /\ list'[c] = list[c] /\ (c \in draft <=> c \in draft')
      BY <2>3, <1>0, <1>1, <1>3 DEF TypeOK
    <3>2. PageOK(c, events, lastSeq, State, queue, open, wire[c], lastId[c], list[c], draft', missed[c])
      BY <2>1, <3>1, Unconcerned
    <3> QED  BY <3>1, <3>2
  <2> QED  BY <2>2, <2>3
<1>5. wire' = [c \in Pages |-> wire'[c]]
  BY <1>0, <1>1 DEF TypeOK
<1>6. lastId' \in [Pages -> 0..MaxSeq] /\ list' \in [Pages -> SUBSET Event]
  <2>1. \A c \in Pages : lastId'[c] \in 0..MaxSeq /\ list'[c] \in SUBSET Event
    <3>1. \A c \in Pages : lastId'[c] \in Nat /\ lastId'[c] <= lastSeq /\ list'[c] \subseteq Event
      BY <1>1, <1>4 DEF PagesOK, PageOK, PageTyped, Numbered
    <3> QED  BY <3>1, <1>2, TimelineAssumption
  <2> QED  BY <2>1, <1>0, <1>1 DEF TypeOK
<1>7. UNCHANGED server
  BY <1>1 DEF server
<1>8. tell' \subseteq Pages
  BY <1>0, <1>1 DEF TypeOK
<1> QED  BY <1>0, <1>1, <1>3, <1>4, <1>5, <1>6, <1>7, <1>8, NothingRecorded DEF TypeOK

\* Loading the list is nothing to the timeline.
LEMMA InvLoads ==
  ASSUME Inv, NEW p \in Pages, Loads(p) \/ Answered(p) \/ AnsweredLate(p) \/ LoadFails(p)
  PROVE  Inv'
<1>0. TypeOK /\ PagesOK
  BY DEF Inv
<1>1. UNCHANGED <<events, lastSeq, running, queue, open, wire, lastId, list, draft, missed>>
  BY DEF Loads, Answered, AnsweredLate, LoadFails, LoadKeep, server, page
<1>2. PagesOK'
  BY <1>0, <1>1 DEF PagesOK, State
<1>3. tell' \subseteq Pages /\ stale' \subseteq Pages /\ away' \in 0..MaxAway
  BY <1>0, TimelineAssumption DEF TypeOK, Loads, Answered, AnsweredLate, LoadFails, LoadKeep, page, Away
<1>4. loads' \in [Pages -> [newest : {"none"} \cup Says, older : SUBSET Says]] /\ shows' \in [Pages -> Says]
  <2>0. /\ loads \in [Pages -> [newest : {"none"} \cup Says, older : SUBSET Says]] /\ shows \in [Pages -> Says] /\ State \in Says
        /\ loads[p].newest \in {"none"} \cup Says /\ loads[p].older \subseteq Says
    BY <1>0 DEF TypeOK, State, Says
  <2>1. CASE Loads(p)
    BY <2>0, <2>1 DEF Loads
  <2>2. CASE Answered(p)
    BY <2>0, <2>2 DEF Answered
  <2>3. CASE AnsweredLate(p)
    BY <2>0, <2>3 DEF AnsweredLate
  <2>4. CASE LoadFails(p)
    BY <2>0, <2>4 DEF LoadFails
  <2> QED  BY <2>1, <2>2, <2>3, <2>4
<1>5. UNCHANGED server /\ wire' = [c \in Pages |-> wire'[c]]
  BY <1>0, <1>1 DEF server, TypeOK
<1> QED  BY <1>0, <1>1, <1>2, <1>3, <1>4, <1>5, NothingRecorded DEF TypeOK

LEMMA InvNext ==
  ASSUME Inv, [Next]_vars
  PROVE  Inv'
<1>1. CASE UNCHANGED vars
  BY <1>1 DEF Inv, TypeOK, PagesOK, State, vars, server, page, loading
<1>2. CASE ask
  BY <1>2, InvAsk
<1>3. CASE \E e \in events : editAsk(e)
  BY <1>3, InvEditAsk
<1>4. CASE Writes
  BY <1>4, InvWrites
<1>5. CASE Text
  BY <1>5, InvText
<1>6. CASE Steered
  BY <1>6, InvSteered
<1>7. CASE Ends
  BY <1>7, InvEnds
<1>8. CASE Restarts
  BY <1>8, InvRestarts
<1>9. ASSUME NEW p \in Pages, \/ Connects(p) \/ Drops(p) \/ Reloads(p) \/ Takes(p)
                              \/ Loads(p) \/ Answered(p) \/ AnsweredLate(p) \/ LoadFails(p)
      PROVE  Inv'
  BY <1>9, InvConnects, InvDrops, InvReloads, InvTakes, InvLoads
<1> QED  BY <1>1, <1>2, <1>3, <1>4, <1>5, <1>6, <1>7, <1>8, <1>9 DEF Next

LEMMA Invariant == Spec => []Inv
<1>1. Init => Inv
  BY InvInit
<1>2. Inv /\ [Next]_vars => Inv'
  BY InvNext
<1> QED  BY <1>1, <1>2, PTL DEF Spec

-----------------------------------------------------------------------------
(***************************************************************************)
(* Theorems.                                                               *)
(***************************************************************************)

\* The timeline's state, the pages' streams, lists and loads are what they should be.
THEOREM TypeInvariant == Spec => []TypeOK
<1>1. Inv => TypeOK
  BY DEF Inv
<1> QED  BY <1>1, Invariant, PTL

\* A page that has caught up shows every event there is, none that went but what went while it was
\* away, and no words being written when no turn runs: connections may be lost, messages changed and
\* the Portal restarted at any time between (useTimeline, record, events/route.ts, editAsk).
THEOREM PagesMirrorTheTimeline == Spec => []Mirror
<1>1. Inv => Mirror
  <2> SUFFICES ASSUME Inv, NEW p \in Pages, CaughtUp(p)
      PROVE /\ events \subseteq list[p] /\ {e.seq : e \in list[p] \ events} \subseteq missed[p]
            /\ ~running => p \notin draft
    BY DEF Mirror
  <2>1. /\ Arrives(p, events, open, wire[p], lastId[p], list[p]) /\ Undone(events, wire[p], list[p], missed[p])
        /\ Written(p, events, State, wire[p], lastId[p], draft) /\ lastId[p] \in Nat
    BY DEF Inv, PagesOK, PageOK, PageTyped
  <2>2. p \in open /\ DOMAIN wire[p] = {}
    BY DEF CaughtUp
  <2>3. \A e \in events : e.seq \in Nat
    BY DEF Inv, TypeOK, Event
  <2>4. \A e \in events : e.seq <= lastId[p]
    BY <2>1, <2>2, <2>3 DEF Arrives
  <2>5. events \subseteq list[p]
    BY <2>1, <2>4 DEF Arrives
  <2>6. {e.seq : e \in list[p] \ events} \subseteq missed[p]
    BY <2>1, <2>2 DEF Undone
  <2>7. ~running => p \notin draft
    <3> SUFFICES ASSUME ~running, p \in draft PROVE FALSE
      OBVIOUS
    <3>1. State = "idle"
      BY DEF State
    <3>2. PICK e \in events : e.seq > lastId[p]
      BY <2>1, <3>1 DEF Written
    <3> QED  BY <3>2, <2>1, <2>3, <2>4
  <2> QED  BY <2>5, <2>6, <2>7
<1> QED  BY <1>1, Invariant, PTL

\* No message that still waits is drawn as read or dropped by a page that has caught up (itemsOf).
THEOREM WhatWaitsIsDrawnWaiting == Spec => []WaitingShown
<1>1. Inv /\ Mirror => WaitingShown
  <2> SUFFICES ASSUME Inv, Mirror, NEW p \in Pages, CaughtUp(p), NEW q \in queue
      PROVE q \in Waiting(p)
    BY DEF WaitingShown
  <2>1. PICK f \in events : f.kind = "waits" /\ f.seq = q
    BY DEF Inv, TypeOK
  <2>2. f \in list[p]
    BY <2>1 DEF Mirror
  <2>3. Unread(events, lastSeq, queue, wire[p], list[p])
    BY DEF Inv, PagesOK, PageOK
  <2>4. ~\E g \in list[p] : g.kind \in {"steered", "dropped"} /\ f.seq \in g.seqs
    BY <2>1, <2>3 DEF Unread, Clears
  <2> QED  BY <2>1, <2>2, <2>4 DEF Waiting
<1> QED  BY <1>1, Invariant, PagesMirrorTheTimeline, PTL
=============================================================================
