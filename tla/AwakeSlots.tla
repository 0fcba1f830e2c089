----------------------------- MODULE AwakeSlots -----------------------------
(***************************************************************************)
(* What the caps of cli/internal/sandbox/limits.go promise: a node has Cap *)
(* slots; a sandbox takes a free one to be awake, one sandbox at a time,   *)
(* and any number may give theirs up.  How room is made, and by whom, is   *)
(* left open.                                                              *)
(***************************************************************************)
EXTENDS Naturals, FiniteSets

CONSTANTS Boxes, Cap

VARIABLE awake

Init == awake = {}

Wake(b) ==
  /\ Cardinality(awake \cup {b}) <= Cap
  /\ awake' = awake \cup {b}

Sleep == \E asleep \in SUBSET awake : awake' = awake \ asleep

Next == (\E b \in Boxes : Wake(b)) \/ Sleep

Spec == Init /\ [][Next]_awake
=============================================================================
