---------------------------- MODULE OrderedQueue ----------------------------
(***************************************************************************)
(* What a scheduler queue promises: a set of live keys that are taken in   *)
(* ascending order.  A batch dispatch takes a prefix of the set, and gives *)
(* back what its executor did not consume, the consumed keys again being a *)
(* prefix.  Keys stand for the (order, sequence) pairs in key order.       *)
(***************************************************************************)
EXTENDS Integers

CONSTANT Keys

VARIABLES
  live,     (* keys in the queue that are not cancelled                    *)
  offered,  (* keys handed to the batch executor that is running           *)
  out       (* the keys the last operation took for good                   *)

vars == <<live, offered, out>>

(* P holds the smallest keys of S.                                         *)
IsPrefixOf(P, S) == P \subseteq S /\ \A k \in P, l \in S \ P : k < l

Init == live = {} /\ offered = {} /\ out = {}

Push(k) == /\ k \notin live \cup offered
           /\ live' = live \cup {k} /\ out' = {} /\ UNCHANGED offered

Cancel(k) == /\ k \in live
             /\ live' = live \ {k} /\ out' = {} /\ UNCHANGED offered

Pop(k) == /\ offered = {} /\ IsPrefixOf({k}, live)
          /\ live' = live \ {k} /\ out' = {k} /\ UNCHANGED offered

Offer(P) == /\ offered = {} /\ P # {} /\ IsPrefixOf(P, live)
            /\ live' = live \ P /\ offered' = P /\ out' = {}

Settle(C) == /\ offered # {} /\ IsPrefixOf(C, offered)
             /\ live' = live \cup (offered \ C) /\ offered' = {} /\ out' = C

Next == \/ \E k \in Keys : Push(k) \/ Cancel(k) \/ Pop(k)
        \/ \E P \in SUBSET Keys : Offer(P) \/ Settle(P)

Spec == Init /\ [][Next]_vars
=============================================================================
