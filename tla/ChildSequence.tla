---------------------------- MODULE ChildSequence ----------------------------
(***************************************************************************)
(* What a loop XmlNode n(base, name); while (n) { ...; ++n; } promises     *)
(* whatever its body asks of n: it visits a fixed set of nodes, each once  *)
(* and in the order of the document, which their numbers follow, and ends. *)
(***************************************************************************)
EXTENDS Naturals

VARIABLES items,   \* the numbers of the nodes to visit, none of them 0
          at       \* the node the cursor is at; 0 at the end

vars == <<items, at>>

Earliest(S) == IF S = {} THEN 0 ELSE CHOOSE k \in S : \A j \in S : k <= j

Init == at = Earliest(items)

Advance == at # 0 /\ at' = Earliest({k \in items : k > at}) /\ UNCHANGED items

SafeSpec == Init /\ [][Advance]_vars

Spec == SafeSpec /\ WF_vars(Advance)
=============================================================================
