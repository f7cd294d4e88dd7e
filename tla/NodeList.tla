------------------------------ MODULE NodeList ------------------------------
(* The C++ containers the driver keeps its work in (std::list<std::string>   *)
(* cmdToSend and cmdToParse, std::vector listOfCmdWaitingResp), as a finite  *)
(* set of nodes.  A node is a positive number, nodes are numbered in the     *)
(* order they were appended, and the container maps every node to its value. *)
(* Erasing nodes leaves the order of the others alone, which is all the      *)
(* driver relies on.                                                         *)
EXTENDS Integers, FiniteSets

Empty == [k \in {} |-> 0]

(* What a container over the values V looks like. *)
IsNodeList(q, V) ==
  /\ DOMAIN q \subseteq Nat \ {0}
  /\ IsFiniteSet(DOMAIN q)
  /\ q = [k \in DOMAIN q |-> q[k]]
  /\ \A k \in DOMAIN q : q[k] \in V

Values(q) == {q[k] : k \in DOMAIN q}

IsEmpty(q) == DOMAIN q = {}

First(S) == CHOOSE k \in S : \A j \in S : k <= j
Latest(S) == CHOOSE k \in S : \A j \in S : j <= k

Front(q) == q[First(DOMAIN q)]

PushBack(q, v) ==
  LET k == IF IsEmpty(q) THEN 1 ELSE Latest(DOMAIN q) + 1
  IN  [j \in DOMAIN q \cup {k} |-> IF j \in DOMAIN q THEN q[j] ELSE v]

(* std::list::remove: every node that holds v goes, not only the first.      *)
RemoveEqual(q, v) == [k \in {j \in DOMAIN q : q[j] # v} |-> q[k]]

(* vector::erase of one node. *)
EraseEqual(q, k) == RemoveEqual(q, q[k])
Erase(q, k) == [j \in DOMAIN q \ {k} |-> q[j]]
=============================================================================
