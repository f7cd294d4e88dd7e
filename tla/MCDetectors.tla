---------------------------- MODULE MCDetectors ----------------------------
(* Instances of Detectors for TLC: layouts by the nibbles that are occupied. *)
EXTENDS Detectors

Occupied(S) == [n \in Nibbles |-> IF n \in S THEN 9 + (n % 7) ELSE 0]

(* For two items to a message and four nibbles.  A clearing in the middle of *)
(* an update may add a nibble to its changes: serial layouts leave room for  *)
(* it.  Over Wi-Fi nothing is cleared, and any two layouts differ in two or  *)
(* four nibbles: one full report, or two.                                    *)
SmallLayouts == [m \in Modes |->
  CASE m = "usb"       -> {Occupied({}), Occupied({1}), Occupied({0, 1})}
    [] m = "wifi"      -> {Occupied({}), Occupied({0, 1}), Occupied({2, 3})}
    [] m = "emulation" -> {}]
SmallResumes == [m \in Modes |-> IF m = "usb" THEN 1 ELSE 0]
SmallChanges == [m \in Modes |-> IF m = "usb" THEN 2 ELSE 3]

(* For the eight items of the code and eight modules: these two differ in    *)
(* nine nibbles.                                                             *)
NineLayouts == [m \in Modes |-> {Occupied({}), Occupied(0..8)}]
NoResumes == [m \in Modes |-> 0]
OneChange == [m \in Modes |-> 1]
=============================================================================
