----------------------------- MODULE TrackGate -----------------------------
(* What the driver promises about moving trains when the track loses power:  *)
(* the loss is acknowledged (held) only when every locomotive has been given *)
(* an emergency stop, and from then on no locomotive is driven until the     *)
(* power is back.  A locomotive is driven when the command the station holds *)
(* for it is not an emergency stop.                                          *)
CONSTANT Locos
VARIABLES held, driven

gate == <<held, driven>>

Init == held = FALSE /\ driven = {}

Drive(l) == ~held /\ driven' = driven \cup {l} /\ UNCHANGED held

Stop(l) == driven' = driven \ {l} /\ UNCHANGED held

Hold == driven = {} /\ held' = TRUE /\ UNCHANGED driven

Release == held' = FALSE /\ UNCHANGED driven

Next == \/ \E l \in Locos : Drive(l) \/ Stop(l)
        \/ Hold \/ Release

Spec == Init /\ [][Next]_gate

(* Nothing is driven while the loss of power is held.                        *)
NothingDrivenWhileHeld == held => driven = {}
=============================================================================
