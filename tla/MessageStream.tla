---------------------------- MODULE MessageStream ----------------------------
(* What the driver promises about the station's messages.  It reads them in  *)
(* order, and CDM-Rail hears of each at most once, in that order.  Of a safe *)
(* message it hears, unless an equal one is waiting to be parsed: the two    *)
(* are one then, in the place of the earlier.  So of three messages A, B, A  *)
(* the last may be lost, and what CDM-Rail hears last is B.                  *)
EXTENDS Naturals, Sequences

CONSTANT Texts   \* what the station may say

VARIABLES
  said,     \* the messages, each with whether it is safe
  read,     \* how many of them have been read
  told,     \* the messages CDM-Rail has heard of or will, by their numbers
  parsed    \* how many of those have been parsed

vars == <<said, read, told, parsed>>

Init == said = <<>> /\ read = 0 /\ told = <<>> /\ parsed = 0

Say == \E text \in Texts, safe \in BOOLEAN :
  said' = Append(said, [text |-> text, safe |-> safe]) /\ UNCHANGED <<read, told, parsed>>

(* What an unsafe message reads like is not known.                           *)
Equal(message, other) == said[other].safe => said[other].text = said[message].text
EqualWaits(message) == \E k \in (parsed + 1)..Len(told) : Equal(message, told[k])

Read ==
  /\ read < Len(said) /\ read' = read + 1
  /\ \/ told' = Append(told, read + 1)
     \/ (~said[read + 1].safe \/ EqualWaits(read + 1)) /\ UNCHANGED told
  /\ UNCHANGED <<said, parsed>>

Parse == parsed < Len(told) /\ parsed' = parsed + 1 /\ UNCHANGED <<said, read, told>>

Next == Say \/ Read \/ Parse

Spec == Init /\ [][Next]_vars
=============================================================================
