------------------------------ MODULE TurnWire ------------------------------
(***************************************************************************)
(* What one Xiaozhi socket promises the device about turns, whatever the   *)
(* goroutines behind it do: answers arrive in the order their turns were   *)
(* started, and once a turn has been cut nothing more of it is sent.       *)
(***************************************************************************)
EXTENDS Naturals

CONSTANTS MaxTurns   \* bound: turns in one behaviour

VARIABLES
  wire,      \* last message: its kind and its turn
  heard,     \* turn of the last message of an answer
  silenced   \* turns that were cut

vars == <<wire, heard, silenced>>

Parts == {"answer", "stop"}

Init ==
  /\ wire = [kind |-> "none", turn |-> 0]
  /\ heard = 0
  /\ silenced = {}

\* a part of turn t's answer
Answer(t) ==
  /\ t >= heard /\ t \notin silenced
  /\ \E k \in Parts : wire' = [kind |-> k, turn |-> t]
  /\ heard' = t
  /\ UNCHANGED silenced

\* an interrupt stops turn t, whoever is speaking
Cut(t) ==
  /\ wire' = [kind |-> "cut", turn |-> t]
  /\ silenced' = silenced \cup {t}
  /\ UNCHANGED heard

Next == \E t \in 1..MaxTurns : Answer(t) \/ Cut(t)

Spec == Init /\ [][Next]_vars
=============================================================================
