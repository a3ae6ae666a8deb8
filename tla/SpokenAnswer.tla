---------------------------- MODULE SpokenAnswer ----------------------------
(***************************************************************************)
(* What the voice pipeline promises about one answer, whatever the         *)
(* goroutines and channels behind it do: the device hears words of one     *)
(* speaker, each after it was said, in the order in which it was and once, *)
(* until there is a verdict and no longer.  A "completed" answer is whole  *)
(* and its speaker adds nothing to it, unless some audio was cut off.      *)
(***************************************************************************)
EXTENDS Naturals, Sequences

CONSTANTS
  Sources,  \* who may be speaking
  MaxText   \* bound: words of each

VARIABLES
  said,   \* how many words each has said
  heard,  \* the words the device has got
  ended,  \* the verdict, "read" before there is one
  cut     \* the audio of a sentence broke off without an error

vars == <<said, heard, ended, cut>>

Verdicts == {"completed", "cancelled", "degraded", "local_fallback", "write_error"}

Init ==
  /\ said = [s \in Sources |-> 0]
  /\ heard = <<>>
  /\ ended = "read"
  /\ cut = FALSE

\* s has been reported as heard to its end
Finished(s) == ended = "completed" /\ ~cut /\ heard[1].src = s

Say(s) ==
  /\ ~Finished(s)
  /\ \E n \in (said[s] + 1)..MaxText : said' = [said EXCEPT ![s] = n]
  /\ UNCHANGED <<heard, ended, cut>>

\* s is the only one heard so far, and n comes after what was heard
Continues(s, n) == \A i \in DOMAIN heard : heard[i].src = s /\ heard[i].n < n

Hear(s) ==
  /\ ended = "read"
  /\ \E w \in [src : {s}, n : 1..said[s], ends : BOOLEAN] :
       Continues(s, w.n) /\ heard' = Append(heard, w)
  /\ UNCHANGED <<said, ended, cut>>

Break == cut' = TRUE /\ UNCHANGED <<said, heard, ended>>

Whole == heard # <<>> /\ (~cut => Len(heard) = said[heard[1].src])

\* the device is told of a local fallback only if it has heard nothing
End(verdict) ==
  /\ ended = "read" /\ ended' = verdict
  /\ verdict = "completed" => Whole
  /\ verdict = "degraded" => heard # <<>>
  /\ verdict = "local_fallback" => heard = <<>>
  /\ UNCHANGED <<said, heard, cut>>

Next ==
  \/ \E s \in Sources : Say(s) \/ Hear(s)
  \/ Break
  \/ \E verdict \in Verdicts : End(verdict)

Spec == Init /\ [][Next]_vars
=============================================================================
