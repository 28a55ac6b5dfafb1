------------------------------- MODULE SendCall -------------------------------
(***************************************************************************)
(* What SendMessage promises to its caller, without the attempts, the      *)
(* encryption and the tables it takes: the event is in the room at most    *)
(* Copies times, at least once when the call says that it was sent, and    *)
(* not any more often once the call has ended.                             *)
(***************************************************************************)
EXTENDS Naturals

CONSTANTS Calls, Copies

VARIABLES
  outcome,   \* outcome[c]: "none", or how the call has ended
  arrived    \* arrived[c]: how often its event is in the room

vars == <<outcome, arrived>>

Init ==
  /\ outcome = [c \in Calls |-> "none"]
  /\ arrived = [c \in Calls |-> 0]

\* The event arrives, and the call may end with that.
Arrive(c) ==
  /\ outcome[c] = "none"
  /\ arrived[c] < Copies
  /\ arrived' = [arrived EXCEPT ![c] = @ + 1]
  /\ outcome' \in {outcome, [outcome EXCEPT ![c] = "ok"],
                   [outcome EXCEPT ![c] = "failed"]}

\* The calls of C end without another copy: given up, or the process has ended.
End(C) ==
  /\ \A c \in C : outcome[c] = "none"
  /\ outcome' = [c \in Calls |-> IF c \in C THEN "failed" ELSE outcome[c]]
  /\ UNCHANGED arrived

Next == (\E c \in Calls : Arrive(c)) \/ (\E C \in SUBSET Calls : End(C))

Spec == Init /\ [][Next]_vars

=============================================================================
