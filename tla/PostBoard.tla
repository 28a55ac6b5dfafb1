------------------------------ MODULE PostBoard ------------------------------
(***************************************************************************)
(* What standupbot promises about the posts in the send rooms, without the *)
(* questions, the goroutines and the state events that it takes.           *)
(*                                                                         *)
(* A standup flow has at most one post.  What goes out, as a post or as an *)
(* edit of it, is what the user was last shown as the preview.  An edit    *)
(* stays in the room of the post, and undo takes away the post of the flow *)
(* and no other.                                                           *)
(***************************************************************************)
CONSTANTS Flows, Rooms, Texts, Ids

VARIABLES
  shown,   \* shown[f]: the preview last shown of flow f, if there was one
  board    \* board[f]: the post of flow f, if there is one

vars == <<shown, board>>

Init ==
  /\ shown = [f \in Flows |-> {}]
  /\ board = [f \in Flows |-> {}]

\* The user is shown what flow f has come to.
Show(f) ==
  /\ \E text \in Texts : shown' = [shown EXCEPT ![f] = {text}]
  /\ UNCHANGED board

\* Flows are abandoned.
Abandon ==
  /\ \E left \in SUBSET Flows : shown' = [f \in Flows |-> IF f \in left THEN {} ELSE shown[f]]
  /\ UNCHANGED board

Publish(f) ==
  /\ board[f] = {}
  /\ \E text \in shown[f], room \in Rooms, id \in Ids :
       board' = [board EXCEPT ![f] = {[id |-> id, room |-> room, text |-> text]}]
  /\ UNCHANGED shown

Revise(f) ==
  /\ \E text \in shown[f], post \in board[f] :
       board' = [board EXCEPT ![f] = {[post EXCEPT !.text = text]}]
  /\ UNCHANGED shown

Withdraw(f) ==
  /\ board' = [board EXCEPT ![f] = {}]
  /\ UNCHANGED shown

Next == Abandon \/ \E f \in Flows : Show(f) \/ Publish(f) \/ Revise(f) \/ Withdraw(f)

Spec == Init /\ [][Next]_vars

=============================================================================
