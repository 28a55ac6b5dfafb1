------------------------------ MODULE MCDelivery ------------------------------
(* A small instance of Delivery for TLC. *)
EXTENDS Delivery

\* A new room, and one that is encrypted and has a member.
SomeHistories ==
  {<<>>} \cup {<<[type |-> "encryption", room |-> r],
                 [type |-> "member", room |-> r, user |-> u, membership |-> "join"]>> :
                 r \in Rooms, u \in {CHOOSE u \in Users : TRUE}}

=============================================================================
