----------------------------- MODULE MCReminders -----------------------------
(* A small instance of Reminders for TLC: days of two or three hours, of a minute each. *)
EXTENDS Reminders

\* One timezone on either side of UTC.
SomeZones == {-1, 0, 1}

\* West of UTC, where a Sunday lasts into the Monday of the server.
WesternZones == {-1, 0}

=============================================================================
