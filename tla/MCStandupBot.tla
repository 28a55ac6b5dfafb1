----------------------------- MODULE MCStandupBot -----------------------------
(* Small instances of StandupBot for TLC: which events each of them is about. *)
EXTENDS StandupBot, TLC

\* Goroutines are alike: a permutation of Workers changes no run.
WorkerSymmetry == Permutations(Workers)

\* serial: everything a user can do to a post, and the reminder.
SerialInputs == InputKinds \ {"threads", "other"}

\* faults: what a failure or a restart can get in the way of.
FaultInputs == {"new", "other", "edit", "undo", "threads", "message", "reply",
                "check", "notify"}

\* concurrent: two goroutines on the way from a new flow to its post and back.
ConcurrentInputs == {"new", "other", "undo", "message", "check", "notify"}

\* notify_race, restart_loses_flow, edit_after_room_change: the events the question is
\* about.
NotifyInputs  == {"other", "new", "notify"}
RestartInputs == {"other", "new", "message", "redact"}
RoomInputs    == {"other", "new", "room", "message", "reply", "check"}

=============================================================================
