------------------------------ MODULE FlowState ------------------------------
(***************************************************************************)
(* The state of standupbot as one user's standup post sees it: the         *)
(* StandupFlow records the process has allocated, the map entry            *)
(* currentStandupFlows[user], the goroutines that are running handlers for *)
(* this user's events, the user's settings, and what the homeserver holds  *)
(* (the posts in the send rooms and the previous_post state event).        *)
(*                                                                         *)
(* Every handler touches only the map entry and the settings of            *)
(* event.Sender, so one user is modelled; users share nothing but the      *)
(* process itself.                                                         *)
(*                                                                         *)
(* A handler is cut at its network calls.  The pc of a worker names the    *)
(* call whose answer the goroutine is blocked on; the step that receives   *)
(* the answer lets the call take effect and runs the code up to the next   *)
(* call.  Calls whose result is thrown away and that touch no state        *)
(* (reactions, read markers, notices) are part of the step they follow,    *)
(* except where the code changes state on both sides of one.               *)
(***************************************************************************)
EXTENDS Naturals, Sequences, FiniteSets

CONSTANTS
  Workers,      \* goroutines that can be running for this user at once
  SendRooms,    \* rooms that posts can be sent to
  NoRoom,       \* the empty RoomID
  Inputs,       \* bound: the kinds of events that reach the bot
  MaxFlows,     \* bound: no new flow is started beyond this many
  MaxPosts,     \* bound: the user confirms nothing beyond this many posts
  MaxMsgs,      \* bound: items the user writes
  MaxFaults,    \* bound: network calls that fail after all their retries
  MaxRestarts   \* bound: times the process is stopped

\* Kinds of events: the commands, the messages, and what is not the user's doing.
InputKinds == {"new", "edit", "cancel", "undo", "room", "threads", "other",
               "message", "change", "reply", "redact", "check", "cross",
               "notify", "member"}

ASSUME RoomsAssumption == NoRoom \notin SendRooms
ASSUME BoundsAssumption ==
  /\ Inputs \subseteq InputKinds
  /\ MaxFlows \in Nat
  /\ MaxPosts \in Nat
  /\ MaxMsgs \in Nat
  /\ MaxFaults \in Nat
  /\ MaxRestarts \in Nat

VARIABLES
  flows,        \* every StandupFlow allocated; its index stands for the FlowID
  current,      \* currentStandupFlows[user]: a FlowID, 0 when there is no entry
  task,         \* what each goroutine is blocked on
  sendRoom,     \* userSendRoomCache[user], written through to the room state
  useThreads,   \* userUseThreadsCache[user], written through to the room state
  configRoom,   \* is UserConfigRooms[user] the room the user writes in?
  members,      \* rooms whose room_members rows name the user
  posts,        \* standup posts in the send rooms, in the order they arrived
  prev,         \* the previous_post state event of the user
  disk,         \* current-flows.json
  up,           \* is the process running?
  msgs,         \* items written so far
  faults,       \* calls that have failed so far
  restarts      \* times the process has been stopped so far

memVars     == <<flows, current>>
settingVars == <<sendRoom, useThreads, configRoom>>
serverVars  == <<posts, prev>>
procVars    == <<disk, up, restarts>>
vars == <<flows, current, task, sendRoom, useThreads, configRoom, members,
          posts, prev, disk, up, msgs, faults, restarts>>

-----------------------------------------------------------------------------
(* The flow record. *)

Section == {"Done", "Planned", "Blockers", "Notes"}
StandupFlowState == Section \cup {"FlowNotStarted", "Confirm", "Sent", "Threads"}

\* The section a question, or a thread root, is followed by.
Following == [Done |-> "Planned", Planned |-> "Blockers", Blockers |-> "Notes"]

\* One entry of a section: the message that wrote it and which of its two texts
\* it has (an edit alternates between them).  No handler treats the sections
\* differently once an item is in one, so the four lists are one set.
StandupItem == [msg : Nat, body : {0, 1}]

\* What the events in ReactableEvents are.  A handler only asks whether an event
\* is in the list, so an event is represented by what it shows.  The events that
\* EditPreview adds are left out: a client aims a reaction on an edited message at
\* the message, never at the edit.
Prompt == {"question", "intro", "item", "preview", "resend"}

StandupFlow == [
  state     : StandupFlowState,
  reactable : SUBSET Prompt,        \* ReactableEvents
  items     : SUBSET StandupItem,   \* Done, Planned, Blockers and Notes together
  previewed : BOOLEAN,              \* is PreviewEventId set?
  preview   : SUBSET StandupItem,   \* the text last sent as its preview
  resend    : BOOLEAN,              \* is ResendEventId set?
  roots     : SUBSET Section ]      \* sections with a thread root event

BlankStandupFlow == [
  state |-> "FlowNotStarted", reactable |-> {}, items |-> {},
  previewed |-> FALSE, preview |-> {}, resend |-> FALSE, roots |-> {}]

\* The content of previous_post.  set is false when there is no such event; the
\* {} that undo writes has neither a FlowID nor an EditEventID.
PreviousPost == [set : BOOLEAN, flow : Nat, post : Nat]
NoPreviousPost    == [set |-> FALSE, flow |-> 0, post |-> 0]
EmptyPreviousPost == [set |-> TRUE,  flow |-> 0, post |-> 0]

\* A post: where it is, the flow it was made from, what it says, whether it is
\* still there.
Post == [room : SendRooms, flow : Nat, items : SUBSET StandupItem, live : BOOLEAN]

\* current-flows.json: can it be parsed, and which flow does it hold for the user?
FlowsFile == [text : {"absent", "good", "garbled"}, flow : Nat, rec : StandupFlow]
NoFile == [text |-> "absent", flow |-> 0, rec |-> BlankStandupFlow]

-----------------------------------------------------------------------------
(* Goroutines. *)

PC == {"idle", "matched", "readPrev", "ask", "root", "preview", "editPreview",
       "resend", "post", "edit", "tellSent", "writePrev", "itemMark",
       "writeRoom", "tellRoom", "writeThreads", "undoRead", "undoRedact",
       "tellUndone", "undoWrite", "notify"}

Arg == StandupFlowState \cup {"none", "check", "cross", "reply", "on", "off"}

Task == [
  pc   : PC,
  f    : Nat,                     \* the *StandupFlow the handler holds
  arg  : Arg,
  room : SendRooms \cup {NoRoom},
  post : Nat,                     \* event ID of a post, 0 for the empty ID
  snap : SUBSET StandupItem ]     \* the text FormatPost has already made

Idle == [pc |-> "idle", f |-> 0, arg |-> "none", room |-> NoRoom, post |-> 0, snap |-> {}]

Free(w)      == up /\ task[w].pc = "idle"
Awaits(w, p) == up /\ task[w].pc = p

Call(w, t) == task' = [task EXCEPT ![w] = t]
Return(w)  == Call(w, Idle)

\* A call that has failed for good.  DoRetry tries six times before that.
Fault == faults < MaxFaults /\ faults' = faults + 1

\* The process ends: its goroutines and its memory are gone.
Die ==
  /\ up' = FALSE
  /\ task' = [w \in Workers |-> Idle]
  /\ current' = 0
  /\ flows' = [f \in DOMAIN flows |-> BlankStandupFlow]

\* A record that no other goroutine holds is garbage once the map entry is replaced.
Kept(w) == [f \in DOMAIN flows |->
              IF \E v \in Workers \ {w} : task[v].f = f THEN flows[f] ELSE BlankStandupFlow]

\* currentStandupFlows[user] = BlankStandupFlow()
StartBlankFlow(w) ==
  /\ flows' = Append(Kept(w), BlankStandupFlow)
  /\ current' = Len(flows) + 1

\* No entry is treated like the blank flow by every handler that asks for the state
\* or the items.
CurrentFlow == IF current = 0 THEN BlankStandupFlow ELSE flows[current]
CurrentState == CurrentFlow.state
AddReactable(flow, p) == [flow EXCEPT !.reactable = @ \cup {p}]

=============================================================================
