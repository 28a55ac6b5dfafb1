------------------------------ MODULE StandupBot ------------------------------
(***************************************************************************)
(* standupbot.go: the process.  main loads the flows and the settings,     *)
(* starts the notification loop, and hands every event of the sync loop to *)
(* a handler in a goroutine of its own.  This module composes the handlers *)
(* into the system and states what it promises.                            *)
(***************************************************************************)
EXTENDS CommandHandler

-----------------------------------------------------------------------------
(* The notification loop: one goroutine, serving one user at a time. *)

NeedsPost == CurrentState \in {"FlowNotStarted", "Sent"}

\* It is the minute the user asked to be notified in.
Notify(w) ==
  /\ Free(w)
  /\ \A v \in Workers : task[v].pc # "notify"
  /\ configRoom
  /\ NeedsPost
  /\ Len(flows) < MaxFlows
  /\ Call(w, [Idle EXCEPT !.pc = "notify"])
  /\ UNCHANGED <<memVars, settingVars, members, serverVars, procVars, msgs, faults>>

\* "Time to write your standup post!" was sent, or could not be: the map entry is
\* replaced and CreatePost runs on.
Notified(w) ==
  /\ Awaits(w, "notify")
  /\ StartBlankFlow(w)
  /\ CreatePost(w)
  /\ UNCHANGED <<settingVars, members, serverVars, procVars, msgs, faults>>

-----------------------------------------------------------------------------
(* The sync loop handles member events itself, one after the other. *)

SetMembership(r) ==
  /\ up
  /\ members' = IF r \in members THEN members \ {r} ELSE members \cup {r}
  /\ UNCHANGED <<memVars, task, settingVars, serverVars, procVars, msgs, faults>>

-----------------------------------------------------------------------------
(* The end and the start of the process. *)

Stop == up /\ restarts < MaxRestarts /\ restarts' = restarts + 1 /\ Die

\* The JSON text of a flow does not get shorter while nothing is taken out of it.
Outlives(old, new) ==
  /\ old.items \subseteq new.items
  /\ old.reactable \subseteq new.reactable
  /\ old.roots \subseteq new.roots
  /\ old.previewed => new.previewed
  /\ old.resend => new.resend

\* The file is not truncated before it is written: when the new text is shorter, the
\* end of the old one stays behind it, and the whole cannot be parsed.
MayStayLonger(file) ==
  \/ file.text = "garbled"
  \/ file.text = "good" /\ ~Outlives(file.rec, CurrentFlow)

\* A signal: the flows are written to current-flows.json and the process exits.
Terminate ==
  /\ Stop
  /\ \/ disk' = [text |-> "good", flow |-> current, rec |-> CurrentFlow]
     \/ MayStayLonger(disk) /\ disk' = [NoFile EXCEPT !.text = "garbled"]
  /\ UNCHANGED <<settingVars, members, serverVars, msgs, faults>>

\* The process is killed, or crashes: nothing is written.
Kill ==
  /\ Stop
  /\ UNCHANGED <<settingVars, members, serverVars, disk, msgs, faults>>

\* The entry that reading current-flows.json gives.
LoadedFlow(file) == IF file.text = "good" THEN file.flow ELSE 0

\* The config room is the room that a setting was loaded from.  Settings other
\* than the two modelled may be there; when the members of the room could not be
\* read nothing is.
ConfigRoomLoaded ==
  \/ configRoom' = TRUE /\ UNCHANGED faults
  \/ configRoom' = FALSE /\ sendRoom = NoRoom /\ ~useThreads /\ UNCHANGED faults
  \/ configRoom' = FALSE /\ Fault

Start ==
  /\ ~up
  /\ up' = TRUE
  /\ LET f == LoadedFlow(disk)
     IN /\ current' = f
        /\ flows' = IF f = 0 THEN flows ELSE [flows EXCEPT ![f] = disk.rec]
  /\ ConfigRoomLoaded
  /\ UNCHANGED <<task, sendRoom, useThreads, members, serverVars, disk, restarts, msgs>>

-----------------------------------------------------------------------------

Init ==
  /\ flows = <<>>
  /\ current = 0
  /\ task = [w \in Workers |-> Idle]
  /\ sendRoom \in SendRooms \cup {NoRoom}
  /\ useThreads \in BOOLEAN
  /\ configRoom \in BOOLEAN
  /\ members \in SUBSET SendRooms
  /\ posts = <<>>
  /\ prev = NoPreviousPost
  /\ disk = NoFile
  /\ up = TRUE
  /\ msgs = 0
  /\ faults = 0
  /\ restarts = 0

\* What the user does.
Input(w) ==
  \/ "new" \in Inputs /\ New(w)
  \/ "edit" \in Inputs /\ \E s \in Section : EditSection(w, s)
  \/ "cancel" \in Inputs /\ Cancel(w)
  \/ "undo" \in Inputs /\ Undo(w)
  \/ "room" \in Inputs /\ \E r \in SendRooms : HandleRoom(w, r)
  \/ "threads" \in Inputs /\ \E onOff \in {"on", "off"} : HandleThreads(w, onOff)
  \/ "other" \in Inputs /\ OtherCommand(w)
  \/ "message" \in Inputs /\ HandleMessage(w)
  \/ "change" \in Inputs /\ \E item \in CurrentFlow.items : HandleEdit(w, item)
  \/ "reply" \in Inputs /\ \E s \in Section : HandleReply(w, s)
  \/ "redact" \in Inputs /\ \E item \in CurrentFlow.items : HandleRedaction(w, item)
  \/ \E key \in Inputs \cap {"check", "cross"} : HandleReaction(w, key)

\* An answer from the homeserver, and what the handler does with it.
Answer(w) ==
  \/ Asked(w) \/ RootSent(w)
  \/ PreviewShown(w) \/ PreviewEdited(w) \/ ResendOffered(w)
  \/ ReactCross(w) \/ ReactCheck(w) \/ PreviousPostRead(w)
  \/ Posted(w) \/ PostEdited(w) \/ MarkSent(w) \/ PreviousPostStored(w)
  \/ ItemMarked(w)
  \/ SendRoomSet(w) \/ SendRoomTold(w) \/ UseThreadsSet(w)
  \/ UndoRead(w) \/ Redacted(w) \/ RedactRefused(w) \/ Undone(w)
  \/ PreviousPostCleared(w)
  \/ Notified(w)

Failure(w) == PreviewPanics(w) \/ PostedTwice(w) \/ PostAnswerLost(w) \/ GivesUp(w)

Next ==
  \/ \E w \in Workers : Input(w) \/ Answer(w) \/ Failure(w)
  \/ "notify" \in Inputs /\ \E w \in Workers : Notify(w)
  \/ "member" \in Inputs /\ \E r \in SendRooms : SetMembership(r)
  \/ Terminate
  \/ Kill
  \/ Start

Spec == Init /\ [][Next]_vars

\* DoRetry and the HTTP client give every call an end, and the Go scheduler runs
\* every goroutine: a call that is awaited is answered at last.  The user, the
\* clock and the signals owe nothing.
FairSpec == Spec /\ \A w \in Workers : WF_vars(Answer(w))

-----------------------------------------------------------------------------
(* Type invariant. *)

\* What a goroutine holds fits its pc: a flow pointer is of a record that exists, and
\* where the code dereferences currentStandupFlows[user] after a send without a
\* check there is an entry.
NeedsEntry == {"matched", "readPrev", "root", "preview", "editPreview", "undoRead",
               "undoRedact", "tellUndone"}
HoldsFlow  == {"matched", "readPrev", "preview", "editPreview", "resend", "post",
               "edit", "tellSent", "writePrev", "itemMark"}

TaskOK(t, heap, entry) ==
  /\ t.pc \in NeedsEntry => entry # 0
  /\ t.pc \in HoldsFlow => t.f \in DOMAIN heap
  /\ t.pc = "ask" => t.arg \in Section \cup {"Threads"}
  /\ t.pc = "root" => t.arg \in Section
  /\ t.pc = "preview" => t.arg \in {"none", "Sent", "Confirm"}
  /\ t.pc \in {"post", "edit", "writeRoom"} => t.room \in SendRooms

MemoryOK ==
  /\ flows \in Seq(StandupFlow)
  /\ current \in {0} \cup DOMAIN flows

TasksOK ==
  /\ task \in [Workers -> Task]
  /\ \A w \in Workers : TaskOK(task[w], flows, current)
  /\ up \/ \A w \in Workers : task[w] = Idle

SettingsOK ==
  /\ sendRoom \in SendRooms \cup {NoRoom}
  /\ useThreads \in BOOLEAN
  /\ configRoom \in BOOLEAN
  /\ members \in SUBSET SendRooms

ServerOK ==
  /\ posts \in Seq(Post)
  /\ prev \in PreviousPost

ProcessOK ==
  /\ disk \in FlowsFile
  /\ disk.flow \in {0} \cup DOMAIN flows
  /\ up \in BOOLEAN
  /\ msgs \in Nat
  /\ faults \in Nat
  /\ restarts \in Nat

\* Every variable has its type, and no handler dereferences a nil flow or a missing
\* map entry, in any interleaving.
TypeOK == MemoryOK /\ TasksOK /\ SettingsOK /\ ServerOK /\ ProcessOK

-----------------------------------------------------------------------------
(* Safety. *)

HasPost(f) == \E p \in DOMAIN posts : posts[p].flow = f

\* A flow that is called Sent was posted: no interleaving of handlers, failure or
\* restart makes the bot take a standup for sent, so that it neither posts it nor
\* reminds the user of it, when nothing of it ever reached a send room.
SentWasPosted == \A f \in DOMAIN flows : flows[f].state = "Sent" => HasPost(f)

\* The handlers that take a flow for posted: they are about to call it Sent, to name
\* it in previous_post, or to send an edit of its post.
TakesForPosted(t) ==
  \/ t.pc \in {"edit", "tellSent", "writePrev"}
  \/ t.pc = "preview" /\ t.arg = "Sent"

\* Why SentWasPosted holds.  A flow becomes Sent on the word of a handler, of
\* previous_post, or of current-flows.json after a restart: each of them, too,
\* speaks only of flows that were posted.
SentInv ==
  /\ SentWasPosted
  /\ \A w \in Workers : TakesForPosted(task[w]) => HasPost(task[w].f)
  /\ prev.flow # 0 => HasPost(prev.flow)
  /\ disk.rec.state = "Sent" => HasPost(disk.flow)

Quiet == \A w \in Workers : task[w].pc = "idle"

\* While no handler runs, previous_post leads from a flow that is Sent to its live
\* post: the next edit or undo is about the right one.
SentIsRecorded ==
  up /\ Quiet /\ CurrentState = "Sent" =>
    /\ prev.flow = current
    /\ prev.post \in DOMAIN posts
    /\ posts[prev.post].flow = current
    /\ posts[prev.post].live

\* While no handler runs, the user who is asked for a section can say "done": some
\* event in ReactableEvents takes the check mark.
Answerable == up /\ Quiet /\ CurrentState \in Section => CurrentFlow.reactable # {}

\* The posts and the previews, as the abstract specification has them.
LivePosts(f) == {p \in DOMAIN posts : posts[p].flow = f /\ posts[p].live}

BoardPosts(f) ==
  {[id |-> p, room |-> posts[p].room, text |-> posts[p].items] : p \in LivePosts(f)}

BoardShown(f) ==
  IF f \in DOMAIN flows /\ flows[f].previewed THEN {flows[f].preview} ELSE {}

Texts == SUBSET [msg : 1 .. MaxMsgs, body : {0, 1}]

Board == INSTANCE PostBoard WITH
  Flows <- 1 .. MaxFlows,
  Rooms <- SendRooms,
  Ids   <- 1 .. MaxPosts,
  shown <- [f \in 1 .. MaxFlows |-> BoardShown(f)],
  board <- [f \in 1 .. MaxFlows |-> BoardPosts(f)]

\* One event at a time and with every call answered, the handlers implement
\* PostBoard: one post per flow, saying what the preview said.
ImplementsPostBoard == Board!Spec

\* One goroutine, whose calls are all answered, in a process that goes on.
Serial == (\E w : Workers = {w}) /\ MaxFaults = 0 /\ MaxRestarts = 0

\* The live posts of the current flow, as the handler or previous_post has them.
KnownPosts(t) ==
  IF t.pc \in {"tellSent", "writePrev"} THEN {t.post}
  ELSE {p \in {prev.post} : /\ current # 0 /\ prev.flow = current
                           /\ t.pc \notin {"tellUndone", "undoWrite"}}

\* Events, flows and posts agree on the current flow, wherever its handler is.
FlowsAgree(t) ==
  /\ t.pc \in HoldsFlow => t.f = current
  /\ LivePosts(current) = KnownPosts(t)
  /\ CurrentState = "Sent" /\ t.pc # "writePrev" => prev.flow = current
  /\ t.pc \in {"undoRead", "undoRedact", "tellUndone"} => CurrentState = "Sent"
  /\ t.pc = "undoWrite" => CurrentState # "Sent"
  /\ t.pc \in {"undoRedact", "edit"} => prev.flow = current /\ t.post = prev.post
  /\ t.pc = "preview" /\ t.arg = "Sent" => prev.flow = current
  /\ t.pc = "post" => prev.flow # current
  /\ CurrentState \in Section /\ t.pc \notin {"readPrev", "ask", "preview"}
     => CurrentFlow.reactable # {}

\* In these states the user has been shown what is, or was, to go out.
Presented == {"Threads", "Confirm", "Sent"}

\* A preview of the current flow says what the flow says, but while it is on its way,
\* and what the user has confirmed finds room on the board.
PreviewsAgree(t) ==
  /\ CurrentState \in Presented /\ t.pc \notin {"root", "preview", "editPreview"}
     => CurrentFlow.previewed /\ CurrentFlow.preview = CurrentFlow.items
  /\ t.pc \in {"preview", "editPreview", "post", "edit"} => t.snap = CurrentFlow.items
  /\ t.pc = "editPreview" => CurrentFlow.previewed
  /\ t.pc \in {"post", "edit", "tellSent"} => CurrentState \in Presented
  /\ CurrentFlow.items \in Texts
  /\ t.pc \in {"readPrev", "post"} => Len(posts) < MaxPosts
  /\ t.pc = "matched" /\ t.arg = "check" => Len(posts) < MaxPosts

\* Posts and previous_post are about flows that there are.
FlowsKnown ==
  /\ \A p \in DOMAIN posts : posts[p].flow \in DOMAIN flows
  /\ prev.flow \in {0} \cup DOMAIN flows
  /\ prev.set \/ prev.flow = 0

\* Why the three hold: no handler touches anything but the current flow and its one
\* post, and previous_post, the flow and its preview go on agreeing with that post.
SerialInv ==
  /\ up
  /\ FlowsKnown
  /\ \A w \in Workers : FlowsAgree(task[w]) /\ PreviewsAgree(task[w])

-----------------------------------------------------------------------------
(* Liveness. *)

\* A post that is being sent is recorded in previous_post in the end, whatever other
\* handlers do meanwhile, when no call fails.
PostedIsRecorded ==
  \A f \in 1 .. MaxFlows :
    (\E w \in Workers : task[w].pc = "post" /\ task[w].f = f) ~> (prev.flow = f)

-----------------------------------------------------------------------------
(* What the repository says of the program and its code does not do. *)

\* "Looks like you are already writing a standup post!" (standupbot.go:320): the
\* notification does not replace a flow that the user is filling in.
NotifyKeepsDraft == [][\A w \in Workers : Notified(w) => NeedsPost]_vars

\* "Persisted current standup flows across bot restarts." (CHANGELOG.md:48): what a
\* signal makes the bot write is what the next start reads.
RestartKeepsFlow ==
  [][Terminate => LoadedFlow(disk') = current
                  /\ (current # 0 => disk'.rec = CurrentFlow)]_vars

\* "Added ability to edit your standup post after posting it to the send room."
\* (CHANGELOG.md:63): after an edit that the bot reports as sent the post says what
\* the flow said.
EditReachesPost ==
  [][\A w \in Workers :
       PostEdited(w) /\ task[w].post \in LivePosts(task[w].f)
       => posts'[task[w].post].items = task[w].snap]_vars

=============================================================================
