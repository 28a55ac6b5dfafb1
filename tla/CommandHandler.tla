---------------------------- MODULE CommandHandler ----------------------------
(***************************************************************************)
(* command_handler.go: the commands, and the messages, edits, replies and  *)
(* redactions that fill in the sections.  Every event starts a goroutine   *)
(* of its own.                                                             *)
(***************************************************************************)
EXTENDS CreatePost

\* A command makes the room it was written in the user's config room.
Command(w) ==
  /\ Free(w)
  /\ configRoom' = TRUE

\* A command that does nothing else to the flow: show, help, room, tz, notify or
\* threads without an argument.
OtherCommand(w) ==
  /\ Command(w)
  /\ UNCHANGED <<memVars, task, sendRoom, useThreads, members, serverVars, procVars,
                 msgs, faults>>

-----------------------------------------------------------------------------
(* new, edit, cancel. *)

\* CreatePost: its read of previous_post is only logged.
CreatePost(w) == Call(w, Asking(IF useThreads THEN "Threads" ELSE "Done"))

\* Mutant of New: the entry is deleted, not replaced by a blank flow.
NewDeletesEntry(w) ==
  /\ Command(w)
  /\ Len(flows) < MaxFlows
  /\ flows' = Kept(w)
  /\ current' = 0
  /\ CreatePost(w)
  /\ UNCHANGED <<sendRoom, useThreads, members, serverVars, procVars, msgs, faults>>

New(w) ==
  /\ Command(w)
  /\ Len(flows) < MaxFlows
  /\ StartBlankFlow(w)
  /\ CreatePost(w)
  /\ UNCHANGED <<sendRoom, useThreads, members, serverVars, procVars, msgs, faults>>

\* !su edit goes to a section.  When there is no post to edit the user is told so,
\* and is asked the question all the same.
EditSection(w, s) ==
  /\ Command(w)
  /\ ~useThreads
  /\ current = 0 => Len(flows) < MaxFlows
  /\ Call(w, Asking(s))
  /\ UNCHANGED <<memVars, sendRoom, useThreads, members, serverVars, procVars, msgs, faults>>

Cancel(w) ==
  /\ Command(w)
  /\ CurrentState # "FlowNotStarted"
  /\ Len(flows) < MaxFlows
  /\ StartBlankFlow(w)
  /\ UNCHANGED <<task, sendRoom, useThreads, members, serverVars, procVars, msgs, faults>>

-----------------------------------------------------------------------------
(* undo. *)

\* Mutant of Undoable: undo goes on after it has said that there is nothing to undo.
UndoableAlways == TRUE

Undoable == CurrentState = "Sent"

Undo(w) ==
  /\ Command(w)
  /\ Undoable
  /\ Call(w, [Idle EXCEPT !.pc = "undoRead", !.room = sendRoom])
  /\ UNCHANGED <<memVars, sendRoom, useThreads, members, serverVars, procVars, msgs, faults>>

\* previous_post was read, or could not be: the redaction is tried either way.
UndoRead(w) ==
  /\ Awaits(w, "undoRead")
  /\ \E failed \in BOOLEAN :
       /\ StateEventRead(failed)
       /\ Call(w, [task[w] EXCEPT !.pc = "undoRedact",
                                  !.post = IF failed THEN 0 ELSE prev.post])
  /\ UNCHANGED <<memVars, settingVars, members, serverVars, procVars, msgs>>

\* The homeserver redacts events of the room that it is asked about.
Redactable(t) == t.post \in DOMAIN posts /\ posts[t.post].room = t.room

\* The post was redacted; the answer arrives or is lost.
Redacted(w) ==
  /\ Awaits(w, "undoRedact")
  /\ Redactable(task[w])
  /\ posts' = [posts EXCEPT ![task[w].post].live = FALSE]
  /\ \/ Call(w, [Idle EXCEPT !.pc = "tellUndone"]) /\ UNCHANGED faults
     \/ Fault /\ Return(w)
  /\ UNCHANGED <<memVars, settingVars, members, prev, procVars, msgs>>

RedactRefused(w) ==
  /\ Awaits(w, "undoRedact")
  /\ ~Redactable(task[w])
  /\ Return(w)
  /\ UNCHANGED <<memVars, settingVars, members, serverVars, procVars, msgs, faults>>

\* Mutant of Undone: the flow stays Sent.
UndoneStaysSent(w) ==
  /\ Awaits(w, "tellUndone")
  /\ Call(w, [Idle EXCEPT !.pc = "undoWrite"])
  /\ UNCHANGED <<memVars, settingVars, members, serverVars, procVars, msgs, faults>>

\* "Redacted standup post" was sent: whichever flow the map names is to be
\* confirmed again.
Undone(w) ==
  /\ Awaits(w, "tellUndone")
  /\ flows' = [flows EXCEPT ![current].state = "Confirm"]
  /\ Call(w, [Idle EXCEPT !.pc = "undoWrite"])
  /\ UNCHANGED <<current, settingVars, members, serverVars, procVars, msgs, faults>>

PreviousPostCleared(w) ==
  /\ Awaits(w, "undoWrite")
  /\ prev' = EmptyPreviousPost
  /\ Return(w)
  /\ UNCHANGED <<memVars, settingVars, members, posts, procVars, msgs, faults>>

-----------------------------------------------------------------------------
(* room, threads. *)

HandleRoom(w, r) ==
  /\ Command(w)
  /\ Call(w, [Idle EXCEPT !.pc = "writeRoom", !.room = r])
  /\ UNCHANGED <<memVars, sendRoom, useThreads, members, serverVars, procVars, msgs, faults>>

\* The room was joined and the state event written, or one of the two failed.
SendRoomSet(w) ==
  /\ Awaits(w, "writeRoom")
  /\ \/ sendRoom' = task[w].room /\ UNCHANGED faults
     \/ Fault /\ UNCHANGED sendRoom
  /\ Call(w, [Idle EXCEPT !.pc = "tellRoom"])
  /\ UNCHANGED <<memVars, useThreads, configRoom, members, serverVars, procVars, msgs>>

\* The user was told; a preview that waits for an answer is shown again.
SendRoomTold(w) ==
  /\ Awaits(w, "tellRoom")
  /\ IF CurrentState = "Confirm"
     THEN Call(w, ShowingPreview(current, flows[current].items, "none"))
     ELSE Return(w)
  /\ UNCHANGED <<memVars, settingVars, members, serverVars, procVars, msgs, faults>>

HandleThreads(w, onOff) ==
  /\ Command(w)
  /\ Call(w, [Idle EXCEPT !.pc = "writeThreads", !.arg = onOff])
  /\ UNCHANGED <<memVars, sendRoom, useThreads, members, serverVars, procVars, msgs, faults>>

UseThreadsSet(w) ==
  /\ Awaits(w, "writeThreads")
  /\ useThreads' = (task[w].arg = "on")
  /\ Return(w)
  /\ UNCHANGED <<memVars, sendRoom, configRoom, members, serverVars, procVars, msgs, faults>>

-----------------------------------------------------------------------------
(* Messages that are not commands. *)

\* A message in the config room, from a user with a flow.
Content == configRoom /\ current # 0

Written == flows[current].items \cup {[msg |-> msgs + 1, body |-> 0]}

WriteItem ==
  /\ msgs < MaxMsgs
  /\ msgs' = msgs + 1
  /\ flows' = [flows EXCEPT ![current].items = Written]

\* A message of its own is an item of the section that is being asked for.
HandleMessage(w) ==
  /\ Free(w)
  /\ Content
  /\ CurrentState \in Section
  /\ WriteItem
  /\ Call(w, [Idle EXCEPT !.pc = "itemMark", !.f = current])
  /\ UNCHANGED <<current, settingVars, members, serverVars, procVars, faults>>

\* The check mark was put on the message, or not.
ItemMarked(w) ==
  /\ Awaits(w, "itemMark")
  /\ flows' = [flows EXCEPT ![task[w].f] = AddReactable(@, "item")]
  /\ Return(w)
  /\ UNCHANGED <<current, settingVars, members, serverVars, procVars, msgs, faults>>

\* Mutant of AfterEdit: a preview that waits for an answer is not edited.
AfterEditNotConfirm(w, f, items) ==
  CASE flows[f].state = "Threads" -> Call(w, EditingPreview(f, items, "none"))
    [] flows[f].state = "Sent" -> Call(w, ShowingPreview(f, items, "none"))
    [] OTHER -> UNCHANGED task

\* What HandleEdit does about the preview in each state.
AfterEdit(w, f, items) ==
  CASE flows[f].state \in {"Threads", "Confirm"} -> Call(w, EditingPreview(f, items, "none"))
    [] flows[f].state = "Sent" -> Call(w, ShowingPreview(f, items, "none"))
    [] OTHER -> UNCHANGED task

\* The user edits the message of an item.
HandleEdit(w, item) ==
  /\ Free(w)
  /\ Content
  /\ item \in flows[current].items
  /\ LET edited == (flows[current].items \ {item}) \cup {[item EXCEPT !.body = 1 - @]}
     IN /\ flows' = [flows EXCEPT ![current].items = edited]
        /\ AfterEdit(w, current, edited)
  /\ UNCHANGED <<current, settingVars, members, serverVars, procVars, msgs, faults>>

\* The user replies in the thread of a section.
HandleReply(w, s) ==
  /\ Free(w)
  /\ Content
  /\ CurrentState \in {"Threads", "Confirm", "Sent"}
  /\ s \in flows[current].roots
  /\ WriteItem
  /\ Call(w, EditingPreview(current, Written, "reply"))
  /\ UNCHANGED <<current, settingVars, members, serverVars, procVars, faults>>

\* The user redacts the message of an item, in any room.
HandleRedaction(w, item) ==
  /\ Free(w)
  /\ current # 0
  /\ item \in flows[current].items
  /\ LET left == flows[current].items \ {item}
     IN /\ flows' = [flows EXCEPT ![current].items = left]
        /\ IF flows[current].previewed
           THEN Call(w, EditingPreview(current, left, "none"))
           ELSE UNCHANGED task
  /\ UNCHANGED <<current, settingVars, members, serverVars, procVars, msgs, faults>>

-----------------------------------------------------------------------------
(* EditPreview, and what its callers do next. *)

\* The edit was sent.  Without a PreviewEventId it replaces nothing.
EditShown(flow, t) == IF flow.previewed THEN [flow EXCEPT !.preview = t.snap] ELSE flow

\* A reply to a post that is out: offer, once, to send the edit.
OffersResend(flow, t) == t.arg = "reply" /\ flow.state = "Sent" /\ ~flow.resend

PreviewEdited(w) ==
  /\ Awaits(w, "editPreview")
  /\ LET t == task[w]
     IN /\ flows' = [flows EXCEPT ![t.f] = EditShown(@, t)]
        /\ IF OffersResend(flows[t.f], t)
           THEN Call(w, [Idle EXCEPT !.pc = "resend", !.f = t.f])
           ELSE Return(w)
  /\ UNCHANGED <<current, settingVars, members, serverVars, procVars, msgs, faults>>

ResendOffered(w) ==
  /\ Awaits(w, "resend")
  /\ flows' = [flows EXCEPT ![task[w].f] = [AddReactable(@, "resend") EXCEPT !.resend = TRUE]]
  /\ Return(w)
  /\ UNCHANGED <<current, settingVars, members, serverVars, procVars, msgs, faults>>

-----------------------------------------------------------------------------
(* Failures. *)

\* The calls whose failure ends the handler.
Abandons == {"ask", "root", "resend", "post", "edit", "writePrev",
             "undoRedact", "undoWrite", "writeThreads"}

\* Mutant of GivesUp: the error of the send is not looked at.
GivesUpUnlessPost(w) ==
  /\ up
  /\ task[w].pc \in Abandons
  /\ Fault
  /\ IF task[w].pc = "post"
     THEN Call(w, [Idle EXCEPT !.pc = "tellSent", !.f = task[w].f])
     ELSE Return(w)
  /\ UNCHANGED <<memVars, settingVars, members, serverVars, procVars, msgs>>

GivesUp(w) ==
  /\ up
  /\ task[w].pc \in Abandons
  /\ Fault
  /\ Return(w)
  /\ UNCHANGED <<memVars, settingVars, members, serverVars, procVars, msgs>>

=============================================================================
