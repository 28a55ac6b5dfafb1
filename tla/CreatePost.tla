------------------------------ MODULE CreatePost ------------------------------
(***************************************************************************)
(* create_post.go: asking the questions, showing the preview, sending the  *)
(* post and handling reactions.                                            *)
(***************************************************************************)
EXTENDS FlowState

(* Calls a goroutine can be left waiting on. *)

\* sendMessageWithCheckmarkReaction of a question, or of the thread mode intro.
Asking(s) == [Idle EXCEPT !.pc = "ask", !.arg = s]

\* sendThreadRootMessage.
SendingRoot(s) == [Idle EXCEPT !.pc = "root", !.arg = s]

\* ShowMessagePreview(currentFlow): the text is made before the message is sent.
\* then is the state the caller sets when it returns, "none" if it sets none.
ShowingPreview(f, items, then) ==
  [Idle EXCEPT !.pc = "preview", !.f = f, !.snap = items, !.arg = then]

\* EditPreview(flow); caller is "reply" when HandleReply goes on after it.
EditingPreview(f, items, caller) ==
  [Idle EXCEPT !.pc = "editPreview", !.f = f, !.snap = items, !.arg = caller]

\* The send room checks of SendMessageToSendRoom: a room is configured and its
\* room_members rows name the user.
MayPost == sendRoom \in members

\* SendMessageToSendRoom up to the send.  Without a send room, or when the user
\* is not a member of it, the user is told and the handler returns.
SendMessageToSendRoom(w, f, how, target) ==
  IF MayPost
  THEN Call(w, [Idle EXCEPT !.pc = how, !.f = f, !.room = sendRoom,
                            !.post = target, !.snap = flows[f].items])
  ELSE Return(w)

-----------------------------------------------------------------------------
(* GoToStateAndNotify. *)

PromptOf(s) == IF s = "Threads" THEN "intro" ELSE "question"

\* Mutant of Asked: the question does not become reactable.
AskedNotReactable(w) ==
  /\ Awaits(w, "ask")
  /\ LET s    == task[w].arg
         heap == IF current = 0 THEN Append(flows, BlankStandupFlow) ELSE flows
         f    == IF current = 0 THEN Len(heap) ELSE current
     IN /\ current' = f
        /\ flows' = [heap EXCEPT ![f].state = s]
        /\ IF s = "Threads" THEN Call(w, SendingRoot("Done")) ELSE Return(w)
  /\ UNCHANGED <<settingVars, members, serverVars, procVars, msgs, faults>>

\* The question was sent.  The flow it moves is whichever the map names by now.
Asked(w) ==
  /\ Awaits(w, "ask")
  /\ LET s    == task[w].arg
         heap == IF current = 0 THEN Append(flows, BlankStandupFlow) ELSE flows
         f    == IF current = 0 THEN Len(heap) ELSE current
     IN /\ current' = f
        /\ flows' = [heap EXCEPT ![f] = AddReactable([@ EXCEPT !.state = s], PromptOf(s))]
        /\ IF s = "Threads" THEN Call(w, SendingRoot("Done")) ELSE Return(w)
  /\ UNCHANGED <<settingVars, members, serverVars, procVars, msgs, faults>>

\* A thread root was sent: record it, then send the next one or, after the last,
\* the preview.
RootSent(w) ==
  /\ Awaits(w, "root")
  /\ LET s == task[w].arg
     IN /\ flows' = [flows EXCEPT ![current].roots = @ \cup {s}]
        /\ Call(w, IF s = "Notes"
                   THEN ShowingPreview(current, flows[current].items, "none")
                   ELSE SendingRoot(Following[s]))
  /\ UNCHANGED <<current, settingVars, members, serverVars, procVars, msgs, faults>>

-----------------------------------------------------------------------------
(* ShowMessagePreview. *)

\* The flow as the handler that asked for the preview leaves it.
Previewed(flow, t) ==
  [flow EXCEPT !.previewed = TRUE, !.preview = t.snap,
               !.state = IF t.arg = "none" THEN @ ELSE t.arg]

\* The preview was sent.  PreviewEventId goes to the flow the handler holds, the
\* reactable event to whichever flow the map names by now.
PreviewShown(w) ==
  /\ Awaits(w, "preview")
  /\ LET shown == [flows EXCEPT ![task[w].f] = Previewed(@, task[w])]
     IN flows' = [shown EXCEPT ![current] = AddReactable(@, "preview")]
  /\ Return(w)
  /\ UNCHANGED <<current, settingVars, members, serverVars, procVars, msgs, faults>>

\* ShowMessagePreview and EditPreview read resp.EventID whatever SendMessage
\* returned: when it failed resp is nil and the process panics.
PreviewPanics(w) ==
  /\ up
  /\ task[w].pc \in {"preview", "editPreview"}
  /\ Fault
  /\ Die
  /\ UNCHANGED <<settingVars, members, serverVars, disk, restarts, msgs>>

-----------------------------------------------------------------------------
(* SendMessageToSendRoom, from the send on. *)

NewPost(t) == [room |-> t.room, flow |-> t.f, items |-> t.snap, live |-> TRUE]

Posted(w) ==
  /\ Awaits(w, "post")
  /\ posts' = Append(posts, NewPost(task[w]))
  /\ Call(w, [Idle EXCEPT !.pc = "tellSent", !.f = task[w].f, !.post = Len(posts) + 1])
  /\ UNCHANGED <<memVars, settingVars, members, prev, procVars, msgs, faults>>

\* The answer to the first attempt was lost: DoRetry sends the post again, as a
\* new event, and only the event of the last attempt is known.
PostedTwice(w) ==
  /\ Awaits(w, "post")
  /\ Fault
  /\ posts' = posts \o <<NewPost(task[w]), NewPost(task[w])>>
  /\ Call(w, [Idle EXCEPT !.pc = "tellSent", !.f = task[w].f, !.post = Len(posts) + 2])
  /\ UNCHANGED <<memVars, settingVars, members, prev, procVars, msgs>>

\* The answers to all attempts were lost: the post is there and the user is told
\* that it could not be sent.
PostAnswerLost(w) ==
  /\ Awaits(w, "post")
  /\ Fault
  /\ posts' = Append(posts, NewPost(task[w]))
  /\ Return(w)
  /\ UNCHANGED <<memVars, settingVars, members, prev, procVars, msgs>>

\* An m.replace event changes what the room shows if the event it replaces is in
\* that room and has not been redacted.
Replaced(t) ==
  [p \in DOMAIN posts |->
     IF p = t.post /\ posts[p].room = t.room /\ posts[p].live
     THEN [posts[p] EXCEPT !.items = t.snap]
     ELSE posts[p]]

\* The edit was accepted; the answer arrives, or is lost on every attempt.
PostEdited(w) ==
  /\ Awaits(w, "edit")
  /\ posts' = Replaced(task[w])
  /\ \/ /\ Call(w, [Idle EXCEPT !.pc = "tellSent", !.f = task[w].f, !.post = task[w].post])
        /\ UNCHANGED faults
     \/ Fault /\ Return(w)
  /\ UNCHANGED <<memVars, settingVars, members, prev, procVars, msgs>>

\* Mutant of MarkSent: it is the flow in the map that becomes Sent.
MarkCurrentSent(w) ==
  /\ Awaits(w, "tellSent")
  /\ flows' = [flows EXCEPT ![current].state = "Sent", ![current].resend = FALSE]
  /\ Call(w, [task[w] EXCEPT !.pc = "writePrev"])
  /\ UNCHANGED <<current, settingVars, members, serverVars, procVars, msgs, faults>>

\* Mutant of MarkSent: previous_post is written only when the flow is still the one
\* in the map.
MarkSentIfCurrent(w) ==
  /\ Awaits(w, "tellSent")
  /\ flows' = [flows EXCEPT ![task[w].f].state = "Sent", ![task[w].f].resend = FALSE]
  /\ IF current = task[w].f THEN Call(w, [task[w] EXCEPT !.pc = "writePrev"]) ELSE Return(w)
  /\ UNCHANGED <<current, settingVars, members, serverVars, procVars, msgs, faults>>

\* "Sent standup post" was sent, or could not be: the flow becomes Sent.
MarkSent(w) ==
  /\ Awaits(w, "tellSent")
  /\ flows' = [flows EXCEPT ![task[w].f].state = "Sent", ![task[w].f].resend = FALSE]
  /\ Call(w, [task[w] EXCEPT !.pc = "writePrev"])
  /\ UNCHANGED <<current, settingVars, members, serverVars, procVars, msgs, faults>>

\* previous_post names the post that the next edit or undo is for.
PreviousPostStored(w) ==
  /\ Awaits(w, "writePrev")
  /\ prev' = [set |-> TRUE, flow |-> task[w].f, post |-> task[w].post]
  /\ Return(w)
  /\ UNCHANGED <<memVars, settingVars, members, posts, procVars, msgs, faults>>

-----------------------------------------------------------------------------
(* HandleReaction. *)

\* A reaction to an event in ReactableEvents starts a handler.
HandleReaction(w, key) ==
  /\ Free(w)
  /\ CurrentState # "FlowNotStarted"
  /\ flows[current].reactable # {}
  /\ IF key = "check" THEN Len(posts) < MaxPosts ELSE Len(flows) < MaxFlows
  /\ Call(w, [Idle EXCEPT !.pc = "matched", !.f = current, !.arg = key])
  /\ UNCHANGED <<memVars, settingVars, members, serverVars, procVars, msgs, faults>>

\* The states in which a cross abandons the post.
Cancellable(s) == s \in {"Confirm", "Sent"}

\* A cross.  Nothing keeps another goroutine out between the look-up and this.
ReactCross(w) ==
  /\ Awaits(w, "matched")
  /\ task[w].arg = "cross"
  /\ IF Cancellable(flows[task[w].f].state) THEN StartBlankFlow(w) ELSE UNCHANGED memVars
  /\ Return(w)
  /\ UNCHANGED <<settingVars, members, serverVars, procVars, msgs, faults>>

\* A check mark: drop the reactable events and read previous_post.
ReactCheck(w) ==
  /\ Awaits(w, "matched")
  /\ task[w].arg = "check"
  /\ flows' = [flows EXCEPT ![task[w].f].reactable = {}]
  /\ Call(w, [Idle EXCEPT !.pc = "readPrev", !.f = task[w].f])
  /\ UNCHANGED <<current, settingVars, members, serverVars, procVars, msgs, faults>>

\* client.StateEvent(previous_post): an error when there is no such event, or
\* when the call failed.
StateEventRead(failed) ==
  \/ failed = ~prev.set /\ UNCHANGED faults
  \/ failed /\ prev.set /\ Fault

\* previous_post is about the flow the handler holds.
MatchesPrevious(f, failed) == ~failed /\ prev.flow = f

\* The flow was shown a preview and then taken back to a section by !su edit.
WentBack(flow) ==
  flow.previewed /\ flow.state \notin {"Confirm", "Sent", "Threads"}

\* What a check mark does once previous_post has been read.
Confirmed(w, f, failed) ==
  LET flow == flows[f] IN
  \/ \* a section of a post that was sent has been revised
     /\ MatchesPrevious(f, failed)
     /\ flow.state # "Sent"
     /\ Call(w, ShowingPreview(f, flow.items, "Sent"))
     /\ UNCHANGED flows
  \/ \* all the sections are filled in
     /\ ~MatchesPrevious(f, failed)
     /\ WentBack(flow) \/ flow.state = "Notes"
     /\ flows' = [flows EXCEPT ![f].state = "Notes"]
     /\ Call(w, ShowingPreview(f, flow.items, "Confirm"))
  \/ /\ ~MatchesPrevious(f, failed)
     /\ ~WentBack(flow)
     /\ flow.state \in DOMAIN Following
     /\ Call(w, Asking(Following[flow.state]))
     /\ UNCHANGED flows
  \/ /\ ~MatchesPrevious(f, failed)
     /\ flow.state \in {"Threads", "Confirm"}
     /\ SendMessageToSendRoom(w, f, "post", 0)
     /\ UNCHANGED flows
  \/ \* the post is out: send an edit of the one previous_post names
     /\ flow.state = "Sent"
     /\ IF failed THEN Return(w) ELSE SendMessageToSendRoom(w, f, "edit", prev.post)
     /\ UNCHANGED flows

PreviousPostRead(w) ==
  /\ Awaits(w, "readPrev")
  /\ \E failed \in BOOLEAN :
       /\ StateEventRead(failed)
       /\ Confirmed(w, task[w].f, failed)
  /\ UNCHANGED <<current, settingVars, members, serverVars, procVars, msgs>>

=============================================================================
