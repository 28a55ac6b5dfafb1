----------------------------- MODULE SerialProofs -----------------------------
(***************************************************************************)
(* One event at a time, with every call answered: the proof that SerialInv *)
(* is inductive when one goroutine does all the work, and that the         *)
(* handlers then implement PostBoard.                                      *)
(*                                                                         *)
(* Its shape: three lemmas say what a step does to the current flow and to *)
(* its live posts (Unmoved, Rewritten, Begun); each action is one of the   *)
(* three kinds, or one of the few that touch the posts or previous_post.   *)
(***************************************************************************)
EXTENDS StandupBotProofs

-----------------------------------------------------------------------------
(* The one goroutine. *)

LEMMA SerialNow ==
  ASSUME NEW w, Workers = {w}, SerialInv
  PROVE  up /\ FlowsKnown /\ FlowsAgree(task[w]) /\ PreviewsAgree(task[w])
BY DEF SerialInv

LEMMA SerialAfter ==
  ASSUME NEW w, Workers = {w},
         up', FlowsKnown', FlowsAgree(task[w])', PreviewsAgree(task[w])'
  PROVE  SerialInv'
BY DEF SerialInv

LEMMA Called ==
  ASSUME TypeOK, NEW w \in Workers, NEW t, Call(w, t)
  PROVE  task'[w] = t
BY DEF TypeOK, TasksOK, Call

-----------------------------------------------------------------------------
(* What a step does to the current flow and its posts. *)

LEMMA Unmoved ==
  ASSUME FlowsKnown, UNCHANGED <<flows, current, posts, prev>>
  PROVE  /\ CurrentFlow' = CurrentFlow
         /\ LivePosts(current)' = LivePosts(current)
         /\ FlowsKnown'
BY DEF CurrentFlow, LivePosts, FlowsKnown

\* A handler writes to the current flow.
LEMMA Rewritten ==
  ASSUME TypeOK, FlowsKnown, current # 0, NEW r,
         flows' = [flows EXCEPT ![current] = r], UNCHANGED <<current, posts, prev>>
  PROVE  /\ CurrentFlow' = r
         /\ LivePosts(current)' = LivePosts(current)
         /\ FlowsKnown'
<1>1. current \in DOMAIN flows
  BY CurrentEntry
<1>2. DOMAIN flows' = DOMAIN flows /\ flows'[current] = r
  BY <1>1
<1> QED
  BY <1>2 DEF CurrentFlow, LivePosts, FlowsKnown

\* A new flow takes the place of the current one.
LEMMA Begun ==
  ASSUME TypeOK, FlowsKnown, NEW r, DOMAIN flows \subseteq DOMAIN flows',
         flows'[current'] = r, current' = Len(flows) + 1, UNCHANGED <<posts, prev>>
  PROVE  /\ CurrentFlow' = r
         /\ LivePosts(current)' = {}
         /\ FlowsKnown'
         /\ current' # 0 /\ prev.flow # current'
<1>1. DOMAIN flows = 1 .. Len(flows) /\ Len(flows) \in Nat
  BY DEF TypeOK, MemoryOK
<1>2. current' # 0 /\ current' \notin DOMAIN flows
  BY <1>1
<1>3. LivePosts(current)' = {}
  BY <1>2 DEF LivePosts, FlowsKnown
<1> QED
  BY <1>2, <1>3 DEF CurrentFlow, FlowsKnown

LEMMA BlankFlow ==
  /\ BlankStandupFlow.state = "FlowNotStarted"
  /\ BlankStandupFlow.items = {}
  /\ BlankStandupFlow.items \in Texts
  /\ BlankStandupFlow.previewed = FALSE
BY DEF BlankStandupFlow, Texts

LEMMA BegunBlank ==
  ASSUME TypeOK, FlowsKnown, NEW w, StartBlankFlow(w), UNCHANGED <<posts, prev>>
  PROVE  /\ CurrentFlow' = BlankStandupFlow
         /\ LivePosts(current)' = {}
         /\ FlowsKnown'
         /\ current' # 0 /\ prev.flow # current'
<1>1. Kept(w) \in Seq(StandupFlow) /\ DOMAIN Kept(w) = DOMAIN flows /\ Len(Kept(w)) = Len(flows)
  BY KeptType DEF TypeOK, MemoryOK
<1>2. flows' = Append(Kept(w), BlankStandupFlow) /\ current' = Len(flows) + 1
  BY DEF StartBlankFlow
<1>3. DOMAIN flows \subseteq DOMAIN flows' /\ flows'[current'] = BlankStandupFlow
  BY <1>1, <1>2, FlowAllocated, BlankFlowType
<1> QED
  BY <1>2, <1>3, Begun

-----------------------------------------------------------------------------
(* The handlers that only wait for something else now. *)

LEMMA SerialMoves ==
  ASSUME NEW w, Workers = {w}, TypeOK, SerialInv, NEW t, Call(w, t),
         UNCHANGED <<flows, current, posts, prev, up>>,
         FlowsAgree(t), PreviewsAgree(t)
  PROVE  SerialInv'
<1>1. up /\ FlowsKnown
  BY SerialNow
<1>2. task'[w] = t
  BY Called
<1>3. /\ CurrentFlow' = CurrentFlow
      /\ LivePosts(current)' = LivePosts(current)
      /\ FlowsKnown'
  BY <1>1, Unmoved
<1>4. FlowsAgree(task[w])'
  BY <1>2, <1>3 DEF FlowsAgree, KnownPosts, CurrentState
<1>5. PreviewsAgree(task[w])'
  BY <1>2, <1>3 DEF PreviewsAgree, CurrentState
<1> QED
  BY <1>1, <1>3, <1>4, <1>5, SerialAfter

LEMMA SerialStays ==
  ASSUME NEW w, Workers = {w}, SerialInv, UNCHANGED <<task, flows, current, posts, prev, up>>
  PROVE  SerialInv'
<1>1. up /\ FlowsKnown /\ FlowsAgree(task[w]) /\ PreviewsAgree(task[w])
  BY SerialNow
<1>2. /\ CurrentFlow' = CurrentFlow
      /\ LivePosts(current)' = LivePosts(current)
      /\ FlowsKnown'
  BY <1>1, Unmoved
<1>3. FlowsAgree(task[w])'
  BY <1>1, <1>2 DEF FlowsAgree, KnownPosts, CurrentState
<1>4. PreviewsAgree(task[w])'
  BY <1>1, <1>2 DEF PreviewsAgree, CurrentState
<1> QED
  BY <1>1, <1>2, <1>3, <1>4, SerialAfter

\* What a handler says of the current flow when it waits for an answer that is not
\* about the flow.
Aside == {"idle", "writeRoom", "tellRoom", "writeThreads", "notify"}

LEMMA AsideAgrees ==
  ASSUME NEW u, FlowsAgree(u), PreviewsAgree(u), u.pc \in Aside,
         NEW t, t.pc \in Aside \cup {"ask"}
  PROVE  FlowsAgree(t) /\ PreviewsAgree(t)
BY DEF FlowsAgree, PreviewsAgree, KnownPosts, Aside, HoldsFlow

LEMMA SerialAside ==
  ASSUME NEW w, Workers = {w}, TypeOK, SerialInv,
         task[w].pc \in Aside, NEW t, t.pc \in Aside \cup {"ask"}, Call(w, t),
         UNCHANGED <<flows, current, posts, prev, up>>
  PROVE  SerialInv'
BY SerialNow, AsideAgrees, SerialMoves

LEMMA SerialCommands ==
  ASSUME NEW w, Workers = {w}, TypeOK, SerialInv,
         \/ OtherCommand(w)
         \/ \E s \in Section : EditSection(w, s)
         \/ \E r \in SendRooms : HandleRoom(w, r)
         \/ \E onOff \in {"on", "off"} : HandleThreads(w, onOff)
  PROVE  SerialInv'
<1>1. CASE OtherCommand(w)
  BY <1>1, SerialStays DEF OtherCommand, memVars, serverVars, procVars
<1>2. ASSUME NEW s \in Section, EditSection(w, s)
      PROVE  SerialInv'
  <2>1. task[w].pc \in Aside /\ Call(w, Asking(s)) /\ Asking(s).pc = "ask"
    BY <1>2 DEF EditSection, Command, Free, Aside, Asking, Idle
  <2> QED
    BY <1>2, <2>1, SerialAside DEF EditSection, memVars, serverVars, procVars
<1>3. ASSUME NEW r \in SendRooms, HandleRoom(w, r)
      PROVE  SerialInv'
  <2> DEFINE t == [Idle EXCEPT !.pc = "writeRoom", !.room = r]
  <2>1. task[w].pc \in Aside /\ Call(w, t) /\ t.pc \in Aside
    BY <1>3 DEF HandleRoom, Command, Free, Aside, Idle
  <2> HIDE DEF t
  <2> QED
    BY <1>3, <2>1, SerialAside DEF HandleRoom, memVars, serverVars, procVars
<1>4. ASSUME NEW onOff \in {"on", "off"}, HandleThreads(w, onOff)
      PROVE  SerialInv'
  <2> DEFINE t == [Idle EXCEPT !.pc = "writeThreads", !.arg = onOff]
  <2>1. task[w].pc \in Aside /\ Call(w, t) /\ t.pc \in Aside
    BY <1>4 DEF HandleThreads, Command, Free, Aside, Idle
  <2> HIDE DEF t
  <2> QED
    BY <1>4, <2>1, SerialAside DEF HandleThreads, memVars, serverVars, procVars
<1> QED
  BY <1>1, <1>2, <1>3, <1>4

LEMMA SerialSettings ==
  ASSUME NEW w, Workers = {w}, TypeOK, SerialInv,
         SendRoomSet(w) \/ UseThreadsSet(w) \/ Notify(w)
  PROVE  SerialInv'
<1>1. CASE SendRoomSet(w)
  <2>1. /\ task[w].pc \in Aside
        /\ Call(w, [Idle EXCEPT !.pc = "tellRoom"])
        /\ [Idle EXCEPT !.pc = "tellRoom"].pc \in Aside
    BY <1>1 DEF SendRoomSet, Awaits, Aside, Idle
  <2> QED
    BY <1>1, <2>1, SerialAside DEF SendRoomSet, memVars, serverVars, procVars
<1>2. CASE UseThreadsSet(w)
  <2>1. task[w].pc \in Aside /\ Call(w, Idle) /\ Idle.pc \in Aside
    BY <1>2 DEF UseThreadsSet, Awaits, Aside, Return, Idle
  <2> QED
    BY <1>2, <2>1, SerialAside DEF UseThreadsSet, memVars, serverVars, procVars
<1>3. CASE Notify(w)
  <2>1. /\ task[w].pc \in Aside
        /\ Call(w, [Idle EXCEPT !.pc = "notify"])
        /\ [Idle EXCEPT !.pc = "notify"].pc \in Aside
    BY <1>3 DEF Notify, Free, Aside, Idle
  <2> QED
    BY <1>3, <2>1, SerialAside DEF Notify, memVars, serverVars, procVars
<1> QED
  BY <1>1, <1>2, <1>3

\* The preview that is shown again because of a new send room.
LEMMA SerialSendRoomTold ==
  ASSUME NEW w, Workers = {w}, TypeOK, SerialInv, SendRoomTold(w)
  PROVE  SerialInv'
<1> DEFINE t == ShowingPreview(current, flows[current].items, "none")
<1>1. task[w].pc = "tellRoom" /\ UNCHANGED <<flows, current, posts, prev, up>>
  BY DEF SendRoomTold, Awaits, memVars, serverVars, procVars
<1>2. CASE CurrentState = "Confirm"
  <2>1. Call(w, t)
    BY <1>2 DEF SendRoomTold
  <2>2. t.pc = "preview" /\ t.f = current /\ t.snap = flows[current].items /\ t.arg = "none"
    BY DEF ShowingPreview, Idle
  <2>3. current # 0 /\ CurrentFlow = flows[current]
    BY <1>2, CurrentFlowType DEF CurrentFlow
  <2>4. FlowsAgree(task[w]) /\ PreviewsAgree(task[w])
    BY SerialNow
  <2> HIDE DEF t
  <2>5. FlowsAgree(t) /\ PreviewsAgree(t)
    BY <1>1, <2>2, <2>3, <2>4 DEF FlowsAgree, PreviewsAgree, KnownPosts
  <2> QED
    BY <1>1, <2>1, <2>5, SerialMoves
<1>3. CASE CurrentState # "Confirm"
  <2>1. Call(w, Idle) /\ Idle.pc \in Aside /\ task[w].pc \in Aside
    BY <1>1, <1>3 DEF SendRoomTold, Return, Aside, Idle
  <2> QED
    BY <1>1, <2>1, SerialAside
<1> QED
  BY <1>2, <1>3

LEMMA SerialHandleReaction ==
  ASSUME NEW w, Workers = {w}, TypeOK, SerialInv, NEW key, HandleReaction(w, key)
  PROVE  SerialInv'
<1> DEFINE t == [Idle EXCEPT !.pc = "matched", !.f = current, !.arg = key]
<1>1. /\ task[w].pc = "idle" /\ Call(w, t)
      /\ key = "check" => Len(posts) < MaxPosts
      /\ UNCHANGED <<flows, current, posts, prev, up>>
  BY DEF HandleReaction, Free, memVars, serverVars, procVars
<1>2. t.pc = "matched" /\ t.f = current /\ t.arg = key
  BY DEF Idle
<1>3. FlowsAgree(task[w]) /\ PreviewsAgree(task[w])
  BY SerialNow
<1> HIDE DEF t
<1>4. FlowsAgree(t) /\ PreviewsAgree(t)
  BY <1>1, <1>2, <1>3 DEF FlowsAgree, PreviewsAgree, KnownPosts
<1> QED
  BY <1>1, <1>4, SerialMoves

-----------------------------------------------------------------------------
(* undo. *)

LEMMA NoFault ==
  ASSUME TypeOK, MaxFaults = 0
  PROVE  ~Fault
BY DEF Fault, TypeOK, ProcessOK

LEMMA SerialUndo ==
  ASSUME NEW w, Workers = {w}, TypeOK, SerialInv, Undo(w)
  PROVE  SerialInv'
<1> DEFINE t == [Idle EXCEPT !.pc = "undoRead", !.room = sendRoom]
<1>1. /\ task[w].pc = "idle" /\ CurrentState = "Sent" /\ Call(w, t)
      /\ UNCHANGED <<flows, current, posts, prev, up>>
  BY DEF Undo, Undoable, Command, Free, memVars, serverVars, procVars
<1>2. t.pc = "undoRead"
  BY DEF Idle
<1>3. FlowsAgree(task[w]) /\ PreviewsAgree(task[w])
  BY SerialNow
<1> HIDE DEF t
<1>4. FlowsAgree(t) /\ PreviewsAgree(t)
  BY <1>1, <1>2, <1>3 DEF FlowsAgree, PreviewsAgree, KnownPosts, HoldsFlow
<1> QED
  BY <1>1, <1>4, SerialMoves

\* previous_post is there when there is something to undo.
LEMMA SerialUndoRead ==
  ASSUME NEW w, Workers = {w}, MaxFaults = 0, TypeOK, SerialInv, UndoRead(w)
  PROVE  SerialInv'
<1> DEFINE t == [task[w] EXCEPT !.pc = "undoRedact", !.post = prev.post]
<1>1. task[w].pc = "undoRead" /\ UNCHANGED <<flows, current, posts, prev, up>>
  BY DEF UndoRead, Awaits, memVars, serverVars, procVars
<1>2. FlowsAgree(task[w]) /\ PreviewsAgree(task[w]) /\ FlowsKnown
  BY SerialNow
<1>3. CurrentState = "Sent" /\ prev.flow = current /\ current # 0
  BY <1>1, <1>2, CurrentFlowType DEF FlowsAgree
<1>4. prev.set
  BY <1>2, <1>3 DEF FlowsKnown
<1>5. Call(w, t)
  BY <1>4, NoFault DEF UndoRead, StateEventRead
<1>6. t.pc = "undoRedact" /\ t.post = prev.post
  BY DEF TypeOK, TasksOK, Task
<1> HIDE DEF t
<1>7. FlowsAgree(t)
  BY <1>1, <1>2, <1>3, <1>6 DEF FlowsAgree, KnownPosts, HoldsFlow
<1>8. PreviewsAgree(t)
  BY <1>1, <1>2, <1>6 DEF PreviewsAgree
<1> QED
  BY <1>1, <1>5, <1>7, <1>8, SerialMoves

LEMMA SerialRedactRefused ==
  ASSUME NEW w, Workers = {w}, TypeOK, SerialInv, RedactRefused(w)
  PROVE  SerialInv'
<1>1. /\ task[w].pc = "undoRedact" /\ Call(w, Idle)
      /\ UNCHANGED <<flows, current, posts, prev, up>>
  BY DEF RedactRefused, Awaits, Return, memVars, serverVars, procVars
<1>2. FlowsAgree(task[w]) /\ PreviewsAgree(task[w])
  BY SerialNow
<1>3. Idle.pc = "idle"
  BY DEF Idle
<1>4. FlowsAgree(Idle) /\ PreviewsAgree(Idle)
  BY <1>1, <1>2, <1>3 DEF FlowsAgree, PreviewsAgree, KnownPosts, HoldsFlow
<1> QED
  BY <1>1, <1>4, SerialMoves

\* The post that is redacted is the one live post of the flow.
LEMMA SerialRedacted ==
  ASSUME NEW w, Workers = {w}, MaxFaults = 0, TypeOK, SerialInv, Redacted(w)
  PROVE  SerialInv'
<1> DEFINE t == [Idle EXCEPT !.pc = "tellUndone"]
           p == task[w].post
<1>1. task[w].pc = "undoRedact" /\ Call(w, t) /\ UNCHANGED <<flows, current, prev, up>>
  BY NoFault DEF Redacted, Awaits, memVars, procVars
<1>2. p \in DOMAIN posts /\ posts' = [posts EXCEPT ![p].live = FALSE] /\ posts \in Seq(Post)
  BY DEF Redacted, Redactable, TypeOK, ServerOK
<1>3. FlowsAgree(task[w]) /\ PreviewsAgree(task[w]) /\ FlowsKnown /\ up
  BY SerialNow
<1>4. LivePosts(current) \subseteq {p}
  BY <1>1, <1>3 DEF FlowsAgree, KnownPosts
<1>5. /\ DOMAIN posts' = DOMAIN posts
      /\ \A q \in DOMAIN posts : posts'[q].flow = posts[q].flow
      /\ \A q \in DOMAIN posts : posts'[q].live => posts[q].live /\ q # p
  BY <1>2 DEF Post
<1>6. LivePosts(current)' = {}
  BY <1>1, <1>4, <1>5 DEF LivePosts
<1>7. FlowsKnown'
  BY <1>1, <1>3, <1>5 DEF FlowsKnown
<1>8. task'[w] = t /\ t.pc = "tellUndone"
  BY <1>1, Called DEF Idle
<1>9. CurrentFlow' = CurrentFlow
  BY <1>1 DEF CurrentFlow
<1> HIDE DEF t
<1>10. FlowsAgree(task[w])'
  BY <1>1, <1>3, <1>6, <1>8, <1>9 DEF FlowsAgree, KnownPosts, HoldsFlow, CurrentState
<1>11. PreviewsAgree(task[w])'
  BY <1>1, <1>3, <1>8, <1>9 DEF PreviewsAgree, CurrentState
<1> QED
  BY <1>1, <1>3, <1>7, <1>10, <1>11, SerialAfter

LEMMA SerialUndone ==
  ASSUME NEW w, Workers = {w}, TypeOK, SerialInv, Undone(w)
  PROVE  SerialInv'
<1> DEFINE t == [Idle EXCEPT !.pc = "undoWrite"]
           r == [flows[current] EXCEPT !.state = "Confirm"]
<1>1. /\ task[w].pc = "tellUndone" /\ Call(w, t) /\ flows' = [flows EXCEPT ![current] = r]
      /\ UNCHANGED <<current, posts, prev, up>>
  BY DEF Undone, Awaits, serverVars, procVars
<1>2. FlowsAgree(task[w]) /\ PreviewsAgree(task[w]) /\ FlowsKnown /\ up
  BY SerialNow
<1>3. CurrentState = "Sent" /\ current # 0
  BY <1>1, <1>2, CurrentFlowType DEF FlowsAgree
<1>4. CurrentFlow = flows[current] /\ flows[current] \in StandupFlow
  BY <1>3, CurrentEntry DEF CurrentFlow
<1>5. /\ r.state = "Confirm" /\ r.items = CurrentFlow.items
      /\ r.previewed = CurrentFlow.previewed /\ r.preview = CurrentFlow.preview
  BY <1>4 DEF StandupFlow
<1>6. task'[w] = t /\ t.pc = "undoWrite"
  BY <1>1, Called DEF Idle
<1> HIDE DEF t, r
<1>7. CurrentFlow' = r /\ LivePosts(current)' = LivePosts(current) /\ FlowsKnown'
  BY <1>1, <1>2, <1>3, Rewritten
<1>8. FlowsAgree(task[w])'
  BY <1>1, <1>2, <1>5, <1>6, <1>7 DEF FlowsAgree, KnownPosts, HoldsFlow, CurrentState, Section
<1>9. PreviewsAgree(task[w])'
  BY <1>1, <1>2, <1>3, <1>5, <1>6, <1>7 DEF PreviewsAgree, Presented, CurrentState
<1> QED
  BY <1>1, <1>2, <1>7, <1>8, <1>9, SerialAfter

LEMMA SerialPreviousPostCleared ==
  ASSUME NEW w, Workers = {w}, TypeOK, SerialInv, PreviousPostCleared(w)
  PROVE  SerialInv'
<1>1. /\ task[w].pc = "undoWrite" /\ Call(w, Idle) /\ prev' = EmptyPreviousPost
      /\ UNCHANGED <<flows, current, posts, up>>
  BY DEF PreviousPostCleared, Awaits, Return, memVars, procVars
<1>2. FlowsAgree(task[w]) /\ PreviewsAgree(task[w]) /\ FlowsKnown /\ up
  BY SerialNow
<1>3. prev'.set /\ prev'.flow = 0
  BY <1>1 DEF EmptyPreviousPost
<1>4. task'[w] = Idle /\ Idle.pc = "idle"
  BY <1>1, Called DEF Idle
<1>5. CurrentFlow' = CurrentFlow /\ LivePosts(current)' = LivePosts(current) /\ FlowsKnown'
  BY <1>1, <1>2, <1>3 DEF CurrentFlow, LivePosts, FlowsKnown
<1>6. FlowsAgree(task[w])'
  BY <1>1, <1>2, <1>3, <1>4, <1>5 DEF FlowsAgree, KnownPosts, HoldsFlow, CurrentState
<1>7. PreviewsAgree(task[w])'
  BY <1>1, <1>2, <1>4, <1>5 DEF PreviewsAgree, CurrentState
<1> QED
  BY <1>1, <1>2, <1>5, <1>6, <1>7, SerialAfter

-----------------------------------------------------------------------------
(* New flows. *)

LEMMA SerialBegins ==
  ASSUME NEW w, Workers = {w}, TypeOK, SerialInv, StartBlankFlow(w),
         task'[w].pc \in {"idle", "ask"}, UNCHANGED <<posts, prev, up>>
  PROVE  SerialInv'
<1>1. up /\ FlowsKnown
  BY SerialNow
<1>2. /\ CurrentFlow' = BlankStandupFlow
      /\ LivePosts(current)' = {}
      /\ FlowsKnown'
      /\ current' # 0 /\ prev.flow # current'
  BY <1>1, BegunBlank
<1>3. FlowsAgree(task[w])'
  BY <1>2, BlankFlow DEF FlowsAgree, KnownPosts, HoldsFlow, CurrentState, Section
<1>4. PreviewsAgree(task[w])'
  BY <1>2, BlankFlow DEF PreviewsAgree, Presented, CurrentState
<1> QED
  BY <1>1, <1>2, <1>3, <1>4, SerialAfter

LEMMA AskingPC ==
  ASSUME TypeOK, NEW w \in Workers, CreatePost(w)
  PROVE  task'[w].pc = "ask"
<1> DEFINE t == Asking(IF useThreads THEN "Threads" ELSE "Done")
<1>1. Call(w, t) /\ t.pc = "ask"
  BY DEF CreatePost, Asking, Idle
<1> HIDE DEF t
<1> QED
  BY <1>1, Called

LEMMA SerialNewFlow ==
  ASSUME NEW w, Workers = {w}, TypeOK, SerialInv, New(w) \/ Cancel(w) \/ Notified(w)
  PROVE  SerialInv'
<1>1. CASE New(w)
  BY <1>1, AskingPC, SerialBegins DEF New, serverVars, procVars
<1>2. CASE Cancel(w)
  BY <1>2, SerialBegins DEF Cancel, Command, Free, serverVars, procVars
<1>3. CASE Notified(w)
  BY <1>3, AskingPC, SerialBegins DEF Notified, serverVars, procVars
<1> QED
  BY <1>1, <1>2, <1>3

LEMMA SerialReactCross ==
  ASSUME NEW w, Workers = {w}, TypeOK, SerialInv, ReactCross(w)
  PROVE  SerialInv'
<1>1. /\ task[w].pc = "matched" /\ Call(w, Idle)
      /\ UNCHANGED <<posts, prev, up>>
  BY DEF ReactCross, Awaits, Return, serverVars, procVars
<1>2. task'[w] = Idle /\ Idle.pc = "idle"
  BY <1>1, Called DEF Idle
<1>3. CASE StartBlankFlow(w)
  BY <1>1, <1>2, <1>3, SerialBegins
<1>4. CASE UNCHANGED memVars
  <2>1. FlowsAgree(task[w]) /\ PreviewsAgree(task[w])
    BY SerialNow
  <2>2. FlowsAgree(Idle) /\ PreviewsAgree(Idle)
    BY <1>1, <1>2, <2>1 DEF FlowsAgree, PreviewsAgree, KnownPosts, HoldsFlow
  <2> QED
    BY <1>1, <1>4, <2>2, SerialMoves DEF memVars
<1> QED
  BY <1>3, <1>4 DEF ReactCross

\* The question is out: there is an entry now, and it can be answered.
LEMMA SerialAsked ==
  ASSUME NEW w, Workers = {w}, TypeOK, SerialInv, Asked(w)
  PROVE  SerialInv'
<1> DEFINE s    == task[w].arg
           old  == IF current = 0 THEN BlankStandupFlow ELSE flows[current]
           r    == AddReactable([old EXCEPT !.state = s], PromptOf(s))
<1>1. /\ task[w].pc = "ask" /\ s \in Section \cup {"Threads"}
      /\ UNCHANGED <<posts, prev, up>>
  BY DEF Asked, Awaits, serverVars, procVars, TypeOK, TasksOK, TaskOK
<1>2. FlowsAgree(task[w]) /\ PreviewsAgree(task[w]) /\ FlowsKnown /\ up
  BY SerialNow
<1>3. old = CurrentFlow /\ old \in StandupFlow
  BY CurrentEntry, BlankFlowType DEF CurrentFlow
<1>4. [old EXCEPT !.state = s] \in StandupFlow /\ [old EXCEPT !.state = s].state = s
  BY <1>1, <1>3 DEF StandupFlow, StandupFlowState
<1>5. r \in StandupFlow /\ r.state = s /\ r.items = CurrentFlow.items /\ r.reactable # {}
  BY <1>3, <1>4 DEF StandupFlow, AddReactable, PromptOf, Prompt
<1>6. /\ CurrentFlow' = r /\ FlowsKnown' /\ current' # 0
      /\ \/ LivePosts(current)' = {} /\ prev.flow # current'
         \/ LivePosts(current)' = LivePosts(current) /\ current' = current
  <2>1. CASE current = 0
    <3> DEFINE heap == Append(flows, BlankStandupFlow)
               f    == Len(heap)
    <3>1. f = Len(flows) + 1 /\ heap[f] = old /\ current' = f /\ Len(flows) \in Nat
      BY <2>1, FlowAllocated, BlankFlowType DEF Asked, TypeOK, MemoryOK
    <3>2. flows' = [heap EXCEPT ![f] = r]
      <4>1. flows' = [heap EXCEPT ![f] = AddReactable([heap[f] EXCEPT !.state = s], PromptOf(s))]
        BY <2>1 DEF Asked
      <4> QED
        BY <3>1, <4>1
    <3>3. heap \in Seq(StandupFlow) /\ DOMAIN flows \subseteq DOMAIN heap /\ f \in DOMAIN heap
      BY <3>1, FlowAllocated, BlankFlowType DEF TypeOK, MemoryOK
    <3>4. flows'[f] = r /\ DOMAIN flows \subseteq DOMAIN flows'
      <4> HIDE DEF r, heap, f
      <4> QED
        BY <3>2, <3>3
    <3> HIDE DEF r, heap
    <3> QED
      BY <1>1, <1>2, <3>1, <3>4, Begun
  <2>2. CASE current # 0
    <3>1. flows' = [flows EXCEPT ![current] = r] /\ UNCHANGED current
      BY <2>2 DEF Asked
    <3> HIDE DEF r
    <3> QED
      BY <1>1, <1>2, <2>2, <3>1, Rewritten
  <2> QED
    BY <2>1, <2>2
<1>7. /\ s = "Threads" => task'[w].pc = "root"
      /\ s # "Threads" => task'[w].pc = "idle"
  <2>1. SendingRoot("Done").pc = "root" /\ Idle.pc = "idle"
    BY DEF SendingRoot, Idle
  <2>2. IF s = "Threads" THEN Call(w, SendingRoot("Done")) ELSE Call(w, Idle)
    BY DEF Asked, Return
  <2> QED
    BY <2>1, <2>2, Called
<1> HIDE DEF r
<1>8. FlowsAgree(task[w])'
  <2>1. LivePosts(current)' = KnownPosts(task[w])'
    BY <1>1, <1>2, <1>6, <1>7 DEF FlowsAgree, KnownPosts
  <2> QED
    BY <1>1, <1>5, <1>6, <1>7, <2>1 DEF FlowsAgree, HoldsFlow, CurrentState, Section
<1>9. PreviewsAgree(task[w])'
  BY <1>1, <1>2, <1>5, <1>6, <1>7 DEF PreviewsAgree, Presented, CurrentState, Section
<1> QED
  BY <1>1, <1>2, <1>6, <1>8, <1>9, SerialAfter

-----------------------------------------------------------------------------
(* Handlers that write to the current flow. *)

LEMMA TextsEdited ==
  ASSUME NEW text \in Texts, NEW item
  PROVE  /\ text \ {item} \in Texts
         /\ item \in text => (text \ {item}) \cup {[item EXCEPT !.body = 1 - @]} \in Texts
<1>1. ASSUME item \in [msg : 1 .. MaxMsgs, body : {0, 1}]
      PROVE  [item EXCEPT !.body = 1 - @] \in [msg : 1 .. MaxMsgs, body : {0, 1}]
  BY <1>1
<1> QED
  BY <1>1 DEF Texts

LEMMA TextWritten ==
  ASSUME TypeOK, msgs < MaxMsgs, flows[current].items \in Texts
  PROVE  Written \in Texts
<1>1. [msg |-> msgs + 1, body |-> 0] \in [msg : 1 .. MaxMsgs, body : {0, 1}]
  BY BoundsAssumption DEF TypeOK, ProcessOK
<1> QED
  BY <1>1 DEF Written, Texts

LEMMA CurrentText ==
  ASSUME NEW w, Workers = {w}, TypeOK, SerialInv
  PROVE  /\ CurrentFlow.items \in Texts
         /\ current # 0 => flows[current].items \in Texts
<1>1. CurrentFlow.items \in Texts
  BY SerialNow DEF PreviewsAgree
<1> QED
  BY <1>1 DEF CurrentFlow

LEMMA HeldIsCurrent ==
  ASSUME NEW w, Workers = {w}, TypeOK, SerialInv, task[w].pc \in HoldsFlow
  PROVE  /\ task[w].f = current /\ current # 0
         /\ flows[current] \in StandupFlow
         /\ CurrentFlow = flows[current]
<1>1. task[w].f = current
  BY SerialNow DEF FlowsAgree
<1>2. current \in DOMAIN flows
  BY <1>1, HeldFlow
<1>3. current # 0
  BY <1>2 DEF TypeOK, MemoryOK
<1> QED
  BY <1>1, <1>3, CurrentEntry DEF CurrentFlow

LEMMA SerialRootSent ==
  ASSUME NEW w, Workers = {w}, TypeOK, SerialInv, RootSent(w)
  PROVE  SerialInv'
<1> DEFINE s == task[w].arg
           r == [flows[current] EXCEPT !.roots = @ \cup {s}]
           shows == ShowingPreview(current, flows[current].items, "none")
           sends == SendingRoot(Following[s])
<1>1. /\ task[w].pc = "root" /\ flows' = [flows EXCEPT ![current] = r]
      /\ UNCHANGED <<current, posts, prev, up>>
  BY DEF RootSent, Awaits, serverVars, procVars
<1>2. FlowsAgree(task[w]) /\ PreviewsAgree(task[w]) /\ FlowsKnown /\ up
  BY SerialNow
<1>3. current # 0 /\ s \in Section
  BY <1>1 DEF TypeOK, TasksOK, TaskOK, NeedsEntry
<1>4. CurrentFlow = flows[current] /\ flows[current] \in StandupFlow
  BY <1>3, CurrentEntry DEF CurrentFlow
<1>5. r.state = CurrentFlow.state /\ r.reactable = CurrentFlow.reactable /\ r.items = CurrentFlow.items
  BY <1>4 DEF StandupFlow
<1>6. /\ shows.pc = "preview" /\ shows.f = current /\ shows.snap = CurrentFlow.items
      /\ shows.arg = "none" /\ sends.pc = "root"
  BY <1>4 DEF ShowingPreview, SendingRoot, Idle
<1>7. task'[w] = shows \/ task'[w] = sends
  BY Called DEF RootSent
<1> HIDE DEF r, shows, sends
<1>8. CurrentFlow' = r /\ LivePosts(current)' = LivePosts(current) /\ FlowsKnown'
  BY <1>1, <1>2, <1>3, Rewritten
<1>9. FlowsAgree(task[w])'
  BY <1>1, <1>2, <1>5, <1>6, <1>7, <1>8 DEF FlowsAgree, KnownPosts, HoldsFlow, CurrentState
<1>10. PreviewsAgree(task[w])'
  BY <1>1, <1>2, <1>5, <1>6, <1>7, <1>8 DEF PreviewsAgree, CurrentState
<1> QED
  BY <1>1, <1>2, <1>8, <1>9, <1>10, SerialAfter

LEMMA SerialPreviewShown ==
  ASSUME NEW w, Workers = {w}, TypeOK, SerialInv, PreviewShown(w)
  PROVE  SerialInv'
<1> DEFINE t == task[w]
           q == Previewed(flows[current], t)
           r == AddReactable(q, "preview")
           shown == [flows EXCEPT ![current] = q]
<1>1. /\ t.pc = "preview" /\ Call(w, Idle)
      /\ UNCHANGED <<current, posts, prev, up>>
  BY DEF PreviewShown, Awaits, Return, serverVars, procVars
<1>2. FlowsAgree(t) /\ PreviewsAgree(t) /\ FlowsKnown /\ up
  BY SerialNow
<1>3. /\ t.f = current /\ current # 0 /\ flows[current] \in StandupFlow
      /\ CurrentFlow = flows[current]
  BY <1>1, HeldIsCurrent DEF HoldsFlow
<1>4. t.arg \in {"none", "Sent", "Confirm"}
  BY <1>1 DEF TypeOK, TasksOK, TaskOK
<1>5. current \in DOMAIN flows
  BY <1>3, CurrentEntry
<1>6. flows' = [flows EXCEPT ![current] = r]
  <2>1. flows' = [shown EXCEPT ![current] = AddReactable(shown[current], "preview")]
    BY <1>3 DEF PreviewShown
  <2> HIDE DEF q
  <2> QED
    BY <1>5, <2>1
<1>7. /\ q.previewed /\ q.preview = CurrentFlow.items /\ q.items = CurrentFlow.items
      /\ t.arg = "none" => q.state = CurrentState
      /\ t.arg # "none" => q.state = t.arg
  BY <1>1, <1>2, <1>3 DEF Previewed, StandupFlow, PreviewsAgree, CurrentState
<1>8. /\ r.previewed /\ r.preview = r.items /\ r.items = CurrentFlow.items /\ r.reactable # {}
      /\ r.state = q.state
  BY <1>3, <1>7 DEF AddReactable, Previewed, StandupFlow
<1>9. task'[w] = Idle /\ Idle.pc = "idle"
  BY <1>1, Called DEF Idle
<1> HIDE DEF r, q
<1>10. CurrentFlow' = r /\ LivePosts(current)' = LivePosts(current) /\ FlowsKnown'
  BY <1>1, <1>2, <1>3, <1>6, Rewritten
<1>11. FlowsAgree(task[w])'
  BY <1>1, <1>2, <1>4, <1>7, <1>8, <1>9, <1>10 DEF FlowsAgree, KnownPosts, HoldsFlow, CurrentState, Section
<1>12. PreviewsAgree(task[w])'
  BY <1>2, <1>8, <1>9, <1>10 DEF PreviewsAgree, CurrentState
<1> QED
  BY <1>1, <1>2, <1>10, <1>11, <1>12, SerialAfter

LEMMA SerialReactCheck ==
  ASSUME NEW w, Workers = {w}, TypeOK, SerialInv, ReactCheck(w)
  PROVE  SerialInv'
<1> DEFINE t == [Idle EXCEPT !.pc = "readPrev", !.f = current]
           r == [flows[current] EXCEPT !.reactable = {}]
<1>1. /\ task[w].pc = "matched" /\ task[w].arg = "check"
      /\ UNCHANGED <<current, posts, prev, up>>
  BY DEF ReactCheck, Awaits, serverVars, procVars
<1>2. FlowsAgree(task[w]) /\ PreviewsAgree(task[w]) /\ FlowsKnown /\ up
  BY SerialNow
<1>3. /\ task[w].f = current /\ current # 0 /\ flows[current] \in StandupFlow
      /\ CurrentFlow = flows[current]
  BY <1>1, HeldIsCurrent DEF HoldsFlow
<1>4. flows' = [flows EXCEPT ![current] = r] /\ Call(w, t)
  BY <1>3 DEF ReactCheck
<1>5. /\ r.state = CurrentFlow.state /\ r.items = CurrentFlow.items
      /\ r.previewed = CurrentFlow.previewed /\ r.preview = CurrentFlow.preview
  BY <1>3 DEF StandupFlow
<1>6. task'[w] = t /\ t.pc = "readPrev" /\ t.f = current
  BY <1>4, Called DEF Idle
<1> HIDE DEF r, t
<1>7. CurrentFlow' = r /\ LivePosts(current)' = LivePosts(current) /\ FlowsKnown'
  BY <1>1, <1>2, <1>3, <1>4, Rewritten
<1>8. FlowsAgree(task[w])'
  BY <1>1, <1>2, <1>5, <1>6, <1>7 DEF FlowsAgree, KnownPosts, HoldsFlow, CurrentState
<1>9. PreviewsAgree(task[w])'
  BY <1>1, <1>2, <1>5, <1>6, <1>7 DEF PreviewsAgree, CurrentState
<1> QED
  BY <1>1, <1>2, <1>7, <1>8, <1>9, SerialAfter

LEMMA SerialMarkSent ==
  ASSUME NEW w, Workers = {w}, TypeOK, SerialInv, MarkSent(w)
  PROVE  SerialInv'
<1> DEFINE t == [task[w] EXCEPT !.pc = "writePrev"]
           r == [flows[current] EXCEPT !.state = "Sent", !.resend = FALSE]
<1>1. /\ task[w].pc = "tellSent" /\ Call(w, t) /\ UNCHANGED <<current, posts, prev, up>>
  BY DEF MarkSent, Awaits, serverVars, procVars
<1>2. FlowsAgree(task[w]) /\ PreviewsAgree(task[w]) /\ FlowsKnown /\ up
  BY SerialNow
<1>3. /\ task[w].f = current /\ current # 0 /\ flows[current] \in StandupFlow
      /\ CurrentFlow = flows[current]
  BY <1>1, HeldIsCurrent DEF HoldsFlow
<1>4. flows' = [flows EXCEPT ![current] = r]
  <2>1. flows' = [[flows EXCEPT ![current].state = "Sent"] EXCEPT ![current].resend = FALSE]
    BY <1>3 DEF MarkSent
  <2>2. current \in DOMAIN flows
    BY <1>3, CurrentEntry
  <2> QED
    BY <1>3, <2>1, <2>2 DEF StandupFlow
<1>5. /\ r.state = "Sent" /\ r.items = CurrentFlow.items
      /\ r.previewed = CurrentFlow.previewed /\ r.preview = CurrentFlow.preview
  BY <1>3 DEF StandupFlow
<1>6. task'[w] = t /\ t.pc = "writePrev" /\ t.f = task[w].f /\ t.post = task[w].post
  BY <1>1, Called DEF TypeOK, TasksOK, Task
<1> HIDE DEF r, t
<1>7. CurrentFlow' = r /\ LivePosts(current)' = LivePosts(current) /\ FlowsKnown'
  BY <1>1, <1>2, <1>3, <1>4, Rewritten
<1>8. FlowsAgree(task[w])'
  BY <1>1, <1>2, <1>3, <1>5, <1>6, <1>7 DEF FlowsAgree, KnownPosts, HoldsFlow, CurrentState, Section
<1>9. PreviewsAgree(task[w])'
  BY <1>1, <1>2, <1>5, <1>6, <1>7 DEF PreviewsAgree, CurrentState
<1> QED
  BY <1>1, <1>2, <1>7, <1>8, <1>9, SerialAfter

\* The items of the current flow change; the preview, if the user has been shown one,
\* is edited or shown again.
LEMMA SerialItems ==
  ASSUME NEW w, Workers = {w}, TypeOK, SerialInv, task[w].pc = "idle", current # 0,
         NEW items \in Texts, flows' = [flows EXCEPT ![current].items = items],
         NEW t, task'[w] = t, t.pc \in {"editPreview", "preview", "itemMark"} => t.f = current,
         \/ t.pc \in {"idle", "itemMark"} /\ CurrentState \notin Presented
         \/ t.pc = "editPreview" /\ t.snap = items /\ CurrentFlow.previewed
         \/ t.pc = "preview" /\ t.snap = items /\ t.arg = "none",
         UNCHANGED <<current, posts, prev, up>>
  PROVE  SerialInv'
<1> DEFINE r == [flows[current] EXCEPT !.items = items]
<1>1. FlowsAgree(task[w]) /\ PreviewsAgree(task[w]) /\ FlowsKnown /\ up
  BY SerialNow
<1>2. CurrentFlow = flows[current] /\ flows[current] \in StandupFlow
  BY CurrentEntry DEF CurrentFlow
<1>3. /\ r.state = CurrentFlow.state /\ r.reactable = CurrentFlow.reactable
      /\ r.previewed = CurrentFlow.previewed /\ r.items = items
  BY <1>2 DEF StandupFlow
<1>4. flows' = [flows EXCEPT ![current] = r]
  OBVIOUS
<1> HIDE DEF r
<1>5. CurrentFlow' = r /\ LivePosts(current)' = LivePosts(current) /\ FlowsKnown'
  BY <1>1, <1>4, Rewritten
<1>6. FlowsAgree(task[w])'
  BY <1>1, <1>3, <1>5 DEF FlowsAgree, KnownPosts, HoldsFlow, CurrentState
<1>7. PreviewsAgree(task[w])'
  BY <1>3, <1>5 DEF PreviewsAgree, CurrentState
<1> QED
  BY <1>1, <1>5, <1>6, <1>7, SerialAfter

LEMMA SerialHandleMessage ==
  ASSUME NEW w, Workers = {w}, TypeOK, SerialInv, HandleMessage(w)
  PROVE  SerialInv'
<1> DEFINE t == [Idle EXCEPT !.pc = "itemMark", !.f = current]
<1>1. /\ task[w].pc = "idle" /\ current # 0 /\ CurrentState \in Section /\ Call(w, t)
      /\ flows' = [flows EXCEPT ![current].items = Written]
      /\ UNCHANGED <<current, posts, prev, up>>
  BY DEF HandleMessage, Free, Content, WriteItem, serverVars, procVars
<1>2. t.pc = "itemMark" /\ t.f = current /\ CurrentState \notin Presented
  BY <1>1 DEF Idle, Section, Presented
<1>3. task'[w] = t
  BY <1>1, Called
<1>4. Written \in Texts
  BY <1>1, CurrentText, TextWritten DEF HandleMessage, WriteItem
<1> HIDE DEF t
<1> QED
  BY <1>1, <1>2, <1>3, <1>4, SerialItems

LEMMA SerialHandleReply ==
  ASSUME NEW w, Workers = {w}, TypeOK, SerialInv, NEW s, HandleReply(w, s)
  PROVE  SerialInv'
<1> DEFINE t == EditingPreview(current, Written, "reply")
<1>1. /\ task[w].pc = "idle" /\ current # 0 /\ Call(w, t)
      /\ CurrentState \in Presented
      /\ flows' = [flows EXCEPT ![current].items = Written]
      /\ UNCHANGED <<current, posts, prev, up>>
  BY DEF HandleReply, Free, Content, WriteItem, Presented, serverVars, procVars
<1>2. t.pc = "editPreview" /\ t.f = current /\ t.snap = Written
  BY DEF EditingPreview, Idle
<1>3. CurrentFlow.previewed
  BY <1>1, SerialNow DEF PreviewsAgree
<1>4. task'[w] = t
  BY <1>1, Called
<1>5. Written \in Texts
  BY <1>1, CurrentText, TextWritten DEF HandleReply, WriteItem
<1> HIDE DEF t
<1> QED
  BY <1>1, <1>2, <1>3, <1>4, <1>5, SerialItems

LEMMA SerialHandleEdit ==
  ASSUME NEW w, Workers = {w}, TypeOK, SerialInv, NEW item, HandleEdit(w, item)
  PROVE  SerialInv'
<1> DEFINE edited == (flows[current].items \ {item}) \cup {[item EXCEPT !.body = 1 - @]}
           edits == EditingPreview(current, edited, "none")
           shows == ShowingPreview(current, edited, "none")
<1>1. /\ task[w].pc = "idle" /\ current # 0
      /\ flows' = [flows EXCEPT ![current].items = edited]
      /\ AfterEdit(w, current, edited)
      /\ UNCHANGED <<current, posts, prev, up>>
  BY DEF HandleEdit, Free, Content, serverVars, procVars
<1>8. edited \in Texts
  <2>1. item \in flows[current].items
    BY DEF HandleEdit
  <2> QED
    BY <1>1, <2>1, CurrentText, TextsEdited
<1> HIDE DEF edited
<1>2. /\ edits.pc = "editPreview" /\ edits.f = current /\ edits.snap = edited
      /\ shows.pc = "preview" /\ shows.f = current /\ shows.snap = edited /\ shows.arg = "none"
  BY DEF EditingPreview, ShowingPreview, Idle
<1>3. \/ CurrentState \in Presented /\ task'[w] = edits
      \/ task'[w] = shows
      \/ CurrentState \notin Presented /\ task'[w] = task[w]
  <2>1. CurrentState = flows[current].state
    BY <1>1 DEF CurrentState, CurrentFlow
  <2> HIDE DEF edits, shows
  <2>2. CASE CurrentState \in {"Threads", "Confirm"}
    <3>1. Call(w, EditingPreview(current, edited, "none"))
      BY <1>1, <2>1, <2>2 DEF AfterEdit
    <3> QED
      BY <2>2, <3>1, Called DEF Presented, edits
  <2>3. CASE CurrentState = "Sent"
    <3>1. Call(w, ShowingPreview(current, edited, "none"))
      BY <1>1, <2>1, <2>3 DEF AfterEdit
    <3> QED
      BY <3>1, Called DEF shows
  <2>4. CASE CurrentState \notin {"Threads", "Confirm", "Sent"}
    <3>1. UNCHANGED task
      BY <1>1, <2>1, <2>4 DEF AfterEdit
    <3> QED
      BY <2>4, <3>1 DEF Presented
  <2> QED
    BY <2>2, <2>3, <2>4
<1>4. CurrentState \in Presented => CurrentFlow.previewed
  BY <1>1, SerialNow DEF PreviewsAgree
<1> HIDE DEF edits, shows
<1>5. CASE CurrentState \in Presented /\ task'[w] = edits
  BY <1>1, <1>2, <1>4, <1>5, <1>8, SerialItems
<1>6. CASE task'[w] = shows
  BY <1>1, <1>2, <1>6, <1>8, SerialItems
<1>7. CASE CurrentState \notin Presented /\ task'[w] = task[w]
  BY <1>1, <1>7, <1>8, SerialItems
<1> QED
  BY <1>3, <1>5, <1>6, <1>7

LEMMA SerialHandleRedaction ==
  ASSUME NEW w, Workers = {w}, TypeOK, SerialInv, NEW item, HandleRedaction(w, item)
  PROVE  SerialInv'
<1> DEFINE left == flows[current].items \ {item}
           t == EditingPreview(current, left, "none")
<1>1. /\ task[w].pc = "idle" /\ current # 0
      /\ flows' = [flows EXCEPT ![current].items = left]
      /\ IF CurrentFlow.previewed THEN Call(w, t) ELSE UNCHANGED task
      /\ UNCHANGED <<current, posts, prev, up>>
  BY DEF HandleRedaction, Free, CurrentFlow, serverVars, procVars
<1>6. left \in Texts
  BY <1>1, CurrentText, TextsEdited
<1> HIDE DEF left
<1>2. t.pc = "editPreview" /\ t.f = current /\ t.snap = left
  BY DEF EditingPreview, Idle
<1>3. CurrentState \in Presented => CurrentFlow.previewed
  BY <1>1, SerialNow DEF PreviewsAgree
<1> HIDE DEF t
<1>4. CASE CurrentFlow.previewed
  <2>1. task'[w] = t
    BY <1>1, <1>4, Called
  <2> QED
    BY <1>1, <1>2, <1>4, <1>6, <2>1, SerialItems
<1>5. CASE ~CurrentFlow.previewed
  <2>1. task'[w] = task[w] /\ CurrentState \notin Presented
    BY <1>1, <1>3, <1>5
  <2> QED
    BY <1>1, <1>6, <2>1, SerialItems
<1> QED
  BY <1>4, <1>5

\* The answers after which the flow has one more reactable event, or an edited preview.
LEMMA SerialFlowAnswers ==
  ASSUME NEW w, Workers = {w}, TypeOK, SerialInv,
         ItemMarked(w) \/ ResendOffered(w) \/ PreviewEdited(w)
  PROVE  SerialInv'
<1> DEFINE t == task[w]
           marked  == AddReactable(flows[current], "item")
           offered == [AddReactable(flows[current], "resend") EXCEPT !.resend = TRUE]
           edited  == EditShown(flows[current], t)
<1>1. /\ t.pc \in {"itemMark", "resend", "editPreview"}
      /\ UNCHANGED <<current, posts, prev, up>>
  BY DEF ItemMarked, ResendOffered, PreviewEdited, Awaits, serverVars, procVars
<1>2. FlowsAgree(t) /\ PreviewsAgree(t) /\ FlowsKnown /\ up
  BY SerialNow
<1>3. /\ t.f = current /\ current # 0 /\ flows[current] \in StandupFlow
      /\ CurrentFlow = flows[current]
  BY <1>1, HeldIsCurrent DEF HoldsFlow
<1> DEFINE Fits(r) ==
             /\ r.state = CurrentState /\ r.items = CurrentFlow.items
             /\ CurrentFlow.reactable \subseteq r.reactable
             /\ r.previewed = CurrentFlow.previewed
             /\ t.pc # "editPreview" => r.preview = CurrentFlow.preview
             /\ t.pc = "editPreview" => r.previewed /\ r.preview = CurrentFlow.items
<1>4. t.pc # "editPreview" => Fits(marked) /\ Fits(offered)
  BY <1>3 DEF AddReactable, StandupFlow, CurrentState
<1>5. t.pc = "editPreview" => Fits(edited)
  <2> SUFFICES ASSUME t.pc = "editPreview"
               PROVE  Fits(edited)
    OBVIOUS
  <2>1. CurrentFlow.previewed /\ t.snap = CurrentFlow.items
    BY <1>2 DEF PreviewsAgree
  <2>2. edited = [flows[current] EXCEPT !.preview = t.snap]
    BY <1>3, <2>1 DEF EditShown
  <2> HIDE DEF edited, t
  <2> QED
    BY <1>3, <2>1, <2>2 DEF StandupFlow, CurrentState
<1>6. /\ task'[w].pc \in {"idle", "resend"}
      /\ task'[w].pc = "resend" => task'[w].f = current
  <2> DEFINE offers == [Idle EXCEPT !.pc = "resend", !.f = t.f]
  <2>1. Idle.pc = "idle" /\ offers.pc = "resend" /\ offers.f = t.f
    BY DEF Idle
  <2> HIDE DEF offers
  <2>2. Call(w, Idle) \/ Call(w, offers)
    BY DEF ItemMarked, ResendOffered, PreviewEdited, Return, offers
  <2> QED
    BY <1>3, <2>1, <2>2, Called
<1> HIDE DEF Fits, marked, offered, edited
<1>7. PICK r : Fits(r) /\ flows' = [flows EXCEPT ![current] = r]
  <2>1. CASE ItemMarked(w)
    BY <1>3, <1>4, <2>1 DEF ItemMarked, Awaits, marked
  <2>2. CASE ResendOffered(w)
    BY <1>3, <1>4, <2>2 DEF ResendOffered, Awaits, offered
  <2>3. CASE PreviewEdited(w)
    BY <1>3, <1>5, <2>3 DEF PreviewEdited, Awaits, edited
  <2> QED
    BY <2>1, <2>2, <2>3
<1>8. /\ r.state = CurrentFlow.state /\ r.items = CurrentFlow.items
      /\ CurrentFlow.reactable # {} => r.reactable # {}
      /\ r.previewed = CurrentFlow.previewed
      /\ \/ r.previewed /\ r.preview = CurrentFlow.items
         \/ task[w].pc # "editPreview" /\ r.preview = CurrentFlow.preview
  BY <1>7 DEF Fits, CurrentState
<1>9. CurrentFlow' = r /\ LivePosts(current)' = LivePosts(current) /\ FlowsKnown'
  BY <1>1, <1>2, <1>3, <1>7, Rewritten
<1>10. FlowsAgree(task[w])'
  BY <1>1, <1>2, <1>6, <1>8, <1>9 DEF FlowsAgree, KnownPosts, HoldsFlow, CurrentState
<1>11. PreviewsAgree(task[w])'
  BY <1>1, <1>2, <1>6, <1>8, <1>9 DEF PreviewsAgree, CurrentState
<1> QED
  BY <1>1, <1>2, <1>9, <1>10, <1>11, SerialAfter

-----------------------------------------------------------------------------
(* A check mark, once previous_post has been read. *)

\* SendMessageToSendRoom: the flow that is about to go out is the current one.
LEMMA SerialSending ==
  ASSUME NEW w, Workers = {w}, TypeOK, SerialInv, task[w].pc = "readPrev",
         NEW how, NEW target, SendMessageToSendRoom(w, current, how, target),
         CurrentState \in Presented,
         \/ how = "post" /\ prev.flow # current
         \/ how = "edit" /\ prev.flow = current /\ target = prev.post,
         UNCHANGED <<flows, current, posts, prev, up>>
  PROVE  SerialInv'
<1> DEFINE t == [Idle EXCEPT !.pc = how, !.f = current, !.room = sendRoom,
                             !.post = target, !.snap = flows[current].items]
<1>1. FlowsAgree(task[w]) /\ PreviewsAgree(task[w])
  BY SerialNow
<1>2. CurrentState \notin Section
  BY DEF Presented, Section
<1>3. CASE Call(w, t)
  <2>1. t.pc = how /\ t.f = current /\ t.post = target /\ t.snap = flows[current].items
    BY DEF Idle
  <2>2. CurrentFlow = flows[current] /\ how \in {"post", "edit"}
    BY HeldIsCurrent DEF HoldsFlow
  <2> HIDE DEF t
  <2>3. FlowsAgree(t)
    BY <1>1, <1>2, <2>1 DEF FlowsAgree, KnownPosts
  <2>4. PreviewsAgree(t)
    BY <1>1, <2>1, <2>2 DEF PreviewsAgree
  <2> QED
    BY <1>3, <2>3, <2>4, SerialMoves
<1>4. CASE Call(w, Idle)
  <2>1. Idle.pc = "idle"
    BY DEF Idle
  <2>2. FlowsAgree(Idle) /\ PreviewsAgree(Idle)
    BY <1>1, <1>2, <2>1 DEF FlowsAgree, PreviewsAgree, KnownPosts, HoldsFlow
  <2> QED
    BY <1>4, <2>2, SerialMoves
<1> QED
  BY <1>3, <1>4 DEF SendMessageToSendRoom, Return

\* All the sections are filled in.
LEMMA SerialToConfirm ==
  ASSUME NEW w, Workers = {w}, TypeOK, SerialInv, task[w].pc = "readPrev",
         flows' = [flows EXCEPT ![current].state = "Notes"],
         Call(w, ShowingPreview(current, flows[current].items, "Confirm")),
         UNCHANGED <<current, posts, prev, up>>
  PROVE  SerialInv'
<1> DEFINE t == ShowingPreview(current, flows[current].items, "Confirm")
           r == [flows[current] EXCEPT !.state = "Notes"]
<1>1. FlowsAgree(task[w]) /\ PreviewsAgree(task[w]) /\ FlowsKnown /\ up
  BY SerialNow
<1>2. /\ task[w].f = current /\ current # 0 /\ flows[current] \in StandupFlow
      /\ CurrentFlow = flows[current]
  BY HeldIsCurrent DEF HoldsFlow
<1>3. r.state = "Notes" /\ r.items = CurrentFlow.items /\ flows' = [flows EXCEPT ![current] = r]
  BY <1>2 DEF StandupFlow
<1>4. /\ t.pc = "preview" /\ t.f = current /\ t.snap = CurrentFlow.items /\ t.arg = "Confirm"
      /\ task'[w] = t
  BY <1>2, Called DEF ShowingPreview, Idle
<1> HIDE DEF t, r
<1>5. CurrentFlow' = r /\ LivePosts(current)' = LivePosts(current) /\ FlowsKnown'
  BY <1>1, <1>2, <1>3, Rewritten
<1>6. FlowsAgree(task[w])'
  BY <1>1, <1>3, <1>4, <1>5 DEF FlowsAgree, KnownPosts, CurrentState
<1>7. PreviewsAgree(task[w])'
  BY <1>1, <1>3, <1>4, <1>5 DEF PreviewsAgree, CurrentState
<1> QED
  BY <1>1, <1>5, <1>6, <1>7, SerialAfter

LEMMA SerialPreviousPostRead ==
  ASSUME NEW w, Workers = {w}, MaxFaults = 0, TypeOK, SerialInv, PreviousPostRead(w)
  PROVE  SerialInv'
<1> DEFINE flow == flows[current]
<1>1. task[w].pc = "readPrev" /\ UNCHANGED <<current, posts, prev, up>>
  BY DEF PreviousPostRead, Awaits, serverVars, procVars
<1>2. FlowsAgree(task[w]) /\ PreviewsAgree(task[w]) /\ FlowsKnown /\ up
  BY SerialNow
<1>3. task[w].f = current /\ current # 0 /\ CurrentFlow = flow /\ CurrentState = flow.state
  BY <1>1, HeldIsCurrent DEF HoldsFlow, CurrentState
<1>4. PICK failed \in BOOLEAN : failed = ~prev.set /\ Confirmed(w, current, failed)
  BY <1>3, NoFault DEF PreviousPostRead, StateEventRead
<1>5. MatchesPrevious(current, failed) <=> prev.flow = current
  BY <1>2, <1>3, <1>4 DEF MatchesPrevious, FlowsKnown
<1>6. CASE prev.flow = current /\ UNCHANGED flows /\ Call(w, ShowingPreview(current, flow.items, "Sent"))
  <2> DEFINE t == ShowingPreview(current, flow.items, "Sent")
  <2>1. t.pc = "preview" /\ t.f = current /\ t.snap = CurrentFlow.items
    BY <1>3 DEF ShowingPreview, Idle
  <2> HIDE DEF t
  <2>2. FlowsAgree(t) /\ PreviewsAgree(t)
    BY <1>1, <1>2, <1>6, <2>1 DEF FlowsAgree, PreviewsAgree, KnownPosts
  <2> QED
    BY <1>1, <1>6, <2>2, SerialMoves DEF t
<1>7. CASE /\ flows' = [flows EXCEPT ![current].state = "Notes"]
           /\ Call(w, ShowingPreview(current, flow.items, "Confirm"))
  BY <1>1, <1>7, SerialToConfirm
<1>8. CASE UNCHANGED flows /\ Call(w, Asking(Following[flow.state]))
  <2> DEFINE t == Asking(Following[flow.state])
  <2>1. t.pc = "ask"
    BY DEF Asking, Idle
  <2> HIDE DEF t
  <2>2. FlowsAgree(t) /\ PreviewsAgree(t)
    BY <1>1, <1>2, <2>1 DEF FlowsAgree, PreviewsAgree, KnownPosts, HoldsFlow
  <2> QED
    BY <1>1, <1>8, <2>2, SerialMoves DEF t
<1>9. CASE /\ prev.flow # current /\ flow.state \in {"Threads", "Confirm"}
           /\ SendMessageToSendRoom(w, current, "post", 0) /\ UNCHANGED flows
  BY <1>1, <1>3, <1>9, SerialSending DEF Presented
<1>10. CASE /\ flow.state = "Sent" /\ UNCHANGED flows
            /\ IF failed THEN Return(w) ELSE SendMessageToSendRoom(w, current, "edit", prev.post)
  <2>1. prev.flow = current /\ ~failed
    BY <1>1, <1>2, <1>3, <1>4, <1>10 DEF FlowsAgree, FlowsKnown
  <2> QED
    BY <1>1, <1>3, <1>10, <2>1, SerialSending DEF Presented
<1> QED
  BY <1>4, <1>5, <1>6, <1>7, <1>8, <1>9, <1>10 DEF Confirmed

-----------------------------------------------------------------------------
(* The posts. *)

\* The flow had no live post: the new one is its only one.
LEMMA SerialPosted ==
  ASSUME NEW w, Workers = {w}, TypeOK, SerialInv, Posted(w)
  PROVE  SerialInv'
<1> DEFINE n == Len(posts) + 1
           t == [Idle EXCEPT !.pc = "tellSent", !.f = current, !.post = n]
           post == NewPost(task[w])
<1>1. task[w].pc = "post" /\ UNCHANGED <<flows, current, prev, up>>
  BY DEF Posted, Awaits, memVars, procVars
<1>2. FlowsAgree(task[w]) /\ PreviewsAgree(task[w]) /\ FlowsKnown /\ up
  BY SerialNow
<1>3. task[w].f = current /\ current \in DOMAIN flows
  BY <1>1, HeldIsCurrent, CurrentEntry DEF HoldsFlow
<1>4. posts' = Append(posts, post) /\ Call(w, t) /\ posts \in Seq(Post)
  BY <1>3 DEF Posted, TypeOK, ServerOK
<1>5. task'[w] = t /\ t.pc = "tellSent" /\ t.f = current /\ t.post = n
  BY <1>4, Called DEF Idle
<1>6. post.flow = current /\ post.live
  BY <1>3 DEF NewPost
<1> HIDE DEF t, post
<1>7. /\ DOMAIN posts = 1 .. Len(posts) /\ Len(posts) \in Nat
      /\ DOMAIN posts' = 1 .. n /\ posts'[n] = post
      /\ \A p \in DOMAIN posts : posts'[p] = posts[p]
  BY <1>4
<1>8. LivePosts(current) = {}
  BY <1>1, <1>2 DEF FlowsAgree, KnownPosts
<1>9. LivePosts(current)' = {n}
  BY <1>1, <1>6, <1>7, <1>8 DEF LivePosts
<1>10. FlowsKnown'
  BY <1>1, <1>2, <1>3, <1>6, <1>7 DEF FlowsKnown
<1>11. CurrentFlow' = CurrentFlow
  BY <1>1 DEF CurrentFlow
<1>12. FlowsAgree(task[w])'
  BY <1>1, <1>2, <1>5, <1>9, <1>11 DEF FlowsAgree, KnownPosts, CurrentState
<1>13. PreviewsAgree(task[w])'
  BY <1>1, <1>2, <1>5, <1>11 DEF PreviewsAgree, CurrentState
<1> QED
  BY <1>1, <1>2, <1>10, <1>12, <1>13, SerialAfter

LEMMA SerialPostEdited ==
  ASSUME NEW w, Workers = {w}, MaxFaults = 0, TypeOK, SerialInv, PostEdited(w)
  PROVE  SerialInv'
<1> DEFINE t == [Idle EXCEPT !.pc = "tellSent", !.f = current, !.post = prev.post]
<1>1. task[w].pc = "edit" /\ UNCHANGED <<flows, current, prev, up>>
  BY DEF PostEdited, Awaits, memVars, procVars
<1>2. FlowsAgree(task[w]) /\ PreviewsAgree(task[w]) /\ FlowsKnown /\ up
  BY SerialNow
<1>3. task[w].f = current /\ current # 0 /\ task[w].post = prev.post /\ prev.flow = current
  BY <1>1, <1>2, HeldIsCurrent DEF HoldsFlow, FlowsAgree
<1>4. posts' = Replaced(task[w]) /\ Call(w, t)
  BY <1>3, NoFault DEF PostEdited
<1>5. /\ DOMAIN posts' = DOMAIN posts
      /\ \A p \in DOMAIN posts : posts'[p].flow = posts[p].flow /\ posts'[p].live = posts[p].live
  BY <1>4 DEF Replaced, TypeOK, ServerOK, Post
<1>6. LivePosts(current)' = LivePosts(current)
  BY <1>1, <1>5 DEF LivePosts
<1>7. FlowsKnown'
  BY <1>1, <1>2, <1>5 DEF FlowsKnown
<1>8. task'[w] = t /\ t.pc = "tellSent" /\ t.f = current /\ t.post = prev.post
  BY <1>4, Called DEF Idle
<1>9. CurrentFlow' = CurrentFlow
  BY <1>1 DEF CurrentFlow
<1> HIDE DEF t
<1>10. FlowsAgree(task[w])'
  BY <1>1, <1>2, <1>3, <1>6, <1>8, <1>9 DEF FlowsAgree, KnownPosts, CurrentState
<1>11. PreviewsAgree(task[w])'
  BY <1>1, <1>2, <1>8, <1>9 DEF PreviewsAgree, CurrentState
<1> QED
  BY <1>1, <1>2, <1>7, <1>10, <1>11, SerialAfter

LEMMA SerialPreviousPostStored ==
  ASSUME NEW w, Workers = {w}, TypeOK, SerialInv, PreviousPostStored(w)
  PROVE  SerialInv'
<1>1. /\ task[w].pc = "writePrev" /\ Call(w, Idle)
      /\ UNCHANGED <<flows, current, posts, up>>
  BY DEF PreviousPostStored, Awaits, Return, memVars, procVars
<1>2. FlowsAgree(task[w]) /\ PreviewsAgree(task[w]) /\ FlowsKnown /\ up
  BY SerialNow
<1>3. task[w].f = current /\ current # 0 /\ current \in DOMAIN flows
  BY <1>1, HeldIsCurrent, CurrentEntry DEF HoldsFlow
<1>4. prev'.set /\ prev'.flow = current /\ prev'.post = task[w].post
  BY <1>3 DEF PreviousPostStored
<1>5. task'[w] = Idle /\ Idle.pc = "idle"
  BY <1>1, Called DEF Idle
<1>6. CurrentFlow' = CurrentFlow /\ LivePosts(current)' = LivePosts(current) /\ FlowsKnown'
  BY <1>1, <1>2, <1>3, <1>4 DEF CurrentFlow, LivePosts, FlowsKnown
<1>7. FlowsAgree(task[w])'
  BY <1>1, <1>2, <1>3, <1>4, <1>5, <1>6 DEF FlowsAgree, KnownPosts, HoldsFlow, CurrentState
<1>8. PreviewsAgree(task[w])'
  BY <1>1, <1>2, <1>5, <1>6 DEF PreviewsAgree, CurrentState
<1> QED
  BY <1>1, <1>2, <1>6, <1>7, <1>8, SerialAfter

-----------------------------------------------------------------------------
(* The invariant. *)

\* No call fails, and the process goes on.
LEMMA NothingFails ==
  ASSUME TypeOK, Serial, up, NEW w
  PROVE  ~Failure(w) /\ ~Terminate /\ ~Kill /\ ~Start
BY NoFault DEF Serial, Failure, PreviewPanics, PostedTwice, PostAnswerLost, GivesUp,
               Terminate, Kill, Start, Stop, TypeOK, ProcessOK

LEMMA SerialInit ==
  ASSUME Init
  PROVE  SerialInv
<1>1. Idle.pc = "idle" /\ prev = NoPreviousPost /\ posts = <<>> /\ CurrentFlow = BlankStandupFlow
  BY DEF Init, Idle, CurrentFlow
<1>2. LivePosts(current) = {} /\ FlowsKnown
  BY <1>1 DEF LivePosts, FlowsKnown, NoPreviousPost
<1>3. \A w \in Workers : task[w].pc = "idle"
  BY <1>1 DEF Init
<1>4. ASSUME NEW w \in Workers
      PROVE  FlowsAgree(task[w]) /\ PreviewsAgree(task[w])
  BY <1>1, <1>2, <1>3, BlankFlow DEF Init, FlowsAgree, PreviewsAgree, Presented, KnownPosts,
                                HoldsFlow, CurrentState, Section
<1> QED
  BY <1>2, <1>4 DEF Init, SerialInv

LEMMA SerialNext ==
  ASSUME Serial, TypeOK, SerialInv, [Next]_vars
  PROVE  SerialInv'
<1>1. PICK w : Workers = {w}
  BY DEF Serial
<1>2. MaxFaults = 0 /\ up
  BY DEF Serial, SerialInv
<1>3. ASSUME Input(w)
      PROVE  SerialInv'
  BY <1>1, <1>3, SerialCommands, SerialNewFlow, SerialUndo, SerialHandleMessage,
     SerialHandleEdit, SerialHandleReply, SerialHandleRedaction, SerialHandleReaction DEF Input
<1>4. ASSUME Answer(w)
      PROVE  SerialInv'
  BY <1>1, <1>2, <1>4, SerialAsked, SerialRootSent, SerialPreviewShown, SerialFlowAnswers,
     SerialReactCross, SerialReactCheck, SerialPreviousPostRead, SerialPosted,
     SerialPostEdited, SerialMarkSent, SerialPreviousPostStored, SerialSettings,
     SerialSendRoomTold, SerialUndoRead, SerialRedacted, SerialRedactRefused,
     SerialUndone, SerialPreviousPostCleared, SerialNewFlow DEF Answer
<1>5. ASSUME Notify(w)
      PROVE  SerialInv'
  BY <1>1, <1>5, SerialSettings
<1>6. ASSUME NEW r \in SendRooms, SetMembership(r)
      PROVE  SerialInv'
  BY <1>1, <1>6, SerialStays DEF SetMembership, memVars, serverVars, procVars
<1>7. CASE UNCHANGED vars
  BY <1>1, <1>7, SerialStays DEF vars
<1> QED
  BY <1>1, <1>2, <1>3, <1>4, <1>5, <1>6, <1>7, NothingFails DEF Next

\* SerialInv is an invariant of one goroutine whose calls are all answered: wherever a
\* handler of create_post.go or command_handler.go waits, the current flow, its preview,
\* its one live post and previous_post agree, for any number of flows, posts, rooms
\* and messages.
THEOREM SerialInductive == Serial => (Spec => []SerialInv)
<1> SUFFICES ASSUME Serial
             PROVE  Spec => []SerialInv
  OBVIOUS
<1>1. Init => SerialInv
  BY SerialInit
<1>2. TypeOK /\ SerialInv /\ [Next]_vars => SerialInv'
  BY SerialNext
<1> QED
  BY <1>1, <1>2, TypeCorrect, PTL DEF Spec

\* One event at a time and with every call answered, previous_post leads from a flow
\* that is Sent to its live post (create_post.go:262, read at create_post.go:297 and
\* command_handler.go:625).
THEOREM SerialSentIsRecorded == Serial => (Spec => []SentIsRecorded)
<1> SUFFICES ASSUME Serial
             PROVE  Spec => []SentIsRecorded
  OBVIOUS
<1>1. SerialInv => SentIsRecorded
  <2> SUFFICES ASSUME SerialInv, Quiet, CurrentState = "Sent"
               PROVE  /\ prev.flow = current
                      /\ prev.post \in DOMAIN posts
                      /\ posts[prev.post].flow = current
                      /\ posts[prev.post].live
    BY DEF SentIsRecorded
  <2>1. PICK w : Workers = {w}
    BY DEF Serial
  <2>2. FlowsAgree(task[w]) /\ task[w].pc = "idle"
    BY <2>1, SerialNow DEF Quiet
  <2>3. current # 0
    BY DEF CurrentState, CurrentFlow, BlankStandupFlow
  <2>4. prev.flow = current /\ LivePosts(current) = {prev.post}
    BY <2>2, <2>3 DEF FlowsAgree, KnownPosts
  <2> QED
    BY <2>4 DEF LivePosts
<1> QED
  BY <1>1, SerialInductive, PTL

\* One event at a time and with every call answered, a user who is asked for a section
\* has an event to put the check mark on (ReactableEvents, create_post.go:78 and 293).
THEOREM SerialAnswerable == Serial => (Spec => []Answerable)
<1> SUFFICES ASSUME Serial
             PROVE  Spec => []Answerable
  OBVIOUS
<1>1. SerialInv => Answerable
  <2>1. PICK w : Workers = {w}
    BY DEF Serial
  <2> QED
    BY <2>1, SerialNow DEF Answerable, Quiet, FlowsAgree
<1> QED
  BY <1>1, SerialInductive, PTL

-----------------------------------------------------------------------------
(* The board: what a step of StandupBot is to it. *)

BoardKept(f) == BoardShown(f)' = BoardShown(f) /\ BoardPosts(f)' = BoardPosts(f)

LEMMA BoardStutters ==
  ASSUME \A f \in 1 .. MaxFlows : BoardKept(f)
  PROVE  UNCHANGED Board!vars
BY DEF BoardKept, Board!vars

\* Only the flow c is shown.
LEMMA BoardShows ==
  ASSUME NEW c \in Nat, NEW text \in Texts, BoardShown(c)' = {text},
         BoardPosts(c)' = BoardPosts(c),
         \A f \in 1 .. MaxFlows : f # c => BoardKept(f)
  PROVE  [Board!Next]_(Board!vars)
<1>1. CASE c \in 1 .. MaxFlows
  <2>1. Board!Show(c)
    BY <1>1 DEF Board!Show, BoardKept
  <2> QED
    BY <1>1, <2>1 DEF Board!Next
<1>2. CASE c \notin 1 .. MaxFlows
  BY <1>2, BoardStutters
<1> QED
  BY <1>1, <1>2

LEMMA BoardAbandons ==
  ASSUME \A f \in 1 .. MaxFlows : BoardShown(f)' = {} /\ BoardPosts(f)' = BoardPosts(f)
  PROVE  [Board!Next]_(Board!vars)
<1>1. [f \in 1 .. MaxFlows |-> BoardShown(f)]'
        = [f \in 1 .. MaxFlows |-> IF f \in 1 .. MaxFlows THEN {} ELSE BoardShown(f)]
  OBVIOUS
<1>2. Board!Abandon
  BY <1>1 DEF Board!Abandon
<1> QED
  BY <1>2 DEF Board!Next

\* Only the post of the flow c changes.
LEMMA BoardChanges ==
  ASSUME NEW c \in Nat, BoardShown(c)' = BoardShown(c),
         \A f \in 1 .. MaxFlows : f # c => BoardKept(f),
         c \in 1 .. MaxFlows =>
           \/ /\ BoardPosts(c) = {}
              /\ \E text \in BoardShown(c), room \in SendRooms, id \in 1 .. MaxPosts :
                   BoardPosts(c)' = {[id |-> id, room |-> room, text |-> text]}
           \/ \E text \in BoardShown(c), post \in BoardPosts(c) :
                BoardPosts(c)' = {[post EXCEPT !.text = text]}
           \/ BoardPosts(c)' = {}
           \/ BoardPosts(c)' = BoardPosts(c)
  PROVE  [Board!Next]_(Board!vars)
<1> DEFINE shown == [f \in 1 .. MaxFlows |-> BoardShown(f)]
           board == [f \in 1 .. MaxFlows |-> BoardPosts(f)]
<1>1. CASE c \notin 1 .. MaxFlows \/ BoardPosts(c)' = BoardPosts(c)
  BY <1>1, BoardStutters DEF BoardKept
<1>2. CASE c \in 1 .. MaxFlows
  <2>1. shown' = shown /\ board' = [board EXCEPT ![c] = BoardPosts(c)']
    BY <1>2 DEF BoardKept
  <2>2. shown[c] = BoardShown(c) /\ board[c] = BoardPosts(c)
    BY <1>2
  <2>3. CASE /\ BoardPosts(c) = {}
             /\ \E text \in BoardShown(c), room \in SendRooms, id \in 1 .. MaxPosts :
                  BoardPosts(c)' = {[id |-> id, room |-> room, text |-> text]}
    <3>1. PICK text \in BoardShown(c), room \in SendRooms, id \in 1 .. MaxPosts :
            BoardPosts(c)' = {[id |-> id, room |-> room, text |-> text]}
      BY <2>3
    <3>2. board' = [board EXCEPT ![c] = {[id |-> id, room |-> room, text |-> text]}]
      BY <2>1, <3>1
    <3> HIDE DEF shown, board
    <3>3. /\ board[c] = {}
          /\ \E t \in shown[c], r \in SendRooms, i \in 1 .. MaxPosts :
               board' = [board EXCEPT ![c] = {[id |-> i, room |-> r, text |-> t]}]
      BY <2>2, <2>3, <3>1, <3>2
    <3>4. Board!Publish(c)
      BY <2>1, <3>3 DEF Board!Publish, shown, board
    <3> QED
      BY <1>2, <3>4 DEF Board!Next
  <2>4. CASE \E text \in BoardShown(c), post \in BoardPosts(c) :
               BoardPosts(c)' = {[post EXCEPT !.text = text]}
    <3>1. Board!Revise(c)
      BY <2>1, <2>2, <2>4 DEF Board!Revise
    <3> QED
      BY <1>2, <3>1 DEF Board!Next
  <2>5. CASE BoardPosts(c)' = {}
    <3>1. Board!Withdraw(c)
      BY <2>1, <2>5 DEF Board!Withdraw
    <3> QED
      BY <1>2, <3>1 DEF Board!Next
  <2> QED
    BY <1>1, <1>2, <2>3, <2>4, <2>5
<1> QED
  BY <1>1, <1>2

LEMMA PostsKept ==
  ASSUME UNCHANGED posts
  PROVE  \A f : BoardPosts(f)' = BoardPosts(f)
BY DEF BoardPosts, LivePosts

LEMMA BoardUnmoved ==
  ASSUME UNCHANGED <<flows, posts>>
  PROVE  [Board!Next]_(Board!vars)
<1>1. \A f \in 1 .. MaxFlows : BoardKept(f)
  BY PostsKept DEF BoardKept, BoardShown
<1> QED
  BY <1>1, BoardStutters

\* A handler writes to the current flow, and not to its preview.
LEMMA BoardRewritten ==
  ASSUME TypeOK, current # 0, NEW r, flows' = [flows EXCEPT ![current] = r],
         r.previewed = flows[current].previewed, r.preview = flows[current].preview,
         UNCHANGED posts
  PROVE  [Board!Next]_(Board!vars)
<1>1. current \in DOMAIN flows
  BY CurrentEntry
<1>2. DOMAIN flows' = DOMAIN flows /\ flows'[current] = r
  BY <1>1
<1>3. \A f \in DOMAIN flows : f # current => flows'[f] = flows[f]
  BY <1>1
<1>4. \A f \in 1 .. MaxFlows : BoardShown(f)' = BoardShown(f)
  BY <1>2, <1>3 DEF BoardShown
<1> QED
  BY <1>4, PostsKept, BoardStutters DEF BoardKept

\* The user has been shown what the current flow says.
LEMMA BoardRewrittenAndShown ==
  ASSUME TypeOK, current # 0, NEW r, flows' = [flows EXCEPT ![current] = r],
         r.previewed, r.preview \in Texts, UNCHANGED posts
  PROVE  [Board!Next]_(Board!vars)
<1>1. PICK c \in Nat : c = current /\ c \in DOMAIN flows
  BY CurrentEntry
<1>2. DOMAIN flows' = DOMAIN flows /\ flows'[c] = r
  BY <1>1
<1>3. \A f \in DOMAIN flows : f # c => flows'[f] = flows[f]
  BY <1>1
<1>4. \A f \in 1 .. MaxFlows : f # c => BoardShown(f)' = BoardShown(f)
  BY <1>2, <1>3 DEF BoardShown
<1>5. BoardShown(c)' = {r.preview}
  BY <1>1, <1>2 DEF BoardShown
<1>6. \A f \in 1 .. MaxFlows : f # c => BoardKept(f)
  BY <1>4, PostsKept DEF BoardKept
<1>7. BoardPosts(c)' = BoardPosts(c)
  BY PostsKept
<1> QED
  BY <1>5, <1>6, <1>7, BoardShows

\* The current flow and all garbage are given up.
LEMMA BoardBegins ==
  ASSUME NEW w, Workers = {w}, TypeOK, StartBlankFlow(w), UNCHANGED posts
  PROVE  [Board!Next]_(Board!vars)
<1>1. Kept(w) \in Seq(StandupFlow) /\ DOMAIN Kept(w) = DOMAIN flows /\ Len(Kept(w)) = Len(flows)
  BY KeptType DEF TypeOK, MemoryOK
<1>2. \A f \in DOMAIN flows : Kept(w)[f] = BlankStandupFlow
  BY DEF Kept
<1>3. flows' = Append(Kept(w), BlankStandupFlow)
  BY DEF StartBlankFlow
<1>4. \A f \in DOMAIN flows' : flows'[f] = BlankStandupFlow
  BY <1>1, <1>2, <1>3, AppendProperties
<1>5. \A f \in 1 .. MaxFlows : BoardShown(f)' = {}
  BY <1>4, BlankFlow DEF BoardShown
<1> QED
  BY <1>5, PostsKept, BoardAbandons

-----------------------------------------------------------------------------
(* Each action implements a step of the board, or none. *)

LEMMA BoardWaiting ==
  ASSUME NEW w,
         \/ OtherCommand(w) \/ Undo(w) \/ UndoRead(w) \/ RedactRefused(w)
         \/ \E s \in Section : EditSection(w, s)
         \/ \E r \in SendRooms : HandleRoom(w, r)
         \/ \E onOff \in {"on", "off"} : HandleThreads(w, onOff)
         \/ \E key : HandleReaction(w, key)
         \/ SendRoomSet(w) \/ SendRoomTold(w) \/ UseThreadsSet(w) \/ Notify(w)
         \/ PreviousPostStored(w) \/ PreviousPostCleared(w)
         \/ \E r \in SendRooms : SetMembership(r)
  PROVE  [Board!Next]_(Board!vars)
<1>1. UNCHANGED <<flows, posts>>
  BY DEF OtherCommand, Undo, UndoRead, RedactRefused, EditSection, HandleRoom,
         HandleThreads, HandleReaction, SendRoomSet, SendRoomTold, UseThreadsSet, Notify,
         PreviousPostStored, PreviousPostCleared, SetMembership, memVars, serverVars
<1> QED
  BY <1>1, BoardUnmoved

LEMMA BoardNewFlow ==
  ASSUME NEW w, Workers = {w}, TypeOK, New(w) \/ Cancel(w) \/ Notified(w) \/ ReactCross(w)
  PROVE  [Board!Next]_(Board!vars)
<1>1. UNCHANGED posts /\ (StartBlankFlow(w) \/ UNCHANGED flows)
  BY DEF New, Cancel, Notified, ReactCross, memVars, serverVars
<1> QED
  BY <1>1, BoardBegins, BoardUnmoved

LEMMA BoardItems ==
  ASSUME NEW w, TypeOK,
         \/ HandleMessage(w)
         \/ \E item \in CurrentFlow.items : HandleEdit(w, item) \/ HandleRedaction(w, item)
         \/ \E s \in Section : HandleReply(w, s)
  PROVE  [Board!Next]_(Board!vars)
<1>1. PICK items : flows' = [flows EXCEPT ![current].items = items]
  BY DEF HandleMessage, HandleEdit, HandleRedaction, HandleReply, WriteItem
<1>2. current # 0 /\ UNCHANGED posts
  BY DEF HandleMessage, HandleEdit, HandleRedaction, HandleReply, Content, serverVars
<1> DEFINE r == [flows[current] EXCEPT !.items = items]
<1>3. r.previewed = flows[current].previewed /\ r.preview = flows[current].preview
  BY <1>2, CurrentEntry DEF StandupFlow
<1>4. flows' = [flows EXCEPT ![current] = r]
  BY <1>1
<1> HIDE DEF r
<1> QED
  BY <1>2, <1>3, <1>4, BoardRewritten

\* A new entry has not been shown; a question is not a preview.
LEMMA BoardAsked ==
  ASSUME NEW w \in Workers, TypeOK, Asked(w)
  PROVE  [Board!Next]_(Board!vars)
<1> DEFINE s == task[w].arg
           Moved(flow) == AddReactable([flow EXCEPT !.state = s], PromptOf(s))
<1>1. UNCHANGED posts
  BY DEF Asked, serverVars
<1>2. \A flow \in StandupFlow : Moved(flow).previewed = flow.previewed
                               /\ Moved(flow).preview = flow.preview
  BY DEF AddReactable, StandupFlow
<1>3. CASE current = 0
  <2> DEFINE heap == Append(flows, BlankStandupFlow)
             n    == Len(heap)
  <2>1. heap \in Seq(StandupFlow) /\ n = Len(flows) + 1 /\ Len(flows) \in Nat /\ n \in DOMAIN heap
    BY FlowAllocated, BlankFlowType DEF TypeOK, MemoryOK
  <2>2. /\ heap[n] = BlankStandupFlow /\ n \notin DOMAIN flows
        /\ DOMAIN heap = DOMAIN flows \cup {n}
        /\ \A f \in DOMAIN flows : heap[f] = flows[f]
    BY <2>1, AppendProperties, BlankFlowType DEF TypeOK, MemoryOK
  <2>3. flows' = [heap EXCEPT ![n] = Moved(heap[n])]
    BY <1>3 DEF Asked
  <2> HIDE DEF heap, n
  <2>4. DOMAIN flows' = DOMAIN heap /\ flows'[n] = Moved(BlankStandupFlow)
    BY <2>1, <2>2, <2>3
  <2>5. \A f \in DOMAIN flows : f # n /\ flows'[f] = flows[f]
    BY <2>1, <2>2, <2>3
  <2> HIDE DEF Moved
  <2>6. flows'[n].previewed = FALSE
    BY <1>2, <2>4, BlankFlow, BlankFlowType
  <2>7. \A f \in 1 .. MaxFlows : BoardShown(f)' = BoardShown(f)
    BY <2>2, <2>4, <2>5, <2>6 DEF BoardShown
  <2> QED
    BY <1>1, <2>7, PostsKept, BoardStutters DEF BoardKept
<1>4. CASE current # 0
  <2>1. flows' = [flows EXCEPT ![current] = Moved(flows[current])]
    BY <1>4 DEF Asked
  <2> HIDE DEF Moved
  <2> QED
    BY <1>1, <1>2, <1>4, <2>1, CurrentEntry, BoardRewritten
<1> QED
  BY <1>3, <1>4

\* Handlers that write anything but the preview to the flow they hold.
LEMMA BoardWrites ==
  ASSUME NEW w, Workers = {w}, TypeOK, SerialInv,
         \/ RootSent(w) \/ ReactCheck(w) \/ MarkSent(w) \/ Undone(w)
         \/ ItemMarked(w) \/ ResendOffered(w)
  PROVE  [Board!Next]_(Board!vars)
<1> DEFINE flow    == flows[current]
           rooted  == [flow EXCEPT !.roots = @ \cup {task[w].arg}]
           checked == [flow EXCEPT !.reactable = {}]
           sent    == [flow EXCEPT !.state = "Sent", !.resend = FALSE]
           undone  == [flow EXCEPT !.state = "Confirm"]
           marked  == AddReactable(flow, "item")
           offered == [AddReactable(flow, "resend") EXCEPT !.resend = TRUE]
           Rewrite(r) == flows' = [flows EXCEPT ![current] = r]
<1>1. UNCHANGED posts
  BY DEF RootSent, ReactCheck, MarkSent, Undone, ItemMarked, ResendOffered, serverVars
<1>2. /\ RootSent(w) => Rewrite(rooted)
      /\ Undone(w) => Rewrite(undone)
  BY DEF RootSent, Undone
<1>3. current # 0 /\ flow \in StandupFlow
  BY HeldIsCurrent, CurrentEntry
     DEF RootSent, ReactCheck, MarkSent, Undone, ItemMarked, ResendOffered, Awaits,
         HoldsFlow, TypeOK, TasksOK, TaskOK, NeedsEntry
<1>4. task[w].pc \in HoldsFlow => task[w].f = current
  BY HeldIsCurrent
<1>5. /\ ReactCheck(w) => Rewrite(checked)
      /\ ItemMarked(w) => Rewrite(marked)
      /\ ResendOffered(w) => Rewrite(offered)
  BY <1>4 DEF ReactCheck, ItemMarked, ResendOffered, Awaits, HoldsFlow
<1>6. ASSUME MarkSent(w)
      PROVE  Rewrite(sent)
  <2>1. flows' = [[flows EXCEPT ![current].state = "Sent"] EXCEPT ![current].resend = FALSE]
    BY <1>4, <1>6 DEF MarkSent, Awaits, HoldsFlow
  <2>2. current \in DOMAIN flows
    BY <1>3, CurrentEntry
  <2> QED
    BY <1>3, <2>1, <2>2 DEF StandupFlow
<1>7. \A r \in {rooted, checked, sent, undone, marked, offered} :
        r.previewed = flow.previewed /\ r.preview = flow.preview
  BY <1>3 DEF AddReactable, StandupFlow
<1> HIDE DEF rooted, checked, sent, undone, marked, offered
<1>8. \E r \in {rooted, checked, sent, undone, marked, offered} : Rewrite(r)
  BY <1>2, <1>5, <1>6
<1> QED
  BY <1>1, <1>3, <1>7, <1>8, BoardRewritten

LEMMA BoardPreview ==
  ASSUME NEW w, Workers = {w}, TypeOK, SerialInv, PreviewShown(w) \/ PreviewEdited(w)
  PROVE  [Board!Next]_(Board!vars)
<1> DEFINE t == task[w]
           flow   == flows[current]
           q      == Previewed(flow, t)
           shown  == AddReactable(q, "preview")
           edited == EditShown(flow, t)
<1>1. t.pc \in {"preview", "editPreview"} /\ UNCHANGED posts
  BY DEF PreviewShown, PreviewEdited, Awaits, serverVars
<1>2. /\ t.f = current /\ current # 0 /\ flow \in StandupFlow
      /\ CurrentFlow = flow /\ current \in DOMAIN flows
  BY <1>1, HeldIsCurrent, CurrentEntry DEF HoldsFlow
<1>3. t.snap \in Texts /\ (t.pc = "editPreview" => flow.previewed)
  BY <1>1, <1>2, SerialNow DEF PreviewsAgree
<1>4. CASE PreviewShown(w)
  <2>1. flows' = [[flows EXCEPT ![current] = q] EXCEPT ![current] = AddReactable(@, "preview")]
    BY <1>2, <1>4 DEF PreviewShown
  <2>2. q.previewed /\ q.preview = t.snap /\ shown.previewed /\ shown.preview = q.preview
    BY <1>2 DEF Previewed, AddReactable, StandupFlow
  <2>3. flows' = [flows EXCEPT ![current] = shown]
    <3> HIDE DEF q
    <3> QED
      BY <1>2, <2>1
  <2> HIDE DEF t, q, shown
  <2> QED
    BY <1>1, <1>2, <1>3, <2>2, <2>3, BoardRewrittenAndShown
<1>5. CASE PreviewEdited(w)
  <2>1. flows' = [flows EXCEPT ![current] = edited] /\ t.pc = "editPreview"
    BY <1>2, <1>5 DEF PreviewEdited, Awaits
  <2>2. edited.previewed /\ edited.preview = t.snap
    BY <1>2, <1>3, <2>1 DEF EditShown, StandupFlow
  <2> HIDE DEF t, edited
  <2> QED
    BY <1>1, <1>2, <1>3, <2>1, <2>2, BoardRewrittenAndShown
<1> QED
  BY <1>4, <1>5

LEMMA BoardPreviousPostRead ==
  ASSUME NEW w, Workers = {w}, TypeOK, SerialInv, PreviousPostRead(w)
  PROVE  [Board!Next]_(Board!vars)
<1> DEFINE r == [flows[current] EXCEPT !.state = "Notes"]
<1>1. task[w].f = current /\ current # 0 /\ flows[current] \in StandupFlow
  BY HeldIsCurrent DEF PreviousPostRead, Awaits, HoldsFlow
<1>2. PICK failed \in BOOLEAN : Confirmed(w, current, failed)
  BY <1>1 DEF PreviousPostRead
<1>3. UNCHANGED flows \/ flows' = [flows EXCEPT ![current] = r]
  BY <1>2 DEF Confirmed
<1>4. r.previewed = flows[current].previewed /\ r.preview = flows[current].preview
  BY <1>1 DEF StandupFlow
<1>5. UNCHANGED posts
  BY DEF PreviousPostRead, serverVars
<1> HIDE DEF r
<1> QED
  BY <1>1, <1>3, <1>4, <1>5, BoardUnmoved, BoardRewritten

\* Only posts of the flow c change, or are added.
LEMMA OtherPostsKept ==
  ASSUME UNCHANGED flows, NEW c,
         \A p \in DOMAIN posts \cup DOMAIN posts' :
           \/ p \in DOMAIN posts /\ p \in DOMAIN posts' /\ posts'[p] = posts[p]
           \/ /\ p \in DOMAIN posts => posts[p].flow = c
              /\ p \in DOMAIN posts' => posts'[p].flow = c
  PROVE  BoardShown(c)' = BoardShown(c) /\ \A f : f # c => BoardKept(f)
<1>1. \A f : BoardShown(f)' = BoardShown(f)
  BY DEF BoardShown
<1>2. ASSUME NEW f, f # c
      PROVE  BoardPosts(f)' = BoardPosts(f)
  <2>1. LivePosts(f)' = LivePosts(f)
    BY <1>2 DEF LivePosts
  <2>2. \A p \in LivePosts(f) : posts'[p] = posts[p]
    BY <1>2 DEF LivePosts
  <2> QED
    BY <2>1, <2>2 DEF BoardPosts
<1> QED
  BY <1>1, <1>2 DEF BoardKept

LEMMA BoardPosted ==
  ASSUME NEW w, Workers = {w}, TypeOK, SerialInv, Posted(w)
  PROVE  [Board!Next]_(Board!vars)
<1> DEFINE t    == task[w]
           n    == Len(posts) + 1
           post == NewPost(t)
<1>1. /\ t.pc = "post" /\ posts' = Append(posts, post) /\ posts \in Seq(Post)
      /\ UNCHANGED <<flows, current>>
  BY DEF Posted, Awaits, memVars, TypeOK, ServerOK
<1>2. PICK c \in Nat : c = current /\ c \in DOMAIN flows /\ c # 0
  BY <1>1, HeldIsCurrent, CurrentEntry DEF HoldsFlow
<1>3. t.f = c /\ CurrentFlow = flows[c]
  BY <1>1, <1>2, HeldIsCurrent DEF HoldsFlow
<1>4. FlowsAgree(t) /\ PreviewsAgree(t)
  BY SerialNow
<1>5. flows[c].previewed /\ flows[c].preview = t.snap /\ Len(posts) < MaxPosts
  BY <1>1, <1>3, <1>4 DEF PreviewsAgree
<1>6. LivePosts(c) = {}
  BY <1>1, <1>2, <1>4 DEF FlowsAgree, KnownPosts
<1>7. post.flow = c /\ post.live /\ post.room = t.room /\ post.items = t.snap
  BY <1>3 DEF NewPost
<1>8. t.room \in SendRooms
  BY <1>1 DEF TypeOK, TasksOK, TaskOK
<1> HIDE DEF t, post
<1>9. /\ DOMAIN posts = 1 .. Len(posts) /\ Len(posts) \in Nat
      /\ DOMAIN posts' = 1 .. n /\ posts'[n] = post
      /\ \A p \in DOMAIN posts : posts'[p] = posts[p]
  BY <1>1
<1>10. LivePosts(c)' = {n}
  BY <1>6, <1>7, <1>9 DEF LivePosts
<1>11. BoardPosts(c) = {} /\ BoardPosts(c)' = {[id |-> n, room |-> t.room, text |-> t.snap]}
  BY <1>6, <1>7, <1>9, <1>10 DEF BoardPosts
<1>12. t.snap \in BoardShown(c) /\ n \in 1 .. MaxPosts
  BY <1>2, <1>5, <1>9, BoundsAssumption DEF BoardShown
<1>13. BoardShown(c)' = BoardShown(c) /\ \A f : f # c => BoardKept(f)
  <2>1. ASSUME NEW p \in DOMAIN posts \cup DOMAIN posts'
        PROVE  \/ p \in DOMAIN posts /\ p \in DOMAIN posts' /\ posts'[p] = posts[p]
               \/ /\ p \in DOMAIN posts => posts[p].flow = c
                  /\ p \in DOMAIN posts' => posts'[p].flow = c
    <3>1. CASE p \in DOMAIN posts
      BY <1>9, <3>1
    <3>2. CASE p \notin DOMAIN posts
      <4>1. p = n
        BY <1>9, <2>1, <3>2
      <4> QED
        BY <1>7, <1>9, <3>2, <4>1
    <3> QED
      BY <3>1, <3>2
  <2> QED
    BY <1>1, <2>1, OtherPostsKept
<1>14. \E text \in BoardShown(c), room \in SendRooms, id \in 1 .. MaxPosts :
         BoardPosts(c)' = {[id |-> id, room |-> room, text |-> text]}
  <2> HIDE DEF n
  <2> QED
    BY <1>8, <1>11, <1>12
<1> QED
  BY <1>11, <1>13, <1>14, BoardChanges

\* The edit is of the one live post of the flow, or of a post in another room, which
\* stays as it is.
LEMMA BoardPostEdited ==
  ASSUME NEW w, Workers = {w}, TypeOK, SerialInv, PostEdited(w)
  PROVE  [Board!Next]_(Board!vars)
<1> DEFINE t == task[w]
           q == prev.post
<1>1. t.pc = "edit" /\ posts' = Replaced(t) /\ posts \in Seq(Post) /\ UNCHANGED <<flows, current>>
  BY DEF PostEdited, Awaits, memVars, TypeOK, ServerOK
<1>2. PICK c \in Nat : c = current /\ c \in DOMAIN flows /\ c # 0
  BY <1>1, HeldIsCurrent, CurrentEntry DEF HoldsFlow
<1>3. t.f = c /\ CurrentFlow = flows[c]
  BY <1>1, <1>2, HeldIsCurrent DEF HoldsFlow
<1>4. FlowsAgree(t) /\ PreviewsAgree(t)
  BY SerialNow
<1>5. flows[c].previewed /\ flows[c].preview = t.snap
  BY <1>1, <1>3, <1>4 DEF PreviewsAgree
<1>6. LivePosts(c) = {q} /\ t.post = q
  BY <1>1, <1>2, <1>4 DEF FlowsAgree, KnownPosts
<1>7. q \in DOMAIN posts /\ posts[q].flow = c /\ posts[q].live /\ posts[q] \in Post
  BY <1>1, <1>6 DEF LivePosts
<1> HIDE DEF t, q
<1>8. /\ DOMAIN posts' = DOMAIN posts
      /\ \A p \in DOMAIN posts : p # q => posts'[p] = posts[p]
      /\ posts'[q] = posts[q] \/ posts'[q] = [posts[q] EXCEPT !.items = t.snap]
  BY <1>1, <1>6, <1>7 DEF Replaced
<1>9. /\ posts'[q].flow = c /\ posts'[q].live /\ posts'[q].room = posts[q].room
      /\ posts'[q].items = posts[q].items \/ posts'[q].items = t.snap
  BY <1>7, <1>8 DEF Post
<1>10. LivePosts(c)' = {q}
  BY <1>6, <1>8, <1>9 DEF LivePosts
<1> DEFINE was == [id |-> q, room |-> posts[q].room, text |-> posts[q].items]
<1>11. BoardPosts(c) = {was}
  BY <1>6 DEF BoardPosts
<1>12. BoardPosts(c)' = {was} \/ BoardPosts(c)' = {[was EXCEPT !.text = t.snap]}
  <2>1. BoardPosts(c)' = {[id |-> q, room |-> posts'[q].room, text |-> posts'[q].items]}
    BY <1>10 DEF BoardPosts
  <2> QED
    BY <1>9, <2>1
<1>13. t.snap \in BoardShown(c)
  BY <1>2, <1>5 DEF BoardShown
<1>14. BoardShown(c)' = BoardShown(c) /\ \A f : f # c => BoardKept(f)
  BY <1>1, <1>7, <1>8, <1>9, OtherPostsKept
<1> HIDE DEF was
<1>15. \/ BoardPosts(c)' = BoardPosts(c)
       \/ \E text \in BoardShown(c), post \in BoardPosts(c) :
            BoardPosts(c)' = {[post EXCEPT !.text = text]}
  BY <1>11, <1>12, <1>13
<1> QED
  BY <1>14, <1>15, BoardChanges

LEMMA BoardRedacted ==
  ASSUME NEW w, Workers = {w}, TypeOK, SerialInv, Redacted(w)
  PROVE  [Board!Next]_(Board!vars)
<1> DEFINE q == task[w].post
<1>1. task[w].pc = "undoRedact" /\ UNCHANGED <<flows, current>>
  BY DEF Redacted, Awaits, memVars
<1>2. q \in DOMAIN posts /\ posts' = [posts EXCEPT ![q].live = FALSE] /\ posts \in Seq(Post)
  BY DEF Redacted, Redactable, TypeOK, ServerOK
<1>3. FlowsAgree(task[w])
  BY SerialNow
<1>4. CurrentState = "Sent"
  BY <1>1, <1>3 DEF FlowsAgree
<1>5. PICK c \in Nat : c = current /\ c # 0
  BY <1>4, CurrentFlowType, CurrentEntry
<1>6. LivePosts(c) = {q}
  BY <1>1, <1>3, <1>4, <1>5 DEF FlowsAgree, KnownPosts
<1>7. posts[q].flow = c /\ posts[q] \in Post
  BY <1>2, <1>6 DEF LivePosts
<1> HIDE DEF q
<1>8. /\ DOMAIN posts' = DOMAIN posts
      /\ \A p \in DOMAIN posts : p # q => posts'[p] = posts[p]
      /\ posts'[q].flow = c /\ posts'[q].live = FALSE
  BY <1>2, <1>7 DEF Post
<1>9. LivePosts(c)' = {}
  BY <1>6, <1>8 DEF LivePosts
<1>10. BoardPosts(c)' = {}
  BY <1>9 DEF BoardPosts
<1>11. BoardShown(c)' = BoardShown(c) /\ \A f : f # c => BoardKept(f)
  BY <1>1, <1>7, <1>8, OtherPostsKept
<1> QED
  BY <1>10, <1>11, BoardChanges


LEMMA BoardInit ==
  ASSUME Init
  PROVE  Board!Init
<1>1. \A f : BoardShown(f) = {}
  BY DEF Init, BoardShown
<1>2. \A f : BoardPosts(f) = {}
  BY DEF Init, BoardPosts, LivePosts
<1> QED
  BY <1>1, <1>2 DEF Board!Init

LEMMA BoardNext ==
  ASSUME Serial, TypeOK, SerialInv, [Next]_vars
  PROVE  [Board!Next]_(Board!vars)
<1>1. PICK w : Workers = {w}
  BY DEF Serial
<1>2. up
  BY DEF SerialInv
<1>3. ASSUME Input(w)
      PROVE  [Board!Next]_(Board!vars)
  BY <1>1, <1>3, BoardWaiting, BoardNewFlow, BoardItems DEF Input
<1>4. ASSUME Answer(w)
      PROVE  [Board!Next]_(Board!vars)
  BY <1>1, <1>4, BoardWaiting, BoardNewFlow, BoardAsked, BoardWrites, BoardPreview,
     BoardPreviousPostRead, BoardPosted, BoardPostEdited, BoardRedacted DEF Answer
<1>5. ASSUME Notify(w)
      PROVE  [Board!Next]_(Board!vars)
  BY <1>5, BoardWaiting
<1>6. ASSUME NEW r \in SendRooms, SetMembership(r)
      PROVE  [Board!Next]_(Board!vars)
  BY <1>6, BoardUnmoved DEF SetMembership, memVars, serverVars
<1>7. CASE UNCHANGED vars
  BY <1>7, BoardUnmoved DEF vars
<1> QED
  BY <1>1, <1>2, <1>3, <1>4, <1>5, <1>6, <1>7, NothingFails DEF Next

\* One event at a time and with every call answered, the handlers of create_post.go and
\* command_handler.go implement PostBoard: a flow has at most one live post
\* (create_post.go:255, command_handler.go:628), what goes out or replaces it is the
\* preview that the user was shown, an edit stays in the post's room, and undo takes
\* away the flow's own post.
THEOREM SerialImplementsPostBoard == Serial => (Spec => ImplementsPostBoard)
<1> SUFFICES ASSUME Serial
             PROVE  Spec => ImplementsPostBoard
  OBVIOUS
<1>1. Init => Board!Init
  BY BoardInit
<1>2. TypeOK /\ SerialInv /\ [Next]_vars => [Board!Next]_(Board!vars)
  BY BoardNext
<1> QED
  BY <1>1, <1>2, TypeCorrect, SerialInductive, PTL DEF Spec, ImplementsPostBoard, Board!Spec

=============================================================================
