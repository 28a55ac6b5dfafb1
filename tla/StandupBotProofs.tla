--------------------------- MODULE StandupBotProofs ---------------------------
(***************************************************************************)
(* Theorems about StandupBot, for any number of goroutines, rooms, flows,  *)
(* posts, failures and restarts.                                           *)
(***************************************************************************)
EXTENDS StandupBot, SequenceTheorems, TLAPS

-----------------------------------------------------------------------------
(* The heap of flows. *)

LEMMA BlankFlowType == BlankStandupFlow \in StandupFlow
BY DEF BlankStandupFlow, StandupFlow, StandupFlowState

LEMMA IdleType == Idle \in Task
BY DEF Idle, Task, PC, Arg

\* Writing to a record of the heap.
LEMMA FlowWritten ==
  ASSUME NEW heap \in Seq(StandupFlow), NEW f \in DOMAIN heap, NEW r \in StandupFlow
  PROVE  /\ [heap EXCEPT ![f] = r] \in Seq(StandupFlow)
         /\ DOMAIN [heap EXCEPT ![f] = r] = DOMAIN heap
BY ExceptSeq

\* Allocating one.
LEMMA FlowAllocated ==
  ASSUME NEW heap \in Seq(StandupFlow), NEW r \in StandupFlow
  PROVE  /\ Append(heap, r) \in Seq(StandupFlow)
         /\ DOMAIN heap \subseteq DOMAIN Append(heap, r)
         /\ Len(heap) + 1 \in DOMAIN Append(heap, r)
         /\ Append(heap, r)[Len(heap) + 1] = r
         /\ \A f \in DOMAIN heap : Append(heap, r)[f] = heap[f]
BY AppendProperties

\* The heap without its garbage.
LEMMA KeptType ==
  ASSUME flows \in Seq(StandupFlow), NEW w
  PROVE  /\ Kept(w) \in Seq(StandupFlow)
         /\ DOMAIN Kept(w) = DOMAIN flows
         /\ Len(Kept(w)) = Len(flows)
<1>1. DOMAIN flows = 1 .. Len(flows) /\ Len(flows) \in Nat
  OBVIOUS
<1>2. \A f \in 1 .. Len(flows) : Kept(w)[f] \in StandupFlow
  BY <1>1, BlankFlowType DEF Kept
<1>3. Kept(w) = [f \in 1 .. Len(flows) |-> Kept(w)[f]]
  BY <1>1 DEF Kept
<1>4. Kept(w) \in [1 .. Len(flows) -> StandupFlow]
  BY <1>2, <1>3
<1> QED
  BY <1>1, <1>4

LEMMA StartBlankFlowType ==
  ASSUME flows \in Seq(StandupFlow), NEW w, StartBlankFlow(w)
  PROVE  /\ MemoryOK'
         /\ DOMAIN flows \subseteq DOMAIN flows'
         /\ current' # 0
<1>1. flows' = Append(Kept(w), BlankStandupFlow) /\ current' = Len(flows) + 1
  BY DEF StartBlankFlow
<1>2. Kept(w) \in Seq(StandupFlow) /\ DOMAIN Kept(w) = DOMAIN flows /\ Len(Kept(w)) = Len(flows)
  BY KeptType
<1>3. Len(flows) \in Nat
  OBVIOUS
<1> QED
  BY <1>1, <1>2, <1>3, FlowAllocated, BlankFlowType DEF MemoryOK

-----------------------------------------------------------------------------
(* The goroutines. *)

\* One goroutine moves on; the others hold what they held.
LEMMA TaskStep ==
  ASSUME TasksOK, NEW w \in Workers, NEW t \in Task, Call(w, t),
         up' = TRUE,
         DOMAIN flows \subseteq DOMAIN flows', current # 0 => current' # 0,
         TaskOK(t, flows', current')
  PROVE  TasksOK'
<1>1. task' \in [Workers -> Task]
  BY DEF TasksOK, Call
<1>2. ASSUME NEW v \in Workers
      PROVE  TaskOK(task'[v], flows', current')
  <2>1. CASE v = w
    BY <2>1 DEF TasksOK, Call
  <2>2. CASE v # w
    <3>1. task'[v] = task[v] /\ TaskOK(task[v], flows, current)
      BY <2>2 DEF TasksOK, Call
    <3> QED
      BY <3>1 DEF TaskOK
  <2> QED
    BY <2>1, <2>2
<1> QED
  BY <1>1, <1>2 DEF TasksOK

\* No goroutine moves.
LEMMA TasksKept ==
  ASSUME TasksOK, UNCHANGED task, up' = up \/ up' = TRUE,
         DOMAIN flows \subseteq DOMAIN flows', current # 0 => current' # 0
  PROVE  TasksOK'
BY DEF TasksOK, TaskOK

LEMMA ReturnStep ==
  ASSUME TasksOK, NEW w \in Workers, Return(w), up' = TRUE,
         DOMAIN flows \subseteq DOMAIN flows', current # 0 => current' # 0
  PROVE  TasksOK'
<1>1. TaskOK(Idle, flows', current')
  BY DEF TaskOK, Idle, NeedsEntry, HoldsFlow
<1> QED
  BY <1>1, IdleType, TaskStep DEF Return

-----------------------------------------------------------------------------
(* The calls a goroutine can be left waiting on. *)

LEMMA AskingType ==
  ASSUME NEW s \in Section \cup {"Threads"}, NEW heap, NEW entry
  PROVE  Asking(s) \in Task /\ TaskOK(Asking(s), heap, entry)
BY DEF Asking, Idle, Task, PC, Arg, StandupFlowState, Section, TaskOK, NeedsEntry, HoldsFlow

LEMMA SendingRootType ==
  ASSUME NEW s \in Section, NEW heap, NEW entry, entry # 0
  PROVE  SendingRoot(s) \in Task /\ TaskOK(SendingRoot(s), heap, entry)
BY DEF SendingRoot, Idle, Task, PC, Arg, StandupFlowState, Section, TaskOK, NeedsEntry, HoldsFlow

LEMMA ShowingPreviewType ==
  ASSUME NEW heap, NEW entry, entry # 0,
         NEW f \in Nat, f \in DOMAIN heap, NEW items \in SUBSET StandupItem,
         NEW then \in {"none", "Sent", "Confirm"}
  PROVE  /\ ShowingPreview(f, items, then) \in Task
         /\ TaskOK(ShowingPreview(f, items, then), heap, entry)
BY DEF ShowingPreview, Idle, Task, PC, Arg, StandupFlowState, Section, TaskOK, NeedsEntry, HoldsFlow

LEMMA EditingPreviewType ==
  ASSUME NEW heap, NEW entry, entry # 0,
         NEW f \in Nat, f \in DOMAIN heap, NEW items \in SUBSET StandupItem,
         NEW caller \in {"none", "reply"}
  PROVE  /\ EditingPreview(f, items, caller) \in Task
         /\ TaskOK(EditingPreview(f, items, caller), heap, entry)
BY DEF EditingPreview, Idle, Task, PC, Arg, TaskOK, NeedsEntry, HoldsFlow

\* What a goroutine that holds a flow holds.
LEMMA HeldFlow ==
  ASSUME TypeOK, NEW w \in Workers, task[w].pc \in HoldsFlow
  PROVE  /\ task[w] \in Task
         /\ task[w].f \in DOMAIN flows
         /\ task[w].f \in Nat
         /\ flows[task[w].f] \in StandupFlow
<1>1. task[w] \in Task /\ task[w].f \in DOMAIN flows
  BY DEF TypeOK, TasksOK, TaskOK
<1> QED
  BY <1>1 DEF TypeOK, MemoryOK, Task

LEMMA CurrentEntry ==
  ASSUME TypeOK, current # 0
  PROVE  /\ current \in DOMAIN flows
         /\ current \in Nat
         /\ flows[current] \in StandupFlow
BY DEF TypeOK, MemoryOK

LEMMA CurrentFlowType ==
  ASSUME TypeOK
  PROVE  CurrentFlow \in StandupFlow /\ (CurrentState # "FlowNotStarted" => current # 0)
BY CurrentEntry, BlankFlowType DEF CurrentFlow, CurrentState, BlankStandupFlow

\* A goroutine is free or waiting only while the process is up.
LEMMA RunningTask ==
  ASSUME TypeOK, NEW w \in Workers, task[w].pc # "idle"
  PROVE  up = TRUE
BY DEF TypeOK, TasksOK, ProcessOK, Idle

\* A step that writes one record and leaves the map entry alone.
LEMMA MemoryWritten ==
  ASSUME TypeOK, NEW f \in DOMAIN flows, NEW r \in StandupFlow,
         flows' = [flows EXCEPT ![f] = r], UNCHANGED current
  PROVE  MemoryOK' /\ DOMAIN flows' = DOMAIN flows
BY FlowWritten DEF TypeOK, MemoryOK

-----------------------------------------------------------------------------
(* One lemma per action: it preserves the type invariant. *)

(* create_post.go *)

LEMMA TypeAsked ==
  ASSUME TypeOK, NEW w \in Workers, Asked(w)
  PROVE  TypeOK'
<1> DEFINE s    == task[w].arg
           heap == IF current = 0 THEN Append(flows, BlankStandupFlow) ELSE flows
           f    == IF current = 0 THEN Len(heap) ELSE current
           r    == AddReactable([heap[f] EXCEPT !.state = s], PromptOf(s))
<1>1. up /\ task[w] \in Task /\ s \in Section \cup {"Threads"}
  BY DEF Asked, Awaits, TypeOK, TasksOK, TaskOK
<1>2. heap \in Seq(StandupFlow) /\ DOMAIN flows \subseteq DOMAIN heap /\ f \in DOMAIN heap
  <2>1. CASE current = 0
    BY <2>1, FlowAllocated, BlankFlowType DEF TypeOK, MemoryOK
  <2>2. CASE current # 0
    BY <2>2 DEF TypeOK, MemoryOK
  <2> QED
    BY <2>1, <2>2
<1>3. heap[f] \in StandupFlow /\ f # 0
  BY <1>2
<1>4. r \in StandupFlow
  <2>1. [heap[f] EXCEPT !.state = s] \in StandupFlow
    BY <1>1, <1>3 DEF StandupFlow, StandupFlowState
  <2> QED
    BY <2>1 DEF StandupFlow, AddReactable, PromptOf, Prompt
<1>5. current' = f /\ flows' = [heap EXCEPT ![f] = r]
  BY DEF Asked
<1> HIDE DEF heap, f, r
<1>6. flows' \in Seq(StandupFlow) /\ DOMAIN flows' = DOMAIN heap
  BY <1>2, <1>4, <1>5, FlowWritten
<1>7. MemoryOK'
  BY <1>2, <1>5, <1>6 DEF MemoryOK
<1>8. TasksOK'
  <2>1. CASE s = "Threads"
    <3>1. Call(w, SendingRoot("Done"))
      BY <2>1 DEF Asked
    <3>2. SendingRoot("Done") \in Task /\ TaskOK(SendingRoot("Done"), flows', current')
      BY <1>3, <1>5, SendingRootType DEF Section
    <3> QED
      BY <1>1, <1>2, <1>3, <1>5, <1>6, <3>1, <3>2, TaskStep DEF Asked, procVars, TypeOK, ProcessOK
  <2>2. CASE s # "Threads"
    BY <1>1, <1>2, <1>3, <1>5, <1>6, <2>2, ReturnStep DEF Asked, procVars, TypeOK, ProcessOK
  <2> QED
    BY <2>1, <2>2
<1>9. SettingsOK' /\ ServerOK' /\ ProcessOK'
  BY <1>2, <1>6 DEF Asked, settingVars, serverVars, procVars, TypeOK, SettingsOK, ServerOK, ProcessOK
<1> QED
  BY <1>7, <1>8, <1>9 DEF TypeOK

LEMMA TypeRootSent ==
  ASSUME TypeOK, NEW w \in Workers, RootSent(w)
  PROVE  TypeOK'
<1> DEFINE s == task[w].arg
           r == [flows[current] EXCEPT !.roots = @ \cup {s}]
<1>1. up /\ task[w] \in Task /\ s \in Section /\ current # 0
  BY DEF RootSent, Awaits, TypeOK, TasksOK, TaskOK, NeedsEntry
<1>2. current \in DOMAIN flows /\ current \in Nat /\ flows[current] \in StandupFlow
  BY <1>1, CurrentEntry
<1>3. r \in StandupFlow
  BY <1>1, <1>2 DEF StandupFlow
<1>4. flows' = [flows EXCEPT ![current] = r]
  BY DEF RootSent
<1>5. flows' \in Seq(StandupFlow) /\ DOMAIN flows' = DOMAIN flows
  BY <1>2, <1>3, <1>4, FlowWritten DEF TypeOK, MemoryOK
<1>6. MemoryOK'
  BY <1>5 DEF RootSent, TypeOK, MemoryOK
<1>7. TasksOK'
  <2>1. CASE s = "Notes"
    <3> DEFINE t == ShowingPreview(current, flows[current].items, "none")
    <3>1. Call(w, t)
      BY <2>1 DEF RootSent
    <3>2. t \in Task /\ TaskOK(t, flows', current')
      BY <1>1, <1>2, <1>5, ShowingPreviewType DEF RootSent, StandupFlow
    <3> QED
      BY <1>1, <1>5, <3>1, <3>2, TaskStep DEF RootSent, procVars, TypeOK, ProcessOK
  <2>2. CASE s # "Notes"
    <3>1. Call(w, SendingRoot(Following[s])) /\ Following[s] \in Section
      BY <1>1, <2>2 DEF RootSent, Section, Following
    <3>2. /\ SendingRoot(Following[s]) \in Task
          /\ TaskOK(SendingRoot(Following[s]), flows', current')
      BY <1>1, <3>1, SendingRootType DEF RootSent
    <3> QED
      BY <1>1, <1>5, <3>1, <3>2, TaskStep DEF RootSent, procVars, TypeOK, ProcessOK
  <2> QED
    BY <2>1, <2>2
<1>8. SettingsOK' /\ ServerOK' /\ ProcessOK'
  BY <1>5 DEF RootSent, settingVars, serverVars, procVars, TypeOK, SettingsOK, ServerOK, ProcessOK
<1> QED
  BY <1>6, <1>7, <1>8 DEF TypeOK

LEMMA TypePreviewShown ==
  ASSUME TypeOK, NEW w \in Workers, PreviewShown(w)
  PROVE  TypeOK'
<1> DEFINE t    == task[w]
           r    == Previewed(flows[t.f], t)
           heap == [flows EXCEPT ![t.f] = r]
<1>1. up /\ t.pc = "preview"
  BY DEF PreviewShown, Awaits
<1>2. t \in Task /\ t.f \in DOMAIN flows /\ flows[t.f] \in StandupFlow
  BY <1>1, HeldFlow DEF HoldsFlow
<1>3. t.arg \in {"none", "Sent", "Confirm"} /\ current # 0
  BY <1>1 DEF TypeOK, TasksOK, TaskOK, NeedsEntry
<1>4. r \in StandupFlow
  BY <1>2, <1>3 DEF Previewed, StandupFlow, StandupFlowState, Task
<1>5. heap \in Seq(StandupFlow) /\ DOMAIN heap = DOMAIN flows
  BY <1>2, <1>4, FlowWritten DEF TypeOK, MemoryOK
<1>6. current \in DOMAIN heap /\ heap[current] \in StandupFlow
  BY <1>3, <1>5 DEF TypeOK, MemoryOK
<1>7. AddReactable(heap[current], "preview") \in StandupFlow
  BY <1>6 DEF AddReactable, StandupFlow, Prompt
<1>8. flows' = [heap EXCEPT ![current] = AddReactable(heap[current], "preview")]
  BY DEF PreviewShown
<1> HIDE DEF heap
<1>9. flows' \in Seq(StandupFlow) /\ DOMAIN flows' = DOMAIN flows
  BY <1>5, <1>6, <1>7, <1>8, FlowWritten
<1>10. MemoryOK'
  BY <1>9 DEF PreviewShown, TypeOK, MemoryOK
<1>11. TasksOK'
  BY <1>1, <1>9, ReturnStep DEF PreviewShown, procVars, TypeOK, ProcessOK
<1>12. SettingsOK' /\ ServerOK' /\ ProcessOK'
  BY <1>9 DEF PreviewShown, settingVars, serverVars, procVars, TypeOK, SettingsOK, ServerOK, ProcessOK
<1> QED
  BY <1>10, <1>11, <1>12 DEF TypeOK

LEMMA TypePosted ==
  ASSUME TypeOK, NEW w \in Workers, Posted(w) \/ PostedTwice(w) \/ PostAnswerLost(w)
  PROVE  TypeOK'
<1> DEFINE t == task[w]
           told(p) == [Idle EXCEPT !.pc = "tellSent", !.f = t.f, !.post = p]
<1>1. up = TRUE /\ up' = TRUE /\ t.pc = "post"
  BY DEF Posted, PostedTwice, PostAnswerLost, Awaits, procVars, TypeOK, ProcessOK
<1>2. t \in Task /\ t.f \in DOMAIN flows /\ t.f \in Nat
  BY <1>1, HeldFlow DEF HoldsFlow
<1>3. NewPost(t) \in Post
  BY <1>1, <1>2 DEF NewPost, Post, Task, TypeOK, TasksOK, TaskOK
<1>4. UNCHANGED <<flows, current>>
  BY DEF Posted, PostedTwice, PostAnswerLost, memVars
<1>5. posts' \in Seq(Post) /\ Len(posts) \in Nat
  <2>1. posts \in Seq(Post)
    BY DEF TypeOK, ServerOK
  <2>2. <<NewPost(t), NewPost(t)>> \in Seq(Post)
    BY <1>3
  <2>3. posts' = Append(posts, NewPost(t)) \/ posts' = posts \o <<NewPost(t), NewPost(t)>>
    BY DEF Posted, PostedTwice, PostAnswerLost
  <2>4. CASE posts' = Append(posts, NewPost(t))
    BY <1>3, <2>1, <2>4, AppendProperties
  <2>5. CASE posts' = posts \o <<NewPost(t), NewPost(t)>>
    BY <2>1, <2>2, <2>5
  <2> QED
    BY <2>1, <2>3, <2>4, <2>5
<1>6. MemoryOK'
  BY <1>4 DEF TypeOK, MemoryOK
<1>7. TasksOK'
  <2>1. CASE Return(w)
    BY <1>1, <1>4, <2>1, ReturnStep DEF TypeOK
  <2>2. ASSUME NEW p \in Nat, Call(w, told(p))
        PROVE  TasksOK'
    <3>1. told(p) \in Task
      BY <1>2 DEF Idle, Task, PC, Arg
    <3>2. TaskOK(told(p), flows', current')
      BY <1>2, <1>4 DEF TaskOK, Idle, NeedsEntry, HoldsFlow
    <3> QED
      BY <1>1, <1>4, <2>2, <3>1, <3>2, TaskStep DEF TypeOK
  <2>3. Call(w, told(Len(posts) + 1)) \/ Call(w, told(Len(posts) + 2)) \/ Return(w)
    BY DEF Posted, PostedTwice, PostAnswerLost
  <2>4. Len(posts) + 1 \in Nat /\ Len(posts) + 2 \in Nat
    BY <1>5
  <2> HIDE DEF told
  <2> QED
    BY <2>1, <2>2, <2>3, <2>4
<1>8. SettingsOK' /\ ServerOK' /\ ProcessOK'
  BY <1>4, <1>5 DEF Posted, PostedTwice, PostAnswerLost, Fault, settingVars, procVars,
                    TypeOK, SettingsOK, ServerOK, ProcessOK
<1> QED
  BY <1>6, <1>7, <1>8 DEF TypeOK

LEMMA TypePostEdited ==
  ASSUME TypeOK, NEW w \in Workers, PostEdited(w)
  PROVE  TypeOK'
<1> DEFINE t == task[w]
           told == [Idle EXCEPT !.pc = "tellSent", !.f = t.f, !.post = t.post]
<1>1. up = TRUE /\ up' = TRUE /\ t.pc = "edit"
  BY DEF PostEdited, Awaits, procVars, TypeOK, ProcessOK
<1>2. t \in Task /\ t.f \in DOMAIN flows
  BY <1>1, HeldFlow DEF HoldsFlow
<1>3. UNCHANGED <<flows, current>>
  BY DEF PostEdited, memVars
<1>4. posts' \in Seq(Post)
  <2>1. posts \in Seq(Post) /\ DOMAIN posts = 1 .. Len(posts) /\ Len(posts) \in Nat
    BY DEF TypeOK, ServerOK
  <2>2. posts' = Replaced(t)
    BY DEF PostEdited
  <2>3. ASSUME NEW p \in DOMAIN posts
        PROVE  Replaced(t)[p] \in Post
    <3>1. posts[p] \in Post /\ t.snap \in SUBSET StandupItem
      BY <1>2, <2>1 DEF Task
    <3>2. [posts[p] EXCEPT !.items = t.snap] \in Post
      BY <3>1 DEF Post
    <3> HIDE DEF t
    <3> QED
      BY <3>1, <3>2 DEF Replaced
  <2>4. Replaced(t) = [p \in 1 .. Len(posts) |-> Replaced(t)[p]]
    BY <2>1 DEF Replaced
  <2>5. Replaced(t) \in [1 .. Len(posts) -> Post]
    BY <2>1, <2>3, <2>4
  <2> QED
    BY <2>1, <2>2, <2>5
<1>5. TasksOK'
  <2>1. told \in Task
    BY <1>2 DEF Idle, Task, PC, Arg
  <2>2. TaskOK(told, flows', current')
    BY <1>2, <1>3 DEF TaskOK, Idle, NeedsEntry, HoldsFlow
  <2>3. Call(w, told) \/ Return(w)
    BY DEF PostEdited
  <2> HIDE DEF told
  <2> QED
    BY <1>1, <1>3, <2>1, <2>2, <2>3, TaskStep, ReturnStep DEF TypeOK
<1>6. MemoryOK' /\ SettingsOK' /\ ServerOK' /\ ProcessOK'
  BY <1>3, <1>4 DEF PostEdited, Fault, settingVars, procVars,
                    TypeOK, MemoryOK, SettingsOK, ServerOK, ProcessOK
<1> QED
  BY <1>5, <1>6 DEF TypeOK

LEMMA TypeMarkSent ==
  ASSUME TypeOK, NEW w \in Workers, MarkSent(w)
  PROVE  TypeOK'
<1> DEFINE t == task[w]
           r == [flows[t.f] EXCEPT !.state = "Sent", !.resend = FALSE]
           writing == [t EXCEPT !.pc = "writePrev"]
<1>1. up /\ t.pc = "tellSent"
  BY DEF MarkSent, Awaits
<1>2. t \in Task /\ t.f \in DOMAIN flows /\ flows[t.f] \in StandupFlow
  BY <1>1, HeldFlow DEF HoldsFlow
<1>3. r \in StandupFlow
  BY <1>2 DEF StandupFlow, StandupFlowState
<1>4. flows' = [flows EXCEPT ![t.f] = r]
  BY <1>2 DEF MarkSent, TypeOK, MemoryOK
<1>5. MemoryOK' /\ DOMAIN flows' = DOMAIN flows
  BY <1>2, <1>3, <1>4, MemoryWritten DEF MarkSent
<1>6. TasksOK'
  <2>1. writing \in Task
    BY <1>2 DEF Task, PC
  <2>2. TaskOK(writing, flows', current')
    BY <1>2, <1>5 DEF Task, TaskOK, NeedsEntry, HoldsFlow
  <2>3. Call(w, writing)
    BY DEF MarkSent
  <2> HIDE DEF writing
  <2> QED
    BY <1>1, <1>5, <2>1, <2>2, <2>3, TaskStep DEF MarkSent, procVars, TypeOK, ProcessOK
<1>7. SettingsOK' /\ ServerOK' /\ ProcessOK'
  BY <1>5 DEF MarkSent, settingVars, serverVars, procVars, TypeOK, SettingsOK, ServerOK, ProcessOK
<1> QED
  BY <1>5, <1>6, <1>7 DEF TypeOK

LEMMA TypePreviousPostStored ==
  ASSUME TypeOK, NEW w \in Workers, PreviousPostStored(w)
  PROVE  TypeOK'
<1> DEFINE t == task[w]
<1>1. up = TRUE /\ up' = TRUE /\ t.pc = "writePrev"
  BY DEF PreviousPostStored, Awaits, procVars, TypeOK, ProcessOK
<1>2. t \in Task /\ t.f \in Nat
  BY <1>1, HeldFlow DEF HoldsFlow
<1>3. prev' \in PreviousPost
  BY <1>2 DEF PreviousPostStored, PreviousPost, Task
<1>4. UNCHANGED <<flows, current>>
  BY DEF PreviousPostStored, memVars
<1>5. TasksOK'
  BY <1>1, <1>4, ReturnStep DEF PreviousPostStored, TypeOK
<1>6. MemoryOK' /\ SettingsOK' /\ ServerOK' /\ ProcessOK'
  BY <1>3, <1>4 DEF PreviousPostStored, settingVars, procVars,
                    TypeOK, MemoryOK, SettingsOK, ServerOK, ProcessOK
<1> QED
  BY <1>5, <1>6 DEF TypeOK

LEMMA TypeHandleReaction ==
  ASSUME TypeOK, NEW w \in Workers, NEW key \in {"check", "cross"}, HandleReaction(w, key)
  PROVE  TypeOK'
<1> DEFINE matched == [Idle EXCEPT !.pc = "matched", !.f = current, !.arg = key]
<1>1. up = TRUE /\ up' = TRUE
  BY DEF HandleReaction, Free, procVars, TypeOK, ProcessOK
<1>2. current \in DOMAIN flows /\ current \in Nat /\ current # 0
  BY CurrentFlowType, CurrentEntry DEF HandleReaction
<1>3. UNCHANGED <<flows, current>>
  BY DEF HandleReaction, memVars
<1>4. matched \in Task
  BY <1>2 DEF Idle, Task, PC, Arg
<1>5. TaskOK(matched, flows', current')
  BY <1>2, <1>3 DEF TaskOK, Idle, NeedsEntry, HoldsFlow
<1>6. Call(w, matched)
  BY DEF HandleReaction
<1> HIDE DEF matched
<1>7. TasksOK'
  BY <1>1, <1>3, <1>4, <1>5, <1>6, TaskStep DEF TypeOK
<1>8. MemoryOK' /\ SettingsOK' /\ ServerOK' /\ ProcessOK'
  BY <1>3 DEF HandleReaction, settingVars, serverVars, procVars,
              TypeOK, MemoryOK, SettingsOK, ServerOK, ProcessOK
<1> QED
  BY <1>7, <1>8 DEF TypeOK

LEMMA TypeReactCross ==
  ASSUME TypeOK, NEW w \in Workers, ReactCross(w)
  PROVE  TypeOK'
<1>1. up = TRUE /\ up' = TRUE
  BY DEF ReactCross, Awaits, procVars, TypeOK, ProcessOK
<1>2. MemoryOK' /\ DOMAIN flows \subseteq DOMAIN flows' /\ (current # 0 => current' # 0)
  <2>1. CASE StartBlankFlow(w)
    BY <2>1, StartBlankFlowType DEF TypeOK, MemoryOK
  <2>2. CASE UNCHANGED memVars
    BY <2>2 DEF memVars, TypeOK, MemoryOK
  <2> QED
    BY <2>1, <2>2 DEF ReactCross
<1>3. TasksOK'
  BY <1>1, <1>2, ReturnStep DEF ReactCross, TypeOK
<1>4. SettingsOK' /\ ServerOK' /\ ProcessOK'
  BY <1>2 DEF ReactCross, settingVars, serverVars, procVars, TypeOK, SettingsOK, ServerOK, ProcessOK
<1> QED
  BY <1>2, <1>3, <1>4 DEF TypeOK

LEMMA TypeReactCheck ==
  ASSUME TypeOK, NEW w \in Workers, ReactCheck(w)
  PROVE  TypeOK'
<1> DEFINE t == task[w]
           r == [flows[t.f] EXCEPT !.reactable = {}]
           reading == [Idle EXCEPT !.pc = "readPrev", !.f = t.f]
<1>1. up = TRUE /\ up' = TRUE /\ t.pc = "matched" /\ UNCHANGED current /\ current # 0
  BY DEF ReactCheck, TasksOK, TaskOK, NeedsEntry, Awaits, procVars, TypeOK, ProcessOK
<1>2. t.f \in DOMAIN flows /\ t.f \in Nat /\ flows[t.f] \in StandupFlow
  BY <1>1, HeldFlow DEF HoldsFlow
<1>3. r \in StandupFlow
  BY <1>2 DEF StandupFlow
<1>4. flows' = [flows EXCEPT ![t.f] = r]
  BY DEF ReactCheck
<1>5. MemoryOK' /\ DOMAIN flows' = DOMAIN flows
  BY <1>2, <1>3, <1>4, MemoryWritten DEF ReactCheck
<1>6. TasksOK'
  <2>1. reading \in Task
    BY <1>2 DEF Idle, Task, PC, Arg
  <2>2. TaskOK(reading, flows', current')
    BY <1>1, <1>2, <1>5 DEF TaskOK, Idle, NeedsEntry, HoldsFlow
  <2>3. Call(w, reading)
    BY DEF ReactCheck
  <2> HIDE DEF reading
  <2> QED
    BY <1>1, <1>5, <2>1, <2>2, <2>3, TaskStep DEF ReactCheck, TypeOK
<1>7. SettingsOK' /\ ServerOK' /\ ProcessOK'
  BY <1>5 DEF ReactCheck, settingVars, serverVars, procVars, TypeOK, SettingsOK, ServerOK, ProcessOK
<1> QED
  BY <1>5, <1>6, <1>7 DEF TypeOK

\* SendMessageToSendRoom leaves a well-typed call or none.
LEMMA SendRoomCallType ==
  ASSUME TypeOK, NEW w \in Workers, NEW f \in DOMAIN flows, f \in Nat,
         NEW how \in {"post", "edit"}, NEW target \in Nat,
         SendMessageToSendRoom(w, f, how, target),
         up' = TRUE, DOMAIN flows' = DOMAIN flows, UNCHANGED current
  PROVE  TasksOK'
<1> DEFINE t == [Idle EXCEPT !.pc = how, !.f = f, !.room = sendRoom,
                             !.post = target, !.snap = flows[f].items]
<1>1. CASE MayPost
  <2>1. Call(w, t)
    BY <1>1 DEF SendMessageToSendRoom
  <2>2. flows[f].items \in SUBSET StandupItem /\ sendRoom \in SendRooms
    <3>1. flows[f] \in StandupFlow
      BY DEF TypeOK, MemoryOK
    <3>2. sendRoom \in SendRooms
      BY <1>1 DEF MayPost, TypeOK, SettingsOK
    <3> QED
      BY <3>1, <3>2 DEF StandupFlow
  <2>3. t \in Task
    BY <2>2 DEF Idle, Task, PC, Arg
  <2>4. TaskOK(t, flows', current')
    BY <2>2 DEF Idle, TaskOK, NeedsEntry, HoldsFlow
  <2> HIDE DEF t
  <2> QED
    BY <2>1, <2>3, <2>4, TaskStep DEF TypeOK
<1>2. CASE ~MayPost
  BY <1>2, ReturnStep DEF SendMessageToSendRoom, TypeOK
<1> QED
  BY <1>1, <1>2

\* Whatever was read, a check mark leaves well-typed flows and goroutines.
LEMMA ConfirmedType ==
  ASSUME TypeOK, NEW w \in Workers, NEW failed \in BOOLEAN,
         task[w].pc = "readPrev", Confirmed(w, task[w].f, failed),
         up' = TRUE, UNCHANGED current
  PROVE  MemoryOK' /\ TasksOK' /\ DOMAIN flows' = DOMAIN flows
<1> DEFINE f == task[w].f
           flow == flows[f]
<1>1. f \in DOMAIN flows /\ f \in Nat /\ flow \in StandupFlow
  BY HeldFlow DEF HoldsFlow
<1>2. flow.items \in SUBSET StandupItem /\ current # 0 /\ prev.post \in Nat
  BY <1>1 DEF StandupFlow, TypeOK, TasksOK, TaskOK, NeedsEntry, ServerOK, PreviousPost
<1>3. ASSUME UNCHANGED flows
      PROVE  MemoryOK' /\ DOMAIN flows' = DOMAIN flows
  BY <1>3 DEF TypeOK, MemoryOK
<1>4. CASE UNCHANGED flows /\ Call(w, ShowingPreview(f, flow.items, "Sent"))
  <2>1. /\ ShowingPreview(f, flow.items, "Sent") \in Task
        /\ TaskOK(ShowingPreview(f, flow.items, "Sent"), flows', current')
    BY <1>1, <1>2, <1>4, ShowingPreviewType
  <2> QED
    BY <1>3, <1>4, <2>1, TaskStep DEF TypeOK
<1>5. CASE /\ flows' = [flows EXCEPT ![f].state = "Notes"]
           /\ Call(w, ShowingPreview(f, flow.items, "Confirm"))
  <2>1. [flow EXCEPT !.state = "Notes"] \in StandupFlow
    BY <1>1 DEF StandupFlow, StandupFlowState, Section
  <2>2. MemoryOK' /\ DOMAIN flows' = DOMAIN flows
    BY <1>1, <1>5, <2>1, MemoryWritten
  <2>3. /\ ShowingPreview(f, flow.items, "Confirm") \in Task
        /\ TaskOK(ShowingPreview(f, flow.items, "Confirm"), flows', current')
    BY <1>1, <1>2, <2>2, ShowingPreviewType
  <2> QED
    BY <1>5, <2>2, <2>3, TaskStep DEF TypeOK
<1>6. CASE /\ UNCHANGED flows
           /\ flow.state \in DOMAIN Following
           /\ Call(w, Asking(Following[flow.state]))
  <2>1. Following[flow.state] \in Section
    BY <1>6 DEF Following, Section
  <2>2. /\ Asking(Following[flow.state]) \in Task
        /\ TaskOK(Asking(Following[flow.state]), flows', current')
    BY <2>1, AskingType
  <2> QED
    BY <1>3, <1>6, <2>2, TaskStep DEF TypeOK
<1>7. CASE UNCHANGED flows /\ SendMessageToSendRoom(w, f, "post", 0)
  BY <1>1, <1>3, <1>7, SendRoomCallType
<1>8. CASE UNCHANGED flows /\ SendMessageToSendRoom(w, f, "edit", prev.post)
  BY <1>1, <1>2, <1>3, <1>8, SendRoomCallType
<1>9. CASE UNCHANGED flows /\ Return(w)
  BY <1>3, <1>9, ReturnStep DEF TypeOK
<1> QED
  BY <1>4, <1>5, <1>6, <1>7, <1>8, <1>9 DEF Confirmed

LEMMA TypePreviousPostRead ==
  ASSUME TypeOK, NEW w \in Workers, PreviousPostRead(w)
  PROVE  TypeOK'
<1>1. up' = TRUE /\ UNCHANGED current /\ task[w].pc = "readPrev"
  BY DEF PreviousPostRead, Awaits, procVars, TypeOK, ProcessOK
<1>2. PICK failed \in BOOLEAN : StateEventRead(failed) /\ Confirmed(w, task[w].f, failed)
  BY DEF PreviousPostRead
<1>3. MemoryOK' /\ TasksOK' /\ DOMAIN flows' = DOMAIN flows
  BY <1>1, <1>2, ConfirmedType
<1>4. faults' \in Nat
  BY <1>2 DEF StateEventRead, Fault, TypeOK, ProcessOK
<1>5. SettingsOK' /\ ServerOK' /\ ProcessOK'
  BY <1>3, <1>4 DEF PreviousPostRead, settingVars, serverVars, procVars,
                    TypeOK, SettingsOK, ServerOK, ProcessOK
<1> QED
  BY <1>3, <1>5 DEF TypeOK

\* The process ends.
LEMMA DieType ==
  ASSUME TypeOK, Die
  PROVE  MemoryOK' /\ TasksOK' /\ up' \in BOOLEAN /\ DOMAIN flows' = DOMAIN flows
<1>1. flows' = [f \in DOMAIN flows |-> BlankStandupFlow] /\ current' = 0
  BY DEF Die
<1>2. DOMAIN flows = 1 .. Len(flows) /\ Len(flows) \in Nat
  BY DEF TypeOK, MemoryOK
<1>3. flows' \in [1 .. Len(flows) -> StandupFlow]
  BY <1>1, <1>2, BlankFlowType
<1>4. MemoryOK' /\ DOMAIN flows' = DOMAIN flows
  BY <1>1, <1>2, <1>3 DEF MemoryOK
<1>5. TasksOK'
  <2>1. \A h, e : TaskOK(Idle, h, e)
    BY DEF TaskOK, Idle, NeedsEntry, HoldsFlow
  <2>2. task' = [w \in Workers |-> Idle]
    BY DEF Die
  <2> QED
    BY <2>1, <2>2, IdleType DEF TasksOK
<1> QED
  BY <1>4, <1>5 DEF Die

LEMMA TypePreviewPanics ==
  ASSUME TypeOK, NEW w \in Workers, PreviewPanics(w)
  PROVE  TypeOK'
<1>1. MemoryOK' /\ TasksOK' /\ up' \in BOOLEAN /\ DOMAIN flows' = DOMAIN flows
  BY DieType DEF PreviewPanics
<1>2. SettingsOK' /\ ServerOK' /\ ProcessOK'
  BY <1>1 DEF PreviewPanics, Fault, settingVars, serverVars, TypeOK, SettingsOK, ServerOK, ProcessOK
<1> QED
  BY <1>1, <1>2 DEF TypeOK

(* command_handler.go *)

\* A command that does no more than leave its goroutine waiting.
LEMMA CommandCall ==
  ASSUME TypeOK, NEW w \in Workers, NEW t \in Task, Command(w), Call(w, t),
         TaskOK(t, flows, current),
         UNCHANGED <<memVars, sendRoom, useThreads, members, serverVars, procVars, msgs, faults>>
  PROVE  TypeOK'
<1>1. up = TRUE /\ up' = TRUE /\ UNCHANGED <<flows, current>>
  BY DEF Command, Free, memVars, procVars, TypeOK, ProcessOK
<1>2. TasksOK'
  BY <1>1, TaskStep DEF TypeOK
<1>3. MemoryOK' /\ SettingsOK' /\ ServerOK' /\ ProcessOK'
  BY <1>1 DEF Command, serverVars, procVars, TypeOK, MemoryOK, SettingsOK, ServerOK, ProcessOK
<1> QED
  BY <1>2, <1>3 DEF TypeOK

LEMMA TypeOtherCommand ==
  ASSUME TypeOK, NEW w \in Workers, OtherCommand(w)
  PROVE  TypeOK'
<1>1. UNCHANGED <<flows, current, task, up>>
  BY DEF OtherCommand, memVars, procVars
<1>2. TasksOK'
  BY <1>1, TasksKept DEF TypeOK
<1>3. MemoryOK' /\ SettingsOK' /\ ServerOK' /\ ProcessOK'
  BY <1>1 DEF OtherCommand, Command, serverVars, procVars,
              TypeOK, MemoryOK, SettingsOK, ServerOK, ProcessOK
<1> QED
  BY <1>2, <1>3 DEF TypeOK

\* CreatePost after a blank flow was put in the map, by a command or by the
\* notification loop.
LEMMA CreatePostType ==
  ASSUME TypeOK, NEW w \in Workers, StartBlankFlow(w), CreatePost(w), up' = TRUE
  PROVE  MemoryOK' /\ TasksOK' /\ DOMAIN flows \subseteq DOMAIN flows'
<1>1. MemoryOK' /\ DOMAIN flows \subseteq DOMAIN flows' /\ current' # 0
  BY StartBlankFlowType DEF TypeOK, MemoryOK
<1>2. PICK s \in Section \cup {"Threads"} : Call(w, Asking(s))
  BY DEF CreatePost, Section
<1>3. Asking(s) \in Task /\ TaskOK(Asking(s), flows', current')
  BY AskingType
<1> QED
  BY <1>1, <1>2, <1>3, TaskStep DEF TypeOK

LEMMA TypeNew ==
  ASSUME TypeOK, NEW w \in Workers, New(w)
  PROVE  TypeOK'
<1>1. up' = TRUE
  BY DEF New, Command, Free, procVars, TypeOK, ProcessOK
<1>2. MemoryOK' /\ TasksOK' /\ DOMAIN flows \subseteq DOMAIN flows'
  BY <1>1, CreatePostType DEF New
<1>3. SettingsOK' /\ ServerOK' /\ ProcessOK'
  BY <1>2 DEF New, Command, serverVars, procVars, TypeOK, SettingsOK, ServerOK, ProcessOK
<1> QED
  BY <1>2, <1>3 DEF TypeOK

LEMMA TypeEditSection ==
  ASSUME TypeOK, NEW w \in Workers, NEW s \in Section, EditSection(w, s)
  PROVE  TypeOK'
<1>1. Asking(s) \in Task /\ TaskOK(Asking(s), flows, current)
  BY AskingType
<1> QED
  BY <1>1, CommandCall DEF EditSection

LEMMA TypeCancel ==
  ASSUME TypeOK, NEW w \in Workers, Cancel(w)
  PROVE  TypeOK'
<1>1. MemoryOK' /\ DOMAIN flows \subseteq DOMAIN flows' /\ current' # 0
  BY StartBlankFlowType DEF Cancel, TypeOK, MemoryOK
<1>2. TasksOK'
  BY <1>1, TasksKept DEF Cancel, procVars, TypeOK
<1>3. SettingsOK' /\ ServerOK' /\ ProcessOK'
  BY <1>1 DEF Cancel, Command, serverVars, procVars, TypeOK, SettingsOK, ServerOK, ProcessOK
<1> QED
  BY <1>1, <1>2, <1>3 DEF TypeOK

LEMMA TypeUndo ==
  ASSUME TypeOK, NEW w \in Workers, Undo(w)
  PROVE  TypeOK'
<1> DEFINE t == [Idle EXCEPT !.pc = "undoRead", !.room = sendRoom]
<1>1. t \in Task
  BY DEF Idle, Task, PC, Arg, TypeOK, SettingsOK
<1>2. TaskOK(t, flows, current)
  BY CurrentFlowType DEF Undo, Undoable, TaskOK, Idle, NeedsEntry, HoldsFlow
<1>3. Call(w, t)
  BY DEF Undo
<1> HIDE DEF t
<1> QED
  BY <1>1, <1>2, <1>3, CommandCall DEF Undo

LEMMA TypeUndoRead ==
  ASSUME TypeOK, NEW w \in Workers, UndoRead(w)
  PROVE  TypeOK'
<1>1. /\ up = TRUE /\ up' = TRUE /\ UNCHANGED <<flows, current>>
      /\ task[w] \in Task /\ current # 0
  BY DEF UndoRead, Awaits, memVars, procVars, TypeOK, ProcessOK, TasksOK, TaskOK, NeedsEntry
<1>2. PICK failed \in BOOLEAN :
        /\ StateEventRead(failed)
        /\ Call(w, [task[w] EXCEPT !.pc = "undoRedact",
                                   !.post = IF failed THEN 0 ELSE prev.post])
  BY DEF UndoRead
<1> DEFINE t == [task[w] EXCEPT !.pc = "undoRedact",
                                !.post = IF failed THEN 0 ELSE prev.post]
<1>3. prev.post \in Nat
  BY DEF TypeOK, ServerOK, PreviousPost
<1>4. t \in Task
  BY <1>1, <1>3 DEF Task, PC
<1>5. TaskOK(t, flows', current')
  BY <1>1 DEF TaskOK, Task, NeedsEntry, HoldsFlow
<1>6. Call(w, t)
  BY <1>2
<1> HIDE DEF t
<1>7. TasksOK'
  BY <1>1, <1>4, <1>5, <1>6, TaskStep DEF TypeOK
<1>8. faults' \in Nat
  BY <1>2 DEF StateEventRead, Fault, TypeOK, ProcessOK
<1>9. MemoryOK' /\ SettingsOK' /\ ServerOK' /\ ProcessOK'
  BY <1>1, <1>8 DEF UndoRead, settingVars, serverVars, procVars,
                    TypeOK, MemoryOK, SettingsOK, ServerOK, ProcessOK
<1> QED
  BY <1>7, <1>9 DEF TypeOK

LEMMA TypeRedactRefused ==
  ASSUME TypeOK, NEW w \in Workers, RedactRefused(w)
  PROVE  TypeOK'
<1>1. up = TRUE /\ up' = TRUE /\ UNCHANGED <<flows, current>>
  BY DEF RedactRefused, Awaits, memVars, procVars, TypeOK, ProcessOK
<1>2. TasksOK'
  BY <1>1, ReturnStep DEF RedactRefused, TypeOK
<1>3. MemoryOK' /\ SettingsOK' /\ ServerOK' /\ ProcessOK'
  BY <1>1 DEF RedactRefused, settingVars, serverVars, procVars,
              TypeOK, MemoryOK, SettingsOK, ServerOK, ProcessOK
<1> QED
  BY <1>2, <1>3 DEF TypeOK

LEMMA TypeUndone ==
  ASSUME TypeOK, NEW w \in Workers, Undone(w)
  PROVE  TypeOK'
<1> DEFINE r == [flows[current] EXCEPT !.state = "Confirm"]
           t == [Idle EXCEPT !.pc = "undoWrite"]
<1>1. up = TRUE /\ up' = TRUE /\ current # 0 /\ UNCHANGED current
  BY DEF Undone, Awaits, procVars, TypeOK, ProcessOK, TasksOK, TaskOK, NeedsEntry
<1>2. current \in DOMAIN flows /\ flows[current] \in StandupFlow
  BY <1>1, CurrentEntry
<1>3. r \in StandupFlow
  BY <1>2 DEF StandupFlow, StandupFlowState
<1>4. flows' = [flows EXCEPT ![current] = r]
  BY DEF Undone
<1>5. MemoryOK' /\ DOMAIN flows' = DOMAIN flows
  BY <1>1, <1>2, <1>3, <1>4, MemoryWritten
<1>6. TasksOK'
  <2>1. t \in Task
    BY DEF Idle, Task, PC, Arg
  <2>2. TaskOK(t, flows', current')
    BY DEF TaskOK, Idle, NeedsEntry, HoldsFlow
  <2>3. Call(w, t)
    BY DEF Undone
  <2> HIDE DEF t
  <2> QED
    BY <1>1, <1>5, <2>1, <2>2, <2>3, TaskStep DEF TypeOK
<1>7. SettingsOK' /\ ServerOK' /\ ProcessOK'
  BY <1>5 DEF Undone, settingVars, serverVars, procVars, TypeOK, SettingsOK, ServerOK, ProcessOK
<1> QED
  BY <1>5, <1>6, <1>7 DEF TypeOK

LEMMA TypeRedacted ==
  ASSUME TypeOK, NEW w \in Workers, Redacted(w)
  PROVE  TypeOK'
<1> DEFINE p == task[w].post
           t == [Idle EXCEPT !.pc = "tellUndone"]
<1>1. up = TRUE /\ up' = TRUE /\ current # 0 /\ UNCHANGED <<flows, current>>
  BY DEF Redacted, Awaits, memVars, procVars, TypeOK, ProcessOK, TasksOK, TaskOK, NeedsEntry
<1>2. posts \in Seq(Post) /\ p \in DOMAIN posts
  BY DEF Redacted, Redactable, TypeOK, ServerOK
<1>3. [posts[p] EXCEPT !.live = FALSE] \in Post
  <2>1. posts[p] \in Post
    BY <1>2
  <2> QED
    BY <2>1 DEF Post
<1>4. posts' = [posts EXCEPT ![p] = [posts[p] EXCEPT !.live = FALSE]]
  BY DEF Redacted
<1>5. posts' \in Seq(Post)
  BY <1>2, <1>3, <1>4, ExceptSeq
<1>6. TasksOK'
  <2>1. CASE Return(w)
    BY <1>1, <2>1, ReturnStep DEF TypeOK
  <2>2. CASE Call(w, t)
    <3>1. t \in Task
      BY DEF Idle, Task, PC, Arg
    <3>2. TaskOK(t, flows', current')
      BY <1>1 DEF TaskOK, Idle, NeedsEntry, HoldsFlow
    <3> HIDE DEF t
    <3> QED
      BY <1>1, <2>2, <3>1, <3>2, TaskStep DEF TypeOK
  <2> QED
    BY <2>1, <2>2 DEF Redacted
<1>7. MemoryOK' /\ SettingsOK' /\ ServerOK' /\ ProcessOK'
  BY <1>1, <1>5 DEF Redacted, Fault, settingVars, procVars,
                    TypeOK, MemoryOK, SettingsOK, ServerOK, ProcessOK
<1> QED
  BY <1>6, <1>7 DEF TypeOK

LEMMA TypePreviousPostCleared ==
  ASSUME TypeOK, NEW w \in Workers, PreviousPostCleared(w)
  PROVE  TypeOK'
<1>1. up = TRUE /\ up' = TRUE /\ UNCHANGED <<flows, current>>
  BY DEF PreviousPostCleared, Awaits, memVars, procVars, TypeOK, ProcessOK
<1>2. prev' \in PreviousPost
  BY DEF PreviousPostCleared, EmptyPreviousPost, PreviousPost
<1>3. TasksOK'
  BY <1>1, ReturnStep DEF PreviousPostCleared, TypeOK
<1>4. MemoryOK' /\ SettingsOK' /\ ServerOK' /\ ProcessOK'
  BY <1>1, <1>2 DEF PreviousPostCleared, settingVars, procVars,
                    TypeOK, MemoryOK, SettingsOK, ServerOK, ProcessOK
<1> QED
  BY <1>3, <1>4 DEF TypeOK

LEMMA TypeHandleRoom ==
  ASSUME TypeOK, NEW w \in Workers, NEW r \in SendRooms, HandleRoom(w, r)
  PROVE  TypeOK'
<1> DEFINE t == [Idle EXCEPT !.pc = "writeRoom", !.room = r]
<1>1. t \in Task
  BY DEF Idle, Task, PC, Arg
<1>2. TaskOK(t, flows, current)
  BY DEF TaskOK, Idle, NeedsEntry, HoldsFlow
<1>3. Call(w, t)
  BY DEF HandleRoom
<1> HIDE DEF t
<1> QED
  BY <1>1, <1>2, <1>3, CommandCall DEF HandleRoom

LEMMA TypeSendRoomSet ==
  ASSUME TypeOK, NEW w \in Workers, SendRoomSet(w)
  PROVE  TypeOK'
<1> DEFINE t == [Idle EXCEPT !.pc = "tellRoom"]
<1>1. /\ up = TRUE /\ up' = TRUE /\ UNCHANGED <<flows, current>>
      /\ task[w].room \in SendRooms
  BY DEF SendRoomSet, Awaits, memVars, procVars, TypeOK, ProcessOK, TasksOK, TaskOK
<1>2. t \in Task
  BY DEF Idle, Task, PC, Arg
<1>3. TaskOK(t, flows', current')
  BY DEF TaskOK, Idle, NeedsEntry, HoldsFlow
<1>4. Call(w, t)
  BY DEF SendRoomSet
<1> HIDE DEF t
<1>5. TasksOK'
  BY <1>1, <1>2, <1>3, <1>4, TaskStep DEF TypeOK
<1>6. MemoryOK' /\ SettingsOK' /\ ServerOK' /\ ProcessOK'
  BY <1>1 DEF SendRoomSet, Fault, serverVars, procVars,
              TypeOK, MemoryOK, SettingsOK, ServerOK, ProcessOK
<1> QED
  BY <1>5, <1>6 DEF TypeOK

LEMMA TypeSendRoomTold ==
  ASSUME TypeOK, NEW w \in Workers, SendRoomTold(w)
  PROVE  TypeOK'
<1> DEFINE t == ShowingPreview(current, flows[current].items, "none")
<1>1. up = TRUE /\ up' = TRUE /\ UNCHANGED <<flows, current>>
  BY DEF SendRoomTold, Awaits, memVars, procVars, TypeOK, ProcessOK
<1>2. TasksOK'
  <2>1. CASE CurrentState = "Confirm"
    <3>1. current # 0 /\ current \in DOMAIN flows /\ current \in Nat
      BY <2>1, CurrentFlowType, CurrentEntry
    <3>2. flows[current].items \in SUBSET StandupItem
      BY <3>1, CurrentEntry DEF StandupFlow
    <3>3. t \in Task /\ TaskOK(t, flows', current')
      BY <1>1, <3>1, <3>2, ShowingPreviewType
    <3>4. Call(w, t)
      BY <2>1 DEF SendRoomTold
    <3> QED
      BY <1>1, <3>3, <3>4, TaskStep DEF TypeOK
  <2>2. CASE CurrentState # "Confirm"
    BY <1>1, <2>2, ReturnStep DEF SendRoomTold, TypeOK
  <2> QED
    BY <2>1, <2>2
<1>3. MemoryOK' /\ SettingsOK' /\ ServerOK' /\ ProcessOK'
  BY <1>1 DEF SendRoomTold, settingVars, serverVars, procVars,
              TypeOK, MemoryOK, SettingsOK, ServerOK, ProcessOK
<1> QED
  BY <1>2, <1>3 DEF TypeOK

LEMMA TypeHandleThreads ==
  ASSUME TypeOK, NEW w \in Workers, NEW onOff \in {"on", "off"}, HandleThreads(w, onOff)
  PROVE  TypeOK'
<1> DEFINE t == [Idle EXCEPT !.pc = "writeThreads", !.arg = onOff]
<1>1. t \in Task
  BY DEF Idle, Task, PC, Arg
<1>2. TaskOK(t, flows, current)
  BY DEF TaskOK, Idle, NeedsEntry, HoldsFlow
<1>3. Call(w, t)
  BY DEF HandleThreads
<1> HIDE DEF t
<1> QED
  BY <1>1, <1>2, <1>3, CommandCall DEF HandleThreads

LEMMA TypeUseThreadsSet ==
  ASSUME TypeOK, NEW w \in Workers, UseThreadsSet(w)
  PROVE  TypeOK'
<1>1. up = TRUE /\ up' = TRUE /\ UNCHANGED <<flows, current>>
  BY DEF UseThreadsSet, Awaits, memVars, procVars, TypeOK, ProcessOK
<1>2. TasksOK'
  BY <1>1, ReturnStep DEF UseThreadsSet, TypeOK
<1>3. MemoryOK' /\ SettingsOK' /\ ServerOK' /\ ProcessOK'
  BY <1>1 DEF UseThreadsSet, serverVars, procVars,
              TypeOK, MemoryOK, SettingsOK, ServerOK, ProcessOK
<1> QED
  BY <1>2, <1>3 DEF TypeOK

\* An item more, and what the flow says then.
LEMMA WriteItemType ==
  ASSUME TypeOK, current # 0, WriteItem, UNCHANGED current
  PROVE  /\ MemoryOK'
         /\ DOMAIN flows' = DOMAIN flows
         /\ Written \in SUBSET StandupItem
         /\ msgs' \in Nat
<1> DEFINE r == [flows[current] EXCEPT !.items = Written]
<1>1. current \in DOMAIN flows /\ flows[current] \in StandupFlow
  BY CurrentEntry
<1>2. Written \in SUBSET StandupItem /\ msgs' \in Nat
  BY <1>1 DEF Written, WriteItem, StandupFlow, StandupItem, TypeOK, ProcessOK
<1>3. r \in StandupFlow
  BY <1>1, <1>2 DEF StandupFlow
<1>4. flows' = [flows EXCEPT ![current] = r]
  BY DEF WriteItem
<1> HIDE DEF r
<1> QED
  BY <1>1, <1>2, <1>3, <1>4, MemoryWritten

LEMMA TypeHandleMessage ==
  ASSUME TypeOK, NEW w \in Workers, HandleMessage(w)
  PROVE  TypeOK'
<1> DEFINE t == [Idle EXCEPT !.pc = "itemMark", !.f = current]
<1>1. up = TRUE /\ up' = TRUE /\ current # 0 /\ UNCHANGED current
  BY DEF HandleMessage, Content, Free, procVars, TypeOK, ProcessOK
<1>2. MemoryOK' /\ DOMAIN flows' = DOMAIN flows /\ msgs' \in Nat
  BY <1>1, WriteItemType DEF HandleMessage
<1>3. current \in DOMAIN flows /\ current \in Nat
  BY <1>1, CurrentEntry
<1>4. TasksOK'
  <2>1. t \in Task
    BY <1>3 DEF Idle, Task, PC, Arg
  <2>2. TaskOK(t, flows', current')
    BY <1>2, <1>3 DEF TaskOK, Idle, NeedsEntry, HoldsFlow
  <2>3. Call(w, t)
    BY DEF HandleMessage
  <2> HIDE DEF t
  <2> QED
    BY <1>1, <1>2, <2>1, <2>2, <2>3, TaskStep DEF TypeOK
<1>5. SettingsOK' /\ ServerOK' /\ ProcessOK'
  BY <1>2 DEF HandleMessage, settingVars, serverVars, procVars,
              TypeOK, SettingsOK, ServerOK, ProcessOK
<1> QED
  BY <1>2, <1>4, <1>5 DEF TypeOK

LEMMA TypeItemMarked ==
  ASSUME TypeOK, NEW w \in Workers, ItemMarked(w)
  PROVE  TypeOK'
<1> DEFINE f == task[w].f
           r == AddReactable(flows[f], "item")
<1>1. up = TRUE /\ up' = TRUE /\ UNCHANGED current /\ task[w].pc = "itemMark"
  BY DEF ItemMarked, Awaits, procVars, TypeOK, ProcessOK
<1>2. f \in DOMAIN flows /\ flows[f] \in StandupFlow
  BY <1>1, HeldFlow DEF HoldsFlow
<1>3. r \in StandupFlow
  BY <1>2 DEF AddReactable, StandupFlow, Prompt
<1>4. flows' = [flows EXCEPT ![f] = r]
  BY DEF ItemMarked
<1>5. MemoryOK' /\ DOMAIN flows' = DOMAIN flows
  BY <1>1, <1>2, <1>3, <1>4, MemoryWritten
<1>6. TasksOK'
  BY <1>1, <1>5, ReturnStep DEF ItemMarked, TypeOK
<1>7. SettingsOK' /\ ServerOK' /\ ProcessOK'
  BY <1>5 DEF ItemMarked, settingVars, serverVars, procVars, TypeOK, SettingsOK, ServerOK, ProcessOK
<1> QED
  BY <1>5, <1>6, <1>7 DEF TypeOK

\* HandleEdit and HandleRedaction: the items of the current flow are replaced, and
\* the preview is edited, shown again, or left alone.
LEMMA ItemsReplaced ==
  ASSUME TypeOK, NEW w \in Workers, NEW items \in SUBSET StandupItem, current # 0,
         flows' = [flows EXCEPT ![current].items = items],
         up' = up,
         \/ UNCHANGED task
         \/ up = TRUE /\ Call(w, EditingPreview(current, items, "none"))
         \/ up = TRUE /\ Call(w, ShowingPreview(current, items, "none")),
         UNCHANGED <<current, settingVars, members, serverVars, procVars, msgs, faults>>
  PROVE  TypeOK'
<1> DEFINE r == [flows[current] EXCEPT !.items = items]
<1>1. current \in DOMAIN flows /\ current \in Nat /\ flows[current] \in StandupFlow
  BY CurrentEntry
<1>2. r \in StandupFlow
  BY <1>1 DEF StandupFlow
<1>3. MemoryOK' /\ DOMAIN flows' = DOMAIN flows
  BY <1>1, <1>2, MemoryWritten
<1>4. TasksOK'
  <2>1. CASE UNCHANGED task
    BY <1>3, <2>1, TasksKept DEF TypeOK
  <2>2. CASE up = TRUE /\ Call(w, EditingPreview(current, items, "none"))
    <3>1. /\ EditingPreview(current, items, "none") \in Task
          /\ TaskOK(EditingPreview(current, items, "none"), flows', current')
      BY <1>1, <1>3, EditingPreviewType
    <3> QED
      BY <1>3, <2>2, <3>1, TaskStep DEF TypeOK
  <2>3. CASE up = TRUE /\ Call(w, ShowingPreview(current, items, "none"))
    <3>1. /\ ShowingPreview(current, items, "none") \in Task
          /\ TaskOK(ShowingPreview(current, items, "none"), flows', current')
      BY <1>1, <1>3, ShowingPreviewType
    <3> QED
      BY <1>3, <2>3, <3>1, TaskStep DEF TypeOK
  <2> QED
    BY <2>1, <2>2, <2>3
<1>5. SettingsOK' /\ ServerOK' /\ ProcessOK'
  BY <1>3 DEF settingVars, serverVars, procVars, TypeOK, SettingsOK, ServerOK, ProcessOK
<1> QED
  BY <1>3, <1>4, <1>5 DEF TypeOK

LEMMA TypeHandleEdit ==
  ASSUME TypeOK, NEW w \in Workers, NEW item \in CurrentFlow.items, HandleEdit(w, item)
  PROVE  TypeOK'
<1> DEFINE edited == (flows[current].items \ {item}) \cup {[item EXCEPT !.body = 1 - @]}
<1>1. up = TRUE /\ up' = up /\ current # 0
  BY DEF HandleEdit, Free, Content, procVars, TypeOK, ProcessOK
<1>2. edited \in SUBSET StandupItem
  <2>1. flows[current].items \in SUBSET StandupItem /\ item \in flows[current].items
    BY <1>1, CurrentEntry DEF HandleEdit, StandupFlow
  <2>2. [item EXCEPT !.body = 1 - @] \in StandupItem
    BY <2>1 DEF StandupItem
  <2> QED
    BY <2>1, <2>2
<1>3. /\ flows' = [flows EXCEPT ![current].items = edited]
      /\ AfterEdit(w, current, edited)
      /\ UNCHANGED <<current, settingVars, members, serverVars, procVars, msgs, faults>>
  BY DEF HandleEdit
<1> HIDE DEF edited
<1>4. \/ UNCHANGED task
      \/ Call(w, EditingPreview(current, edited, "none"))
      \/ Call(w, ShowingPreview(current, edited, "none"))
  BY <1>3 DEF AfterEdit
<1> QED
  BY <1>1, <1>2, <1>3, <1>4, ItemsReplaced

LEMMA TypeHandleRedaction ==
  ASSUME TypeOK, NEW w \in Workers, NEW item \in CurrentFlow.items, HandleRedaction(w, item)
  PROVE  TypeOK'
<1> DEFINE left == flows[current].items \ {item}
<1>1. up = TRUE /\ up' = up /\ current # 0
  BY DEF HandleRedaction, Free, procVars, TypeOK, ProcessOK
<1>2. left \in SUBSET StandupItem
  BY <1>1, CurrentEntry DEF StandupFlow
<1>3. /\ flows' = [flows EXCEPT ![current].items = left]
      /\ Call(w, EditingPreview(current, left, "none")) \/ UNCHANGED task
      /\ UNCHANGED <<current, settingVars, members, serverVars, procVars, msgs, faults>>
  BY DEF HandleRedaction
<1> HIDE DEF left
<1> QED
  BY <1>1, <1>2, <1>3, ItemsReplaced

LEMMA TypeHandleReply ==
  ASSUME TypeOK, NEW w \in Workers, NEW s \in Section, HandleReply(w, s)
  PROVE  TypeOK'
<1> DEFINE t == EditingPreview(current, Written, "reply")
<1>1. up = TRUE /\ up' = TRUE /\ current # 0 /\ UNCHANGED current
  BY DEF HandleReply, Content, Free, procVars, TypeOK, ProcessOK
<1>2. MemoryOK' /\ DOMAIN flows' = DOMAIN flows /\ msgs' \in Nat /\ Written \in SUBSET StandupItem
  BY <1>1, WriteItemType DEF HandleReply
<1>3. current \in DOMAIN flows /\ current \in Nat
  BY <1>1, CurrentEntry
<1>4. t \in Task /\ TaskOK(t, flows', current')
  BY <1>1, <1>2, <1>3, EditingPreviewType
<1>5. Call(w, t)
  BY DEF HandleReply
<1> HIDE DEF t
<1>6. TasksOK'
  BY <1>1, <1>2, <1>4, <1>5, TaskStep DEF TypeOK
<1>7. SettingsOK' /\ ServerOK' /\ ProcessOK'
  BY <1>2 DEF HandleReply, settingVars, serverVars, procVars,
              TypeOK, SettingsOK, ServerOK, ProcessOK
<1> QED
  BY <1>2, <1>6, <1>7 DEF TypeOK

LEMMA TypePreviewEdited ==
  ASSUME TypeOK, NEW w \in Workers, PreviewEdited(w)
  PROVE  TypeOK'
<1> DEFINE t == task[w]
           r == EditShown(flows[t.f], t)
           offer == [Idle EXCEPT !.pc = "resend", !.f = t.f]
<1>1. up = TRUE /\ up' = TRUE /\ UNCHANGED current /\ t.pc = "editPreview"
  BY DEF PreviewEdited, Awaits, procVars, TypeOK, ProcessOK
<1>2. t \in Task /\ t.f \in DOMAIN flows /\ t.f \in Nat /\ flows[t.f] \in StandupFlow
  BY <1>1, HeldFlow DEF HoldsFlow
<1>3. r \in StandupFlow
  BY <1>2 DEF EditShown, StandupFlow, Task
<1>4. flows' = [flows EXCEPT ![t.f] = r]
  BY DEF PreviewEdited
<1>5. MemoryOK' /\ DOMAIN flows' = DOMAIN flows
  BY <1>1, <1>2, <1>3, <1>4, MemoryWritten
<1>6. TasksOK'
  <2>1. offer \in Task
    BY <1>2 DEF Idle, Task, PC, Arg
  <2>2. TaskOK(offer, flows', current')
    BY <1>2, <1>5 DEF TaskOK, Idle, NeedsEntry, HoldsFlow
  <2>3. Call(w, offer) \/ Return(w)
    BY DEF PreviewEdited
  <2> HIDE DEF offer
  <2> QED
    BY <1>1, <1>5, <2>1, <2>2, <2>3, TaskStep, ReturnStep DEF TypeOK
<1>7. SettingsOK' /\ ServerOK' /\ ProcessOK'
  BY <1>5 DEF PreviewEdited, settingVars, serverVars, procVars,
              TypeOK, SettingsOK, ServerOK, ProcessOK
<1> QED
  BY <1>5, <1>6, <1>7 DEF TypeOK

LEMMA TypeResendOffered ==
  ASSUME TypeOK, NEW w \in Workers, ResendOffered(w)
  PROVE  TypeOK'
<1> DEFINE f == task[w].f
           r == [AddReactable(flows[f], "resend") EXCEPT !.resend = TRUE]
<1>1. up = TRUE /\ up' = TRUE /\ UNCHANGED current /\ task[w].pc = "resend"
  BY DEF ResendOffered, Awaits, procVars, TypeOK, ProcessOK
<1>2. f \in DOMAIN flows /\ flows[f] \in StandupFlow
  BY <1>1, HeldFlow DEF HoldsFlow
<1>3. r \in StandupFlow
  BY <1>2 DEF AddReactable, StandupFlow, Prompt
<1>4. flows' = [flows EXCEPT ![f] = r]
  BY DEF ResendOffered
<1>5. MemoryOK' /\ DOMAIN flows' = DOMAIN flows
  BY <1>1, <1>2, <1>3, <1>4, MemoryWritten
<1>6. TasksOK'
  BY <1>1, <1>5, ReturnStep DEF ResendOffered, TypeOK
<1>7. SettingsOK' /\ ServerOK' /\ ProcessOK'
  BY <1>5 DEF ResendOffered, settingVars, serverVars, procVars,
              TypeOK, SettingsOK, ServerOK, ProcessOK
<1> QED
  BY <1>5, <1>6, <1>7 DEF TypeOK

LEMMA TypeGivesUp ==
  ASSUME TypeOK, NEW w \in Workers, GivesUp(w)
  PROVE  TypeOK'
<1>1. up = TRUE /\ up' = TRUE /\ UNCHANGED <<flows, current>>
  BY DEF GivesUp, memVars, procVars, TypeOK, ProcessOK
<1>2. TasksOK'
  BY <1>1, ReturnStep DEF GivesUp, TypeOK
<1>3. MemoryOK' /\ SettingsOK' /\ ServerOK' /\ ProcessOK'
  BY <1>1 DEF GivesUp, Fault, settingVars, serverVars, procVars,
              TypeOK, MemoryOK, SettingsOK, ServerOK, ProcessOK
<1> QED
  BY <1>2, <1>3 DEF TypeOK

(* standupbot.go *)

LEMMA TypeNotify ==
  ASSUME TypeOK, NEW w \in Workers, Notify(w)
  PROVE  TypeOK'
<1> DEFINE t == [Idle EXCEPT !.pc = "notify"]
<1>1. up = TRUE /\ up' = TRUE /\ UNCHANGED <<flows, current>>
  BY DEF Notify, Free, memVars, procVars, TypeOK, ProcessOK
<1>2. t \in Task
  BY DEF Idle, Task, PC, Arg
<1>3. TaskOK(t, flows', current')
  BY DEF TaskOK, Idle, NeedsEntry, HoldsFlow
<1>4. Call(w, t)
  BY DEF Notify
<1> HIDE DEF t
<1>5. TasksOK'
  BY <1>1, <1>2, <1>3, <1>4, TaskStep DEF TypeOK
<1>6. MemoryOK' /\ SettingsOK' /\ ServerOK' /\ ProcessOK'
  BY <1>1 DEF Notify, settingVars, serverVars, procVars,
              TypeOK, MemoryOK, SettingsOK, ServerOK, ProcessOK
<1> QED
  BY <1>5, <1>6 DEF TypeOK

LEMMA TypeNotified ==
  ASSUME TypeOK, NEW w \in Workers, Notified(w)
  PROVE  TypeOK'
<1>1. up' = TRUE
  BY DEF Notified, Awaits, procVars, TypeOK, ProcessOK
<1>2. MemoryOK' /\ TasksOK' /\ DOMAIN flows \subseteq DOMAIN flows'
  BY <1>1, CreatePostType DEF Notified
<1>3. SettingsOK' /\ ServerOK' /\ ProcessOK'
  BY <1>2 DEF Notified, settingVars, serverVars, procVars, TypeOK, SettingsOK, ServerOK, ProcessOK
<1> QED
  BY <1>2, <1>3 DEF TypeOK

LEMMA TypeSetMembership ==
  ASSUME TypeOK, NEW r \in SendRooms, SetMembership(r)
  PROVE  TypeOK'
<1>1. UNCHANGED <<flows, current, task, up>>
  BY DEF SetMembership, memVars, procVars
<1>2. TasksOK'
  BY <1>1, TasksKept DEF TypeOK
<1>3. MemoryOK' /\ SettingsOK' /\ ServerOK' /\ ProcessOK'
  BY <1>1 DEF SetMembership, settingVars, serverVars, procVars,
              TypeOK, MemoryOK, SettingsOK, ServerOK, ProcessOK
<1> QED
  BY <1>2, <1>3 DEF TypeOK

LEMMA TypeTerminate ==
  ASSUME TypeOK, Terminate
  PROVE  TypeOK'
<1>1. Die /\ restarts' \in Nat
  BY DEF Terminate, Stop, TypeOK, ProcessOK
<1>2. MemoryOK' /\ TasksOK' /\ up' \in BOOLEAN /\ DOMAIN flows' = DOMAIN flows
  BY <1>1, DieType
<1>3. disk' \in FlowsFile /\ disk'.flow \in {0} \cup DOMAIN flows
  <2>1. CurrentFlow \in StandupFlow /\ current \in {0} \cup DOMAIN flows /\ current \in Nat
    BY CurrentFlowType DEF TypeOK, MemoryOK
  <2>2. CASE disk' = [text |-> "good", flow |-> current, rec |-> CurrentFlow]
    BY <2>1, <2>2 DEF FlowsFile
  <2>3. CASE disk' = [NoFile EXCEPT !.text = "garbled"]
    BY <2>3, BlankFlowType DEF FlowsFile, NoFile
  <2> QED
    BY <2>2, <2>3 DEF Terminate
<1>4. SettingsOK' /\ ServerOK' /\ ProcessOK'
  BY <1>1, <1>2, <1>3 DEF Terminate, settingVars, serverVars, TypeOK, SettingsOK, ServerOK, ProcessOK
<1> QED
  BY <1>2, <1>4 DEF TypeOK

LEMMA TypeKill ==
  ASSUME TypeOK, Kill
  PROVE  TypeOK'
<1>1. Die /\ restarts' \in Nat
  BY DEF Kill, Stop, TypeOK, ProcessOK
<1>2. MemoryOK' /\ TasksOK' /\ up' \in BOOLEAN /\ DOMAIN flows' = DOMAIN flows
  BY <1>1, DieType
<1>3. SettingsOK' /\ ServerOK' /\ ProcessOK'
  BY <1>1, <1>2 DEF Kill, settingVars, serverVars, TypeOK, SettingsOK, ServerOK, ProcessOK
<1> QED
  BY <1>2, <1>3 DEF TypeOK

LEMMA TypeStart ==
  ASSUME TypeOK, Start
  PROVE  TypeOK'
<1> DEFINE f == LoadedFlow(disk)
<1>1. f \in {0} \cup DOMAIN flows /\ disk.rec \in StandupFlow
  BY DEF LoadedFlow, TypeOK, ProcessOK, FlowsFile
<1>2. current' = f /\ flows' = IF f = 0 THEN flows ELSE [flows EXCEPT ![f] = disk.rec]
  BY DEF Start
<1> HIDE DEF f
<1>3. flows' \in Seq(StandupFlow) /\ DOMAIN flows' = DOMAIN flows
  <2>1. CASE f = 0
    BY <1>2, <2>1 DEF TypeOK, MemoryOK
  <2>2. CASE f # 0
    BY <1>1, <1>2, <2>2, FlowWritten DEF TypeOK, MemoryOK
  <2> QED
    BY <2>1, <2>2
<1>4. MemoryOK'
  BY <1>1, <1>2, <1>3 DEF MemoryOK
<1>5. TasksOK'
  <2>1. \A h, e : TaskOK(Idle, h, e)
    BY DEF TaskOK, Idle, NeedsEntry, HoldsFlow
  <2>2. up' = TRUE /\ UNCHANGED task /\ \A w \in Workers : task[w] = Idle
    BY DEF Start, TypeOK, TasksOK
  <2> QED
    BY <2>1, <2>2 DEF TypeOK, TasksOK
<1>6. configRoom' \in BOOLEAN /\ faults' \in Nat
  <2>1. ConfigRoomLoaded /\ faults \in Nat
    BY DEF Start, TypeOK, ProcessOK
  <2>2. configRoom' = TRUE \/ configRoom' = FALSE
    BY <2>1, Zenon DEF ConfigRoomLoaded
  <2>3. faults' = faults \/ faults' = faults + 1
    BY <2>1, Zenon DEF ConfigRoomLoaded, Fault
  <2>4. configRoom' \in BOOLEAN
    BY <2>2
  <2>5. faults' \in Nat
    BY <2>1, <2>3
  <2> QED
    BY <2>4, <2>5
<1>7. SettingsOK' /\ ServerOK' /\ ProcessOK'
  BY <1>3, <1>6 DEF Start, serverVars, TypeOK, SettingsOK, ServerOK, ProcessOK
<1> QED
  BY <1>4, <1>5, <1>7 DEF TypeOK

-----------------------------------------------------------------------------

LEMMA TypeInit == Init => TypeOK
<1> SUFFICES ASSUME Init
             PROVE  TypeOK
  OBVIOUS
<1>1. MemoryOK
  BY DEF Init, MemoryOK
<1>2. TasksOK
  BY IdleType DEF Init, TasksOK, TaskOK, Idle, NeedsEntry, HoldsFlow
<1>3. SettingsOK
  BY DEF Init, SettingsOK
<1>4. ServerOK
  BY DEF Init, ServerOK, NoPreviousPost, PreviousPost
<1>5. ProcessOK
  BY BlankFlowType DEF Init, ProcessOK, NoFile, FlowsFile
<1> QED
  BY <1>1, <1>2, <1>3, <1>4, <1>5 DEF TypeOK

LEMMA TypeStutter ==
  ASSUME TypeOK, UNCHANGED vars
  PROVE  TypeOK'
BY DEF vars, TypeOK, MemoryOK, TasksOK, SettingsOK, ServerOK, ProcessOK, CurrentFlow

LEMMA TypeNext ==
  ASSUME TypeOK, [Next]_vars
  PROVE  TypeOK'
<1>1. ASSUME NEW w \in Workers, Input(w)
      PROVE  TypeOK'
  BY <1>1, TypeNew, TypeEditSection, TypeCancel, TypeUndo, TypeHandleRoom, TypeHandleThreads,
     TypeOtherCommand, TypeHandleMessage, TypeHandleEdit, TypeHandleReply,
     TypeHandleRedaction, TypeHandleReaction DEF Input
<1>2. ASSUME NEW w \in Workers, Answer(w)
      PROVE  TypeOK'
  BY <1>2, TypeAsked, TypeRootSent, TypePreviewShown, TypePreviewEdited, TypeResendOffered,
     TypeReactCross, TypeReactCheck, TypePreviousPostRead, TypePosted, TypePostEdited,
     TypeMarkSent, TypePreviousPostStored, TypeItemMarked, TypeSendRoomSet,
     TypeSendRoomTold, TypeUseThreadsSet, TypeUndoRead, TypeRedacted, TypeRedactRefused,
     TypeUndone, TypePreviousPostCleared, TypeNotified DEF Answer
<1>3. ASSUME NEW w \in Workers, Failure(w)
      PROVE  TypeOK'
  BY <1>3, TypePreviewPanics, TypePosted, TypeGivesUp DEF Failure
<1>4. ASSUME NEW w \in Workers, Notify(w)
      PROVE  TypeOK'
  BY <1>4, TypeNotify
<1>5. ASSUME NEW r \in SendRooms, SetMembership(r)
      PROVE  TypeOK'
  BY <1>5, TypeSetMembership
<1> QED
  BY <1>1, <1>2, <1>3, <1>4, <1>5, TypeTerminate, TypeKill, TypeStart, TypeStutter DEF Next

\* Type correctness.  Whatever the handlers, the failures and the restarts do, every
\* variable has its type, and no handler follows a nil flow or reads a missing entry
\* of currentStandupFlows (create_post.go:77-107 and command_handler.go:637 do so
\* without a check).
THEOREM TypeCorrect == Spec => []TypeOK
<1>1. Init => TypeOK
  BY TypeInit
<1>2. TypeOK /\ [Next]_vars => TypeOK'
  BY TypeNext
<1> QED
  BY <1>1, <1>2, PTL DEF Spec

=============================================================================
