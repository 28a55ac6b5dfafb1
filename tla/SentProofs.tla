------------------------------ MODULE SentProofs ------------------------------
(***************************************************************************)
(* A flow that is called Sent was posted: the proof that SentInv is        *)
(* inductive.  Its shape: posts keep their flow for ever (PostsStay), so   *)
(* nothing is to be shown of a step that calls no further flow Sent        *)
(* (NoNewSent) and leaves no further handler taking a flow for posted      *)
(* (NoNewClaim).  Few steps do either, and those are looked at one by one. *)
(***************************************************************************)
EXTENDS StandupBotProofs

PostsStay ==
  /\ DOMAIN posts \subseteq DOMAIN posts'
  /\ \A p \in DOMAIN posts : posts'[p].flow = posts[p].flow

NoNewSent ==
  \A f \in DOMAIN flows' :
    flows'[f].state = "Sent" => f \in DOMAIN flows /\ flows[f].state = "Sent"

NoNewClaim ==
  \A v \in Workers :
    TakesForPosted(task'[v]) => TakesForPosted(task[v]) /\ task'[v].f = task[v].f

\* HasPost after the step, of a flow as it is named before or after it.
WillHavePost(f) == \E p \in DOMAIN posts' : posts'[p].flow = f

-----------------------------------------------------------------------------
(* What carries the invariant over a step. *)

LEMMA HasPostStays ==
  ASSUME PostsStay
  PROVE  \A f : HasPost(f) => WillHavePost(f)
BY DEF PostsStay, HasPost, WillHavePost

\* The invariant after a step, with the primes pushed inwards.
LEMMA SentInvAfter ==
  ASSUME \A f \in DOMAIN flows' : flows'[f].state = "Sent" => WillHavePost(f),
         \A v \in Workers : TakesForPosted(task'[v]) => WillHavePost(task'[v].f),
         prev'.flow # 0 => WillHavePost(prev'.flow),
         disk'.rec.state = "Sent" => WillHavePost(disk'.flow)
  PROVE  SentInv'
BY DEF SentInv, SentWasPosted, HasPost, WillHavePost, TakesForPosted

LEMMA SentStates ==
  ASSUME SentInv, PostsStay, NoNewSent
  PROVE  \A f \in DOMAIN flows' : flows'[f].state = "Sent" => WillHavePost(f)
BY HasPostStays DEF SentInv, SentWasPosted, NoNewSent

LEMMA SentClaims ==
  ASSUME SentInv, PostsStay, NoNewClaim
  PROVE  \A v \in Workers : TakesForPosted(task'[v]) => WillHavePost(task'[v].f)
BY HasPostStays DEF SentInv, NoNewClaim

LEMMA SentPrev ==
  ASSUME SentInv, PostsStay, UNCHANGED prev
  PROVE  prev'.flow # 0 => WillHavePost(prev'.flow)
BY HasPostStays DEF SentInv

LEMMA SentDisk ==
  ASSUME SentInv, PostsStay, UNCHANGED disk
  PROVE  disk'.rec.state = "Sent" => WillHavePost(disk'.flow)
BY HasPostStays DEF SentInv

LEMMA SentCarried ==
  ASSUME SentInv, PostsStay, NoNewSent, NoNewClaim, UNCHANGED <<prev, disk>>
  PROVE  SentInv'
BY SentStates, SentClaims, SentPrev, SentDisk, SentInvAfter

-----------------------------------------------------------------------------
(* Steps that call nothing Sent and take nothing for posted. *)

LEMMA PostsUnchanged ==
  ASSUME UNCHANGED posts
  PROVE  PostsStay
BY DEF PostsStay

LEMMA StateWritten ==
  ASSUME flows \in Seq(StandupFlow), NEW f, NEW r,
         r.state = "Sent" => flows[f].state = "Sent",
         flows' = [flows EXCEPT ![f] = r]
  PROVE  NoNewSent
BY DEF NoNewSent

LEMMA StatesKept ==
  ASSUME UNCHANGED flows
  PROVE  NoNewSent
BY DEF NoNewSent

LEMMA BlankFlowNotSent ==
  ASSUME flows \in Seq(StandupFlow), NEW w, StartBlankFlow(w)
  PROVE  NoNewSent
<1>1. flows' = Append(Kept(w), BlankStandupFlow)
  BY DEF StartBlankFlow
<1>2. Kept(w) \in Seq(StandupFlow) /\ DOMAIN Kept(w) = DOMAIN flows
  BY KeptType
<1>3. ASSUME NEW f \in DOMAIN flows', flows'[f].state = "Sent"
      PROVE  f \in DOMAIN flows /\ flows[f].state = "Sent"
  <2>1. f \in DOMAIN flows
    BY <1>1, <1>2, <1>3, FlowAllocated, BlankFlowType DEF BlankStandupFlow
  <2>2. flows'[f] = Kept(w)[f]
    BY <1>1, <1>2, <2>1, FlowAllocated, BlankFlowType
  <2> QED
    BY <1>3, <2>1, <2>2 DEF Kept, BlankStandupFlow
<1> QED
  BY <1>3 DEF NoNewSent

LEMMA CallsNoClaim ==
  ASSUME TasksOK, NEW w \in Workers, NEW t, Call(w, t), ~TakesForPosted(t)
  PROVE  NoNewClaim
BY DEF TasksOK, Call, NoNewClaim

LEMMA ClaimsKept ==
  ASSUME UNCHANGED task
  PROVE  NoNewClaim
BY DEF NoNewClaim

LEMMA ReturnsNoClaim ==
  ASSUME TasksOK, NEW w \in Workers, Return(w)
  PROVE  NoNewClaim
BY CallsNoClaim DEF Return, Idle, TakesForPosted

\* A step of one handler that only waits for its next call.
LEMMA SentCall ==
  ASSUME TypeOK, SentInv, NEW w \in Workers, NEW t, Call(w, t), ~TakesForPosted(t),
         NoNewSent, UNCHANGED <<posts, prev, disk>>
  PROVE  SentInv'
BY PostsUnchanged, CallsNoClaim, SentCarried DEF TypeOK

LEMMA SentReturn ==
  ASSUME TypeOK, SentInv, NEW w \in Workers, Return(w),
         NoNewSent, UNCHANGED <<posts, prev, disk>>
  PROVE  SentInv'
BY PostsUnchanged, ReturnsNoClaim, SentCarried DEF TypeOK

\* The calls that say nothing of the flow's being posted.
LEMMA CallsThatClaimNothing ==
  ASSUME NEW s, NEW f, NEW items, NEW caller, NEW then \in {"none", "Confirm"}
  PROVE  /\ ~TakesForPosted(Asking(s))
         /\ ~TakesForPosted(SendingRoot(s))
         /\ ~TakesForPosted(EditingPreview(f, items, caller))
         /\ ~TakesForPosted(ShowingPreview(f, items, then))
BY DEF TakesForPosted, Asking, SendingRoot, EditingPreview, ShowingPreview, Idle

-----------------------------------------------------------------------------
(* create_post.go. *)

LEMMA SentAsked ==
  ASSUME TypeOK, SentInv, NEW w \in Workers, Asked(w)
  PROVE  SentInv'
<1> DEFINE s    == task[w].arg
           heap == IF current = 0 THEN Append(flows, BlankStandupFlow) ELSE flows
           f    == IF current = 0 THEN Len(heap) ELSE current
           r    == AddReactable([heap[f] EXCEPT !.state = s], PromptOf(s))
<1>1. s \in Section \cup {"Threads"} /\ flows \in Seq(StandupFlow)
  BY DEF Asked, Awaits, TypeOK, TasksOK, TaskOK, MemoryOK
<1>2. /\ heap \in Seq(StandupFlow)
      /\ \A g \in DOMAIN heap : heap[g].state = "Sent" => g \in DOMAIN flows /\ flows[g].state = "Sent"
  BY <1>1, FlowAllocated, BlankFlowType DEF BlankStandupFlow
<1>3. f \in DOMAIN heap /\ heap[f] \in StandupFlow
  BY <1>1, <1>2, FlowAllocated, BlankFlowType DEF TypeOK, MemoryOK
<1>4. r.state # "Sent"
  BY <1>1, <1>3 DEF AddReactable, StandupFlow, Section
<1>5. flows' = [heap EXCEPT ![f] = r]
  BY DEF Asked
<1> HIDE DEF heap, r
<1>6. NoNewSent
  BY <1>2, <1>3, <1>4, <1>5 DEF NoNewSent
<1>7. UNCHANGED <<posts, prev, disk>>
  BY DEF Asked, serverVars, procVars
<1>8. CASE s = "Threads"
  <2>1. Call(w, SendingRoot("Done"))
    BY <1>8 DEF Asked
  <2> QED
    BY <1>6, <1>7, <2>1, CallsThatClaimNothing, SentCall
<1>9. CASE s # "Threads"
  <2>1. Return(w)
    BY <1>9 DEF Asked
  <2> QED
    BY <1>6, <1>7, <2>1, SentReturn
<1> QED
  BY <1>8, <1>9

LEMMA SentRootSent ==
  ASSUME TypeOK, SentInv, NEW w \in Workers, RootSent(w)
  PROVE  SentInv'
<1> DEFINE s == task[w].arg
           r == [flows[current] EXCEPT !.roots = @ \cup {s}]
<1>1. current \in DOMAIN flows /\ flows[current] \in StandupFlow /\ flows \in Seq(StandupFlow)
  BY CurrentEntry DEF RootSent, Awaits, TypeOK, TasksOK, TaskOK, NeedsEntry, MemoryOK
<1>2. r.state = flows[current].state
  BY <1>1 DEF StandupFlow
<1>3. flows' = [flows EXCEPT ![current] = r]
  BY DEF RootSent
<1> HIDE DEF r
<1>4. NoNewSent
  BY <1>1, <1>2, <1>3, StateWritten
<1>5. UNCHANGED <<posts, prev, disk>>
  BY DEF RootSent, serverVars, procVars
<1>6. \/ Call(w, ShowingPreview(current, flows[current].items, "none"))
      \/ Call(w, SendingRoot(Following[s]))
  BY DEF RootSent
<1> QED
  BY <1>4, <1>5, <1>6, CallsThatClaimNothing, SentCall

\* The preview of a revised post makes its flow Sent: previous_post has named it.
LEMMA SentPreviewShown ==
  ASSUME TypeOK, SentInv, NEW w \in Workers, PreviewShown(w)
  PROVE  SentInv'
<1> DEFINE t    == task[w]
           heap == [flows EXCEPT ![t.f] = Previewed(@, t)]
<1>1. up /\ t.pc = "preview"
  BY DEF PreviewShown, Awaits
<1>2. /\ t.f \in DOMAIN flows /\ flows[t.f] \in StandupFlow
      /\ current \in DOMAIN flows /\ flows \in Seq(StandupFlow)
  BY <1>1, HeldFlow, CurrentEntry DEF HoldsFlow, NeedsEntry, TypeOK, TasksOK, TaskOK, MemoryOK
<1>3. UNCHANGED <<posts, prev, disk>> /\ Return(w)
  BY DEF PreviewShown, serverVars, procVars
<1>4. PostsStay /\ NoNewClaim
  BY <1>3, PostsUnchanged, ReturnsNoClaim DEF TypeOK
<1>5. /\ DOMAIN flows' = DOMAIN flows
      /\ \A g \in DOMAIN flows : flows'[g].state = heap[g].state
  <2>1. t.arg \in {"none", "Sent", "Confirm"} /\ t \in Task
    BY <1>1 DEF TypeOK, TasksOK, TaskOK
  <2>2. Previewed(flows[t.f], t) \in StandupFlow
    BY <1>2, <2>1 DEF Previewed, StandupFlow, StandupFlowState, Task
  <2>3. heap \in Seq(StandupFlow) /\ DOMAIN heap = DOMAIN flows
    BY <1>2, <2>2, FlowWritten
  <2>4. flows' = [heap EXCEPT ![current] = AddReactable(heap[current], "preview")]
    BY DEF PreviewShown
  <2> HIDE DEF heap
  <2>5. AddReactable(heap[current], "preview").state = heap[current].state
    BY <1>2, <2>3 DEF AddReactable, StandupFlow
  <2> QED
    BY <1>2, <2>3, <2>4, <2>5
<1>6. ASSUME NEW g \in DOMAIN flows', flows'[g].state = "Sent"
      PROVE  WillHavePost(g)
  <2>1. CASE g = t.f /\ t.arg = "Sent"
    BY <1>1, <1>4, <2>1, HasPostStays DEF SentInv, TakesForPosted
  <2>2. CASE g # t.f \/ t.arg # "Sent"
    <3>1. flows[g].state = "Sent" /\ g \in DOMAIN flows
      BY <1>2, <1>5, <1>6, <2>2 DEF Previewed, StandupFlow
    <3> QED
      BY <1>4, <3>1, HasPostStays DEF SentInv, SentWasPosted
  <2> QED
    BY <2>1, <2>2
<1> QED
  BY <1>3, <1>4, <1>6, SentClaims, SentPrev, SentDisk, SentInvAfter

\* The post is in the room before anybody says that it is.
LEMMA SentPosted ==
  ASSUME TypeOK, SentInv, NEW w \in Workers, Posted(w) \/ PostedTwice(w) \/ PostAnswerLost(w)
  PROVE  SentInv'
<1> DEFINE t == task[w]
           told(p) == [Idle EXCEPT !.pc = "tellSent", !.f = t.f, !.post = p]
           once  == Append(posts, NewPost(t))
           twice == posts \o <<NewPost(t), NewPost(t)>>
<1>1. UNCHANGED <<flows, prev, disk>>
  BY DEF Posted, PostedTwice, PostAnswerLost, memVars, procVars
<1>2. posts' = once \/ posts' = twice
  BY DEF Posted, PostedTwice, PostAnswerLost
<1>3. NewPost(t) \in Post /\ NewPost(t).flow = t.f /\ posts \in Seq(Post)
  <2>1. t.pc = "post"
    BY DEF Posted, PostedTwice, PostAnswerLost, Awaits
  <2>2. t \in Task /\ t.room \in SendRooms
    BY <2>1 DEF TypeOK, TasksOK, TaskOK
  <2> QED
    BY <2>2 DEF NewPost, Post, Task, TypeOK, ServerOK
<1>4. PostsStay /\ WillHavePost(t.f)
  <2>1. CASE posts' = once
    <3>1. /\ Len(posts) + 1 \in DOMAIN once /\ once[Len(posts) + 1] = NewPost(t)
          /\ DOMAIN posts \subseteq DOMAIN once /\ \A p \in DOMAIN posts : once[p] = posts[p]
      BY <1>3, AppendProperties
    <3> QED
      BY <1>3, <2>1, <3>1 DEF PostsStay, WillHavePost
  <2>2. CASE posts' = twice
    <3> DEFINE two == <<NewPost(t), NewPost(t)>>
    <3>1. two \in Seq(Post) /\ Len(two) = 2 /\ two[1] = NewPost(t)
      BY <1>3
    <3>2. twice = posts \o two
      OBVIOUS
    <3> HIDE DEF two, twice
    <3>3. /\ Len(twice) = Len(posts) + 2 /\ twice \in Seq(Post) /\ Len(posts) \in Nat
          /\ \A p \in DOMAIN posts : twice[p] = posts[p]
          /\ twice[Len(posts) + 1] = NewPost(t)
      <4>1. /\ twice \in Seq(Post) /\ Len(twice) = Len(posts) + 2
            /\ \A i \in 1 .. Len(posts) + 2 :
                 twice[i] = IF i <= Len(posts) THEN posts[i] ELSE two[i - Len(posts)]
        <5>1. /\ posts \o two \in Seq(Post) /\ Len(posts \o two) = Len(posts) + Len(two)
              /\ \A i \in 1 .. Len(posts) + Len(two) :
                   (posts \o two)[i] = IF i <= Len(posts) THEN posts[i] ELSE two[i - Len(posts)]
          BY <1>3, <3>1, ConcatProperties
        <5> QED
          BY <3>1, <3>2, <5>1
      <4>2. Len(posts) \in Nat /\ DOMAIN posts = 1 .. Len(posts)
        BY <1>3
      <4>3. Len(posts) + 1 - Len(posts) = 1
        BY <4>2
      <4> QED
        BY <3>1, <4>1, <4>2, <4>3
    <3>4. DOMAIN posts \subseteq DOMAIN twice /\ Len(posts) + 1 \in DOMAIN twice
      BY <1>3, <3>3
    <3> QED
      BY <1>3, <2>2, <3>3, <3>4 DEF PostsStay, WillHavePost
  <2> QED
    BY <1>2, <2>1, <2>2
<1>5. ASSUME NEW v \in Workers, TakesForPosted(task'[v])
      PROVE  WillHavePost(task'[v].f)
  <2>1. Return(w) \/ \E p : Call(w, told(p))
    BY DEF Posted, PostedTwice, PostAnswerLost
  <2>2. CASE Return(w)
    BY <1>4, <1>5, <2>2, ReturnsNoClaim, SentClaims DEF TypeOK
  <2>3. ASSUME NEW p, Call(w, told(p))
        PROVE  WillHavePost(task'[v].f)
    <3>1. CASE v = w
      <4>1. task'[v].f = t.f
        BY <2>3, <3>1 DEF Call, TypeOK, TasksOK, Idle
      <4> QED
        BY <1>4, <4>1
    <3>2. CASE v # w
      <4>1. task'[v] = task[v]
        BY <2>3, <3>2 DEF Call, TypeOK, TasksOK
      <4> QED
        BY <1>4, <1>5, <4>1, HasPostStays DEF SentInv
    <3> QED
      BY <3>1, <3>2
  <2> QED
    BY <2>1, <2>2, <2>3
<1> QED
  BY <1>1, <1>4, <1>5, StatesKept, SentStates, SentPrev, SentDisk, SentInvAfter

\* A call about a flow that was posted.
LEMMA SentClaim ==
  ASSUME TypeOK, SentInv, NEW w \in Workers, NEW t, Call(w, t), HasPost(t.f),
         PostsStay, NoNewSent, UNCHANGED <<prev, disk>>
  PROVE  SentInv'
<1>1. ASSUME NEW v \in Workers, TakesForPosted(task'[v])
      PROVE  WillHavePost(task'[v].f)
  <2>1. task'[v] = t \/ task'[v] = task[v]
    BY DEF Call, TypeOK, TasksOK
  <2>2. HasPost(task'[v].f)
    BY <1>1, <2>1 DEF SentInv
  <2> QED
    BY <2>2, HasPostStays
<1> QED
  BY <1>1, SentStates, SentPrev, SentDisk, SentInvAfter

LEMMA SentPostEdited ==
  ASSUME TypeOK, SentInv, NEW w \in Workers, PostEdited(w)
  PROVE  SentInv'
<1> DEFINE t == [Idle EXCEPT !.pc = "tellSent", !.f = task[w].f, !.post = task[w].post]
<1>1. posts' = Replaced(task[w]) /\ UNCHANGED <<flows, prev, disk>>
  BY DEF PostEdited, memVars, procVars
<1>2. posts \in Seq(Post) /\ DOMAIN posts' = DOMAIN posts
  BY <1>1 DEF Replaced, TypeOK, ServerOK
<1>3. PostsStay
  BY <1>1, <1>2 DEF PostsStay, Replaced, Post
<1>4. HasPost(t.f)
  BY DEF PostEdited, Awaits, SentInv, TakesForPosted, Idle
<1>5. CASE Call(w, t)
  BY <1>1, <1>3, <1>4, <1>5, StatesKept, SentClaim
<1>6. CASE Return(w)
  BY <1>1, <1>3, <1>6, StatesKept, ReturnsNoClaim, SentCarried DEF TypeOK
<1>7. Call(w, t) \/ Return(w)
  BY DEF PostEdited
<1> QED
  BY <1>5, <1>6, <1>7

\* The one step that calls a flow Sent on the handler's own word.
LEMMA SentMarkSent ==
  ASSUME TypeOK, SentInv, NEW w \in Workers, MarkSent(w)
  PROVE  SentInv'
<1> DEFINE t == task[w]
<1>1. t.pc = "tellSent" /\ t \in Task /\ t.f \in DOMAIN flows /\ flows \in Seq(StandupFlow)
  BY HeldFlow DEF MarkSent, Awaits, HoldsFlow, TypeOK, MemoryOK
<1>2. HasPost(t.f)
  BY <1>1 DEF SentInv, TakesForPosted
<1>3. PostsStay /\ UNCHANGED <<prev, disk>>
  BY PostsUnchanged DEF MarkSent, serverVars, procVars
<1>4. ASSUME NEW g \in DOMAIN flows', flows'[g].state = "Sent"
      PROVE  WillHavePost(g)
  <2>1. CASE g = t.f
    BY <1>2, <1>3, <2>1, HasPostStays
  <2>2. CASE g # t.f
    <3>1. g \in DOMAIN flows /\ flows[g].state = "Sent"
      BY <1>1, <1>4, <2>2 DEF MarkSent
    <3> QED
      BY <1>3, <3>1, HasPostStays DEF SentInv, SentWasPosted
  <2> QED
    BY <2>1, <2>2
<1>5. ASSUME NEW v \in Workers, TakesForPosted(task'[v])
      PROVE  WillHavePost(task'[v].f)
  <2>1. task'[v] = [t EXCEPT !.pc = "writePrev"] \/ task'[v] = task[v]
    BY DEF MarkSent, Call, TypeOK, TasksOK
  <2>2. [t EXCEPT !.pc = "writePrev"].f = t.f
    BY <1>1 DEF Task
  <2>3. HasPost(task'[v].f)
    BY <1>2, <1>5, <2>1, <2>2 DEF SentInv
  <2> QED
    BY <1>3, <2>3, HasPostStays
<1> QED
  BY <1>3, <1>4, <1>5, SentPrev, SentDisk, SentInvAfter

LEMMA SentPreviousPostStored ==
  ASSUME TypeOK, SentInv, NEW w \in Workers, PreviousPostStored(w)
  PROVE  SentInv'
<1>1. HasPost(task[w].f) /\ prev'.flow = task[w].f
  BY DEF PreviousPostStored, Awaits, SentInv, TakesForPosted
<1>2. UNCHANGED <<flows, posts, disk>> /\ Return(w)
  BY DEF PreviousPostStored, memVars, procVars
<1>3. PostsStay /\ NoNewSent /\ NoNewClaim
  BY <1>2, PostsUnchanged, StatesKept, ReturnsNoClaim DEF TypeOK
<1>4. WillHavePost(prev'.flow)
  BY <1>1, <1>3, HasPostStays
<1> QED
  BY <1>2, <1>3, <1>4, SentStates, SentClaims, SentDisk, SentInvAfter

LEMMA SentHandleReaction ==
  ASSUME TypeOK, SentInv, NEW w \in Workers, NEW key, HandleReaction(w, key)
  PROVE  SentInv'
<1> DEFINE t == [Idle EXCEPT !.pc = "matched", !.f = current, !.arg = key]
<1>1. Call(w, t) /\ UNCHANGED <<flows, posts, prev, disk>>
  BY DEF HandleReaction, memVars, serverVars, procVars
<1>2. ~TakesForPosted(t)
  BY DEF TakesForPosted, Idle
<1> QED
  BY <1>1, <1>2, StatesKept, SentCall

LEMMA SentReactCross ==
  ASSUME TypeOK, SentInv, NEW w \in Workers, ReactCross(w)
  PROVE  SentInv'
<1>1. Return(w) /\ UNCHANGED <<posts, prev, disk>>
  BY DEF ReactCross, serverVars, procVars
<1>2. StartBlankFlow(w) \/ UNCHANGED flows
  BY DEF ReactCross, memVars
<1>3. NoNewSent
  BY <1>2, BlankFlowNotSent, StatesKept DEF TypeOK, MemoryOK
<1> QED
  BY <1>1, <1>3, SentReturn

LEMMA SentReactCheck ==
  ASSUME TypeOK, SentInv, NEW w \in Workers, ReactCheck(w)
  PROVE  SentInv'
<1> DEFINE t == [Idle EXCEPT !.pc = "readPrev", !.f = task[w].f]
           r == [flows[task[w].f] EXCEPT !.reactable = {}]
<1>1. Call(w, t) /\ flows' = [flows EXCEPT ![task[w].f] = r] /\ UNCHANGED <<posts, prev, disk>>
  BY DEF ReactCheck, serverVars, procVars
<1>2. ~TakesForPosted(t)
  BY DEF TakesForPosted, Idle
<1>3. r.state = flows[task[w].f].state
  BY HeldFlow DEF ReactCheck, Awaits, HoldsFlow, StandupFlow
<1>4. NoNewSent
  BY <1>1, <1>3, StateWritten DEF TypeOK, MemoryOK
<1> QED
  BY <1>1, <1>2, <1>4, SentCall

\* What a check mark leads to.  The two ways of taking the flow for posted: it is
\* Sent already, or previous_post has its FlowID.
LEMMA SentConfirmed ==
  ASSUME TypeOK, SentInv, NEW w \in Workers, NEW failed \in BOOLEAN,
         Confirmed(w, task[w].f, failed), task[w].pc = "readPrev",
         UNCHANGED <<posts, prev, disk>>
  PROVE  SentInv'
<1> DEFINE f == task[w].f
           flow == flows[f]
<1>1. /\ f \in DOMAIN flows /\ f \in Nat /\ f # 0 /\ flow \in StandupFlow
      /\ flows \in Seq(StandupFlow)
  BY HeldFlow DEF HoldsFlow, TypeOK, MemoryOK
<1>2. PostsStay
  BY PostsUnchanged
<1>3. CASE /\ MatchesPrevious(f, failed)
           /\ Call(w, ShowingPreview(f, flow.items, "Sent"))
           /\ UNCHANGED flows
  <2>1. HasPost(f) /\ ShowingPreview(f, flow.items, "Sent").f = f
    BY <1>1, <1>3 DEF MatchesPrevious, SentInv, ShowingPreview, Idle
  <2> QED
    BY <1>2, <1>3, <2>1, StatesKept, SentClaim
<1>4. CASE /\ flows' = [flows EXCEPT ![f].state = "Notes"]
           /\ Call(w, ShowingPreview(f, flow.items, "Confirm"))
  <2>1. [flow EXCEPT !.state = "Notes"].state # "Sent"
    BY <1>1 DEF StandupFlow
  <2>2. NoNewSent
    BY <1>1, <1>4, <2>1 DEF NoNewSent
  <2> QED
    BY <1>4, <2>2, CallsThatClaimNothing, SentCall
<1>5. CASE Call(w, Asking(Following[flow.state])) /\ UNCHANGED flows
  BY <1>5, StatesKept, CallsThatClaimNothing, SentCall
<1>6. CASE SendMessageToSendRoom(w, f, "post", 0) /\ UNCHANGED flows
  <2> DEFINE t == [Idle EXCEPT !.pc = "post", !.f = f, !.room = sendRoom,
                               !.post = 0, !.snap = flows[f].items]
  <2>1. Call(w, t) \/ Return(w)
    BY <1>6 DEF SendMessageToSendRoom
  <2>2. ~TakesForPosted(t)
    BY DEF TakesForPosted, Idle
  <2> QED
    BY <1>6, <2>1, <2>2, StatesKept, SentCall, SentReturn
<1>7. CASE /\ flow.state = "Sent"
           /\ IF failed THEN Return(w) ELSE SendMessageToSendRoom(w, f, "edit", prev.post)
           /\ UNCHANGED flows
  <2> DEFINE t == [Idle EXCEPT !.pc = "edit", !.f = f, !.room = sendRoom,
                               !.post = prev.post, !.snap = flows[f].items]
  <2>1. Call(w, t) \/ Return(w)
    BY <1>7 DEF SendMessageToSendRoom
  <2>2. HasPost(t.f)
    BY <1>1, <1>7 DEF SentInv, SentWasPosted, Idle
  <2> QED
    BY <1>2, <1>7, <2>1, <2>2, StatesKept, SentClaim, SentReturn
<1> QED
  BY <1>3, <1>4, <1>5, <1>6, <1>7 DEF Confirmed

LEMMA SentPreviousPostRead ==
  ASSUME TypeOK, SentInv, NEW w \in Workers, PreviousPostRead(w)
  PROVE  SentInv'
BY SentConfirmed DEF PreviousPostRead, Awaits, serverVars, procVars

\* The end of the process.
LEMMA SentDies ==
  ASSUME TypeOK, SentInv, Die, UNCHANGED <<posts, prev>>,
         disk'.rec.state = "Sent" => WillHavePost(disk'.flow)
  PROVE  SentInv'
<1>1. NoNewSent
  BY DEF Die, NoNewSent, BlankStandupFlow
<1>2. NoNewClaim
  BY DEF Die, NoNewClaim, TakesForPosted, Idle
<1> QED
  BY <1>1, <1>2, PostsUnchanged, SentStates, SentClaims, SentPrev, SentInvAfter

LEMMA SentPreviewPanics ==
  ASSUME TypeOK, SentInv, NEW w \in Workers, PreviewPanics(w)
  PROVE  SentInv'
<1>1. Die /\ UNCHANGED <<posts, prev, disk>>
  BY DEF PreviewPanics, serverVars
<1> QED
  BY <1>1, PostsUnchanged, SentDisk, SentDies

-----------------------------------------------------------------------------
(* command_handler.go. *)

\* Steps that replace the map entry by a blank flow.
LEMMA SentStartBlankFlow ==
  ASSUME TypeOK, SentInv, NEW w \in Workers, StartBlankFlow(w),
         CreatePost(w) \/ UNCHANGED task, UNCHANGED <<posts, prev, disk>>
  PROVE  SentInv'
<1>1. NoNewSent
  BY BlankFlowNotSent DEF TypeOK, MemoryOK
<1>2. CASE CreatePost(w)
  BY <1>1, <1>2, CallsThatClaimNothing, SentCall DEF CreatePost
<1>3. CASE UNCHANGED task
  BY <1>1, <1>3, ClaimsKept, PostsUnchanged, SentCarried
<1> QED
  BY <1>2, <1>3

\* Steps that only wait for a call, or for nothing any more.
LEMMA SentPassing ==
  ASSUME TypeOK, SentInv, NEW w \in Workers,
         \/ UNCHANGED task
         \/ Return(w)
         \/ \E t : Call(w, t) /\ ~TakesForPosted(t),
         UNCHANGED <<flows, posts, prev, disk>>
  PROVE  SentInv'
BY StatesKept, ClaimsKept, PostsUnchanged, SentCall, SentReturn, SentCarried

LEMMA SentCommands ==
  ASSUME TypeOK, SentInv, NEW w \in Workers,
         \/ New(w) \/ Cancel(w) \/ Undo(w) \/ OtherCommand(w)
         \/ \E s \in Section : EditSection(w, s)
         \/ \E r \in SendRooms : HandleRoom(w, r)
         \/ \E onOff \in {"on", "off"} : HandleThreads(w, onOff)
  PROVE  SentInv'
<1>1. CASE New(w)
  BY <1>1, SentStartBlankFlow DEF New, serverVars, procVars
<1>2. CASE Cancel(w)
  BY <1>2, SentStartBlankFlow DEF Cancel, serverVars, procVars
<1>3. CASE Undo(w)
  <2> DEFINE t == [Idle EXCEPT !.pc = "undoRead", !.room = sendRoom]
  <2>1. Call(w, t) /\ UNCHANGED <<flows, posts, prev, disk>>
    BY <1>3 DEF Undo, memVars, serverVars, procVars
  <2>2. ~TakesForPosted(t)
    BY DEF TakesForPosted, Idle
  <2> QED
    BY <2>1, <2>2, SentPassing
<1>4. CASE OtherCommand(w)
  BY <1>4, SentPassing DEF OtherCommand, memVars, serverVars, procVars
<1>5. ASSUME NEW s \in Section, EditSection(w, s)
      PROVE  SentInv'
  BY <1>5, CallsThatClaimNothing, SentPassing DEF EditSection, memVars, serverVars, procVars
<1>6. ASSUME NEW r \in SendRooms, HandleRoom(w, r)
      PROVE  SentInv'
  <2> DEFINE t == [Idle EXCEPT !.pc = "writeRoom", !.room = r]
  <2>1. Call(w, t) /\ UNCHANGED <<flows, posts, prev, disk>>
    BY <1>6 DEF HandleRoom, memVars, serverVars, procVars
  <2>2. ~TakesForPosted(t)
    BY DEF TakesForPosted, Idle
  <2> QED
    BY <2>1, <2>2, SentPassing
<1>7. ASSUME NEW onOff \in {"on", "off"}, HandleThreads(w, onOff)
      PROVE  SentInv'
  <2> DEFINE t == [Idle EXCEPT !.pc = "writeThreads", !.arg = onOff]
  <2>1. Call(w, t) /\ UNCHANGED <<flows, posts, prev, disk>>
    BY <1>7 DEF HandleThreads, memVars, serverVars, procVars
  <2>2. ~TakesForPosted(t)
    BY DEF TakesForPosted, Idle
  <2> QED
    BY <2>1, <2>2, SentPassing
<1> QED
  BY <1>1, <1>2, <1>3, <1>4, <1>5, <1>6, <1>7

\* Answers to the calls of commands that leave the flows and the posts alone.
LEMMA SentCommandAnswers ==
  ASSUME TypeOK, SentInv, NEW w \in Workers,
         UndoRead(w) \/ RedactRefused(w) \/ SendRoomSet(w) \/ SendRoomTold(w) \/ UseThreadsSet(w)
  PROVE  SentInv'
<1>1. CASE UndoRead(w)
  <2>1. PICK failed \in BOOLEAN :
          Call(w, [task[w] EXCEPT !.pc = "undoRedact", !.post = IF failed THEN 0 ELSE prev.post])
    BY <1>1 DEF UndoRead
  <2> DEFINE t == [task[w] EXCEPT !.pc = "undoRedact", !.post = IF failed THEN 0 ELSE prev.post]
  <2>2. t.pc = "undoRedact"
    BY DEF TypeOK, TasksOK, Task
  <2>3. ~TakesForPosted(t)
    BY <2>2 DEF TakesForPosted
  <2>4. UNCHANGED <<flows, posts, prev, disk>>
    BY <1>1 DEF UndoRead, memVars, serverVars, procVars
  <2> QED
    BY <2>1, <2>3, <2>4, SentPassing
<1>2. CASE RedactRefused(w)
  BY <1>2, SentPassing DEF RedactRefused, memVars, serverVars, procVars
<1>3. CASE SendRoomSet(w)
  <2>1. ~TakesForPosted([Idle EXCEPT !.pc = "tellRoom"])
    BY DEF TakesForPosted, Idle
  <2> QED
    BY <1>3, <2>1, SentPassing DEF SendRoomSet, memVars, serverVars, procVars
<1>4. CASE SendRoomTold(w)
  BY <1>4, CallsThatClaimNothing, SentPassing DEF SendRoomTold, memVars, serverVars, procVars
<1>5. CASE UseThreadsSet(w)
  BY <1>5, SentPassing DEF UseThreadsSet, memVars, serverVars, procVars
<1> QED
  BY <1>1, <1>2, <1>3, <1>4, <1>5

\* A redacted post is a post that was made.
LEMMA SentRedacted ==
  ASSUME TypeOK, SentInv, NEW w \in Workers, Redacted(w)
  PROVE  SentInv'
<1> DEFINE p == task[w].post
<1>1. p \in DOMAIN posts /\ posts' = [posts EXCEPT ![p].live = FALSE] /\ posts \in Seq(Post)
  BY DEF Redacted, Redactable, TypeOK, ServerOK
<1>2. PostsStay
  BY <1>1 DEF PostsStay, Post
<1>3. UNCHANGED <<flows, prev, disk>>
  BY DEF Redacted, memVars, procVars
<1>4. ~TakesForPosted([Idle EXCEPT !.pc = "tellUndone"])
  BY DEF TakesForPosted, Idle
<1>5. NoNewClaim
  BY <1>4, CallsNoClaim, ReturnsNoClaim DEF Redacted, TypeOK
<1> QED
  BY <1>2, <1>3, <1>5, StatesKept, SentCarried

LEMMA SentUndone ==
  ASSUME TypeOK, SentInv, NEW w \in Workers, Undone(w)
  PROVE  SentInv'
<1> DEFINE t == [Idle EXCEPT !.pc = "undoWrite"]
<1>1. /\ Call(w, t) /\ flows' = [flows EXCEPT ![current].state = "Confirm"]
      /\ UNCHANGED <<posts, prev, disk>>
  BY DEF Undone, serverVars, procVars
<1>2. current \in DOMAIN flows /\ flows[current] \in StandupFlow /\ flows \in Seq(StandupFlow)
  BY CurrentEntry DEF Undone, Awaits, NeedsEntry, TypeOK, TasksOK, TaskOK, MemoryOK
<1>3. [flows[current] EXCEPT !.state = "Confirm"].state # "Sent"
  BY <1>2 DEF StandupFlow
<1>4. NoNewSent
  BY <1>1, <1>2, <1>3 DEF NoNewSent
<1>5. ~TakesForPosted(t)
  BY DEF TakesForPosted, Idle
<1> QED
  BY <1>1, <1>4, <1>5, SentCall

LEMMA SentPreviousPostCleared ==
  ASSUME TypeOK, SentInv, NEW w \in Workers, PreviousPostCleared(w)
  PROVE  SentInv'
<1>1. Return(w) /\ prev'.flow = 0 /\ UNCHANGED <<flows, posts, disk>>
  BY DEF PreviousPostCleared, EmptyPreviousPost, memVars, procVars
<1>2. PostsStay /\ NoNewSent /\ NoNewClaim
  BY <1>1, PostsUnchanged, StatesKept, ReturnsNoClaim DEF TypeOK
<1> QED
  BY <1>1, <1>2, SentStates, SentClaims, SentDisk, SentInvAfter

\* Steps that change the items of the current flow, and may show its preview again.
LEMMA SentItems ==
  ASSUME TypeOK, SentInv, NEW w \in Workers, current # 0, NEW items, NEW t,
         flows' = [flows EXCEPT ![current].items = items],
         UNCHANGED task \/ Call(w, t), ~TakesForPosted(t),
         UNCHANGED <<posts, prev, disk>>
  PROVE  SentInv'
<1>1. current \in DOMAIN flows /\ flows[current] \in StandupFlow /\ flows \in Seq(StandupFlow)
  BY CurrentEntry DEF TypeOK, MemoryOK
<1>2. [flows[current] EXCEPT !.items = items].state = flows[current].state
  BY <1>1 DEF StandupFlow
<1>3. NoNewSent
  BY <1>1, <1>2 DEF NoNewSent
<1>4. NoNewClaim
  BY ClaimsKept, CallsNoClaim DEF TypeOK
<1> QED
  BY <1>3, <1>4, PostsUnchanged, SentCarried

LEMMA SentMessages ==
  ASSUME TypeOK, SentInv, NEW w \in Workers,
         \/ HandleMessage(w)
         \/ \E item \in CurrentFlow.items : HandleEdit(w, item) \/ HandleRedaction(w, item)
         \/ \E s \in Section : HandleReply(w, s)
  PROVE  SentInv'
<1>1. CASE HandleMessage(w)
  <2> DEFINE t == [Idle EXCEPT !.pc = "itemMark", !.f = current]
  <2>1. /\ current # 0 /\ flows' = [flows EXCEPT ![current].items = Written]
        /\ Call(w, t) /\ UNCHANGED <<posts, prev, disk>>
    BY <1>1 DEF HandleMessage, Content, WriteItem, serverVars, procVars
  <2>2. ~TakesForPosted(t)
    BY DEF TakesForPosted, Idle
  <2> HIDE DEF t
  <2> QED
    BY <2>1, <2>2, SentItems
<1>2. ASSUME NEW item \in CurrentFlow.items, HandleEdit(w, item)
      PROVE  SentInv'
  <2> DEFINE edited == (flows[current].items \ {item}) \cup {[item EXCEPT !.body = 1 - @]}
             edits == EditingPreview(current, edited, "none")
             shows == ShowingPreview(current, edited, "none")
  <2>1. /\ current # 0 /\ flows' = [flows EXCEPT ![current].items = edited]
        /\ UNCHANGED <<posts, prev, disk>> /\ AfterEdit(w, current, edited)
    BY <1>2 DEF HandleEdit, Content, serverVars, procVars
  <2>2. ~TakesForPosted(edits) /\ ~TakesForPosted(shows)
    BY CallsThatClaimNothing
  <2>3. UNCHANGED task \/ Call(w, edits) \/ Call(w, shows)
    BY <2>1 DEF AfterEdit
  <2> HIDE DEF edited, edits, shows
  <2> QED
    BY <2>1, <2>2, <2>3, SentItems
<1>3. ASSUME NEW item \in CurrentFlow.items, HandleRedaction(w, item)
      PROVE  SentInv'
  <2> DEFINE left == flows[current].items \ {item}
             edits == EditingPreview(current, left, "none")
  <2>1. /\ current # 0 /\ flows' = [flows EXCEPT ![current].items = left]
        /\ UNCHANGED <<posts, prev, disk>> /\ (UNCHANGED task \/ Call(w, edits))
    BY <1>3 DEF HandleRedaction, serverVars, procVars
  <2>2. ~TakesForPosted(edits)
    BY CallsThatClaimNothing
  <2> HIDE DEF left, edits
  <2> QED
    BY <2>1, <2>2, SentItems
<1>4. ASSUME NEW s \in Section, HandleReply(w, s)
      PROVE  SentInv'
  <2> DEFINE edits == EditingPreview(current, Written, "reply")
  <2>1. /\ current # 0 /\ flows' = [flows EXCEPT ![current].items = Written]
        /\ Call(w, edits) /\ UNCHANGED <<posts, prev, disk>>
    BY <1>4 DEF HandleReply, Content, WriteItem, serverVars, procVars
  <2>2. ~TakesForPosted(edits)
    BY CallsThatClaimNothing
  <2> HIDE DEF edits
  <2> QED
    BY <2>1, <2>2, SentItems
<1> QED
  BY <1>1, <1>2, <1>3, <1>4

\* Answers that add a reactable event or edit the preview.
LEMMA SentFlowAnswers ==
  ASSUME TypeOK, SentInv, NEW w \in Workers,
         ItemMarked(w) \/ PreviewEdited(w) \/ ResendOffered(w)
  PROVE  SentInv'
<1> DEFINE t == task[w]
<1>1. t.f \in DOMAIN flows /\ flows[t.f] \in StandupFlow /\ flows \in Seq(StandupFlow)
  BY HeldFlow DEF ItemMarked, PreviewEdited, ResendOffered, Awaits, HoldsFlow, TypeOK, MemoryOK
<1>2. UNCHANGED <<posts, prev, disk>>
  BY DEF ItemMarked, PreviewEdited, ResendOffered, serverVars, procVars
<1>3. NoNewClaim
  <2>1. ~TakesForPosted([Idle EXCEPT !.pc = "resend", !.f = t.f])
    BY DEF TakesForPosted, Idle
  <2>2. Return(w) \/ Call(w, [Idle EXCEPT !.pc = "resend", !.f = t.f])
    BY DEF ItemMarked, PreviewEdited, ResendOffered
  <2> QED
    BY <2>1, <2>2, CallsNoClaim, ReturnsNoClaim DEF TypeOK
<1>4. NoNewSent
  <2> DEFINE marked  == AddReactable(flows[t.f], "item")
             edited  == EditShown(flows[t.f], t)
             offered == [AddReactable(flows[t.f], "resend") EXCEPT !.resend = TRUE]
  <2>1. /\ marked.state = flows[t.f].state
        /\ edited.state = flows[t.f].state
        /\ offered.state = flows[t.f].state
    BY <1>1 DEF AddReactable, EditShown, StandupFlow
  <2>2. \/ flows' = [flows EXCEPT ![t.f] = marked]
        \/ flows' = [flows EXCEPT ![t.f] = edited]
        \/ flows' = [flows EXCEPT ![t.f] = offered]
    BY DEF ItemMarked, PreviewEdited, ResendOffered
  <2> HIDE DEF marked, edited, offered
  <2> QED
    BY <1>1, <2>1, <2>2, StateWritten
<1> QED
  BY <1>2, <1>3, <1>4, PostsUnchanged, SentCarried

LEMMA SentGivesUp ==
  ASSUME TypeOK, SentInv, NEW w \in Workers, GivesUp(w)
  PROVE  SentInv'
BY SentPassing DEF GivesUp, memVars, serverVars, procVars

-----------------------------------------------------------------------------
(* standupbot.go. *)

LEMMA SentNotify ==
  ASSUME TypeOK, SentInv, NEW w \in Workers, Notify(w) \/ Notified(w)
  PROVE  SentInv'
<1>1. CASE Notify(w)
  <2>1. ~TakesForPosted([Idle EXCEPT !.pc = "notify"])
    BY DEF TakesForPosted, Idle
  <2> QED
    BY <1>1, <2>1, SentPassing DEF Notify, memVars, serverVars, procVars
<1>2. CASE Notified(w)
  BY <1>2, SentStartBlankFlow DEF Notified, serverVars, procVars
<1> QED
  BY <1>1, <1>2

\* Steps of no goroutine that leave the flows alone.
LEMMA SentIdle ==
  ASSUME SentInv, UNCHANGED <<flows, task, posts, prev, disk>>
  PROVE  SentInv'
BY PostsUnchanged, StatesKept, ClaimsKept, SentCarried

\* What is saved is the current flow, under its own FlowID.
LEMMA SentTerminate ==
  ASSUME TypeOK, SentInv, Terminate
  PROVE  SentInv'
<1>1. Die /\ UNCHANGED <<posts, prev>>
  BY DEF Terminate, Stop, serverVars
<1>2. PostsStay
  BY <1>1, PostsUnchanged
<1>3. CASE disk' = [text |-> "good", flow |-> current, rec |-> CurrentFlow]
  <2>1. ASSUME CurrentFlow.state = "Sent"
        PROVE  HasPost(current)
    BY <2>1 DEF CurrentFlow, BlankStandupFlow, SentInv, SentWasPosted, TypeOK, MemoryOK
  <2> QED
    BY <1>1, <1>2, <1>3, <2>1, HasPostStays, SentDies
<1>4. CASE disk' = [NoFile EXCEPT !.text = "garbled"]
  <2>1. disk'.rec.state # "Sent"
    BY <1>4 DEF NoFile, BlankStandupFlow
  <2> QED
    BY <1>1, <2>1, SentDies
<1> QED
  BY <1>3, <1>4 DEF Terminate

LEMMA SentKill ==
  ASSUME TypeOK, SentInv, Kill
  PROVE  SentInv'
<1>1. Die /\ UNCHANGED <<posts, prev, disk>>
  BY DEF Kill, Stop, serverVars
<1> QED
  BY <1>1, PostsUnchanged, SentDisk, SentDies

\* What is loaded is what was saved.
LEMMA SentStart ==
  ASSUME TypeOK, SentInv, Start
  PROVE  SentInv'
<1> DEFINE f == LoadedFlow(disk)
<1>1. /\ UNCHANGED <<task, posts, prev, disk>>
      /\ flows' = IF f = 0 THEN flows ELSE [flows EXCEPT ![f] = disk.rec]
  BY DEF Start, serverVars
<1>2. PostsStay /\ NoNewClaim
  BY <1>1, PostsUnchanged, ClaimsKept
<1>3. f = 0 \/ f = disk.flow
  BY DEF LoadedFlow
<1>4. ASSUME NEW g \in DOMAIN flows', flows'[g].state = "Sent"
      PROVE  WillHavePost(g)
  <2>1. CASE g \in DOMAIN flows /\ flows[g].state = "Sent"
    BY <1>2, <2>1, HasPostStays DEF SentInv, SentWasPosted
  <2>2. CASE g = disk.flow /\ disk.rec.state = "Sent"
    BY <1>2, <2>2, HasPostStays DEF SentInv
  <2>3. flows \in Seq(StandupFlow)
    BY DEF TypeOK, MemoryOK
  <2> HIDE DEF f
  <2> QED
    BY <1>1, <1>3, <1>4, <2>1, <2>2, <2>3
<1> QED
  BY <1>1, <1>2, <1>4, SentClaims, SentPrev, SentDisk, SentInvAfter

-----------------------------------------------------------------------------

LEMMA SentInit == Init => SentInv
BY DEF Init, SentInv, SentWasPosted, TakesForPosted, Idle, NoPreviousPost, NoFile, BlankStandupFlow

LEMMA SentNext ==
  ASSUME TypeOK, SentInv, [Next]_vars
  PROVE  SentInv'
<1>1. ASSUME NEW w \in Workers, Input(w)
      PROVE  SentInv'
  BY <1>1, SentCommands, SentMessages, SentHandleReaction DEF Input
<1>2. ASSUME NEW w \in Workers, Answer(w)
      PROVE  SentInv'
  BY <1>2, SentAsked, SentRootSent, SentPreviewShown, SentFlowAnswers, SentReactCross,
     SentReactCheck, SentPreviousPostRead, SentPosted, SentPostEdited, SentMarkSent,
     SentPreviousPostStored, SentCommandAnswers, SentRedacted, SentUndone,
     SentPreviousPostCleared, SentNotify DEF Answer
<1>3. ASSUME NEW w \in Workers, Failure(w)
      PROVE  SentInv'
  BY <1>3, SentPreviewPanics, SentPosted, SentGivesUp DEF Failure
<1>4. ASSUME NEW w \in Workers, Notify(w)
      PROVE  SentInv'
  BY <1>4, SentNotify
<1>5. ASSUME NEW r \in SendRooms, SetMembership(r)
      PROVE  SentInv'
  BY <1>5, SentIdle DEF SetMembership, memVars, serverVars, procVars
<1>6. CASE UNCHANGED vars
  BY <1>6, SentIdle DEF vars
<1> QED
  BY <1>1, <1>2, <1>3, <1>4, <1>5, <1>6, SentTerminate, SentKill, SentStart DEF Next

\* SentInv is an invariant: neither a handler, nor previous_post, nor
\* current-flows.json ever speaks of a flow as posted that was not, under every
\* interleaving of the handlers of create_post.go and command_handler.go, every lost
\* answer and every restart.
THEOREM SentInductive == Spec => []SentInv
<1>1. Init => SentInv
  BY SentInit
<1>2. TypeOK /\ SentInv /\ [Next]_vars => SentInv'
  BY SentNext
<1> QED
  BY <1>1, <1>2, TypeCorrect, PTL DEF Spec

\* A flow in the state Sent was posted (create_post.go:260 is the only assignment of
\* it that is not about a flow that previous_post names).
THEOREM SentCorrect == Spec => []SentWasPosted
<1>1. SentInv => SentWasPosted
  BY DEF SentInv
<1> QED
  BY <1>1, SentInductive, PTL

=============================================================================
