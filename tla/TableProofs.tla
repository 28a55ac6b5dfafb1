------------------------------ MODULE TableProofs ------------------------------
(***************************************************************************)
(* The theorem about Delivery that the tables follow the rooms, whatever   *)
(* batches, failures, panics and restarts there are.                       *)
(***************************************************************************)
EXTENDS DeliveryProofs, FiniteSetTheorems

-----------------------------------------------------------------------------
(* The last event that speaks of a user. *)

\* A set of places has a last one.
LEMMA LastOfSet ==
  ASSUME NEW n \in Nat, NEW P \in SUBSET (1 .. n)
  PROVE  /\ P = {} => LastOf(P) = 0
         /\ P # {} => LastOf(P) \in P /\ \A q \in P : q <= LastOf(P)
<1> DEFINE After(p) == {q \in P : q > p}
           T == {After(p) : p \in P}
           W == FiniteSubsetsOf(P)
           R == StrictSubsetOrdering(P)
<1>1. CASE P = {}
  BY <1>1 DEF LastOf
<1>2. CASE P # {}
  <2>1. IsWellFoundedOn(R, W)
    BY FS_StrictSubsetOrderingWellFounded
  <2>2. IsFiniteSet(P)
    <3> HIDE DEF T, W, R, After
    <3>1. IsFiniteSet(1 .. n)
      BY FS_Interval
    <3> QED
      BY <3>1, FS_Subset
  <2>3. W = SUBSET P
    BY <2>2, FS_FiniteSubsetsOfFinite
  <2>4. T \subseteq W /\ T # {}
    <3> HIDE DEF W
    <3>1. \A p \in P : After(p) \in SUBSET P
      OBVIOUS
    <3> HIDE DEF After
    <3> QED
      BY <1>2, <2>3, <3>1
  <2>5. PICK X \in T : \A Y \in T : ~(<<Y, X>> \in R)
    <3> HIDE DEF T, W, R
    <3> QED
      BY <2>1, <2>4, WFMin
  <2>6. PICK p \in P : X = After(p)
    OBVIOUS
  <2>7. ASSUME NEW q \in P, q > p PROVE FALSE
    <3>0. P \subseteq Int
      OBVIOUS
    <3>1. q \in After(p) /\ q \notin After(q)
      BY <2>7, <3>0
    <3>4. p \in Int /\ q \in Int
      BY <3>0
    <3>5. ASSUME NEW x \in After(q) PROVE x \in After(p)
      <4>1. x \in Int /\ x \in P /\ x > q
        BY <3>0, <3>5
      <4>2. x > p
        BY <2>7, <3>4, <4>1
      <4> QED
        BY <4>1, <4>2
    <3>2. <<After(q), After(p)>> \in R
      BY <3>1, <3>5 DEF StrictSubsetOrdering
    <3> QED
      BY <2>5, <2>6, <3>2
  <2>8. \A q \in P : q <= p
    BY <2>7
  <2> HIDE DEF After, T, W, R
  <2>9. \E x \in P : \A q \in P : q <= x
    BY <2>8
  <2> QED
    BY <1>2, <2>9 DEF LastOf
<1> QED
  BY <1>1, <1>2

Speaks(tl, p, r, u) == tl[p].type = "member" /\ tl[p].room = r /\ tl[p].user = u

\* The place that LastMember finds speaks of the user, and none after it does.
LEMMA LastMemberPlace ==
  ASSUME NEW tl, NEW n \in Nat, NEW r, NEW u
  PROVE  LET p == LastMember(tl, n, r, u)
         IN /\ p \in 0 .. n
            /\ p # 0 => Speaks(tl, p, r, u)
            /\ \A q \in 1 .. n : Speaks(tl, q, r, u) => q <= p
<1> DEFINE P == {p \in 1 .. n : tl[p].type = "member" /\ tl[p].room = r /\ tl[p].user = u}
<1>1. LastMember(tl, n, r, u) = LastOf(P)
  BY DEF LastMember
<1>2. P \in SUBSET (1 .. n)
  OBVIOUS
<1>3. /\ P = {} => LastOf(P) = 0
      /\ P # {} => LastOf(P) \in P /\ \A q \in P : q <= LastOf(P)
  <2> HIDE DEF P
  <2> QED
    BY <1>2, LastOfSet
<1>4. CASE P = {}
  <2>1. LastOf(P) = 0
    BY <1>3, <1>4
  <2>2. \A q \in 1 .. n : ~Speaks(tl, q, r, u)
    BY <1>4 DEF Speaks
  <2> QED
    BY <1>1, <2>1, <2>2
<1>5. CASE P # {}
  <2>1. LastOf(P) \in P /\ \A q \in P : q <= LastOf(P)
    BY <1>3, <1>5
  <2>2. LastOf(P) \in 1 .. n /\ Speaks(tl, LastOf(P), r, u)
    BY <2>1 DEF Speaks
  <2>3. \A q \in 1 .. n : Speaks(tl, q, r, u) => q <= LastOf(P)
    BY <2>1 DEF Speaks
  <2> HIDE DEF P
  <2> QED
    BY <1>1, <2>2, <2>3
<1> QED
  BY <1>4, <1>5

\* A timeline that goes on has another last event only for those its new event speaks of.
LEMMA LastMemberGrows ==
  ASSUME NEW tl, NEW tl2, NEW n \in Nat, NEW r, NEW u,
         \A p \in 1 .. n : tl2[p] = tl[p]
  PROVE  LET p == LastMember(tl, n, r, u)
             q == LastMember(tl2, n + 1, r, u)
         IN q = p \/ q = n + 1
<1> DEFINE p == LastMember(tl, n, r, u)
           q == LastMember(tl2, n + 1, r, u)
<1>1. /\ p \in 0 .. n /\ (p # 0 => Speaks(tl, p, r, u))
      /\ \A x \in 1 .. n : Speaks(tl, x, r, u) => x <= p
  BY LastMemberPlace
<1>2. n + 1 \in Nat
  OBVIOUS
<1>3. /\ q \in 0 .. (n + 1) /\ (q # 0 => Speaks(tl2, q, r, u))
      /\ \A x \in 1 .. (n + 1) : Speaks(tl2, x, r, u) => x <= q
  <2> DEFINE m == n + 1
  <2>1. m \in Nat
    BY <1>2
  <2> HIDE DEF m
  <2>2. LET z == LastMember(tl2, m, r, u)
        IN /\ z \in 0 .. m /\ (z # 0 => Speaks(tl2, z, r, u))
           /\ \A x \in 1 .. m : Speaks(tl2, x, r, u) => x <= z
    BY <2>1, LastMemberPlace
  <2> QED
    BY <2>2 DEF m
<1> HIDE DEF p, q
<1>4. \A x \in 1 .. n : Speaks(tl2, x, r, u) <=> Speaks(tl, x, r, u)
  BY DEF Speaks
<1>5. q # n + 1 => q \in 0 .. n
  BY <1>3
<1>6. CASE q # n + 1
  <2>1. q # 0 => q <= p
    BY <1>1, <1>3, <1>4, <1>5, <1>6
  <2>2. p # 0 => p <= q
    BY <1>1, <1>3, <1>4
  <2>3. p \in Nat /\ q \in Nat
    BY <1>1, <1>3
  <2>4. q = p
    BY <2>1, <2>2, <2>3
  <2> QED
    BY <2>4 DEF p, q
<1> QED
  BY <1>6 DEF p, q

-----------------------------------------------------------------------------
(* The tables, up to the place that the sync loop has come to. *)

\* The first place that the tables have not been told of, as far as the sync loop knows.
Place == IF sync.pc = "batch" THEN sync.next
         ELSE IF sync.pc = "idle" THEN sync.last + 1
         ELSE LoadNextBatch + 1

Last(r, u)  == LastMember(timeline, Len(timeline), r, u)
Joined(r, u) == IsMember(timeline, Len(timeline), r, u)

\* The token that is saved is never ahead of the batch.
TokenBehind == sync.pc # "start" => LoadNextBatch <= sync.last

MembersFollow == \A r \in Rooms : \A u \in Users :
  Last(r, u) < Place /\ Last(r, u) \notin lost => (<<r, u>> \in members <=> Joined(r, u))

EncryptionFollows == \A p \in 1 .. Len(timeline) :
  p < Place /\ p \notin lost /\ timeline[p].type = "encryption" => IsEncrypted(timeline[p].room)

TablesInv == TypeOK /\ TokenBehind /\ MembersFollow /\ EncryptionFollows

\* The places are numbers, and the tables know nothing of an event that is not there.
LEMMA Places ==
  ASSUME StoreOK
  PROVE  /\ Len(timeline) \in Nat /\ sync.next \in Nat /\ sync.last \in Nat
         /\ LoadNextBatch \in Nat /\ LoadNextBatch <= Len(timeline)
         /\ Place \in Nat /\ 0 < Place /\ Place <= Len(timeline) + 1
         /\ \A r, u : Last(r, u) \in 0 .. Len(timeline)
<1>1. /\ LoadNextBatch \in Nat /\ LoadNextBatch <= Len(timeline) /\ Len(timeline) \in Nat
      /\ sync \in SyncLoop /\ sync.last <= Len(timeline)
      /\ sync.pc = "batch" => sync.next \in 1 .. sync.last
  BY LoadNextBatchType DEF StoreOK, SyncOK
<1>2. sync.next \in Nat /\ sync.last \in Nat
  BY <1>1 DEF SyncLoop
<1>3. \A r, u : Last(r, u) \in 0 .. Len(timeline)
  BY <1>1, LastMemberPlace DEF Last
<1>4. Place \in Nat /\ 0 < Place /\ Place <= Len(timeline) + 1
  BY <1>1, <1>2 DEF Place
<1> QED
  BY <1>1, <1>2, <1>3, <1>4

\* A timeline that stays as it is says of the users what it has said.
LEMMA SameLast ==
  ASSUME UNCHANGED timeline, NEW r, NEW u
  PROVE  Last(r, u)' = Last(r, u) /\ (Joined(r, u)' <=> Joined(r, u))
BY DEF Last, Joined, LastMember, IsMember

\* The sync loop comes to no place that it had not come to, but for places that are lost.
LEMMA NothingNew ==
  ASSUME TablesInv, TypeOK', TokenBehind', UNCHANGED <<timeline, members>>,
         \A r : IsEncrypted(r) => IsEncrypted(r)',
         \A p \in 0 .. Len(timeline) : p < Place' /\ p \notin lost' => p < Place /\ p \notin lost
  PROVE  TablesInv'
<1>1. MembersFollow'
  <2> SUFFICES ASSUME NEW r \in Rooms, NEW u \in Users, Last(r, u)' < Place', Last(r, u)' \notin lost'
               PROVE  <<r, u>> \in members' <=> Joined(r, u)'
    BY DEF MembersFollow
  <2>1. Last(r, u)' = Last(r, u) /\ (Joined(r, u)' <=> Joined(r, u))
    BY SameLast
  <2>2. Last(r, u) \in 0 .. Len(timeline)
    BY Places DEF TablesInv, TypeOK
  <2>3. Last(r, u) < Place /\ Last(r, u) \notin lost
    BY <2>1, <2>2
  <2> QED
    BY <2>1, <2>3 DEF TablesInv, MembersFollow
<1>2. EncryptionFollows'
  <2> SUFFICES ASSUME NEW p \in 1 .. Len(timeline'), p < Place', p \notin lost',
                      timeline'[p].type = "encryption"
               PROVE  Select(encryption', timeline'[p].room, FALSE)
    BY DEF EncryptionFollows, IsEncrypted
  <2>1. p \in 1 .. Len(timeline) /\ p \in 0 .. Len(timeline) /\ timeline'[p] = timeline[p]
    BY Places DEF TablesInv, TypeOK
  <2>2. p < Place /\ p \notin lost
    BY <2>1
  <2>3. IsEncrypted(timeline[p].room)
    BY <2>1, <2>2 DEF TablesInv, EncryptionFollows
  <2>4. PICK r : r = timeline[p].room
    OBVIOUS
  <2>5. IsEncrypted(r)'
    BY <2>3, <2>4
  <2>6. Select(encryption', r, FALSE)
    BY <2>5 DEF IsEncrypted
  <2> QED
    BY <2>1, <2>4, <2>6
<1> QED
  BY <1>1, <1>2 DEF TablesInv

\* A step that leaves the sync loop and its tables alone.
LEMMA TablesStutter ==
  ASSUME TablesInv, TypeOK', UNCHANGED <<timeline, batchTokens, encryption, members, sync, lost>>
  PROVE  TablesInv'
<1>1. Place' = Place /\ TokenBehind'
  BY DEF Place, LoadNextBatch, TablesInv, TokenBehind
<1>2. \A r : IsEncrypted(r) => IsEncrypted(r)'
  BY DEF IsEncrypted
<1> QED
  BY <1>1, <1>2, NothingNew

\* With an event handled the sync loop comes to the next place.
LEMMA HandledPlace ==
  ASSUME StoreOK, TokenBehind, sync.pc = "batch", Handled, UNCHANGED batchTokens
  PROVE  /\ Place = sync.next /\ Place' = sync.next + 1
         /\ TokenBehind'
<1>1. sync \in SyncLoop /\ sync.next \in Nat
  BY Places DEF StoreOK, SyncOK
<1>2. /\ sync'.last = sync.last /\ sync'.next = sync.next + 1
      /\ sync'.pc = IF sync.next = sync.last THEN "idle" ELSE "batch"
  <2> DEFINE pc == IF sync.next = sync.last THEN "idle" ELSE "batch"
  <2>1. sync' = [sync EXCEPT !.next = sync.next + 1, !.half = FALSE, !.pc = pc]
    BY DEF Handled
  <2> HIDE DEF pc
  <2>2. sync'.last = sync.last /\ sync'.next = sync.next + 1 /\ sync'.pc = pc
    BY <1>1, <2>1 DEF SyncLoop
  <2> QED
    BY <2>2 DEF pc
<1>3. LoadNextBatch' = LoadNextBatch
  BY DEF LoadNextBatch
<1> QED
  BY <1>2, <1>3 DEF Place, TokenBehind

\* The sync loop begins anew, at the token that was saved: of the batch, what is not
\* handled and comes before that token is lost.
LEMMA BeginAgain ==
  ASSUME TablesInv, TypeOK', sync' = Starting, LoseBatch, UNCHANGED <<timeline, tableVars>>
  PROVE  TablesInv'
<1>1. UNCHANGED <<batchTokens, encryption, members>> /\ sync'.pc = "start"
  BY DEF tableVars, Starting
<1>2. TokenBehind' /\ Place' = LoadNextBatch + 1
  BY <1>1 DEF TokenBehind, Place, LoadNextBatch
<1>3. /\ LoadNextBatch \in Nat /\ LoadNextBatch <= Len(timeline) /\ Len(timeline) \in Nat
      /\ sync.next \in Nat /\ sync.last \in Nat
      /\ sync.pc # "start" => LoadNextBatch <= sync.last
  BY Places DEF TablesInv, TypeOK, TokenBehind
<1>4. ASSUME NEW p \in 0 .. Len(timeline), p < Place', p \notin lost'
      PROVE  p < Place /\ p \notin lost
  <2>1. p \notin lost
    BY <1>4 DEF LoseBatch
  <2>2. p <= LoadNextBatch /\ p \in Nat
    BY <1>2, <1>3, <1>4
  <2>3. CASE sync.pc = "batch"
    <3>1. p \notin sync.next .. sync.last
      BY <1>4, <2>2, <2>3 DEF LoseBatch
    <3>2. p < sync.next
      BY <1>3, <2>2, <2>3, <3>1
    <3> QED
      BY <2>1, <2>3, <3>2 DEF Place
  <2>4. CASE sync.pc # "batch"
    BY <1>3, <2>1, <2>2, <2>4 DEF Place, TablesInv, TypeOK, StoreOK, SyncOK, SyncLoop
  <2> QED
    BY <2>3, <2>4
<1>5. \A r : IsEncrypted(r) => IsEncrypted(r)'
  BY <1>1 DEF IsEncrypted
<1> QED
  BY <1>1, <1>2, <1>4, <1>5, NothingNew

-----------------------------------------------------------------------------
(* The steps of the sync loop. *)

LEMMA SyncStartsKeepsTables ==
  ASSUME TablesInv, TypeOK', SyncStarts
  PROVE  TablesInv'
<1>1. UNCHANGED <<timeline, batchTokens, encryption, members, lost>> /\ sync.pc = "start"
  BY DEF SyncStarts
<1>2. sync'.pc = "idle" /\ sync'.last = LoadNextBatch
  BY DEF SyncStarts, Starting
<1>3. LoadNextBatch' = LoadNextBatch /\ LoadNextBatch \in Nat
  BY <1>1, Places DEF LoadNextBatch, TablesInv, TypeOK
<1>4. Place' = Place /\ TokenBehind'
  BY <1>1, <1>2, <1>3 DEF Place, TokenBehind
<1>5. \A r : IsEncrypted(r) => IsEncrypted(r)'
  BY <1>1 DEF IsEncrypted
<1> QED
  BY <1>1, <1>4, <1>5, NothingNew

LEMMA SaveNextBatchKeepsTables ==
  ASSUME TablesInv, TypeOK', SaveNextBatch
  PROVE  TablesInv'
<1>1. /\ UNCHANGED <<timeline, encryption, members, lost>>
      /\ sync.pc = "idle" /\ sync.last < Len(timeline) /\ sync.next = sync.last + 1
      /\ sync \in SyncLoop
  BY DEF SaveNextBatch, TablesInv, TypeOK, StoreOK, SyncOK
<1>2. sync'.pc = "batch" /\ sync'.last = Len(timeline) /\ sync'.next = sync.next
  <2> DEFINE n == Len(timeline)
  <2>1. sync' = [sync EXCEPT !.pc = "batch", !.last = n]
    BY DEF SaveNextBatch
  <2> HIDE DEF n
  <2>2. sync'.pc = "batch" /\ sync'.last = n /\ sync'.next = sync.next
    BY <1>1, <2>1 DEF SyncLoop
  <2> QED
    BY <2>2 DEF n
<1>3. LoadNextBatch' <= Len(timeline)
  <2> DEFINE V == 0 .. Len(timeline)
  <2>1. batchTokens' \in SUBSET ({Bot} \X V) /\ 0 \in V /\ Len(timeline) \in Nat
    BY <1>1, Places DEF TablesInv, TypeOK, StoreOK, TablesOK
  <2> HIDE DEF V
  <2>2. Select(batchTokens', Bot, 0) \in V \cup {0}
    BY <2>1, SelectType
  <2> QED
    BY <2>1, <2>2 DEF LoadNextBatch, V
<1>4. TokenBehind' /\ Place' = Place
  BY <1>1, <1>2, <1>3 DEF TokenBehind, Place
<1>5. \A r : IsEncrypted(r) => IsEncrypted(r)'
  BY <1>1 DEF IsEncrypted
<1> QED
  BY <1>1, <1>4, <1>5, NothingNew

LEMMA HandleMemberEventKeepsTables ==
  ASSUME TablesInv, TypeOK', HandleMemberEvent \/ MemberEventFails
  PROVE  TablesInv'
<1>1. /\ UNCHANGED <<timeline, batchTokens, encryption, members, lost>>
      /\ sync \in SyncLoop /\ sync' = [sync EXCEPT !.half = TRUE]
  BY DEF HandleMemberEvent, MemberEventFails, tableVars, TablesInv, TypeOK, StoreOK, SyncOK
<1>2. sync'.pc = sync.pc /\ sync'.next = sync.next /\ sync'.last = sync.last
  BY <1>1 DEF SyncLoop
<1>3. LoadNextBatch' = LoadNextBatch
  BY <1>1 DEF LoadNextBatch
<1>4. Place' = Place /\ TokenBehind'
  BY <1>2, <1>3 DEF Place, TokenBehind, TablesInv
<1>5. \A r : IsEncrypted(r) => IsEncrypted(r)'
  BY <1>1 DEF IsEncrypted
<1> QED
  BY <1>1, <1>4, <1>5, NothingNew

\* An event that has been missed is lost; the others are those of before.
LEMMA StatementFailsKeepsTables ==
  ASSUME TablesInv, TypeOK', StatementFails
  PROVE  TablesInv'
<1>1. /\ UNCHANGED <<timeline, batchTokens, encryption, members>>
      /\ sync.pc = "batch" /\ Handled /\ lost' = lost \cup {sync.next}
  BY DEF StatementFails, Storing, Handling, tableVars
<1>2. Place = sync.next /\ Place' = sync.next + 1 /\ TokenBehind'
  BY <1>1, HandledPlace DEF TablesInv, TypeOK
<1>3. sync.next \in Nat /\ Len(timeline) \in Nat
  BY Places DEF TablesInv, TypeOK
<1>4. ASSUME NEW p \in 0 .. Len(timeline), p < Place', p \notin lost'
      PROVE  p < Place /\ p \notin lost
  BY <1>1, <1>2, <1>3, <1>4
<1>5. \A r : IsEncrypted(r) => IsEncrypted(r)'
  BY <1>1 DEF IsEncrypted
<1> QED
  BY <1>1, <1>2, <1>4, <1>5, NothingNew

\* What the last event that speaks of a user says of them.
LEMMA LastSpeaks ==
  ASSUME StoreOK, NEW r, NEW u
  PROVE  /\ Last(r, u) \in 0 .. Len(timeline)
         /\ Last(r, u) # 0 => Speaks(timeline, Last(r, u), r, u)
         /\ \A q \in 1 .. Len(timeline) : Speaks(timeline, q, r, u) => q <= Last(r, u)
         /\ Joined(r, u) <=> Last(r, u) # 0 /\ timeline[Last(r, u)].membership # "leave"
<1>1. Len(timeline) \in Nat
  BY Places
<1>2. Joined(r, u) <=> Last(r, u) # 0 /\ timeline[Last(r, u)].membership # "leave"
  BY DEF Joined, IsMember, Last
<1> QED
  BY <1>1, <1>2, LastMemberPlace DEF Last

\* A member event changes the row of its user and no other.
LEMMA SetMembershipKeepsTables ==
  ASSUME TablesInv, TypeOK', SetMembership
  PROVE  TablesInv'
<1> DEFINE n == sync.next
           e == timeline[n]
<1>1. /\ UNCHANGED <<timeline, batchTokens, encryption>>
      /\ sync.pc = "batch" /\ e.type = "member" /\ Handled /\ lost' = lost \ {n}
      /\ members' = IF e.membership \in {"invite", "join"}
                    THEN members \cup {<<e.room, e.user>>}
                    ELSE members \ {<<e.room, e.user>>}
  BY DEF SetMembership, Handling
<1>2. StoreOK
  BY DEF TablesInv, TypeOK
<1>3. Place = n /\ Place' = n + 1 /\ TokenBehind'
  BY <1>1, <1>2, HandledPlace DEF TablesInv
<1>4. n \in 1 .. Len(timeline) /\ e \in MemberEvent /\ Len(timeline) \in Nat
  BY <1>1, <1>2, BatchPlace, EventType, Places
<1>5. e.membership \in {"invite", "join", "leave"}
  BY <1>4 DEF MemberEvent, Membership
<1> HIDE DEF n, e
<1>6. MembersFollow'
  <2> SUFFICES ASSUME NEW r \in Rooms, NEW u \in Users, Last(r, u)' < Place', Last(r, u)' \notin lost'
               PROVE  <<r, u>> \in members' <=> Joined(r, u)'
    BY DEF MembersFollow
  <2>1. Last(r, u)' = Last(r, u) /\ (Joined(r, u)' <=> Joined(r, u))
    BY <1>1, SameLast
  <2> DEFINE p == Last(r, u)
  <2>2. /\ p \in 0 .. Len(timeline)
        /\ p # 0 => Speaks(timeline, p, r, u)
        /\ Speaks(timeline, n, r, u) => n <= p
        /\ Joined(r, u) <=> p # 0 /\ timeline[p].membership # "leave"
    BY <1>2, <1>4, LastSpeaks
  <2>3. p < n + 1 /\ p \notin lost \ {n}
    BY <1>1, <1>3, <2>1
  <2> HIDE DEF p
  <2>4. Speaks(timeline, n, r, u) <=> r = e.room /\ u = e.user
    BY <1>1 DEF Speaks, e
  <2>5. CASE p = n
    <3>1. r = e.room /\ u = e.user /\ (Joined(r, u) <=> e.membership # "leave")
      BY <1>4, <2>2, <2>4, <2>5 DEF e
    <3>2. <<r, u>> \in members' <=> e.membership \in {"invite", "join"}
      BY <1>1, <3>1
    <3> QED
      BY <1>5, <2>1, <3>1, <3>2
  <2>6. CASE p # n
    <3>1. p < n /\ p \notin lost
      BY <1>4, <2>2, <2>3, <2>6
    <3>2. ~(r = e.room /\ u = e.user)
      BY <1>4, <2>2, <2>4, <3>1
    <3>3. <<r, u>> \in members' <=> <<r, u>> \in members
      BY <1>1, <3>2
    <3>4. <<r, u>> \in members <=> Joined(r, u)
      BY <1>3, <3>1 DEF TablesInv, MembersFollow, p
    <3> QED
      BY <2>1, <3>3, <3>4
  <2> QED
    BY <2>5, <2>6
<1>7. EncryptionFollows'
  <2> SUFFICES ASSUME NEW p \in 1 .. Len(timeline'), p < Place', p \notin lost',
                      timeline'[p].type = "encryption"
               PROVE  Select(encryption', timeline'[p].room, FALSE)
    BY DEF EncryptionFollows, IsEncrypted
  <2>1. p \in 1 .. Len(timeline) /\ timeline[p].type = "encryption"
    BY <1>1
  <2>2. p # n
    BY <1>1, <2>1 DEF e
  <2>3. p < Place /\ p \notin lost
    BY <1>1, <1>3, <1>4, <2>1, <2>2
  <2>4. IsEncrypted(timeline[p].room)
    BY <2>1, <2>3 DEF TablesInv, EncryptionFollows
  <2> QED
    BY <1>1, <2>4 DEF IsEncrypted
<1> QED
  BY <1>3, <1>6, <1>7 DEF TablesInv

\* An encryption event changes the row of its room, and no room loses its encryption.
LEMMA SetEncryptionEventKeepsTables ==
  ASSUME TablesInv, TypeOK', SetEncryptionEvent
  PROVE  TablesInv'
<1> DEFINE n == sync.next
           k == timeline[n].room
           yes == TRUE
<1>1. /\ UNCHANGED <<timeline, batchTokens, members>>
      /\ sync.pc = "batch" /\ timeline[n].type = "encryption" /\ Handled /\ lost' = lost \ {n}
      /\ encryption' = Upsert(encryption, k, yes)
  BY DEF SetEncryptionEvent, Handling
<1>2. StoreOK /\ TablesOK /\ TablesOK'
  BY DEF TablesInv, TypeOK, StoreOK
<1>3. Place = n /\ Place' = n + 1 /\ TokenBehind'
  BY <1>1, <1>2, HandledPlace DEF TablesInv
<1>4. n \in 1 .. Len(timeline) /\ k \in Rooms /\ Len(timeline) \in Nat
  BY <1>1, <1>2, BatchPlace, EventType, Places
<1>5. Select(encryption', k, FALSE)
  <2> DEFINE V == {TRUE}
  <2>1. encryption \in SUBSET (Rooms \X V) /\ Keyed(encryption) /\ yes \in V
    BY <1>2 DEF TablesOK
  <2>2. encryption' \subseteq Rooms \X {TRUE}
    BY <1>2 DEF TablesOK
  <2> HIDE DEF V, yes, k
  <2>3. <<k, yes>> \in encryption'
    BY <1>1, <1>4, <2>1, UpsertKeeps
  <2>4. \E row \in encryption' : row[1] = k
    BY <2>3
  <2> QED
    BY <2>2, <2>4, EncryptedRow
<1> HIDE DEF n, k, yes
<1>6. \A r : IsEncrypted(r) => IsEncrypted(r)'
  BY <1>1, <1>2, EncryptionStays
<1>7. MembersFollow'
  <2> SUFFICES ASSUME NEW r \in Rooms, NEW u \in Users, Last(r, u)' < Place', Last(r, u)' \notin lost'
               PROVE  <<r, u>> \in members' <=> Joined(r, u)'
    BY DEF MembersFollow
  <2>1. Last(r, u)' = Last(r, u) /\ (Joined(r, u)' <=> Joined(r, u))
    BY <1>1, SameLast
  <2> DEFINE p == Last(r, u)
  <2>2. p \in 0 .. Len(timeline) /\ (p # 0 => Speaks(timeline, p, r, u))
    BY <1>2, LastSpeaks
  <2>3. p # n
    BY <1>1, <1>4, <2>2 DEF Speaks
  <2>4. p < Place /\ p \notin lost
    BY <1>1, <1>3, <1>4, <2>1, <2>2, <2>3
  <2>5. <<r, u>> \in members <=> Joined(r, u)
    BY <2>4 DEF TablesInv, MembersFollow
  <2> QED
    BY <1>1, <2>1, <2>5
<1>8. EncryptionFollows'
  <2> SUFFICES ASSUME NEW p \in 1 .. Len(timeline'), p < Place', p \notin lost',
                      timeline'[p].type = "encryption"
               PROVE  Select(encryption', timeline'[p].room, FALSE)
    BY DEF EncryptionFollows, IsEncrypted
  <2>1. p \in 1 .. Len(timeline) /\ timeline[p].type = "encryption" /\ timeline' = timeline
    BY <1>1
  <2>2. CASE p = n
    BY <1>5, <2>1, <2>2 DEF k
  <2>3. CASE p # n
    <3>1. p < Place /\ p \notin lost
      BY <1>1, <1>3, <1>4, <2>1, <2>3
    <3>2. IsEncrypted(timeline[p].room)
      BY <2>1, <3>1 DEF TablesInv, EncryptionFollows
    <3>3. PICK r : r = timeline[p].room
      OBVIOUS
    <3>4. IsEncrypted(r)'
      BY <1>6, <3>2, <3>3
    <3>5. Select(encryption', r, FALSE)
      BY <3>4 DEF IsEncrypted
    <3> QED
      BY <2>1, <3>3, <3>5
  <2> QED
    BY <2>2, <2>3
<1> QED
  BY <1>3, <1>7, <1>8 DEF TablesInv

\* An event of a room is not one that the sync loop has come to.
LEMMA RoomEventKeepsTables ==
  ASSUME TablesInv, TypeOK', RoomEvent
  PROVE  TablesInv'
<1> DEFINE n == Len(timeline)
<1>1. UNCHANGED <<batchTokens, encryption, members, sync, lost>>
  BY DEF RoomEvent, tableVars
<1>2. /\ n \in Nat /\ Len(timeline') = n + 1
      /\ \A p \in 1 .. n : timeline'[p] = timeline[p]
  BY RoomEventGrows DEF TablesInv, TypeOK
<1>3. Place' = Place /\ TokenBehind'
  BY <1>1 DEF Place, LoadNextBatch, TablesInv, TokenBehind
<1>4. Place \in Nat /\ Place <= n + 1
  BY Places DEF TablesInv, TypeOK
<1>5. MembersFollow'
  <2> SUFFICES ASSUME NEW r \in Rooms, NEW u \in Users, Last(r, u)' < Place', Last(r, u)' \notin lost'
               PROVE  <<r, u>> \in members' <=> Joined(r, u)'
    BY DEF MembersFollow
  <2> DEFINE p == LastMember(timeline, n, r, u)
             q == LastMember(timeline', n + 1, r, u)
             tl == timeline'
  <2>1. Last(r, u) = p /\ Last(r, u)' = q
    BY <1>2 DEF Last
  <2>2. /\ Joined(r, u) <=> p # 0 /\ timeline[p].membership # "leave"
        /\ Joined(r, u)' <=> q # 0 /\ timeline'[q].membership # "leave"
    BY <1>2 DEF Joined, IsMember
  <2>3. p \in 0 .. n
    BY <1>2, LastMemberPlace
  <2>4. q = p \/ q = n + 1
    <3>1. \A x \in 1 .. n : tl[x] = timeline[x]
      BY <1>2
    <3>2. q = LastMember(tl, n + 1, r, u)
      OBVIOUS
    <3> HIDE DEF tl, q, n
    <3> QED
      BY <1>2, <3>1, <3>2, LastMemberGrows DEF n
  <2> HIDE DEF p, q, n, tl
  <2>5. q = p
    BY <1>2, <1>3, <1>4, <2>1, <2>4
  <2>6. p < Place /\ p \notin lost
    BY <1>1, <1>3, <2>1, <2>5
  <2>7. <<r, u>> \in members <=> Joined(r, u)
    BY <2>1, <2>6 DEF TablesInv, MembersFollow
  <2>8. p # 0 => timeline'[p] = timeline[p]
    BY <1>2, <2>3
  <2> QED
    BY <1>1, <2>2, <2>5, <2>7, <2>8
<1>6. EncryptionFollows'
  <2> SUFFICES ASSUME NEW p \in 1 .. Len(timeline'), p < Place', p \notin lost',
                      timeline'[p].type = "encryption"
               PROVE  Select(encryption', timeline'[p].room, FALSE)
    BY DEF EncryptionFollows, IsEncrypted
  <2>1. p \in 1 .. n /\ timeline'[p] = timeline[p]
    BY <1>2, <1>3, <1>4
  <2>2. IsEncrypted(timeline[p].room)
    BY <1>1, <1>3, <2>1 DEF TablesInv, EncryptionFollows
  <2> QED
    BY <1>1, <2>1, <2>2 DEF IsEncrypted
<1> QED
  BY <1>3, <1>5, <1>6 DEF TablesInv

LEMMA NextTables == TablesInv /\ [Next]_vars => TablesInv'
<1> SUFFICES ASSUME TablesInv, [Next]_vars PROVE TablesInv'
  OBVIOUS
<1>1. TypeOK'
  BY NextType DEF TablesInv
<1> DEFINE Idle == UNCHANGED <<timeline, batchTokens, encryption, members, sync, lost>>
<1>2. CASE Idle
  BY <1>1, <1>2, TablesStutter
<1>3. ASSUME NEW c \in Calls, SendMessage(c) \/ CallStep(c) PROVE Idle
  BY <1>3 DEF CallStep, SendMessage, Attempt, AttemptBlindly, SessionShared, SendAnswered,
              SendAnswerLost, RequestFails, storeVars, tableVars
<1>4. ASSUME NEW r \in Rooms, SessionExpires(r) PROVE Idle
  BY <1>4 DEF SessionExpires, tableVars
<1>5. CASE MembershipSet
  BY <1>1, <1>5, SetMembershipKeepsTables DEF MembershipSet
<1>6. CASE Besides(SyncStarts)
  BY <1>1, <1>6, SyncStartsKeepsTables DEF Besides
<1>7. CASE Besides(SaveNextBatch)
  BY <1>1, <1>7, SaveNextBatchKeepsTables DEF Besides
<1>8. CASE Besides(HandleMemberEvent)
  BY <1>1, <1>8, HandleMemberEventKeepsTables DEF Besides
<1>15. CASE Besides(MemberEventFails)
  BY <1>1, <1>15, HandleMemberEventKeepsTables DEF Besides
<1>9. CASE Besides(SetEncryptionEvent)
  BY <1>1, <1>9, SetEncryptionEventKeepsTables DEF Besides
<1>10. CASE Besides(StatementFails)
  BY <1>1, <1>10, StatementFailsKeepsTables DEF Besides
<1>11. CASE Besides(BeginPanics)
  BY <1>1, <1>11, BeginAgain DEF Besides, BeginPanics
<1>12. CASE Besides(RoomEvent)
  BY <1>1, <1>12, RoomEventKeepsTables DEF Besides
<1>13. CASE Restart
  BY <1>1, <1>13, BeginAgain DEF Restart
<1>14. CASE UNCHANGED vars
  <2>1. Idle
    BY <1>14 DEF vars, storeVars, tableVars
  <2> QED
    BY <1>2, <2>1
<1> HIDE DEF Idle
<1> QED
  BY <1>2, <1>3, <1>4, <1>5, <1>6, <1>7, <1>8, <1>9, <1>10, <1>11, <1>12, <1>13, <1>14,
     <1>15 DEF Next

LEMMA InitTables == Init => TablesInv
<1> SUFFICES ASSUME Init PROVE TablesInv
  OBVIOUS
<1>1. TypeOK
  BY InitType
<1>2. sync.pc = "start"
  BY DEF Init, StoreInit, Starting
<1>3. MembersFollow
  <2>1. members = {m \in Rooms \X Users : IsMember(timeline, Len(timeline), m[1], m[2])}
    BY DEF Init, StoreInit
  <2>2. \A r \in Rooms : \A u \in Users : <<r, u>> \in members <=> Joined(r, u)
    BY <2>1 DEF Joined
  <2> QED
    BY <2>2 DEF MembersFollow
<1>4. EncryptionFollows
  <2> SUFFICES ASSUME NEW p \in 1 .. Len(timeline), timeline[p].type = "encryption"
               PROVE  IsEncrypted(timeline[p].room)
    BY DEF EncryptionFollows
  <2> DEFINE k == timeline[p].room
  <2>1. timeline \in Seq(Event)
    BY <1>1 DEF TypeOK, StoreOK
  <2>2. k \in Rooms
    BY <2>1, EventType
  <2>3. HasEncryption(timeline, Len(timeline), k)
    BY DEF HasEncryption
  <2>4. encryption = {<<r, TRUE>> : r \in {q \in Rooms : HasEncryption(timeline, Len(timeline), q)}}
    BY DEF Init, StoreInit
  <2> HIDE DEF k
  <2>5. k \in {q \in Rooms : HasEncryption(timeline, Len(timeline), q)}
    BY <2>2, <2>3
  <2>6. \E row \in encryption : row[1] = k
    <3> DEFINE S == {q \in Rooms : HasEncryption(timeline, Len(timeline), q)}
               yes == TRUE
    <3>1. encryption = {<<r, yes>> : r \in S} /\ k \in S
      BY <2>4, <2>5
    <3> HIDE DEF S, yes
    <3>2. <<k, yes>> \in encryption
      BY <3>1
    <3> QED
      BY <3>2
  <2>7. encryption \subseteq Rooms \X {TRUE}
    BY <1>1 DEF TypeOK, StoreOK, TablesOK
  <2>8. Select(encryption, k, FALSE)
    BY <2>6, <2>7, EncryptedRow
  <2> QED
    BY <2>8 DEF IsEncrypted, k
<1> QED
  BY <1>1, <1>2, <1>3, <1>4 DEF TablesInv, TokenBehind

LEMMA TablesFollow == TablesInv => TableFollowsTimeline
<1> SUFFICES ASSUME TablesInv, CaughtUp, NEW r \in Rooms
             PROVE  /\ \A u \in Users : LET p == LastMember(timeline, Len(timeline), r, u)
                         IN p \notin lost =>
                              (u \in GetRoomMembers(r) <=> IsMember(timeline, Len(timeline), r, u))
                    /\ \A p \in 1 .. Len(timeline) \ lost :
                         timeline[p].type = "encryption" /\ timeline[p].room = r => IsEncrypted(r)
  BY DEF TableFollowsTimeline
<1>1. Place = Len(timeline) + 1 /\ Len(timeline) \in Nat
  BY Places DEF TablesInv, TypeOK, CaughtUp, Place
<1>2. ASSUME NEW u \in Users, LastMember(timeline, Len(timeline), r, u) \notin lost
      PROVE  u \in GetRoomMembers(r) <=> IsMember(timeline, Len(timeline), r, u)
  <2>1. Last(r, u) \in 0 .. Len(timeline) /\ Last(r, u) \notin lost
    BY <1>2, Places DEF TablesInv, TypeOK, Last
  <2>2. Last(r, u) < Place
    BY <1>1, <2>1
  <2>3. <<r, u>> \in members <=> Joined(r, u)
    BY <2>1, <2>2 DEF TablesInv, MembersFollow
  <2> QED
    BY <2>3 DEF GetRoomMembers, Joined
<1>3. ASSUME NEW p \in 1 .. Len(timeline) \ lost, timeline[p].type = "encryption",
             timeline[p].room = r
      PROVE  IsEncrypted(r)
  <2>1. p < Place
    BY <1>1
  <2> QED
    BY <1>3, <2>1 DEF TablesInv, EncryptionFollows
<1> QED
  BY <1>2, <1>3

\* Once the sync loop has caught up, the bot takes for the members of a room, and for its
\* encryption, what the homeserver says, but for the events that were lost: for any
\* timeline and any number of batches, failed statements, panics and restarts.
THEOREM TableCorrect == Spec => []TableFollowsTimeline
<1> QED
  BY InitTables, NextTables, TablesFollow, PTL DEF Spec

=============================================================================
