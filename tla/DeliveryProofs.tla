---------------------------- MODULE DeliveryProofs ----------------------------
(***************************************************************************)
(* Theorems about Delivery, for any number of calls, rooms, users, events, *)
(* failures and restarts.                                                  *)
(***************************************************************************)
EXTENDS Delivery, TLAPS

-----------------------------------------------------------------------------
(* Tables. *)

\* An upsert keeps a table keyed, and makes the row of the key the one given.
LEMMA UpsertKeeps ==
  ASSUME NEW K, NEW V, NEW rows \in SUBSET (K \X V), Keyed(rows), NEW k \in K, NEW v \in V
  PROVE  /\ Keyed(Upsert(rows, k, v))
         /\ Upsert(rows, k, v) \subseteq K \X V
         /\ <<k, v>> \in Upsert(rows, k, v)
<1> DEFINE up == Update(rows, k, v)
<1>1. up \subseteq K \X V /\ Keyed(up)
  BY DEF Update, Keyed
<1>2. \A row \in up : row[1] = k => row = <<k, v>>
  BY DEF Update
<1>3. Upsert(rows, k, v) = IF \E row \in up : row[1] = k THEN up ELSE up \cup {<<k, v>>}
  BY DEF Upsert, InsertOrIgnore
<1> HIDE DEF up
<1>4. CASE \E row \in up : row[1] = k
  BY <1>1, <1>2, <1>3, <1>4
<1>5. CASE ~(\E row \in up : row[1] = k)
  <2>1. Upsert(rows, k, v) = up \cup {<<k, v>>}
    BY <1>3, <1>5
  <2>2. Keyed(Upsert(rows, k, v))
    BY <1>1, <1>5, <2>1 DEF Keyed
  <2> QED
    BY <1>1, <2>1, <2>2
<1> QED
  BY <1>4, <1>5

\* No key is lost in an upsert.
LEMMA UpsertGrows ==
  ASSUME NEW rows, NEW k, NEW v, NEW row \in rows
  PROVE  \E x \in Upsert(rows, k, v) : x[1] = row[1]
<1> DEFINE up == Update(rows, k, v)
<1>1. (IF row[1] = k THEN <<k, v>> ELSE row) \in up
  BY DEF Update
<1>2. up \subseteq Upsert(rows, k, v)
  BY DEF Upsert, InsertOrIgnore
<1> HIDE DEF up
<1> QED
  BY <1>1, <1>2

\* A look-up finds a row, or there is none.
LEMMA SelectType ==
  ASSUME NEW K, NEW V, NEW rows \in SUBSET (K \X V), NEW k, NEW zero
  PROVE  Select(rows, k, zero) \in V \cup {zero}
<1>1. CASE \E row \in rows : row[1] = k
  <2>1. (CHOOSE row \in rows : row[1] = k) \in rows
    BY <1>1
  <2> QED
    BY <1>1, <2>1 DEF Select
<1> QED
  BY <1>1 DEF Select

\* A room is encrypted if the table has a row for it.
LEMMA EncryptedRow ==
  ASSUME NEW rows, rows \subseteq Rooms \X {TRUE}, NEW r
  PROVE  Select(rows, r, FALSE) <=> \E row \in rows : row[1] = r
<1>1. CASE \E row \in rows : row[1] = r
  <2>1. (CHOOSE row \in rows : row[1] = r) \in rows
    BY <1>1
  <2>2. (CHOOSE row \in rows : row[1] = r)[2] = TRUE
    BY <2>1
  <2>3. Select(rows, r, FALSE) = TRUE
    BY <1>1, <2>2 DEF Select
  <2> QED
    BY <1>1, <2>3
<1>2. CASE ~(\E row \in rows : row[1] = r)
  <2>1. Select(rows, r, FALSE) = FALSE
    BY <1>2 DEF Select
  <2> QED
    BY <1>2, <2>1
<1> QED
  BY <1>1, <1>2

-----------------------------------------------------------------------------
(* Types. *)

\* What a place in the batch that is being handled is.
LEMMA BatchPlace ==
  ASSUME StoreOK, sync.pc = "batch"
  PROVE  /\ sync.next \in 1 .. Len(timeline) /\ sync.next <= sync.last
         /\ timeline[sync.next] \in Event
         /\ sync.last \in Nat /\ sync.last <= Len(timeline)
<1>1. timeline \in Seq(Event) /\ SyncOK
  BY DEF StoreOK
<1> QED
  BY <1>1 DEF SyncOK, SyncLoop

LEMMA EventType ==
  ASSUME NEW e \in Event
  PROVE  e.room \in Rooms /\ (e.type = "member" => e \in MemberEvent)
BY DEF Event, MemberEvent, EncryptionEvent

\* The sync loop comes to the next event, or to the end of the batch.
LEMMA HandledType ==
  ASSUME StoreOK, sync.pc = "batch", Handled, UNCHANGED timeline
  PROVE  SyncOK' /\ ~sync'.half
<1>1. sync \in SyncLoop
  BY DEF StoreOK, SyncOK
<1>2. /\ sync.next \in Nat /\ sync.next <= sync.last /\ sync.last \in Nat
      /\ sync.last <= Len(timeline)
  BY BatchPlace
<1>3. /\ sync' \in SyncLoop /\ ~sync'.half /\ sync'.last = sync.last
      /\ sync'.next = sync.next + 1
      /\ sync.next = sync.last => sync'.pc = "idle"
      /\ sync.next # sync.last => sync'.pc = "batch"
  <2> DEFINE pc == IF sync.next = sync.last THEN "idle" ELSE "batch"
  <2>1. sync' = [sync EXCEPT !.next = sync.next + 1, !.half = FALSE, !.pc = pc]
    BY DEF Handled
  <2>2. /\ pc \in {"idle", "batch"}
        /\ sync.next = sync.last => pc = "idle"
        /\ sync.next # sync.last => pc = "batch"
    OBVIOUS
  <2> HIDE DEF pc
  <2>0. /\ DOMAIN sync = {"pc", "next", "last", "half"}
        /\ sync.next + 1 \in Nat
    BY <1>1 DEF SyncLoop
  <2>3. /\ sync'.last = sync.last
        /\ sync'.next = sync.next + 1 /\ sync'.pc = pc
    BY <2>0, <2>1
  <2>5. sync' \in SyncLoop
    BY <1>1, <2>0, <2>1, <2>2 DEF SyncLoop
  <2>4. ~sync'.half
    BY <1>1, <2>1 DEF SyncLoop
  <2> QED
    BY <2>2, <2>3, <2>4, <2>5
<1>4. sync.next \in 1 .. Len(timeline)
  BY BatchPlace
<1> QED
  BY <1>2, <1>3, <1>4 DEF SyncOK

LEMMA LoadNextBatchType ==
  ASSUME StoreOK
  PROVE  LoadNextBatch \in Nat /\ LoadNextBatch <= Len(timeline) /\ Len(timeline) \in Nat
<1> DEFINE V == 0 .. Len(timeline)
<1>1. timeline \in Seq(Event)
  BY DEF StoreOK
<1>2. batchTokens \in SUBSET ({Bot} \X V)
  BY DEF StoreOK, TablesOK
<1>3. Len(timeline) \in Nat /\ 0 \in V
  BY <1>1
<1> HIDE DEF V
<1>4. Select(batchTokens, Bot, 0) \in V \cup {0}
  BY <1>2, SelectType
<1> QED
  BY <1>3, <1>4 DEF LoadNextBatch, V

LEMMA SyncStartsType == StoreOK /\ SyncStarts => StoreOK'
<1> SUFFICES ASSUME StoreOK, SyncStarts PROVE StoreOK'
  OBVIOUS
<1>1. LoadNextBatch \in Nat /\ LoadNextBatch <= Len(timeline) /\ Len(timeline) \in Nat
  BY LoadNextBatchType
<1>2. Keyed(filterIds') /\ filterIds' \subseteq {Bot} \X {"filter"}
  <2>1. filterIds \in SUBSET ({Bot} \X {"filter"}) /\ Keyed(filterIds)
    BY DEF StoreOK, TablesOK
  <2>2. LET up == Upsert(filterIds, Bot, "filter")
        IN Keyed(up) /\ up \subseteq {Bot} \X {"filter"}
    BY <2>1, UpsertKeeps
  <2> QED
    BY <2>1, <2>2 DEF SyncStarts
<1>3. TablesOK'
  BY <1>2 DEF StoreOK, TablesOK, SyncStarts
<1>4. SyncOK'
  <2>1. /\ sync' \in SyncLoop /\ ~sync'.half /\ sync'.pc = "idle"
        /\ sync'.last = LoadNextBatch /\ sync'.next = LoadNextBatch + 1
    <3>1. sync' = [pc |-> "idle", next |-> LoadNextBatch + 1, last |-> LoadNextBatch,
                   half |-> FALSE]
      BY DEF SyncStarts, Starting
    <3> QED
      BY <1>1, <3>1 DEF SyncLoop
  <2>2. timeline' = timeline
    BY DEF SyncStarts
  <2> QED
    BY <1>1, <2>1, <2>2 DEF SyncOK
<1>5. faults \in Nat /\ (faults' = faults \/ faults' = faults + 1)
  BY DEF SyncStarts, Fault, StoreOK
<1>6. UNCHANGED <<timeline, session, lost, restarts>>
  BY DEF SyncStarts
<1>7. faults' \in Nat
  BY <1>5
<1> QED
  BY <1>3, <1>4, <1>6, <1>7 DEF StoreOK

LEMMA SaveNextBatchType == StoreOK /\ SaveNextBatch => StoreOK'
<1> SUFFICES ASSUME StoreOK, SaveNextBatch PROVE StoreOK'
  OBVIOUS
<1>1. timeline \in Seq(Event) /\ Len(timeline) \in Nat /\ timeline' = timeline
  BY DEF StoreOK, SaveNextBatch
<1>2. Keyed(batchTokens') /\ batchTokens' \subseteq {Bot} \X (0 .. Len(timeline))
  <2> DEFINE V == 0 .. Len(timeline)
  <2>1. batchTokens \in SUBSET ({Bot} \X V) /\ Keyed(batchTokens)
    BY DEF StoreOK, TablesOK
  <2>2. Len(timeline) \in V
    BY <1>1
  <2> HIDE DEF V
  <2>3. LET up == Upsert(batchTokens, Bot, Len(timeline))
        IN Keyed(up) /\ up \subseteq {Bot} \X V
    BY <2>1, <2>2, UpsertKeeps
  <2>4. batchTokens' \in {batchTokens, Upsert(batchTokens, Bot, Len(timeline))}
    BY DEF SaveNextBatch
  <2>5. Keyed(batchTokens') /\ batchTokens' \subseteq {Bot} \X V
    BY <2>1, <2>3, <2>4
  <2> QED
    BY <2>5 DEF V
<1>3. TablesOK'
  BY <1>1, <1>2 DEF StoreOK, TablesOK, SaveNextBatch
<1>4. SyncOK'
  <2>1. sync \in SyncLoop /\ sync.next = sync.last + 1 /\ sync.last < Len(timeline) /\ ~sync.half
    BY DEF SaveNextBatch, StoreOK, SyncOK
  <2>2. /\ sync' \in SyncLoop /\ ~sync'.half /\ sync'.pc = "batch"
        /\ sync'.last = Len(timeline) /\ sync'.next = sync.next
    BY <1>1, <2>1 DEF SaveNextBatch, SyncLoop
  <2>3. sync.last \in Nat
    BY <2>1 DEF SyncLoop
  <2> QED
    BY <1>1, <2>1, <2>2, <2>3 DEF SyncOK
<1>5. faults \in Nat /\ (faults' = faults \/ faults' = faults + 1)
  BY DEF SaveNextBatch, Fault, StoreOK
<1> QED
  BY <1>1, <1>3, <1>4, <1>5 DEF StoreOK, SaveNextBatch

LEMMA DropSessionType ==
  ASSUME session \in [Rooms -> Session], NEW r \in Rooms, DropSession(r)
  PROVE  session' \in [Rooms -> Session]
BY DEF DropSession, Session, NoSession

LEMMA HandleMemberEventType == StoreOK /\ HandleMemberEvent => StoreOK'
<1> SUFFICES ASSUME StoreOK, HandleMemberEvent PROVE StoreOK'
  OBVIOUS
<1> DEFINE r == timeline[sync.next].room
<1>1. sync.pc = "batch" /\ timeline[sync.next].type = "member"
  BY DEF HandleMemberEvent, Handling
<1>2. r \in Rooms
  BY <1>1, BatchPlace, EventType
<1>3. session' \in [Rooms -> Session]
  <2>1. DropSession(r) \/ UNCHANGED session
    BY DEF HandleMemberEvent
  <2> QED
    BY <1>2, <2>1, DropSessionType DEF StoreOK
<1>4. SyncOK'
  <2>1. sync \in SyncLoop /\ sync' = [sync EXCEPT !.half = TRUE] /\ timeline' = timeline
    BY DEF HandleMemberEvent, StoreOK, SyncOK
  <2>2. /\ sync' \in SyncLoop /\ sync'.pc = sync.pc /\ sync'.next = sync.next
        /\ sync'.last = sync.last
    BY <2>1 DEF SyncLoop
  <2> QED
    BY <1>1, <2>1, <2>2 DEF SyncOK, StoreOK
<1> QED
  BY <1>3, <1>4 DEF StoreOK, HandleMemberEvent, TablesOK, tableVars, boundVars

LEMMA MemberEventFailsType == StoreOK /\ MemberEventFails => StoreOK'
<1> SUFFICES ASSUME StoreOK, MemberEventFails PROVE StoreOK'
  OBVIOUS
<1> DEFINE r == timeline[sync.next].room
<1>1. sync.pc = "batch" /\ timeline[sync.next].type = "member"
  BY DEF MemberEventFails, Handling
<1>2. r \in Rooms
  BY <1>1, BatchPlace, EventType
<1>3. session' \in [Rooms -> Session]
  <2>1. session' = [session EXCEPT ![r].stale = session[r].shared]
    BY DEF MemberEventFails
  <2> QED
    BY <1>2, <2>1 DEF StoreOK, Session
<1>4. SyncOK'
  <2>1. sync \in SyncLoop /\ sync' = [sync EXCEPT !.half = TRUE] /\ timeline' = timeline
    BY DEF MemberEventFails, StoreOK, SyncOK
  <2>2. /\ sync' \in SyncLoop /\ sync'.pc = sync.pc /\ sync'.next = sync.next
        /\ sync'.last = sync.last
    BY <2>1 DEF SyncLoop
  <2> QED
    BY <1>1, <2>1, <2>2 DEF SyncOK, StoreOK
<1>5. faults' \in Nat /\ restarts' \in Nat
  BY DEF MemberEventFails, Fault, StoreOK
<1> QED
  BY <1>3, <1>4, <1>5 DEF StoreOK, MemberEventFails, TablesOK, tableVars

LEMMA SetMembershipType == StoreOK /\ SetMembership => StoreOK'
<1> SUFFICES ASSUME StoreOK, SetMembership PROVE StoreOK'
  OBVIOUS
<1>1. sync.pc = "batch" /\ timeline[sync.next].type = "member" /\ Handled /\ timeline' = timeline
  BY DEF SetMembership, Handling
<1>2. timeline[sync.next] \in MemberEvent
  BY <1>1, BatchPlace, EventType
<1>3. members' \subseteq Rooms \X Users
  <2>1. members \subseteq Rooms \X Users
    BY DEF StoreOK, TablesOK
  <2> QED
    BY <1>2, <2>1 DEF SetMembership, MemberEvent
<1>4. lost' \subseteq lost
  BY DEF SetMembership
<1>5. SyncOK'
  BY <1>1, HandledType
<1> QED
  BY <1>1, <1>3, <1>4, <1>5 DEF StoreOK, TablesOK, SetMembership, boundVars

\* An upsert of the encryption of a room.
LEMMA EncryptionUpserted ==
  ASSUME TablesOK, NEW r \in Rooms
  PROVE  /\ Keyed(Upsert(encryption, r, TRUE))
         /\ Upsert(encryption, r, TRUE) \subseteq Rooms \X {TRUE}
<1> DEFINE V == {TRUE}
           yes == TRUE
<1>1. encryption \in SUBSET (Rooms \X V) /\ Keyed(encryption) /\ yes \in V
  BY DEF TablesOK
<1> HIDE DEF V, yes
<1>2. /\ Keyed(Upsert(encryption, r, yes))
      /\ Upsert(encryption, r, yes) \subseteq Rooms \X V
  BY <1>1, UpsertKeeps
<1> QED
  BY <1>2, Zenon DEF V, yes

LEMMA SetEncryptionEventType == StoreOK /\ SetEncryptionEvent => StoreOK'
<1> SUFFICES ASSUME StoreOK, SetEncryptionEvent PROVE StoreOK'
  OBVIOUS
<1> DEFINE r == timeline[sync.next].room
<1>1. sync.pc = "batch" /\ Handled /\ timeline' = timeline
  BY DEF SetEncryptionEvent, Handling
<1>2. r \in Rooms
  BY <1>1, BatchPlace, EventType
<1>3. Keyed(encryption') /\ encryption' \subseteq Rooms \X {TRUE}
  BY <1>2, EncryptionUpserted DEF SetEncryptionEvent, StoreOK
<1>4. lost' \subseteq lost
  BY DEF SetEncryptionEvent
<1>5. SyncOK'
  BY <1>1, HandledType
<1> QED
  BY <1>1, <1>3, <1>4, <1>5 DEF StoreOK, TablesOK, SetEncryptionEvent, boundVars

LEMMA StatementFailsType == StoreOK /\ StatementFails => StoreOK'
<1> SUFFICES ASSUME StoreOK, StatementFails PROVE StoreOK'
  OBVIOUS
<1>1. sync.pc = "batch" /\ Handled /\ timeline' = timeline
  BY DEF StatementFails, Storing, Handling
<1>2. lost' \subseteq 1 .. Len(timeline)
  BY <1>1, BatchPlace DEF StatementFails, StoreOK
<1>3. faults \in Nat /\ faults' = faults + 1
  BY DEF StatementFails, Fault, StoreOK
<1>4. SyncOK'
  BY <1>1, HandledType
<1>5. UNCHANGED <<tableVars, session, restarts>>
  BY DEF StatementFails
<1>6. TablesOK'
  BY <1>1, <1>5 DEF StoreOK, TablesOK, tableVars
<1> QED
  BY <1>1, <1>2, <1>3, <1>4, <1>5, <1>6 DEF StoreOK

LEMMA LoseBatchType ==
  ASSUME StoreOK, LoseBatch
  PROVE  lost' \subseteq 1 .. Len(timeline)
<1>1. ASSUME NEW p \in sync.next .. sync.last, sync.pc = "batch"
      PROVE  p \in 1 .. Len(timeline)
  BY <1>1, BatchPlace
<1> QED
  BY <1>1 DEF StoreOK, LoseBatch

LEMMA StartingType ==
  ASSUME StoreOK, sync' = Starting, UNCHANGED timeline
  PROVE  SyncOK' /\ ~sync'.half
<1>1. timeline \in Seq(Event)
  BY DEF StoreOK
<1>2. Len(timeline) \in Nat
  BY <1>1
<1> QED
  BY <1>2 DEF Starting, SyncLoop, SyncOK

LEMMA BeginPanicsType == StoreOK /\ BeginPanics => StoreOK'
<1> SUFFICES ASSUME StoreOK, BeginPanics PROVE StoreOK'
  OBVIOUS
<1>1. lost' \subseteq 1 .. Len(timeline)
  BY LoseBatchType DEF BeginPanics
<1>2. faults \in Nat /\ faults' = faults + 1
  BY DEF BeginPanics, Fault, StoreOK
<1>3. SyncOK'
  BY StartingType DEF BeginPanics
<1>4. UNCHANGED <<timeline, tableVars, session, restarts>>
  BY DEF BeginPanics
<1>5. TablesOK'
  BY <1>4 DEF StoreOK, TablesOK, tableVars
<1> QED
  BY <1>1, <1>2, <1>3, <1>4, <1>5 DEF StoreOK

\* The timeline only grows, and keeps what is in it.
LEMMA RoomEventGrows ==
  ASSUME StoreOK, RoomEvent
  PROVE  /\ timeline' \in Seq(Event)
         /\ Len(timeline) \in Nat /\ Len(timeline') = Len(timeline) + 1
         /\ \A p \in 1 .. Len(timeline) : timeline'[p] = timeline[p]
<1>1. timeline \in Seq(Event)
  BY DEF StoreOK
<1>2. PICK e \in Event : timeline' = Append(timeline, e)
  BY DEF RoomEvent
<1> QED
  BY <1>1, <1>2

LEMMA RoomEventType == StoreOK /\ RoomEvent => StoreOK'
<1> SUFFICES ASSUME StoreOK, RoomEvent PROVE StoreOK'
  OBVIOUS
<1>1. /\ timeline' \in Seq(Event) /\ Len(timeline') = Len(timeline) + 1
      /\ Len(timeline) \in Nat
      /\ \A p \in 1 .. Len(timeline) : timeline'[p] = timeline[p]
  BY RoomEventGrows
<1>2. 0 .. Len(timeline) \subseteq 0 .. Len(timeline') /\ 1 .. Len(timeline) \subseteq 1 .. Len(timeline')
  BY <1>1
<1>3. TablesOK'
  <2>1. UNCHANGED <<filterIds, batchTokens, encryption, members>>
    BY DEF RoomEvent, tableVars
  <2>2. {Bot} \X (0 .. Len(timeline)) \subseteq {Bot} \X (0 .. Len(timeline'))
    BY <1>2
  <2> QED
    BY <2>1, <2>2 DEF StoreOK, TablesOK
<1>4. SyncOK'
  <2>1. sync' = sync /\ sync \in SyncLoop /\ sync.last \in Nat
    BY DEF RoomEvent, StoreOK, SyncOK, SyncLoop
  <2>2. sync.half => timeline'[sync.next].type = "member"
    BY <1>1, BatchPlace DEF StoreOK, SyncOK
  <2>3. sync.last <= Len(timeline')
    BY <1>1, <2>1 DEF StoreOK, SyncOK
  <2> QED
    BY <2>1, <2>2, <2>3 DEF StoreOK, SyncOK
<1> QED
  BY <1>1, <1>2, <1>3, <1>4 DEF StoreOK, RoomEvent, boundVars

-----------------------------------------------------------------------------
(* Calls. *)

LEMMA CallMoved ==
  ASSUME call \in [Calls -> Call], NEW c \in Calls, NEW pc \in Active \cup Ended, Goes(c, pc)
  PROVE  /\ call' \in [Calls -> Call]
         /\ call'[c].pc = pc /\ call'[c].fails = call[c].fails /\ call'[c].room = call[c].room
         /\ \A d \in Calls \ {c} : call'[d] = call[d]
<1> DEFINE d == [Unasked(c) EXCEPT !.pc = pc]
<1>1. call[c] \in Call
  OBVIOUS
<1>2. d \in Call /\ d.pc = pc /\ d.fails = call[c].fails /\ d.room = call[c].room
  BY <1>1 DEF Unasked, Call
<1>3. call' = [call EXCEPT ![c] = d]
  BY DEF Goes
<1> HIDE DEF d
<1> QED
  BY <1>2, <1>3

LEMMA CallFailed ==
  ASSUME call \in [Calls -> Call], NEW c \in Calls, AttemptFailed(c)
  PROVE  /\ call' \in [Calls -> Call]
         /\ call'[c].fails = call[c].fails + 1 /\ call'[c].room = call[c].room
         /\ call[c].fails + 1 > MaxRetries => call'[c].pc = "failed"
         /\ call[c].fails + 1 <= MaxRetries => call'[c].pc = "attempt"
         /\ \A d \in Calls \ {c} : call'[d] = call[d]
<1> DEFINE pc == IF call[c].fails + 1 > MaxRetries THEN "failed" ELSE "attempt"
           d  == [Unasked(c) EXCEPT !.fails = @ + 1, !.pc = pc]
<1>1. call[c] \in Call /\ call[c].fails \in Nat
  BY DEF Call
<1>2. /\ pc \in {"failed", "attempt"}
      /\ call[c].fails + 1 > MaxRetries => pc = "failed"
      /\ call[c].fails + 1 <= MaxRetries => pc = "attempt"
  BY <1>1, RetriesAssumption
<1>3. call' = [call EXCEPT ![c] = d]
  BY DEF AttemptFailed
<1> HIDE DEF pc
<1>4. d \in Call /\ d.pc = pc /\ d.fails = call[c].fails + 1 /\ d.room = call[c].room
  <2> DEFINE u == Unasked(c)
             n == u.fails + 1
  <2>1. u \in Call /\ u.fails = call[c].fails /\ u.room = call[c].room
    BY <1>1 DEF Unasked, Call
  <2>2. d = [u EXCEPT !.fails = n, !.pc = pc]
    OBVIOUS
  <2>3. n \in Nat /\ n = call[c].fails + 1
    BY <1>1, <2>1
  <2> HIDE DEF u, n, d
  <2>4. d.pc = pc /\ d.fails = n /\ d.room = u.room
    BY <2>1, <2>2 DEF Call
  <2>5. d \in Call
    BY <1>2, <2>1, <2>2, <2>3 DEF Call, Active, Ended
  <2> QED
    BY <2>1, <2>3, <2>4, <2>5
<1> HIDE DEF d
<1> QED
  BY <1>2, <1>3, <1>4

LEMMA CallShares ==
  ASSUME call \in [Calls -> Call], NEW c \in Calls, NEW readers \in SUBSET Users,
         NEW stale \in BOOLEAN, Share(c, readers, stale)
  PROVE  /\ call' \in [Calls -> Call]
         /\ call'[c].pc = "share" /\ call'[c].fails = call[c].fails
         /\ call'[c].room = call[c].room
         /\ call'[c].readers = readers /\ (call'[c].stale <=> stale)
         /\ \A d \in Calls \ {c} : call'[d] = call[d]
<1> DEFINE d == [call[c] EXCEPT !.pc = "share", !.readers = readers, !.stale = stale]
<1>1. call[c] \in Call
  OBVIOUS
<1>2. d \in Call /\ d.pc = "share" /\ d.fails = call[c].fails /\ d.room = call[c].room
  BY <1>1 DEF Call, Active
<1>3. d.readers = readers /\ (d.stale <=> stale)
  BY <1>1 DEF Call
<1>4. call' = [call EXCEPT ![c] = d]
  BY DEF Share
<1> HIDE DEF d
<1> QED
  BY <1>2, <1>3, <1>4

\* What an action makes of the calls: nothing, when those that go on keep their count.
LEMMA CallsCarried ==
  ASSUME CallsOK, call' \in [Calls -> Call], UNCHANGED arrived,
         \A c \in Calls : /\ call'[c].pc \in {"new"} \cup Active => call[c].pc \in {"new"} \cup Active
                          /\ call'[c].fails = call[c].fails
  PROVE  CallsOK'
BY DEF CallsOK

\* One call gets on beside the others.
LEMMA OneCall ==
  ASSUME CallsOK, NEW c \in Calls, call' \in [Calls -> Call], arrived' \in [Calls -> Nat],
         \A d \in Calls \ {c} : call'[d] = call[d] /\ arrived'[d] = arrived[d],
         call'[c].pc \in {"new"} \cup Active =>
           arrived'[c] <= call'[c].fails /\ call'[c].fails <= MaxRetries
  PROVE  CallsOK'
BY DEF CallsOK

LEMMA GoesKeepsCalls ==
  ASSUME CallsOK, NEW c \in Calls, call[c].pc \in {"new"} \cup Active,
         NEW pc \in Active \cup Ended, Goes(c, pc), UNCHANGED arrived
  PROVE  CallsOK'
<1>1. /\ call' \in [Calls -> Call] /\ call'[c].fails = call[c].fails
      /\ \A d \in Calls \ {c} : call'[d] = call[d]
  BY CallMoved DEF CallsOK
<1>2. \A d \in Calls : call'[d].fails = call[d].fails
  BY <1>1
<1> QED
  BY <1>1, <1>2, CallsCarried

LEMMA ShareKeepsCalls ==
  ASSUME CallsOK, NEW c \in Calls, call[c].pc \in {"new"} \cup Active,
         NEW readers \in SUBSET Users, NEW stale \in BOOLEAN,
         Share(c, readers, stale), UNCHANGED arrived
  PROVE  CallsOK'
<1>0. call \in [Calls -> Call]
  BY DEF CallsOK
<1>1. /\ call' \in [Calls -> Call] /\ call'[c].fails = call[c].fails
      /\ \A d \in Calls \ {c} : call'[d] = call[d]
  BY <1>0, CallShares
<1>2. \A d \in Calls : call'[d].fails = call[d].fails
  BY <1>1
<1> QED
  BY <1>1, <1>2, CallsCarried

\* An attempt that fails has brought the event into the room once at most.
LEMMA FailedKeepsCalls ==
  ASSUME CallsOK, NEW c \in Calls, call[c].pc \in Active, AttemptFailed(c),
         \/ UNCHANGED arrived
         \/ arrived' = [arrived EXCEPT ![c] = @ + 1]
  PROVE  CallsOK'
<1>1. /\ call \in [Calls -> Call] /\ arrived \in [Calls -> Nat] /\ call[c].fails \in Nat
      /\ arrived[c] <= call[c].fails
  BY DEF CallsOK, Call
<1>2. /\ call' \in [Calls -> Call] /\ call'[c].fails = call[c].fails + 1
      /\ call[c].fails + 1 > MaxRetries => call'[c].pc = "failed"
      /\ \A d \in Calls \ {c} : call'[d] = call[d]
  BY <1>1, CallFailed
<1>3. /\ arrived' \in [Calls -> Nat] /\ arrived'[c] <= call[c].fails + 1
      /\ \A d \in Calls \ {c} : arrived'[d] = arrived[d]
  BY <1>1
<1>4. call'[c].pc \in {"new"} \cup Active => call'[c].fails <= MaxRetries
  BY <1>1, <1>2, RetriesAssumption DEF Active
<1> QED
  BY <1>2, <1>3, <1>4, OneCall

LEMMA AnsweredKeepsCalls ==
  ASSUME CallsOK, NEW c \in Calls, SendAnswered(c)
  PROVE  CallsOK'
<1> DEFINE pc == "ok"
<1>1. pc \in Active \cup Ended /\ Goes(c, pc)
  BY DEF SendAnswered, Ended
<1>2. /\ call' \in [Calls -> Call] /\ call'[c].pc = "ok"
      /\ \A d \in Calls \ {c} : call'[d] = call[d]
  BY <1>1, CallMoved DEF CallsOK
<1>3. arrived' \in [Calls -> Nat] /\ \A d \in Calls \ {c} : arrived'[d] = arrived[d]
  BY DEF SendAnswered, CallsOK
<1> QED
  BY <1>2, <1>3, OneCall DEF Active

\* Store variables that an action of the calls leaves alone.
LEMMA StoreKept ==
  ASSUME StoreOK, UNCHANGED <<timeline, tableVars, sync, lost, restarts>>,
         session' \in [Rooms -> Session], faults' \in Nat
  PROVE  StoreOK'
<1>1. TablesOK' /\ SyncOK'
  BY DEF StoreOK, TablesOK, SyncOK, tableVars
<1> QED
  BY <1>1 DEF StoreOK

LEMMA StoreStutters ==
  ASSUME StoreOK, UNCHANGED storeVars
  PROVE  StoreOK'
BY StoreKept DEF StoreOK, storeVars, boundVars

LEMMA SessionSharedType ==
  ASSUME StoreOK, CallsOK, NEW c \in Calls, Shared(c)
  PROVE  session' \in [Rooms -> Session]
<1> DEFINE st == call[c].stale \/ HalfHandled(call[c].room)
           s  == [shared |-> TRUE, readers |-> call[c].readers, stale |-> st]
<1>1. call[c].room \in Rooms /\ call[c].readers \in SUBSET Users /\ call[c].stale \in BOOLEAN
  BY DEF CallsOK, Call
<1>2. st \in BOOLEAN
  BY <1>1 DEF HalfHandled
<1>3. session' = [session EXCEPT ![call[c].room] = s]
  BY DEF Shared
<1> HIDE DEF st
<1>4. s \in Session
  BY <1>1, <1>2 DEF Session
<1> HIDE DEF s
<1> QED
  BY <1>1, <1>3, <1>4 DEF StoreOK

LEMMA InitType == Init => TypeOK
<1> SUFFICES ASSUME Init PROVE TypeOK
  OBVIOUS
<1>1. timeline \in Seq(Event) /\ Len(timeline) \in Nat
  BY SyncAssumption DEF Init, StoreInit
<1>2. TablesOK
  <2>1. Keyed(filterIds) /\ filterIds \subseteq {Bot} \X {"filter"}
    BY DEF Init, StoreInit, Keyed
  <2>2. Keyed(batchTokens) /\ batchTokens \subseteq {Bot} \X (0 .. Len(timeline))
    BY <1>1 DEF Init, StoreInit, Keyed
  <2>3. Keyed(encryption) /\ encryption \subseteq Rooms \X {TRUE}
    <3> DEFINE yes == TRUE
               R == {q \in Rooms : HasEncryption(timeline, Len(timeline), q)}
    <3>1. encryption = {<<r, yes>> : r \in R} /\ R \subseteq Rooms
      BY DEF Init, StoreInit
    <3> HIDE DEF yes, R
    <3>2. Keyed(encryption) /\ encryption \subseteq Rooms \X {yes}
      BY <3>1 DEF Keyed
    <3> QED
      BY <3>2, Zenon DEF yes
  <2>4. members \subseteq Rooms \X Users
    BY DEF Init, StoreInit
  <2> QED
    BY <2>1, <2>2, <2>3, <2>4 DEF TablesOK
<1>3. SyncOK
  BY <1>1 DEF Init, StoreInit, SyncOK, SyncLoop, Starting
<1>4. session \in [Rooms -> Session]
  BY DEF Init, StoreInit, Session, NoSession
<1>5. CallsOK
  <2>1. call \in [Calls -> Call] /\ \A c \in Calls : call[c].fails = 0
    <3> DEFINE new(r) == [pc |-> "new", room |-> r, fails |-> 0, readers |-> {}, stale |-> FALSE]
               New == {new(r) : r \in Rooms}
    <3>1. ASSUME NEW d \in New PROVE d \in Call /\ d.fails = 0
      <4>1. PICK r \in Rooms : d = new(r)
        OBVIOUS
      <4>2. new(r) \in Call /\ new(r).fails = 0
        BY DEF Call
      <4> QED
        BY <4>1, <4>2
    <3>2. call \in [Calls -> New]
      BY DEF Init
    <3> HIDE DEF New
    <3> QED
      BY <3>1, <3>2
  <2>2. arrived \in [Calls -> Nat] /\ \A c \in Calls : arrived[c] = 0
    BY DEF Init
  <2> QED
    BY <2>1, <2>2, RetriesAssumption DEF CallsOK
<1>6. lost \subseteq 1 .. Len(timeline) /\ faults \in Nat /\ restarts \in Nat
  BY DEF Init, StoreInit
<1> QED
  BY <1>1, <1>2, <1>3, <1>4, <1>5, <1>6 DEF TypeOK, StoreOK

\* The steps of a call.
LEMMA CallStepType ==
  ASSUME TypeOK, NEW c \in Calls, SendMessage(c) \/ CallStep(c)
  PROVE  TypeOK'
<1>1. StoreOK /\ CallsOK /\ call[c].room \in Rooms
  BY DEF TypeOK, CallsOK, Call
<1>2. CASE SendMessage(c)
  <2> DEFINE pc == "attempt"
  <2>1. pc \in Active \cup Ended /\ Goes(c, pc) /\ call[c].pc \in {"new"} \cup Active
    BY <1>2 DEF SendMessage, At, Active
  <2>2. CallsOK'
    BY <1>1, <1>2, <2>1, GoesKeepsCalls DEF SendMessage
  <2> QED
    BY <1>1, <1>2, <2>2, StoreStutters DEF SendMessage, TypeOK
<1>3. CASE Attempt(c)
  <2> DEFINE pc == "send"
             now == FALSE
             readers == GetRoomMembers(call[c].room)
  <2>1. pc \in Active \cup Ended /\ call[c].pc \in {"new"} \cup Active /\ UNCHANGED arrived
    BY <1>3 DEF Attempt, At, Active
  <2>2. Goes(c, pc) \/ Share(c, readers, now)
    BY <1>3 DEF Attempt
  <2>3. readers \in SUBSET Users /\ now \in BOOLEAN
    BY DEF GetRoomMembers
  <2> HIDE DEF pc, now, readers
  <2>4. CallsOK'
    BY <1>1, <2>1, <2>2, <2>3, GoesKeepsCalls, ShareKeepsCalls
  <2> QED
    BY <1>1, <1>3, <2>4, StoreStutters DEF Attempt, TypeOK
<1>4. CASE AttemptBlindly(c)
  <2> DEFINE pc == "send"
             yes == TRUE
             readers == {}
  <2>1. pc \in Active \cup Ended /\ call[c].pc \in {"new"} \cup Active /\ UNCHANGED arrived
    BY <1>4 DEF AttemptBlindly, At, Active
  <2>2. Goes(c, pc) \/ Share(c, readers, yes)
    BY <1>4 DEF AttemptBlindly
  <2>3. readers \in SUBSET Users /\ yes \in BOOLEAN
    OBVIOUS
  <2> HIDE DEF pc, yes, readers
  <2>4. CallsOK'
    BY <1>1, <2>1, <2>2, <2>3, GoesKeepsCalls, ShareKeepsCalls
  <2>5. faults' \in Nat
    BY <1>1, <1>4 DEF AttemptBlindly, Fault, StoreOK
  <2>6. session' \in [Rooms -> Session]
    BY <1>1, <1>4 DEF AttemptBlindly, StoreOK
  <2> QED
    BY <1>1, <1>4, <2>4, <2>5, <2>6, StoreKept DEF AttemptBlindly, TypeOK
<1>5. CASE SessionShared(c)
  <2> DEFINE pc == "send"
  <2>1. pc \in Active \cup Ended /\ Goes(c, pc) /\ call[c].pc \in {"new"} \cup Active
    BY <1>5 DEF SessionShared, At, Active
  <2>2. CallsOK'
    BY <1>1, <1>5, <2>1, GoesKeepsCalls DEF SessionShared
  <2>3. session' \in [Rooms -> Session]
    BY <1>1, <1>5, SessionSharedType DEF SessionShared
  <2>4. faults' \in Nat
    BY <1>1, <1>5 DEF SessionShared, StoreOK, boundVars
  <2> QED
    BY <1>1, <1>5, <2>2, <2>3, <2>4, StoreKept DEF SessionShared, boundVars, TypeOK
<1>6. CASE SendAnswered(c)
  <2>1. CallsOK'
    BY <1>1, <1>6, AnsweredKeepsCalls
  <2> QED
    BY <1>1, <1>6, <2>1, StoreStutters DEF SendAnswered, TypeOK
<1>7. CASE SendAnswerLost(c)
  <2>1. CallsOK'
    BY <1>1, <1>7, FailedKeepsCalls DEF SendAnswerLost, At, Active
  <2> QED
    BY <1>1, <1>7, <2>1, StoreStutters DEF SendAnswerLost, TypeOK
<1>8. CASE RequestFails(c)
  <2>1. CallsOK'
    BY <1>1, <1>8, FailedKeepsCalls DEF RequestFails, At, Active
  <2> QED
    BY <1>1, <1>8, <2>1, StoreStutters DEF RequestFails, TypeOK
<1> QED
  BY <1>2, <1>3, <1>4, <1>5, <1>6, <1>7, <1>8 DEF CallStep

\* The sync loop marks some of the calls that are sharing a session as stale.
LEMMA MembershipMoves ==
  ASSUME CallsOK, MembershipSet
  PROVE  /\ call' \in [Calls -> Call]
         /\ \A c \in Calls :
              /\ call'[c].pc = call[c].pc /\ call'[c].fails = call[c].fails
              /\ call'[c].room = call[c].room /\ call'[c].readers = call[c].readers
              /\ call'[c].stale <=>
                   (call[c].stale \/ (At(c, "share") /\ call[c].room = timeline[sync.next].room))
<1> DEFINE yes == TRUE
           d(c) == [call[c] EXCEPT !.stale = yes]
<1>1. ASSUME NEW c \in Calls
      PROVE  /\ d(c) \in Call /\ d(c).pc = call[c].pc /\ d(c).fails = call[c].fails
             /\ d(c).room = call[c].room /\ d(c).readers = call[c].readers
  BY DEF CallsOK, Call
<1>2. ASSUME NEW c \in Calls PROVE d(c).stale
  BY DEF CallsOK, Call
<1>3. call' = [c \in Calls |->
        IF At(c, "share") /\ call[c].room = timeline[sync.next].room THEN d(c) ELSE call[c]]
  BY DEF MembershipSet
<1> HIDE DEF d
<1>4. \A c \in Calls : call'[c] =
        IF At(c, "share") /\ call[c].room = timeline[sync.next].room THEN d(c) ELSE call[c]
  BY <1>3
<1>5. call \in [Calls -> Call]
  BY DEF CallsOK
<1>6. call' \in [Calls -> Call]
  BY <1>1, <1>3, <1>5
<1> QED
  BY <1>1, <1>2, <1>4, <1>6

\* A restart kills the calls that have not ended.
LEMMA RestartKills ==
  ASSUME CallsOK, Restart
  PROVE  /\ call' \in [Calls -> Call]
         /\ \A c \in Calls :
              IF call[c].pc \in Active THEN call'[c].pc = "killed" ELSE call'[c] = call[c]
<1> DEFINE pc == "killed"
           d(c) == [Unasked(c) EXCEPT !.pc = pc]
<1>1. ASSUME NEW c \in Calls PROVE d(c) \in Call /\ d(c).pc = pc
  BY DEF CallsOK, Unasked, Call, Ended
<1>2. call' = [c \in Calls |-> IF call[c].pc \in Active THEN d(c) ELSE call[c]]
  BY DEF Restart
<1>3. call \in [Calls -> Call]
  BY DEF CallsOK
<1> HIDE DEF d
<1> QED
  BY <1>1, <1>2, <1>3

LEMMA RestartType ==
  ASSUME TypeOK, Restart
  PROVE  TypeOK'
<1>1. CallsOK'
  <2>1. /\ call' \in [Calls -> Call]
        /\ \A c \in Calls :
             IF call[c].pc \in Active THEN call'[c].pc = "killed" ELSE call'[c] = call[c]
    BY RestartKills DEF TypeOK
  <2>2. UNCHANGED arrived
    BY DEF Restart
  <2> QED
    BY <2>1, <2>2 DEF TypeOK, CallsOK, Active
<1>2. lost' \subseteq 1 .. Len(timeline)
  BY LoseBatchType DEF Restart, TypeOK
<1>3. SyncOK'
  BY StartingType DEF Restart, TypeOK
<1>4. UNCHANGED <<timeline, tableVars, session, faults>> /\ restarts' = restarts + 1
  BY DEF Restart
<1>5. TablesOK'
  BY <1>4 DEF TypeOK, StoreOK, TablesOK, tableVars
<1> QED
  BY <1>1, <1>2, <1>3, <1>4, <1>5 DEF TypeOK, StoreOK

LEMMA BesidesType ==
  ASSUME TypeOK, UNCHANGED <<call, arrived>>
  PROVE  CallsOK'
BY DEF TypeOK, CallsOK

LEMMA NextType == TypeOK /\ [Next]_vars => TypeOK'
<1> SUFFICES ASSUME TypeOK, [Next]_vars PROVE TypeOK'
  OBVIOUS
<1>1. ASSUME NEW c \in Calls, SendMessage(c) \/ CallStep(c) PROVE TypeOK'
  BY <1>1, CallStepType
<1>2. ASSUME NEW r \in Rooms, SessionExpires(r) PROVE TypeOK'
  <2>1. session' \in [Rooms -> Session] /\ faults' \in Nat
    BY <1>2, DropSessionType DEF SessionExpires, TypeOK, StoreOK, boundVars
  <2> QED
    BY <1>2, <2>1, BesidesType, StoreKept DEF SessionExpires, TypeOK, boundVars
<1>3. CASE MembershipSet
  <2>1. CallsOK'
    BY <1>3, MembershipMoves, CallsCarried DEF MembershipSet, TypeOK
  <2> QED
    BY <1>3, <2>1, SetMembershipType DEF MembershipSet, TypeOK
<1>4. CASE Besides(SyncStarts)
  BY <1>4, BesidesType, SyncStartsType DEF Besides, TypeOK
<1>5. CASE Besides(SaveNextBatch)
  BY <1>5, BesidesType, SaveNextBatchType DEF Besides, TypeOK
<1>6. CASE Besides(HandleMemberEvent)
  BY <1>6, BesidesType, HandleMemberEventType DEF Besides, TypeOK
<1>13. CASE Besides(MemberEventFails)
  BY <1>13, BesidesType, MemberEventFailsType DEF Besides, TypeOK
<1>7. CASE Besides(SetEncryptionEvent)
  BY <1>7, BesidesType, SetEncryptionEventType DEF Besides, TypeOK
<1>8. CASE Besides(StatementFails)
  BY <1>8, BesidesType, StatementFailsType DEF Besides, TypeOK
<1>9. CASE Besides(BeginPanics)
  BY <1>9, BesidesType, BeginPanicsType DEF Besides, TypeOK
<1>10. CASE Besides(RoomEvent)
  BY <1>10, BesidesType, RoomEventType DEF Besides, TypeOK
<1>11. CASE Restart
  BY <1>11, RestartType
<1>12. CASE UNCHANGED vars
  <2>1. UNCHANGED storeVars /\ UNCHANGED <<call, arrived>>
    BY <1>12 DEF vars
  <2> QED
    BY <2>1, BesidesType, StoreStutters DEF TypeOK
<1> QED
  BY <1>1, <1>2, <1>3, <1>4, <1>5, <1>6, <1>7, <1>8, <1>9, <1>10, <1>11, <1>12, <1>13
  DEF Next

\* The tables stay keyed, the sync loop stays at an event that exists (and is half way
\* through member events only), and a call that goes on has never failed too often, nor
\* sent more often than it has failed: for every timeline, and all failures and restarts.
THEOREM TypeCorrect == Spec => []TypeOK
<1> QED
  BY InitType, NextType, PTL DEF Spec

-----------------------------------------------------------------------------
(* Sessions. *)

\* Only an encrypted room has a session: HandleMemberEvent looks at no other.
SessionsAreEncrypted == \A r \in Rooms : session[r].shared => IsEncrypted(r)

\* Between HandleMemberEvent and SetMembership no session is taken for a current one, not
\* even one that HandleMemberEvent could not take away.
HalfIsStale ==
  sync.half => LET r == timeline[sync.next].room IN session[r].shared => session[r].stale

\* A call shares a session with those who are members, as long as it is not stale.
SharesAreCurrent ==
  \A c \in Calls : call[c].pc = "share" =>
    /\ IsEncrypted(call[c].room)
    /\ ~call[c].stale => call[c].readers = GetRoomMembers(call[c].room)

SessionInv ==
  TypeOK /\ SessionIsForMembers /\ SessionsAreEncrypted /\ HalfIsStale /\ SharesAreCurrent

\* Encryption is never turned off.
LEMMA EncryptionStays ==
  ASSUME TablesOK, TablesOK', NEW k, NEW v,
         encryption' = encryption \/ encryption' = Upsert(encryption, k, v)
  PROVE  \A r : IsEncrypted(r) => IsEncrypted(r)'
<1> SUFFICES ASSUME NEW r, IsEncrypted(r) PROVE IsEncrypted(r)'
  OBVIOUS
<1>1. encryption \subseteq Rooms \X {TRUE} /\ encryption' \subseteq Rooms \X {TRUE}
  BY DEF TablesOK
<1>2. PICK row \in encryption : row[1] = r
  BY <1>1, EncryptedRow DEF IsEncrypted
<1>3. \E x \in encryption' : x[1] = r
  BY <1>2, UpsertGrows
<1> QED
  BY <1>1, <1>3, EncryptedRow DEF IsEncrypted

\* A step that leaves members, sessions and calls alone, and no event half handled.
LEMMA OthersKeepSessions ==
  ASSUME SessionInv, TypeOK', UNCHANGED <<members, session, call>>,
         \A r : IsEncrypted(r) => IsEncrypted(r)', ~sync'.half
  PROVE  SessionInv'
<1>1. \A r \in Rooms : GetRoomMembers(r)' = GetRoomMembers(r)
  BY DEF GetRoomMembers
<1>2. SessionIsForMembers' /\ SessionsAreEncrypted'
  BY <1>1 DEF SessionInv, SessionIsForMembers, SessionsAreEncrypted
<1>3. SharesAreCurrent'
  <2>1. \A c \in Calls : call[c].room \in Rooms
    BY DEF SessionInv, TypeOK, CallsOK, Call
  <2> QED
    BY <1>1, <2>1 DEF SessionInv, SharesAreCurrent
<1>4. HalfIsStale'
  BY DEF HalfIsStale
<1> QED
  BY <1>2, <1>3, <1>4 DEF SessionInv

\* A step that leaves tables, sessions and the sync loop alone, and shares with none but
\* the members of an encrypted room.
LEMMA CallKeepsSessions ==
  ASSUME SessionInv, TypeOK', UNCHANGED <<timeline, encryption, members, session, sync>>,
         NEW c \in Calls, \A d \in Calls \ {c} : call'[d] = call[d],
         call'[c].pc = "share" =>
           /\ IsEncrypted(call'[c].room)
           /\ ~call'[c].stale => call'[c].readers = GetRoomMembers(call'[c].room)
  PROVE  SessionInv'
<1>1. \A r : GetRoomMembers(r)' = GetRoomMembers(r) /\ (IsEncrypted(r)' <=> IsEncrypted(r))
  BY DEF GetRoomMembers, IsEncrypted
<1>2. SessionIsForMembers' /\ SessionsAreEncrypted'
  BY <1>1 DEF SessionInv, SessionIsForMembers, SessionsAreEncrypted
<1>3. SharesAreCurrent'
  <2> SUFFICES ASSUME NEW d \in Calls, call'[d].pc = "share"
               PROVE  (/\ IsEncrypted(call[d].room)
                       /\ ~call[d].stale => call[d].readers = GetRoomMembers(call[d].room))'
    BY DEF SharesAreCurrent
  <2>1. /\ IsEncrypted(call'[d].room)
        /\ ~call'[d].stale => call'[d].readers = GetRoomMembers(call'[d].room)
    <3>1. CASE d = c
      BY <3>1
    <3>2. CASE d # c
      BY <3>2 DEF SessionInv, SharesAreCurrent
    <3> QED
      BY <3>1, <3>2
  <2> QED
    BY <2>1 DEF IsEncrypted, GetRoomMembers
<1>4. HalfIsStale'
  BY DEF SessionInv, HalfIsStale
<1> QED
  BY <1>2, <1>3, <1>4 DEF SessionInv

LEMMA AttemptKeepsSessions ==
  ASSUME SessionInv, TypeOK', NEW c \in Calls, Attempt(c)
  PROVE  SessionInv'
<1> DEFINE pc == "send"
           now == FALSE
           readers == GetRoomMembers(call[c].room)
<1>1. call \in [Calls -> Call]
  BY DEF SessionInv, TypeOK, CallsOK
<1>2. pc \in Active \cup Ended /\ readers \in SUBSET Users /\ now \in BOOLEAN /\ pc # "share"
  BY DEF Active, GetRoomMembers
<1>3. Goes(c, pc) \/ (IsEncrypted(call[c].room) /\ Share(c, readers, now))
  BY DEF Attempt
<1>4. UNCHANGED <<timeline, encryption, members, session, sync>>
  BY DEF Attempt, storeVars, tableVars
<1> HIDE DEF pc, now
<1>5. /\ \A d \in Calls \ {c} : call'[d] = call[d]
      /\ call'[c].pc = "share" =>
           /\ IsEncrypted(call'[c].room)
           /\ ~call'[c].stale => call'[c].readers = GetRoomMembers(call'[c].room)
  <2> HIDE DEF readers
  <2>1. CASE Goes(c, pc)
    BY <1>1, <1>2, <2>1, CallMoved
  <2>2. CASE IsEncrypted(call[c].room) /\ Share(c, readers, now)
    <3>1. /\ \A d \in Calls \ {c} : call'[d] = call[d]
          /\ call'[c].room = call[c].room /\ call'[c].readers = readers
      BY <1>1, <1>2, <2>2, CallShares
    <3> QED
      BY <2>2, <3>1 DEF readers
  <2> QED
    BY <1>3, <2>1, <2>2
<1> QED
  BY <1>4, <1>5, CallKeepsSessions

LEMMA BlindAttemptKeepsSessions ==
  ASSUME SessionInv, TypeOK', NEW c \in Calls, AttemptBlindly(c)
  PROVE  SessionInv'
<1> DEFINE pc == "send"
           yes == TRUE
           none == {}
<1>1. call \in [Calls -> Call] /\ IsEncrypted(call[c].room)
  BY DEF SessionInv, TypeOK, CallsOK, AttemptBlindly
<1>2. pc \in Active \cup Ended /\ none \in SUBSET Users /\ yes \in BOOLEAN /\ pc # "share"
  BY DEF Active
<1>3. Goes(c, pc) \/ Share(c, none, yes)
  BY DEF AttemptBlindly
<1>4. UNCHANGED <<timeline, encryption, members, session, sync>>
  BY DEF AttemptBlindly, tableVars
<1>5. yes
  OBVIOUS
<1> HIDE DEF pc, yes, none
<1>6. /\ \A d \in Calls \ {c} : call'[d] = call[d]
      /\ call'[c].pc = "share" => call'[c].stale /\ call'[c].room = call[c].room
  <2>1. CASE Goes(c, pc)
    BY <1>1, <1>2, <2>1, CallMoved
  <2>2. CASE Share(c, none, yes)
    <3>1. /\ \A d \in Calls \ {c} : call'[d] = call[d]
          /\ call'[c].room = call[c].room /\ (call'[c].stale <=> yes)
      BY <1>1, <1>2, <2>2, CallShares
    <3> QED
      BY <1>5, <3>1, Zenon
  <2> QED
    BY <1>3, <2>1, <2>2
<1> QED
  BY <1>1, <1>4, <1>6, CallKeepsSessions

\* The new session is for those with whom it was shared, and stale if the members changed
\* meanwhile, or are just changing.
LEMMA SharedKeepsSessions ==
  ASSUME SessionInv, TypeOK', NEW c \in Calls, SessionShared(c)
  PROVE  SessionInv'
<1> DEFINE k == call[c].room
           st == call[c].stale \/ HalfHandled(k)
           new == [shared |-> TRUE, readers |-> call[c].readers, stale |-> st]
           pc == "send"
<1>1. /\ call \in [Calls -> Call] /\ session \in [Rooms -> Session] /\ k \in Rooms
      /\ call[c].pc = "share"
  BY DEF SessionInv, TypeOK, StoreOK, CallsOK, Call, SessionShared, At
<1>2. UNCHANGED <<timeline, encryption, members, sync>>
  BY DEF SessionShared, tableVars
<1>3. /\ IsEncrypted(k)
      /\ ~call[c].stale => call[c].readers = GetRoomMembers(k)
  BY <1>1 DEF SessionInv, SharesAreCurrent
<1>4. /\ session'[k].readers = call[c].readers /\ session'[k].stale = st
      /\ \A r \in Rooms \ {k} : session'[r] = session[r]
  <2>1. session' = [session EXCEPT ![k] = new]
    BY DEF SessionShared, Shared
  <2>2. new.readers = call[c].readers /\ new.stale = st
    OBVIOUS
  <2> HIDE DEF new, st, k
  <2> QED
    BY <1>1, <2>1, <2>2
<1>5. \A r : GetRoomMembers(r)' = GetRoomMembers(r) /\ (IsEncrypted(r)' <=> IsEncrypted(r))
  BY <1>2 DEF GetRoomMembers, IsEncrypted
<1> HIDE DEF k, st
<1>6. SessionIsForMembers'
  <2> SUFFICES ASSUME NEW r \in Rooms, session'[r].shared, ~session'[r].stale
               PROVE  session'[r].readers = GetRoomMembers(r)'
    BY DEF SessionIsForMembers
  <2>1. CASE r = k
    <3>1. ~call[c].stale
      BY <1>4, <2>1 DEF st
    <3> QED
      BY <1>3, <1>4, <1>5, <2>1, <3>1
  <2> QED
    BY <1>4, <1>5, <2>1 DEF SessionInv, SessionIsForMembers
<1>7. SessionsAreEncrypted'
  BY <1>3, <1>4, <1>5 DEF SessionInv, SessionsAreEncrypted
<1>8. HalfIsStale'
  <2> SUFFICES ASSUME sync.half, session'[timeline[sync.next].room].shared
               PROVE  session'[timeline[sync.next].room].stale
    BY <1>2 DEF HalfIsStale
  <2> DEFINE r == timeline[sync.next].room
  <2>1. r \in Rooms
    BY BatchPlace, EventType DEF SessionInv, TypeOK, StoreOK, SyncOK
  <2>2. CASE r = k
    <3>1. st
      BY <2>2 DEF st, HalfHandled
    <3> QED
      BY <1>4, <2>2, <3>1
  <2>3. CASE r # k
    BY <1>4, <2>1, <2>3 DEF SessionInv, HalfIsStale
  <2> QED
    BY <2>2, <2>3
<1>9. SharesAreCurrent'
  <2>1. pc \in Active \cup Ended /\ Goes(c, pc) /\ pc # "share"
    BY DEF SessionShared, Active
  <2> HIDE DEF pc
  <2>2. call'[c].pc # "share" /\ \A d \in Calls \ {c} : call'[d] = call[d]
    BY <1>1, <2>1, CallMoved
  <2> SUFFICES ASSUME NEW d \in Calls, call'[d].pc = "share"
               PROVE  (/\ IsEncrypted(call[d].room)
                       /\ ~call[d].stale => call[d].readers = GetRoomMembers(call[d].room))'
    BY DEF SharesAreCurrent
  <2>3. call'[d] = call[d]
    BY <2>2
  <2>4. /\ IsEncrypted(call'[d].room)
        /\ ~call'[d].stale => call'[d].readers = GetRoomMembers(call'[d].room)
    BY <2>3 DEF SessionInv, SharesAreCurrent
  <2> QED
    BY <1>2, <2>4 DEF IsEncrypted, GetRoomMembers
<1> QED
  BY <1>6, <1>7, <1>8, <1>9 DEF SessionInv

\* A session is taken away: it has expired, or the members of its room are changing.
LEMMA DroppedKeepsSessions ==
  ASSUME SessionInv, TypeOK', NEW k \in Rooms, DropSession(k),
         UNCHANGED <<timeline, encryption, members, call>>,
         sync'.half => (sync.half /\ sync'.next = sync.next) \/ timeline[sync'.next].room = k
  PROVE  SessionInv'
<1>1. /\ ~session'[k].shared
      /\ \A r \in Rooms \ {k} : session'[r] = session[r]
  BY DEF SessionInv, TypeOK, StoreOK, DropSession, NoSession
<1>2. \A r : GetRoomMembers(r)' = GetRoomMembers(r) /\ (IsEncrypted(r)' <=> IsEncrypted(r))
  BY DEF GetRoomMembers, IsEncrypted
<1>3. SessionIsForMembers' /\ SessionsAreEncrypted'
  BY <1>1, <1>2 DEF SessionInv, SessionIsForMembers, SessionsAreEncrypted
<1>4. SharesAreCurrent'
  BY <1>2 DEF SessionInv, SharesAreCurrent
<1>5. HalfIsStale'
  <2> SUFFICES ASSUME sync'.half, session'[timeline[sync'.next].room].shared
               PROVE  session'[timeline[sync'.next].room].stale
    BY DEF HalfIsStale
  <2> DEFINE r == timeline[sync'.next].room
  <2>1. r # k /\ sync.half /\ sync'.next = sync.next
    BY <1>1
  <2>2. r \in Rooms
    BY <2>1, BatchPlace, EventType DEF SessionInv, TypeOK, StoreOK, SyncOK
  <2> QED
    BY <1>1, <2>1, <2>2 DEF SessionInv, HalfIsStale
<1> QED
  BY <1>3, <1>4, <1>5 DEF SessionInv

LEMMA HandleMemberEventKeepsSessions ==
  ASSUME SessionInv, TypeOK', Besides(HandleMemberEvent)
  PROVE  SessionInv'
<1> DEFINE k == timeline[sync.next].room
<1>1. StoreOK /\ sync.pc = "batch" /\ sync \in SyncLoop /\ SessionsAreEncrypted
  BY DEF Besides, HandleMemberEvent, Handling, SessionInv, TypeOK, StoreOK, SyncOK
<1>2. k \in Rooms
  BY <1>1, BatchPlace, EventType
<1>3. sync'.next = sync.next
  BY <1>1 DEF Besides, HandleMemberEvent, SyncLoop
<1>4. UNCHANGED <<timeline, encryption, members, call>>
  BY DEF Besides, HandleMemberEvent, tableVars
<1>5. CASE IsEncrypted(k)
  <2>1. DropSession(k)
    BY <1>5 DEF Besides, HandleMemberEvent
  <2> QED
    BY <1>2, <1>3, <1>4, <2>1, DroppedKeepsSessions
<1>6. CASE ~IsEncrypted(k)
  <2>1. ~session[k].shared /\ UNCHANGED session
    BY <1>1, <1>2, <1>6 DEF Besides, HandleMemberEvent, SessionsAreEncrypted
  <2>2. HalfIsStale'
    BY <1>3, <1>4, <2>1 DEF HalfIsStale
  <2>3. \A r : GetRoomMembers(r)' = GetRoomMembers(r) /\ (IsEncrypted(r)' <=> IsEncrypted(r))
    BY <1>4 DEF GetRoomMembers, IsEncrypted
  <2>4. SessionIsForMembers' /\ SessionsAreEncrypted' /\ SharesAreCurrent'
    BY <1>4, <2>1, <2>3
    DEF SessionInv, SessionIsForMembers, SessionsAreEncrypted, SharesAreCurrent
  <2> QED
    BY <2>2, <2>4 DEF SessionInv
<1> QED
  BY <1>5, <1>6

\* A session that HandleMemberEvent could not take away is stale.
LEMMA MemberEventFailsKeepsSessions ==
  ASSUME SessionInv, TypeOK', Besides(MemberEventFails)
  PROVE  SessionInv'
<1> DEFINE k == timeline[sync.next].room
<1>1. StoreOK /\ sync.pc = "batch" /\ sync \in SyncLoop /\ session \in [Rooms -> Session]
  BY DEF Besides, MemberEventFails, Handling, SessionInv, TypeOK, StoreOK, SyncOK
<1>2. k \in Rooms
  BY <1>1, BatchPlace, EventType
<1>3. sync'.next = sync.next
  BY <1>1 DEF Besides, MemberEventFails, SyncLoop
<1>4. UNCHANGED <<timeline, encryption, members, call>>
  BY DEF Besides, MemberEventFails, tableVars
<1>5. session' = [session EXCEPT ![k].stale = session[k].shared]
  BY DEF Besides, MemberEventFails
<1>6. \A r \in Rooms : /\ session'[r].shared = session[r].shared
                       /\ session'[r].readers = session[r].readers
                       /\ r # k => session'[r] = session[r]
  <2> HIDE DEF k
  <2> QED
    BY <1>1, <1>2, <1>5 DEF Session
<1>7. session'[k].shared => session'[k].stale
  <2> HIDE DEF k
  <2> QED
    BY <1>1, <1>2, <1>5 DEF Session
<1>8. HalfIsStale'
  BY <1>3, <1>4, <1>7 DEF HalfIsStale
<1>9. \A r : GetRoomMembers(r)' = GetRoomMembers(r) /\ (IsEncrypted(r)' <=> IsEncrypted(r))
  BY <1>4 DEF GetRoomMembers, IsEncrypted
<1> HIDE DEF k
<1>10. SessionIsForMembers' /\ SessionsAreEncrypted'
  BY <1>6, <1>7, <1>9 DEF SessionInv, SessionIsForMembers, SessionsAreEncrypted
<1>11. SharesAreCurrent'
  BY <1>4, <1>9 DEF SessionInv, SharesAreCurrent
<1> QED
  BY <1>8, <1>10, <1>11 DEF SessionInv

\* When the members of a room change, it has no session that is not stale, and those that
\* are being shared become stale.
LEMMA MembershipKeepsSessions ==
  ASSUME SessionInv, TypeOK', MembershipSet
  PROVE  SessionInv'
<1> DEFINE e == timeline[sync.next]
           k == e.room
<1>1. /\ sync.pc = "batch" /\ sync.half /\ StoreOK /\ CallsOK /\ Handled
      /\ UNCHANGED <<timeline, encryption, session>>
  BY DEF MembershipSet, SetMembership, Handling, SessionInv, TypeOK
<1>2. ~sync'.half
  BY <1>1, HandledType
<1>3. k \in Rooms
  BY <1>1, BatchPlace, EventType
<1>4. session[k].shared => session[k].stale
  BY <1>1 DEF SessionInv, HalfIsStale
<1>5. ASSUME NEW r, r # k PROVE GetRoomMembers(r)' = GetRoomMembers(r)
  <2>1. members' = members \cup {<<k, e.user>>} \/ members' = members \ {<<k, e.user>>}
    BY DEF MembershipSet, SetMembership
  <2> HIDE DEF e, k
  <2>2. \A u \in Users : <<r, u>> \in members' <=> <<r, u>> \in members
    BY <1>5, <2>1
  <2> QED
    BY <2>2 DEF GetRoomMembers
<1> HIDE DEF k
<1>6. SessionIsForMembers'
  <2> SUFFICES ASSUME NEW r \in Rooms, session[r].shared, ~session[r].stale
               PROVE  session[r].readers = GetRoomMembers(r)'
    BY <1>1 DEF SessionIsForMembers
  <2>1. r # k
    BY <1>4
  <2> QED
    BY <1>5, <2>1 DEF SessionInv, SessionIsForMembers
<1>7. SessionsAreEncrypted'
  BY <1>1 DEF SessionInv, SessionsAreEncrypted, IsEncrypted
<1>8. HalfIsStale'
  BY <1>2 DEF HalfIsStale
<1>9. SharesAreCurrent'
  <2> SUFFICES ASSUME NEW d \in Calls, call'[d].pc = "share"
               PROVE  (/\ IsEncrypted(call[d].room)
                       /\ ~call[d].stale => call[d].readers = GetRoomMembers(call[d].room))'
    BY DEF SharesAreCurrent
  <2>1. /\ call'[d].pc = call[d].pc /\ call'[d].room = call[d].room
        /\ call'[d].readers = call[d].readers
        /\ call'[d].stale <=> (call[d].stale \/ (At(d, "share") /\ call[d].room = k))
    BY <1>1, MembershipMoves DEF k
  <2>2. /\ IsEncrypted(call[d].room)
        /\ ~call[d].stale => call[d].readers = GetRoomMembers(call[d].room)
    BY <2>1 DEF SessionInv, SharesAreCurrent
  <2>3. IsEncrypted(call[d].room)'
    BY <1>1, <2>1, <2>2 DEF IsEncrypted
  <2>4. ASSUME ~call'[d].stale PROVE call'[d].readers = (GetRoomMembers(call[d].room))'
    <3>1. ~call[d].stale /\ call[d].room # k
      BY <2>1, <2>4 DEF At
    <3>2. PICK r : r = call[d].room
      OBVIOUS
    <3>3. GetRoomMembers(r)' = GetRoomMembers(r)
      BY <1>5, <3>1, <3>2
    <3> QED
      BY <2>1, <2>2, <3>1, <3>2, <3>3 DEF GetRoomMembers
  <2> QED
    BY <2>3, <2>4
<1> QED
  BY <1>6, <1>7, <1>8, <1>9 DEF SessionInv

LEMMA RestartKeepsSessions ==
  ASSUME SessionInv, TypeOK', Restart
  PROVE  SessionInv'
<1>1. UNCHANGED <<timeline, encryption, members, session>>
  BY DEF Restart, tableVars
<1>2. \A c \in Calls : call'[c].pc # "share"
  BY RestartKills DEF SessionInv, TypeOK, Active
<1>3. ~sync'.half
  BY StartingType DEF SessionInv, TypeOK, Restart
<1>4. SessionIsForMembers' /\ SessionsAreEncrypted'
  BY <1>1 DEF SessionInv, SessionIsForMembers, SessionsAreEncrypted, IsEncrypted, GetRoomMembers
<1>5. HalfIsStale' /\ SharesAreCurrent'
  BY <1>2, <1>3 DEF HalfIsStale, SharesAreCurrent
<1> QED
  BY <1>4, <1>5 DEF SessionInv

\* The steps of a call but for the two that look the room up and the one that shares.
LEMMA OtherCallStepsKeepSessions ==
  ASSUME SessionInv, TypeOK', NEW c \in Calls,
         SendMessage(c) \/ SendAnswered(c) \/ SendAnswerLost(c) \/ RequestFails(c)
  PROVE  SessionInv'
<1> DEFINE ok == "ok"
           attempt == "attempt"
<1>1. call \in [Calls -> Call] /\ call[c].fails \in Nat
  BY DEF SessionInv, TypeOK, CallsOK, Call
<1>2. UNCHANGED <<timeline, encryption, members, session, sync>>
  BY DEF SendMessage, SendAnswered, SendAnswerLost, RequestFails, storeVars, tableVars
<1>3. Goes(c, ok) \/ Goes(c, attempt) \/ AttemptFailed(c)
  BY DEF SendMessage, SendAnswered, SendAnswerLost, RequestFails
<1>4. ok \in Active \cup Ended /\ attempt \in Active \cup Ended /\ {ok, attempt} = {"ok", "attempt"}
  BY DEF Active, Ended
<1> HIDE DEF ok, attempt
<1>5. call'[c].pc # "share" /\ \A d \in Calls \ {c} : call'[d] = call[d]
  <2>1. CASE Goes(c, ok)
    BY <1>1, <1>4, <2>1, CallMoved
  <2>2. CASE Goes(c, attempt)
    BY <1>1, <1>4, <2>2, CallMoved
  <2>3. CASE AttemptFailed(c)
    BY <1>1, <2>3, CallFailed, RetriesAssumption
  <2> QED
    BY <1>3, <2>1, <2>2, <2>3
<1> QED
  BY <1>2, <1>5, CallKeepsSessions

\* Sessions, calls and the sync loop keep SessionInv whatever the step.
LEMMA NextSession == SessionInv /\ [Next]_vars => SessionInv'
<1> SUFFICES ASSUME SessionInv, [Next]_vars PROVE SessionInv'
  OBVIOUS
<1>1. TypeOK'
  BY NextType DEF SessionInv
<1>2. TablesOK /\ TablesOK' /\ StoreOK
  BY <1>1 DEF SessionInv, TypeOK, StoreOK
<1>3. encryption' = encryption => \A r : IsEncrypted(r) => IsEncrypted(r)'
  BY DEF IsEncrypted
<1>4. ASSUME NEW c \in Calls, SendMessage(c) \/ CallStep(c) PROVE SessionInv'
  BY <1>1, <1>4, AttemptKeepsSessions, BlindAttemptKeepsSessions, SharedKeepsSessions,
     OtherCallStepsKeepSessions DEF CallStep
<1>5. ASSUME NEW r \in Rooms, SessionExpires(r) PROVE SessionInv'
  BY <1>1, <1>5, DroppedKeepsSessions DEF SessionExpires, tableVars
<1>6. CASE MembershipSet
  BY <1>1, <1>6, MembershipKeepsSessions
<1>7. CASE Besides(SyncStarts)
  <2>1. ~sync'.half
    BY <1>7 DEF Besides, SyncStarts, Starting
  <2> QED
    BY <1>1, <1>3, <1>7, <2>1, OthersKeepSessions DEF Besides, SyncStarts
<1>8. CASE Besides(SaveNextBatch)
  <2>1. ~sync'.half
    BY <1>2, <1>8 DEF Besides, SaveNextBatch, StoreOK, SyncOK, SyncLoop
  <2> QED
    BY <1>1, <1>3, <1>8, <2>1, OthersKeepSessions DEF Besides, SaveNextBatch
<1>9. CASE Besides(HandleMemberEvent)
  BY <1>1, <1>9, HandleMemberEventKeepsSessions
<1>16. CASE Besides(MemberEventFails)
  BY <1>1, <1>16, MemberEventFailsKeepsSessions
<1>10. CASE Besides(SetEncryptionEvent)
  <2> DEFINE yes == TRUE
  <2>1. ~sync'.half
    BY <1>2, <1>10, HandledType DEF Besides, SetEncryptionEvent, Handling
  <2>2. encryption' = Upsert(encryption, timeline[sync.next].room, yes)
    BY <1>10 DEF Besides, SetEncryptionEvent
  <2> HIDE DEF yes
  <2>3. \A r : IsEncrypted(r) => IsEncrypted(r)'
    BY <1>2, <2>2, EncryptionStays
  <2> QED
    BY <1>1, <1>10, <2>1, <2>3, OthersKeepSessions DEF Besides, SetEncryptionEvent
<1>11. CASE Besides(StatementFails)
  <2>1. ~sync'.half
    BY <1>2, <1>11, HandledType DEF Besides, StatementFails, Storing, Handling
  <2> QED
    BY <1>1, <1>3, <1>11, <2>1, OthersKeepSessions DEF Besides, StatementFails, tableVars
<1>12. CASE Besides(BeginPanics)
  <2>1. ~sync'.half
    BY <1>2, <1>12, StartingType DEF Besides, BeginPanics
  <2> QED
    BY <1>1, <1>3, <1>12, <2>1, OthersKeepSessions DEF Besides, BeginPanics, tableVars
<1>13. CASE Besides(RoomEvent)
  <2>1. UNCHANGED <<encryption, members, session, sync, call>>
    BY <1>13 DEF Besides, RoomEvent, tableVars
  <2>2. sync.half => timeline'[sync.next] = timeline[sync.next]
    BY <1>2, <1>13, RoomEventGrows, BatchPlace DEF Besides, StoreOK, SyncOK
  <2>3. HalfIsStale'
    BY <2>1, <2>2 DEF SessionInv, HalfIsStale
  <2>4. SessionIsForMembers' /\ SessionsAreEncrypted' /\ SharesAreCurrent'
    BY <2>1 DEF SessionInv, SessionIsForMembers, SessionsAreEncrypted, SharesAreCurrent,
                IsEncrypted, GetRoomMembers
  <2> QED
    BY <1>1, <2>3, <2>4 DEF SessionInv
<1>14. CASE Restart
  BY <1>1, <1>14, RestartKeepsSessions
<1>15. CASE UNCHANGED vars
  <2>1. UNCHANGED <<timeline, encryption, members, session, sync, call>>
    BY <1>15 DEF vars, storeVars, tableVars
  <2> QED
    BY <1>1, <2>1 DEF SessionInv, SessionIsForMembers, SessionsAreEncrypted, SharesAreCurrent,
                      HalfIsStale, IsEncrypted, GetRoomMembers
<1> QED
  BY <1>4, <1>5, <1>6, <1>7, <1>8, <1>9, <1>10, <1>11, <1>12, <1>13, <1>14, <1>15, <1>16
  DEF Next

LEMMA InitSession == Init => SessionInv
<1> SUFFICES ASSUME Init PROVE SessionInv
  OBVIOUS
<1>1. TypeOK
  BY InitType
<1>2. \A r \in Rooms : ~session[r].shared
  BY DEF Init, StoreInit, NoSession
<1>3. ~sync.half
  BY DEF Init, StoreInit, Starting
<1>4. \A c \in Calls : call[c].pc # "share"
  BY DEF Init
<1> QED
  BY <1>1, <1>2, <1>3, <1>4
  DEF SessionInv, SessionIsForMembers, SessionsAreEncrypted, HalfIsStale, SharesAreCurrent

\* A session is with just those whom the bot takes for the members of its room, in any
\* interleaving of the sends with the sync loop, unless they changed while it was being
\* shared or a failure was in the way: they could not be read, or HandleMemberEvent, which
\* comes before SetMembership, could not take the session away.
THEOREM SessionCorrect == Spec => []SessionIsForMembers
<1>1. SessionInv => SessionIsForMembers
  BY DEF SessionInv
<1> QED
  BY <1>1, InitSession, NextSession, PTL DEF Spec

-----------------------------------------------------------------------------
(* Refinement. *)

OutcomeOf == [c \in Calls |-> Outcome(call[c].pc)]
Abstract == Outbox!Next \/ UNCHANGED <<OutcomeOf, arrived>>

\* The outcome of a call follows its pc.
LEMMA Outcomes ==
  ASSUME NEW pc
  PROVE  /\ Outcome("ok") = "ok" /\ Outcome("failed") = "failed" /\ Outcome("killed") = "failed"
         /\ pc \in {"new"} \cup Active => Outcome(pc) = "none"
BY DEF Outcome, Active

\* A call that goes on has no outcome yet.
LEMMA SilentStep ==
  ASSUME UNCHANGED arrived, \A c \in Calls : Outcome(call'[c].pc) = Outcome(call[c].pc)
  PROVE  Abstract
<1>1. OutcomeOf' = OutcomeOf
  BY DEF OutcomeOf
<1> QED
  BY <1>1 DEF Abstract

\* An event that arrives: its call had an attempt left for it.
LEMMA ArriveStep ==
  ASSUME TypeOK, NEW c \in Calls, SendAnswered(c) \/ SendAnswerLost(c)
  PROVE  Outbox!Arrive(c)
<1> DEFINE pc == "ok"
<1>1. /\ call \in [Calls -> Call] /\ call[c].pc = "send" /\ call[c].fails \in Nat
      /\ arrived[c] \in Nat /\ arrived[c] <= call[c].fails /\ call[c].fails <= MaxRetries
  BY DEF TypeOK, CallsOK, SendAnswered, SendAnswerLost, At, Active, Call
<1>2. Goes(c, pc) \/ AttemptFailed(c)
  BY DEF SendAnswered, SendAnswerLost
<1>3. pc \in Active \cup Ended /\ pc = "ok"
  BY DEF Ended
<1> HIDE DEF pc
<1>4. /\ call'[c].pc \in {"ok", "failed", "attempt"}
      /\ \A d \in Calls \ {c} : call'[d] = call[d]
  <2>1. CASE Goes(c, pc)
    BY <1>1, <1>3, <2>1, CallMoved
  <2>2. CASE AttemptFailed(c)
    BY <1>1, <2>2, CallFailed, RetriesAssumption
  <2> QED
    BY <1>2, <2>1, <2>2
<1>5. OutcomeOf[c] = "none"
  BY <1>1, Outcomes DEF OutcomeOf, Active
<1>6. OutcomeOf' \in {OutcomeOf, [OutcomeOf EXCEPT ![c] = "ok"], [OutcomeOf EXCEPT ![c] = "failed"]}
  <2>1. \A d \in Calls \ {c} : Outcome(call'[d].pc) = Outcome(call[d].pc)
    BY <1>4
  <2>2. Outcome(call'[c].pc) \in {Outcome(call[c].pc), "ok", "failed"}
    BY <1>1, <1>4, Outcomes DEF Active
  <2>3. CASE Outcome(call'[c].pc) = Outcome(call[c].pc)
    <3>1. OutcomeOf' = OutcomeOf
      BY <2>1, <2>3 DEF OutcomeOf
    <3> QED
      BY <3>1
  <2>4. CASE Outcome(call'[c].pc) = "ok"
    <3>1. OutcomeOf' = [OutcomeOf EXCEPT ![c] = "ok"]
      BY <2>1, <2>4 DEF OutcomeOf
    <3> QED
      BY <3>1
  <2>5. CASE Outcome(call'[c].pc) = "failed"
    <3>1. OutcomeOf' = [OutcomeOf EXCEPT ![c] = "failed"]
      BY <2>1, <2>5 DEF OutcomeOf
    <3> QED
      BY <3>1
  <2> QED
    BY <2>2, <2>3, <2>4, <2>5
<1>7. arrived[c] < MaxRetries + 1
  BY <1>1, RetriesAssumption
<1>8. arrived' = [arrived EXCEPT ![c] = @ + 1]
  BY DEF SendAnswered, SendAnswerLost
<1> QED
  BY <1>5, <1>6, <1>7, <1>8 DEF Outbox!Arrive, OutcomeOf

\* Calls that end without an answer: none of them had ended before.
LEMMA EndStep ==
  ASSUME NEW C \in SUBSET Calls, UNCHANGED arrived,
         \A c \in C : Outcome(call[c].pc) = "none" /\ Outcome(call'[c].pc) = "failed",
         \A c \in Calls \ C : Outcome(call'[c].pc) = Outcome(call[c].pc)
  PROVE  Outbox!End(C)
<1>1. \A c \in C : OutcomeOf[c] = "none"
  BY DEF OutcomeOf
<1>2. OutcomeOf' = [c \in Calls |-> IF c \in C THEN "failed" ELSE OutcomeOf[c]]
  BY DEF OutcomeOf
<1> QED
  BY <1>1, <1>2 DEF Outbox!End, OutcomeOf

\* A step of a call that brings no event into the room is silent, or ends the call.
LEMMA CallStepRefines ==
  ASSUME TypeOK, NEW c \in Calls, SendMessage(c) \/ CallStep(c)
  PROVE  Abstract
<1>1. call \in [Calls -> Call] /\ call[c].fails \in Nat
  BY DEF TypeOK, CallsOK, Call
<1>2. CASE SendAnswered(c) \/ SendAnswerLost(c)
  <2>1. Outbox!Arrive(c)
    BY <1>2, ArriveStep
  <2> QED
    BY <2>1 DEF Abstract, Outbox!Next
<1>3. CASE RequestFails(c)
  <2>1. /\ call[c].pc \in Active /\ AttemptFailed(c) /\ UNCHANGED arrived
    BY <1>3 DEF RequestFails, At, Active
  <2>2. /\ call'[c].pc \in {"failed", "attempt"}
        /\ \A d \in Calls \ {c} : call'[d] = call[d]
    BY <1>1, <2>1, CallFailed, RetriesAssumption
  <2>3. Outcome(call[c].pc) = "none"
    BY <2>1, Outcomes
  <2>4. CASE call'[c].pc = "failed"
    <3>1. Outcome(call'[c].pc) = "failed"
      BY <2>4, Outcomes
    <3>2. Outbox!End({c})
      BY <2>1, <2>2, <2>3, <3>1, EndStep
    <3> QED
      BY <3>2 DEF Abstract, Outbox!Next
  <2>5. CASE call'[c].pc = "attempt"
    <3>1. Outcome(call'[c].pc) = "none"
      BY <2>5, Outcomes DEF Active
    <3> QED
      BY <2>1, <2>2, <2>3, <3>1, SilentStep
  <2> QED
    BY <2>2, <2>4, <2>5
<1>4. CASE SendMessage(c) \/ Attempt(c) \/ AttemptBlindly(c) \/ SessionShared(c)
  <2>1. call[c].pc \in {"new"} \cup Active /\ UNCHANGED arrived
    BY <1>4 DEF SendMessage, Attempt, AttemptBlindly, SessionShared, At, Active
  <2>2. /\ call'[c].pc \in Active
        /\ \A d \in Calls \ {c} : call'[d] = call[d]
    <3> DEFINE attempt == "attempt"
               send == "send"
               now == FALSE
               yes == TRUE
               none == {}
               readers == GetRoomMembers(call[c].room)
    <3>1. attempt \in Active /\ send \in Active
      BY DEF Active
    <3>8. readers \in SUBSET Users /\ now \in BOOLEAN
      BY DEF GetRoomMembers
    <3>9. none \in SUBSET Users /\ yes \in BOOLEAN
      OBVIOUS
    <3>2. \/ Goes(c, attempt) \/ Goes(c, send)
          \/ Share(c, readers, now) \/ Share(c, none, yes)
      BY <1>4 DEF SendMessage, Attempt, AttemptBlindly, SessionShared
    <3>3. "share" \in Active
      BY DEF Active
    <3> HIDE DEF attempt, send, now, yes, none, readers
    <3>4. CASE Goes(c, attempt)
      BY <1>1, <3>1, <3>4, CallMoved
    <3>5. CASE Goes(c, send)
      BY <1>1, <3>1, <3>5, CallMoved
    <3>6. CASE Share(c, readers, now)
      <4>1. call'[c].pc = "share" /\ \A d \in Calls \ {c} : call'[d] = call[d]
        BY <1>1, <3>6, <3>8, CallShares DEF Share
      <4> QED
        BY <3>3, <4>1
    <3>7. CASE Share(c, none, yes)
      <4>1. call'[c].pc = "share" /\ \A d \in Calls \ {c} : call'[d] = call[d]
        BY <1>1, <3>7, <3>9, CallShares DEF Share
      <4> QED
        BY <3>3, <4>1
    <3> QED
      BY <3>2, <3>4, <3>5, <3>6, <3>7
  <2>3. Outcome(call'[c].pc) = "none" /\ Outcome(call[c].pc) = "none"
    BY <2>1, <2>2, Outcomes
  <2> QED
    BY <2>1, <2>2, <2>3, SilentStep
<1> QED
  BY <1>2, <1>3, <1>4 DEF CallStep

LEMMA StepRefines ==
  ASSUME TypeOK, [Next]_vars
  PROVE  Abstract
<1>1. ASSUME NEW c \in Calls, SendMessage(c) \/ CallStep(c) PROVE Abstract
  BY <1>1, CallStepRefines
<1>2. ASSUME UNCHANGED <<call, arrived>> PROVE Abstract
  BY <1>2, SilentStep
<1>3. ASSUME NEW r \in Rooms, SessionExpires(r) PROVE Abstract
  BY <1>2, <1>3 DEF SessionExpires
<1>4. CASE MembershipSet
  <2>1. UNCHANGED arrived /\ \A c \in Calls : call'[c].pc = call[c].pc
    BY <1>4, MembershipMoves DEF MembershipSet, TypeOK
  <2> QED
    BY <2>1, SilentStep
<1>5. CASE Restart
  <2> DEFINE C == {c \in Calls : call[c].pc \in Active}
  <2>1. UNCHANGED arrived
    BY <1>5 DEF Restart
  <2>2. \A c \in Calls : IF call[c].pc \in Active THEN call'[c].pc = "killed" ELSE call'[c] = call[c]
    BY <1>5, RestartKills DEF TypeOK
  <2>3. \A c \in C : Outcome(call[c].pc) = "none" /\ Outcome(call'[c].pc) = "failed"
    BY <2>2, Outcomes
  <2>4. \A c \in Calls \ C : Outcome(call'[c].pc) = Outcome(call[c].pc)
    BY <2>2
  <2>5. Outbox!End(C)
    BY <2>1, <2>3, <2>4, EndStep
  <2> QED
    BY <2>5 DEF Abstract, Outbox!Next
<1>6. CASE UNCHANGED vars
  BY <1>2, <1>6 DEF vars
<1> QED
  BY <1>1, <1>2, <1>3, <1>4, <1>5, <1>6 DEF Next, Besides

LEMMA InitRefines == Init => Outbox!Init
<1> SUFFICES ASSUME Init PROVE Outbox!Init
  OBVIOUS
<1>1. \A c \in Calls : call[c].pc = "new"
  BY DEF Init
<1>2. \A c \in Calls : Outcome(call[c].pc) = "none"
  BY <1>1, Outcomes
<1> QED
  BY <1>2 DEF Outbox!Init, Init

\* SendMessage implements SendCall, for any number of calls, failures and restarts: an
\* event is in the room at most once for each attempt, at least once when the call says
\* that it was sent, and not any more often once the call has ended.
THEOREM Refinement == Spec => ImplementsSendCall
<1>1. TypeOK /\ [Next]_vars => [Outbox!Next]_(Outbox!vars)
  BY StepRefines DEF Abstract, OutcomeOf, Outbox!vars
<1>2. Spec => []TypeOK
  BY TypeCorrect
<1> QED
  BY <1>1, <1>2, InitRefines, PTL DEF Spec, ImplementsSendCall, Outbox!Spec

=============================================================================
