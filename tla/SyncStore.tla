------------------------------- MODULE SyncStore -------------------------------
(***************************************************************************)
(* The tables of the bot (store/*.go) and the sync loop that fills them.   *)
(* Room events arrive in batches.  The token of a batch is saved before    *)
(* its events are handled, one after the other: member events first take   *)
(* away the Megolm session of an encrypted room and then change            *)
(* room_members, encryption events go to the table rooms.                  *)
(*                                                                         *)
(* The statement of a table runs in a transaction of its own.  When it     *)
(* fails the error is logged and the event is lost; when the transaction   *)
(* cannot be begun Rollback is called through a nil pointer, the panic     *)
(* ends the batch, and main calls Sync again.                              *)
(***************************************************************************)
EXTENDS Naturals, Sequences, FiniteSets

CONSTANTS
  Rooms, Users,
  Histories,     \* what the rooms have been through before: sequences of events
  MaxEvents,     \* bound: room events, those before included
  MaxFaults,     \* bound: calls and statements that fail
  MaxRestarts    \* bound: restarts of the process

Membership == {"invite", "join", "leave"}
MemberEvent     == [type : {"member"}, room : Rooms, user : Users, membership : Membership]
EncryptionEvent == [type : {"encryption"}, room : Rooms]
Event == MemberEvent \cup EncryptionEvent

ASSUME SyncAssumption ==
  /\ Histories \subseteq Seq(Event)
  /\ MaxEvents \in Nat /\ MaxFaults \in Nat /\ MaxRestarts \in Nat

VARIABLES
  timeline,     \* the room events, in the order of the homeserver
  filterIds,    \* the rows of user_filter_ids
  batchTokens,  \* the rows of user_batch_tokens; a token is a place in the timeline
  encryption,   \* the rows of rooms
  members,      \* the rows of room_members
  session,      \* session[r]: the outbound Megolm session of room r (crypto store)
  sync,         \* where the sync loop is
  lost,         \* places in the timeline whose event the tables have missed
  faults, restarts

tableVars == <<filterIds, batchTokens, encryption, members>>
boundVars == <<faults, restarts>>
storeVars == <<timeline, tableVars, session, sync, lost, boundVars>>

Fault == faults < MaxFaults /\ faults' = faults + 1

-----------------------------------------------------------------------------
(* Tables with a primary key, as sets of rows <<key, value>>. *)

\* UPDATE ... SET value WHERE key; INSERT OR IGNORE: the two statements of an upsert.
Update(rows, k, v) == {IF row[1] = k THEN <<k, v>> ELSE row : row \in rows}
InsertOrIgnore(rows, k, v) ==
  IF \E row \in rows : row[1] = k THEN rows ELSE rows \cup {<<k, v>>}

\* Mutant of Upsert: the row of a key that is there already is left beside the new one.
UpsertInserts(rows, k, v) == rows \cup {<<k, v>>}

Upsert(rows, k, v) == InsertOrIgnore(Update(rows, k, v), k, v)

\* SELECT ... WHERE key, or what the zero value of Go stands for.
Select(rows, k, zero) ==
  IF \E row \in rows : row[1] = k THEN (CHOOSE row \in rows : row[1] = k)[2] ELSE zero

Bot == "bot"
LoadFilterID  == Select(filterIds, Bot, "")
LoadNextBatch == Select(batchTokens, Bot, 0)
IsEncrypted(r)    == Select(encryption, r, FALSE)
GetRoomMembers(r) == {u \in Users : <<r, u>> \in members}

-----------------------------------------------------------------------------
(* The sync loop of the client library, up to the handlers of the bot. *)

\* from: the place the next request asks for; next: the event to be handled; last: the
\* end of the batch.  half: is the member event handled by the library only?
SyncLoop == [pc : {"start", "idle", "batch"}, next : Nat, last : Nat, half : BOOLEAN]
Starting == [pc |-> "start", next |-> 0, last |-> 0, half |-> FALSE]

\* A session is for those its key was shared with.  (stale: it may be for others than the
\* members.  They could not be read, they changed while it was shared, or it was not taken
\* away when they changed.)
NoSession == [shared |-> FALSE, readers |-> {}, stale |-> FALSE]
Session   == [shared : BOOLEAN, readers : SUBSET Users, stale : BOOLEAN]
DropSession(r) == session' = [session EXCEPT ![r] = NoSession]

\* client.Sync begins: it creates a filter when none is saved, and goes on where the
\* saved token says.  (SaveFilterID may fail; then the next start creates another one.)
SyncStarts ==
  /\ sync.pc = "start"
  /\ \/ LoadFilterID # "" /\ UNCHANGED <<filterIds, faults>>
     \/ LoadFilterID = "" /\ filterIds' = Upsert(filterIds, Bot, "filter") /\ UNCHANGED faults
     \/ LoadFilterID = "" /\ Fault /\ UNCHANGED filterIds
  /\ sync' = [Starting EXCEPT !.pc = "idle", !.next = LoadNextBatch + 1, !.last = LoadNextBatch]
  /\ UNCHANGED <<timeline, batchTokens, encryption, members, session, lost, restarts>>

\* A batch arrives, and SaveNextBatch saves its token, or fails to.
SaveNextBatch ==
  /\ sync.pc = "idle"
  /\ sync.last < Len(timeline)
  /\ \/ batchTokens' = Upsert(batchTokens, Bot, Len(timeline)) /\ UNCHANGED faults
     \/ Fault /\ UNCHANGED batchTokens
  /\ sync' = [sync EXCEPT !.pc = "batch", !.last = Len(timeline)]
  /\ UNCHANGED <<timeline, filterIds, encryption, members, session, lost, restarts>>

Handling(type) == sync.pc = "batch" /\ timeline[sync.next].type = type

\* The next event of the batch, or the end of it.
Handled ==
  sync' = [sync EXCEPT !.next = @ + 1, !.half = FALSE,
                       !.pc = IF sync.next = sync.last THEN "idle" ELSE "batch"]

\* Mutant of HandleMemberEvent: one who has left keeps the session.
HandleMemberEventOfJoin ==
  /\ Handling("member")
  /\ ~sync.half
  /\ sync' = [sync EXCEPT !.half = TRUE]
  /\ LET e == timeline[sync.next]
     IN IF IsEncrypted(e.room) /\ e.membership # "leave" THEN DropSession(e.room)
                                                        ELSE UNCHANGED session
  /\ UNCHANGED <<timeline, tableVars, lost, boundVars>>

\* olmMachine.HandleMemberEvent: a new member must not be left without the key, nor one
\* who has left be given the next: the session of the room is taken away.
HandleMemberEvent ==
  /\ Handling("member")
  /\ ~sync.half
  /\ sync' = [sync EXCEPT !.half = TRUE]
  /\ LET r == timeline[sync.next].room
     IN IF IsEncrypted(r) THEN DropSession(r) ELSE UNCHANGED session
  /\ UNCHANGED <<timeline, tableVars, lost, boundVars>>

\* Its query fails, so that the room counts as not encrypted, or the removal fails: the
\* room keeps the session that it has.
MemberEventFails ==
  /\ Handling("member")
  /\ ~sync.half
  /\ Fault
  /\ sync' = [sync EXCEPT !.half = TRUE]
  /\ LET r == timeline[sync.next].room
     IN session' = [session EXCEPT ![r].stale = session[r].shared]
  /\ UNCHANGED <<timeline, tableVars, lost, restarts>>

\* Mutant of SetMembership: the invited are left out.
SetMembershipOfJoin ==
  LET e == timeline[sync.next]
  IN /\ Handling("member")
     /\ sync.half
     /\ members' = IF e.membership = "join" THEN members \cup {<<e.room, e.user>>}
                                             ELSE members \ {<<e.room, e.user>>}
     /\ Handled
     /\ lost' = lost \ {sync.next}
     /\ UNCHANGED <<timeline, filterIds, batchTokens, encryption, session, boundVars>>

\* Those invited count like those who have joined.
SetMembership ==
  LET e == timeline[sync.next]
  IN /\ Handling("member")
     /\ sync.half
     /\ members' = IF e.membership \in {"invite", "join"}
                   THEN members \cup {<<e.room, e.user>>}
                   ELSE members \ {<<e.room, e.user>>}
     /\ Handled
     /\ lost' = lost \ {sync.next}
     /\ UNCHANGED <<timeline, filterIds, batchTokens, encryption, session, boundVars>>

SetEncryptionEvent ==
  /\ Handling("encryption")
  /\ encryption' = Upsert(encryption, timeline[sync.next].room, TRUE)
  /\ Handled
  /\ lost' = lost \ {sync.next}
  /\ UNCHANGED <<timeline, filterIds, batchTokens, members, session, boundVars>>

Storing == Handling("encryption") \/ (Handling("member") /\ sync.half)

\* The statement fails: the error is logged, and the event is forgotten.
StatementFails ==
  /\ Storing
  /\ Fault
  /\ Handled
  /\ lost' = lost \cup {sync.next}
  /\ UNCHANGED <<timeline, tableVars, session, restarts>>

\* What is left of the batch is never asked for again once its token is saved.
LoseBatch == lost' = lost \cup {p \in sync.next .. sync.last : sync.pc = "batch" /\ p <= LoadNextBatch}

\* The transaction cannot be begun: the panic is caught above the handlers, Sync
\* returns, and main calls it again.
BeginPanics ==
  /\ Storing
  /\ Fault
  /\ sync' = Starting
  /\ LoseBatch
  /\ UNCHANGED <<timeline, tableVars, session, restarts>>

-----------------------------------------------------------------------------
(* The rooms. *)

\* What a timeline makes of a user in a room, up to a place: the last of the places
\* where it speaks of them, 0 if there is none.
LastOf(P) == IF P = {} THEN 0 ELSE CHOOSE p \in P : \A q \in P : q <= p
LastMember(tl, n, r, u) ==
  LastOf({p \in 1 .. n : tl[p].type = "member" /\ tl[p].room = r /\ tl[p].user = u})
IsMember(tl, n, r, u) ==
  LET p == LastMember(tl, n, r, u) IN p # 0 /\ tl[p].membership # "leave"
HasEncryption(tl, n, r) == \E p \in 1 .. n : tl[p].type = "encryption" /\ tl[p].room = r

\* Somebody is invited, joins or leaves, or encryption is turned on for good.
RoomEvent ==
  /\ Len(timeline) < MaxEvents
  /\ \E e \in Event :
       /\ IF e.type = "encryption" THEN ~HasEncryption(timeline, Len(timeline), e.room)
          ELSE LET p == LastMember(timeline, Len(timeline), e.room, e.user)
               IN e.membership # (IF p = 0 THEN "leave" ELSE timeline[p].membership)
       /\ timeline' = Append(timeline, e)
  /\ UNCHANGED <<tableVars, session, sync, lost, boundVars>>

\* A new database, or one that has kept up with what the rooms have been through.
StoreInit ==
  /\ timeline \in Histories
  /\ filterIds = {}
  /\ batchTokens = IF timeline = <<>> THEN {} ELSE {<<Bot, Len(timeline)>>}
  /\ encryption = {<<r, TRUE>> : r \in {q \in Rooms : HasEncryption(timeline, Len(timeline), q)}}
  /\ members = {m \in Rooms \X Users : IsMember(timeline, Len(timeline), m[1], m[2])}
  /\ session = [r \in Rooms |-> NoSession]
  /\ sync = Starting
  /\ lost = {}
  /\ faults = 0
  /\ restarts = 0

-----------------------------------------------------------------------------

\* A table has at most one row for a key.
Keyed(rows) == \A a, b \in rows : a[1] = b[1] => a = b

TablesOK ==
  /\ Keyed(filterIds) /\ filterIds \subseteq {Bot} \X {"filter"}
  /\ Keyed(batchTokens) /\ batchTokens \subseteq {Bot} \X (0 .. Len(timeline))
  /\ Keyed(encryption) /\ encryption \subseteq Rooms \X {TRUE}
  /\ members \subseteq Rooms \X Users

SyncOK ==
  /\ sync \in SyncLoop
  /\ sync.last <= Len(timeline)
  /\ sync.pc = "batch" => sync.next \in 1 .. sync.last
  /\ sync.pc = "idle" => sync.next = sync.last + 1
  /\ sync.half => sync.pc = "batch" /\ timeline[sync.next].type = "member"

\* Tables are keyed, and the sync loop is at an event that exists, half way through it
\* only when it is a member event.
StoreOK ==
  /\ timeline \in Seq(Event)
  /\ TablesOK
  /\ SyncOK
  /\ session \in [Rooms -> Session]
  /\ lost \subseteq 1 .. Len(timeline)
  /\ faults \in Nat /\ restarts \in Nat

CaughtUp == sync.pc = "idle" /\ sync.last = Len(timeline)

\* What the bot takes for the members of a room, and for its encryption, is what the
\* homeserver says, once the sync loop has caught up: whatever batches, restarts and
\* repeated batches there were, except for the events that a failed statement, or a
\* process that ended between SaveNextBatch and the handler, has cost (lost).
TableFollowsTimeline ==
  CaughtUp =>
    \A r \in Rooms :
      /\ \A u \in Users : LET p == LastMember(timeline, Len(timeline), r, u)
           IN p \notin lost =>
                (u \in GetRoomMembers(r) <=> IsMember(timeline, Len(timeline), r, u))
      /\ \A p \in 1 .. Len(timeline) \ lost :
           timeline[p].type = "encryption" /\ timeline[p].room = r => IsEncrypted(r)

\* olmMachine.HandleMemberEvent comes before SetMembership (standupbot.go:258-259): the
\* key of a session is with just those whom room_members names, whatever the interleaving
\* of the sends with the sync loop.  The exceptions (stale) are a session for which the
\* members could not be read (crypto_state_store.go:25-29, storer.go:77-92), one that was
\* shared while they changed, and one that outlived a change because HandleMemberEvent
\* could not see that the room is encrypted, or could not remove it.
SessionIsForMembers ==
  \A r \in Rooms :
    session[r].shared /\ ~session[r].stale => session[r].readers = GetRoomMembers(r)

=============================================================================
