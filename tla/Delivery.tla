------------------------------- MODULE Delivery -------------------------------
(***************************************************************************)
(* helper.go: sending a message, with its attempts and its encryption,     *)
(* while the sync loop changes the tables it reads.                        *)
(*                                                                         *)
(* Each element of Calls is one call of SendMessageOnBehalfOf.  An attempt *)
(* looks the room up, encrypts if there is an encryption event, and shares *)
(* a new session with the members of the table when there is none.         *)
(***************************************************************************)
EXTENDS SyncStore

CONSTANTS
  Calls,        \* bound: the messages that are sent
  MaxRetries    \* retry.WithMaxRetries

ASSUME RetriesAssumption == MaxRetries \in Nat

VARIABLES
  call,       \* what each call is waiting for
  arrived     \* arrived[c]: how often the event of c is in the room

vars == <<storeVars, call, arrived>>

Active == {"attempt", "share", "send"}
Ended  == {"ok", "failed", "killed"}
Call == [pc : {"new"} \cup Active \cup Ended, room : Rooms, fails : Nat,
         readers : SUBSET Users,  \* those with whom the session is being shared
         stale : BOOLEAN]         \* have the members changed since they were read?

-----------------------------------------------------------------------------
(* A call. *)

At(c, pc)   == call[c].pc = pc
Unasked(c)  == [call[c] EXCEPT !.readers = {}, !.stale = FALSE]
Goes(c, pc) == call' = [call EXCEPT ![c] = [Unasked(c) EXCEPT !.pc = pc]]

\* The handler calls SendMessage.
SendMessage(c) ==
  /\ At(c, "new")
  /\ Goes(c, "attempt")
  /\ UNCHANGED <<storeVars, arrived>>

\* ShareGroupSession is called with the members that were found.
Share(c, readers, stale) ==
  call' = [call EXCEPT ![c] = [@ EXCEPT !.pc = "share", !.readers = readers, !.stale = stale]]

\* One attempt, up to its first request.  A room that is not encrypted needs no key, a
\* session that was shared is used, and without one the members of the table get a new one.
Attempt(c) ==
  LET r == call[c].room
  IN /\ At(c, "attempt")
     /\ IF IsEncrypted(r) /\ ~session[r].shared
        THEN Share(c, GetRoomMembers(r), FALSE)
        ELSE Goes(c, "send")
     /\ UNCHANGED <<storeVars, arrived>>

\* A query of the attempt fails: a room whose encryption cannot be read counts as not
\* encrypted, one whose members cannot be read as empty.
AttemptBlindly(c) ==
  LET r == call[c].room
  IN /\ At(c, "attempt")
     /\ IsEncrypted(r)
     /\ Fault
     /\ \/ Goes(c, "send")
        \/ ~session[r].shared /\ Share(c, {}, TRUE)
     /\ UNCHANGED <<timeline, tableVars, session, sync, lost, restarts, arrived>>

\* Is a member event of room r half handled?
HalfHandled(r) == sync.half /\ timeline[sync.next].room = r

Shared(c) ==
  session' = [session EXCEPT ![call[c].room] =
                [shared |-> TRUE, readers |-> call[c].readers,
                 stale |-> call[c].stale \/ HalfHandled(call[c].room)]]

\* Mutant of SessionShared: instead of encrypting with the new session the attempt
\* starts again, and the session may have expired by then.
SessionSharedLooksAgain(c) ==
  /\ At(c, "share")
  /\ Shared(c)
  /\ Goes(c, "attempt")
  /\ UNCHANGED <<timeline, tableVars, sync, lost, boundVars, arrived>>

\* ShareGroupSession has given the key to those who were members when it was called, and
\* the event is encrypted with it.
SessionShared(c) ==
  /\ At(c, "share")
  /\ Shared(c)
  /\ Goes(c, "send")
  /\ UNCHANGED <<timeline, tableVars, sync, lost, boundVars, arrived>>

\* Mutant of AttemptFailed: one attempt too many.
AttemptFailedOnceMore(c) ==
  call' = [call EXCEPT ![c] = [Unasked(c) EXCEPT !.fails = @ + 1,
             !.pc = IF call[c].fails > MaxRetries THEN "failed" ELSE "attempt"]]

\* An attempt has failed: there is another one unless there were too many.
AttemptFailed(c) ==
  call' = [call EXCEPT ![c] = [Unasked(c) EXCEPT !.fails = @ + 1,
             !.pc = IF call[c].fails + 1 > MaxRetries THEN "failed" ELSE "attempt"]]

\* The event arrives, and its ID is the answer.
SendAnswered(c) ==
  /\ At(c, "send")
  /\ arrived' = [arrived EXCEPT ![c] = @ + 1]
  /\ Goes(c, "ok")
  /\ UNCHANGED storeVars

\* The event arrives, and the answer is lost.
SendAnswerLost(c) ==
  /\ At(c, "send")
  /\ arrived' = [arrived EXCEPT ![c] = @ + 1]
  /\ AttemptFailed(c)
  /\ UNCHANGED storeVars

\* The request fails, to share the session or to send the event.
RequestFails(c) ==
  /\ At(c, "share") \/ At(c, "send")
  /\ AttemptFailed(c)
  /\ UNCHANGED <<storeVars, arrived>>

\* The session has become too old, or has been used too often (SessionExpired).
SessionExpires(r) ==
  /\ session[r].shared
  /\ DropSession(r)
  /\ UNCHANGED <<timeline, tableVars, sync, lost, boundVars, call, arrived>>

-----------------------------------------------------------------------------
(* The sync loop beside the calls. *)

\* SetMembership, while some calls may be sharing a session with the members of before.
MembershipSet ==
  /\ SetMembership
  /\ call' = [c \in Calls |->
       IF At(c, "share") /\ call[c].room = timeline[sync.next].room
       THEN [call[c] EXCEPT !.stale = TRUE] ELSE call[c]]
  /\ UNCHANGED arrived

Besides(A) == A /\ UNCHANGED <<call, arrived>>

\* The process ends and starts again: its calls are gone, its tables are not.
Restart ==
  /\ restarts < MaxRestarts
  /\ restarts' = restarts + 1
  /\ sync' = Starting
  /\ LoseBatch
  /\ call' = [c \in Calls |-> IF call[c].pc \in Active THEN [Unasked(c) EXCEPT !.pc = "killed"]
                              ELSE call[c]]
  /\ UNCHANGED <<timeline, tableVars, session, faults, arrived>>

Init ==
  /\ StoreInit
  /\ call \in [Calls -> {[pc |-> "new", room |-> r, fails |-> 0, readers |-> {},
                          stale |-> FALSE] : r \in Rooms}]
  /\ arrived = [c \in Calls |-> 0]

CallStep(c) == \/ Attempt(c) \/ AttemptBlindly(c) \/ SessionShared(c)
               \/ SendAnswered(c) \/ SendAnswerLost(c) \/ RequestFails(c)

Next ==
  \/ \E c \in Calls : SendMessage(c) \/ CallStep(c)
  \/ \E r \in Rooms : SessionExpires(r)
  \/ MembershipSet
  \/ Besides(SyncStarts)
  \/ Besides(SaveNextBatch)
  \/ Besides(HandleMemberEvent)
  \/ Besides(MemberEventFails)
  \/ Besides(SetEncryptionEvent)
  \/ Besides(StatementFails)
  \/ Besides(BeginPanics)
  \/ Besides(RoomEvent)
  \/ Restart

Spec == Init /\ [][Next]_vars

\* Every request ends, by its answer or by the timeout of the client, and the runtime
\* runs every goroutine: a call that has been made gets on.
FairSpec == Spec /\ \A c \in Calls : WF_vars(CallStep(c))

-----------------------------------------------------------------------------
(* Properties. *)

CallsOK ==
  /\ call \in [Calls -> Call]
  /\ arrived \in [Calls -> Nat]
  /\ \A c \in Calls : call[c].pc \in {"new"} \cup Active =>
       arrived[c] <= call[c].fails /\ call[c].fails <= MaxRetries

\* The tables and the sync loop are well formed, and a call that goes on has not failed too
\* often, nor brought its event into the room more often than it has failed.
TypeOK == StoreOK /\ CallsOK

\* A send does not go on for ever, however often sessions expire, members change and
\* requests fail (DoRetry): the handler that waits for it gets on.
SendEnds == \A c \in Calls : call[c].pc \in Active ~> call[c].pc \in Ended

Outcome(pc) == IF pc = "ok" THEN "ok" ELSE IF pc \in {"failed", "killed"} THEN "failed" ELSE "none"

Outbox == INSTANCE SendCall WITH Copies <- MaxRetries + 1,
                                 outcome <- [c \in Calls |-> Outcome(call[c].pc)]

\* SendMessage keeps what SendCall promises: the event is in the room at most once for
\* each attempt, at least once when the call succeeds, and not again after it has ended.
ImplementsSendCall == Outbox!Spec

=============================================================================
