------------------------------- MODULE Settings -------------------------------
(***************************************************************************)
(* The four settings of a user: timezone, notification time, send room and *)
(* use of threads.  Each is a state event in the room the command came     *)
(* from, and is kept in a cache of the process (store/config_room.go).     *)
(* The user may talk to the bot in several rooms; UserConfigRooms names    *)
(* the one of the last command, and only that one is asked when the cache  *)
(* has no entry.  At the start the settings are loaded from all the rooms  *)
(* the bot is in (standupbot.go), one after the other.                     *)
(*                                                                         *)
(* A call is cut twice: when the homeserver serves it and when its answer  *)
(* arrives, so that two goroutines can overtake each other in between.     *)
(* What other modules need of the settings (the posts, the reminder) is    *)
(* modelled there; here they are values.                                   *)
(***************************************************************************)
EXTENDS Naturals, Sequences, FiniteSets, Functions

CONSTANTS
  Workers,      \* goroutines at work for the user: handlers and the notification loop
  Rooms,        \* rooms the user talks to the bot in
  Zones,        \* names that time.LoadLocation knows
  UTC,          \* the name of the nil *time.Location
  Times,        \* minutes after midnight
  SendRooms,    \* rooms for the posts
  None,         \* no state event, no cache entry, no room
  Empty,        \* the content {} that "notify stop" writes
  Unknown,      \* an argument that is refused
  Commands,     \* bound: the commands the user knows
  Reads,        \* bound: the settings that something asks for
  MaxCommands,  \* bound: commands about a setting
  MaxFaults,    \* bound: calls that fail, or whose answer is lost
  MaxRestarts   \* bound: restarts of the process

Setting == {"tz", "notify", "room", "threads"}

\* What a setting can be.
Values(k) == CASE k = "tz"      -> Zones
               [] k = "notify"  -> Times
               [] k = "room"    -> SendRooms
               [] k = "threads" -> {"true", "false"}

\* What a message can begin with to be a command, and what follows it.
Prefix  == {"!su", "!standupbot", "@name", "@name:", "name:"}
Command == (UNION {{<<k, v>> : v \in Values(k) \cup {Unknown}} : k \in Setting})
             \cup {<<"notify", Empty>>, <<"vanquish">>, <<"help">>}

Contents(k) == Values(k) \cup (IF k = "notify" THEN {Empty} ELSE {})

ASSUME ValuesAssumption ==
  /\ UTC \in Zones
  /\ \A k \in Setting : {None, Empty, Unknown} \cap Values(k) = {}
  /\ None # Empty /\ Unknown \notin {None, Empty}
  /\ None \notin Rooms /\ None \notin Setting
ASSUME RoomsAssumption == IsFiniteSet(Rooms)
ASSUME SettingsBounds ==
  /\ Commands \subseteq Prefix \X Command
  /\ Reads \subseteq Setting
  /\ MaxCommands \in Nat /\ MaxFaults \in Nat /\ MaxRestarts \in Nat

VARIABLES
  stored,     \* stored[r][k]: the state event of setting k in room r
  joined,     \* the rooms the bot is in
  cache,      \* cache[k]: the entry of the user in the cache of setting k
  config,     \* UserConfigRooms[user]
  task,       \* what each goroutine is waiting for
  told,       \* told[k]: what the bot has last told the user that k is now, and in which room
  raced,      \* settings that two goroutines were at at once, and none on its own since
  unanswered, \* settings of which the last write was served and its answer lost
  commands, faults, restarts

memVars    == <<cache, config>>
ghostVars  == <<told, raced, unanswered>>
boundVars  == <<commands, faults, restarts>>
vars == <<stored, joined, cache, config, task, told, raced, unanswered,
          commands, faults, restarts>>

Task == [pc : {"idle", "write", "wrote", "read", "got", "leave"},
         kind : Setting \cup {None}, room : Rooms \cup {None},
         val : (UNION {Contents(k) : k \in Setting}) \cup {None}]
Idle == [pc |-> "idle", kind |-> None, room |-> None, val |-> None]

\* live: by this process, and without a "notify stop" since that failed.
Told(k) == [val : Contents(k) \cup {None}, room : Rooms \cup {None}, live : BOOLEAN]
Untold  == [val |-> None, room |-> None, live |-> FALSE]

Free(w)   == task[w].pc = "idle"
At(w, pc) == task[w].pc = pc
Quiet(k)  == \A w \in Workers : task[w].kind # k

\* No write of setting k is served and not yet answered.
Answered(k) == \A w \in Workers : task[w].kind = k => task[w].pc # "wrote"

\* (What was told while two were at the setting does not count once one is on its own.)
Call(w, t) ==
  /\ task' = [task EXCEPT ![w] = t]
  /\ raced' = IF Quiet(t.kind) THEN raced \ {t.kind} ELSE raced \cup {t.kind}
  /\ told' = [told EXCEPT ![t.kind] = IF Quiet(t.kind) /\ t.kind \in raced THEN Untold ELSE @]
Return(w) == task' = [task EXCEPT ![w] = Idle] /\ UNCHANGED raced
Fault == faults < MaxFaults /\ faults' = faults + 1

-----------------------------------------------------------------------------
(* Reading a setting. *)

\* GetTimezone, GetNotify, GetSendRoomId or GetUseThreads finds no entry and asks the
\* config room of the moment.  (With an entry the cache is the answer.)
Get(w, k) ==
  /\ Free(w)
  /\ cache[k] = None
  /\ Call(w, [pc |-> "read", kind |-> k, room |-> config, val |-> None])
  /\ UNCHANGED <<stored, joined, memVars, unanswered, boundVars>>

Readable(r, k) == r \in joined /\ stored[r][k] # None

ReadServed(w) ==
  /\ At(w, "read")
  /\ Readable(task[w].room, task[w].kind)
  /\ task' = [task EXCEPT ![w] =
                [@ EXCEPT !.pc = "got", !.val = stored[task[w].room][task[w].kind]]]
  /\ UNCHANGED <<stored, joined, memVars, ghostVars, boundVars>>

\* There is no such event, the bot is not in the room, or the call fails: the caller
\* goes on with UTC, without a reminder, without a send room or without threads.
ReadFailed(w) ==
  /\ At(w, "read")
  /\ IF Readable(task[w].room, task[w].kind) THEN Fault ELSE UNCHANGED faults
  /\ Return(w)
  /\ UNCHANGED <<stored, joined, memVars, told, unanswered, commands, restarts>>

\* Mutant of ReadAnswered: a {} is cached too, as a time of its own.
ReadAnsweredAnything(w) ==
  /\ At(w, "got")
  /\ cache' = [cache EXCEPT ![task[w].kind] = task[w].val]
  /\ Return(w)
  /\ UNCHANGED <<stored, joined, config, told, unanswered, boundVars>>

\* The entry is made, whatever the cache says by now.  A {} has no minutes: it stands
\* for no notification and is not cached.
ReadAnswered(w) ==
  /\ At(w, "got")
  /\ cache' = IF task[w].val = Empty THEN cache
              ELSE [cache EXCEPT ![task[w].kind] = task[w].val]
  /\ Return(w)
  /\ UNCHANGED <<stored, joined, config, told, unanswered, boundVars>>

-----------------------------------------------------------------------------
(* Commands. *)

\* getCommandParts.  After "!su" and "!standupbot" the blank belongs to the prefix;
\* after the name it is where the rest is split, so that the first part is empty.
getCommandParts(prefix, words) ==
  IF prefix \in {"!su", "!standupbot"} THEN words ELSE <<"">> \o words

Writing(k, r, v) == [pc |-> "write", kind |-> k, room |-> r, val |-> v]

Refuses(w) == Return(w) /\ UNCHANGED told

\* A name that is not known is refused, and the handler goes on with the nil location.
HandleTimezone(w, r, arg) ==
  Call(w, Writing("tz", r, IF arg = Unknown THEN UTC ELSE arg))

HandleNotify(w, r, arg) ==
  \/ arg = Unknown /\ Refuses(w)
  \/ arg # Unknown /\ Call(w, Writing("notify", r, arg))

HandleThreads(w, r, arg) ==
  \/ arg = Unknown /\ Refuses(w)
  \/ arg # Unknown /\ Call(w, Writing("threads", r, arg))

\* JoinRoom, and SendStateEvent when it succeeds, are one call here: nothing is read
\* or written between them.
HandleRoom(w, r, arg) ==
  \/ arg = Unknown /\ Refuses(w)
  \/ arg # Unknown /\ Call(w, Writing("room", r, arg))

Leave(w, r) ==
  /\ task' = [task EXCEPT ![w] = [Idle EXCEPT !.pc = "leave", !.room = r]]
  /\ UNCHANGED <<raced, told>>

\* Mutant of SetConfigRoom: the first room stays.
SetConfigRoomNot(r) == UNCHANGED config

SetConfigRoom(r) == config' = r

\* Whatever room a command comes from becomes the config room.  What is no command
\* that is known is answered with the help.
HandleMessage(w, r, prefix, words) ==
  LET parts == getCommandParts(prefix, words)
      name  == Head(parts)
  IN /\ Free(w)
     /\ r \in joined
     /\ IF name \in Setting THEN commands < MaxCommands /\ commands' = commands + 1
                            ELSE UNCHANGED commands
     /\ SetConfigRoom(r)
     /\ \/ name = "tz"       /\ HandleTimezone(w, r, parts[2])
        \/ name = "notify"   /\ HandleNotify(w, r, parts[2])
        \/ name = "threads"  /\ HandleThreads(w, r, parts[2])
        \/ name = "room"     /\ HandleRoom(w, r, parts[2])
        \/ name = "vanquish" /\ Leave(w, r)
        \/ name \notin Setting \cup {"vanquish"} /\ Refuses(w)
     /\ UNCHANGED <<stored, joined, cache, unanswered, faults, restarts>>

WriteServed(w) ==
  /\ At(w, "write")
  /\ task[w].room \in joined
  /\ stored' = [stored EXCEPT ![task[w].room] =
                  [@ EXCEPT ![task[w].kind] = task[w].val]]
  /\ task' = [task EXCEPT ![w] = [@ EXCEPT !.pc = "wrote"]]
  /\ UNCHANGED <<joined, memVars, ghostVars, boundVars>>

Tells(t) == told' = [told EXCEPT ![t.kind] = [val |-> t.val, room |-> t.room, live |-> TRUE]]

\* Mutant of WriteAnswered: RemoveNotify is forgotten.
WriteAnsweredNoRemove(w) ==
  LET t == task[w]
  IN /\ At(w, "wrote")
     /\ cache' = IF t.val = Empty THEN cache ELSE [cache EXCEPT ![t.kind] = t.val]
     /\ Tells(t)
     /\ unanswered' = unanswered \ {t.kind}
     /\ Return(w)
     /\ UNCHANGED <<stored, joined, config, boundVars>>

\* SetTimezone, SetNotify, RemoveNotify, SetSendRoomId, SetUseThreads.
WriteAnswered(w) ==
  LET t == task[w]
  IN /\ At(w, "wrote")
     /\ cache' = [cache EXCEPT ![t.kind] = IF t.val = Empty THEN None ELSE t.val]
     /\ Tells(t)
     /\ unanswered' = unanswered \ {t.kind}
     /\ Return(w)
     /\ UNCHANGED <<stored, joined, config, boundVars>>

\* Mutant of WriteFailed: the error is not looked at.
WriteFailedUnseen(w) ==
  LET t == task[w]
  IN /\ At(w, "write")
     /\ Fault
     /\ cache' = [cache EXCEPT ![t.kind] = IF t.val = Empty THEN None ELSE t.val]
     /\ Tells(t)
     /\ Return(w)
     /\ UNCHANGED <<stored, joined, config, unanswered, commands, restarts>>

\* The write was refused, failed, or was served and its answer lost: the user is told that
\* nothing was set.  Only the entry of the notification time is removed all the same.
WriteFailed(w) ==
  LET t == task[w]
  IN /\ \/ At(w, "write") /\ t.room \in joined /\ Fault /\ UNCHANGED unanswered
        \/ At(w, "write") /\ t.room \notin joined /\ UNCHANGED <<faults, unanswered>>
        \/ At(w, "wrote") /\ Fault /\ unanswered' = unanswered \cup {t.kind}
     /\ IF t.val = Empty
        THEN /\ cache' = [cache EXCEPT !["notify"] = None]
             /\ told' = [told EXCEPT !["notify"].live = FALSE]
        ELSE UNCHANGED <<cache, told>>
     /\ Return(w)
     /\ UNCHANGED <<stored, joined, config, commands, restarts>>

\* vanquish: the bot has left the room, or could not.  Nothing else is changed.
Left(w) ==
  /\ At(w, "leave")
  /\ \/ joined' = joined \ {task[w].room} /\ UNCHANGED faults
     \/ Fault /\ UNCHANGED joined
  /\ Return(w)
  /\ UNCHANGED <<stored, memVars, told, unanswered, commands, restarts>>

\* The bot is invited (again) and joins, in the handler of member events.
Invited(r) ==
  /\ r \notin joined
  /\ joined' = joined \cup {r}
  /\ UNCHANGED <<stored, memVars, task, ghostVars, boundVars>>

-----------------------------------------------------------------------------
(* The start. *)

\* The room of a set that the load comes to last.
Latest(order, S) == CHOOSE r \in S : \A q \in S : order[q] <= order[r]

\* What the load does not get to see: nothing, everything when the rooms cannot be listed,
\* the events of a room whose members cannot be read, or one event.
Missed == {{}, joined \X Setting} \cup {{r} \X Setting : r \in joined}
            \cup {{e} : e \in joined \X Setting}

\* The process ends and starts again.  The rooms are gone through one by one; of each
\* setting, and of the config room, the last that is found stays.
Restart ==
  /\ restarts < MaxRestarts
  /\ restarts' = restarts + 1
  /\ \E order \in Bijection(joined, 1 .. Cardinality(joined)), missed \in Missed :
       /\ IF missed = {} THEN UNCHANGED faults ELSE Fault
       /\ LET Found(k) == {r \in joined : stored[r][k] \in Values(k) /\ <<r, k>> \notin missed}
              All      == UNION {Found(k) : k \in Setting}
          IN /\ cache' = [k \in Setting |->
                            IF Found(k) = {} THEN None ELSE stored[Latest(order, Found(k))][k]]
             /\ config' = IF All = {} THEN None ELSE Latest(order, All)
  \* The user was told what the old process has told, and writes that were served go
  \* unanswered.
  /\ told' = [k \in Setting |-> [told[k] EXCEPT !.live = FALSE]]
  /\ unanswered' = unanswered \cup {k \in Setting : ~Answered(k)}
  /\ task' = [w \in Workers |-> Idle]
  /\ UNCHANGED <<stored, joined, raced, commands>>

-----------------------------------------------------------------------------

\* A new user, in rooms without any state event.
Init ==
  /\ stored = [r \in Rooms |-> [k \in Setting |-> None]]
  /\ joined = Rooms
  /\ cache = [k \in Setting |-> None]
  /\ config = None
  /\ task = [w \in Workers |-> Idle]
  /\ told = [k \in Setting |-> Untold]
  /\ raced = {}
  /\ unanswered = {}
  /\ commands = 0
  /\ faults = 0
  /\ restarts = 0

Answer(w) == \/ ReadServed(w) \/ ReadFailed(w) \/ ReadAnswered(w)
             \/ WriteServed(w) \/ WriteAnswered(w) \/ WriteFailed(w) \/ Left(w)

Next ==
  \/ \E w \in Workers : \/ \E k \in Reads : Get(w, k)
                        \/ \E r \in Rooms, c \in Commands : HandleMessage(w, r, c[1], c[2])
                        \/ Answer(w)
  \/ \E r \in Rooms : Invited(r)
  \/ Restart

Spec == Init /\ [][Next]_vars

-----------------------------------------------------------------------------
(* Properties. *)

StoredOK ==
  /\ stored \in [Rooms -> [Setting -> (UNION {Contents(k) : k \in Setting}) \cup {None}]]
  /\ \A r \in Rooms, k \in Setting : stored[r][k] \in Contents(k) \cup {None}

MemOK ==
  /\ DOMAIN cache = Setting /\ \A k \in Setting : cache[k] \in Values(k) \cup {None}
  /\ DOMAIN told = Setting /\ \A k \in Setting : told[k] \in Told(k)
  /\ config \in Rooms \cup {None}

TaskOK(t) ==
  /\ t \in Task
  /\ IF t.pc \in {"idle", "leave"} THEN t.kind = None ELSE t.kind \in Setting
  /\ t.pc \in {"write", "wrote", "got"} => t.room \in Rooms /\ t.val \in Contents(t.kind)

TasksOK == task \in [Workers -> Task] /\ \A w \in Workers : TaskOK(task[w])

\* Every state event, cache entry and value on its way is one of its own setting.
TypeOK ==
  /\ StoredOK
  /\ joined \in SUBSET Rooms
  /\ MemOK
  /\ TasksOK
  /\ raced \in SUBSET Setting
  /\ unanswered \in SUBSET Setting
  /\ commands \in Nat /\ faults \in Nat /\ restarts \in Nat

\* What the user was told is what is in force, as long as the process lives: while no
\* goroutine is at a setting, the cache holds the value that the bot has confirmed last,
\* through commands from other rooms, reads of other config rooms, writes that fail and
\* rooms that the bot leaves; and a stopped notification stays stopped as long as no room
\* has a time.  It says nothing of a setting that two goroutines were at at once (raced),
\* nor of the time after a "notify stop" that failed and after a restart (live).
ToldIsInForce ==
  \A k \in Setting \ raced : Quiet(k) /\ told[k].live =>
    /\ told[k].val \in Values(k) => cache[k] = told[k].val
    /\ told[k].val = Empty /\ (\A r \in Rooms : stored[r][k] \notin Values(k)) => cache[k] = None

\* What the user was told survives the process: a start to which every request is answered
\* (standupbot.go:175-227) puts in force again what the bot has confirmed last, whatever
\* has failed, been left and been asked since, if the bot is still in the room of that
\* command and no other of its rooms has another value.  (If one has, the start may come
\* to it last and bring that one back.)  It says nothing of a setting that two goroutines
\* were at at once, nor when a later write was served and not answered.
RestartRestores ==
  [][Restart /\ UNCHANGED faults =>
       \A k \in Setting \ (raced \cup unanswered) :
         LET v == told[k].val
         IN /\ Answered(k) /\ v \in Values(k) /\ told[k].room \in joined
            /\ \A r \in joined : stored[r][k] \notin Values(k) \ {v}
            => cache'[k] = v]_vars

\* A setting in force comes with a config room: the notification loop goes through
\* UserConfigRooms and would never come to a time of a user who is not in it.
SettingHasRoom == (\E k \in Setting : cache[k] # None) => config # None

\* "All commands are prefixed with either `!standupbot`, `!su`, or `@standupbot`"
\* (README.md:18), and "is not a recognized timezone" (command_handler.go:151): a command
\* with such a prefix sets what it names, and one that is refused sets nothing.
CommandsAreHeeded ==
  [][\A w \in Workers, r \in Rooms, c \in Commands :
       HandleMessage(w, r, c[1], c[2]) =>
         IF Len(c[2]) = 2 /\ c[2][2] # Unknown
         THEN task'[w] = Writing(c[2][1], r, c[2][2])
         ELSE task'[w].pc # "write"]_vars

=============================================================================
