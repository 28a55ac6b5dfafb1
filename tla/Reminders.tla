------------------------------ MODULE Reminders ------------------------------
(***************************************************************************)
(* When the reminder of a standup post is due: the notification loop       *)
(* (standupbot.go) and GetNotifyUsersForMinutesAfterUtcForToday            *)
(* (store/config_room.go).                                                 *)
(*                                                                         *)
(* The clock goes round a week that begins on a Monday at 00:00 UTC.  The  *)
(* loop looks at the minute of the clock, finds out whose time it is, one  *)
(* user after the other, reminds them, and sleeps to the next minute.  All *)
(* of this takes time, the requests most of it.  Settings change meanwhile.*)
(*                                                                         *)
(* A timezone is its distance from UTC; that it changes in summer is left  *)
(* out.  What a reminder does to a flow is modelled in StandupBot.         *)
(***************************************************************************)
EXTENDS Integers, FiniteSets

CONSTANTS
  Users,
  Zones,             \* minutes ahead of UTC
  ServerZone,        \* the timezone of the machine of the bot
  None,              \* no time
  HoursPerDay,       \* 24
  MinutesPerHour,    \* 60
  SecondsPerMinute,  \* 60
  MaxDelay,          \* bound: minutes that a round of the loop goes on for
  MaxChanges,        \* bound: commands about a setting
  MaxRestarts        \* bound: restarts of the process

Day     == HoursPerDay * MinutesPerHour
Week    == 7 * Day
Weekend == {5, 6}

ASSUME ClockAssumption ==
  /\ {HoursPerDay, MinutesPerHour, SecondsPerMinute} \subseteq Nat \ {0}
  /\ Zones \subseteq Int /\ 0 \in Zones /\ ServerZone \in Int
  /\ MaxDelay \in 0 .. Week - 2 /\ MaxChanges \in Nat /\ MaxRestarts \in Nat

\* What HandleNotify takes for a time: 24:60 is one.
NotifyTimes == {m + h * MinutesPerHour : h \in 0 .. HoursPerDay, m \in 0 .. MinutesPerHour}

VARIABLES
  now,       \* seconds since Monday
  zone,      \* the timezone of each user, UTC when it is not set
  time,      \* the notification time of each user, or None
  loop,      \* where the notification loop is
  delay,     \* how many minutes a round of the loop goes on for at most
  changed,   \* users whose settings have changed since the loop looked at the clock
  changes, restarts

vars == <<now, zone, time, loop, delay, changed, changes, restarts>>

Minute == now \div SecondsPerMinute
MinutesFrom(m, n) == (n - m) % Week
Weekday(minute, z) == ((minute + z) \div Day) % 7

\* minute: the minute of the week that was looked at last, None after a start.  todo:
\* the users still to be considered.  due: those to be reminded.  wait: seconds to sleep.
Loop == [pc : {"asleep", "awake"}, minute : (0 .. Week - 1) \cup {None},
         todo : SUBSET Users, due : SUBSET Users, wait : 0 .. SecondsPerMinute]
Started == [pc |-> "asleep", minute |-> None, todo |-> {}, due |-> {}, wait |-> 0]

-----------------------------------------------------------------------------

\* time.Now().UTC().Clock(), before the users are gone through.
Look ==
  /\ loop.pc = "asleep"
  /\ loop.wait = 0
  /\ loop' = [loop EXCEPT !.pc = "awake", !.minute = Minute, !.todo = Users]
  /\ changed' = {}
  /\ UNCHANGED <<now, zone, time, delay, changes, restarts>>

\* Midnight of the date that the server has now, in the timezone of the user.  Midnight has
\* the weekday of that date.
IsWeekend == Weekday(Minute, ServerZone) \in Weekend

\* Mutant of MinuteOfDay: the difference is not brought back into the day.
MinuteOfDayUnbounded(m) == m

MinuteOfDay(m) == m % Day

\* The time of the user, counted from that midnight, on the clock of UTC.
NotifyMinute(u) == MinuteOfDay(time[u] - zone[u])

\* Mutant of Due: midnight is taken in UTC, whatever timezone the user has.
DueInUTC(u) ==
  /\ ~IsWeekend
  /\ time[u] \notin {None, 0}
  /\ MinuteOfDay(time[u]) = loop.minute % Day

\* 0 is also what no time at all is read as.
Due(u) ==
  /\ ~IsWeekend
  /\ time[u] \notin {None, 0}
  /\ NotifyMinute(u) = loop.minute % Day

\* One round of GetNotifyUsersForMinutesAfterUtcForToday.
Consider(u) ==
  /\ loop.pc = "awake"
  /\ u \in loop.todo
  /\ loop' = [loop EXCEPT !.todo = @ \ {u}, !.due = IF Due(u) THEN @ \cup {u} ELSE @]
  /\ UNCHANGED <<now, zone, time, delay, changed, changes, restarts>>

\* The user is sent the reminder, or told that a post is being written already.
Remind(u) ==
  /\ loop.pc = "awake"
  /\ loop.todo = {}
  /\ u \in loop.due
  /\ loop' = [loop EXCEPT !.due = @ \ {u}]
  /\ UNCHANGED <<now, zone, time, delay, changed, changes, restarts>>

\* Mutant of ToNextMinute: the seconds are counted from 0 to 59.
ToLastSecond == SecondsPerMinute - 1 - (now % SecondsPerMinute)

\* Mutant of ToNextMinute: the loop sleeps for a minute.
OneMinute == SecondsPerMinute

ToNextMinute == SecondsPerMinute - (now % SecondsPerMinute)

Rest ==
  /\ loop.pc = "awake"
  /\ loop.todo = {} /\ loop.due = {}
  /\ loop' = [loop EXCEPT !.pc = "asleep", !.wait = ToNextMinute]
  /\ UNCHANGED <<now, zone, time, delay, changed, changes, restarts>>

\* A second passes.  The sleep ends in time.
Tick ==
  /\ now' = (now + 1) % (Week * SecondsPerMinute)
  /\ \/ loop.pc = "asleep" /\ loop.wait > 0 /\ loop' = [loop EXCEPT !.wait = @ - 1]
     \/ /\ loop.pc = "awake"
        /\ MinutesFrom(loop.minute, Minute') <= delay
        /\ UNCHANGED loop
  /\ UNCHANGED <<zone, time, delay, changed, changes, restarts>>

-----------------------------------------------------------------------------

Change(u) ==
  /\ changes < MaxChanges
  /\ changes' = changes + 1
  /\ changed' = changed \cup {u}

SetTimezone(u) ==
  /\ Change(u)
  /\ \E z \in Zones : zone' = [zone EXCEPT ![u] = z]
  /\ UNCHANGED <<now, time, loop, delay, restarts>>

\* SetNotify, or RemoveNotify.
SetNotify(u) ==
  /\ Change(u)
  /\ \E t \in NotifyTimes \cup {None} : time' = [time EXCEPT ![u] = t]
  /\ UNCHANGED <<now, zone, loop, delay, restarts>>

\* The loop of a new process looks at the clock at once.
Restart ==
  /\ restarts < MaxRestarts
  /\ restarts' = restarts + 1
  /\ loop' = Started
  /\ UNCHANGED <<now, zone, time, delay, changed, changes>>

Init ==
  /\ now \in 0 .. Week * SecondsPerMinute - 1
  /\ zone \in [Users -> Zones]
  /\ time \in [Users -> NotifyTimes \cup {None}]
  /\ loop = Started
  /\ delay \in 0 .. MaxDelay
  /\ changed = {}
  /\ changes = 0
  /\ restarts = 0

LoopStep == Look \/ Rest \/ \E u \in Users : Consider(u) \/ Remind(u)

Next ==
  \/ LoopStep
  \/ Tick
  \/ \E u \in Users : SetTimezone(u) \/ SetNotify(u)
  \/ Restart

Spec == Init /\ [][Next]_vars

\* Time goes on, and the loop with it: the runtime runs its goroutine, the clients of
\* HTTP and of the database end their requests, and DoRetry gives up.
FairSpec == Spec /\ WF_vars(Tick) /\ WF_vars(LoopStep)

-----------------------------------------------------------------------------
(* Properties. *)

\* The loop sleeps with nothing left to do, and to the beginning of a minute.
TypeOK ==
  /\ now \in 0 .. Week * SecondsPerMinute - 1
  /\ zone \in [Users -> Zones]
  /\ time \in [Users -> NotifyTimes \cup {None}]
  /\ loop \in Loop
  /\ loop.pc = "asleep" => loop.todo = {} /\ loop.due = {}
  /\ loop.wait > 0 => loop.pc = "asleep" /\ (now + loop.wait) % SecondsPerMinute = 0
  /\ delay \in 0 .. MaxDelay
  /\ changed \subseteq Users
  /\ changes \in Nat /\ restarts \in Nat

\* No minute is looked at twice by one process, and none is left out but those that passed
\* while the loop was busy: otherwise a user is reminded twice, or not at all.
MinutesInTurn ==
  [][Look /\ loop.minute # None => MinutesFrom(loop.minute, loop'.minute) \in 1 .. delay + 1]_vars

\* The minute in which the sleep ends.
WakeMinute == ((now + loop.wait) % (Week * SecondsPerMinute)) \div SecondsPerMinute

\* Why MinutesInTurn and OnTime hold.  While it is awake the loop is at most delay minutes
\* past the one it looked at, and it sleeps to one that follows.  Those it has found due
\* had that minute for their time when it found them, on no weekend of the server.
LoopInv ==
  /\ loop.pc = "awake" => /\ loop.minute \in 0 .. Week - 1
                          /\ MinutesFrom(loop.minute, Minute) <= delay
  /\ loop.pc = "asleep" /\ loop.minute # None
     => MinutesFrom(loop.minute, WakeMinute) \in 1 .. delay + 1
  /\ \A u \in loop.due :
       /\ u \notin changed => time[u] # None /\ NotifyMinute(u) = loop.minute % Day
       /\ delay = 0 => Weekday(loop.minute, ServerZone) \notin Weekend

LocalMinute(u)  == (Minute + zone[u]) % Day
LocalWeekday(u) == Weekday(Minute, zone[u])

\* A user whose settings have not changed meanwhile is reminded when it is that time where
\* the user lives, or as much later as the loop is late, also across midnight and for 24:00
\* and later.  If the loop is in time and the weekend there is that of the server, it is
\* not done on a weekend.
OnTime ==
  [][\A u \in Users : Remind(u) /\ u \notin changed =>
       /\ (LocalMinute(u) - time[u]) % Day <= delay
       /\ delay = 0 /\ LocalWeekday(u) \in Weekend => Weekday(Minute, ServerZone) \notin Weekend]_vars

\* A user with a time is reminded again and again, by a loop that gets done in time,
\* whatever the timezone, the time and the other users.  (But not with the time 00:00.)
DueReminded ==
  \A u \in Users :
    <>[](delay = 0 /\ time[u] \notin {None, 0}) => []<><<Remind(u)>>_vars

\* "Don't notify on the weekends." (CHANGELOG.md:98)
NoWeekendReminder ==
  [][\A u \in Users : Remind(u) /\ delay = 0 /\ u \notin changed => LocalWeekday(u) \notin Weekend]_vars

=============================================================================
