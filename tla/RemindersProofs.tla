---------------------------- MODULE RemindersProofs ----------------------------
(***************************************************************************)
(* The reminders come in their minute, and no minute is looked at twice,   *)
(* for any number of users, timezones, hours to the day, minutes to the    *)
(* hour and seconds to the minute.                                         *)
(***************************************************************************)
EXTENDS Reminders, TLAPS

-----------------------------------------------------------------------------
(* Division. *)

LEMMA DivMod ==
  ASSUME NEW n \in Int, NEW d \in Nat \ {0}
  PROVE  /\ n \div d \in Int
         /\ n % d \in 0 .. d - 1
         /\ n = d * (n \div d) + (n % d)
OBVIOUS

\* Two multiples of d are not less than d apart.
LEMMA Apart ==
  ASSUME NEW d \in Nat \ {0}, NEW p \in Int, NEW q \in Int, p < q
  PROVE  d * p + d <= d * q
OBVIOUS

LEMMA DivModIs ==
  ASSUME NEW d \in Nat \ {0}, NEW q \in Int, NEW r \in 0 .. d - 1
  PROVE  (d * q + r) \div d = q /\ (d * q + r) % d = r
<1> DEFINE n == d * q + r
<1>1. n \in Int /\ n \div d \in Int /\ n % d \in 0 .. d - 1 /\ n = d * (n \div d) + (n % d)
  BY DivMod
<1> HIDE DEF n
<1>2. ~(n \div d < q) /\ ~(q < n \div d)
  BY <1>1, Apart DEF n
<1> QED
  BY <1>1, <1>2 DEF n

LEMMA Multiple ==
  ASSUME NEW d \in Nat \ {0}, NEW q \in Int
  PROVE  (d * q) \div d = q /\ (d * q) % d = 0
<1>1. d * q = d * q + 0 /\ 0 \in 0 .. d - 1
  OBVIOUS
<1>2. (d * q + 0) \div d = q /\ (d * q + 0) % d = 0
  BY <1>1, DivModIs
<1> QED
  BY <1>1, <1>2

LEMMA ModSmall ==
  ASSUME NEW d \in Nat \ {0}, NEW r \in 0 .. d - 1
  PROVE  r % d = r
<1>1. r = d * 0 + r
  OBVIOUS
<1> QED
  BY <1>1, DivModIs

\* Multiples of d make no difference.
LEMMA ModShift ==
  ASSUME NEW n \in Int, NEW p \in Int, NEW d \in Nat \ {0}, \E k \in Int : p = n + d * k
  PROVE  p % d = n % d
<1> PICK k \in Int : p = n + d * k
  OBVIOUS
<1> DEFINE q == n \div d
           r == n % d
<1>1. q \in Int /\ r \in 0 .. d - 1 /\ n = d * q + r
  BY DivMod
<1> HIDE DEF q, r
<1>2. p = d * (q + k) + r /\ q + k \in Int
  BY <1>1
<1>3. (d * (q + k) + r) % d = r
  BY <1>1, <1>2, DivModIs
<1> QED
  BY <1>2, <1>3 DEF r

\* Numbers with the same remainder are a multiple of d apart.
LEMMA ModSame ==
  ASSUME NEW a \in Int, NEW b \in Int, NEW d \in Nat \ {0}, a % d = b % d
  PROVE  \E k \in Int : a = b + d * k
<1>1. /\ a \div d \in Int /\ b \div d \in Int /\ a % d \in Int
      /\ a = d * (a \div d) + (a % d)
      /\ b = d * (b \div d) + (b % d)
  BY DivMod
<1> DEFINE k == (a \div d) - (b \div d)
<1>2. k \in Int /\ a = b + d * k
  BY <1>1
<1> HIDE DEF k
<1> QED
  BY <1>2

\* A remainder is not greater than what it is of.
LEMMA ModAtMost ==
  ASSUME NEW n \in Nat, NEW d \in Nat \ {0}
  PROVE  n % d <= n
<1>1. n \div d \in Int /\ n % d \in 0 .. d - 1 /\ n = d * (n \div d) + (n % d)
  BY DivMod
<1>2. ~(n \div d < 0)
  BY <1>1, Apart
<1> QED
  BY <1>1, <1>2

-----------------------------------------------------------------------------
(* The clock. *)

S == SecondsPerMinute
W == Week * S

LEMMA Clock ==
  /\ Day \in Nat \ {0} /\ Week \in Nat \ {0} /\ Week = Day * 7
  /\ S \in Nat \ {0} /\ W \in Nat \ {0}
  /\ MaxDelay \in 0 .. Week - 2
<1>1. /\ HoursPerDay \in Nat \ {0} /\ MinutesPerHour \in Nat \ {0} /\ S \in Nat \ {0}
      /\ MaxDelay \in 0 .. Week - 2
  BY ClockAssumption DEF S
<1>2. \A a, b \in Nat \ {0} : a * b \in Nat \ {0}
  OBVIOUS
<1>3. Day \in Nat \ {0}
  BY <1>1, <1>2 DEF Day
<1> QED
  BY <1>1, <1>2, <1>3 DEF Week, W

\* The minute of a second.
LEMMA MinuteOf ==
  ASSUME NEW n \in 0 .. W - 1
  PROVE  n \div S \in 0 .. Week - 1 /\ n % S \in 0 .. S - 1 /\ n = S * (n \div S) + (n % S)
<1>1. n \div S \in Int /\ n % S \in 0 .. S - 1 /\ n = S * (n \div S) + (n % S)
  BY Clock, DivMod
<1>2. ~(n \div S < 0)
  BY <1>1, Clock, Apart
<1>3. ~(n \div S >= Week)
  <2>1. CASE n \div S = Week
    BY <1>1, <2>1, Clock DEF W
  <2>2. CASE n \div S > Week
    BY <1>1, <2>2, Clock, Apart DEF W
  <2> QED
    BY <1>1, <2>1, <2>2, Clock
<1> QED
  BY <1>1, <1>2, <1>3, Clock

LEMMA MinuteType ==
  ASSUME TypeOK
  PROVE  Minute \in 0 .. Week - 1
BY MinuteOf DEF TypeOK, Minute, W, S

\* The clock goes round.
LEMMA Ticks ==
  ASSUME NEW n \in 0 .. W - 1
  PROVE  (n + 1) % W = IF n + 1 = W THEN 0 ELSE n + 1
<1>1. W \in Nat \ {0}
  BY Clock
<1>2. CASE n + 1 = W
  <2>1. W = W * 1 + 0
    BY <1>1
  <2> QED
    BY <1>1, <1>2, <2>1, DivModIs
<1>3. CASE n + 1 # W
  BY <1>1, <1>3, ModSmall
<1> QED
  BY <1>2, <1>3

\* A second later, and with a second less to go, the end is where it was.
LEMMA EndStays ==
  ASSUME NEW n \in 0 .. W - 1, NEW wait \in Nat
  PROVE  LET m == (n + 1) % W
         IN /\ (m + (wait - 1)) % W = (n + wait) % W
            /\ (m + (wait - 1)) % S = (n + wait) % S
<1> DEFINE m == (n + 1) % W
<1>1. m = IF n + 1 = W THEN 0 ELSE n + 1
  BY Ticks
<1>2. W \in Nat \ {0} /\ S \in Nat \ {0} /\ Week \in Nat /\ W = Week * S
  BY Clock DEF W
<1>3. CASE n + 1 # W
  <2>1. m + (wait - 1) = n + wait
    BY <1>1, <1>3
  <2> QED
    BY <2>1
<1>4. CASE n + 1 = W
  <2> DEFINE left == wait - 1
             end  == n + wait
  <2>1. m + (wait - 1) = left
    BY <1>1, <1>4
  <2>2. left \in Int /\ end \in Int /\ end = left + W * 1 /\ end = left + S * Week
    BY <1>2, <1>4
  <2> HIDE DEF left, end
  <2>3. (\E k \in Int : end = left + W * k) /\ (\E k \in Int : end = left + S * k)
    BY <1>2, <2>2
  <2>4. end % W = left % W /\ end % S = left % S
    BY <1>2, <2>2, <2>3, ModShift
  <2> QED
    BY <2>1, <2>4 DEF left, end
<1> QED
  BY <1>3, <1>4

\* The minute that follows.
NextMinute(m) == IF m + 1 = Week THEN 0 ELSE m + 1

\* The loop sleeps to the beginning of the minute that follows.
LEMMA SleepsToMinute ==
  ASSUME NEW n \in 0 .. W - 1
  PROVE  LET wait == S - (n % S)
         IN /\ wait \in 1 .. S
            /\ (n + wait) % S = 0
            /\ ((n + wait) % W) \div S = NextMinute(n \div S)
<1> DEFINE wait == S - (n % S)
           m    == n \div S
<1>1. S \in Nat \ {0} /\ W \in Nat \ {0} /\ W = Week * S /\ Week \in Nat \ {0}
  BY Clock DEF W
<1>2. m \in 0 .. Week - 1 /\ n % S \in 0 .. S - 1 /\ n = S * m + (n % S)
  BY MinuteOf
<1>3. wait \in 1 .. S /\ n + wait = S * m + S
  BY <1>1, <1>2
<1> HIDE DEF m, wait
<1>4. n + wait = S * (m + 1)
  BY <1>1, <1>2, <1>3
<1>5. (n + wait) % S = 0 /\ (n + wait) \div S = m + 1
  <2>1. m + 1 \in Int
    BY <1>2
  <2> QED
    BY <1>1, <1>4, <2>1, Multiple
<1>6. ((n + wait) % W) \div S = NextMinute(m)
  <2>1. CASE m + 1 = Week
    <3>1. n + wait = W * 1 + 0
      BY <1>1, <1>4, <2>1
    <3>2. (n + wait) % W = 0
      BY <1>1, <3>1, DivModIs
    <3>3. 0 \div S = 0
      <4>1. 0 = S * 0 + 0
        BY <1>1
      <4> QED
        BY <1>1, <4>1, DivModIs
    <3> QED
      BY <2>1, <3>2, <3>3 DEF NextMinute
  <2>2. CASE m + 1 # Week
    <3>1. m + 1 < Week
      BY <1>1, <1>2, <2>2
    <3>2. S * (m + 1) + S <= S * Week
      BY <1>1, <1>2, <3>1, Apart
    <3>3. n + wait \in 0 .. W - 1
      BY <1>1, <1>2, <1>3, <1>4, <3>2
    <3>4. (n + wait) % W = n + wait
      BY <1>1, <3>3, ModSmall
    <3> QED
      BY <1>5, <2>2, <3>4 DEF NextMinute
  <2> QED
    BY <2>1, <2>2
<1> QED
  BY <1>3, <1>5, <1>6 DEF wait, m

-----------------------------------------------------------------------------
(* Types. *)

LEMMA TypeInit == Init => TypeOK
BY Clock DEF Init, TypeOK, Loop, Started, W, S

\* Neither the clock nor the settings move.
LEMMA LoopTypes ==
  ASSUME TypeOK, UNCHANGED <<now, zone, time, delay, changes>>, loop' \in Loop,
         changed' \subseteq Users, restarts' \in Nat,
         loop'.pc = "asleep" => loop'.todo = {} /\ loop'.due = {},
         loop'.wait > 0
         => loop'.pc = "asleep" /\ (now + loop'.wait) % SecondsPerMinute = 0
  PROVE  TypeOK'
BY DEF TypeOK

LEMMA LookKeepsTypes ==
  ASSUME TypeOK, Look
  PROVE  TypeOK'
<1>1. loop' = [loop EXCEPT !.pc = "awake", !.minute = Minute, !.todo = Users]
  BY DEF Look
<1>2. loop \in Loop /\ loop.wait = 0 /\ Minute \in 0 .. Week - 1
  BY MinuteType DEF Look, TypeOK
<1>3. loop' \in Loop /\ loop'.pc = "awake" /\ loop'.wait = 0
  BY <1>1, <1>2 DEF Loop
<1> QED
  BY <1>3, LoopTypes DEF Look, TypeOK

LEMMA ConsiderKeepsTypes ==
  ASSUME TypeOK, NEW u \in Users, Consider(u) \/ Remind(u)
  PROVE  TypeOK'
<1>1. PICK todo \in SUBSET Users, due \in SUBSET Users :
        loop' = [loop EXCEPT !.todo = todo, !.due = due]
  <2>1. CASE Consider(u)
    <3>1. loop' = [loop EXCEPT !.todo = loop.todo \ {u},
                               !.due = IF Due(u) THEN loop.due \cup {u} ELSE loop.due]
      BY <2>1 DEF Consider
    <3> QED
      BY <3>1 DEF TypeOK, Loop
  <2>2. CASE Remind(u)
    <3>1. loop' = [loop EXCEPT !.todo = loop.todo, !.due = loop.due \ {u}]
      BY <2>2 DEF Remind, TypeOK, Loop
    <3> QED
      BY <3>1 DEF TypeOK, Loop
  <2> QED
    BY <2>1, <2>2
<1>2. loop \in Loop /\ loop.pc = "awake" /\ ~(loop.wait > 0)
  BY DEF Consider, Remind, TypeOK
<1>3. loop' \in Loop /\ loop'.pc = "awake" /\ ~(loop'.wait > 0)
  BY <1>1, <1>2 DEF Loop
<1> QED
  BY <1>3, LoopTypes DEF Consider, Remind, TypeOK

LEMMA RestKeepsTypes ==
  ASSUME TypeOK, Rest
  PROVE  TypeOK'
<1>1. ToNextMinute \in 1 .. SecondsPerMinute /\ (now + ToNextMinute) % SecondsPerMinute = 0
  BY SleepsToMinute DEF TypeOK, ToNextMinute, W, S
<1>2. loop \in Loop /\ loop.todo = {} /\ loop.due = {}
  BY DEF Rest, TypeOK
<1>3. loop' = [loop EXCEPT !.pc = "asleep", !.wait = ToNextMinute]
  BY DEF Rest
<1> DEFINE wait == ToNextMinute
<1>4. wait \in 0 .. SecondsPerMinute
  BY <1>1, Clock DEF S
<1> HIDE DEF wait
<1>5. /\ loop' \in Loop /\ loop'.pc = "asleep" /\ loop'.wait = wait
      /\ loop'.todo = {} /\ loop'.due = {}
  BY <1>2, <1>3, <1>4 DEF Loop, wait
<1> QED
  BY <1>1, <1>5, LoopTypes DEF Rest, TypeOK, wait

\* What a second does to the loop.
LEMMA TickTypes ==
  ASSUME TypeOK, Tick
  PROVE  /\ now' \in 0 .. W - 1 /\ loop' \in Loop
         /\ loop'.pc = loop.pc
         /\ loop'.minute = loop.minute /\ loop'.todo = loop.todo /\ loop'.due = loop.due
         /\ \/ loop.wait = 0 /\ UNCHANGED loop
            \/ /\ loop.pc = "asleep" /\ loop.wait > 0 /\ loop'.wait = loop.wait - 1
               /\ (now' + loop'.wait) % W = (now + loop.wait) % W
               /\ (now' + loop'.wait) % S = (now + loop.wait) % S
<1>1. now \in 0 .. W - 1 /\ loop \in Loop /\ now' = (now + 1) % W
  BY DEF TypeOK, Tick, W, S
<1>2. now' \in 0 .. W - 1
  BY <1>1, Clock, Ticks
<1>3. CASE loop.pc = "asleep" /\ loop.wait > 0 /\ loop' = [loop EXCEPT !.wait = @ - 1]
  <2>1. loop.wait \in Nat /\ loop.wait - 1 \in 0 .. SecondsPerMinute
    BY <1>1, <1>3, Clock DEF Loop, S
  <2>2. /\ loop' \in Loop /\ loop'.wait = loop.wait - 1
        /\ loop'.pc = loop.pc /\ loop'.minute = loop.minute
        /\ loop'.todo = loop.todo /\ loop'.due = loop.due
    BY <1>1, <1>3, <2>1 DEF Loop
  <2> QED
    BY <1>1, <1>2, <1>3, <2>1, <2>2, EndStays
<1>4. CASE loop.pc = "awake" /\ UNCHANGED loop
  BY <1>1, <1>2, <1>4 DEF TypeOK, Loop
<1> QED
  BY <1>3, <1>4 DEF Tick

LEMMA TickKeepsTypes ==
  ASSUME TypeOK, Tick
  PROVE  TypeOK'
<1>1. UNCHANGED <<zone, time, delay, changed, changes, restarts>>
  BY DEF Tick
<1>2. loop'.wait > 0 => loop'.pc = "asleep" /\ (now' + loop'.wait) % SecondsPerMinute = 0
  BY TickTypes DEF TypeOK, Loop, S
<1> QED
  BY <1>1, <1>2, TickTypes DEF TypeOK, W, S

LEMMA SettingsKeepTypes ==
  ASSUME TypeOK, NEW u \in Users, SetTimezone(u) \/ SetNotify(u)
  PROVE  TypeOK'
<1>1. changed' \subseteq Users /\ changes' \in Nat
  BY DEF SetTimezone, SetNotify, Change, TypeOK
<1>2. zone' \in [Users -> Zones]
  BY DEF SetTimezone, SetNotify, TypeOK
<1>3. time' \in [Users -> NotifyTimes \cup {None}]
  BY DEF SetTimezone, SetNotify, TypeOK
<1>4. UNCHANGED <<now, loop, delay, restarts>>
  BY DEF SetTimezone, SetNotify
<1> QED
  BY <1>1, <1>2, <1>3, <1>4 DEF TypeOK

LEMMA RestartKeepsTypes ==
  ASSUME TypeOK, Restart
  PROVE  TypeOK'
<1>1. loop' \in Loop /\ loop'.pc = "asleep" /\ loop'.wait = 0 /\ loop'.todo = {} /\ loop'.due = {}
  BY Clock DEF Restart, Started, Loop, S
<1> QED
  BY <1>1, LoopTypes DEF Restart, TypeOK

LEMMA TypeNext == TypeOK /\ [Next]_vars => TypeOK'
<1> SUFFICES ASSUME TypeOK, [Next]_vars
             PROVE  TypeOK'
  OBVIOUS
<1>1. CASE UNCHANGED vars
  BY <1>1 DEF vars, TypeOK
<1> QED
  BY <1>1, LookKeepsTypes, ConsiderKeepsTypes, RestKeepsTypes, TickKeepsTypes,
     SettingsKeepTypes, RestartKeepsTypes DEF Next, LoopStep

\* The clock stays within its week, the times and timezones are those of the commands, and
\* a loop that sleeps has nothing left to do and wakes at the beginning of a minute
\* (time.Sleep, standupbot.go:326), through restarts and changed settings.
THEOREM TypeCorrect == Spec => []TypeOK
BY TypeInit, TypeNext, PTL DEF Spec

-----------------------------------------------------------------------------
(* The minutes. *)

LEMMA DelayType == TypeOK => delay \in Nat /\ delay <= Week - 2
BY Clock DEF TypeOK

LEMMA FarType ==
  ASSUME NEW from \in Int, NEW m \in Int
  PROVE  MinutesFrom(from, m) \in Nat
<1>1. m - from \in Int /\ Week \in Nat \ {0}
  BY Clock
<1>2. (m - from) % Week \in 0 .. Week - 1
  BY <1>1, DivMod
<1> QED
  BY <1>1, <1>2 DEF MinutesFrom

\* A minute later is a minute further from where the loop looked.
LEMMA OneFurther ==
  ASSUME NEW from \in 0 .. Week - 1, NEW m \in 0 .. Week - 1,
         MinutesFrom(from, m) <= Week - 2
  PROVE  MinutesFrom(from, NextMinute(m)) = MinutesFrom(from, m) + 1
<1> DEFINE q    == (m - from) \div Week
           far  == MinutesFrom(from, m)
           next == NextMinute(m)
<1>1. Week \in Nat \ {0} /\ m - from \in Int
  BY Clock
<1>2. q \in Int /\ far \in 0 .. Week - 1 /\ m - from = Week * q + far
  BY <1>1, DivMod DEF MinutesFrom
<1> HIDE DEF q, far
<1>3. far + 1 \in 0 .. Week - 1
  BY <1>1, <1>2 DEF far
<1>4. CASE m + 1 = Week
  <2>1. next - from = Week * (q - 1) + (far + 1)
    BY <1>1, <1>2, <1>4 DEF NextMinute
  <2>2. q - 1 \in Int
    BY <1>2
  <2>3. (Week * (q - 1) + (far + 1)) % Week = far + 1
    BY <1>1, <1>3, <2>2, DivModIs
  <2> QED
    BY <2>1, <2>3 DEF MinutesFrom, far
<1>5. CASE m + 1 # Week
  <2>1. next - from = Week * q + (far + 1)
    BY <1>1, <1>2, <1>5 DEF NextMinute
  <2>2. (Week * q + (far + 1)) % Week = far + 1
    BY <1>1, <1>2, <1>3, DivModIs
  <2> QED
    BY <2>1, <2>2 DEF MinutesFrom, far
<1> QED
  BY <1>4, <1>5

\* The loop wakes when its time has come.
LEMMA Woken ==
  ASSUME TypeOK, loop.wait = 0
  PROVE  WakeMinute = Minute
<1>1. now \in 0 .. W - 1 /\ now + loop.wait = now
  BY DEF TypeOK, W, S
<1>2. now % W = now
  BY <1>1, Clock, ModSmall
<1> QED
  BY <1>1, <1>2 DEF WakeMinute, Minute, W, S

LEMMA MinutesFromItself ==
  ASSUME NEW m \in Int
  PROVE  MinutesFrom(m, m) = 0
<1>1. m - m = 0 /\ 0 \in 0 .. Week - 1
  BY Clock
<1>2. 0 % Week = 0
  BY <1>1, Clock, ModSmall
<1> QED
  BY <1>1, <1>2 DEF MinutesFrom

\* A loop that is in time is in the minute that it looked at.
LEMMA InTime ==
  ASSUME NEW from \in 0 .. Week - 1, NEW m \in 0 .. Week - 1, MinutesFrom(from, m) <= 0
  PROVE  m = from
<1> DEFINE q == (m - from) \div Week
<1>1. q \in Int /\ MinutesFrom(from, m) \in Nat /\ m - from = Week * q + MinutesFrom(from, m)
  <2>1. m - from \in Int /\ Week \in Nat \ {0}
    BY Clock
  <2> QED
    BY <2>1, FarType, DivMod DEF MinutesFrom
<1> HIDE DEF q
<1>2. m - from = Week * q
  BY <1>1, Clock
<1>3. ~(q < 0) /\ ~(0 < q)
  BY <1>1, <1>2, Clock, Apart
<1> QED
  BY <1>1, <1>2, <1>3, Clock

-----------------------------------------------------------------------------
(* The invariant. *)

\* Why the users in due are there.
Found(u) ==
  /\ u \notin changed => time[u] # None /\ NotifyMinute(u) = loop.minute % Day
  /\ delay = 0 => Weekday(loop.minute, ServerZone) \notin Weekend

LEMMA FoundStays ==
  ASSUME UNCHANGED <<zone, time, delay, changed>>, UNCHANGED loop.minute, NEW u, Found(u)
  PROVE  Found(u)'
BY DEF Found, NotifyMinute, MinuteOfDay, Weekday

LEMMA LoopInit ==
  ASSUME Init
  PROVE  LoopInv
BY DEF Init, Started, LoopInv

LEMMA LookKeepsLoop ==
  ASSUME TypeOK, LoopInv, Look
  PROVE  LoopInv'
<1>1. /\ loop'.pc = "awake" /\ loop'.minute = Minute /\ loop'.due = {}
      /\ UNCHANGED <<now, delay>>
  BY DEF Look, TypeOK, Loop
<1>2. Minute \in 0 .. Week - 1 /\ UNCHANGED Minute
  BY <1>1, MinuteType DEF Minute
<1>3. MinutesFrom(Minute, Minute) <= delay
  BY <1>2, Clock, MinutesFromItself, DelayType
<1> QED
  BY <1>1, <1>2, <1>3 DEF LoopInv, MinutesFrom

LEMMA ConsiderKeepsLoop ==
  ASSUME TypeOK, LoopInv, NEW u \in Users, Consider(u) \/ Remind(u)
  PROVE  LoopInv'
<1>1. /\ loop.pc = "awake" /\ loop'.pc = "awake" /\ loop'.minute = loop.minute
      /\ UNCHANGED <<now, zone, time, delay, changed>>
  BY DEF Consider, Remind, TypeOK, Loop
<1>2. UNCHANGED Minute
  BY <1>1 DEF Minute
<1>3. \A v \in loop'.due : v \in loop.due \/ (v = u /\ Due(u))
  <2>1. CASE Consider(u)
    <3>1. loop'.due = IF Due(u) THEN loop.due \cup {u} ELSE loop.due
      BY <2>1 DEF Consider, TypeOK, Loop
    <3> QED
      BY <3>1
  <2>2. CASE Remind(u)
    BY <2>2 DEF Remind, TypeOK, Loop
  <2> QED
    BY <2>1, <2>2
<1>4. Due(u) => Found(u)
  <2> SUFFICES ASSUME Due(u)
               PROVE  Found(u)
    OBVIOUS
  <2>1. ASSUME delay = 0
        PROVE  Minute = loop.minute
    BY <1>1, <2>1, MinuteType, InTime DEF LoopInv
  <2> QED
    BY <2>1 DEF Due, Found, IsWeekend
<1>5. \A v \in loop.due : Found(v)
  BY DEF LoopInv, Found
<1>6. \A v \in loop'.due : Found(v)'
  BY <1>1, <1>3, <1>4, <1>5, FoundStays
<1> QED
  BY <1>1, <1>2, <1>6 DEF LoopInv, Found, MinutesFrom

LEMMA RestKeepsLoop ==
  ASSUME TypeOK, LoopInv, Rest
  PROVE  LoopInv'
<1>1. /\ loop.pc = "awake" /\ loop'.pc = "asleep" /\ loop'.minute = loop.minute
      /\ loop'.due = {} /\ loop'.wait = ToNextMinute
      /\ UNCHANGED <<now, delay>>
  BY DEF Rest, TypeOK, Loop
<1>2. WakeMinute' = NextMinute(Minute)
  BY <1>1, SleepsToMinute DEF WakeMinute, ToNextMinute, Minute, TypeOK, W, S
<1>3. /\ loop.minute \in 0 .. Week - 1 /\ Minute \in 0 .. Week - 1
      /\ MinutesFrom(loop.minute, Minute) <= delay
  BY <1>1, MinuteType DEF LoopInv
<1>4. MinutesFrom(loop.minute, Minute) \in Nat
  <2>1. loop.minute \in Int /\ Minute \in Int
    BY <1>3
  <2> QED
    BY <2>1, FarType
<1>5. MinutesFrom(loop.minute, NextMinute(Minute)) = MinutesFrom(loop.minute, Minute) + 1
  BY <1>3, <1>4, DelayType, Clock, OneFurther
<1>6. MinutesFrom(loop.minute, NextMinute(Minute)) \in 1 .. delay + 1
  BY <1>3, <1>4, <1>5, DelayType
<1> QED
  BY <1>1, <1>2, <1>6 DEF LoopInv, MinutesFrom

LEMMA TickKeepsLoop ==
  ASSUME TypeOK, LoopInv, Tick
  PROVE  LoopInv'
<1>1. /\ loop'.pc = loop.pc /\ loop'.minute = loop.minute /\ loop'.due = loop.due
      /\ UNCHANGED <<zone, time, delay, changed>>
  BY TickTypes DEF Tick
<1>2. \A u \in loop'.due : Found(u)'
  BY <1>1, FoundStays DEF LoopInv, Found
<1>3. CASE loop.pc = "asleep"
  <2>1. UNCHANGED WakeMinute
    BY <1>3, TickTypes DEF Tick, WakeMinute, W, S
  <2> QED
    BY <1>1, <1>2, <1>3, <2>1 DEF LoopInv, Found, MinutesFrom
<1>4. CASE loop.pc = "awake"
  <2>1. MinutesFrom(loop.minute, Minute') <= delay
    BY <1>4 DEF Tick
  <2> QED
    BY <1>1, <1>2, <1>4, <2>1 DEF LoopInv, Found, MinutesFrom
<1> QED
  BY <1>3, <1>4 DEF TypeOK, Loop

LEMMA SettingsKeepLoop ==
  ASSUME TypeOK, LoopInv, NEW u \in Users, SetTimezone(u) \/ SetNotify(u)
  PROVE  LoopInv'
<1>1. changed' = changed \cup {u} /\ UNCHANGED <<now, loop, delay>>
  BY DEF SetTimezone, SetNotify, Change
<1>2. \A v \in Users : v # u => UNCHANGED <<time[v], zone[v]>>
  BY DEF SetTimezone, SetNotify, TypeOK
<1>3. \A v \in loop.due : v \in Users
  BY DEF TypeOK, Loop
<1>4. \A v \in loop'.due : Found(v)'
  BY <1>1, <1>2, <1>3 DEF LoopInv, Found, NotifyMinute, MinuteOfDay, Weekday
<1>5. UNCHANGED <<Minute, WakeMinute>>
  BY <1>1 DEF Minute, WakeMinute
<1> QED
  BY <1>1, <1>4, <1>5 DEF LoopInv, Found, MinutesFrom

LEMMA RestartKeepsLoop ==
  ASSUME TypeOK, LoopInv, Restart
  PROVE  LoopInv'
BY DEF Restart, Started, LoopInv

LEMMA LoopNext == TypeOK /\ LoopInv /\ [Next]_vars => LoopInv'
<1> SUFFICES ASSUME TypeOK, LoopInv, [Next]_vars
             PROVE  LoopInv'
  OBVIOUS
<1>1. CASE UNCHANGED vars
  BY <1>1 DEF vars, LoopInv, Minute, WakeMinute, MinutesFrom, NotifyMinute, MinuteOfDay, Weekday
<1> QED
  BY <1>1, LookKeepsLoop, ConsiderKeepsLoop, RestKeepsLoop, TickKeepsLoop,
     SettingsKeepLoop, RestartKeepsLoop DEF Next, LoopStep

\* LoopInv is inductive: the loop of standupbot.go:306 knows which minute it is in, or
\* sleeps to one that follows, and whom it has found due is due then, whatever the
\* settings do meanwhile.
THEOREM LoopCorrect == Spec => []LoopInv
BY LoopInit, LoopNext, TypeCorrect, PTL DEF Spec

-----------------------------------------------------------------------------
(* The properties. *)

\* No minute is looked at twice by one process, and none is left out but those that passed
\* while a round went on: 60 - time.Now().Second() seconds are those to the next minute
\* (standupbot.go:326), for any hours, minutes and seconds.
THEOREM MinutesCorrect == Spec => MinutesInTurn
<1> DEFINE InTurn == Look /\ loop.minute # None
                     => MinutesFrom(loop.minute, loop'.minute) \in 1 .. delay + 1
<1>1. TypeOK /\ LoopInv /\ [Next]_vars => [InTurn]_vars
  <2> SUFFICES ASSUME TypeOK, LoopInv, Look, loop.minute # None
               PROVE  MinutesFrom(loop.minute, loop'.minute) \in 1 .. delay + 1
    OBVIOUS
  <2>1. loop.pc = "asleep" /\ loop.wait = 0 /\ loop'.minute = Minute
    BY DEF Look, TypeOK, Loop
  <2> QED
    BY <2>1, Woken DEF LoopInv
<1> QED
  BY <1>1, TypeCorrect, LoopCorrect, PTL DEF Spec, MinutesInTurn

\* The local minute is as much later than the time set as the loop is late.
LEMMA AsLate ==
  ASSUME NEW from \in 0 .. Week - 1, NEW m \in 0 .. Week - 1, NEW t \in Int, NEW z \in Int,
         (t - z) % Day = from % Day
  PROVE  (((m + z) % Day) - t) % Day <= MinutesFrom(from, m)
<1> DEFINE far   == MinutesFrom(from, m)
           local == (m + z) % Day
<1>1. Day \in Nat \ {0} /\ Week \in Nat \ {0} /\ Week = Day * 7 /\ m - from \in Int
  BY Clock
<1>2. PICK q \in Int : m - from = Week * q + far
  BY <1>1, DivMod DEF MinutesFrom
<1>3. far \in Nat
  <2>1. from \in Int /\ m \in Int
    BY <1>1
  <2> QED
    BY <2>1, FarType
<1>4. PICK k \in Int : t - z = from + Day * k
  <2>1. t - z \in Int /\ from \in Int
    BY <1>1
  <2> QED
    BY <1>1, <2>1, ModSame
<1>5. PICK j \in Int : local \in Int /\ m + z = Day * j + local
  <2> DEFINE n == m + z
  <2>1. n \in Int
    BY <1>1
  <2> HIDE DEF n
  <2>2. n \div Day \in Int /\ n % Day \in Int /\ n = Day * (n \div Day) + (n % Day)
    BY <1>1, <2>1, DivMod
  <2> QED
    BY <2>2 DEF n
<1> HIDE DEF far, local
<1> DEFINE late == local - t
           n    == 7 * q - k - j
<1>6. late \in Int /\ n \in Int /\ late = far + Day * n
  <2>1. late = far + Week * q - Day * k - Day * j
    BY <1>1, <1>2, <1>3, <1>4, <1>5
  <2>2. Week * q = Day * (7 * q)
    BY <1>1
  <2> QED
    BY <1>1, <1>3, <1>5, <2>1, <2>2
<1> HIDE DEF late, n
<1>7. late % Day = far % Day
  <2>1. far \in Int /\ \E i \in Int : late = far + Day * i
    BY <1>3, <1>6
  <2> QED
    BY <1>1, <1>6, <2>1, ModShift
<1>8. far % Day <= far
  BY <1>1, <1>3, ModAtMost
<1> QED
  BY <1>7, <1>8 DEF late, local, far

\* A user whose settings stay as they are is reminded at the time set, where the user
\* lives, or as much later as the loop is late; a loop in time reminds nobody on a weekend
\* of the server.  So the arithmetic of config_room.go:130-147 and of the comparison in
\* standupbot.go:309 is right across midnight, for any timezones and for 24:00 and later.
THEOREM OnTimeCorrect == Spec => OnTime
<1> DEFINE Timely(u) == Remind(u) /\ u \notin changed =>
             /\ (LocalMinute(u) - time[u]) % Day <= delay
             /\ delay = 0 /\ LocalWeekday(u) \in Weekend
                => Weekday(Minute, ServerZone) \notin Weekend
<1>1. TypeOK /\ LoopInv => \A u \in Users : Timely(u)
  <2> SUFFICES ASSUME TypeOK, LoopInv, NEW u \in Users, Remind(u), u \notin changed
               PROVE  /\ (LocalMinute(u) - time[u]) % Day <= delay
                      /\ delay = 0 => Weekday(Minute, ServerZone) \notin Weekend
    OBVIOUS
  <2>1. /\ loop.minute \in 0 .. Week - 1 /\ Minute \in 0 .. Week - 1
        /\ MinutesFrom(loop.minute, Minute) <= delay
        /\ u \in loop.due
    BY MinuteType DEF Remind, LoopInv
  <2>2. Found(u)
    BY <2>1 DEF LoopInv, Found
  <2>3. time[u] \in Int /\ zone[u] \in Int
    <3>1. \A t \in NotifyTimes : t \in Int
      BY ClockAssumption DEF NotifyTimes
    <3> QED
      BY <2>2, <3>1, ClockAssumption DEF Found, TypeOK
  <2>4. (time[u] - zone[u]) % Day = loop.minute % Day
    BY <2>2 DEF Found, NotifyMinute, MinuteOfDay
  <2>5. (LocalMinute(u) - time[u]) % Day <= MinutesFrom(loop.minute, Minute)
    BY <2>1, <2>3, <2>4, AsLate DEF LocalMinute
  <2>6. (LocalMinute(u) - time[u]) % Day <= delay
    <3>1. Minute + zone[u] \in Int
      BY <2>1, <2>3, Clock
    <3>2. LocalMinute(u) \in Int /\ Day \in Nat \ {0}
      BY <3>1, Clock, DivMod DEF LocalMinute
    <3> DEFINE late == LocalMinute(u) - time[u]
    <3>3. late \in Int
      BY <2>3, <3>2
    <3> HIDE DEF late
    <3>4. late % Day \in Int
      BY <3>2, <3>3, DivMod
    <3>5. loop.minute \in Int /\ Minute \in Int
      BY <2>1
    <3>6. MinutesFrom(loop.minute, Minute) \in Nat
      BY <3>5, FarType
    <3>7. late % Day <= MinutesFrom(loop.minute, Minute)
      BY <2>5 DEF late
    <3>8. late % Day <= delay
      BY <2>1, <3>4, <3>6, <3>7, DelayType
    <3> QED
      BY <3>8 DEF late
  <2>7. ASSUME delay = 0
        PROVE  Weekday(Minute, ServerZone) \notin Weekend
    BY <2>1, <2>2, <2>7, InTime DEF Found
  <2> QED
    BY <2>6, <2>7
<1> QED
  BY <1>1, TypeCorrect, LoopCorrect, PTL DEF OnTime

=============================================================================
