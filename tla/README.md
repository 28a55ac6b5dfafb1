# A verification of standupbot in TLA+

standupbot is a Matrix bot.  It asks each user for a standup post section by section
(or in four threads), shows a preview, sends the post to a room of the user's choice
when the preview gets a check mark, and lets the post be edited and undone.  This
directory holds a model of it, the TLC configurations that check the model, and
theorems about it checked with TLAPS.

## Inventory

| part | source | state | operations | what makes it correct |
|---|---|---|---|---|
| composing and posting | `create_post.go` | `currentStandupFlows`, the `previous_post` state event | `CreatePost`, `GoToStateAndNotify`, `ShowMessagePreview`, `SendMessageToSendRoom`, `HandleReaction` | one post per flow, saying what the preview said; a flow is Sent only if it was posted; `previous_post` leads to the live post |
| commands and messages | `command_handler.go` | the same flows and their four lists | `new`, `edit`, `cancel`, `undo`, `room`, `threads`, `tz`, `notify`, `show`, `help`, `vanquish`; items, edits, replies, redactions | the lists are what the room says; the preview follows them; undo takes away the right post; a documented command is heeded |
| process and event loop | `standupbot.go` | `current-flows.json` | load, save on a signal, one goroutine per event, the sync loop | flows survive a restart; handlers do not crash on each other |
| notification loop | `standupbot.go`, `store/config_room.go` | none of its own | look at the minute, find whose it is, remind, sleep | no minute twice or left out; at the user's time, on a working day; does not destroy a draft |
| settings | `store/config_room.go`, `types/` | state events in several rooms, four caches, `UserConfigRooms` | set, get through, load at the start | what the user was told is in force, and is there after a restart |
| membership and encryption store | `store/crypto_state_store.go` | `room_members`, `rooms` | `SetMembership`, `SetEncryptionEvent`, `IsEncrypted`, `GetRoomMembers`, `FindSharedRooms` | the tables agree with the rooms; a session is for the members |
| sync store | `store/storer.go`, `store/store.go` | filter ID, batch token | upsert, load | no row is doubled; no event is skipped but by a failure |
| delivery | `helper.go` | none | `DoRetry`, `SendMessageOnBehalfOf` | a send ends; at most one copy per attempt, at least one on success |
| configuration, crypto logger, build and deployment files | `configuration.go`, `crypto-logger.go`, `Dockerfile`, ... | none | | not modelled: no state |

How they interact: the sync loop starts a goroutine per message, reaction and
redaction, and handles member and encryption events itself; the notification loop is
one more goroutine.  They share `currentStandupFlows`, the records in it and the caches
of the state store without a lock, and the tables.  Every handler reads and writes only
the map entry and the settings of its sender.  What is hard: state read before a network
call and used after it, records that are no longer in the map but still held by a
handler, slices that are loaded, changed and stored while others do the same in the same
array, calls whose error is ignored, sends that are repeated after a lost answer, a batch token that is
saved before its events are handled, and a file that is written only on a signal.
`hazards` in `PROJECT.json` lists them line by line.

## Modules

The flow and its post:

* `FlowState` - state, records, and the few helpers all handlers use.
* `CreatePost` - `create_post.go`.
* `CommandHandler` - `command_handler.go`, and `CreatePost` the function.
* `StandupBot` - the process: notification loop, membership, save, crash, start;
  composes the handlers into `Next`; the properties.
* `PostBoard` - the abstract specification: what is shown and what is on the board.
* `MCStandupBot` - which events each instance is about.
* `Draft` - the four lists of one flow, at the grain of loads and stores.

What it rests on:

* `Settings`, `MCSettings` - the settings, their caches and the commands that set them.
* `SyncStore` - the tables and the sync loop.
* `Delivery`, `MCDelivery` - sends with their attempts and sessions; composed with
  `SyncStore`, which changes the members while they run.
* `SendCall` - the abstract specification of a send.
* `Reminders`, `MCReminders` - the notification loop against the clock of a week.

The theorems: `StandupBotProofs`, `SentProofs` and `SerialProofs` (the flows and their
posts), `DraftProofs`, `SettingsProofs`, `TableProofs`, `DeliveryProofs`,
`RemindersProofs`.

### The flow modules and the code

* **One user.** Users share nothing but the process, so the model has one.
* **Flows.** `flows` is the heap of `StandupFlow` records, its index the FlowID, and
  `current` the map entry (0: none).  Handlers hold pointers, so a record that was
  replaced in the map lives on while a goroutine holds it; afterwards it is garbage
  and blanked (`Kept`).
* **Goroutines.** A handler is cut at the network calls whose answer or timing
  matters.  `task[w].pc` names the call it is blocked on; the step that receives the
  answer lets the call take effect and runs the code up to the next call.  So the
  state after a call is read anew exactly where the code reads it anew.  Calls whose
  result is thrown away (reactions, read markers, notices, the redaction of an old
  preview, the logged read of `previous_post` in `CreatePost`) are part of the step
  they follow, unless the code changes state on both sides.
* **Reactable events** are represented by what they show (`Prompt`).  The events that
  `EditPreview` adds are left out: clients aim a reaction on an edited message at the
  message itself.
* **Items.** The four lists are one set of items, each named by the message that wrote
  it and which of two texts it has.  A post and a preview are the set they were
  formatted from; the text of a preview is the one last sent, as a message or as an
  edit of it.
* **Settings** are what these modules need of them: the send room and the use of
  threads.  A command that sets something else is `OtherCommand`.
* **Homeserver.** A post is live until redacted.  An `m.replace` event changes a post
  of the same room that is live; a redaction is refused for an event of another room.
  `previous_post` may be absent, `{}` after undo, or name a flow and a post.
* **Failures.** A failed call has failed for good, after the six attempts of
  `DoRetry`.  A post may also have arrived with the answer lost, once (it is then sent
  twice) or on all attempts.  A failed write of a setting is taken not to have reached
  the server.
* **The file.** `current-flows.json` is good, absent or garbled.  It may become garbled
  when the new text can be shorter than the old one, that is when the old record had
  something that the new one has not.

### Draft and the code

Each message, edit, redaction, check mark and `!su edit` is a goroutine (`handlers`) that
the runtime may run at any time.  `asked` and `messages` are what the room shows the user;
`state` and the lists are the flow.  A question appears in the room (`Ask`) before the state
follows it (`Asked`).  `hurried` counts the events that the user sent while a goroutine was
still running.  The flow is followed up to its preview and back from it; what a check mark
does on a preview is in `CreatePost`.

A list is a Go slice: `slices` has the headers, `heap` the arrays, and `lists` is what the
two say.  No handler takes a lock, and they share the arrays:

* A message loads the header (`HandleMessage`); `append` copies the items to a larger array
  when there is no room (`Grow`), and then writes behind the items of the header that was
  loaded, and stores it, one longer (`AppendItem`).
* A redaction finds its item (`FindItem`), loads the header again (`Cut`, which panics if
  the list has become too short: `up`), and then shifts the items within the array and
  stores the header, one shorter (`RemoveItem`).
* An edit finds its item, and then writes at that place of that array (`EditItem`), which
  the flow may have left behind by then.

A search of the lists is one step, and so is the writing of an array with the store of the
header after it; headers and items of which only a part is written are left out.  `torn`
is there for the property: it says that a list was stored over a handler that was at an
item of it.

### Settings and the code

* A setting is a state event in the room that the command came from; `cache` has the
  entry of the user; `config` is `UserConfigRooms`, set by every message with a prefix.
  A read that misses the cache asks the config room of the moment.
* A call is cut where the homeserver serves it and where its answer arrives, so that two
  goroutines can overtake each other in between; it can also fail before or after it was
  served.
* A message is a prefix and words.  `getCommandParts` leaves an empty first word when the
  prefix is the name of the bot.  An unknown timezone is refused and then set to UTC.
* A start goes through the joined rooms in any order; of each setting the last one found
  stays.  It finds nothing when the list of rooms cannot be had, and can fail to read the
  events of one room, or one event.
* `told`, `raced` and `unanswered` are there for the properties: what the user was told
  last, in which room, and whether the process that said so is still there and has not
  dropped a time in a failed "notify stop" (`live`); which settings two goroutines were at
  at once; and which were written with the answer lost.

### SyncStore, Delivery and the code

* A table is a set of rows with a key; `Upsert` is `UPDATE` and then `INSERT OR IGNORE`,
  in one transaction.  `timeline` is what the rooms have been through, a batch token a
  place in it.
* The token of a batch is saved before its events are handled.  A member event is handled
  in two steps: the library takes away the outbound session, then `SetMembership` changes
  the table.  The first step keeps the session if its query fails, by which the room
  counts as not encrypted, or if the removal does (`MemberEventFails`).  `lost` collects the events that the tables have missed because a statement
  failed, or because the process ended, or a handler panicked, after the token was saved.
  `BeginPanics`: `Rollback` through the nil transaction of a failed `Begin`; the panic
  comes back from `Sync`, which `main` calls again.
* An attempt of `SendMessageOnBehalfOf` looks the room up, shares a session if it is
  encrypted and has none, and sends.  A failed query makes a room look unencrypted or
  empty (`AttemptBlindly`).  An attempt that fails is repeated up to `MaxRetries` times,
  also when its event has arrived and only the answer was lost.  Sessions expire at any
  time.  A session has the `readers` its key was shared with.  It is `stale` if the members
  changed while it was being shared, if they could not be read, and when a member event has
  failed to take it away.
* The olm machine and the client are the library's: they are modelled from the calls
  in `helper.go` and `standupbot.go`, and marked external.

### Reminders and the code

`now` goes round a week in seconds.  The loop looks at the minute, considers the users one
by one, reminds those who are due, and sleeps up to the next minute (`ToNextMinute`); all
of this may take up to `delay` minutes, and settings may change meanwhile.  Midnight is
that of the server's date in the user's timezone, as in the code, and the minute is counted
from it on the clock of UTC.  `0` is both 00:00 and no time; `HandleNotify` takes up to
24:60.  The length of the day, hour and minute are parameters.

### Mutants

Definitions commented as "Mutant of" are used by no specification.  Each is a plausible
slip in one handler: put in the place of the handler it makes TLC find the property
violated that `PROJECT.json` lists with it.

## Runs

| run | instance | shows |
|---|---|---|
| `serial` | 1 goroutine, 2 rooms, 2 flows, 2 posts, 1 item, all events but `threads` | `ImplementsPostBoard`, `SentIsRecorded`, `Answerable`, and `SerialInv`, which is why |
| `faults` | 1 goroutine, 1 room, 1 flow, 1 post, 1 item, 1 fault, 1 restart | `TypeOK`, `SentInv` |
| `concurrent` | 2 goroutines, 1 room, 2 flows, 1 post, 1 item, fairness | `TypeOK`, `SentWasPosted`, `PostedIsRecorded` |
| `notify_race` | violation of `NotifyKeepsDraft` | the reminder throws away a post begun while it was being sent (`standupbot.go:312-317`) |
| `restart_loses_flow` | violation of `RestartKeepsFlow` | the flows file is not truncated (`standupbot.go:116`) |
| `edit_after_room_change` | violation of `EditReachesPost` | an edit goes to the present send room, not to the post's (`create_post.go:208`) |
| `draft` | 6 events, 1 of them hurried | `DraftFollowsRoom` for a user who waits, and `FollowInv`, which is why; `IntactUnlessTorn` for any |
| `settings` | 2 goroutines, 2 rooms, 3 commands, 1 fault, 1 restart, symmetry | `TypeOK`, `ToldIsInForce`, `RestartRestores`, `SettingHasRoom` |
| `addressed_by_name` | violation of `CommandsAreHeeded` | `@standupbot tz ...` is answered with the help (`command_handler.go:363`) |
| `delivery` | 1 call of 2 attempts, 1 room, 2 users, 3 events, 1 fault, 1 restart, fairness | `TypeOK`, `TableFollowsTimeline`, `SessionIsForMembers`, `SendEnds`, `ImplementsSendCall` |
| `reminders` | 2 users, 3 timezones, a week, 1 change, 1 restart, loop late or not, fairness | `TypeOK`, `MinutesInTurn`, `OnTime`, and `LoopInv`, which is why; `DueReminded` |
| `weekend_reminder` | violation of `NoWeekendReminder` | the weekend is that of the server's date (`config_room.go:134`) |

`serial` starts with either setting of threads, any send room and any membership, so
the `threads` command adds nothing there.  In `serial` no call fails and events wait for
each other: with two handlers or a failure the code does not implement `PostBoard` (two
check marks at once post twice; a failed thread root leaves a post without a preview).
The repository makes no claim that this contradicts, so these are hazards with a note.

`DraftFollowsRoom` speaks of a user who waits until the bot is done.  For one who does not
it fails: a redaction that is handled before its message leaves the message in the post,
and an answer that comes before the check mark of its question is filed under the question
before.  And a message can be listed twice: if it loads `[a,b,c]` in an array of four, the
redaction of `a` shifts that array to `[b,c,c]`, and then the append stores its header, the
list is `[b,c,c,m]`.  Two redactions that overlap can remove a wrong item, or panic.
`IntactUnlessTorn` says that these are the only ways: as long as no list is stored by one
handler while another has it in hand to store, one of the two a redaction (`torn`), no
message is listed twice, none is removed for another, and nothing panics, however messages,
edits, searches, check marks and commands overlap.

`ToldIsInForce` is about the life of a process, `RestartRestores` about a start.  Both leave
out a setting that two goroutines were at at once: there the answer to an older read can
overwrite a newer value in the cache.  `ToldIsInForce` ends with a "notify stop" that
failed, which drops the time from the cache and tells the user that nothing was changed.
`RestartRestores` is about a start to which every request is answered.  What it does not
promise is what the code does not keep: the bot may have left the room of the command; a
later write may have been served without an answer; and another room may have another
value, of an earlier command there, which the start brings back if it comes to that room
last.

`TableFollowsTimeline` leaves out the events in `lost`: the code does lose events, and the
property says that there is no other way.  `SessionIsForMembers` leaves out the sessions
that are `stale`: a session goes on being used for members of before when the members
could not be read or changed while it was being shared, and when the handler of a member
event has failed to take it away.

Bounds.  In the flow modules two flows are needed for a stale pointer, two rooms for a
changed send room, two posts for send, undo, send again, two goroutines for a race, one
item with two texts to tell a post from what it should say.  `MaxFlows`, `MaxPosts`,
`MaxMsgs`, `MaxFaults` and `MaxRestarts` bound what the user and the environment do, in the
guards of the actions that start something; a handler that has been started is never
stopped by a bound.  (`GoToStateAndNotify` may allocate a flow beyond the heap when it
finds no entry; the bound is then in `EditSection`.)  `Inputs` names the events an instance
is about.  `faults` has one flow only: what a restart revives is the same flow, older.
In `draft` six events are enough to write, go on to the last section, see the preview, go
back and write, edit or redact again; one hurried event is enough for two goroutines at a
list.  In `settings` two times and a stop, from two rooms, with a third command that
overwrites one of them, are the histories in which caches and rooms can fall out; the four
settings differ only in the stop, so one with two values is enough.  In `delivery` a room
that is new or was encrypted before goes through three events (two for its history); the
theorems cover any number.  In `reminders` a day has two hours of a minute of two seconds,
which is enough for the weekday, the minute and the second each to wrap round;
`weekend_reminder` has three hours, so that a user can be an hour behind.

Deadlock is checked in `serial`, `faults`, `concurrent`, `notify_race`,
`restart_loses_flow`, `edit_after_room_change`, `settings`, `reminders` and
`weekend_reminder`, where some command or the clock is always possible.  In `draft`,
`addressed_by_name` and `delivery` the bound on what the user and the rooms do ends the run.

Fairness.  `concurrent`: `WF_vars(Answer(w))` for each goroutine; `delivery`:
`WF_vars(CallStep(c))` for each call; `reminders`: `WF_vars(Tick)` and `WF_vars(LoopStep)`.
`DoRetry` makes at most six attempts, the HTTP client ends each of them, and the Go
scheduler runs every goroutine, so a call that is awaited is answered and the loop gets on.
Nothing is assumed of the user, the settings or the signals, and nothing of the sync loop.
`DueReminded` assumes more in its statement: a loop that is in time from some point on.

## Theorems

All are for any values of the constants, under the assumptions that the modules name:
the bounds are numbers, the values `None`, `Empty`, `Unknown` and the empty room are no
values of a setting and no rooms, UTC is a timezone, and in `Settings` the rooms are a
finite set.

* `StandupBotProofs!TypeCorrect`: `Spec => []TypeOK`.  `TypeOK` is inductive as it stands
  because `TaskOK` says what each pc needs: where the code dereferences the map entry
  without a check there is one, and the flow that a handler holds exists.  One lemma per
  action; `TaskStep` says that a step of one goroutine does not disturb the others as long
  as the heap only grows and the entry is not deleted.
* `SentProofs!SentInductive`: `Spec => []SentInv`, and from it `SentCorrect`:
  `Spec => []SentWasPosted`.  `SentWasPosted` is not inductive: a flow becomes Sent
  because a handler is about to say so, because `previous_post` names it, or because it
  was Sent in the file that a start loads.  `SentInv` adds that each of these speaks of
  posted flows only.  The proof rests on posts keeping their flow for ever (`PostsStay`):
  most steps call no further flow Sent and leave no further handler taking one for posted
  (`SentCarried`), and the few others are looked at one by one.
* `SettingsProofs!TypeCorrect`, `ToldCorrect`, `RestartCorrect`, `RoomCorrect`: the four
  properties of `settings`, for any number of goroutines, rooms, values, commands, faults
  and restarts.  The inductive invariant `SettingsInv` has, for each setting that is not
  raced (`KindInv`), that one goroutine at most is at it, that a value which is served and
  not yet answered is stored in its room, what the cache has until then (`InForce`), and
  that what the user was told is stored in the room of that command, unless a later write
  was served without an answer (`IsStored`); that a goroutine which asks or writes to a
  room does so after a config room was set (`RoomKnown`); and that a cached setting has a
  config room (`SettingHasRoom`).  From `IsStored` a start that sees all rooms finds the
  value, and if no other room has another one it is the value found last.
* `DeliveryProofs!TypeCorrect`: the tables are keyed, the sync loop is at an event that
  exists, and a call that goes on has not failed too often.
* `DeliveryProofs!SessionCorrect`: `Spec => []SessionIsForMembers`, from `SessionInv`: a
  room with a session is encrypted according to its table (so that `HandleMemberEvent`
  takes the session away, or is seen to fail), a session that exists while a member event
  is half handled is stale, and the readers of a call that shares are still the members unless it is stale.
* `DeliveryProofs!Refinement`: `Spec => ImplementsSendCall`.  Each step of a call maps to
  `Arrive`, to `End` or to a stutter; a restart ends all calls under way at once.
* `TableProofs!TableCorrect`: `Spec => []TableFollowsTimeline`.  `TablesInv` says of the
  place that the sync loop has come to (`Place`) what the property says of the end of the
  timeline, and that the saved token is never ahead of the batch in hand (`TokenBehind`),
  so that what a restart skips is in `lost`.  The last event about a member decides, so a
  batch that is handled a second time does no harm.
* `DraftProofs!IntactCorrect`: `Spec => []IntactUnlessTorn`, for any number of events and of
  goroutines at once.  It is not inductive: what is stored next is a header that a handler
  loaded before, into an array that others write.  `OnceInv` says that headers stay within
  their arrays and, unless torn, that the headers of a section, the pending ones included,
  have a message once (`Owned`, `OnceIn`), that no two sections share an array (`Apart`),
  that a message on its way is in none of them and has one handler (`PendingIsNew`,
  `OnePending`), and that a redaction which has found its item is still at it (`AtItem`).
* `SerialProofs!SerialInductive`, and from it `SerialSentIsRecorded`, `SerialAnswerable` and
  `SerialImplementsPostBoard`: under `Serial` (one goroutine, every call answered, a process
  that goes on), for any number of flows, posts, rooms, messages and commands.
  None of the three properties is inductive, because each speaks of a moment when a handler
  is done, or of a step whose outcome was decided some calls before.  `SerialInv` says for
  every call that a handler can be waiting on what holds until the answer: that the flow it
  holds is the current one, that the flow's one live post is the post in hand or the one
  that `previous_post` names (`FlowsAgree`), and that what it is about to send is what the
  flow says and the preview has said (`PreviewsAgree`).  In the refinement each answer maps
  to the step of `PostBoard` that it makes visible, or to a stutter.  `Serial` is needed:
  with two goroutines two check marks post twice; a failed write of `previous_post`, or a
  restart before it, leaves a flow that is Sent and not recorded; and a restart from a file
  that was written after `HandleReaction` emptied the reactable events leaves a question
  without one.
* `RemindersProofs!TypeCorrect`, `LoopCorrect`, `MinutesCorrect` and `OnTimeCorrect`, for any
  users, timezones, hours to the day, minutes to the hour, seconds to the minute and
  lateness below a week.  The time at which the loop wakes is `now + wait` round the week,
  cut to the minute: `LoopInv` says of it what `MinutesInTurn` says of the next look, and of
  the users found due that the minute looked at was theirs.  The divisions are by
  parameters, so the proofs go through quotients and remainders (`DivMod`, `DivModIs`), from
  which what is needed of differences round a week and of minutes of a day follows.
* `DraftProofs!FollowCorrect`, and from it `DraftFollowsCorrect`: `Spec => []DraftFollowsRoom`,
  for any number of events.  A user who waits has one handler running at most, but the lists
  and the room agree only before and after it.  `FollowInv` says what holds in between: the
  lists are what the room says but for the one message that the handler is about
  (`ListsFollow`), the question in the room is the state of the flow while nobody asks
  (`QuestionKnown`), and what the handler has loaded, and the message it is about, are those
  of the flow and the room (`HandlerKnows`).  `OnceInv` gives that a message to be filed is
  in no list yet, and one to be edited or removed in one.  A list is compared with the room
  as a set in the order of its messages, so that no induction over its length is needed.

With these, every safety property of a passing run is a theorem.  Only model-checked are
`PostedIsRecorded`, `SendEnds` and `DueReminded`, which as properties under fairness are out
of the prover's reach, and the five properties that the code violates.

## What the code does and its documents deny

`notify_race`, `restart_loses_flow`, `edit_after_room_change`, `addressed_by_name` and
`weekend_reminder`; for each, `PROJECT.json` quotes the line that is not kept.  `CreatePost`
also shows that the cross which the preview offers in thread mode does nothing
(`create_post.go:345`); that takes no run to see.

## Not modelled

* Wording, logging, read markers, the `show` and `help` output, commands without an
  argument, and `GetCurrentWeekdayInUserTimezone`, which only words a question.
* Login, the crypto store's set-up and the back-off of a failed sync, which happen once or
  change nothing the other parts read.
* `FindSharedRooms`, which only the library calls when a user gets a new device.  Devices
  and the keys themselves are the library's.
* Summer time: a timezone is a fixed offset.
* Slices and maps of which only half is written when another goroutine reads them, and the
  abort of the runtime on concurrent map writes.
* Configuration, the crypto logger, build and deployment files: no state.

## Plan

Done: the flow modules, the settings, the tables and the sync loop, sending, the
notification loop and the lists, with their runs and the theorems above.  Next, in order:

1. What of `Serial` can be given up: posts per flow and `SentIsRecorded` with failing calls,
   as far as the code keeps them.
2. What the lists keep for a user who does not wait, beyond `IntactUnlessTorn`.
