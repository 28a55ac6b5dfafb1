--------------------------------- MODULE Draft ---------------------------------
(***************************************************************************)
(* The four lists of a flow while the user answers the questions.          *)
(*                                                                         *)
(* Each message, edit, redaction, check mark and command is handled by a   *)
(* goroutine of its own, which the runtime may run at any time.  Handlers  *)
(* take no lock.  A list is a Go slice: the flow has a header, which is    *)
(* the array and how many of its places are in the list.  append writes    *)
(* behind those places, in the same array as long as that has room, and a  *)
(* removal shifts the items within the array, so that a goroutine which    *)
(* has loaded a header, or a place in the list, may find others there when *)
(* it comes to store.                                                      *)
(*                                                                         *)
(* A search of the lists, and the writing of an array with the store of    *)
(* the header after it, are one step each; half-written headers are left   *)
(* out.  The flow is that of one !su new, up to its preview.               *)
(***************************************************************************)
EXTENDS Naturals, SequencesExt

CONSTANTS
  MaxEvents,   \* bound: events the user sends after !su new
  MaxHurried   \* bound: those of them for which the user does not wait for the bot

ASSUME DraftBounds == MaxEvents \in Nat /\ MaxHurried \in Nat

VARIABLES
  asked,       \* the question that the room shows last, "preview" after the last one
  messages,    \* what the room shows of the user's messages, in their order
  events,      \* events so far; an event is named by its number
  hurried,     \* those that were sent while a goroutine was still running
  state, slices, reactable, previewed,  \* the flow: slices has the headers of its lists
  heap,        \* the arrays, one after the other as they were allocated
  handlers,    \* the goroutines
  up,          \* FALSE when a handler has panicked, which ends the process
  torn         \* history: a list was stored over a handler that was at an item of it (Tears)

flowVars == <<state, slices, heap, reactable, previewed>>
roomVars == <<asked, messages>>
countVars == <<events, hurried>>
runVars == <<up, torn>>
vars == <<flowVars, roomVars, countVars, handlers, runVars>>

Section == {"Done", "Planned", "Blockers", "Notes"}
Following == [Done |-> "Planned", Planned |-> "Blockers", Blockers |-> "Notes"]

\* An item of a list: the message, and the event that its text is from.
Item(msg, text) == [msg |-> msg, text |-> text]

\* The event ID of a question, among those of the messages.
Question == 0

\* A slice: its array, of which the first len places are in the list.  A flow starts with
\* nil, which has no array.
Nil == [array |-> 0, len |-> 0]
Items(x) == [i \in 1 .. x.len |-> heap[x.array][i]]
Cap(x)   == IF x.array = 0 THEN 0 ELSE Len(heap[x.array])

lists == [s \in Section |-> Items(slices[s])]

-----------------------------------------------------------------------------
(* The user. *)

Begins(kind, msg, section) ==
  /\ up /\ UNCHANGED runVars
  /\ events < MaxEvents
  /\ IF handlers = {} THEN UNCHANGED hurried
     ELSE hurried < MaxHurried /\ hurried' = hurried + 1
  /\ events' = events + 1
  /\ handlers' = handlers \cup {[id |-> events + 1, kind |-> kind, pc |-> "start", msg |-> msg,
                                 section |-> section, slice |-> Nil, place |-> 0]}

WriteMessage ==
  /\ Begins("message", events + 1, "none")
  /\ messages' = Append(messages, [id |-> events + 1, question |-> asked,
                                   text |-> events + 1, redacted |-> FALSE])
  /\ UNCHANGED <<flowVars, asked>>

EditMessage(j) ==
  /\ ~messages[j].redacted
  /\ Begins("edit", messages[j].id, "none")
  /\ messages' = [messages EXCEPT ![j].text = events + 1]
  /\ UNCHANGED <<flowVars, asked>>

RedactMessage(j) ==
  /\ ~messages[j].redacted
  /\ Begins("redaction", messages[j].id, "none")
  /\ messages' = [messages EXCEPT ![j].redacted = TRUE]
  /\ UNCHANGED <<flowVars, asked>>

PutCheckMark(id) == Begins("reaction", id, "none") /\ UNCHANGED <<flowVars, roomVars>>

\* !su edit goes back to a section, or on to one.
EditCommand(s) == Begins("command", 0, s) /\ UNCHANGED <<flowVars, roomVars>>

-----------------------------------------------------------------------------
(* The handlers. *)

At(h, kind, pc) == h.kind = kind /\ h.pc = pc
Ends(h)     == handlers' = handlers \ {h}
Goes(h, pc) == handlers' = (handlers \ {h}) \cup {[h EXCEPT !.pc = pc]}

\* The header of a list was loaded, to append to it.
Loaded(h, s) ==
  handlers' = (handlers \ {h}) \cup {[h EXCEPT !.pc = "store", !.section = s, !.slice = slices[s]]}

\* HandleMessage: an item of the section that the flow is at, or of none.
HandleMessage(h) ==
  /\ At(h, "message", "start")
  /\ IF state \in Section THEN Loaded(h, state) ELSE Ends(h)
  /\ UNCHANGED <<flowVars, roomVars, countVars, runVars>>

\* append copies the items to an array of twice the size when there is no room for one more.
Grow(h) ==
  LET n == Cap(h.slice)
  IN /\ At(h, "message", "store")
     /\ h.slice.len = n
     /\ heap' = Append(heap, [i \in 1 .. (IF n = 0 THEN 1 ELSE 2 * n) |->
                                IF i <= n THEN heap[h.slice.array][i] ELSE Item(0, 0)])
     /\ handlers' = (handlers \ {h}) \cup {[h EXCEPT !.slice.array = Len(heap) + 1]}
     /\ UNCHANGED <<state, slices, reactable, previewed, roomVars, countVars, runVars>>

\* A handler that is to append to the list of section s, or to remove from it.
Holds(g, s) == g.kind \in {"message", "redaction"} /\ g.pc \in {"cut", "store"} /\ g.section = s

\* What h stores is behind the back of such a handler, and one of the two removes an item.
Tears(h) == \E g \in handlers \ {h} :
              Holds(g, h.section) /\ "redaction" \in {g.kind, h.kind}

\* The item goes behind those of the header that was loaded, which may be another one by now.
AppendItem(h) ==
  LET new == [h.slice EXCEPT !.len = @ + 1]
  IN /\ At(h, "message", "store")
     /\ h.slice.len < Cap(h.slice)
     /\ heap' = [heap EXCEPT ![new.array][new.len] = Item(h.msg, h.id)]
     /\ slices' = [slices EXCEPT ![h.section] = new]
     /\ torn' = (torn \/ Tears(h))
     /\ Goes(h, "mark")
     /\ UNCHANGED <<state, reactable, previewed, up, roomVars, countVars>>

\* The message gets its check mark, and takes one from now on.
MarkItem(h) ==
  /\ At(h, "message", "mark")
  /\ reactable' = reactable \cup {h.msg}
  /\ Ends(h)
  /\ UNCHANGED <<state, slices, heap, previewed, roomVars, countVars, runVars>>

IsOf(msg, item) == item.msg = msg
Listed(msg, s) == \E i \in DOMAIN lists[s] : IsOf(msg, lists[s][i])
First(msg, list) == {i \in DOMAIN list : /\ IsOf(msg, list[i])
                                          /\ \A j \in 1 .. i - 1 : ~IsOf(msg, list[j])}

\* The item is at place i of section s, in the array that the flow has now.
Found(h, s, i) ==
  handlers' = (handlers \ {h}) \cup
                {[h EXCEPT !.pc = IF h.kind = "edit" THEN "store" ELSE "cut", !.section = s,
                           !.slice = slices[s], !.place = i]}

\* Mutant of FindItem: only the section that the flow is at is searched.
FindItemAtState(h) ==
  /\ h.kind \in {"edit", "redaction"} /\ h.pc = "start"
  /\ IF state \in Section /\ Listed(h.msg, state)
     THEN \E i \in First(h.msg, lists[state]) : Found(h, state, i)
     ELSE Ends(h)
  /\ UNCHANGED <<flowVars, roomVars, countVars, runVars>>

\* Mutant of FindItem: an edit whose message is in no list is taken for a new one.
FindItemOrAppend(h) ==
  /\ h.kind \in {"edit", "redaction"} /\ h.pc = "start"
  /\ \/ \E s \in Section : \E i \in First(h.msg, lists[s]) : Found(h, s, i)
     \/ /\ \A s \in Section : ~Listed(h.msg, s)
        /\ IF h.kind = "edit" /\ state \in Section
           THEN handlers' = (handlers \ {h}) \cup {[h EXCEPT !.kind = "message", !.pc = "store",
                                                   !.section = state, !.slice = slices[state]]}
           ELSE Ends(h)
  /\ UNCHANGED <<flowVars, roomVars, countVars, runVars>>

\* HandleEdit and HandleRedaction look for the item through all sections.
FindItem(h) ==
  /\ h.kind \in {"edit", "redaction"} /\ h.pc = "start"
  /\ \/ \E s \in Section : \E i \in First(h.msg, lists[s]) : Found(h, s, i)
     \/ (\A s \in Section : ~Listed(h.msg, s)) /\ Ends(h)
  /\ UNCHANGED <<flowVars, roomVars, countVars, runVars>>

\* tryEditListItem: the text goes to the place at which the item was found, in the array in
\* which it was found.  The flow may have another array by now, or another item there.
EditItem(h) ==
  /\ At(h, "edit", "store")
  /\ heap' = [heap EXCEPT ![h.slice.array][h.place].text = h.id]
  /\ Ends(h)
  /\ UNCHANGED <<state, slices, reactable, previewed, roomVars, countVars, runVars>>

\* HandleRedaction loads the list again to cut the place that it has found out of it, which
\* panics when the list has become shorter than that.
Cut(h) ==
  /\ At(h, "redaction", "cut")
  /\ IF h.place <= slices[h.section].len
     THEN /\ handlers' = (handlers \ {h}) \cup {[h EXCEPT !.pc = "store",
                                                         !.slice = slices[h.section]]}
          /\ UNCHANGED up
     ELSE up' = FALSE /\ handlers' = {}
  /\ UNCHANGED <<flowVars, roomVars, countVars, torn>>

\* The items behind the place move up, in the array that they are in.
RemoveItem(h) ==
  LET array == heap[h.slice.array]
      moved == [i \in DOMAIN array |->
                  IF i \in h.place .. h.slice.len - 1 THEN array[i + 1] ELSE array[i]]
  IN /\ At(h, "redaction", "store")
     /\ heap' = [heap EXCEPT ![h.slice.array] = moved]
     /\ slices' = [slices EXCEPT ![h.section] = [h.slice EXCEPT !.len = @ - 1]]
     /\ torn' = (torn \/ Tears(h))
     /\ Ends(h)
     /\ UNCHANGED <<state, reactable, previewed, up, roomVars, countVars>>

\* HandleReaction, up to the read of previous_post (there is none of this flow).
HandleReaction(h) ==
  /\ At(h, "reaction", "start")
  /\ IF state # "FlowNotStarted" /\ h.msg \in reactable
     THEN reactable' = {} /\ Goes(h, "read")
     ELSE UNCHANGED reactable /\ Ends(h)
  /\ UNCHANGED <<state, slices, heap, previewed, roomVars, countVars, runVars>>

\* The state may be another one by now.  (What a check mark does in the states after
\* the questions is in CreatePost.)
GoOn(h) ==
  /\ At(h, "reaction", "read")
  /\ state \in Section
  /\ IF previewed \/ state = "Notes"
     THEN state' = "Notes" /\ Goes(h, "preview")
     ELSE /\ handlers' = (handlers \ {h}) \cup {[h EXCEPT !.pc = "ask", !.section = Following[state]]}
          /\ UNCHANGED state
  /\ UNCHANGED <<slices, heap, reactable, previewed, roomVars, countVars, runVars>>

HandleCommand(h) ==
  /\ At(h, "command", "start")
  /\ Goes(h, "ask")
  /\ UNCHANGED <<flowVars, roomVars, countVars, runVars>>

\* GoToStateAndNotify: the question appears in the room ...
Ask(h) ==
  /\ h.pc = "ask"
  /\ asked' = h.section
  /\ Goes(h, "asked")
  /\ UNCHANGED <<flowVars, messages, countVars, runVars>>

\* ... and the flow follows it when the answers to the send and to its check mark are in.
Asked(h) ==
  /\ h.pc = "asked"
  /\ state' = h.section
  /\ reactable' = reactable \cup {Question}
  /\ Ends(h)
  /\ UNCHANGED <<slices, heap, previewed, roomVars, countVars, runVars>>

\* ShowMessagePreview; the answers to it come at once here.
ShowPreview(h) ==
  /\ h.pc = "preview"
  /\ asked' = "preview"
  /\ previewed' = TRUE
  /\ state' = "Confirm"
  /\ Ends(h)
  /\ UNCHANGED <<slices, heap, reactable, messages, countVars, runVars>>

-----------------------------------------------------------------------------

\* !su new has replaced the flow and is about to ask.
Init ==
  /\ asked = "none"
  /\ messages = <<>>
  /\ events = 0
  /\ hurried = 0
  /\ state = "FlowNotStarted"
  /\ slices = [s \in Section |-> Nil]
  /\ heap = <<>>
  /\ reactable = {}
  /\ previewed = FALSE
  /\ handlers = {[id |-> 0, kind |-> "command", pc |-> "ask", msg |-> 0, section |-> "Done",
                  slice |-> Nil, place |-> 0]}
  /\ up = TRUE
  /\ torn = FALSE

User == \/ WriteMessage
        \/ \E j \in DOMAIN messages : EditMessage(j) \/ RedactMessage(j) \/ PutCheckMark(messages[j].id)
        \/ PutCheckMark(Question)
        \/ \E s \in Section : EditCommand(s)

Handler(h) == \/ HandleMessage(h) \/ Grow(h) \/ AppendItem(h) \/ MarkItem(h)
              \/ FindItem(h) \/ EditItem(h) \/ Cut(h) \/ RemoveItem(h)
              \/ HandleReaction(h) \/ GoOn(h) \/ HandleCommand(h)
              \/ Ask(h) \/ Asked(h) \/ ShowPreview(h)

Next == User \/ \E h \in handlers : Handler(h)

Spec == Init /\ [][Next]_vars

-----------------------------------------------------------------------------
(* Properties. *)

Settled == handlers = {}

\* What the room says of a section: the messages that answer its question and are still
\* there, with the text of their last edit.
Said(s) == {Item(m.id, m.text) : m \in {n \in Range(messages) : n.question = s /\ ~n.redacted}}

\* As the messages were sent: an event is named by its number.
InOrder(list) == \A i, j \in DOMAIN list : i < j => list[i].msg < list[j].msg

\* For a user who waits for the bot, the lists are what the room says, in its order, after
\* any sequence of messages, edits, redactions, check marks and !su edit, those that go
\* back from the preview included.
DraftFollowsRoom ==
  hurried = 0 =>
    up /\ (Settled => \A s \in Section : Range(lists[s]) = Said(s) /\ InOrder(lists[s]))

\* A message is in the lists at most once, in one section.
OnceListed ==
  \A s, t \in Section : \A i \in DOMAIN lists[s], j \in DOMAIN lists[t] :
    lists[s][i].msg = lists[t][j].msg => s = t /\ i = j

\* A removal takes out the item of the message that was redacted.
RemovesOwn ==
  \A h \in handlers : At(h, "redaction", "store") => heap[h.slice.array][h.place].msg = h.msg

\* What the missing locks cannot break: in whatever order the handlers run, a message is
\* listed at most once, a redaction takes out its own item, and none panics, unless a list
\* was stored while another handler was about to store it too, and one of the two was a
\* redaction.  Messages and edits that overlap, searches that others overtake, and arrays
\* that are shared or left behind do none of it.
IntactUnlessTorn == ~torn => up /\ OnceListed /\ RemovesOwn

\* The messages that a handler has yet to enter in the lists, to change or to take out.
ToFile(h)  == h.kind = "message" /\ h.pc # "mark"
Unsettled  == {h.msg : h \in {g \in handlers : ToFile(g) \/ g.kind \in {"edit", "redaction"}}}
Others(items) == {item \in items : item.msg \notin Unsettled}

ListsFollow ==
  \A s \in Section : Others(Range(lists[s])) = Others(Said(s)) /\ InOrder(lists[s])

MessagesInOrder ==
  /\ \A i, j \in DOMAIN messages : i < j => messages[i].id < messages[j].id
  /\ \A i \in DOMAIN messages : messages[i].id \in 1 .. events

\* The question in the room is the one that the flow is at, or both are at none.
QuestionKnown ==
  (\A h \in handlers : h.pc \notin {"asked", "preview"})
  => asked = state \/ {asked, state} \cap Section = {}

\* What the handler h is about is what the room shows.
HandlerKnows(h) ==
  /\ h.kind = "message" => h.pc \in {"start", "store", "mark"}
  /\ h.kind = "edit" => h.pc \in {"start", "store"}
  /\ h.kind = "redaction" => h.pc \in {"start", "cut", "store"}
  /\ h.kind = "command" \/ h.pc \in {"ask", "asked"} => h.section \in Section
  /\ h.pc = "asked" => asked = h.section
  /\ h.pc \in {"cut", "store"} /\ h.kind # "message" =>
       /\ h.slice = slices[h.section]
       /\ h.place \in DOMAIN lists[h.section]
       /\ IsOf(h.msg, lists[h.section][h.place])
  /\ ToFile(h) =>
       /\ [id |-> h.msg, question |-> asked, text |-> h.id, redacted |-> FALSE] \in Range(messages)
       /\ \A m \in Range(messages) : m.id <= h.msg
       /\ h.pc = "store" => h.section = asked /\ Items(h.slice) = lists[asked]
  /\ h.kind = "edit" =>
       \E m \in Range(messages) :
         /\ m.id = h.msg /\ m.text = h.id /\ ~m.redacted
         /\ \A s \in Section : Listed(h.msg, s) <=> m.question = s
  /\ h.kind = "redaction" => \E m \in Range(messages) : m.id = h.msg /\ m.redacted

\* Why DraftFollowsRoom holds: one handler runs at a time, and but for the message that it
\* is about the lists are always what the room says.
FollowInv ==
  /\ hurried \in Nat
  /\ hurried = 0 =>
       /\ up /\ ~torn
       /\ \A g, h \in handlers : g = h
       /\ ListsFollow
       /\ MessagesInOrder
       /\ QuestionKnown
       /\ \A h \in handlers : HandlerKnows(h)

=============================================================================
