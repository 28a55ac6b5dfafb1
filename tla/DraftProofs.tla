----------------------------- MODULE DraftProofs -----------------------------
(***************************************************************************)
(* What the missing locks cannot break, whatever the order in which the    *)
(* goroutines load and store the lists and for any number of events: as    *)
(* long as no list is stored over a redaction, or by one over an append, a *)
(* message is in the lists at most once, a redaction takes out its own     *)
(* item and none panics.  And for a user who waits for the bot the lists   *)
(* are what the room says.                                                 *)
(***************************************************************************)
EXTENDS Draft, SequenceTheorems, TLAPS

-----------------------------------------------------------------------------
(* Types: headers stay within their arrays, and places within the headers. *)

ItemSet == [msg : Nat, text : Nat]
ItemList == Seq(ItemSet)

InList(list, m) == \E i \in DOMAIN list : list[i].msg = m
Once(list) == \A i, j \in DOMAIN list : list[i].msg = list[j].msg => i = j

Kind    == {"command", "message", "edit", "redaction", "reaction"}
Step    == {"start", "cut", "store", "mark", "read", "ask", "asked", "preview"}
Shown   == Section \cup {"none", "preview"}
Slice   == [array : Nat, len : Nat]
Handlers == [id : Nat, kind : Kind, pc : Step, msg : Nat, section : Shown, slice : Slice,
             place : Nat]
Message == [id : Nat, question : Shown, text : Nat, redacted : BOOLEAN]

LEMMA SameInterval ==
  ASSUME NEW m \in Nat, NEW n \in Nat, 1 .. m = 1 .. n
  PROVE  m = n
<1>1. CASE m < n
  <2>1. n \in 1 .. n /\ n \notin 1 .. m
    BY <1>1
  <2> QED
    BY <2>1
<1>2. CASE n < m
  <2>1. m \in 1 .. m /\ m \notin 1 .. n
    BY <1>2
  <2> QED
    BY <2>1
<1> QED
  BY <1>1, <1>2

\* x is within its array.
Fits(x) == /\ x.array = 0 => x.len = 0
           /\ x.array # 0 => x.array \in 1 .. Len(heap) /\ x.len <= Len(heap[x.array])

Appending(h) == h.kind = "message" /\ h.pc = "store"
Removing(h)  == h.kind = "redaction" /\ h.pc \in {"cut", "store"}
Pending(h)   == h.kind = "message" /\ h.pc \in {"start", "store"}

HandlerOK(h) ==
  /\ h.pc \in {"cut", "store"} => h.section \in Section /\ Fits(h.slice)
  /\ h.pc = "cut" => h.place # 0
  /\ h.pc = "store" /\ h.kind # "message" => h.place \in 1 .. h.slice.len

TypeOK ==
  /\ asked \in Shown
  /\ messages \in Seq(Message)
  /\ events \in Nat
  /\ heap \in Seq(ItemList)
  /\ slices \in [Section -> Slice]
  /\ \A s \in Section : Fits(slices[s])
  /\ handlers \subseteq Handlers
  /\ \A h \in handlers : HandlerOK(h)
  /\ torn \in BOOLEAN

\* The arrays, and what is at a place of one.
LEMMA HeapPlaces ==
  ASSUME TypeOK
  PROVE  /\ Len(heap) \in Nat /\ DOMAIN heap = 1 .. Len(heap)
         /\ \A a \in 1 .. Len(heap) :
              /\ heap[a] \in ItemList /\ Len(heap[a]) \in Nat
              /\ DOMAIN heap[a] = 1 .. Len(heap[a])
              /\ \A i \in 1 .. Len(heap[a]) : heap[a][i] \in ItemSet /\ heap[a][i].msg \in Nat
<1>1. Len(heap) \in Nat /\ DOMAIN heap = 1 .. Len(heap)
      /\ \A a \in 1 .. Len(heap) : heap[a] \in ItemList
  BY DEF TypeOK
<1>2. \A list \in ItemList : /\ Len(list) \in Nat /\ DOMAIN list = 1 .. Len(list)
                             /\ \A i \in 1 .. Len(list) : list[i] \in ItemSet
  BY DEF ItemList
<1>3. \A item \in ItemSet : item.msg \in Nat
  BY DEF ItemSet
<1> QED
  BY <1>1, <1>2, <1>3

\* A header that fits speaks of items.
LEMMA FitsItems ==
  ASSUME TypeOK, NEW x \in Slice, Fits(x)
  PROVE  /\ x.array \in Nat /\ x.len \in Nat
         /\ \A i \in 1 .. x.len : /\ x.array \in 1 .. Len(heap) /\ i \in 1 .. Len(heap[x.array])
                                  /\ heap[x.array][i] \in ItemSet /\ heap[x.array][i].msg \in Nat
<1>1. x.array \in Nat /\ x.len \in Nat
  BY DEF Slice
<1>2. ASSUME NEW i \in 1 .. x.len
      PROVE  /\ x.array \in 1 .. Len(heap) /\ i \in 1 .. Len(heap[x.array])
  <2>1. x.array # 0
    BY <1>1 DEF Fits
  <2>2. x.array \in 1 .. Len(heap) /\ x.len <= Len(heap[x.array])
    BY <2>1 DEF Fits
  <2>3. Len(heap[x.array]) \in Nat
    BY <2>2, HeapPlaces
  <2> QED
    BY <1>1, <2>2, <2>3
<1> QED
  BY <1>1, <1>2, HeapPlaces

\* No array gets lost, or another size.
HeapKept == /\ heap' \in Seq(ItemList)
            /\ Len(heap) <= Len(heap')
            /\ \A a \in 1 .. Len(heap) : Len(heap'[a]) = Len(heap[a])

LEMMA FitsKept ==
  ASSUME TypeOK, HeapKept, NEW x \in Slice, Fits(x)
  PROVE  Fits(x)'
<1>1. Len(heap) \in Nat /\ Len(heap') \in Nat /\ Len(heap) <= Len(heap')
  BY HeapPlaces DEF HeapKept
<1>2. x.array # 0 => x.array \in 1 .. Len(heap) /\ x.len <= Len(heap'[x.array])
  BY DEF Fits, HeapKept
<1> QED
  BY <1>1, <1>2 DEF Fits

LEMMA HandlerFits ==
  ASSUME TypeOK, HeapKept, NEW h \in handlers
  PROVE  HandlerOK(h)'
<1>1. h.slice \in Slice /\ HandlerOK(h)
  BY DEF TypeOK, Handlers
<1>2. Fits(h.slice) => Fits(h.slice)'
  BY <1>1, FitsKept
<1> QED
  BY <1>1, <1>2 DEF HandlerOK

\* A handler goes on to g, or ends.
Becomes(h, g) == handlers' = (handlers \ {h}) \cup {g}

LEMMA MovesType ==
  ASSUME TypeOK, HeapKept, NEW h \in handlers, NEW g,
         Ends(h) \/ (Becomes(h, g) /\ g \in Handlers /\ HandlerOK(g)'),
         asked' \in Shown, torn' \in BOOLEAN, slices' \in [Section -> Slice],
         \A s \in Section : Fits(slices[s])',
         UNCHANGED <<messages, events>>
  PROVE  TypeOK'
<1>1. \A k \in handlers' : k \in handlers \/ (k = g /\ g \in Handlers /\ HandlerOK(g)')
  BY DEF Ends, Becomes
<1>2. \A k \in handlers' : k \in Handlers /\ HandlerOK(k)'
  BY <1>1, HandlerFits DEF TypeOK
<1> QED
  BY <1>2 DEF TypeOK, HeapKept

LEMMA HeapStays ==
  ASSUME TypeOK, UNCHANGED heap
  PROVE  HeapKept
BY HeapPlaces DEF TypeOK, HeapKept

-----------------------------------------------------------------------------
(* The inductive invariant. *)

\* The headers by which section s is, or is to be, appended to.
Owned(s) == {slices[s]} \cup {h.slice : h \in {g \in handlers : Appending(g) /\ g.section = s}}

Has(x, m) == \E i \in 1 .. x.len : heap[x.array][i].msg = m
OnceIn(x) == \A i, j \in 1 .. x.len : heap[x.array][i].msg = heap[x.array][j].msg => i = j

\* Two sections share no array and no message ...
Apart == \A s, t \in Section : s # t =>
           \A x \in Owned(s), y \in Owned(t) :
             /\ x.array = y.array => x.array = 0
             /\ \A m \in Nat : ~(Has(x, m) /\ Has(y, m))

\* ... which its one handler lists, and has not listed before.
PendingIsNew == \A h \in handlers : Pending(h) =>
                  \A s \in Section : \A x \in Owned(s) : ~Has(x, h.msg)
OnePending   == \A g, h \in handlers : Pending(g) /\ Pending(h) /\ g.msg = h.msg => g = h

\* Messages to come have not been listed.
ListedIsSent == /\ \A s \in Section : \A x \in Owned(s) : \A m \in Nat : Has(x, m) => m <= events
                /\ \A h \in handlers : Pending(h) => h.msg <= events

\* A redaction is at its item.
AtItem(h) == /\ h.place \in 1 .. slices[h.section].len
             /\ heap[slices[h.section].array][h.place].msg = h.msg
             /\ h.pc = "store" => h.slice = slices[h.section]

Intact == /\ up
          /\ \A s \in Section : \A x \in Owned(s) : OnceIn(x)
          /\ Apart /\ PendingIsNew /\ OnePending /\ ListedIsSent
          /\ \A h \in handlers : Removing(h) => AtItem(h)

OnceInv == TypeOK /\ (~torn => Intact)

\* What is owned is a header that fits.
LEMMA OwnedFits ==
  ASSUME TypeOK, NEW s \in Section, NEW x \in Owned(s)
  PROVE  x \in Slice /\ Fits(x)
<1>1. CASE x = slices[s]
  BY <1>1 DEF TypeOK
<1>2. CASE \E h \in handlers : Appending(h) /\ x = h.slice
  BY <1>2 DEF TypeOK, HandlerOK, Handlers, Appending
<1> QED
  BY <1>1, <1>2 DEF Owned

\* Places of the arrays keep their messages.
MsgsKept == \A a \in 1 .. Len(heap) : \A i \in 1 .. Len(heap[a]) : heap'[a][i].msg = heap[a][i].msg

\* y has the messages of x, in its array or in one that no other section has.
Copies(y, x) == /\ y.len = x.len
                /\ \A i \in 1 .. x.len : heap'[y.array][i].msg = heap[x.array][i].msg
                /\ y.array \in {x.array, Len(heap) + 1}

\* Steps of a handler that list nothing new.
LEMMA FilesNothing ==
  ASSUME OnceInv, TypeOK', MsgsKept, NEW h \in handlers, NEW g,
         Ends(h) \/ (Becomes(h, g) /\ g \in Handlers),
         g.msg = h.msg, Pending(g) => Pending(h),
         ~torn => /\ Appending(g) => \E x \in Owned(g.section) : Copies(g.slice, x)
                  /\ Removing(g) => g.section \in Section /\ AtItem(g),
         UNCHANGED <<slices, events, torn, up>>
  PROVE  OnceInv'
<1> SUFFICES ASSUME ~torn PROVE Intact'
  BY DEF OnceInv
<1>0. TypeOK /\ Intact
  BY DEF OnceInv
<1>1. \A k \in handlers' : k \in handlers \/ k = g
  BY DEF Ends, Becomes
<1>2. ASSUME NEW s \in Section, NEW y \in Owned(s)'
      PROVE  \E x \in Owned(s) : Copies(y, x) /\ (y.array = x.array \/ (Becomes(h, g) /\ s = g.section))
  <2>1. CASE y \in Owned(s)
    <3>1. y \in Slice /\ Fits(y)
      BY <1>0, <2>1, OwnedFits
    <3>2. Copies(y, y)
      BY <1>0, <3>1, FitsItems DEF Copies, MsgsKept
    <3> QED
      BY <2>1, <3>2
  <2>2. CASE y \notin Owned(s)
    <3>1. PICK k \in handlers' : Appending(k) /\ k.section = s /\ y = k.slice
      BY <2>2 DEF Owned, Appending
    <3>2. k = g /\ k \notin handlers
      BY <1>1, <2>2, <3>1 DEF Owned
    <3>3. Becomes(h, g)
      BY <3>2 DEF Ends
    <3> QED
      BY <3>1, <3>2, <3>3
  <2> QED
    BY <2>1, <2>2
<1>3. ASSUME NEW s \in Section, NEW y \in Owned(s)', NEW x \in Owned(s), Copies(y, x)
      PROVE  (\A m \in Nat : Has(y, m)' => Has(x, m)) /\ OnceIn(y)'
  <2>1. \A m : Has(y, m)' => Has(x, m)
    BY <1>3 DEF Has, Copies
  <2>2. OnceIn(y)'
    BY <1>0, <1>3 DEF Intact, OnceIn, Copies
  <2> QED
    BY <2>1, <2>2
<1>4. \A s \in Section : \A y \in Owned(s)' : OnceIn(y)'
  BY <1>2, <1>3
<1>5. Apart'
  <2> SUFFICES ASSUME NEW s \in Section, NEW t \in Section, s # t,
                      NEW y \in Owned(s)', NEW z \in Owned(t)'
               PROVE  /\ y.array = z.array => y.array = 0
                      /\ \A m \in Nat : ~(Has(y, m)' /\ Has(z, m)')
    BY DEF Apart
  <2>1. PICK x \in Owned(s) : Copies(y, x) /\ (y.array = x.array \/ (Becomes(h, g) /\ s = g.section))
    BY <1>2
  <2>2. PICK w \in Owned(t) : Copies(z, w) /\ (z.array = w.array \/ (Becomes(h, g) /\ t = g.section))
    BY <1>2
  <2>3. \A m \in Nat : (Has(y, m)' => Has(x, m)) /\ (Has(z, m)' => Has(w, m))
    BY <1>3, <2>1, <2>2
  <2>4. /\ x.array = w.array => x.array = 0
        /\ \A m \in Nat : ~(Has(x, m) /\ Has(w, m))
    BY <1>0 DEF Intact, Apart
  <2>5. /\ x.array \in Nat /\ w.array \in Nat /\ Len(heap) \in Nat
        /\ x.array <= Len(heap) /\ w.array <= Len(heap)
    <3>1. x \in Slice /\ Fits(x) /\ w \in Slice /\ Fits(w)
      BY <1>0, OwnedFits
    <3> QED
      BY <1>0, <3>1, HeapPlaces DEF Fits, Slice
  <2>6. y.array = z.array => y.array = 0
    <3>1. y.array \in {x.array, Len(heap) + 1} /\ z.array \in {w.array, Len(heap) + 1}
      BY <2>1, <2>2 DEF Copies
    <3> QED
      BY <2>1, <2>2, <2>4, <2>5, <3>1
  <2> QED
    BY <2>3, <2>4, <2>6
<1>6. PendingIsNew'
  <2> SUFFICES ASSUME NEW k \in handlers', Pending(k), NEW s \in Section, NEW y \in Owned(s)',
                      Has(y, k.msg)'
               PROVE  FALSE
    BY DEF PendingIsNew, Pending
  <2>1. PICK x \in Owned(s) : Copies(y, x)
    BY <1>2
  <2>2. k.msg \in Nat
    BY DEF TypeOK, Handlers
  <2>3. Has(x, k.msg)
    BY <1>3, <2>1, <2>2
  <2>4. PICK j \in handlers : Pending(j) /\ j.msg = k.msg
    BY <1>1
  <2> QED
    BY <1>0, <2>3, <2>4 DEF Intact, PendingIsNew
<1>7. OnePending'
  <2> SUFFICES ASSUME NEW j \in handlers', NEW k \in handlers', Pending(j), Pending(k),
                      j.msg = k.msg
               PROVE  j = k
    BY DEF OnePending, Pending
  <2>1. j \in handlers \ {h} \/ j = g
    BY DEF Ends, Becomes
  <2>2. k \in handlers \ {h} \/ k = g
    BY DEF Ends, Becomes
  <2> QED
    BY <1>0, <2>1, <2>2 DEF Intact, OnePending
<1>8. ListedIsSent'
  <2>1. \A s \in Section : \A y \in Owned(s)' : \A m \in Nat : Has(y, m)' => m <= events
    <3> SUFFICES ASSUME NEW s \in Section, NEW y \in Owned(s)', NEW m \in Nat, Has(y, m)'
                 PROVE  m <= events
      OBVIOUS
    <3>1. PICK x \in Owned(s) : Copies(y, x)
      BY <1>2
    <3>2. Has(x, m)
      BY <1>3, <3>1
    <3> QED
      BY <1>0, <3>2 DEF Intact, ListedIsSent
  <2>2. \A k \in handlers' : Pending(k) => k.msg <= events
    BY <1>0, <1>1 DEF Intact, ListedIsSent
  <2> QED
    BY <2>1, <2>2 DEF ListedIsSent, Pending
<1>9. ASSUME NEW k \in handlers', Removing(k) PROVE AtItem(k)'
  <2>1. k.section \in Section /\ AtItem(k)
    BY <1>0, <1>1, <1>9 DEF Intact, TypeOK, HandlerOK, Removing
  <2>2. slices[k.section] \in Slice /\ Fits(slices[k.section])
    BY <1>0, <2>1 DEF TypeOK
  <2> QED
    BY <1>0, <2>1, <2>2, FitsItems DEF AtItem, MsgsKept
<1>10. up' /\ \A k \in handlers' : Removing(k)' => AtItem(k)'
  BY <1>0, <1>9 DEF Intact, Removing
<1> QED
  BY <1>4, <1>5, <1>6, <1>7, <1>8, <1>10 DEF Intact

\* The cell of an array that an append writes, and the others.
LEMMA AppendCells ==
  ASSUME TypeOK, NEW h \in handlers, AppendItem(h)
  PROVE  LET x == h.slice
             a == x.array
         IN /\ h.kind = "message" /\ h.pc = "store" /\ h.section \in Section
            /\ x \in Slice /\ Fits(x) /\ a \in 1 .. Len(heap) /\ x.len \in Nat
            /\ x.len < Len(heap[a])
            /\ slices' = [slices EXCEPT ![h.section] = [array |-> a, len |-> x.len + 1]]
            /\ DOMAIN heap' = DOMAIN heap
            /\ heap'[a][x.len + 1] = Item(h.msg, h.id)
            /\ \A i \in 1 .. Len(heap[a]) : i # x.len + 1 => heap'[a][i] = heap[a][i]
            /\ \A b \in 1 .. Len(heap) : b # a => heap'[b] = heap[b]
            /\ HeapKept
<1> DEFINE x == h.slice
           a == x.array
           cell == Item(h.msg, h.id)
           new == [heap[a] EXCEPT ![x.len + 1] = cell]
<1>1. h.kind = "message" /\ h.pc = "store" /\ x.len < Cap(x)
  BY DEF AppendItem, At
<1>2. h.section \in Section /\ x \in Slice /\ Fits(x) /\ h.msg \in Nat /\ h.id \in Nat
  BY <1>1 DEF TypeOK, HandlerOK, Handlers
<1>3. x.array \in Nat /\ x.len \in Nat /\ x = [array |-> a, len |-> x.len]
  BY <1>2 DEF Slice
<1>4. a # 0 /\ a \in 1 .. Len(heap) /\ x.len < Len(heap[a])
  BY <1>1, <1>2, <1>3 DEF Cap, Fits
<1>5. [x EXCEPT !.len = @ + 1] = [array |-> a, len |-> x.len + 1]
  BY <1>3
<1>6. slices' = [slices EXCEPT ![h.section] = [array |-> a, len |-> x.len + 1]]
      /\ heap' = [heap EXCEPT ![a][x.len + 1] = cell]
  BY <1>5 DEF AppendItem
<1>7. heap' = [heap EXCEPT ![a] = new]
  BY <1>6
<1>8. /\ heap \in Seq(ItemList) /\ DOMAIN heap = 1 .. Len(heap) /\ Len(heap) \in Nat
      /\ heap[a] \in ItemList /\ Len(heap[a]) \in Nat /\ DOMAIN heap[a] = 1 .. Len(heap[a])
  BY <1>4, HeapPlaces DEF TypeOK
<1>9. cell \in ItemSet /\ x.len + 1 \in 1 .. Len(heap[a])
  BY <1>2, <1>3, <1>4, <1>8 DEF Item, ItemSet
<1> HIDE DEF x, a, cell
<1>10. /\ new \in ItemList /\ Len(new) = Len(heap[a]) /\ new[x.len + 1] = cell
       /\ \A i \in 1 .. Len(heap[a]) : i # x.len + 1 => new[i] = heap[a][i]
  BY <1>8, <1>9, ExceptSeq DEF ItemList
<1> HIDE DEF new
<1>11. /\ heap' \in Seq(ItemList) /\ Len(heap') = Len(heap) /\ DOMAIN heap' = DOMAIN heap
       /\ heap'[a] = new /\ \A b \in 1 .. Len(heap) : b # a => heap'[b] = heap[b]
  BY <1>4, <1>7, <1>8, <1>10, ExceptSeq
<1>12. HeapKept
  BY <1>8, <1>10, <1>11 DEF HeapKept
<1> QED
  BY <1>1, <1>2, <1>3, <1>4, <1>6, <1>10, <1>11, <1>12 DEF x, a, cell

LEMMA AppendType ==
  ASSUME TypeOK, NEW h \in handlers, AppendItem(h)
  PROVE  /\ TypeOK'
         /\ \E g \in Handlers : /\ Becomes(h, g) /\ g.msg = h.msg /\ g.kind = "message" /\ g.pc = "mark"
                                /\ g.section = h.section
<1> DEFINE x == h.slice
           new == [array |-> x.array, len |-> x.len + 1]
<1>1. /\ h.kind = "message" /\ h.pc = "store" /\ h.section \in Section
      /\ x.array \in 1 .. Len(heap) /\ x.len \in Nat /\ x.len < Len(heap[x.array])
      /\ slices' = [slices EXCEPT ![h.section] = new] /\ HeapKept
  BY AppendCells
<1>2. PICK g : g = [h EXCEPT !.pc = "mark"]
  OBVIOUS
<1>3. /\ g \in Handlers /\ g.pc = "mark" /\ g.msg = h.msg /\ g.kind = "message"
      /\ g.section = h.section
  BY <1>1, <1>2 DEF TypeOK, Handlers, Step
<1>4. Becomes(h, g) /\ HandlerOK(g)'
  BY <1>2, <1>3 DEF AppendItem, Goes, Becomes, HandlerOK
<1>5. Len(heap) \in Nat /\ Len(heap[x.array]) \in Nat
  BY <1>1, HeapPlaces
<1>6. new \in Slice /\ Fits(new)
  BY <1>1, <1>5 DEF Slice, Fits
<1> HIDE DEF new
<1>7. slices' \in [Section -> Slice]
  BY <1>1, <1>6 DEF TypeOK
<1>8. \A s \in Section : Fits(slices[s])'
  <2> TAKE s \in Section
  <2>1. slices'[s] \in Slice /\ Fits(slices'[s])
    BY <1>1, <1>6 DEF TypeOK
  <2>2. ASSUME NEW y \in Slice, Fits(y) PROVE Fits(y)'
    BY <1>1, <2>2, FitsKept
  <2>3. PICK y \in Slice : y = slices'[s] /\ Fits(y)
    BY <2>1
  <2>4. Fits(y)'
    BY <2>2, <2>3
  <2> QED
    BY <2>3, <2>4 DEF Fits
<1>9. asked' \in Shown /\ torn' \in BOOLEAN /\ UNCHANGED <<messages, events>>
  BY DEF AppendItem, TypeOK, roomVars, countVars
<1>10. TypeOK'
  BY <1>1, <1>3, <1>4, <1>7, <1>8, <1>9, MovesType
<1> QED
  BY <1>3, <1>4, <1>10

\* A message is listed behind the header that its handler has loaded.
LEMMA Appends ==
  ASSUME OnceInv, NEW h \in handlers, AppendItem(h)
  PROVE  OnceInv'
<1>0. TypeOK /\ TypeOK'
  BY AppendType DEF OnceInv
<1> SUFFICES ASSUME ~torn' PROVE Intact'
  BY <1>0 DEF OnceInv
<1>1. ~torn /\ ~Tears(h) /\ Intact
  BY <1>0 DEF AppendItem, OnceInv, TypeOK
<1> DEFINE x == h.slice
           new == [array |-> x.array, len |-> x.len + 1]
<1>2. /\ h.kind = "message" /\ h.pc = "store" /\ h.section \in Section
      /\ x \in Slice /\ Fits(x) /\ x.array \in 1 .. Len(heap) /\ x.len \in Nat
      /\ x.len < Len(heap[x.array])
      /\ slices' = [slices EXCEPT ![h.section] = new]
      /\ heap'[x.array][x.len + 1] = Item(h.msg, h.id)
      /\ \A i \in 1 .. Len(heap[x.array]) : i # x.len + 1 => heap'[x.array][i] = heap[x.array][i]
      /\ \A b \in 1 .. Len(heap) : b # x.array => heap'[b] = heap[b]
  BY <1>0, AppendCells
<1>3. PICK g \in Handlers : /\ Becomes(h, g) /\ g.msg = h.msg /\ g.kind = "message" /\ g.pc = "mark"
                            /\ g.section = h.section
  BY <1>0, AppendType
<1>4. \A k \in handlers' : k \in handlers \ {h} \/ k = g
  BY <1>3 DEF Becomes
<1>5. UNCHANGED <<events, up>> /\ Item(h.msg, h.id).msg = h.msg
  BY DEF AppendItem, countVars, Item
<1>6. x \in Owned(h.section) /\ Pending(h) /\ h.msg \in Nat
  BY <1>0, <1>2 DEF Owned, Appending, Pending, TypeOK, Handlers
<1>7. new.array = x.array /\ new.len = x.len + 1
  OBVIOUS
<1> HIDE DEF new
<1>8. ASSUME NEW s \in Section, NEW y \in Owned(s)'
      PROVE  y \in Owned(s) \/ (s = h.section /\ y = new)
  <2>1. CASE y = slices'[s]
    BY <1>0, <1>2, <2>1 DEF Owned, TypeOK
  <2>2. CASE \E k \in handlers' : Appending(k) /\ k.section = s /\ y = k.slice
    BY <1>3, <1>4, <2>2 DEF Owned, Appending
  <2> QED
    BY <2>1, <2>2 DEF Owned, Appending
<1>9. ASSUME NEW s \in Section, NEW y \in Owned(s)
      PROVE  /\ s # h.section => \A i \in 1 .. y.len : heap'[y.array][i] = heap[y.array][i]
             /\ \A i \in 1 .. y.len :
                  \/ heap'[y.array][i] = heap[y.array][i]
                  \/ heap'[y.array][i].msg = h.msg /\ y.array = x.array /\ i = x.len + 1
  <2>1. y \in Slice /\ Fits(y)
    BY <1>0, OwnedFits
  <2>2. \A i \in 1 .. y.len : y.array \in 1 .. Len(heap) /\ i \in 1 .. Len(heap[y.array])
    BY <1>0, <2>1, FitsItems
  <2>3. s # h.section => y.array # x.array \/ y.array = 0
    BY <1>1, <1>6, <1>2 DEF Intact, Apart
  <2>4. \A i \in 1 .. y.len : y.array # 0
    BY <2>2
  <2>5. \A i \in 1 .. y.len : y.array # x.array => heap'[y.array][i] = heap[y.array][i]
    BY <1>2, <2>2
  <2>6. \A i \in 1 .. y.len : y.array = x.array /\ i # x.len + 1 => heap'[y.array][i] = heap[y.array][i]
    BY <1>2, <2>2
  <2>7. \A i \in 1 .. y.len : y.array = x.array /\ i = x.len + 1 => heap'[y.array][i].msg = h.msg
    BY <1>2, <1>5
  <2> QED
    BY <2>3, <2>4, <2>5, <2>6, <2>7
<1>10. \A s \in Section : \A y \in Owned(s) : ~Has(y, h.msg)
  BY <1>1, <1>6 DEF Intact, PendingIsNew
<1>11. ASSUME NEW i \in 1 .. x.len
       PROVE  heap'[x.array][i] = heap[x.array][i] /\ heap[x.array][i].msg # h.msg
  <2>1. i # x.len + 1 /\ i \in 1 .. Len(heap[x.array])
    BY <1>0, <1>2, FitsItems
  <2>2. ~Has(x, h.msg)
    BY <1>2, <1>6, <1>10
  <2> QED
    BY <1>2, <2>1, <2>2 DEF Has
<1>12. ASSUME NEW s \in Section, NEW y \in Owned(s)', NEW m \in Nat, Has(y, m)'
       PROVE  \/ \E z \in Owned(s) : /\ Has(z, m)
                                     /\ y.array = z.array
              \/ s = h.section /\ m = h.msg
  <2>1. PICK i \in 1 .. y.len : heap'[y.array][i].msg = m
    BY <1>12 DEF Has
  <2>2. CASE y \in Owned(s)
    <3>1. \/ heap'[y.array][i] = heap[y.array][i]
          \/ s = h.section /\ m = h.msg
      BY <1>9, <2>1, <2>2
    <3>2. heap'[y.array][i] = heap[y.array][i] => Has(y, m)
      BY <2>1 DEF Has
    <3> QED
      BY <2>2, <3>1, <3>2
  <2>3. CASE s = h.section /\ y = new
    <3>1. i \in 1 .. x.len \/ i = x.len + 1
      BY <1>2, <1>7, <2>1, <2>3
    <3>2. i = x.len + 1 => m = h.msg
      BY <1>2, <1>5, <1>7, <2>1, <2>3
    <3>3. i \in 1 .. x.len => Has(x, m)
      BY <1>7, <1>11, <2>1, <2>3 DEF Has
    <3> QED
      BY <1>6, <1>7, <2>3, <3>1, <3>2, <3>3
  <2> QED
    BY <1>8, <2>2, <2>3
<1>13. ASSUME NEW s \in Section, NEW y \in Owned(s)' PROVE OnceIn(y)'
  <2> SUFFICES ASSUME NEW i \in 1 .. y.len, NEW j \in 1 .. y.len,
                      heap'[y.array][i].msg = heap'[y.array][j].msg
               PROVE  i = j
    BY DEF OnceIn
  <2>1. CASE y \in Owned(s)
    <3>1. OnceIn(y) /\ ~Has(y, h.msg)
      BY <1>1, <1>10, <2>1 DEF Intact
    <3>2. \A k \in 1 .. y.len : heap[y.array][k].msg # h.msg
      BY <3>1 DEF Has
    <3>3. \/ heap'[y.array][i] = heap[y.array][i]
          \/ heap'[y.array][i].msg = h.msg /\ i = x.len + 1
      BY <1>9, <2>1
    <3>4. \/ heap'[y.array][j] = heap[y.array][j]
          \/ heap'[y.array][j].msg = h.msg /\ j = x.len + 1
      BY <1>9, <2>1
    <3> QED
      BY <3>1, <3>2, <3>3, <3>4 DEF OnceIn
  <2>2. CASE s = h.section /\ y = new
    <3>1. OnceIn(x)
      BY <1>1, <1>2, <1>6 DEF Intact
    <3>2. /\ i \in 1 .. x.len \/ i = x.len + 1
          /\ j \in 1 .. x.len \/ j = x.len + 1
      BY <1>2, <1>7, <2>2
    <3>3. heap'[x.array][x.len + 1].msg = h.msg
      BY <1>2, <1>5
    <3> QED
      BY <1>7, <1>11, <2>2, <3>1, <3>2, <3>3 DEF OnceIn
  <2> QED
    BY <1>8, <2>1, <2>2
<1>14. Apart'
  <2> SUFFICES ASSUME NEW s \in Section, NEW t \in Section, s # t,
                      NEW y \in Owned(s)', NEW z \in Owned(t)'
               PROVE  /\ y.array = z.array => y.array = 0
                      /\ \A m \in Nat : ~(Has(y, m)' /\ Has(z, m)')
    BY DEF Apart
  <2>1. PICK v \in Owned(s) : v.array = y.array
    BY <1>6, <1>7, <1>8
  <2>2. PICK w \in Owned(t) : w.array = z.array
    BY <1>6, <1>7, <1>8
  <2>3. y.array = z.array => y.array = 0
    BY <1>1, <2>1, <2>2 DEF Intact, Apart
  <2>4. ASSUME NEW m \in Nat, Has(y, m)', Has(z, m)' PROVE FALSE
    <3>1. (\E v1 \in Owned(s) : Has(v1, m)) \/ (s = h.section /\ m = h.msg)
      BY <1>12, <2>4
    <3>2. (\E w1 \in Owned(t) : Has(w1, m)) \/ (t = h.section /\ m = h.msg)
      BY <1>12, <2>4
    <3> QED
      BY <1>1, <1>10, <3>1, <3>2 DEF Intact, Apart
  <2> QED
    BY <2>3, <2>4
<1>15. ASSUME NEW k \in handlers', Pending(k) PROVE k \in handlers /\ k.msg # h.msg /\ k.msg \in Nat
  <2>1. k \in handlers \ {h}
    BY <1>3, <1>4, <1>15 DEF Pending
  <2>2. k.msg \in Nat
    BY <1>0, <2>1 DEF TypeOK, Handlers
  <2> QED
    BY <1>1, <1>6, <1>15, <2>1, <2>2 DEF Intact, OnePending
<1>16. PendingIsNew'
  <2> SUFFICES ASSUME NEW k \in handlers', Pending(k), NEW s \in Section, NEW y \in Owned(s)',
                      Has(y, k.msg)'
               PROVE  FALSE
    BY DEF PendingIsNew, Pending
  <2>1. k \in handlers /\ k.msg # h.msg /\ k.msg \in Nat
    BY <1>15
  <2>2. \E z \in Owned(s) : Has(z, k.msg)
    BY <1>12, <2>1
  <2> QED
    BY <1>1, <2>1, <2>2 DEF Intact, PendingIsNew
<1>17. OnePending'
  BY <1>1, <1>15 DEF Intact, OnePending, Pending
<1>18. ListedIsSent'
  <2>1. h.msg <= events
    BY <1>1, <1>6 DEF Intact, ListedIsSent
  <2>2. \A s \in Section : \A y \in Owned(s)' : \A m \in Nat : Has(y, m)' => m <= events
    BY <1>1, <1>12, <2>1 DEF Intact, ListedIsSent
  <2>3. \A k \in handlers' : Pending(k)' => k.msg <= events
    BY <1>1, <1>15 DEF Intact, ListedIsSent, Pending
  <2> QED
    BY <1>5, <2>2, <2>3 DEF ListedIsSent
<1>19. ASSUME NEW k \in handlers', Removing(k) PROVE AtItem(k)'
  <2>1. k \in handlers \ {h} /\ AtItem(k) /\ k.section \in Section
    BY <1>0, <1>1, <1>3, <1>4, <1>19 DEF Intact, Removing, TypeOK, HandlerOK
  <2>2. k.section # h.section
    BY <1>1, <1>19, <2>1 DEF Tears, Holds, Removing
  <2>3. slices'[k.section] = slices[k.section] /\ slices[k.section] \in Owned(k.section)
    BY <1>0, <1>2, <2>1, <2>2 DEF TypeOK, Owned
  <2>4. heap'[slices[k.section].array][k.place] = heap[slices[k.section].array][k.place]
    BY <1>9, <2>1, <2>2, <2>3 DEF AtItem
  <2> QED
    BY <2>1, <2>3, <2>4 DEF AtItem
<1>20. up' /\ \A k \in handlers' : Removing(k)' => AtItem(k)'
  BY <1>1, <1>5, <1>19 DEF Intact, Removing
<1> QED
  BY <1>13, <1>14, <1>16, <1>17, <1>18, <1>20 DEF Intact

\* Where an item was before the n-th one was removed.
Old(i, n) == IF i < n THEN i ELSE i + 1

\* The array and the header that a removal leaves behind.
LEMMA RemoveCells ==
  ASSUME TypeOK, NEW h \in handlers, RemoveItem(h)
  PROVE  LET x == h.slice
             a == x.array
         IN /\ h.kind = "redaction" /\ h.pc = "store" /\ h.section \in Section
            /\ x \in Slice /\ Fits(x) /\ a \in 1 .. Len(heap) /\ x.len \in Nat \ {0}
            /\ h.place \in 1 .. x.len
            /\ slices' = [slices EXCEPT ![h.section] = [array |-> a, len |-> x.len - 1]]
            /\ \A i \in 1 .. x.len - 1 : /\ heap'[a][i] = heap[a][Old(i, h.place)]
                                         /\ Old(i, h.place) \in 1 .. x.len
            /\ \A b \in 1 .. Len(heap) : b # a => heap'[b] = heap[b]
            /\ HeapKept
<1> DEFINE x == h.slice
           a == x.array
           n == h.place
           new == [i \in DOMAIN heap[a] |->
                     IF i \in n .. x.len - 1 THEN heap[a][i + 1] ELSE heap[a][i]]
<1>1. h.kind = "redaction" /\ h.pc = "store"
  BY DEF RemoveItem, At
<1>2. h.section \in Section /\ x \in Slice /\ Fits(x) /\ n \in 1 .. x.len
  BY <1>1 DEF TypeOK, HandlerOK, Handlers
<1>3. x.array \in Nat /\ x.len \in Nat /\ x = [array |-> a, len |-> x.len]
  BY <1>2 DEF Slice
<1>4. a # 0 /\ a \in 1 .. Len(heap) /\ x.len <= Len(heap[a]) /\ x.len # 0
  BY <1>2, <1>3 DEF Fits
<1>5. [x EXCEPT !.len = @ - 1] = [array |-> a, len |-> x.len - 1]
  BY <1>3
<1>6. slices' = [slices EXCEPT ![h.section] = [array |-> a, len |-> x.len - 1]]
      /\ heap' = [heap EXCEPT ![a] = new]
  BY <1>5 DEF RemoveItem
<1>8. /\ heap \in Seq(ItemList) /\ DOMAIN heap = 1 .. Len(heap) /\ Len(heap) \in Nat
      /\ heap[a] \in ItemList /\ Len(heap[a]) \in Nat /\ DOMAIN heap[a] = 1 .. Len(heap[a])
      /\ \A i \in 1 .. Len(heap[a]) : heap[a][i] \in ItemSet
  BY <1>4, HeapPlaces DEF TypeOK
<1>9. new \in ItemList /\ Len(new) = Len(heap[a])
  <2>1. \A i \in 1 .. Len(heap[a]) : i \in n .. x.len - 1 => i + 1 \in 1 .. Len(heap[a])
    BY <1>2, <1>3, <1>4, <1>8
  <2>2. new \in [1 .. Len(heap[a]) -> ItemSet]
    BY <1>8, <2>1
  <2> HIDE DEF new
  <2>3. new \in Seq(ItemSet)
    BY <1>8, <2>2, SeqDef
  <2> QED
    BY <1>8, <2>2, <2>3, LenProperties DEF ItemList
<1>10. \A i \in 1 .. x.len - 1 : new[i] = heap[a][Old(i, n)] /\ Old(i, n) \in 1 .. x.len
  <2> SUFFICES ASSUME NEW i \in 1 .. x.len - 1
               PROVE  new[i] = heap[a][Old(i, n)] /\ Old(i, n) \in 1 .. x.len
    OBVIOUS
  <2>1. i \in DOMAIN heap[a] /\ (i \in n .. x.len - 1 <=> ~(i < n))
    BY <1>2, <1>3, <1>4, <1>8
  <2>2. Old(i, n) \in 1 .. x.len
    BY <1>2, <1>3 DEF Old
  <2> QED
    BY <2>1, <2>2 DEF Old
<1> HIDE DEF x, a, n, new
<1>11. /\ heap' \in Seq(ItemList) /\ Len(heap') = Len(heap)
       /\ heap'[a] = new /\ \A b \in 1 .. Len(heap) : b # a => heap'[b] = heap[b]
  BY <1>4, <1>6, <1>8, <1>9, ExceptSeq
<1>12. HeapKept
  BY <1>8, <1>9, <1>11 DEF HeapKept
<1> QED
  BY <1>1, <1>2, <1>3, <1>4, <1>6, <1>10, <1>11, <1>12 DEF x, a, n

LEMMA RemoveType ==
  ASSUME TypeOK, NEW h \in handlers, RemoveItem(h)
  PROVE  TypeOK'
<1> DEFINE x == h.slice
           new == [array |-> x.array, len |-> x.len - 1]
<1>1. /\ h.section \in Section /\ Fits(x)
      /\ x.array \in 1 .. Len(heap) /\ x.len \in Nat \ {0}
      /\ slices' = [slices EXCEPT ![h.section] = new] /\ HeapKept
  BY RemoveCells
<1>2. Len(heap) \in Nat /\ Len(heap[x.array]) \in Nat
  BY <1>1, HeapPlaces
<1>3. x.array # 0 /\ x.len <= Len(heap[x.array])
  BY <1>1, <1>2 DEF Fits
<1>4. new \in Slice /\ Fits(new)
  BY <1>1, <1>2, <1>3 DEF Slice, Fits
<1> HIDE DEF new
<1>5. slices' \in [Section -> Slice]
  BY <1>1, <1>4 DEF TypeOK
<1>6. \A s \in Section : Fits(slices[s])'
  <2> TAKE s \in Section
  <2>1. slices'[s] \in Slice /\ Fits(slices'[s])
    BY <1>1, <1>4 DEF TypeOK
  <2>2. ASSUME NEW y \in Slice, Fits(y) PROVE Fits(y)'
    BY <1>1, <2>2, FitsKept
  <2>3. PICK y \in Slice : y = slices'[s] /\ Fits(y)
    BY <2>1
  <2>4. Fits(y)'
    BY <2>2, <2>3
  <2> QED
    BY <2>3, <2>4 DEF Fits
<1>7. asked' \in Shown /\ torn' \in BOOLEAN /\ UNCHANGED <<messages, events>> /\ Ends(h)
  BY DEF RemoveItem, TypeOK, roomVars, countVars
<1> QED
  BY <1>1, <1>5, <1>6, <1>7, MovesType

\* A removal that nobody else stores over leaves what was there, but for its item.
LEMMA Removes ==
  ASSUME OnceInv, NEW h \in handlers, RemoveItem(h)
  PROVE  OnceInv'
<1>0. TypeOK /\ TypeOK'
  BY RemoveType DEF OnceInv
<1> SUFFICES ASSUME ~torn' PROVE Intact'
  BY <1>0 DEF OnceInv
<1>1. ~torn /\ ~Tears(h) /\ Intact
  BY <1>0 DEF RemoveItem, OnceInv, TypeOK
<1> DEFINE x == h.slice
           n == h.place
           new == [array |-> x.array, len |-> x.len - 1]
<1>2. /\ h.kind = "redaction" /\ h.pc = "store" /\ h.section \in Section
      /\ x.array \in 1 .. Len(heap) /\ x.len \in Nat \ {0} /\ n \in 1 .. x.len
      /\ slices' = [slices EXCEPT ![h.section] = new]
      /\ \A i \in 1 .. x.len - 1 : /\ heap'[x.array][i] = heap[x.array][Old(i, n)]
                                   /\ Old(i, n) \in 1 .. x.len
      /\ \A b \in 1 .. Len(heap) : b # x.array => heap'[b] = heap[b]
  BY <1>0, RemoveCells
<1>3. handlers' = handlers \ {h} /\ UNCHANGED <<events, up>>
  BY DEF RemoveItem, Ends, countVars
<1>4. x = slices[h.section] /\ x \in Owned(h.section) /\ OnceIn(x)
  BY <1>1, <1>2 DEF Intact, Removing, AtItem, Owned
<1>5. new.array = x.array /\ new.len = x.len - 1
  OBVIOUS
<1> HIDE DEF new
<1>6. ASSUME NEW s \in Section, NEW y \in Owned(s)'
      PROVE  IF s = h.section THEN y = new ELSE y \in Owned(s)
  <2>1. \A k \in handlers' : ~(Appending(k) /\ k.section = h.section)
    BY <1>1, <1>2, <1>3 DEF Tears, Holds, Appending
  <2>2. slices'[s] = IF s = h.section THEN new ELSE slices[s]
    BY <1>0, <1>2 DEF TypeOK
  <2>3. y = slices'[s] \/ \E k \in handlers' : Appending(k) /\ k.section = s /\ y = k.slice
    BY DEF Owned, Appending
  <2> QED
    BY <1>3, <2>1, <2>2, <2>3 DEF Owned
<1>7. ASSUME NEW s \in Section, s # h.section, NEW y \in Owned(s)
      PROVE  /\ \A i \in 1 .. y.len : heap'[y.array][i] = heap[y.array][i]
             /\ y.array # 0 => y.array # x.array
  <2>1. y \in Slice /\ Fits(y)
    BY <1>0, OwnedFits
  <2>2. \A i \in 1 .. y.len : y.array \in 1 .. Len(heap) /\ y.array # 0
    BY <1>0, <2>1, FitsItems
  <2>3. y.array # 0 => y.array # x.array
    BY <1>1, <1>2, <1>4, <1>7 DEF Intact, Apart
  <2> QED
    BY <1>2, <2>2, <2>3
<1>8. \A m : Has(new, m)' => Has(x, m)
  BY <1>2, <1>5 DEF Has
<1>9. OnceIn(new)'
  <2> SUFFICES ASSUME NEW i \in 1 .. new.len, NEW j \in 1 .. new.len,
                      heap'[new.array][i].msg = heap'[new.array][j].msg
               PROVE  i = j
    BY DEF OnceIn
  <2>1. i \in 1 .. x.len - 1 /\ j \in 1 .. x.len - 1
    BY <1>5
  <2>2. /\ heap[x.array][Old(i, n)].msg = heap[x.array][Old(j, n)].msg
        /\ Old(i, n) \in 1 .. x.len /\ Old(j, n) \in 1 .. x.len
    BY <1>2, <1>5, <2>1
  <2>3. Old(i, n) = Old(j, n)
    BY <1>4, <2>2 DEF OnceIn
  <2> QED
    BY <1>2, <2>1, <2>3 DEF Old
<1>10. ASSUME NEW s \in Section, NEW y \in Owned(s)'
       PROVE  \E z \in Owned(s) : /\ z.array = y.array
                                  /\ \A m \in Nat : Has(y, m)' => Has(z, m)
  <2>1. CASE s = h.section
    <3>1. y = new
      BY <1>6, <2>1
    <3> QED
      BY <1>4, <1>5, <1>8, <2>1, <3>1
  <2>2. CASE s # h.section
    <3>1. y \in Owned(s) /\ \A m : Has(y, m)' => Has(y, m)
      BY <1>6, <1>7, <2>2 DEF Has
    <3> QED
      BY <3>1
  <2> QED
    BY <2>1, <2>2
<1>11. ASSUME NEW s \in Section, NEW y \in Owned(s)' PROVE OnceIn(y)'
  <2>1. CASE s = h.section
    BY <1>6, <1>9, <2>1
  <2>2. CASE s # h.section
    BY <1>1, <1>6, <1>7, <2>2 DEF Intact, OnceIn
  <2> QED
    BY <2>1, <2>2
<1>12. Apart'
  <2> SUFFICES ASSUME NEW s \in Section, NEW t \in Section, s # t,
                      NEW y \in Owned(s)', NEW z \in Owned(t)'
               PROVE  /\ y.array = z.array => y.array = 0
                      /\ \A m \in Nat : ~(Has(y, m)' /\ Has(z, m)')
    BY DEF Apart
  <2>1. PICK v \in Owned(s) : v.array = y.array /\ \A m \in Nat : Has(y, m)' => Has(v, m)
    BY <1>10
  <2>2. PICK w \in Owned(t) : w.array = z.array /\ \A m \in Nat : Has(z, m)' => Has(w, m)
    BY <1>10
  <2> QED
    BY <1>1, <2>1, <2>2 DEF Intact, Apart
<1>13. PendingIsNew'
  <2> SUFFICES ASSUME NEW k \in handlers', Pending(k), NEW s \in Section, NEW y \in Owned(s)',
                      Has(y, k.msg)'
               PROVE  FALSE
    BY DEF PendingIsNew, Pending
  <2>1. k \in handlers /\ k.msg \in Nat
    BY <1>0, <1>3 DEF TypeOK, Handlers
  <2>2. \E z \in Owned(s) : Has(z, k.msg)
    BY <1>10, <2>1
  <2> QED
    BY <1>1, <2>1, <2>2 DEF Intact, PendingIsNew
<1>14. OnePending'
  BY <1>1, <1>3 DEF Intact, OnePending, Pending
<1>15. ListedIsSent'
  <2>1. \A s \in Section : \A y \in Owned(s)' : \A m \in Nat : Has(y, m)' => m <= events
    <3> SUFFICES ASSUME NEW s \in Section, NEW y \in Owned(s)', NEW m \in Nat, Has(y, m)'
                 PROVE  m <= events
      OBVIOUS
    <3>1. \E z \in Owned(s) : Has(z, m)
      BY <1>10
    <3> QED
      BY <1>1, <3>1 DEF Intact, ListedIsSent
  <2>2. \A k \in handlers' : Pending(k)' => k.msg <= events
    BY <1>1, <1>3 DEF Intact, ListedIsSent, Pending
  <2> QED
    BY <1>3, <2>1, <2>2 DEF ListedIsSent
<1>16. ASSUME NEW k \in handlers', Removing(k) PROVE AtItem(k)'
  <2>1. k \in handlers \ {h} /\ AtItem(k) /\ k.section \in Section
    BY <1>0, <1>1, <1>3, <1>16 DEF Intact, Removing, TypeOK, HandlerOK
  <2>2. k.section # h.section
    BY <1>1, <1>16, <2>1 DEF Tears, Holds, Removing
  <2>3. slices'[k.section] = slices[k.section] /\ slices[k.section] \in Owned(k.section)
    BY <1>0, <1>2, <2>1, <2>2 DEF TypeOK, Owned
  <2>4. heap'[slices[k.section].array][k.place] = heap[slices[k.section].array][k.place]
    BY <1>7, <2>1, <2>2, <2>3 DEF AtItem
  <2> QED
    BY <2>1, <2>3, <2>4 DEF AtItem
<1>17. up' /\ \A k \in handlers' : Removing(k)' => AtItem(k)'
  BY <1>1, <1>3, <1>16 DEF Intact, Removing
<1> QED
  BY <1>11, <1>12, <1>13, <1>14, <1>15, <1>17 DEF Intact

\* The user sends another event: nothing is listed, and its number is new.
LEMMA UserSends ==
  ASSUME OnceInv, NEW g \in Handlers, handlers' = handlers \cup {g},
         g.pc = "start", g.kind = "message" => g.msg = events + 1,
         messages' \in Seq(Message), events' = events + 1,
         UNCHANGED <<asked, slices, heap, up, torn>>
  PROVE  OnceInv'
<1>1. \A k \in handlers' : k \in handlers \/ k = g
  OBVIOUS
<1>2. TypeOK /\ HeapKept /\ HandlerOK(g)'
  BY HeapStays DEF OnceInv, HandlerOK
<1>3. events \in Nat /\ \A k \in handlers' : k \in Handlers /\ k.msg \in Nat /\ HandlerOK(k)'
  BY <1>1, <1>2, HandlerFits DEF TypeOK, Handlers
<1>4. TypeOK'
  BY <1>2, <1>3 DEF TypeOK, Fits
<1> SUFFICES ASSUME ~torn PROVE Intact'
  BY <1>4 DEF OnceInv
<1>5. Intact
  BY DEF OnceInv
<1>6. /\ \A s \in Section : Owned(s)' = Owned(s)
      /\ \A y, m : Has(y, m)' <=> Has(y, m)
      /\ \A y : OnceIn(y)' <=> OnceIn(y)
  BY <1>1 DEF Owned, Appending, Has, OnceIn
<1>7. Apart' /\ \A s \in Section : \A y \in Owned(s)' : OnceIn(y)'
  BY <1>5, <1>6 DEF Intact, Apart
<1>8. PendingIsNew'
  <2> SUFFICES ASSUME NEW k \in handlers', Pending(k), NEW s \in Section, NEW y \in Owned(s),
                      Has(y, k.msg)
               PROVE  FALSE
    BY <1>6 DEF PendingIsNew, Pending
  <2>1. CASE k \in handlers
    BY <1>5, <2>1 DEF Intact, PendingIsNew
  <2>2. CASE k = g
    <3>1. k.msg = events + 1
      BY <2>2 DEF Pending
    <3>2. k.msg <= events
      BY <1>3, <1>5 DEF Intact, ListedIsSent
    <3> QED
      BY <1>3, <3>1, <3>2
  <2> QED
    BY <1>1, <2>1, <2>2
<1>9. OnePending'
  <2> SUFFICES ASSUME NEW j \in handlers', NEW k \in handlers', Pending(j), Pending(k),
                      j.msg = k.msg
               PROVE  j = k
    BY DEF OnePending, Pending
  <2>1. \A l \in handlers : Pending(l) => l.msg # events + 1
    <3> TAKE l \in handlers
    <3>1. Pending(l) => l.msg <= events
      BY <1>5 DEF Intact, ListedIsSent
    <3>2. l.msg \in Nat
      BY <1>3
    <3> QED
      BY <1>3, <3>1, <3>2
  <2>2. Pending(g) => g.msg = events + 1
    BY DEF Pending
  <2> QED
    BY <1>1, <1>5, <2>1, <2>2 DEF Intact, OnePending
<1>10. ListedIsSent'
  <2>1. \A s \in Section : \A y \in Owned(s) : \A m \in Nat : Has(y, m) => m <= events + 1
    <3> TAKE s \in Section
    <3> TAKE y \in Owned(s)
    <3> TAKE m \in Nat
    <3>1. Has(y, m) => m <= events
      BY <1>5 DEF Intact, ListedIsSent
    <3> QED
      BY <1>3, <3>1
  <2>2. \A k \in handlers' : Pending(k)' => k.msg <= events + 1
    <3> TAKE k \in handlers'
    <3>1. k \in handlers /\ Pending(k) => k.msg <= events
      BY <1>5 DEF Intact, ListedIsSent
    <3>2. k = g /\ Pending(k) => k.msg = events + 1
      BY DEF Pending
    <3>3. k.msg \in Nat
      BY <1>3
    <3> QED
      BY <1>1, <1>3, <3>1, <3>2, <3>3 DEF Pending
  <2> QED
    BY <1>6, <2>1, <2>2 DEF ListedIsSent
<1>11. up' /\ \A k \in handlers' : Removing(k)' => AtItem(k)'
  BY <1>1, <1>5 DEF Intact, Removing, AtItem
<1> QED
  BY <1>7, <1>8, <1>9, <1>10, <1>11 DEF Intact

-----------------------------------------------------------------------------
(* The steps. *)

\* A handler that leaves the arrays and the headers alone.
LEMMA StaysIntact ==
  ASSUME OnceInv, NEW h \in handlers, NEW g,
         Ends(h) \/ (Becomes(h, g) /\ g \in Handlers /\ HandlerOK(g)),
         g.msg = h.msg, Pending(g) => Pending(h),
         ~torn => /\ Appending(g) => g.slice \in Owned(g.section)
                  /\ Removing(g) => g.section \in Section /\ AtItem(g),
         Appending(g) => g.section \in Section,
         asked' \in Shown, UNCHANGED <<slices, heap, messages, events, torn, up>>
  PROVE  OnceInv'
<1>1. TypeOK /\ HeapKept
  BY HeapStays DEF OnceInv
<1>2. HandlerOK(g) => HandlerOK(g)'
  BY DEF HandlerOK, Fits
<1>3. /\ slices' \in [Section -> Slice] /\ torn' \in BOOLEAN
      /\ \A s \in Section : Fits(slices[s])'
  BY <1>1 DEF TypeOK, Fits
<1>4. TypeOK'
  BY <1>1, <1>2, <1>3, MovesType
<1>5. \A x : Copies(x, x)
  BY DEF Copies
<1>6. MsgsKept
  BY DEF MsgsKept
<1> QED
  BY <1>4, <1>5, <1>6, FilesNothing

\* A handler that ends, or goes on to a step at which it has nothing to store.
LEMMA EndsKeeps ==
  ASSUME OnceInv, NEW h \in handlers, Ends(h), asked' \in Shown,
         UNCHANGED <<slices, heap, messages, events, torn, up>>
  PROVE  OnceInv'
<1>1. PICK g : g = [h EXCEPT !.pc = "mark"]
  OBVIOUS
<1>2. g.msg = h.msg /\ g.pc = "mark"
  BY <1>1 DEF OnceInv, TypeOK, Handlers
<1>3. ~Pending(g) /\ ~Appending(g) /\ ~Removing(g)
  BY <1>2 DEF Pending, Appending, Removing
<1> QED
  BY <1>2, <1>3, StaysIntact

LEMMA GoesKeeps ==
  ASSUME OnceInv, NEW h \in handlers, NEW g \in Handlers, Becomes(h, g),
         g.msg = h.msg, g.pc \notin {"start", "cut", "store"}, asked' \in Shown,
         UNCHANGED <<slices, heap, messages, events, torn, up>>
  PROVE  OnceInv'
<1>1. ~Pending(g) /\ ~Appending(g) /\ ~Removing(g) /\ HandlerOK(g)
  BY DEF Pending, Appending, Removing, HandlerOK
<1> QED
  BY <1>1, StaysIntact

\* A handler at another step, with another section, header or place.
LEMMA NextStep ==
  ASSUME NEW h \in Handlers, NEW pc, NEW s
  PROVE  /\ [h EXCEPT !.pc = pc].kind = h.kind /\ [h EXCEPT !.pc = pc].pc = pc
         /\ [h EXCEPT !.pc = pc].section = h.section
         /\ [h EXCEPT !.pc = pc].msg = h.msg
         /\ pc \in Step => [h EXCEPT !.pc = pc] \in Handlers
         /\ [h EXCEPT !.pc = pc, !.section = s].kind = h.kind
         /\ [h EXCEPT !.pc = pc, !.section = s].pc = pc
         /\ [h EXCEPT !.pc = pc, !.section = s].section = s
         /\ [h EXCEPT !.pc = pc, !.section = s].msg = h.msg
         /\ pc \in Step /\ s \in Shown => [h EXCEPT !.pc = pc, !.section = s] \in Handlers
BY DEF Handlers

LEMMA LoadedIs ==
  ASSUME NEW h \in handlers, h \in Handlers, NEW s \in Section, slices[s] \in Slice, Loaded(h, s)
  PROVE  \E g \in Handlers :
           /\ Becomes(h, g) /\ g.id = h.id /\ g.msg = h.msg /\ g.kind = h.kind
           /\ g.pc = "store" /\ g.section = s /\ g.slice = slices[s]
<1>1. PICK g : g = [h EXCEPT !.pc = "store", !.section = s, !.slice = slices[s]]
  OBVIOUS
<1>2. /\ g \in Handlers /\ g.id = h.id /\ g.msg = h.msg /\ g.kind = h.kind
      /\ g.pc = "store" /\ g.section = s /\ g.slice = slices[s]
  BY <1>1 DEF Handlers, Step, Shown
<1> QED
  BY <1>1, <1>2 DEF Loaded, Becomes

LEMMA FoundIs ==
  ASSUME NEW h \in handlers, h \in Handlers, NEW s \in Section, slices[s] \in Slice, NEW n \in Nat, Found(h, s, n)
  PROVE  \E g \in Handlers :
           /\ Becomes(h, g) /\ g.id = h.id /\ g.msg = h.msg /\ g.kind = h.kind
           /\ g.pc = (IF h.kind = "edit" THEN "store" ELSE "cut")
           /\ g.section = s /\ g.slice = slices[s] /\ g.place = n
<1>1. PICK pc \in {"store", "cut"} : pc = (IF h.kind = "edit" THEN "store" ELSE "cut")
  OBVIOUS
<1>2. PICK g : g = [h EXCEPT !.pc = pc, !.section = s, !.slice = slices[s], !.place = n]
  OBVIOUS
<1>3. /\ g \in Handlers /\ g.id = h.id /\ g.msg = h.msg /\ g.kind = h.kind
      /\ g.pc = pc /\ g.section = s /\ g.slice = slices[s] /\ g.place = n
  BY <1>2 DEF Handlers, Step, Shown
<1> QED
  BY <1>1, <1>2, <1>3 DEF Found, Becomes

\* The lists, as the headers and the arrays have them.
LEMMA ListsTyped ==
  ASSUME TypeOK
  PROVE  /\ lists \in [Section -> ItemList]
         /\ \A s \in Section :
              /\ DOMAIN lists[s] = 1 .. slices[s].len /\ Len(lists[s]) = slices[s].len
              /\ slices[s].len \in Nat
              /\ \A i \in 1 .. slices[s].len : lists[s][i] = heap[slices[s].array][i]
<1>1. ASSUME NEW s \in Section
      PROVE  /\ lists[s] = [i \in 1 .. slices[s].len |-> heap[slices[s].array][i]]
             /\ slices[s].len \in Nat
             /\ \A i \in 1 .. slices[s].len : heap[slices[s].array][i] \in ItemSet
  <2>1. slices[s] \in Slice /\ Fits(slices[s])
    BY DEF TypeOK
  <2>2. lists[s] = Items(slices[s])
    BY DEF lists
  <2> QED
    BY <2>1, <2>2, FitsItems DEF Items
<1>2. ASSUME NEW s \in Section
      PROVE  /\ lists[s] \in ItemList /\ DOMAIN lists[s] = 1 .. slices[s].len
             /\ Len(lists[s]) = slices[s].len
  <2>1. lists[s] \in [1 .. slices[s].len -> ItemSet]
    BY <1>1
  <2>2. lists[s] \in Seq(ItemSet)
    BY <1>1, <2>1, SeqDef
  <2>3. Len(lists[s]) \in Nat /\ DOMAIN lists[s] = 1 .. Len(lists[s])
    BY <2>2, LenProperties
  <2>4. 1 .. Len(lists[s]) = 1 .. slices[s].len
    BY <2>1, <2>3
  <2>5. Len(lists[s]) = slices[s].len
    BY <1>1, <2>3, <2>4, SameInterval
  <2> QED
    BY <2>1, <2>2, <2>5 DEF ItemList
<1>3. lists = [s \in Section |-> lists[s]]
  BY DEF lists
<1> QED
  BY <1>1, <1>2, <1>3

\* append, when there is no room for one more: the handler has a copy of its own.
LEMMA GrowCells ==
  ASSUME TypeOK, NEW h \in handlers, Grow(h)
  PROVE  /\ h.kind = "message" /\ h.pc = "store" /\ h.section \in Section
         /\ h.slice \in Slice /\ Fits(h.slice) /\ HeapKept
         /\ \A a \in 1 .. Len(heap) : heap'[a] = heap[a]
         /\ \E g \in Handlers :
              /\ Becomes(h, g) /\ g.id = h.id /\ g.msg = h.msg /\ g.kind = "message"
              /\ g.pc = "store" /\ g.section = h.section
              /\ g.slice = [array |-> Len(heap) + 1, len |-> h.slice.len]
              /\ Fits(g.slice)'
              /\ \A i \in 1 .. h.slice.len : heap'[Len(heap) + 1][i] = heap[h.slice.array][i]
<1> DEFINE x == h.slice
           n == Cap(x)
           m == IF n = 0 THEN 1 ELSE 2 * n
           copy == [i \in 1 .. m |-> IF i <= n THEN heap[x.array][i] ELSE Item(0, 0)]
           y == [array |-> Len(heap) + 1, len |-> x.len]
<1>1. h.kind = "message" /\ h.pc = "store" /\ x.len = n
  BY DEF Grow, At
<1>2. h.section \in Section /\ x \in Slice /\ Fits(x) /\ h \in Handlers
  BY <1>1 DEF TypeOK, HandlerOK, Handlers
<1>3. x.array \in Nat /\ x.len \in Nat /\ Len(heap) \in Nat /\ heap \in Seq(ItemList)
  BY <1>2, HeapPlaces DEF Slice, TypeOK
<1>4. n \in Nat /\ m \in Nat /\ n <= m /\ \A i \in 1 .. n : heap[x.array][i] \in ItemSet
  BY <1>1, <1>2, <1>3, FitsItems
<1>5. heap' = Append(heap, copy)
  BY DEF Grow
<1>6. copy \in ItemList /\ Len(copy) = m
  <2> HIDE DEF n, m
  <2>1. Item(0, 0) \in ItemSet
    BY DEF Item, ItemSet
  <2>2. copy \in [1 .. m -> ItemSet]
    BY <1>4, <2>1
  <2> HIDE DEF copy
  <2>3. copy \in Seq(ItemSet)
    BY <1>4, <2>2, SeqDef
  <2>4. Len(copy) \in Nat /\ DOMAIN copy = 1 .. Len(copy) /\ DOMAIN copy = 1 .. m
    BY <2>2, <2>3, LenProperties
  <2>5. Len(copy) = m
    BY <1>4, <2>4, SameInterval
  <2> QED
    BY <2>3, <2>5 DEF ItemList
<1>7. \A i \in 1 .. n : copy[i] = heap[x.array][i]
  BY <1>4
<1>8. PICK g : g = [h EXCEPT !.slice.array = Len(heap) + 1]
  OBVIOUS
<1>9. /\ g \in Handlers /\ g.id = h.id /\ g.msg = h.msg /\ g.kind = h.kind /\ g.pc = h.pc
      /\ g.section = h.section /\ g.slice = y
  BY <1>2, <1>3, <1>8 DEF Handlers, Slice
<1>10. Becomes(h, g)
  BY <1>8 DEF Grow, Becomes
<1> HIDE DEF copy, n, m
<1>11. /\ heap' \in Seq(ItemList) /\ Len(heap') = Len(heap) + 1
       /\ heap'[Len(heap) + 1] = copy
       /\ \A a \in 1 .. Len(heap) : heap'[a] = heap[a]
  BY <1>3, <1>5, <1>6, AppendProperties
<1>12. HeapKept
  <2>1. Len(heap) <= Len(heap')
    BY <1>3, <1>11
  <2>2. \A a \in 1 .. Len(heap) : Len(heap'[a]) = Len(heap[a])
    BY <1>11
  <2> QED
    BY <1>11, <2>1, <2>2 DEF HeapKept
<1>13. Fits(g.slice)'
  <2>1. Len(heap') = Len(heap) + 1 /\ Len(heap'[Len(heap) + 1]) = m
    BY <1>6, <1>11
  <2>2. Len(heap) + 1 \in 1 .. Len(heap') /\ Len(heap) + 1 # 0 /\ x.len <= m
    BY <1>1, <1>3, <1>4, <2>1
  <2>3. g.slice.array = Len(heap) + 1 /\ g.slice.len = x.len
    BY <1>9
  <2> QED
    BY <2>1, <2>2, <2>3 DEF Fits
<1> QED
  BY <1>1, <1>2, <1>7, <1>9, <1>10, <1>11, <1>12, <1>13

LEMMA Grows ==
  ASSUME OnceInv, NEW h \in handlers, Grow(h)
  PROVE  OnceInv'
<1>1. TypeOK /\ (~torn => Intact)
  BY DEF OnceInv
<1>2. /\ h.kind = "message" /\ h.pc = "store" /\ h.section \in Section
      /\ h.slice \in Slice /\ Fits(h.slice) /\ HeapKept
      /\ \A a \in 1 .. Len(heap) : heap'[a] = heap[a]
  BY <1>1, GrowCells
<1>3. PICK g \in Handlers :
        /\ Becomes(h, g) /\ g.id = h.id /\ g.msg = h.msg /\ g.kind = "message"
        /\ g.pc = "store" /\ g.section = h.section
        /\ g.slice = [array |-> Len(heap) + 1, len |-> h.slice.len]
        /\ Fits(g.slice)'
        /\ \A i \in 1 .. h.slice.len : heap'[Len(heap) + 1][i] = heap[h.slice.array][i]
  BY <1>1, GrowCells
<1>4. /\ UNCHANGED <<slices, events, torn, up, messages>> /\ asked' \in Shown
      /\ torn' \in BOOLEAN /\ slices' \in [Section -> Slice]
  BY <1>1 DEF Grow, roomVars, countVars, runVars, TypeOK
<1>5. HandlerOK(g)'
  BY <1>2, <1>3 DEF HandlerOK
<1>6. \A s \in Section : Fits(slices[s])'
  <2> TAKE s \in Section
  <2>1. PICK y \in Slice : y = slices[s] /\ Fits(y)
    BY <1>1 DEF TypeOK
  <2>2. Fits(y)'
    BY <1>1, <1>2, <2>1, FitsKept
  <2> QED
    BY <1>4, <2>1, <2>2 DEF Fits
<1>7. TypeOK'
  BY <1>1, <1>2, <1>3, <1>4, <1>5, <1>6, MovesType
<1>8. MsgsKept
  BY <1>2 DEF MsgsKept
<1>9. h.slice \in Owned(g.section) /\ Copies(g.slice, h.slice)
  BY <1>2, <1>3 DEF Owned, Appending, Copies
<1>10. ~Removing(g) /\ Pending(h)
  BY <1>2, <1>3 DEF Removing, Pending
<1> QED
  BY <1>3, <1>4, <1>7, <1>8, <1>9, <1>10, FilesNothing

\* HandleMessage loads a header, HandleEdit and HandleRedaction find an item.
LEMMA Loads ==
  ASSUME OnceInv, NEW h \in handlers, HandleMessage(h) \/ FindItem(h)
  PROVE  OnceInv'
<1>1. /\ TypeOK /\ h \in Handlers /\ asked' \in Shown
      /\ UNCHANGED <<slices, heap, messages, events, torn, up>>
  BY DEF OnceInv, TypeOK, HandleMessage, FindItem, flowVars, roomVars, countVars, runVars
<1>2. CASE Ends(h)
  BY <1>1, <1>2, EndsKeeps
<1>3. ASSUME h.kind = "message", h.pc = "start", NEW s \in Section, Loaded(h, s) PROVE OnceInv'
  <2>1. slices[s] \in Slice /\ Fits(slices[s])
    BY <1>1 DEF TypeOK
  <2>2. PICK g \in Handlers :
          /\ Becomes(h, g) /\ g.msg = h.msg /\ g.kind = h.kind
          /\ g.pc = "store" /\ g.section = s /\ g.slice = slices[s]
    BY <1>1, <1>3, <2>1, LoadedIs
  <2>3. HandlerOK(g) /\ Pending(h) /\ ~Removing(g) /\ g.slice \in Owned(g.section)
    BY <1>3, <2>1, <2>2 DEF HandlerOK, Pending, Removing, Owned
  <2> QED
    BY <1>1, <2>2, <2>3, StaysIntact
<1>4. ASSUME h.kind \in {"edit", "redaction"}, h.pc = "start", NEW s \in Section,
             NEW i \in First(h.msg, lists[s]), Found(h, s, i)
      PROVE  OnceInv'
  <2>1. slices[s] \in Slice /\ Fits(slices[s])
    BY <1>1 DEF TypeOK
  <2>2. i \in DOMAIN lists[s] /\ lists[s][i].msg = h.msg
    BY DEF First, IsOf
  <2>3. i \in 1 .. slices[s].len /\ heap[slices[s].array][i].msg = h.msg /\ i \in Nat
    BY <1>1, <2>2, ListsTyped
  <2>4. PICK g \in Handlers :
          /\ Becomes(h, g) /\ g.msg = h.msg /\ g.kind = h.kind
          /\ g.pc = (IF h.kind = "edit" THEN "store" ELSE "cut")
          /\ g.section = s /\ g.slice = slices[s] /\ g.place = i
    BY <1>1, <1>4, <2>1, <2>3, FoundIs
  <2>5. HandlerOK(g) /\ ~Pending(g) /\ ~Appending(g)
    BY <1>4, <2>1, <2>3, <2>4 DEF HandlerOK, Pending, Appending
  <2>6. Removing(g) => AtItem(g)
    BY <2>3, <2>4 DEF AtItem
  <2> QED
    BY <1>1, <2>4, <2>5, <2>6, StaysIntact
<1> QED
  BY <1>2, <1>3, <1>4 DEF HandleMessage, FindItem, At

\* tryEditListItem changes a text, wherever that is.
LEMMA EditCells ==
  ASSUME TypeOK, NEW h \in handlers, EditItem(h)
  PROVE  LET x == h.slice
             a == x.array
         IN /\ h.kind = "edit" /\ h.pc = "store" /\ h.section \in Section
            /\ x \in Slice /\ Fits(x) /\ h.place \in 1 .. x.len
            /\ a \in 1 .. Len(heap) /\ h.place \in 1 .. Len(heap[a])
            /\ heap'[a][h.place] = Item(heap[a][h.place].msg, h.id)
            /\ \A i \in 1 .. Len(heap[a]) : i # h.place => heap'[a][i] = heap[a][i]
            /\ \A b \in 1 .. Len(heap) : b # a => heap'[b] = heap[b]
            /\ HeapKept
<1> DEFINE x == h.slice
           a == x.array
           n == h.place
           cell == Item(heap[a][n].msg, h.id)
           new == [heap[a] EXCEPT ![n] = cell]
<1>1. h.kind = "edit" /\ h.pc = "store"
  BY DEF EditItem, At
<1>2. h.section \in Section /\ x \in Slice /\ Fits(x) /\ n \in 1 .. x.len /\ h.id \in Nat
  BY <1>1 DEF TypeOK, HandlerOK, Handlers
<1>3. a \in 1 .. Len(heap) /\ n \in 1 .. Len(heap[a]) /\ heap[a][n] \in ItemSet
  BY <1>2, FitsItems
<1>4. /\ heap \in Seq(ItemList) /\ DOMAIN heap = 1 .. Len(heap) /\ Len(heap) \in Nat
      /\ heap[a] \in ItemList /\ Len(heap[a]) \in Nat /\ DOMAIN heap[a] = 1 .. Len(heap[a])
  BY <1>3, HeapPlaces DEF TypeOK
<1>5. [heap[a][n] EXCEPT !.text = h.id] = cell /\ cell \in ItemSet
  BY <1>2, <1>3 DEF ItemSet, Item
<1>6. heap' = [heap EXCEPT ![a] = new]
  <2>1. heap' = [heap EXCEPT ![a][n].text = h.id]
    BY DEF EditItem
  <2>2. heap' = [heap EXCEPT ![a] = [heap[a] EXCEPT ![n] = [heap[a][n] EXCEPT !.text = h.id]]]
    BY <2>1
  <2> QED
    BY <1>5, <2>2
<1> HIDE DEF x, a, n, cell
<1>7. /\ new \in ItemList /\ Len(new) = Len(heap[a]) /\ new[n] = cell
      /\ \A i \in 1 .. Len(heap[a]) : i # n => new[i] = heap[a][i]
  BY <1>3, <1>4, <1>5, ExceptSeq DEF ItemList
<1> HIDE DEF new
<1>8. /\ heap' \in Seq(ItemList) /\ Len(heap') = Len(heap)
      /\ heap'[a] = new /\ \A b \in 1 .. Len(heap) : b # a => heap'[b] = heap[b]
  BY <1>3, <1>4, <1>6, <1>7, ExceptSeq
<1>9. HeapKept
  BY <1>4, <1>7, <1>8 DEF HeapKept
<1> QED
  BY <1>1, <1>2, <1>3, <1>7, <1>8, <1>9 DEF x, a, n, cell

LEMMA Edits ==
  ASSUME OnceInv, NEW h \in handlers, EditItem(h)
  PROVE  OnceInv'
<1>1. TypeOK /\ h \in Handlers
  BY DEF OnceInv, TypeOK
<1>2. /\ h.kind = "edit" /\ h.slice.array \in 1 .. Len(heap) /\ HeapKept
      /\ heap'[h.slice.array][h.place] = Item(heap[h.slice.array][h.place].msg, h.id)
      /\ \A i \in 1 .. Len(heap[h.slice.array]) :
           i # h.place => heap'[h.slice.array][i] = heap[h.slice.array][i]
      /\ \A b \in 1 .. Len(heap) : b # h.slice.array => heap'[b] = heap[b]
  BY <1>1, EditCells
<1>3. /\ UNCHANGED <<slices, events, torn, up, messages>> /\ asked' \in Shown
      /\ torn' \in BOOLEAN /\ slices' \in [Section -> Slice] /\ Ends(h)
  BY <1>1 DEF EditItem, roomVars, countVars, runVars, TypeOK
<1>4. \A s \in Section : Fits(slices[s])'
  <2> TAKE s \in Section
  <2>1. PICK y \in Slice : y = slices[s] /\ Fits(y)
    BY <1>1 DEF TypeOK
  <2>2. Fits(y)'
    BY <1>1, <1>2, <2>1, FitsKept
  <2> QED
    BY <1>3, <2>1, <2>2 DEF Fits
<1>5. TypeOK'
  BY <1>1, <1>2, <1>3, <1>4, MovesType
<1>6. MsgsKept
  <2>1. heap'[h.slice.array][h.place].msg = heap[h.slice.array][h.place].msg
    BY <1>2 DEF Item
  <2> QED
    BY <1>2, <2>1 DEF MsgsKept
<1>7. ~Pending(h) /\ ~Appending(h) /\ ~Removing(h)
  BY <1>2 DEF Pending, Appending, Removing
<1> QED
  BY <1>3, <1>5, <1>6, <1>7, FilesNothing

\* HandleRedaction has the header that the flow has, or there is no flow any more.
LEMMA Cuts ==
  ASSUME OnceInv, NEW h \in handlers, Cut(h)
  PROVE  OnceInv'
<1>1. /\ TypeOK /\ h \in Handlers /\ HandlerOK(h) /\ asked' \in Shown
      /\ UNCHANGED <<slices, heap, messages, events, torn>>
  BY DEF OnceInv, TypeOK, Cut, flowVars, roomVars, countVars
<1>2. h.kind = "redaction" /\ h.pc = "cut" /\ h.section \in Section /\ h.place \in Nat \ {0}
  BY <1>1 DEF Cut, At, HandlerOK, Handlers
<1>3. slices[h.section] \in Slice /\ Fits(slices[h.section])
  BY <1>1, <1>2 DEF TypeOK
<1>4. CASE h.place <= slices[h.section].len
  <2>1. PICK g : g = [h EXCEPT !.pc = "store", !.slice = slices[h.section]]
    OBVIOUS
  <2>2. /\ g \in Handlers /\ g.msg = h.msg /\ g.kind = "redaction" /\ g.pc = "store"
        /\ g.section = h.section /\ g.slice = slices[h.section] /\ g.place = h.place
    BY <1>1, <1>2, <1>3, <2>1 DEF Handlers, Step
  <2>3. Becomes(h, g) /\ UNCHANGED up
    BY <1>4, <2>1 DEF Cut, Becomes
  <2>4. h.place \in 1 .. slices[h.section].len
    BY <1>2, <1>3, <1>4 DEF Slice
  <2>5. HandlerOK(g) /\ ~Pending(g) /\ ~Appending(g)
    BY <1>2, <1>3, <2>2, <2>4 DEF HandlerOK, Pending, Appending
  <2>6. ~torn => AtItem(g)
    <3> SUFFICES ASSUME ~torn PROVE AtItem(g)
      OBVIOUS
    <3>1. AtItem(h)
      BY <1>2 DEF OnceInv, Intact, Removing
    <3> QED
      BY <2>2, <3>1 DEF AtItem
  <2> QED
    BY <1>1, <1>2, <2>2, <2>3, <2>5, <2>6, StaysIntact
<1>5. CASE h.place > slices[h.section].len
  <2>1. torn
    <3> SUFFICES ASSUME ~torn PROVE FALSE
      OBVIOUS
    <3>1. AtItem(h)
      BY <1>2 DEF OnceInv, Intact, Removing
    <3> QED
      BY <1>2, <1>3, <1>5, <3>1 DEF AtItem, Slice
  <2>2. handlers' = {}
    BY <1>2, <1>3, <1>5 DEF Cut, Slice
  <2>3. TypeOK'
    BY <1>1, <2>2 DEF TypeOK, Fits
  <2> QED
    BY <1>1, <2>1, <2>3 DEF OnceInv
<1> QED
  BY <1>2, <1>3, <1>4, <1>5 DEF Slice

LEMMA HandlerKeeps ==
  ASSUME OnceInv, NEW h \in handlers, Handler(h)
  PROVE  OnceInv'
<1>1. h \in Handlers /\ HandlerOK(h) /\ asked \in Shown
  BY DEF OnceInv, TypeOK
<1> USE DEF flowVars, roomVars, countVars, runVars
<1>2. ASSUME NEW pc \in Step \ {"start", "cut", "store"}, Goes(h, pc), asked' \in Shown,
             UNCHANGED <<slices, heap, messages, events, torn, up>>
      PROVE  OnceInv'
  <2>1. PICK g : g = [h EXCEPT !.pc = pc]
    OBVIOUS
  <2>2. g \in Handlers /\ g.msg = h.msg /\ g.pc = pc
    BY <1>1, <2>1, NextStep
  <2>3. Becomes(h, g)
    BY <1>2, <2>1 DEF Goes, Becomes
  <2> QED
    BY <1>2, <2>2, <2>3, GoesKeeps
<1>3. CASE HandleMessage(h) \/ FindItem(h)
  BY <1>3, Loads
<1>4. CASE Grow(h) \/ AppendItem(h)
  BY <1>4, Grows, Appends
<1>5. CASE EditItem(h) \/ Cut(h) \/ RemoveItem(h)
  BY <1>5, Edits, Cuts, Removes
<1>6. CASE MarkItem(h)
  BY <1>1, <1>6, EndsKeeps DEF MarkItem
<1>7. CASE HandleReaction(h)
  <2>1. "read" \in Step \ {"start", "cut", "store"}
    BY DEF Step
  <2>2. UNCHANGED <<asked, slices, heap, messages, events, torn, up>>
    BY <1>7 DEF HandleReaction
  <2>3. Goes(h, "read") \/ Ends(h)
    BY <1>7 DEF HandleReaction
  <2> QED
    BY <1>1, <1>2, <2>1, <2>2, <2>3, EndsKeeps
<1>8. CASE GoOn(h)
  <2>1. UNCHANGED <<asked, slices, heap, messages, events, torn, up>>
    BY <1>8 DEF GoOn
  <2>2. CASE Goes(h, "preview")
    <3>1. "preview" \in Step \ {"start", "cut", "store"}
      BY DEF Step
    <3> QED
      BY <1>1, <1>2, <2>1, <2>2, <3>1
  <2>3. CASE /\ state \in Section \ {"Notes"}
             /\ handlers' = (handlers \ {h}) \cup
                              {[h EXCEPT !.pc = "ask", !.section = Following[state]]}
    <3>1. PICK s \in Section : s = Following[state]
      BY <2>3 DEF Following, Section
    <3>2. PICK g : g = [h EXCEPT !.pc = "ask", !.section = s]
      OBVIOUS
    <3>3. g \in Handlers /\ g.msg = h.msg /\ g.pc = "ask"
      <4>1. "ask" \in Step /\ s \in Shown
        BY DEF Step, Shown
      <4> QED
        BY <1>1, <3>2, <4>1 DEF Handlers
    <3>4. Becomes(h, g)
      BY <2>3, <3>1, <3>2 DEF Becomes
    <3> QED
      BY <1>1, <2>1, <3>3, <3>4, GoesKeeps
  <2> QED
    BY <1>8, <2>2, <2>3 DEF GoOn
<1>9. CASE HandleCommand(h)
  <2>1. "ask" \in Step \ {"start", "cut", "store"}
    BY DEF Step
  <2>2. Goes(h, "ask") /\ UNCHANGED <<asked, slices, heap, messages, events, torn, up>>
    BY <1>9 DEF HandleCommand
  <2> QED
    BY <1>1, <1>2, <2>1, <2>2
<1>10. CASE Ask(h)
  <2>1. "asked" \in Step \ {"start", "cut", "store"}
    BY DEF Step
  <2>2. Goes(h, "asked") /\ UNCHANGED <<slices, heap, messages, events, torn, up>>
    BY <1>10 DEF Ask
  <2>3. asked' \in Shown
    BY <1>1, <1>10 DEF Ask, Handlers
  <2> QED
    BY <1>2, <2>1, <2>2, <2>3
<1>11. CASE Asked(h)
  BY <1>1, <1>11, EndsKeeps DEF Asked
<1>12. CASE ShowPreview(h)
  BY <1>1, <1>12, EndsKeeps DEF ShowPreview, Shown
<1> QED
  BY <1>3, <1>4, <1>5, <1>6, <1>7, <1>8, <1>9, <1>10, <1>11, <1>12 DEF Handler

\* An event of the user is one more handler, with nothing loaded.
LEMMA BeginsKeeps ==
  ASSUME OnceInv, NEW kind \in Kind, NEW msg \in Nat, NEW section \in Shown,
         Begins(kind, msg, section), kind = "message" => msg = events + 1,
         messages' \in Seq(Message), UNCHANGED <<asked, slices, heap>>
  PROVE  OnceInv'
<1>1. PICK g : g = [id |-> events + 1, kind |-> kind, pc |-> "start", msg |-> msg,
                    section |-> section, slice |-> Nil, place |-> 0]
  OBVIOUS
<1>2. events \in Nat /\ Nil \in Slice
  BY DEF OnceInv, TypeOK, Nil, Slice
<1>3. g \in Handlers /\ g.pc = "start" /\ g.kind = kind /\ g.msg = msg
  BY <1>1, <1>2 DEF Handlers, Step
<1>4. handlers' = handlers \cup {g} /\ events' = events + 1 /\ UNCHANGED <<up, torn>>
  BY <1>1 DEF Begins, runVars
<1> QED
  BY <1>3, <1>4, UserSends

LEMMA UserKeeps ==
  ASSUME OnceInv, User
  PROVE  OnceInv'
<1>1. events \in Nat /\ messages \in Seq(Message) /\ asked \in Shown
  BY DEF OnceInv, TypeOK
<1>2. \A j \in DOMAIN messages : messages[j] \in Message /\ messages[j].id \in Nat
  <2> SUFFICES ASSUME NEW j \in DOMAIN messages PROVE messages[j] \in Message /\ messages[j].id \in Nat
    OBVIOUS
  <2>1. messages[j] \in Message
    BY <1>1
  <2> QED
    BY <2>1 DEF Message
<1> USE DEF flowVars, roomVars
<1>3. CASE WriteMessage
  <2> DEFINE new == [id |-> events + 1, question |-> asked, text |-> events + 1, redacted |-> FALSE]
  <2>1. new \in Message
    BY <1>1 DEF Message
  <2>2. messages' \in Seq(Message)
    BY <1>1, <1>3, <2>1 DEF WriteMessage
  <2>3. "message" \in Kind /\ events + 1 \in Nat /\ "none" \in Shown
    BY <1>1 DEF Kind, Shown
  <2> QED
    BY <1>3, <2>2, <2>3, BeginsKeeps DEF WriteMessage
<1>4. ASSUME NEW j \in DOMAIN messages, EditMessage(j) PROVE OnceInv'
  <2> DEFINE new == [messages[j] EXCEPT !.text = events + 1]
  <2>1. new \in Message
    <3>1. messages[j] \in Message
      BY <1>2
    <3>2. events + 1 \in Nat
      BY <1>1
    <3> QED
      BY <3>1, <3>2, Zenon DEF Message
  <2>2. messages' = [messages EXCEPT ![j] = new]
    BY <1>4 DEF EditMessage
  <2> HIDE DEF new
  <2>3. messages' \in Seq(Message)
    BY <1>1, <2>1, <2>2, ExceptSeq, LenProperties
  <2>4. "edit" \in Kind /\ "none" \in Shown /\ "edit" # "message"
    BY DEF Kind, Shown
  <2> QED
    BY <1>2, <1>4, <2>3, <2>4, BeginsKeeps DEF EditMessage
<1>5. ASSUME NEW j \in DOMAIN messages, RedactMessage(j) PROVE OnceInv'
  <2> DEFINE new == [messages[j] EXCEPT !.redacted = TRUE]
  <2>1. new \in Message
    <3>1. messages[j] \in Message
      BY <1>2
    <3> QED
      BY <1>1, <3>1 DEF Message
  <2>2. messages' = [messages EXCEPT ![j] = new]
    BY <1>5 DEF RedactMessage
  <2> HIDE DEF new
  <2>3. messages' \in Seq(Message)
    BY <1>1, <2>1, <2>2, ExceptSeq, LenProperties
  <2>4. "redaction" \in Kind /\ "none" \in Shown /\ "redaction" # "message"
    BY DEF Kind, Shown
  <2> QED
    BY <1>2, <1>5, <2>3, <2>4, BeginsKeeps DEF RedactMessage
<1>6. ASSUME NEW id \in Nat, PutCheckMark(id) PROVE OnceInv'
  <2>1. "reaction" \in Kind /\ "none" \in Shown /\ "reaction" # "message"
    BY DEF Kind, Shown
  <2> QED
    BY <1>1, <1>6, <2>1, BeginsKeeps DEF PutCheckMark
<1>7. ASSUME NEW s \in Section, EditCommand(s) PROVE OnceInv'
  <2>1. "command" \in Kind /\ s \in Shown /\ "command" # "message" /\ 0 \in Nat
    BY DEF Kind, Shown
  <2> QED
    BY <1>1, <1>7, <2>1, BeginsKeeps DEF EditCommand
<1> QED
  BY <1>2, <1>3, <1>4, <1>5, <1>6, <1>7 DEF User, Question

LEMMA OnceInit == Init => OnceInv
<1> SUFFICES ASSUME Init PROVE OnceInv
  OBVIOUS
<1>1. PICK g : g = [id |-> 0, kind |-> "command", pc |-> "ask", msg |-> 0, section |-> "Done",
                    slice |-> Nil, place |-> 0]
  OBVIOUS
<1>2. Nil \in Slice /\ Fits(Nil) /\ Nil.len = 0 /\ Nil.array = 0
  BY DEF Nil, Slice, Fits
<1>3. g \in Handlers /\ ~Pending(g) /\ ~Appending(g) /\ ~Removing(g) /\ HandlerOK(g)
  BY <1>1, <1>2
  DEF Handlers, Kind, Step, Shown, Section, Pending, Appending, Removing, HandlerOK
<1>4. handlers = {g} /\ \A s \in Section : slices[s] = Nil
  BY <1>1 DEF Init
<1>5. TypeOK
  <2>1. heap \in Seq(ItemList) /\ messages \in Seq(Message)
    BY DEF Init
  <2>2. slices \in [Section -> Slice]
    BY <1>2 DEF Init
  <2>3. asked \in Shown /\ events \in Nat /\ torn \in BOOLEAN
    BY DEF Init, Shown
  <2> QED
    BY <1>2, <1>3, <1>4, <2>1, <2>2, <2>3 DEF TypeOK
<1>6. \A s \in Section : \A x \in Owned(s) : x = Nil
  BY <1>3, <1>4 DEF Owned
<1>7. OnceIn(Nil) /\ \A m : ~Has(Nil, m)
  BY <1>2 DEF OnceIn, Has
<1>8. Intact
  BY <1>2, <1>3, <1>4, <1>6, <1>7
  DEF Init, Intact, Apart, PendingIsNew, OnePending, ListedIsSent
<1> QED
  BY <1>5, <1>8 DEF OnceInv

LEMMA OnceStep == OnceInv /\ [Next]_vars => OnceInv'
<1> SUFFICES ASSUME OnceInv, [Next]_vars PROVE OnceInv'
  OBVIOUS
<1>1. CASE User
  BY <1>1, UserKeeps
<1>2. CASE \E h \in handlers : Handler(h)
  BY <1>2, HandlerKeeps
<1>3. CASE UNCHANGED vars
  <2>1. UNCHANGED <<asked, messages, events, heap, slices, handlers, torn, up>>
    BY <1>3 DEF vars, flowVars, roomVars, countVars, runVars
  <2>2. TypeOK'
    BY <2>1 DEF OnceInv, TypeOK, Fits, HandlerOK
  <2>3. /\ \A s \in Section : Owned(s)' = Owned(s)
        /\ \A x : OnceIn(x)' <=> OnceIn(x)
        /\ \A x, m : Has(x, m)' <=> Has(x, m)
    BY <2>1 DEF Owned, OnceIn, Has, Appending
  <2>4. \A h : AtItem(h)' <=> AtItem(h)
    BY <2>1 DEF AtItem
  <2>5. ~torn => Intact'
    BY <2>1, <2>3, <2>4
    DEF OnceInv, Intact, Apart, PendingIsNew, OnePending, ListedIsSent, Removing, Pending
  <2> QED
    BY <2>1, <2>2, <2>5 DEF OnceInv
<1> QED
  BY <1>1, <1>2, <1>3 DEF Next

LEMMA OnceImplies == OnceInv => IntactUnlessTorn
<1> SUFFICES ASSUME OnceInv, ~torn PROVE up /\ OnceListed /\ RemovesOwn
  BY DEF IntactUnlessTorn
<1>1. TypeOK /\ Intact
  BY DEF OnceInv
<1>2. OnceListed
  <2> SUFFICES ASSUME NEW s \in Section, NEW t \in Section,
                      NEW i \in DOMAIN lists[s], NEW j \in DOMAIN lists[t],
                      lists[s][i].msg = lists[t][j].msg
               PROVE  s = t /\ i = j
    BY DEF OnceListed
  <2> DEFINE x == slices[s]
             y == slices[t]
  <2>1. /\ i \in 1 .. x.len /\ lists[s][i] = heap[x.array][i]
        /\ j \in 1 .. y.len /\ lists[t][j] = heap[y.array][j]
    BY <1>1, ListsTyped
  <2>2. x \in Owned(s) /\ y \in Owned(t) /\ x \in Slice /\ Fits(x)
    BY <1>1 DEF Owned, TypeOK
  <2>3. heap[x.array][i].msg \in Nat
    BY <1>1, <2>1, <2>2, FitsItems
  <2>4. Has(x, heap[x.array][i].msg) /\ Has(y, heap[x.array][i].msg)
    BY <2>1 DEF Has
  <2>5. s = t
    BY <1>1, <2>2, <2>3, <2>4 DEF Intact, Apart
  <2>6. OnceIn(x)
    BY <1>1, <2>2 DEF Intact
  <2> QED
    BY <2>1, <2>5, <2>6 DEF OnceIn
<1>3. RemovesOwn
  BY <1>1 DEF Intact, RemovesOwn, At, Removing, AtItem
<1> QED
  BY <1>1, <1>2, <1>3 DEF Intact

\* However the goroutines of HandleMessage, HandleEdit and HandleRedaction load, write and
\* store the slices between each other, and for any number of events: as long as no list is
\* stored while another handler is about to store it too and one of the two is a redaction,
\* a message is in the post at most once, each redaction takes out its own item, and none
\* panics.  Without that condition the code does all three.
THEOREM IntactCorrect == Spec => []IntactUnlessTorn
BY OnceInit, OnceStep, OnceImplies, PTL DEF Spec

-----------------------------------------------------------------------------
(* Lists in the order of their messages. *)

LEMMA ItemsOf ==
  ASSUME NEW list \in ItemList
  PROVE  /\ \A x : x \in Range(list) <=> \E i \in DOMAIN list : x = list[i]
         /\ Range(list) \subseteq ItemSet
         /\ DOMAIN list = 1 .. Len(list) /\ Len(list) \in Nat
         /\ \A i \in DOMAIN list : list[i].msg \in Nat
<1>1. DOMAIN list = 1 .. Len(list) /\ Len(list) \in Nat /\ \A i \in DOMAIN list : list[i] \in ItemSet
  BY DEF ItemList
<1>2. \A i \in DOMAIN list : list[i].msg \in Nat
  BY <1>1 DEF ItemSet
<1> QED
  BY <1>1, <1>2 DEF Range

\* No message is twice in such a list.
LEMMA OrderOnce ==
  ASSUME NEW list \in ItemList, InOrder(list)
  PROVE  Once(list)
<1> SUFFICES ASSUME NEW i \in DOMAIN list, NEW j \in DOMAIN list, list[i].msg = list[j].msg
             PROVE  i = j
  BY DEF Once
<1>1. i \in Nat /\ j \in Nat /\ list[i].msg \in Nat /\ list[j].msg \in Nat
  BY ItemsOf
<1>2. ~(i < j) /\ ~(j < i)
  BY <1>1 DEF InOrder
<1> QED
  BY <1>1, <1>2

LEMMA AppendInOrder ==
  ASSUME NEW list \in ItemList, InOrder(list), NEW item, NEW new \in ItemList,
         \A x \in Range(list) : x.msg < item.msg,
         Len(new) = Len(list) + 1, new[Len(list) + 1] = item,
         \A i \in DOMAIN list : new[i] = list[i]
  PROVE  InOrder(new) /\ Range(new) = Range(list) \cup {item}
<1>1. DOMAIN new = 1 .. Len(list) + 1
  BY ItemsOf
<1>2. DOMAIN list = 1 .. Len(list) /\ Len(list) \in Nat
  BY ItemsOf
<1>3. Range(new) = Range(list) \cup {item}
  BY <1>1, <1>2 DEF Range
<1>4. ASSUME NEW i \in DOMAIN new, NEW j \in DOMAIN new, i < j
      PROVE  new[i].msg < new[j].msg
  <2>1. i \in DOMAIN list
    BY <1>1, <1>2, <1>4
  <2>2. CASE j \in DOMAIN list
    BY <1>1, <1>4, <2>1, <2>2 DEF InOrder
  <2>3. CASE j \notin DOMAIN list
    <3>1. new[j] = item /\ new[i] = list[i] /\ list[i] \in Range(list)
      BY <1>1, <1>2, <2>1, <2>3 DEF Range
    <3> QED
      BY <3>1
  <2> QED
    BY <2>2, <2>3
<1> QED
  BY <1>3, <1>4 DEF InOrder

LEMMA EditInOrder ==
  ASSUME NEW list \in ItemList, InOrder(list), NEW n \in DOMAIN list, NEW text,
         NEW new, DOMAIN new = DOMAIN list, new[n] = Item(list[n].msg, text),
         \A i \in DOMAIN list : i # n => new[i] = list[i]
  PROVE  /\ InOrder(new)
         /\ Range(new) = {x \in Range(list) : x.msg # list[n].msg} \cup {Item(list[n].msg, text)}
<1>1. \A i \in DOMAIN list : new[i].msg = list[i].msg
  BY DEF Item
<1>2. InOrder(new)
  BY <1>1 DEF InOrder
<1>3. \A i \in DOMAIN list : i # n => list[i].msg # list[n].msg
  BY OrderOnce DEF Once
<1>4. Range(new) = {x \in Range(list) : x.msg # list[n].msg} \cup {Item(list[n].msg, text)}
  BY <1>3 DEF Range
<1> QED
  BY <1>2, <1>4

LEMMA RemoveInOrder ==
  ASSUME NEW list \in ItemList, InOrder(list), NEW n \in DOMAIN list, NEW new \in ItemList,
         Len(new) = Len(list) - 1,
         \A i \in DOMAIN new : Old(i, n) \in DOMAIN list /\ new[i] = list[Old(i, n)]
  PROVE  InOrder(new) /\ Range(new) = {x \in Range(list) : x.msg # list[n].msg}
<1>1. DOMAIN list = 1 .. Len(list) /\ Len(list) \in Nat /\ n \in 1 .. Len(list)
  BY ItemsOf
<1>2. \A i \in DOMAIN new : Old(i, n) \in DOMAIN list /\ new[i] = list[Old(i, n)]
  OBVIOUS
<1>3. DOMAIN new = 1 .. Len(list) - 1
  BY ItemsOf
<1>4. \A i \in DOMAIN new : Old(i, n) # n /\ Old(i, n) \in Nat
  BY <1>1, <1>3 DEF Old
<1>5. \A i, j \in DOMAIN new : i < j => Old(i, n) < Old(j, n)
  BY <1>1, <1>3 DEF Old
<1>6. \A k \in DOMAIN list : k # n => \E i \in DOMAIN new : Old(i, n) = k
  <2> SUFFICES ASSUME NEW k \in DOMAIN list, k # n
               PROVE  \E i \in DOMAIN new : Old(i, n) = k
    OBVIOUS
  <2>1. CASE k < n
    <3>1. k \in DOMAIN new /\ Old(k, n) = k
      BY <1>1, <1>3, <2>1 DEF Old
    <3> QED
      BY <3>1
  <2>2. CASE k > n
    <3>1. k - 1 \in DOMAIN new /\ Old(k - 1, n) = k
      BY <1>1, <1>3, <2>2 DEF Old
    <3> QED
      BY <3>1
  <2> QED
    BY <1>1, <2>1, <2>2
<1>7. InOrder(new)
  BY <1>2, <1>5 DEF InOrder
<1>8. \A k \in DOMAIN list : k # n <=> list[k].msg # list[n].msg
  BY OrderOnce DEF Once
<1>9. Range(new) = {x \in Range(list) : x.msg # list[n].msg}
  <2>1. \A x \in Range(new) : x \in Range(list) /\ x.msg # list[n].msg
    BY <1>2, <1>4, <1>8 DEF Range
  <2>2. ASSUME NEW x \in Range(list), x.msg # list[n].msg
        PROVE  x \in Range(new)
    <3>1. PICK k \in DOMAIN list : x = list[k]
      BY DEF Range
    <3>2. PICK i \in DOMAIN new : Old(i, n) = k
      BY <1>6, <2>2, <3>1
    <3> QED
      BY <1>2, <3>1, <3>2 DEF Range
  <2> QED
    BY <2>1, <2>2
<1> QED
  BY <1>7, <1>9

-----------------------------------------------------------------------------
(* What the room says. *)

\* Messages have their numbers to themselves.
LEMMA MessageNumbers ==
  ASSUME messages \in Seq(Message), MessagesInOrder, events \in Nat
  PROVE  /\ \A m \in Range(messages) : m \in Message /\ m.id \in 1 .. events
         /\ \A m, n \in Range(messages) : m.id = n.id => m = n
         /\ \A i, j \in DOMAIN messages : messages[i].id = messages[j].id => i = j
<1>1. DOMAIN messages \subseteq Nat /\ \A i \in DOMAIN messages : messages[i] \in Message
  OBVIOUS
<1>2. \A i \in DOMAIN messages : messages[i].id \in Nat
  BY <1>1 DEF Message
<1>3. \A i, j \in DOMAIN messages : messages[i].id = messages[j].id => i = j
  <2> SUFFICES ASSUME NEW i \in DOMAIN messages, NEW j \in DOMAIN messages,
                      messages[i].id = messages[j].id
               PROVE  i = j
    OBVIOUS
  <2>1. i \in Nat /\ j \in Nat /\ messages[i].id \in Nat /\ messages[j].id \in Nat
    BY <1>1, <1>2
  <2>2. ~(i < j) /\ ~(j < i)
    BY <2>1 DEF MessagesInOrder
  <2> QED
    BY <2>1, <2>2
<1> QED
  BY <1>1, <1>3 DEF MessagesInOrder, Range

LEMMA SaidIs ==
  \A x, s : x \in Said(s) <=>
    \E m \in Range(messages) : m.question = s /\ ~m.redacted /\ x = Item(m.id, m.text)
BY DEF Said

\* A message that is edited or redacted keeps its place, and the others stay.
LEMMA MessageChanges ==
  ASSUME messages \in Seq(Message), MessagesInOrder, events \in Nat,
         NEW j \in DOMAIN messages, NEW new, new.id = messages[j].id,
         messages' = [messages EXCEPT ![j] = new], events' = events + 1
  PROVE  /\ MessagesInOrder'
         /\ new \in Range(messages')
         /\ \A m \in Range(messages') : m.id = new.id => m = new
         /\ \A m : m.id # new.id => (m \in Range(messages') <=> m \in Range(messages))
<1>1. /\ DOMAIN messages' = DOMAIN messages /\ messages'[j] = new
      /\ \A i \in DOMAIN messages : i # j => messages'[i] = messages[i]
  OBVIOUS
<1>2. \A i \in DOMAIN messages : messages'[i].id = messages[i].id
  BY <1>1
<1>3. MessagesInOrder'
  BY <1>1, <1>2 DEF MessagesInOrder
<1>4. \A i \in DOMAIN messages : messages[i].id = new.id => i = j
  BY MessageNumbers
<1> QED
  BY <1>1, <1>2, <1>3, <1>4 DEF Range

-----------------------------------------------------------------------------
(* One handler at a time. *)

IsAbout(h) == ToFile(h) \/ h.kind \in {"edit", "redaction"}

LEMMA UnsettledNow ==
  ASSUME NEW h, handlers = {h}
  PROVE  Unsettled = IF IsAbout(h) THEN {h.msg} ELSE {}
BY DEF Unsettled, IsAbout

LEMMA UnsettledNext ==
  ASSUME NEW g, handlers' = {g}
  PROVE  Unsettled' = IF IsAbout(g) THEN {g.msg} ELSE {}
BY DEF Unsettled, IsAbout, ToFile

LEMMA UnsettledNone ==
  /\ handlers = {} => Unsettled = {}
  /\ handlers' = {} => Unsettled' = {}
BY DEF Unsettled

\* The lists stay as they are with the headers and the arrays.
LEMMA ListsStay == UNCHANGED <<slices, heap>> => UNCHANGED lists
BY DEF lists, Items

\* What FollowInv and OnceInv say of a user who has waited so far.
LEMMA Waited ==
  ASSUME OnceInv, FollowInv, hurried = 0
  PROVE  /\ TypeOK /\ Intact /\ up /\ ~torn
         /\ \A g, h \in handlers : g = h
         /\ ListsFollow /\ MessagesInOrder /\ QuestionKnown
         /\ \A h \in handlers : HandlerKnows(h) /\ HandlerOK(h) /\ h \in Handlers
         /\ messages \in Seq(Message) /\ events \in Nat
         /\ \A s \in Section : lists[s] \in ItemList /\ InOrder(lists[s])
         /\ lists \in [Section -> ItemList]
         /\ \A h \in handlers : ToFile(h) => \A s \in Section : ~InList(lists[s], h.msg)
<1>1. TypeOK /\ Intact
  BY DEF OnceInv, FollowInv
<1>2. \A h \in handlers : ToFile(h) => \A s \in Section : ~InList(lists[s], h.msg)
  <2> SUFFICES ASSUME NEW h \in handlers, ToFile(h), NEW s \in Section
               PROVE  ~InList(lists[s], h.msg)
    OBVIOUS
  <2>1. Pending(h)
    BY DEF FollowInv, HandlerKnows, ToFile, Pending
  <2>2. ~Has(slices[s], h.msg)
    BY <1>1, <2>1 DEF Intact, PendingIsNew, Owned
  <2> QED
    BY <1>1, <2>2, ListsTyped DEF Has, InList
<1> QED
  BY <1>1, <1>2, ListsTyped DEF TypeOK, FollowInv, ListsFollow

\* Of one message the room says one item, or none.
LEMMA SaidOf ==
  ASSUME messages \in Seq(Message), MessagesInOrder, events \in Nat, NEW m \in Range(messages),
         NEW s
  PROVE  {x \in Said(s) : x.msg = m.id}
           = IF m.question = s /\ ~m.redacted THEN {Item(m.id, m.text)} ELSE {}
<1>1. \A n \in Range(messages) : n.id = m.id => n = m
  BY MessageNumbers
<1>2. \A i, t : Item(i, t).msg = i
  BY DEF Item
<1> QED
  BY <1>1, <1>2, SaidIs

\* A handler that is done with its message leaves the lists as the room has them.
LEMMA FollowsAgain ==
  ASSUME messages \in Seq(Message), MessagesInOrder, events \in Nat, ListsFollow,
         NEW m \in Range(messages), Unsettled = {m.id}, Unsettled' = {}, UNCHANGED messages,
         \A s \in Section :
           /\ InOrder(lists'[s])
           /\ Range(lists'[s]) = {x \in Range(lists[s]) : x.msg # m.id}
                \cup (IF m.question = s /\ ~m.redacted THEN {Item(m.id, m.text)} ELSE {})
  PROVE  ListsFollow'
<1> SUFFICES ASSUME NEW s \in Section
             PROVE  Others(Range(lists[s]))' = Others(Said(s))'
  BY DEF ListsFollow, InOrder
<1> DEFINE own == IF m.question = s /\ ~m.redacted THEN {Item(m.id, m.text)} ELSE {}
<1>1. {x \in Range(lists[s]) : x.msg # m.id} = {x \in Said(s) : x.msg # m.id}
  BY DEF ListsFollow, Others
<1>2. {x \in Said(s) : x.msg = m.id} = own
  BY SaidOf
<1>3. Range(lists'[s]) = {x \in Range(lists[s]) : x.msg # m.id} \cup own
  OBVIOUS
<1> HIDE DEF own
<1>4. Range(lists'[s]) = Said(s)
  BY <1>1, <1>2, <1>3
<1>5. Said(s)' = Said(s)
  BY DEF Said
<1>6. Range(lists[s])' = Range(lists'[s])
  BY DEF Range
<1> QED
  BY <1>4, <1>5, <1>6 DEF Others

\* A handler that goes on, with as much to do as before.
LEMMA FollowsOn ==
  ASSUME ListsFollow, UNCHANGED <<lists, messages, Unsettled>>
  PROVE  ListsFollow'
BY DEF ListsFollow, Others, Said, Range, InOrder

\* The message that a handler is about.
LEMMA AboutMessage ==
  ASSUME NEW h, HandlerKnows(h), IsAbout(h)
  PROVE  \E m \in Range(messages) :
           /\ m.id = h.msg
           /\ ToFile(h) => m.question = asked /\ ~m.redacted /\ m.text = h.id
           /\ h.kind = "edit" =>
                /\ m.text = h.id /\ ~m.redacted
                /\ \A s \in Section : Listed(h.msg, s) <=> m.question = s
           /\ h.kind = "redaction" => m.redacted
<1>1. CASE ToFile(h)
  <2>1. h.kind = "message"
    BY <1>1 DEF ToFile
  <2>2. [id |-> h.msg, question |-> asked, text |-> h.id, redacted |-> FALSE] \in Range(messages)
    BY <1>1 DEF HandlerKnows
  <2> QED
    BY <2>1, <2>2
<1>2. CASE h.kind \in {"edit", "redaction"}
  BY <1>2 DEF HandlerKnows, ToFile
<1> QED
  BY <1>1, <1>2 DEF IsAbout

\* Handlers that only ask or mark.
LEMMA KnowsEnough ==
  ASSUME NEW g, ~IsAbout(g), g.pc \notin {"cut", "store"},
         g.kind = "command" \/ g.pc \in {"ask", "asked"} => g.section \in Section,
         g.pc = "asked" => asked' = g.section,
         g.kind = "message" => g.pc = "mark"
  PROVE  HandlerKnows(g)'
BY DEF HandlerKnows, IsAbout, ToFile

\* A handler goes on, or ends: what there is to show of it.
LEMMA GoesFollow ==
  ASSUME OnceInv, FollowInv, hurried = 0, NEW h \in handlers, NEW g,
         Becomes(h, g), HandlerKnows(g)', up', ~torn',
         ListsFollow', QuestionKnown', UNCHANGED <<messages, events, hurried>>
  PROVE  FollowInv'
<1>1. handlers' = {g}
  BY Waited DEF Becomes
<1>2. MessagesInOrder'
  BY Waited DEF MessagesInOrder
<1> QED
  BY <1>1, <1>2 DEF FollowInv

LEMMA EndsFollow ==
  ASSUME OnceInv, FollowInv, hurried = 0, NEW h \in handlers, Ends(h),
         up', ~torn', ListsFollow', QuestionKnown', UNCHANGED <<messages, events, hurried>>
  PROVE  FollowInv'
<1>1. handlers' = {}
  BY Waited DEF Ends
<1>2. MessagesInOrder'
  BY Waited DEF MessagesInOrder
<1> QED
  BY <1>1, <1>2 DEF FollowInv

\* A handler that is about no message leaves the lists alone.
LEMMA AskingFollows ==
  ASSUME OnceInv, FollowInv, hurried = 0, NEW h \in handlers, ~IsAbout(h), NEW g, ~IsAbout(g),
         Ends(h) \/ (Becomes(h, g) /\ HandlerKnows(g)'),
         QuestionKnown', UNCHANGED <<slices, heap, messages, events, hurried, up, torn>>
  PROVE  FollowInv'
<1>1. handlers = {h} /\ ListsFollow /\ UNCHANGED lists /\ up /\ ~torn
  BY Waited, ListsStay
<1>2. handlers' = {} \/ handlers' = {g}
  BY <1>1 DEF Ends, Becomes
<1>3. UNCHANGED Unsettled
  BY <1>1, <1>2, UnsettledNow, UnsettledNext, UnsettledNone
<1>4. ListsFollow'
  BY <1>1, <1>3, FollowsOn
<1> QED
  BY <1>1, <1>4, GoesFollow, EndsFollow

LEMMA KnowsStill ==
  ASSUME NEW h, HandlerKnows(h), UNCHANGED <<asked, slices, heap, messages>>
  PROVE  HandlerKnows(h)'
<1>0. UNCHANGED lists
  BY ListsStay
<1>1. /\ UNCHANGED <<Range(messages), ToFile(h), Items(h.slice)>>
      /\ \A s : UNCHANGED Listed(h.msg, s)
  BY <1>0 DEF Range, ToFile, Listed, Items
<1> QED
  BY <1>0, <1>1 DEF HandlerKnows

\* A handler that has loaded the list to which its message is to go, or has found its item.
LEMMA LoadedFollows ==
  ASSUME OnceInv, FollowInv, hurried = 0, NEW h \in handlers, h.pc = "start", IsAbout(h),
         NEW g, Becomes(h, g), g.id = h.id, g.kind = h.kind, g.msg = h.msg,
         g.pc = "store" \/ (g.pc = "cut" /\ g.kind = "redaction"),
         g.section \in Section, g.slice = slices[g.section],
         ToFile(h) => g.section = asked,
         ~ToFile(h) => /\ g.place \in DOMAIN lists[g.section]
                       /\ IsOf(g.msg, lists[g.section][g.place]),
         UNCHANGED <<flowVars, roomVars, countVars, runVars>>
  PROVE  FollowInv'
<1>0. UNCHANGED <<asked, state, slices, heap, messages, events, hurried, up, torn>>
  BY DEF flowVars, roomVars, countVars, runVars
<1>1. /\ handlers = {h} /\ HandlerKnows(h) /\ ListsFollow /\ QuestionKnown /\ up /\ ~torn
      /\ UNCHANGED lists
  BY <1>0, Waited, ListsStay
<1>2. handlers' = {g}
  BY <1>1 DEF Becomes
<1>3. IsAbout(g) /\ (ToFile(g) <=> ToFile(h))
  BY DEF IsAbout, ToFile
<1>4. UNCHANGED Unsettled
  BY <1>1, <1>2, <1>3, UnsettledNow, UnsettledNext
<1>5. ListsFollow'
  BY <1>0, <1>1, <1>4, FollowsOn
<1>6. QuestionKnown'
  BY <1>0, <1>1, <1>2 DEF QuestionKnown
<1>7. HandlerKnows(g)'
  <2>1. /\ g.kind = "message" \/ g.kind \in {"edit", "redaction"}
        /\ g.kind = "message" => ToFile(h)
    BY <1>3 DEF IsAbout, ToFile
  <2>2. ToFile(g) =>
          /\ [id |-> g.msg, question |-> asked, text |-> g.id, redacted |-> FALSE]
               \in Range(messages)
          /\ \A m \in Range(messages) : m.id <= g.msg
          /\ g.section = asked
    BY <1>1, <1>3 DEF HandlerKnows
  <2>3. Items(g.slice) = lists[g.section]
    BY DEF lists
  <2>4. g.kind = "edit" =>
          \E m \in Range(messages) :
            /\ m.id = g.msg /\ m.text = g.id /\ ~m.redacted
            /\ \A t \in Section : Listed(g.msg, t) <=> m.question = t
    BY <1>1 DEF HandlerKnows
  <2>5. g.kind = "redaction" => \E m \in Range(messages) : m.id = g.msg /\ m.redacted
    BY <1>1 DEF HandlerKnows
  <2>6. g.kind # "message" => ~ToFile(h)
    BY DEF ToFile
  <2>7. HandlerKnows(g)
    BY <2>1, <2>2, <2>3, <2>4, <2>5, <2>6 DEF HandlerKnows
  <2> QED
    BY <1>0, <2>7, KnowsStill
<1> QED
  BY <1>0, <1>1, <1>5, <1>6, <1>7, GoesFollow

\* A handler that finds nothing to do.
LEMMA DropsFollow ==
  ASSUME OnceInv, FollowInv, hurried = 0, NEW h \in handlers, h.pc = "start", IsAbout(h), Ends(h),
         \A s \in Section : ~Listed(h.msg, s),
         ToFile(h) => asked \notin Section,
         UNCHANGED <<flowVars, roomVars, countVars, runVars>>
  PROVE  FollowInv'
<1>0. UNCHANGED <<asked, state, slices, heap, messages, events, hurried, up, torn>>
  BY DEF flowVars, roomVars, countVars, runVars
<1>1. /\ handlers = {h} /\ HandlerKnows(h) /\ ListsFollow /\ QuestionKnown /\ MessagesInOrder
      /\ messages \in Seq(Message) /\ events \in Nat /\ UNCHANGED lists /\ up /\ ~torn
      /\ \A s \in Section : lists[s] \in ItemList /\ InOrder(lists[s])
  BY <1>0, Waited, ListsStay
<1>2. PICK m \in Range(messages) :
        /\ m.id = h.msg
        /\ \A s \in Section : ~(m.question = s /\ ~m.redacted)
  BY <1>1, AboutMessage DEF IsAbout
<1>3. Unsettled = {m.id} /\ Unsettled' = {}
  BY <1>1, <1>2, UnsettledNow, UnsettledNone DEF Ends
<1>4. ASSUME NEW s \in Section
      PROVE  /\ InOrder(lists'[s])
             /\ Range(lists'[s]) = {x \in Range(lists[s]) : x.msg # m.id}
                  \cup (IF m.question = s /\ ~m.redacted THEN {Item(m.id, m.text)} ELSE {})
  <2>1. \A x \in Range(lists[s]) : x.msg # m.id
    BY <1>2 DEF Listed, IsOf, Range
  <2> QED
    BY <1>1, <1>2, <2>1
<1>5. ListsFollow'
  BY <1>0, <1>1, <1>3, <1>4, FollowsAgain
<1>6. QuestionKnown'
  BY <1>0, <1>1 DEF QuestionKnown
<1> QED
  BY <1>0, <1>1, <1>5, <1>6, EndsFollow

\* A handler that stores the list, with its message entered, changed or taken out.
LEMMA StoresFollow ==
  ASSUME OnceInv, FollowInv, hurried = 0, NEW h \in handlers, h.pc = "store", IsAbout(h),
         NEW m \in Range(messages), m.id = h.msg, NEW new, InOrder(new),
         lists'[h.section] = new,
         \A s \in Section \ {h.section} : lists'[s] = lists[s],
         Range(new) = {x \in Range(lists[h.section]) : x.msg # m.id}
           \cup (IF m.question = h.section /\ ~m.redacted THEN {Item(m.id, m.text)} ELSE {}),
         \A s \in Section \ {h.section} : ~Listed(m.id, s) /\ ~(m.question = s /\ ~m.redacted),
         UNCHANGED messages, Unsettled' = {}
  PROVE  ListsFollow'
<1>1. /\ handlers = {h} /\ ListsFollow /\ MessagesInOrder
      /\ messages \in Seq(Message) /\ events \in Nat
      /\ \A s \in Section : InOrder(lists[s])
  BY Waited
<1>2. Unsettled = {m.id}
  BY <1>1, UnsettledNow
<1>3. ASSUME NEW s \in Section
      PROVE  /\ InOrder(lists'[s])
             /\ Range(lists'[s]) = {x \in Range(lists[s]) : x.msg # m.id}
                  \cup (IF m.question = s /\ ~m.redacted THEN {Item(m.id, m.text)} ELSE {})
  <2>1. CASE s = h.section
    BY <2>1
  <2>2. CASE s # h.section
    <3>1. lists'[s] = lists[s]
      BY <2>2
    <3>2. \A x \in Range(lists[s]) : x.msg # m.id
      BY <2>2 DEF Listed, IsOf, Range
    <3> QED
      BY <1>1, <2>2, <3>1, <3>2
  <2> QED
    BY <2>1, <2>2
<1> QED
  BY <1>1, <1>2, <1>3, FollowsAgain

\* The lists after a step, as the headers and the arrays have them then.
ListsAre == /\ lists \in [Section -> ItemList]
            /\ \A s \in Section :
                 /\ DOMAIN lists[s] = 1 .. slices[s].len /\ Len(lists[s]) = slices[s].len
                 /\ \A i \in 1 .. slices[s].len : lists[s][i] = heap[slices[s].array][i]

LEMMA ListsNext ==
  TypeOK' =>
    /\ lists' \in [Section -> ItemList]
    /\ \A s \in Section :
         /\ DOMAIN lists'[s] = 1 .. slices'[s].len /\ Len(lists'[s]) = slices'[s].len
         /\ \A i \in 1 .. slices'[s].len : lists'[s][i] = heap'[slices'[s].array][i]
<1>1. TypeOK => ListsAre
  BY ListsTyped DEF ListsAre
<1>2. TypeOK' => ListsAre'
  BY <1>1, PTL
<1> QED
  BY <1>2 DEF ListsAre

\* What is written into an array of one section leaves the other lists alone.
LEMMA OthersStay ==
  ASSUME TypeOK, Intact, NEW t \in Section, NEW x \in Owned(t), x.array \in 1 .. Len(heap),
         \A b \in 1 .. Len(heap) : b # x.array => heap'[b] = heap[b],
         NEW s \in Section \ {t}, slices'[s] = slices[s]
  PROVE  lists'[s] = lists[s]
<1>1. slices[s] \in Slice /\ Fits(slices[s]) /\ slices[s] \in Owned(s)
  BY DEF TypeOK, Owned
<1>2. slices[s].array # x.array
  <2>1. slices[s].array = x.array => slices[s].array = 0
    BY <1>1 DEF Intact, Apart
  <2>2. x.array # 0
    BY HeapPlaces
  <2> QED
    BY <2>1, <2>2
<1>3. \A i \in 1 .. slices[s].len : heap'[slices[s].array][i] = heap[slices[s].array][i]
  BY <1>1, <1>2, FitsItems
<1>4. /\ lists[s] = [i \in 1 .. slices[s].len |-> heap[slices[s].array][i]]
      /\ lists'[s] = [i \in 1 .. slices'[s].len |-> heap'[slices'[s].array][i]]
  BY DEF lists, Items
<1> QED
  BY <1>3, <1>4

\* append copies the items before it stores them: nobody sees that.
LEMMA GrowFollows ==
  ASSUME OnceInv, FollowInv, hurried = 0, NEW h \in handlers, Grow(h)
  PROVE  FollowInv'
<1>1. /\ handlers = {h} /\ HandlerKnows(h) /\ ListsFollow /\ QuestionKnown /\ up /\ ~torn
      /\ TypeOK
  BY Waited
<1>2. /\ h.kind = "message" /\ h.pc = "store" /\ h.section \in Section
      /\ h.slice \in Slice /\ Fits(h.slice)
      /\ \A a \in 1 .. Len(heap) : heap'[a] = heap[a]
  BY <1>1, GrowCells
<1>3. PICK g \in Handlers :
        /\ Becomes(h, g) /\ g.id = h.id /\ g.msg = h.msg /\ g.kind = "message"
        /\ g.pc = "store" /\ g.section = h.section
        /\ g.slice = [array |-> Len(heap) + 1, len |-> h.slice.len]
        /\ \A i \in 1 .. h.slice.len : heap'[Len(heap) + 1][i] = heap[h.slice.array][i]
  BY <1>1, GrowCells
<1>4. UNCHANGED <<asked, state, slices, messages, events, hurried, up, torn>>
  BY DEF Grow, roomVars, countVars, runVars
<1>5. UNCHANGED lists
  <2>1. ASSUME NEW s \in Section
        PROVE  Items(slices[s])' = Items(slices[s])
    <3>1. slices[s] \in Slice /\ Fits(slices[s])
      BY <1>1 DEF TypeOK
    <3>2. \A i \in 1 .. slices[s].len : heap'[slices[s].array][i] = heap[slices[s].array][i]
      BY <1>1, <1>2, <3>1, FitsItems
    <3> QED
      BY <1>4, <3>2 DEF Items
  <2> QED
    BY <2>1 DEF lists
<1>6. /\ handlers' = {g} /\ IsAbout(g) /\ IsAbout(h) /\ ToFile(g) /\ ToFile(h)
      /\ g.msg = h.msg
  BY <1>1, <1>2, <1>3 DEF Becomes, IsAbout, ToFile
<1>7. UNCHANGED Unsettled
  BY <1>1, <1>6, UnsettledNow, UnsettledNext
<1>8. ListsFollow'
  BY <1>1, <1>4, <1>5, <1>7, FollowsOn
<1>9. QuestionKnown'
  BY <1>1, <1>2, <1>4, <1>6 DEF QuestionKnown
<1>10. Items(g.slice)' = Items(h.slice)
  <2>1. g.slice.array = Len(heap) + 1 /\ g.slice.len = h.slice.len
    BY <1>3
  <2>2. Items(g.slice)' = [i \in 1 .. h.slice.len |-> heap'[Len(heap) + 1][i]]
    BY <2>1 DEF Items
  <2> QED
    BY <1>3, <2>2 DEF Items
<1>11. HandlerKnows(g)'
  <2>1. Range(messages)' = Range(messages) /\ ToFile(g)'
    BY <1>4, <1>6 DEF Range, ToFile
  <2>2. /\ [id |-> g.msg, question |-> asked, text |-> g.id, redacted |-> FALSE] \in Range(messages)
        /\ \A m \in Range(messages) : m.id <= g.msg
        /\ g.section = asked /\ Items(h.slice) = lists[asked]
    BY <1>1, <1>2, <1>3, <1>6 DEF HandlerKnows
  <2> QED
    BY <1>3, <1>4, <1>5, <1>10, <2>1, <2>2 DEF HandlerKnows
<1> QED
  BY <1>1, <1>3, <1>4, <1>8, <1>9, <1>11, GoesFollow

LEMMA AppendFollows ==
  ASSUME OnceInv, FollowInv, hurried = 0, NEW h \in handlers, AppendItem(h)
  PROVE  FollowInv'
<1>1. /\ handlers = {h} /\ h \in Handlers /\ HandlerKnows(h) /\ QuestionKnown
      /\ MessagesInOrder /\ messages \in Seq(Message) /\ events \in Nat /\ ListsFollow
      /\ \A s \in Section : lists[s] \in ItemList /\ InOrder(lists[s])
      /\ ToFile(h) => \A s \in Section : ~InList(lists[s], h.msg)
      /\ TypeOK /\ Intact /\ up /\ ~torn
  BY Waited
<1>2. PICK x \in Slice : x = h.slice
  BY <1>1 DEF Handlers
<1>3. /\ h.kind = "message" /\ h.pc = "store" /\ h.section \in Section
      /\ x.array \in 1 .. Len(heap) /\ x.len \in Nat /\ x.len < Len(heap[x.array])
      /\ slices' = [slices EXCEPT ![h.section] = [array |-> x.array, len |-> x.len + 1]]
      /\ heap'[x.array][x.len + 1] = Item(h.msg, h.id)
      /\ \A i \in 1 .. Len(heap[x.array]) : i # x.len + 1 => heap'[x.array][i] = heap[x.array][i]
      /\ \A b \in 1 .. Len(heap) : b # x.array => heap'[b] = heap[b]
  BY <1>1, <1>2, AppendCells
<1>4. /\ ToFile(h) /\ IsAbout(h) /\ Len(heap[x.array]) \in Nat
      /\ UNCHANGED <<state, asked, messages, events, hurried, up>>
  BY <1>1, <1>3, HeapPlaces DEF AppendItem, ToFile, IsAbout, roomVars, countVars
<1>5. ~torn'
  BY <1>1 DEF AppendItem, Tears
<1>6. PICK g \in Handlers : Becomes(h, g) /\ g.kind = "message" /\ g.pc = "mark"
  BY <1>1, AppendType
<1>7. TypeOK'
  BY <1>1, AppendType
<1>8. PICK list \in ItemList : list = lists[h.section]
  BY <1>1, <1>3
<1>9. h.section = asked /\ Items(x) = list /\ InOrder(list)
  BY <1>1, <1>2, <1>3, <1>4, <1>8 DEF HandlerKnows
<1>10. Len(list) = x.len /\ DOMAIN list = 1 .. x.len /\ \A i \in 1 .. x.len : list[i] = heap[x.array][i]
  <2>1. DOMAIN list = 1 .. x.len /\ \A i \in 1 .. x.len : list[i] = heap[x.array][i]
    BY <1>9 DEF Items
  <2>2. DOMAIN list = 1 .. Len(list) /\ Len(list) \in Nat
    BY ItemsOf
  <2> QED
    BY <1>3, <2>1, <2>2, SameInterval
<1>11. PICK new \in ItemList : new = lists'[h.section]
  BY <1>3, <1>7, ListsNext
<1>12. PICK item \in ItemSet : item = Item(h.msg, h.id)
  BY <1>1 DEF Handlers, ItemSet, Item
<1>13. /\ Len(new) = Len(list) + 1 /\ new[Len(list) + 1] = item
       /\ \A i \in DOMAIN list : new[i] = list[i]
  <2>1. slices'[h.section] = [array |-> x.array, len |-> x.len + 1]
    BY <1>1, <1>3 DEF TypeOK
  <2>2. /\ Len(new) = x.len + 1
        /\ \A i \in 1 .. x.len + 1 : new[i] = heap'[x.array][i]
    BY <1>3, <1>7, <1>11, <2>1, ListsNext
  <2>3. x.len + 1 \in 1 .. x.len + 1
    BY <1>3
  <2>4. \A i \in 1 .. x.len : i \in 1 .. x.len + 1 /\ i # x.len + 1 /\ i \in 1 .. Len(heap[x.array])
    BY <1>3, <1>4
  <2> QED
    BY <1>3, <1>10, <1>12, <2>2, <2>3, <2>4
<1>14. \A s \in Section \ {h.section} : lists'[s] = lists[s]
  <2>1. x \in Owned(h.section)
    BY <1>2, <1>3 DEF Owned, Appending
  <2>2. \A s \in Section \ {h.section} : slices'[s] = slices[s]
    BY <1>1, <1>3 DEF TypeOK
  <2> QED
    BY <1>1, <1>3, <2>1, <2>2, OthersStay
<1>15. PICK m \in Range(messages) :
        m.id = h.msg /\ m.question = asked /\ ~m.redacted /\ m.text = h.id
  BY <1>1, <1>4, AboutMessage
<1>16. item.msg = h.msg /\ item = Item(m.id, m.text)
  BY <1>12, <1>15 DEF Item
<1>17. \A y \in Range(list) : y.msg # h.msg
  BY <1>1, <1>3, <1>4, <1>8 DEF InList, Range
<1>18. ASSUME NEW y \in Range(list)
      PROVE  y.msg < h.msg
  <2>1. y \in Said(h.section)
    <3>1. Unsettled = {h.msg}
      BY <1>1, <1>4, UnsettledNow
    <3>2. y \in Others(Range(lists[h.section]))
      BY <1>8, <1>17, <3>1 DEF Others
    <3> QED
      BY <1>1, <1>3, <3>2 DEF ListsFollow, Others
  <2>2. PICK n \in Range(messages) : y = Item(n.id, n.text)
    BY <2>1, SaidIs
  <2>3. n.id <= h.msg /\ n.id \in Nat /\ h.msg \in Nat
    BY <1>1, <1>4, MessageNumbers DEF HandlerKnows, Handlers
  <2> QED
    BY <1>17, <2>2, <2>3 DEF Item
<1>19. InOrder(new) /\ Range(new) = Range(list) \cup {item}
  BY <1>9, <1>13, <1>16, <1>18, AppendInOrder
<1>20. {y \in Range(lists[h.section]) : y.msg # m.id} = Range(list)
  BY <1>8, <1>15, <1>17
<1>21. \A s \in Section \ {h.section} : ~Listed(m.id, s) /\ ~(m.question = s /\ ~m.redacted)
  BY <1>1, <1>4, <1>9, <1>15 DEF InList, Listed, IsOf
<1>22. ~IsAbout(g) /\ HandlerKnows(g)'
  BY <1>6, KnowsEnough DEF IsAbout, ToFile
<1>23. handlers' = {g} /\ Unsettled' = {}
  BY <1>1, <1>6, <1>22, UnsettledNext DEF Becomes
<1>24. Range(new) = {y \in Range(lists[h.section]) : y.msg # m.id}
         \cup (IF m.question = h.section /\ ~m.redacted THEN {Item(m.id, m.text)} ELSE {})
  BY <1>9, <1>15, <1>16, <1>19, <1>20
<1>25. ListsFollow'
  BY <1>3, <1>4, <1>11, <1>14, <1>15, <1>19, <1>21, <1>23, <1>24, StoresFollow
<1>26. QuestionKnown'
  BY <1>1, <1>3, <1>4, <1>23 DEF QuestionKnown
<1> QED
  BY <1>1, <1>4, <1>5, <1>6, <1>22, <1>25, <1>26, GoesFollow

\* The message is where the handler has found it, and nowhere else.
LEMMA FoundOnce ==
  ASSUME OnceInv, FollowInv, hurried = 0, NEW h \in handlers, h.pc \in {"cut", "store"},
         h.kind \in {"edit", "redaction"}
  PROVE  /\ h.section \in Section /\ h.slice = slices[h.section]
         /\ lists[h.section] \in ItemList /\ InOrder(lists[h.section])
         /\ h.place \in DOMAIN lists[h.section]
         /\ lists[h.section][h.place].msg = h.msg
         /\ \A s \in Section \ {h.section} : ~Listed(h.msg, s)
<1>1. /\ h \in Handlers /\ HandlerKnows(h) /\ HandlerOK(h) /\ TypeOK /\ Intact
      /\ \A s \in Section : lists[s] \in ItemList /\ InOrder(lists[s])
  BY Waited
<1>2. /\ h.section \in Section /\ h.slice = slices[h.section]
      /\ h.place \in DOMAIN lists[h.section] /\ lists[h.section][h.place].msg = h.msg
  BY <1>1 DEF HandlerKnows, HandlerOK, IsOf
<1>3. ASSUME NEW s \in Section \ {h.section}, Listed(h.msg, s) PROVE FALSE
  <2>1. Has(slices[s], h.msg) /\ Has(slices[h.section], h.msg)
    BY <1>1, <1>2, <1>3, ListsTyped DEF Listed, IsOf, Has
  <2>2. slices[s] \in Owned(s) /\ slices[h.section] \in Owned(h.section) /\ h.msg \in Nat
    BY <1>1 DEF Owned, Handlers
  <2> QED
    BY <1>1, <1>2, <2>1, <2>2 DEF Intact, Apart
<1> QED
  BY <1>1, <1>2, <1>3

LEMMA EditFollows ==
  ASSUME OnceInv, FollowInv, hurried = 0, NEW h \in handlers, EditItem(h)
  PROVE  FollowInv'
<1>1. /\ handlers = {h} /\ HandlerKnows(h) /\ QuestionKnown
      /\ TypeOK /\ Intact /\ up /\ ~torn
  BY Waited
<1>2. TypeOK'
  BY OnceStep DEF OnceInv, Next, Handler
<1>3. PICK x \in Slice : x = h.slice
  BY <1>1 DEF TypeOK, Handlers
<1>4. /\ h.kind = "edit" /\ h.pc = "store" /\ h.section \in Section
      /\ h.place \in 1 .. x.len /\ x.array \in 1 .. Len(heap) /\ h.place \in 1 .. Len(heap[x.array])
      /\ heap'[x.array][h.place] = Item(heap[x.array][h.place].msg, h.id)
      /\ \A i \in 1 .. Len(heap[x.array]) : i # h.place => heap'[x.array][i] = heap[x.array][i]
      /\ \A b \in 1 .. Len(heap) : b # x.array => heap'[b] = heap[b]
      /\ Fits(x)
  BY <1>1, <1>3, EditCells
<1>5. /\ IsAbout(h) /\ Ends(h)
      /\ UNCHANGED <<state, asked, slices, messages, events, hurried, up, torn>>
  BY <1>4 DEF EditItem, IsAbout, roomVars, countVars, runVars
<1>6. /\ x = slices[h.section] /\ lists[h.section] \in ItemList /\ InOrder(lists[h.section])
      /\ h.place \in DOMAIN lists[h.section] /\ lists[h.section][h.place].msg = h.msg
      /\ \A s \in Section \ {h.section} : ~Listed(h.msg, s)
  BY <1>3, <1>4, FoundOnce
<1>7. PICK list \in ItemList : list = lists[h.section]
  BY <1>6
<1>8. PICK new \in ItemList : new = lists'[h.section]
  BY <1>2, <1>4, ListsNext
<1>9. /\ DOMAIN new = DOMAIN list /\ new[h.place] = Item(list[h.place].msg, h.id)
      /\ \A i \in DOMAIN list : i # h.place => new[i] = list[i]
  <2>1. /\ DOMAIN list = 1 .. x.len /\ \A i \in 1 .. x.len : list[i] = heap[x.array][i]
    BY <1>1, <1>4, <1>6, <1>7, ListsTyped
  <2>2. /\ DOMAIN new = 1 .. x.len /\ \A i \in 1 .. x.len : new[i] = heap'[x.array][i]
    BY <1>2, <1>4, <1>5, <1>6, <1>8, ListsNext
  <2>3. \A i \in 1 .. x.len : i \in 1 .. Len(heap[x.array])
    BY <1>1, <1>4, FitsItems
  <2> QED
    BY <1>4, <2>1, <2>2, <2>3
<1>10. \A s \in Section \ {h.section} : lists'[s] = lists[s]
  <2>1. x \in Owned(h.section)
    BY <1>6 DEF Owned
  <2> QED
    BY <1>1, <1>4, <1>5, <2>1, OthersStay
<1>11. PICK m \in Range(messages) :
        /\ m.id = h.msg /\ m.text = h.id /\ ~m.redacted
        /\ \A s \in Section : Listed(h.msg, s) <=> m.question = s
  BY <1>1, <1>4, <1>5, AboutMessage
<1>12. InOrder(new)
       /\ Range(new) = {y \in Range(list) : y.msg # h.msg} \cup {Item(h.msg, h.id)}
  BY <1>6, <1>7, <1>9, EditInOrder
<1>13. Listed(h.msg, h.section)
  BY <1>6 DEF Listed, IsOf
<1>14. Range(new) = {y \in Range(lists[h.section]) : y.msg # m.id}
        \cup (IF m.question = h.section /\ ~m.redacted THEN {Item(m.id, m.text)} ELSE {})
  BY <1>4, <1>7, <1>11, <1>12, <1>13
<1>15. Unsettled' = {}
  BY <1>1, <1>5, UnsettledNone DEF Ends
<1>16. \A s \in Section \ {h.section} : ~Listed(m.id, s) /\ ~(m.question = s /\ ~m.redacted)
  BY <1>6, <1>11
<1>17. ListsFollow'
  BY <1>4, <1>5, <1>8, <1>10, <1>11, <1>12, <1>14, <1>15, <1>16, StoresFollow
<1>18. QuestionKnown'
  BY <1>1, <1>4, <1>5 DEF QuestionKnown
<1> QED
  BY <1>1, <1>5, <1>17, <1>18, EndsFollow

\* The place that HandleRedaction has found is still there.
LEMMA CutFollows ==
  ASSUME OnceInv, FollowInv, hurried = 0, NEW h \in handlers, Cut(h)
  PROVE  FollowInv'
<1>1. /\ handlers = {h} /\ h \in Handlers /\ HandlerKnows(h) /\ QuestionKnown /\ ListsFollow
      /\ TypeOK /\ up /\ ~torn
  BY Waited
<1>2. h.kind = "redaction" /\ h.pc = "cut" /\ IsAbout(h)
  BY DEF Cut, At, IsAbout
<1>3. /\ h.section \in Section /\ h.slice = slices[h.section]
      /\ h.place \in DOMAIN lists[h.section] /\ lists[h.section][h.place].msg = h.msg
  BY <1>2, FoundOnce
<1>4. h.place <= slices[h.section].len
  BY <1>1, <1>3, ListsTyped
<1>5. PICK g : g = [h EXCEPT !.pc = "store", !.slice = slices[h.section]]
  OBVIOUS
<1>6. /\ g.id = h.id /\ g.msg = h.msg /\ g.kind = "redaction" /\ g.pc = "store"
      /\ g.section = h.section /\ g.slice = slices[h.section] /\ g.place = h.place
  BY <1>1, <1>2, <1>5 DEF Handlers
<1>7. Becomes(h, g) /\ UNCHANGED <<asked, state, slices, heap, messages, events, hurried, up, torn>>
  BY <1>4, <1>5 DEF Cut, Becomes, flowVars, roomVars, countVars
<1>8. IsAbout(g) /\ ~ToFile(g) /\ ~ToFile(h) /\ handlers' = {g} /\ UNCHANGED lists
  BY <1>1, <1>2, <1>6, <1>7, ListsStay DEF IsAbout, ToFile, Becomes
<1>9. UNCHANGED Unsettled
  BY <1>1, <1>2, <1>6, <1>8, UnsettledNow, UnsettledNext
<1>10. ListsFollow'
  BY <1>1, <1>7, <1>8, <1>9, FollowsOn
<1>11. QuestionKnown'
  BY <1>1, <1>2, <1>7, <1>8 DEF QuestionKnown
<1>12. HandlerKnows(g)'
  <2>1. \E m \in Range(messages) : m.id = g.msg /\ m.redacted
    BY <1>1, <1>2, <1>6 DEF HandlerKnows
  <2>2. HandlerKnows(g)
    BY <1>3, <1>6, <1>8, <2>1 DEF HandlerKnows, IsOf
  <2> QED
    BY <1>7, <2>2, KnowsStill
<1> QED
  BY <1>1, <1>7, <1>10, <1>11, <1>12, GoesFollow

LEMMA RemoveFollows ==
  ASSUME OnceInv, FollowInv, hurried = 0, NEW h \in handlers, RemoveItem(h)
  PROVE  FollowInv'
<1>1. /\ handlers = {h} /\ HandlerKnows(h) /\ QuestionKnown
      /\ TypeOK /\ Intact /\ up /\ ~torn
  BY Waited
<1>2. TypeOK'
  BY <1>1, RemoveType
<1>3. PICK x \in Slice : x = h.slice
  BY <1>1 DEF TypeOK, Handlers
<1>4. /\ h.kind = "redaction" /\ h.pc = "store" /\ h.section \in Section
      /\ x.array \in 1 .. Len(heap) /\ x.len \in Nat \ {0}
      /\ slices' = [slices EXCEPT ![h.section] = [array |-> x.array, len |-> x.len - 1]]
      /\ \A i \in 1 .. x.len - 1 : /\ heap'[x.array][i] = heap[x.array][Old(i, h.place)]
                                   /\ Old(i, h.place) \in 1 .. x.len
      /\ \A b \in 1 .. Len(heap) : b # x.array => heap'[b] = heap[b]
  BY <1>1, <1>3, RemoveCells
<1>5. /\ IsAbout(h) /\ Ends(h)
      /\ UNCHANGED <<state, asked, messages, events, hurried, up>>
  BY <1>4 DEF RemoveItem, IsAbout, roomVars, countVars
<1>6. ~torn'
  BY <1>1 DEF RemoveItem, Tears
<1>7. /\ x = slices[h.section] /\ lists[h.section] \in ItemList /\ InOrder(lists[h.section])
      /\ h.place \in DOMAIN lists[h.section] /\ lists[h.section][h.place].msg = h.msg
      /\ \A s \in Section \ {h.section} : ~Listed(h.msg, s)
  BY <1>3, <1>4, FoundOnce
<1>8. PICK list \in ItemList : list = lists[h.section]
  BY <1>7
<1>9. PICK new \in ItemList : new = lists'[h.section]
  BY <1>2, <1>4, ListsNext
<1>10. /\ Len(new) = Len(list) - 1
       /\ \A i \in DOMAIN new : /\ Old(i, h.place) \in DOMAIN list
                                /\ new[i] = list[Old(i, h.place)]
  <2>1. /\ DOMAIN list = 1 .. x.len /\ Len(list) = x.len
        /\ \A i \in 1 .. x.len : list[i] = heap[x.array][i]
    BY <1>1, <1>4, <1>7, <1>8, ListsTyped
  <2>2. slices'[h.section] = [array |-> x.array, len |-> x.len - 1]
    BY <1>1, <1>4 DEF TypeOK
  <2>3. /\ DOMAIN new = 1 .. x.len - 1 /\ Len(new) = x.len - 1
        /\ \A i \in 1 .. x.len - 1 : new[i] = heap'[x.array][i]
    BY <1>2, <1>4, <1>9, <2>2, ListsNext
  <2> QED
    BY <1>4, <2>1, <2>3
<1>11. \A s \in Section \ {h.section} : lists'[s] = lists[s]
  <2>1. x \in Owned(h.section)
    BY <1>7 DEF Owned
  <2>2. \A s \in Section \ {h.section} : slices'[s] = slices[s]
    BY <1>1, <1>4 DEF TypeOK
  <2> QED
    BY <1>1, <1>4, <2>1, <2>2, OthersStay
<1>12. PICK m \in Range(messages) : m.id = h.msg /\ m.redacted
  BY <1>1, <1>4, <1>5, AboutMessage
<1>13. InOrder(new) /\ Range(new) = {y \in Range(list) : y.msg # h.msg}
  BY <1>7, <1>8, <1>10, RemoveInOrder
<1>14. Range(new) = {y \in Range(lists[h.section]) : y.msg # m.id}
        \cup (IF m.question = h.section /\ ~m.redacted THEN {Item(m.id, m.text)} ELSE {})
  BY <1>8, <1>12, <1>13
<1>15. Unsettled' = {}
  BY <1>1, <1>5, UnsettledNone DEF Ends
<1>16. \A s \in Section \ {h.section} : ~Listed(m.id, s) /\ ~(m.question = s /\ ~m.redacted)
  BY <1>7, <1>12
<1>17. ListsFollow'
  BY <1>4, <1>5, <1>9, <1>11, <1>12, <1>13, <1>14, <1>15, <1>16, StoresFollow
<1>18. QuestionKnown'
  BY <1>1, <1>4, <1>5 DEF QuestionKnown
<1> QED
  BY <1>1, <1>5, <1>6, <1>17, <1>18, EndsFollow

\* HandleMessage, HandleEdit and HandleRedaction, up to the list that they load.
LEMMA LoadsFollow ==
  ASSUME OnceInv, FollowInv, hurried = 0, NEW h \in handlers, HandleMessage(h) \/ FindItem(h)
  PROVE  FollowInv'
<1>1. /\ handlers = {h} /\ h \in Handlers /\ QuestionKnown /\ TypeOK
      /\ ToFile(h) => \A s \in Section : ~InList(lists[s], h.msg)
      /\ \A s \in Section : slices[s] \in Slice
  BY Waited DEF TypeOK
<1>2. h.pc = "start" /\ UNCHANGED <<flowVars, roomVars, countVars, runVars>>
  BY DEF HandleMessage, FindItem, At
<1>3. asked = state \/ {asked, state} \cap Section = {}
  BY <1>1, <1>2 DEF QuestionKnown
<1>4. CASE HandleMessage(h)
  <2>1. ToFile(h) /\ IsAbout(h)
    BY <1>2, <1>4 DEF HandleMessage, At, ToFile, IsAbout
  <2>2. CASE state \in Section
    <3>1. PICK s \in Section : s = state
      BY <2>2
    <3>2. s = asked /\ Loaded(h, s)
      BY <1>3, <1>4, <3>1 DEF HandleMessage
    <3>3. PICK g \in Handlers :
            /\ Becomes(h, g) /\ g.id = h.id /\ g.msg = h.msg /\ g.kind = h.kind
            /\ g.pc = "store" /\ g.section = s /\ g.slice = slices[s]
      BY <1>1, <3>2, LoadedIs
    <3> QED
      BY <1>2, <2>1, <3>2, <3>3, LoadedFollows
  <2>3. CASE state \notin Section
    <3>1. Ends(h)
      BY <1>4, <2>3 DEF HandleMessage
    <3>2. asked \notin Section
      BY <1>3, <2>3
    <3>3. \A s \in Section : ~Listed(h.msg, s)
      BY <1>1, <2>1 DEF Listed, IsOf, InList
    <3> QED
      BY <1>2, <2>1, <3>1, <3>2, <3>3, DropsFollow
  <2> QED
    BY <2>2, <2>3
<1>5. CASE FindItem(h)
  <2>1. IsAbout(h) /\ ~ToFile(h) /\ h.kind \in {"edit", "redaction"}
    BY <1>5 DEF FindItem, ToFile, IsAbout
  <2>2. CASE \E s \in Section : \E i \in First(h.msg, lists[s]) : Found(h, s, i)
    <3>1. PICK s \in Section : \E i \in First(h.msg, lists[s]) : Found(h, s, i)
      BY <2>2
    <3>2. PICK i \in First(h.msg, lists[s]) : Found(h, s, i)
      BY <3>1
    <3>3. i \in DOMAIN lists[s] /\ IsOf(h.msg, lists[s][i])
      BY DEF First
    <3>4. i \in Nat
      BY <1>1, <3>3, ListsTyped
    <3>5. PICK g \in Handlers :
            /\ Becomes(h, g) /\ g.id = h.id /\ g.msg = h.msg /\ g.kind = h.kind
            /\ g.pc = (IF h.kind = "edit" THEN "store" ELSE "cut")
            /\ g.section = s /\ g.slice = slices[s] /\ g.place = i
      BY <1>1, <3>2, <3>4, FoundIs
    <3>6. g.pc = "store" \/ (g.pc = "cut" /\ g.kind = "redaction")
      BY <2>1, <3>5
    <3> QED
      BY <1>2, <2>1, <3>3, <3>5, <3>6, LoadedFollows
  <2>3. CASE (\A s \in Section : ~Listed(h.msg, s)) /\ Ends(h)
    BY <1>2, <2>1, <2>3, DropsFollow
  <2> QED
    BY <1>5, <2>2, <2>3 DEF FindItem
<1> QED
  BY <1>4, <1>5

\* What the room shows and the flow is at, while a handler asks or marks.
LEMMA AsksFollow ==
  ASSUME OnceInv, FollowInv, hurried = 0, NEW h \in handlers,
         \/ MarkItem(h) \/ HandleReaction(h) \/ GoOn(h) \/ HandleCommand(h)
         \/ Ask(h) \/ Asked(h) \/ ShowPreview(h)
  PROVE  FollowInv'
<1>1. handlers = {h} /\ h \in Handlers /\ HandlerKnows(h) /\ QuestionKnown
  BY Waited
<1>2. UNCHANGED <<slices, heap, messages, events, hurried, up, torn>>
  BY DEF MarkItem, HandleReaction, GoOn, HandleCommand, Ask, Asked, ShowPreview,
         flowVars, roomVars, countVars, runVars
<1>3. ~IsAbout(h)
  BY <1>1 DEF MarkItem, HandleReaction, GoOn, HandleCommand, Ask, Asked, ShowPreview, At,
              HandlerKnows, IsAbout, ToFile
<1>4. CASE h.pc \notin {"asked", "preview"} /\ UNCHANGED <<asked, state>> /\ Ends(h)
  <2>1. QuestionKnown'
    BY <1>1, <1>4 DEF QuestionKnown
  <2> QED
    BY <1>2, <1>3, <1>4, <2>1, AskingFollows
<1>5. ASSUME NEW g, Becomes(h, g),
             g.kind \in {"reaction", "command"} \/ (~IsAbout(g) /\ g.kind # "message"),
             g.pc \notin {"cut", "store"},
             g.kind = "command" \/ g.pc \in {"ask", "asked"} => g.section \in Section,
             g.pc = "asked" => asked' = g.section,
             \/ h.pc \notin {"asked", "preview"} /\ UNCHANGED <<asked, state>>
             \/ g.pc \in {"asked", "preview"}
      PROVE  FollowInv'
  <2>1. ~IsAbout(g) /\ g.kind # "message"
    BY <1>5 DEF IsAbout, ToFile
  <2>2. HandlerKnows(g)'
    BY <1>5, <2>1, KnowsEnough
  <2>3. handlers' = {g}
    BY <1>1, <1>5 DEF Becomes
  <2>4. QuestionKnown'
    BY <1>1, <1>5, <2>3 DEF QuestionKnown
  <2> QED
    BY <1>2, <1>3, <1>5, <2>1, <2>2, <2>4, AskingFollows
<1>6. CASE MarkItem(h)
  BY <1>4, <1>6 DEF MarkItem, At, roomVars
<1>7. CASE HandleReaction(h)
  <2>1. h.pc = "start" /\ h.kind = "reaction" /\ UNCHANGED <<asked, state>>
    BY <1>7 DEF HandleReaction, At, roomVars
  <2>2. CASE Goes(h, "read")
    <3>1. PICK g : g = [h EXCEPT !.pc = "read"]
      OBVIOUS
    <3>2. Becomes(h, g)
      BY <2>2, <3>1 DEF Goes, Becomes
    <3>3. g.kind = "reaction" /\ g.pc = "read"
      BY <1>1, <2>1, <3>1, NextStep
    <3> QED
      BY <1>5, <2>1, <3>2, <3>3
  <2>3. CASE Ends(h)
    BY <1>4, <2>1, <2>3
  <2> QED
    BY <1>7, <2>2, <2>3 DEF HandleReaction
<1>8. CASE GoOn(h)
  <2>1. h.pc = "read" /\ h.kind = "reaction" /\ UNCHANGED asked
    BY <1>8 DEF GoOn, At, roomVars
  <2>2. CASE Goes(h, "preview")
    <3>1. PICK g : g = [h EXCEPT !.pc = "preview"]
      OBVIOUS
    <3>2. Becomes(h, g)
      BY <2>2, <3>1 DEF Goes, Becomes
    <3>3. g.kind = "reaction" /\ g.pc = "preview"
      BY <1>1, <2>1, <3>1, NextStep
    <3> QED
      BY <1>5, <3>2, <3>3
  <2>3. CASE /\ state \in Section \ {"Notes"} /\ UNCHANGED state
             /\ handlers' = (handlers \ {h}) \cup
                              {[h EXCEPT !.pc = "ask", !.section = Following[state]]}
    <3>0. PICK s : s = Following[state]
      OBVIOUS
    <3>1. PICK g : g = [h EXCEPT !.pc = "ask", !.section = s]
      OBVIOUS
    <3>2. Becomes(h, g)
      BY <2>3, <3>0, <3>1 DEF Becomes
    <3>3. g.kind = "reaction" /\ g.pc = "ask" /\ g.section = Following[state]
      BY <1>1, <2>1, <3>0, <3>1 DEF Handlers
    <3>4. Following[state] \in Section
      BY <2>3 DEF Following, Section
    <3> QED
      BY <1>5, <2>1, <2>3, <3>2, <3>3, <3>4
  <2> QED
    BY <1>8, <2>2, <2>3 DEF GoOn
<1>9. CASE HandleCommand(h) \/ Ask(h)
  <2>1. /\ h.kind \notin {"message", "edit", "redaction"}
        /\ Ask(h) => h.section \in Section
    BY <1>1, <1>9 DEF HandleCommand, Ask, At, HandlerKnows
  <2>2. CASE HandleCommand(h)
    <3>1. PICK g : g = [h EXCEPT !.pc = "ask"]
      OBVIOUS
    <3>2. Becomes(h, g)
      BY <2>2, <3>1 DEF HandleCommand, Goes, Becomes
    <3>3. g.kind = "command" /\ g.pc = "ask" /\ g.section = h.section
      BY <1>1, <2>2, <3>1, NextStep DEF HandleCommand, At
    <3>4. h.pc = "start" /\ UNCHANGED <<asked, state>>
      BY <2>2 DEF HandleCommand, At, roomVars, flowVars
    <3>5. h.section \in Section
      BY <1>1, <2>2 DEF HandleCommand, At, HandlerKnows
    <3> QED
      BY <1>5, <3>2, <3>3, <3>4, <3>5
  <2>3. CASE Ask(h)
    <3>1. PICK g : g = [h EXCEPT !.pc = "asked"]
      OBVIOUS
    <3>2. Becomes(h, g) /\ asked' = h.section
      BY <2>3, <3>1 DEF Ask, Goes, Becomes
    <3>3. g.kind = h.kind /\ g.pc = "asked" /\ g.section = h.section
      BY <1>1, <3>1, NextStep
    <3>4. ~IsAbout(g) /\ g.kind # "message"
      BY <2>1, <3>3 DEF IsAbout, ToFile
    <3> QED
      BY <1>5, <2>1, <2>3, <3>2, <3>3, <3>4
  <2> QED
    BY <1>9, <2>2, <2>3
<1>10. CASE Asked(h) \/ ShowPreview(h)
  <2>1. CASE Asked(h)
    <3>1. asked' = asked /\ asked = h.section /\ state' = h.section
      BY <1>1, <2>1 DEF Asked, HandlerKnows, roomVars
    <3>2. Ends(h) /\ QuestionKnown'
      BY <2>1, <3>1 DEF Asked, QuestionKnown
    <3> QED
      BY <1>2, <1>3, <3>2, AskingFollows
  <2>2. CASE ShowPreview(h)
    <3>1. asked' \notin Section /\ state' \notin Section
      BY <2>2 DEF ShowPreview, Section
    <3>2. Ends(h) /\ QuestionKnown'
      BY <2>2, <3>1 DEF ShowPreview, QuestionKnown
    <3> QED
      BY <1>2, <1>3, <3>2, AskingFollows
  <2> QED
    BY <1>10, <2>1, <2>2
<1> QED
  BY <1>6, <1>7, <1>8, <1>9, <1>10

LEMMA HandlerFollows ==
  ASSUME OnceInv, FollowInv, NEW h \in handlers, Handler(h)
  PROVE  FollowInv'
<1>1. UNCHANGED hurried
  BY DEF Handler, HandleMessage, Grow, AppendItem, MarkItem, FindItem, EditItem, Cut, RemoveItem,
         HandleReaction, GoOn, HandleCommand, Ask, Asked, ShowPreview, countVars
<1>2. CASE hurried # 0
  BY <1>1, <1>2 DEF FollowInv
<1>3. CASE hurried = 0
  BY <1>3, LoadsFollow, GrowFollows, AppendFollows, EditFollows, CutFollows, RemoveFollows,
     AsksFollow DEF Handler
<1> QED
  BY <1>2, <1>3

-----------------------------------------------------------------------------
(* The user, who has waited for the bot. *)

\* Nothing is left to do when a user who waits sends another event.
LEMMA BeginsAlone ==
  ASSUME OnceInv, FollowInv, NEW kind, NEW msg, NEW section, Begins(kind, msg, section),
         hurried' = 0
  PROVE  /\ hurried = 0 /\ up' /\ ~torn'
         /\ \A s \in Section : Range(lists[s]) = Said(s) /\ InOrder(lists[s])
         /\ asked = state \/ {asked, state} \cap Section = {}
         /\ \E g : /\ handlers' = {g} /\ g.id = events + 1 /\ g.kind = kind /\ g.pc = "start"
                   /\ g.msg = msg /\ g.section = section
<1>1. hurried \in Nat
  BY DEF FollowInv
<1>2. handlers = {} /\ hurried = 0
  BY <1>1 DEF Begins
<1>3. ListsFollow /\ QuestionKnown /\ up' /\ ~torn'
  BY <1>2, Waited DEF Begins, runVars
<1>4. Unsettled = {}
  BY <1>2, UnsettledNone
<1>5. \A s \in Section : Range(lists[s]) = Said(s) /\ InOrder(lists[s])
  BY <1>3, <1>4 DEF ListsFollow, Others
<1>6. asked = state \/ {asked, state} \cap Section = {}
  BY <1>2, <1>3 DEF QuestionKnown
<1>7. PICK g : g = [id |-> events + 1, kind |-> kind, pc |-> "start", msg |-> msg,
                    section |-> section, slice |-> Nil, place |-> 0]
  OBVIOUS
<1>8. handlers' = {g}
  BY <1>2, <1>7 DEF Begins
<1>9. /\ g.id = events + 1 /\ g.kind = kind /\ g.pc = "start" /\ g.msg = msg
      /\ g.section = section
  BY <1>7
<1> QED
  BY <1>2, <1>3, <1>5, <1>6, <1>8, <1>9

\* One event more, for a user who may hurry or not.
LEMMA SendsFollow ==
  ASSUME OnceInv, FollowInv, NEW kind, NEW msg, NEW section, Begins(kind, msg, section),
         UNCHANGED <<asked, state>>,
         hurried' = 0 => /\ ListsFollow' /\ MessagesInOrder'
                         /\ \A h \in handlers' : HandlerKnows(h)'
  PROVE  FollowInv'
<1>1. hurried' \in Nat
  BY DEF FollowInv, Begins
<1>2. CASE hurried' = 0
  <2>1. up' /\ ~torn' /\ \A g, h \in handlers' : g = h
    BY <1>2, BeginsAlone
  <2>2. QuestionKnown'
    BY <1>2, BeginsAlone DEF QuestionKnown
  <2> QED
    BY <1>1, <1>2, <2>1, <2>2 DEF FollowInv
<1> QED
  BY <1>1, <1>2 DEF FollowInv

\* Only what the room says of one message changes.
LEMMA OneMessageChanges ==
  ASSUME \A s \in Section : Range(lists[s]) = Said(s) /\ InOrder(lists[s]),
         UNCHANGED lists, NEW id, Unsettled' = {id},
         \A m : m.id # id => (m \in Range(messages') <=> m \in Range(messages))
  PROVE  ListsFollow'
<1> SUFFICES ASSUME NEW s \in Section
             PROVE  Others(Range(lists[s]))' = Others(Said(s))'
  BY DEF ListsFollow, InOrder
<1>1. Range(lists[s])' = Said(s)
  BY DEF Range
<1>2. \A i, t : Item(i, t).msg = i
  BY DEF Item
<1>3. \A x : x.msg # id => (x \in Said(s)' <=> x \in Said(s))
  <2>1. \A x : x \in Said(s)' <=>
          \E m \in Range(messages') : m.question = s /\ ~m.redacted /\ x = Item(m.id, m.text)
    BY DEF Said, Range
  <2> QED
    BY <1>2, <2>1, SaidIs
<1> QED
  BY <1>1, <1>3 DEF Others

LEMMA WriteFollows ==
  ASSUME OnceInv, FollowInv, WriteMessage
  PROVE  FollowInv'
<1> DEFINE new == [id |-> events + 1, question |-> asked, text |-> events + 1, redacted |-> FALSE]
<1>1. /\ Begins("message", events + 1, "none")
      /\ messages' = Append(messages, new)
      /\ UNCHANGED <<asked, state, lists>>
  BY ListsStay DEF WriteMessage, flowVars
<1>2. SUFFICES ASSUME hurried' = 0
               PROVE  /\ ListsFollow' /\ MessagesInOrder'
                      /\ \A h \in handlers' : HandlerKnows(h)'
  <2> HIDE DEF new
  <2> QED
    BY <1>1, SendsFollow
<1>3. /\ hurried = 0 /\ \A s \in Section : Range(lists[s]) = Said(s) /\ InOrder(lists[s])
  BY <1>1, <1>2, BeginsAlone
<1>4. PICK g : /\ handlers' = {g} /\ g.kind = "message" /\ g.pc = "start"
               /\ g.msg = events + 1 /\ g.id = events + 1
  BY <1>1, <1>2, BeginsAlone
<1>5. /\ MessagesInOrder /\ messages \in Seq(Message) /\ events \in Nat /\ events' = events + 1
  BY <1>1, <1>3, Waited DEF Begins
<1>6. /\ DOMAIN messages = 1 .. Len(messages) /\ Len(messages) \in Nat
      /\ DOMAIN messages' = 1 .. Len(messages) + 1
      /\ \A i \in DOMAIN messages : messages'[i] = messages[i]
      /\ messages'[Len(messages) + 1] = new
  BY <1>1, <1>5
<1>7. new.id = events + 1
  OBVIOUS
<1>8. \A m \in Range(messages) : m.id \in 1 .. events
  BY <1>5, MessageNumbers
<1>9. new = [id |-> g.msg, question |-> asked, text |-> g.id, redacted |-> FALSE]
  BY <1>4
<1> HIDE DEF new
<1>10. Range(messages') = Range(messages) \cup {new}
  BY <1>6 DEF Range
<1>11. MessagesInOrder'
  <2>1. \A i \in DOMAIN messages : messages[i].id \in 1 .. events
    BY <1>5 DEF MessagesInOrder
  <2>2. \A i \in DOMAIN messages' : i \in DOMAIN messages \/ i = Len(messages) + 1
    BY <1>6
  <2>3. \A i \in DOMAIN messages' : messages'[i].id \in 1 .. events + 1
    BY <1>5, <1>6, <1>7, <2>1, <2>2
  <2>4. ASSUME NEW i \in DOMAIN messages', NEW j \in DOMAIN messages', i < j
        PROVE  messages'[i].id < messages'[j].id
    <3>1. i \in DOMAIN messages
      BY <1>6, <2>2, <2>4
    <3>2. CASE j \in DOMAIN messages
      BY <1>5, <1>6, <2>4, <3>1, <3>2 DEF MessagesInOrder
    <3>3. CASE j = Len(messages) + 1
      BY <1>5, <1>6, <1>7, <2>1, <3>1, <3>3
    <3> QED
      BY <2>2, <3>2, <3>3
  <2> QED
    BY <1>5, <2>3, <2>4 DEF MessagesInOrder
<1>12. ListsFollow'
  <2>1. Unsettled' = {events + 1}
    BY <1>4, UnsettledNext DEF IsAbout, ToFile
  <2>2. \A m : m.id # events + 1 => (m \in Range(messages') <=> m \in Range(messages))
    BY <1>7, <1>10
  <2> QED
    BY <1>1, <1>3, <2>1, <2>2, OneMessageChanges
<1>13. HandlerKnows(g)'
  <2>1. Range(messages)' = Range(messages') /\ asked' = asked
    BY <1>1 DEF Range
  <2>2. new \in Range(messages') /\ \A m \in Range(messages') : m.id <= g.msg
    BY <1>4, <1>5, <1>7, <1>8, <1>10
  <2> QED
    BY <1>4, <1>9, <2>1, <2>2 DEF HandlerKnows
<1> QED
  BY <1>4, <1>11, <1>12, <1>13

LEMMA ChangeFollows ==
  ASSUME OnceInv, FollowInv, NEW j \in DOMAIN messages, EditMessage(j) \/ RedactMessage(j)
  PROVE  FollowInv'
<1>1. PICK kind \in {"edit", "redaction"} :
        /\ Begins(kind, messages[j].id, "none")
        /\ kind = "edit"      => EditMessage(j)
        /\ kind = "redaction" => RedactMessage(j)
  BY DEF EditMessage, RedactMessage
<1>2. UNCHANGED <<asked, state, lists>> /\ ~messages[j].redacted
  BY ListsStay DEF EditMessage, RedactMessage, flowVars
<1>3. SUFFICES ASSUME hurried' = 0
               PROVE  /\ ListsFollow' /\ MessagesInOrder'
                      /\ \A h \in handlers' : HandlerKnows(h)'
  BY <1>1, <1>2, SendsFollow
<1>4. /\ hurried = 0 /\ \A s \in Section : Range(lists[s]) = Said(s) /\ InOrder(lists[s])
  BY <1>1, <1>3, BeginsAlone
<1>5. PICK g : /\ handlers' = {g} /\ g.kind = kind /\ g.pc = "start"
               /\ g.msg = messages[j].id /\ g.id = events + 1
  BY <1>1, <1>3, BeginsAlone
<1>6. /\ MessagesInOrder /\ messages \in Seq(Message) /\ events \in Nat /\ events' = events + 1
  BY <1>1, <1>4, Waited DEF Begins
<1>7. messages[j] \in Message /\ messages[j] \in Range(messages)
  BY <1>6 DEF Range
<1>8. PICK new : /\ messages' = [messages EXCEPT ![j] = new]
                 /\ new.id = messages[j].id /\ new.question = messages[j].question
                 /\ kind = "edit" => new.text = g.id /\ ~new.redacted
                 /\ kind = "redaction" => new.redacted
  <2>1. CASE kind = "edit"
    <3>1. PICK new : new = [messages[j] EXCEPT !.text = events + 1]
      OBVIOUS
    <3>2. messages' = [messages EXCEPT ![j] = new]
      BY <1>1, <2>1, <3>1 DEF EditMessage
    <3>3. /\ new.id = messages[j].id /\ new.question = messages[j].question
          /\ new.text = events + 1 /\ new.redacted = messages[j].redacted
      BY <1>7, <3>1 DEF Message
    <3> QED
      BY <1>2, <1>5, <2>1, <3>2, <3>3
  <2>2. CASE kind = "redaction"
    <3>1. PICK new : new = [messages[j] EXCEPT !.redacted = TRUE]
      OBVIOUS
    <3>2. messages' = [messages EXCEPT ![j] = new]
      BY <1>1, <2>2, <3>1 DEF RedactMessage
    <3>3. /\ new.id = messages[j].id /\ new.question = messages[j].question
          /\ new.redacted = TRUE
      BY <1>7, <3>1 DEF Message
    <3> QED
      BY <2>2, <3>2, <3>3
  <2> QED
    BY <2>1, <2>2
<1>9. /\ MessagesInOrder'
      /\ new \in Range(messages')
      /\ \A m : m.id # new.id => (m \in Range(messages') <=> m \in Range(messages))
  BY <1>6, <1>8, MessageChanges
<1>10. Unsettled' = {new.id}
  BY <1>5, <1>8, UnsettledNext DEF IsAbout
<1>11. ListsFollow'
  BY <1>2, <1>4, <1>9, <1>10, OneMessageChanges
<1>12. ASSUME NEW s \in Section
       PROVE  Listed(g.msg, s)' <=> messages[j].question = s
  <2>1. {x \in Said(s) : x.msg = messages[j].id}
          = IF messages[j].question = s /\ ~messages[j].redacted
            THEN {Item(messages[j].id, messages[j].text)} ELSE {}
    BY <1>6, <1>7, SaidOf
  <2>2. Listed(g.msg, s)' <=> \E x \in Range(lists[s]) : x.msg = messages[j].id
    BY <1>2, <1>5 DEF Listed, IsOf, Range
  <2>3. (\E x \in Said(s) : x.msg = messages[j].id) <=> messages[j].question = s
    BY <1>2, <2>1
  <2> QED
    BY <1>4, <2>2, <2>3
<1>13. HandlerKnows(g)'
  <2>1. Range(messages)' = Range(messages') /\ ~ToFile(g)' /\ g.kind \in {"edit", "redaction"}
    BY <1>5 DEF Range, ToFile
  <2>2. g.kind = "edit" =>
          /\ new.id = g.msg /\ new.text = g.id /\ ~new.redacted
          /\ \A s \in Section : Listed(g.msg, s)' <=> new.question = s
    BY <1>5, <1>8, <1>12
  <2>3. g.kind = "redaction" => new.id = g.msg /\ new.redacted
    BY <1>5, <1>8
  <2> QED
    BY <1>5, <1>9, <2>1, <2>2, <2>3 DEF HandlerKnows
<1> QED
  BY <1>5, <1>9, <1>11, <1>13

\* Check marks and !su edit say nothing new.
LEMMA SignFollows ==
  ASSUME OnceInv, FollowInv,
         \/ \E id : PutCheckMark(id)
         \/ \E s \in Section : EditCommand(s)
  PROVE  FollowInv'
<1>1. PICK kind, msg, section :
        /\ kind \in {"reaction", "command"}
        /\ Begins(kind, msg, section)
        /\ kind = "command" => section \in Section
  BY DEF PutCheckMark, EditCommand
<1>2. UNCHANGED <<asked, state, lists, messages>>
  BY ListsStay DEF PutCheckMark, EditCommand, flowVars, roomVars
<1>3. SUFFICES ASSUME hurried' = 0
               PROVE  /\ ListsFollow' /\ MessagesInOrder'
                      /\ \A h \in handlers' : HandlerKnows(h)'
  BY <1>1, <1>2, SendsFollow
<1>4. /\ hurried = 0 /\ \A s \in Section : Range(lists[s]) = Said(s) /\ InOrder(lists[s])
  BY <1>1, <1>3, BeginsAlone
<1>5. PICK g : /\ handlers' = {g} /\ g.kind = kind /\ g.pc = "start"
               /\ g.kind = "command" => g.section \in Section
  BY <1>1, <1>3, BeginsAlone
<1>6. /\ MessagesInOrder /\ events \in Nat /\ events' = events + 1
  BY <1>1, <1>4, Waited DEF Begins
<1>7. MessagesInOrder'
  BY <1>2, <1>6 DEF MessagesInOrder
<1>8. ~IsAbout(g) /\ HandlerKnows(g)'
  <2>1. g.kind \notin {"message", "edit", "redaction"}
    BY <1>1, <1>5
  <2>2. ~IsAbout(g)
    BY <2>1 DEF IsAbout, ToFile
  <2> QED
    BY <1>5, <2>1, <2>2, KnowsEnough
<1>9. Unsettled' = {}
  BY <1>5, <1>8, UnsettledNext
<1>10. ListsFollow'
  BY <1>2, <1>4, <1>9 DEF ListsFollow, Others, Said, Range, InOrder
<1> QED
  BY <1>5, <1>7, <1>8, <1>10

LEMMA UserFollows ==
  ASSUME OnceInv, FollowInv, User
  PROVE  FollowInv'
BY WriteFollows, ChangeFollows, SignFollows DEF User

-----------------------------------------------------------------------------
(* The lists are what the room says. *)

LEMMA FollowInit == Init => FollowInv
<1> SUFFICES ASSUME Init PROVE FollowInv
  OBVIOUS
<1>1. PICK g : g = [id |-> 0, kind |-> "command", pc |-> "ask", msg |-> 0, section |-> "Done",
                    slice |-> Nil, place |-> 0]
  OBVIOUS
<1>2. handlers = {g}
  BY <1>1 DEF Init
<1>3. g.kind = "command" /\ g.pc = "ask" /\ g.section \in Section
  BY <1>1 DEF Section
<1>4. \A s \in Section : DOMAIN lists[s] = {}
  <2>1. \A s \in Section : slices[s].len = 0
    BY DEF Init, Nil
  <2> QED
    BY <2>1 DEF lists, Items
<1>5. Range(messages) = {}
  BY DEF Init, Range
<1>6. ListsFollow
  <2>1. \A s : Said(s) = {}
    BY <1>5 DEF Said
  <2>2. \A s \in Section : Range(lists[s]) = {} /\ InOrder(lists[s])
    BY <1>4 DEF Range, InOrder
  <2> QED
    BY <2>1, <2>2 DEF ListsFollow, Others
<1>7. MessagesInOrder
  BY DEF Init, MessagesInOrder
<1>8. QuestionKnown
  BY DEF Init, QuestionKnown, Section
<1>9. HandlerKnows(g)
  BY <1>3 DEF HandlerKnows, ToFile
<1> QED
  BY <1>2, <1>6, <1>7, <1>8, <1>9 DEF FollowInv, Init

LEMMA FollowStep == OnceInv /\ FollowInv /\ [Next]_vars => FollowInv'
<1> SUFFICES ASSUME OnceInv, FollowInv, [Next]_vars PROVE FollowInv'
  OBVIOUS
<1>1. CASE User
  BY <1>1, UserFollows
<1>2. CASE \E h \in handlers : Handler(h)
  BY <1>2, HandlerFollows
<1>3. CASE UNCHANGED vars
  <2>1. UNCHANGED <<asked, messages, events, hurried, state, slices, heap, handlers, up, torn, lists>>
    BY <1>3, ListsStay DEF vars, flowVars, roomVars, countVars, runVars
  <2>2. UNCHANGED <<ListsFollow, MessagesInOrder, QuestionKnown>>
    BY <2>1 DEF ListsFollow, MessagesInOrder, QuestionKnown, Others, Unsettled, ToFile, Said,
                Range, InOrder
  <2>3. \A h \in handlers : HandlerKnows(h) => HandlerKnows(h)'
    BY <2>1, KnowsStill
  <2> QED
    BY <2>1, <2>2, <2>3 DEF FollowInv
<1> QED
  BY <1>1, <1>2, <1>3 DEF Next

LEMMA FollowImplies == FollowInv => DraftFollowsRoom
<1> SUFFICES ASSUME FollowInv, hurried = 0
             PROVE  up /\ (Settled => \A s \in Section : Range(lists[s]) = Said(s) /\ InOrder(lists[s]))
  BY DEF DraftFollowsRoom
<1>1. up /\ ListsFollow /\ (Settled => Unsettled = {})
  BY UnsettledNone DEF Settled, FollowInv
<1> QED
  BY <1>1 DEF ListsFollow, Others

\* As long as the user waits for the bot, one goroutine runs at a time; what HandleMessage,
\* HandleEdit and HandleRedaction have loaded is what the flow has, the section in which
\* HandleMessage files a message is that of the question which the message answers, and but
\* for the one message that a goroutine has yet to file, to change or to take out, the
\* lists hold what the room says.
THEOREM FollowCorrect == Spec => []FollowInv
BY OnceInit, OnceStep, FollowInit, FollowStep, PTL DEF Spec

\* For a user who waits for the bot, the four lists of the flow are the messages of the
\* room under the questions that they answer, in their order and with the text of their
\* last edit: after any number of messages, edits, redactions, check marks and !su edit,
\* those that go back from the preview (GoToStateAndNotify, ShowMessagePreview) included.
THEOREM DraftFollowsCorrect == Spec => []DraftFollowsRoom
BY FollowCorrect, FollowImplies, PTL

=============================================================================
