---------------------------- MODULE SettingsProofs ----------------------------
(***************************************************************************)
(* Theorems about Settings, for any number of goroutines, rooms, values,   *)
(* commands, failures and restarts.                                        *)
(***************************************************************************)
EXTENDS Settings, FiniteSetTheorems, SequenceTheorems, TLAPS

-----------------------------------------------------------------------------
(* Values and rooms. *)

LEMMA NoValue ==
  ASSUME NEW k \in Setting
  PROVE  None \notin Values(k) /\ Empty \notin Values(k) /\ Unknown \notin Values(k)
         /\ None \notin Contents(k)
BY ValuesAssumption DEF Contents

\* Only "notify stop" writes {}.
LEMMA EmptyIsNotify ==
  ASSUME NEW k \in Setting, NEW v \in Contents(k)
  PROVE  /\ v = Empty => k = "notify"
         /\ v # Empty => v \in Values(k)
BY NoValue DEF Contents

LEMMA ValuesAreContents ==
  ASSUME NEW k \in Setting
  PROVE  Values(k) \subseteq Contents(k)
BY DEF Contents

\* In a finite set of rooms one is the last, whatever the order.
LEMMA LatestIn ==
  ASSUME NEW S, IsFiniteSet(S), NEW A \in SUBSET S, A # {}, NEW order \in [S -> Nat]
  PROVE  Latest(order, A) \in A
<1> DEFINE After(r) == {q \in A : order[q] > order[r]}
           T == {After(r) : r \in A}
           W == FiniteSubsetsOf(A)
           R == StrictSubsetOrdering(A)
<1>1. IsWellFoundedOn(R, W)
  BY FS_StrictSubsetOrderingWellFounded
<1>2. T \subseteq W /\ T # {}
  <2>1. IsFiniteSet(A)
    BY FS_Subset
  <2>2. W = SUBSET A
    BY <2>1, FS_FiniteSubsetsOfFinite
  <2> HIDE DEF W
  <2>3. \A r \in A : After(r) \in SUBSET A
    OBVIOUS
  <2> HIDE DEF After
  <2> QED
    BY <2>2, <2>3
<1>3. PICK X \in T : \A Y \in T : ~(<<Y, X>> \in R)
  <2> HIDE DEF T, W, R
  <2> QED
    BY <1>1, <1>2, WFMin
<1>4. PICK r \in A : X = After(r)
  OBVIOUS
<1>5. ASSUME NEW q \in A, order[q] > order[r] PROVE FALSE
  <2>1. After(q) \subseteq After(r) /\ q \in After(r) /\ q \notin After(q)
    BY <1>5
  <2>2. <<After(q), After(r)>> \in R
    BY <2>1 DEF StrictSubsetOrdering
  <2> QED
    BY <1>3, <1>4, <2>2
<1>6. \A q \in A : order[q] <= order[r]
  BY <1>5
<1> HIDE DEF After, T, W, R
<1>7. \E p \in A : \A q \in A : order[q] <= order[p]
  BY <1>6
<1> QED
  BY <1>7 DEF Latest

-----------------------------------------------------------------------------
(* Types. *)

LEMMA IdleOK == TaskOK(Idle)
<1> DEFINE V == (UNION {Contents(k) : k \in Setting}) \cup {None}
<1>1. None \in V
  OBVIOUS
<1> HIDE DEF V
<1>2. Idle \in [pc : {"idle", "write", "wrote", "read", "got", "leave"},
                kind : Setting \cup {None}, room : Rooms \cup {None}, val : V]
  BY <1>1 DEF Idle
<1>3. Idle \in Task
  BY <1>2 DEF Task, V
<1>4. Idle.pc = "idle" /\ Idle.kind = None
  BY DEF Idle
<1> QED
  BY <1>3, <1>4 DEF TaskOK

LEMMA ReadingOK ==
  ASSUME MemOK, NEW k \in Setting
  PROVE  LET t == [pc |-> "read", kind |-> k, room |-> config, val |-> None]
         IN TaskOK(t) /\ t.kind = k /\ t.pc = "read"
<1> DEFINE t == [pc |-> "read", kind |-> k, room |-> config, val |-> None]
           V == (UNION {Contents(j) : j \in Setting}) \cup {None}
<1>1. config \in Rooms \cup {None} /\ None \in V
  BY DEF MemOK
<1> HIDE DEF V
<1>2. t \in [pc : {"idle", "write", "wrote", "read", "got", "leave"},
             kind : Setting \cup {None}, room : Rooms \cup {None}, val : V]
  BY <1>1
<1>3. t.pc = "read" /\ t.kind = k
  OBVIOUS
<1> HIDE DEF t
<1>4. TaskOK(t)
  BY <1>2, <1>3 DEF TaskOK, Task, V
<1> QED
  BY <1>3, <1>4 DEF t

LEMMA WritingOK ==
  ASSUME NEW k \in Setting, NEW r \in Rooms, NEW v \in Contents(k)
  PROVE  /\ TaskOK(Writing(k, r, v)) /\ Writing(k, r, v).kind = k
         /\ Writing(k, r, v).pc = "write"
<1>1. v \in UNION {Contents(j) : j \in Setting}
  OBVIOUS
<1> QED
  BY <1>1 DEF TaskOK, Writing, Task

\* A goroutine gets a task.
LEMMA TaskSet ==
  ASSUME TasksOK, NEW w \in Workers, NEW t, TaskOK(t), task' = [task EXCEPT ![w] = t]
  PROVE  /\ TasksOK' /\ task'[w] = t
         /\ \A v \in Workers \ {w} : task'[v] = task[v]
<1>1. task' \in [Workers -> Task] /\ task'[w] = t /\ \A v \in Workers \ {w} : task'[v] = task[v]
  BY DEF TasksOK, TaskOK
<1>2. \A v \in Workers : TaskOK(task'[v])
  BY <1>1 DEF TasksOK
<1> QED
  BY <1>1, <1>2 DEF TasksOK, TaskOK

ToldOK == DOMAIN told = Setting /\ \A k \in Setting : told[k] \in Told(k)

LEMMA UntoldType ==
  ASSUME NEW k
  PROVE  Untold \in Told(k) /\ Untold.val = None /\ ~Untold.live
<1> DEFINE V == Contents(k) \cup {None}
<1>1. None \in V
  OBVIOUS
<1> HIDE DEF V
<1>2. Untold \in [val : V, room : Rooms \cup {None}, live : BOOLEAN]
  BY <1>1 DEF Untold
<1> QED
  BY <1>2 DEF Told, V, Untold

LEMMA CallType ==
  ASSUME TasksOK, raced \in SUBSET Setting, ToldOK, NEW w \in Workers, NEW t, TaskOK(t),
         t.kind \in Setting, Call(w, t)
  PROVE  /\ TasksOK' /\ raced' \in SUBSET Setting /\ ToldOK'
         /\ task'[w] = t /\ \A v \in Workers \ {w} : task'[v] = task[v]
         /\ \A k \in Setting \ {t.kind} : told'[k] = told[k] /\ (k \in raced' <=> k \in raced)
         /\ t.kind \notin raced' =>
              /\ Quiet(t.kind)
              /\ t.kind \notin raced => told'[t.kind] = told[t.kind]
              /\ t.kind \in raced => told'[t.kind] = Untold
<1> DEFINE k == t.kind
           new == IF Quiet(k) /\ k \in raced THEN Untold ELSE told[k]
<1>1. task' = [task EXCEPT ![w] = t]
  BY DEF Call
<1>2. raced' = IF Quiet(k) THEN raced \ {k} ELSE raced \cup {k}
  BY DEF Call
<1>3. told' = [told EXCEPT ![k] = new]
  BY DEF Call
<1>4. k \in Setting
  OBVIOUS
<1>5. new \in Told(k)
  BY <1>4, UntoldType DEF ToldOK
<1>6. new = IF Quiet(k) /\ k \in raced THEN Untold ELSE told[k]
  OBVIOUS
<1> HIDE DEF new
<1>7. TasksOK' /\ task'[w] = t /\ \A v \in Workers \ {w} : task'[v] = task[v]
  BY <1>1, TaskSet
<1> HIDE DEF k
<1>8. /\ ToldOK' /\ told'[k] = new
      /\ \A j \in Setting \ {k} : told'[j] = told[j] /\ (j \in raced' <=> j \in raced)
  BY <1>2, <1>3, <1>4, <1>5 DEF ToldOK
<1>9. raced' \in SUBSET Setting
  BY <1>2, <1>4
<1>10. k \notin raced' => Quiet(k)
  BY <1>2
<1> QED
  BY <1>6, <1>7, <1>8, <1>9, <1>10 DEF k

LEMMA ReturnType ==
  ASSUME TasksOK, NEW w \in Workers, Return(w)
  PROVE  /\ TasksOK' /\ raced' = raced
         /\ task'[w] = Idle /\ \A v \in Workers \ {w} : task'[v] = task[v]
BY IdleOK, TaskSet DEF Return

LEMMA LeaveType ==
  ASSUME TasksOK, NEW w \in Workers, NEW r \in Rooms, Leave(w, r)
  PROVE  /\ TasksOK' /\ raced' = raced /\ told' = told
         /\ task'[w].kind = None /\ task'[w].pc = "leave"
         /\ \A v \in Workers \ {w} : task'[v] = task[v]
<1> DEFINE t == [Idle EXCEPT !.pc = "leave", !.room = r]
           V == (UNION {Contents(k) : k \in Setting}) \cup {None}
<1>1. task' = [task EXCEPT ![w] = t] /\ raced' = raced /\ told' = told
  BY DEF Leave
<1>2. t \in Task
  <2>1. None \in V
    OBVIOUS
  <2> HIDE DEF V
  <2>2. t \in [pc : {"idle", "write", "wrote", "read", "got", "leave"},
               kind : Setting \cup {None}, room : Rooms \cup {None}, val : V]
    BY <2>1 DEF Idle
  <2> QED
    BY <2>2 DEF Task, V
<1>3. t.kind = None /\ t.pc = "leave"
  BY DEF Idle
<1> HIDE DEF t
<1>4. TaskOK(t)
  BY <1>2, <1>3 DEF TaskOK
<1> QED
  BY <1>1, <1>3, <1>4, TaskSet

\* The first part of what follows the name is empty.
LEMMA HeadOfConcat ==
  ASSUME NEW X, NEW e \in Seq(X), NEW s \in Seq(X), Len(e) = 1
  PROVE  Head(e \o s) = e[1]
<1> DEFINE x == e \o s
<1>1. /\ x \in Seq(X) /\ Len(x) = Len(e) + Len(s)
      /\ \A i \in 1 .. Len(e) + Len(s) : x[i] = IF i <= Len(e) THEN e[i] ELSE s[i - Len(e)]
  BY ConcatProperties
<1> HIDE DEF x
<1>2. Len(s) \in Nat
  OBVIOUS
<1>3. 1 \in 1 .. Len(e) + Len(s)
  BY <1>2
<1>4. x[1] = e[1]
  BY <1>1, <1>3
<1>5. x # <<>>
  BY <1>1, <1>2
<1>6. Head(x) = x[1]
  BY <1>1, <1>5
<1> QED
  BY <1>4, <1>6 DEF x
LEMMA HeadOfBlank ==
  ASSUME NEW S, NEW s \in Seq(S)
  PROVE  Head(<<"">> \o s) = ""
<1> DEFINE X == S \cup {""}
           e == <<"">>
<1>1. e \in Seq(X) /\ Len(e) = 1 /\ e[1] = ""
  OBVIOUS
<1>2. s \in Seq(X)
  BY SeqMonotonic
<1> HIDE DEF e, X
<1>3. Head(e \o s) = ""
  BY <1>1, <1>2, HeadOfConcat
<1> QED
  BY <1>3 DEF e

\* The commands there are.
LEMMA CommandForms ==
  ASSUME NEW words \in Command
  PROVE  \/ \E k \in Setting : \E v \in Values(k) \cup {Unknown} : words = <<k, v>>
         \/ words = <<"notify", Empty>>
         \/ words = <<"vanquish">> \/ words = <<"help">>
<1> DEFINE n == <<"notify", Empty>>
           a == <<"vanquish">>
           b == <<"help">>
           C(k) == {<<k, v>> : v \in Values(k) \cup {Unknown}}
<1>1. words \in (UNION {C(k) : k \in Setting}) \cup {n, a, b}
  BY DEF Command
<1> HIDE DEF n, a, b, C
<1>2. (\E k \in Setting : words \in C(k)) \/ words \in {n, a, b}
  BY <1>1
<1>3. ASSUME NEW k \in Setting, words \in C(k)
      PROVE  \E v \in Values(k) \cup {Unknown} : words = <<k, v>>
  BY <1>3 DEF C
<1>4. (\E k \in Setting : \E v \in Values(k) \cup {Unknown} : words = <<k, v>>) \/ words \in {n, a, b}
  BY <1>2, <1>3
<1>5. words \in {n, a, b} => words = n \/ words = a \/ words = b
  OBVIOUS
<1> QED
  BY <1>4, <1>5, Zenon DEF n, a, b

\* What a command with the name of a setting says: a value of the setting or {}, or
\* something that is refused.
LEMMA PartsType ==
  ASSUME NEW prefix \in Prefix, NEW words \in Command,
         Head(getCommandParts(prefix, words)) \in Setting
  PROVE  LET parts == getCommandParts(prefix, words)
         IN parts[2] \in Contents(Head(parts)) \cup {Unknown}
<1>1. prefix \in {"!su", "!standupbot"}
  <2> SUFFICES ASSUME prefix \notin {"!su", "!standupbot"} PROVE FALSE
    OBVIOUS
  <2>1. getCommandParts(prefix, words) = <<"">> \o words
    BY DEF getCommandParts
  <2>2. \E S : words \in Seq(S)
    <3>1. CASE \E k \in Setting : \E v \in Values(k) \cup {Unknown} : words = <<k, v>>
      <4>1. PICK k \in Setting : \E v \in Values(k) \cup {Unknown} : words = <<k, v>>
        BY <3>1
      <4>2. PICK v \in Values(k) \cup {Unknown} : words = <<k, v>>
        BY <4>1
      <4>3. words \in Seq({k, v})
        BY <4>2
      <4> QED
        BY <4>3
    <3>2. CASE words = <<"notify", Empty>>
      <4>1. words \in Seq({"notify", Empty})
        BY <3>2
      <4> QED
        BY <4>1
    <3>3. CASE words = <<"vanquish">> \/ words = <<"help">>
      <4>1. <<"vanquish">> \in Seq({"vanquish"}) /\ <<"help">> \in Seq({"help"})
        OBVIOUS
      <4> QED
        BY <3>3, <4>1
    <3> QED
      BY <3>1, <3>2, <3>3, CommandForms
  <2>3. PICK S : words \in Seq(S)
    BY <2>2
  <2>4. Head(<<"">> \o words) = ""
    BY <2>3, HeadOfBlank
  <2> QED
    BY <2>1, <2>4 DEF Setting
<1>2. getCommandParts(prefix, words) = words
  BY <1>1 DEF getCommandParts
<1>3. CASE \E k \in Setting : \E v \in Values(k) \cup {Unknown} : words = <<k, v>>
  <2>1. PICK k \in Setting : \E v \in Values(k) \cup {Unknown} : words = <<k, v>>
    BY <1>3
  <2>2. PICK v \in Values(k) \cup {Unknown} : words = <<k, v>>
    BY <2>1
  <2>3. Head(words) = k /\ words[2] = v
    BY <2>2
  <2> QED
    BY <1>2, <2>3, ValuesAreContents
<1>4. CASE words = <<"notify", Empty>>
  <2>1. Head(words) = "notify" /\ words[2] = Empty
    BY <1>4
  <2> QED
    BY <1>2, <2>1 DEF Contents
<1>5. CASE words = <<"vanquish">> \/ words = <<"help">>
  BY <1>2, <1>5 DEF Setting
<1> QED
  BY <1>3, <1>4, <1>5, CommandForms

\* Of each setting the start finds what some room stores, and a config room with it.
LEMMA RestartType ==
  ASSUME TypeOK, Restart
  PROVE  /\ \E Found \in [Setting -> SUBSET joined] : \A k \in Setting :
              /\ \A r \in Found[k] : stored[r][k] \in Values(k)
              /\ IF Found[k] = {} THEN cache'[k] = None
                 ELSE \E r \in Found[k] : cache'[k] = stored[r][k]
              /\ Found[k] # {} => config' # None
              /\ faults' = faults => Found[k] = {r \in joined : stored[r][k] \in Values(k)}
         /\ DOMAIN cache' = Setting
         /\ config' \in Rooms \cup {None}
<1>1. PICK order \in Bijection(joined, 1 .. Cardinality(joined)), missed \in Missed :
        /\ IF missed = {} THEN UNCHANGED faults ELSE Fault
        /\ LET Found(k) == {r \in joined : stored[r][k] \in Values(k) /\ <<r, k>> \notin missed}
               All      == UNION {Found(k) : k \in Setting}
           IN /\ cache' = [k \in Setting |->
                             IF Found(k) = {} THEN None ELSE stored[Latest(order, Found(k))][k]]
              /\ config' = IF All = {} THEN None ELSE Latest(order, All)
  BY DEF Restart
<1> DEFINE Found(k) == {r \in joined : stored[r][k] \in Values(k) /\ <<r, k>> \notin missed}
           All      == UNION {Found(k) : k \in Setting}
           found    == [k \in Setting |-> Found(k)]
<1>2. /\ cache' = [k \in Setting |->
                     IF Found(k) = {} THEN None ELSE stored[Latest(order, Found(k))][k]]
      /\ config' = IF All = {} THEN None ELSE Latest(order, All)
  BY <1>1
<1>12. faults' = faults => missed = {}
  BY <1>1 DEF Fault, TypeOK
<1>15. ASSUME NEW k \in Setting, faults' = faults
       PROVE  Found(k) = {r \in joined : stored[r][k] \in Values(k)}
  BY <1>12, <1>15
<1>3. joined \in SUBSET Rooms /\ IsFiniteSet(joined)
  BY RoomsAssumption, FS_Subset DEF TypeOK
<1>4. order \in [joined -> Nat]
  <2>1. order \in [joined -> 1 .. Cardinality(joined)]
    BY DEF Bijection, Injection
  <2>2. 1 .. Cardinality(joined) \subseteq Nat
    BY <1>3, FS_CardinalityType
  <2> QED
    BY <2>1, <2>2
<1>5. \A k \in Setting : Found(k) \in SUBSET joined /\ \A r \in Found(k) : stored[r][k] \in Values(k)
  OBVIOUS
<1> HIDE DEF Found
<1>6. All \in SUBSET joined
  BY <1>5
<1>7. ASSUME NEW A \in SUBSET joined, A # {} PROVE Latest(order, A) \in A
  BY <1>3, <1>4, <1>7, LatestIn
<1>8. config' \in Rooms \cup {None} /\ (All # {} => config' # None)
  <2>1. CASE All = {}
    BY <1>2, <2>1
  <2>2. CASE All # {}
    <3>1. config' \in joined
      BY <1>2, <1>6, <1>7, <2>2
    <3> QED
      BY <1>3, <3>1, ValuesAssumption
  <2> QED
    BY <2>1, <2>2
<1>9. ASSUME NEW k \in Setting, Found(k) # {} PROVE config' # None
  <2>1. All # {}
    BY <1>9
  <2> QED
    BY <1>8, <2>1
<1> HIDE DEF All
<1>10. ASSUME NEW k \in Setting
       PROVE  IF Found(k) = {} THEN cache'[k] = None
              ELSE \E r \in Found(k) : cache'[k] = stored[r][k]
  <2>1. cache'[k] = IF Found(k) = {} THEN None ELSE stored[Latest(order, Found(k))][k]
    BY <1>2
  <2>2. Found(k) # {} => Latest(order, Found(k)) \in Found(k)
    BY <1>5, <1>7
  <2> QED
    BY <2>1, <2>2
<1>11. found \in [Setting -> SUBSET joined] /\ \A k \in Setting : found[k] = Found(k)
  BY <1>5
<1>13. DOMAIN cache' = Setting
  BY <1>2
<1> HIDE DEF found
<1>14. \A k \in Setting :
         /\ \A r \in found[k] : stored[r][k] \in Values(k)
         /\ IF found[k] = {} THEN cache'[k] = None
            ELSE \E r \in found[k] : cache'[k] = stored[r][k]
         /\ found[k] # {} => config' # None
         /\ faults' = faults => found[k] = {r \in joined : stored[r][k] \in Values(k)}
  BY <1>5, <1>9, <1>10, <1>11, <1>15
<1> QED
  BY <1>8, <1>11, <1>13, <1>14

\* A command begins a write of a value of its setting, or ends, or leaves the room.
LEMMA HandleMessageMoves ==
  ASSUME NEW w \in Workers, NEW r \in Rooms, NEW c \in Commands,
         HandleMessage(w, r, c[1], c[2])
  PROVE  \/ \E k \in Setting : \E v \in Contents(k) : Call(w, Writing(k, r, v))
         \/ Refuses(w) \/ Leave(w, r)
<1> DEFINE parts == getCommandParts(c[1], c[2])
           name == Head(parts)
<1>1. c[1] \in Prefix /\ c[2] \in Command
  BY SettingsBounds
<1>2. name \in Setting => parts[2] \in Contents(name) \cup {Unknown}
  BY <1>1, PartsType
<1>3. \/ name = "tz"       /\ HandleTimezone(w, r, parts[2])
      \/ name = "notify"   /\ HandleNotify(w, r, parts[2])
      \/ name = "threads"  /\ HandleThreads(w, r, parts[2])
      \/ name = "room"     /\ HandleRoom(w, r, parts[2])
      \/ name = "vanquish" /\ Leave(w, r)
      \/ name \notin Setting \cup {"vanquish"} /\ Refuses(w)
  BY DEF HandleMessage
<1> HIDE DEF parts, name
<1>4. /\ "tz" \in Setting /\ "notify" \in Setting /\ "threads" \in Setting /\ "room" \in Setting
      /\ UTC \in Contents("tz")
  BY ValuesAssumption DEF Setting, Contents, Values
<1>5. CASE name = "tz" /\ HandleTimezone(w, r, parts[2])
  <2>1. Call(w, Writing("tz", r, UTC)) \/ (parts[2] # Unknown /\ Call(w, Writing("tz", r, parts[2])))
    BY <1>5 DEF HandleTimezone
  <2>2. parts[2] # Unknown => parts[2] \in Contents("tz")
    BY <1>2, <1>4, <1>5
  <2> QED
    BY <1>4, <2>1, <2>2
<1>6. CASE name = "notify" /\ HandleNotify(w, r, parts[2])
  BY <1>2, <1>4, <1>6 DEF HandleNotify
<1>7. CASE name = "threads" /\ HandleThreads(w, r, parts[2])
  BY <1>2, <1>4, <1>7 DEF HandleThreads
<1>8. CASE name = "room" /\ HandleRoom(w, r, parts[2])
  BY <1>2, <1>4, <1>8 DEF HandleRoom
<1> QED
  BY <1>3, <1>5, <1>6, <1>7, <1>8

LEMMA InitType == Init => TypeOK
<1> SUFFICES ASSUME Init PROVE TypeOK
  OBVIOUS
<1>1. StoredOK
  <2> DEFINE V == (UNION {Contents(k) : k \in Setting}) \cup {None}
  <2>1. None \in V
    OBVIOUS
  <2> HIDE DEF V
  <2>2. stored \in [Rooms -> [Setting -> V]] /\ \A r \in Rooms, k \in Setting : stored[r][k] = None
    BY <2>1 DEF Init
  <2> QED
    BY <2>2 DEF StoredOK, V
<1>2. MemOK
  BY UntoldType DEF Init, MemOK
<1>3. TasksOK
  <2>1. task \in [Workers -> Task] /\ \A w \in Workers : task[w] = Idle
    BY IdleOK DEF Init, TaskOK
  <2> QED
    BY <2>1, IdleOK DEF TasksOK
<1> QED
  BY <1>1, <1>2, <1>3 DEF TypeOK, Init

\* A task that moves on with the setting and the room it had.
LEMMA TaskMoves ==
  ASSUME TasksOK, NEW w \in Workers, task[w].pc \in {"write", "read"},
         NEW pc \in {"wrote", "got"}, NEW v \in Contents(task[w].kind),
         task[w].room \in Rooms,
         task' = [task EXCEPT ![w] = [@ EXCEPT !.pc = pc, !.val = v]]
  PROVE  /\ TasksOK'
         /\ task'[w].pc = pc /\ task'[w].kind = task[w].kind /\ task'[w].room = task[w].room
         /\ task'[w].val = v
         /\ \A u \in Workers \ {w} : task'[u] = task[u]
<1> DEFINE V == (UNION {Contents(j) : j \in Setting}) \cup {None}
           t == [task[w] EXCEPT !.pc = pc, !.val = v]
<1>1. task[w] \in Task /\ task[w].kind \in Setting
  BY DEF TasksOK, TaskOK
<1>2. v \in V
  BY <1>1
<1> HIDE DEF V
<1>3. task[w] \in [pc : {"idle", "write", "wrote", "read", "got", "leave"},
                   kind : Setting \cup {None}, room : Rooms \cup {None}, val : V]
  BY <1>1 DEF Task, V
<1>4. t.pc = pc /\ t.kind = task[w].kind /\ t.room = task[w].room /\ t.val = v
  BY <1>3
<1>5. t \in [pc : {"idle", "write", "wrote", "read", "got", "leave"},
             kind : Setting \cup {None}, room : Rooms \cup {None}, val : V]
  BY <1>2, <1>3
<1>6. task' = [task EXCEPT ![w] = t]
  OBVIOUS
<1> HIDE DEF t
<1>7. t \in Task
  BY <1>5 DEF Task, V
<1>8. TaskOK(t)
  BY <1>1, <1>4, <1>7 DEF TaskOK
<1> QED
  BY <1>4, <1>6, <1>8, TaskSet

LEMMA WroteMoves ==
  ASSUME TasksOK, NEW w \in Workers, task[w].pc = "write",
         task' = [task EXCEPT ![w] = [@ EXCEPT !.pc = "wrote"]]
  PROVE  /\ TasksOK'
         /\ task'[w].pc = "wrote" /\ task'[w].kind = task[w].kind /\ task'[w].room = task[w].room
         /\ task'[w].val = task[w].val
         /\ \A u \in Workers \ {w} : task'[u] = task[u]
<1> DEFINE V == (UNION {Contents(j) : j \in Setting}) \cup {None}
           pc == "wrote"
           t == [task[w] EXCEPT !.pc = pc]
<1>1. /\ task[w] \in Task /\ task[w].kind \in Setting
      /\ task[w].room \in Rooms /\ task[w].val \in Contents(task[w].kind)
  BY DEF TasksOK, TaskOK
<1>2. pc = "wrote" /\ task' = [task EXCEPT ![w] = t]
  OBVIOUS
<1> HIDE DEF V, pc
<1>3. task[w] \in [pc : {"idle", "write", "wrote", "read", "got", "leave"},
                   kind : Setting \cup {None}, room : Rooms \cup {None}, val : V]
  BY <1>1 DEF Task, V
<1>4. t.pc = pc /\ t.kind = task[w].kind /\ t.room = task[w].room /\ t.val = task[w].val
  BY <1>3
<1>5. t \in [pc : {"idle", "write", "wrote", "read", "got", "leave"},
             kind : Setting \cup {None}, room : Rooms \cup {None}, val : V]
  BY <1>2, <1>3
<1> HIDE DEF t
<1>6. TaskOK(t)
  BY <1>1, <1>2, <1>4, <1>5 DEF TaskOK, Task, V
<1> QED
  BY <1>2, <1>4, <1>6, TaskSet

\* A step that leaves the state events and the memory alone.
LEMMA MovesType ==
  ASSUME TypeOK, TasksOK', raced' \in SUBSET Setting, faults' \in Nat, ToldOK',
         UNCHANGED <<stored, joined, cache, config, unanswered, commands, restarts>>
  PROVE  TypeOK'
BY DEF TypeOK, StoredOK, MemOK, ToldOK

LEMMA GetType ==
  ASSUME TypeOK, NEW w \in Workers, NEW k \in Reads, Get(w, k)
  PROVE  TypeOK'
<1> DEFINE t == [pc |-> "read", kind |-> k, room |-> config, val |-> None]
<1>1. k \in Setting /\ MemOK /\ ToldOK
  BY SettingsBounds DEF TypeOK, MemOK, ToldOK
<1>2. TaskOK(t) /\ t.kind = k
  BY <1>1, ReadingOK
<1>3. Call(w, t)
  BY DEF Get
<1> HIDE DEF t
<1>4. TasksOK' /\ raced' \in SUBSET Setting /\ ToldOK'
  BY <1>1, <1>2, <1>3, CallType DEF TypeOK
<1>5. faults' \in Nat
  BY DEF Get, TypeOK, boundVars
<1> QED
  BY <1>4, <1>5, MovesType DEF Get, memVars, boundVars

LEMMA HandleMessageType ==
  ASSUME TypeOK, NEW w \in Workers, NEW r \in Rooms, NEW c \in Commands,
         HandleMessage(w, r, c[1], c[2])
  PROVE  TypeOK'
<1>0. ToldOK
  BY DEF TypeOK, MemOK, ToldOK
<1>1. TasksOK' /\ raced' \in SUBSET Setting /\ ToldOK'
  <2>1. CASE \E k \in Setting : \E v \in Contents(k) : Call(w, Writing(k, r, v))
    <3>0. PICK k \in Setting : \E v \in Contents(k) : Call(w, Writing(k, r, v))
      BY <2>1
    <3>1. PICK v \in Contents(k) : Call(w, Writing(k, r, v))
      BY <3>0
    <3>2. TaskOK(Writing(k, r, v)) /\ Writing(k, r, v).kind \in Setting
      BY WritingOK
    <3> QED
      BY <1>0, <3>1, <3>2, CallType DEF TypeOK
  <2>2. CASE Refuses(w)
    BY <1>0, <2>2, ReturnType DEF TypeOK, Refuses, ToldOK
  <2>3. CASE Leave(w, r)
    BY <1>0, <2>3, LeaveType DEF TypeOK, ToldOK
  <2> QED
    BY <2>1, <2>2, <2>3, HandleMessageMoves
<1>2. config' = r /\ UNCHANGED <<stored, joined, cache, unanswered, faults, restarts>>
  BY DEF HandleMessage, SetConfigRoom
<1>3. commands' \in Nat
  BY DEF HandleMessage, TypeOK
<1> QED
  BY <1>1, <1>2, <1>3 DEF TypeOK, StoredOK, MemOK, ToldOK

LEMMA ReadServedType ==
  ASSUME TypeOK, NEW w \in Workers, ReadServed(w)
  PROVE  /\ TypeOK' /\ task[w].kind \in Setting /\ task[w].room \in Rooms
         /\ task'[w].pc = "got" /\ task'[w].kind = task[w].kind
         /\ task'[w].room = task[w].room
         /\ task'[w].val = stored[task[w].room][task[w].kind]
         /\ \A u \in Workers \ {w} : task'[u] = task[u]
<1> DEFINE pc == "got"
           v == stored[task[w].room][task[w].kind]
<1>1. /\ task[w].kind \in Setting /\ task[w].room \in Rooms /\ task[w].pc = "read"
      /\ v # None
  BY DEF ReadServed, Readable, At, TypeOK, TasksOK, TaskOK
<1>2. v \in Contents(task[w].kind)
  BY <1>1 DEF TypeOK, StoredOK
<1>3. task' = [task EXCEPT ![w] = [@ EXCEPT !.pc = pc, !.val = v]]
  BY DEF ReadServed
<1>4. pc \in {"wrote", "got"} /\ pc = "got"
  OBVIOUS
<1>5. raced' \in SUBSET Setting /\ faults' \in Nat
  BY DEF ReadServed, TypeOK, ghostVars, boundVars
<1> HIDE DEF pc, v
<1>6. /\ TasksOK'
      /\ task'[w].pc = pc /\ task'[w].kind = task[w].kind /\ task'[w].room = task[w].room
      /\ task'[w].val = v
      /\ \A u \in Workers \ {w} : task'[u] = task[u]
  BY <1>1, <1>2, <1>3, <1>4, TaskMoves DEF TypeOK
<1>7. TypeOK'
  BY <1>5, <1>6, MovesType
  DEF ReadServed, memVars, ghostVars, boundVars, TypeOK, MemOK, ToldOK
<1> QED
  BY <1>1, <1>4, <1>6, <1>7 DEF v

LEMMA ReadFailedType ==
  ASSUME TypeOK, NEW w \in Workers, ReadFailed(w)
  PROVE  TypeOK'
<1>1. TasksOK' /\ raced' = raced
  BY ReturnType DEF ReadFailed, TypeOK
<1>2. faults' \in Nat
  BY DEF ReadFailed, Fault, TypeOK
<1> QED
  BY <1>1, <1>2, MovesType DEF ReadFailed, memVars, TypeOK, MemOK, ToldOK

LEMMA ReadAnsweredType ==
  ASSUME TypeOK, NEW w \in Workers, ReadAnswered(w)
  PROVE  TypeOK'
<1>1. TasksOK' /\ raced' = raced
  BY ReturnType DEF ReadAnswered, TypeOK
<1>2. task[w].kind \in Setting /\ task[w].val \in Contents(task[w].kind)
  BY DEF ReadAnswered, At, TypeOK, TasksOK, TaskOK
<1>3. task[w].val # Empty => task[w].val \in Values(task[w].kind)
  BY <1>2, EmptyIsNotify
<1>4. UNCHANGED <<stored, joined, config, told, unanswered, commands, faults, restarts>>
  BY DEF ReadAnswered, boundVars
<1>5. DOMAIN cache' = Setting /\ \A k \in Setting : cache'[k] \in Values(k) \cup {None}
  BY <1>2, <1>3 DEF ReadAnswered, TypeOK, MemOK
<1>6. MemOK'
  BY <1>4, <1>5 DEF TypeOK, MemOK
<1> QED
  BY <1>1, <1>4, <1>6 DEF TypeOK, StoredOK

LEMMA WriteServedMoves ==
  ASSUME TypeOK, NEW w \in Workers, WriteServed(w)
  PROVE  /\ TypeOK' /\ task[w].kind \in Setting /\ task[w].room \in Rooms
         /\ task'[w].pc = "wrote" /\ task'[w].kind = task[w].kind
         /\ task'[w].room = task[w].room /\ task'[w].val = task[w].val
         /\ \A u \in Workers \ {w} : task'[u] = task[u]
         /\ stored'[task[w].room][task[w].kind] = task[w].val
         /\ \A q \in Rooms, j \in Setting :
              q # task[w].room \/ j # task[w].kind => stored'[q][j] = stored[q][j]
<1>1. /\ task[w].pc = "write" /\ task[w].kind \in Setting /\ task[w].room \in Rooms
      /\ task[w].val \in Contents(task[w].kind)
  BY DEF WriteServed, At, TypeOK, TasksOK, TaskOK
<1>2. /\ TasksOK'
      /\ task'[w].pc = "wrote" /\ task'[w].kind = task[w].kind /\ task'[w].room = task[w].room
      /\ task'[w].val = task[w].val
      /\ \A u \in Workers \ {w} : task'[u] = task[u]
  BY <1>1, WroteMoves DEF WriteServed, TypeOK
<1>3. /\ StoredOK' /\ stored'[task[w].room][task[w].kind] = task[w].val
      /\ \A q \in Rooms, j \in Setting :
           q # task[w].room \/ j # task[w].kind => stored'[q][j] = stored[q][j]
  <2> DEFINE r == task[w].room
             k == task[w].kind
             v == task[w].val
  <2>1. stored' = [stored EXCEPT ![r] = [@ EXCEPT ![k] = v]]
    BY DEF WriteServed
  <2>2. r \in Rooms /\ k \in Setting /\ v \in Contents(k)
    BY <1>1
  <2> HIDE DEF r, k, v
  <2>3. /\ StoredOK' /\ stored'[r][k] = v
        /\ \A q \in Rooms, j \in Setting : q # r \/ j # k => stored'[q][j] = stored[q][j]
    <3> DEFINE V == (UNION {Contents(j) : j \in Setting}) \cup {None}
               row == [stored[r] EXCEPT ![k] = v]
    <3>1. stored \in [Rooms -> [Setting -> V]] /\ v \in V
      BY <2>2 DEF TypeOK, StoredOK
    <3> HIDE DEF V
    <3>2. row \in [Setting -> V] /\ row[k] = v /\ \A j \in Setting \ {k} : row[j] = stored[r][j]
      BY <2>2, <3>1
    <3>3. stored' = [stored EXCEPT ![r] = row]
      BY <2>1
    <3> HIDE DEF row
    <3>4. /\ stored' \in [Rooms -> [Setting -> V]] /\ stored'[r] = row
          /\ \A q \in Rooms \ {r} : stored'[q] = stored[q]
      BY <2>2, <3>1, <3>2, <3>3
    <3>5. \A q \in Rooms, j \in Setting : q # r \/ j # k => stored'[q][j] = stored[q][j]
      BY <3>2, <3>4
    <3>6. stored'[r][k] = v
      BY <3>2, <3>4
    <3>7. \A q \in Rooms, j \in Setting : stored'[q][j] \in Contents(j) \cup {None}
      BY <2>2, <3>5, <3>6 DEF TypeOK, StoredOK
    <3> QED
      BY <3>4, <3>5, <3>6, <3>7 DEF StoredOK, V
  <2> QED
    BY <2>3 DEF r, k, v
<1>4. UNCHANGED <<joined, cache, config, told, raced, unanswered, commands, faults, restarts>>
  BY DEF WriteServed, memVars, ghostVars, boundVars
<1>5. MemOK'
  BY <1>4 DEF TypeOK, MemOK
<1> QED
  BY <1>1, <1>2, <1>3, <1>4, <1>5 DEF TypeOK

LEMMA TellsType ==
  ASSUME ToldOK, NEW t, t.kind \in Setting, t.val \in Contents(t.kind), t.room \in Rooms, Tells(t)
  PROVE  /\ ToldOK'
         /\ told'[t.kind].val = t.val /\ told'[t.kind].room = t.room /\ told'[t.kind].live
         /\ \A k \in Setting \ {t.kind} : told'[k] = told[k]
<1> DEFINE new == [val |-> t.val, room |-> t.room, live |-> TRUE]
<1>1. told' = [told EXCEPT ![t.kind] = new]
  BY DEF Tells
<1>2. new \in Told(t.kind) /\ new.val = t.val /\ new.room = t.room /\ new.live
  BY DEF Told
<1> HIDE DEF new
<1> QED
  BY <1>1, <1>2 DEF ToldOK

LEMMA WriteAnsweredType ==
  ASSUME TypeOK, NEW w \in Workers, WriteAnswered(w)
  PROVE  TypeOK'
<1>1. TasksOK' /\ raced' = raced
  BY ReturnType DEF WriteAnswered, TypeOK
<1>2. /\ task[w].kind \in Setting /\ task[w].val \in Contents(task[w].kind)
      /\ task[w].room \in Rooms
  BY DEF WriteAnswered, At, TypeOK, TasksOK, TaskOK
<1>3. task[w].val # Empty => task[w].val \in Values(task[w].kind)
  BY <1>2, EmptyIsNotify
<1>4. UNCHANGED <<stored, joined, config, commands, faults, restarts>>
  BY DEF WriteAnswered, boundVars
<1>5. DOMAIN cache' = Setting /\ \A k \in Setting : cache'[k] \in Values(k) \cup {None}
  BY <1>2, <1>3 DEF WriteAnswered, TypeOK, MemOK
<1>6. ToldOK'
  BY <1>2, TellsType DEF WriteAnswered, TypeOK, MemOK, ToldOK
<1>7. MemOK'
  BY <1>4, <1>5, <1>6 DEF TypeOK, MemOK, ToldOK
<1>8. unanswered' \in SUBSET Setting
  BY DEF WriteAnswered, TypeOK
<1> QED
  BY <1>1, <1>4, <1>7, <1>8 DEF TypeOK, StoredOK

\* A "notify stop" has failed: what was told of the others, and what of this one, stays.
LEMMA NotLive ==
  ASSUME ToldOK, told' = [told EXCEPT !["notify"].live = FALSE]
  PROVE  /\ ToldOK'
         /\ \A k \in Setting : told'[k].val = told[k].val /\ told'[k].room = told[k].room
         /\ ~told'["notify"].live
         /\ \A k \in Setting \ {"notify"} : told'[k] = told[k]
<1> DEFINE k == "notify"
           new == [told[k] EXCEPT !.live = FALSE]
<1>1. k \in Setting /\ told[k] \in Told(k)
  BY DEF Setting, ToldOK
<1>2. new \in Told(k) /\ new.val = told[k].val /\ new.room = told[k].room /\ ~new.live
  BY <1>1 DEF Told
<1>3. told' = [told EXCEPT ![k] = new]
  OBVIOUS
<1> HIDE DEF new
<1>4. k = "notify"
  OBVIOUS
<1> HIDE DEF k
<1>5. ToldOK' /\ told'[k] = new /\ \A j \in Setting \ {k} : told'[j] = told[j]
  BY <1>1, <1>2, <1>3 DEF ToldOK
<1> QED
  BY <1>2, <1>4, <1>5

LEMMA WriteFailedType ==
  ASSUME TypeOK, NEW w \in Workers, WriteFailed(w)
  PROVE  TypeOK'
<1>1. TasksOK' /\ raced' = raced
  BY ReturnType DEF WriteFailed, TypeOK
<1>2. task[w].kind \in Setting
  BY DEF WriteFailed, At, TypeOK, TasksOK, TaskOK
<1>3. UNCHANGED <<stored, joined, config, commands, restarts>>
  BY DEF WriteFailed
<1>4. faults' \in Nat /\ unanswered' \in SUBSET Setting
  BY <1>2 DEF WriteFailed, Fault, TypeOK
<1>5. DOMAIN cache' = Setting /\ \A k \in Setting : cache'[k] \in Values(k) \cup {None}
  BY DEF WriteFailed, TypeOK, MemOK
<1>7. ToldOK'
  <2>1. UNCHANGED told \/ told' = [told EXCEPT !["notify"].live = FALSE]
    BY DEF WriteFailed
  <2> QED
    BY <2>1, NotLive DEF TypeOK, MemOK, ToldOK
<1>6. MemOK'
  BY <1>3, <1>5, <1>7 DEF TypeOK, MemOK, ToldOK
<1> QED
  BY <1>1, <1>3, <1>4, <1>6 DEF TypeOK, StoredOK

\* What the user was told outlives the process that told it.
LEMMA RestartTells ==
  ASSUME ToldOK, Restart
  PROVE  /\ ToldOK'
         /\ \A k \in Setting : /\ told'[k].val = told[k].val /\ told'[k].room = told[k].room
                              /\ ~told'[k].live
<1> DEFINE new(k) == [told[k] EXCEPT !.live = FALSE]
<1>1. \A k \in Setting : /\ new(k) \in Told(k) /\ new(k).val = told[k].val
                         /\ new(k).room = told[k].room /\ ~new(k).live
  BY DEF ToldOK, Told
<1>2. told' = [k \in Setting |-> new(k)]
  BY DEF Restart
<1> HIDE DEF new
<1> QED
  BY <1>1, <1>2 DEF ToldOK

LEMMA RestartKeepsType ==
  ASSUME TypeOK, Restart
  PROVE  TypeOK'
<1>1. \A w \in Workers : task'[w] = Idle
  BY DEF Restart
<1>2. TasksOK'
  <2>1. task' = [w \in Workers |-> Idle] /\ Idle \in Task
    BY IdleOK DEF Restart, TaskOK
  <2> QED
    BY <2>1, IdleOK DEF TasksOK
<1>3. PICK Found \in [Setting -> SUBSET joined] : \A k \in Setting :
        /\ \A r \in Found[k] : stored[r][k] \in Values(k)
        /\ IF Found[k] = {} THEN cache'[k] = None
           ELSE \E r \in Found[k] : cache'[k] = stored[r][k]
  BY RestartType
<1>4. \A k \in Setting : cache'[k] \in Values(k) \cup {None}
  BY <1>3
<1>5. ToldOK'
  BY RestartTells DEF TypeOK, MemOK, ToldOK
<1>6. MemOK'
  BY <1>4, <1>5, RestartType DEF MemOK, ToldOK
<1>7. /\ UNCHANGED <<stored, joined, raced, commands>> /\ restarts' = restarts + 1
      /\ unanswered' \in SUBSET Setting
  BY DEF Restart, TypeOK
<1>8. faults' \in Nat
  BY DEF Restart, Fault, TypeOK
<1> QED
  BY <1>2, <1>6, <1>7, <1>8 DEF TypeOK, StoredOK

LEMMA LeftType ==
  ASSUME TypeOK, NEW w \in Workers, Left(w)
  PROVE  TypeOK'
<1>1. TasksOK' /\ raced' = raced
  BY ReturnType DEF Left, TypeOK
<1>2. joined' \in SUBSET Rooms /\ faults' \in Nat
  BY DEF Left, Fault, TypeOK
<1>3. UNCHANGED <<stored, cache, config, told, unanswered, commands, restarts>>
  BY DEF Left, memVars
<1> QED
  BY <1>1, <1>2, <1>3 DEF TypeOK, StoredOK, MemOK

LEMMA InvitedType ==
  ASSUME TypeOK, NEW r \in Rooms, Invited(r)
  PROVE  TypeOK'
BY DEF TypeOK, StoredOK, MemOK, TasksOK, Invited, memVars, ghostVars, boundVars

LEMMA NextType == TypeOK /\ [Next]_vars => TypeOK'
<1> SUFFICES ASSUME TypeOK, [Next]_vars PROVE TypeOK'
  OBVIOUS
<1>1. ASSUME NEW w \in Workers, NEW k \in Reads, Get(w, k) PROVE TypeOK'
  BY <1>1, GetType
<1>2. ASSUME NEW w \in Workers, NEW r \in Rooms, NEW c \in Commands,
             HandleMessage(w, r, c[1], c[2])
      PROVE  TypeOK'
  BY <1>2, HandleMessageType
<1>3. ASSUME NEW w \in Workers, Answer(w) PROVE TypeOK'
  BY <1>3, ReadServedType, ReadFailedType, ReadAnsweredType, WriteServedMoves,
     WriteAnsweredType, WriteFailedType, LeftType DEF Answer
<1>4. ASSUME NEW r \in Rooms, Invited(r) PROVE TypeOK'
  BY <1>4, InvitedType
<1>5. CASE Restart
  BY <1>5, RestartKeepsType
<1>6. CASE UNCHANGED vars
  BY <1>6 DEF vars, TypeOK, StoredOK, MemOK, TasksOK
<1> QED
  BY <1>1, <1>2, <1>3, <1>4, <1>5, <1>6 DEF Next

\* Every state event, cache entry and value on its way is one of its own setting, and every
\* goroutine that is at a setting knows which: for any number of goroutines and rooms.
THEOREM TypeCorrect == Spec => []TypeOK
<1> QED
  BY InitType, NextType, PTL DEF Spec

-----------------------------------------------------------------------------
(* What is in force. *)

\* Between the service of a call and its answer, the state event is what the goroutine
\* has read or written.
Current(w, k) ==
  /\ task[w].pc \in {"wrote", "got"} => stored[task[w].room][k] = task[w].val
  /\ task[w].pc \in {"read", "got"} => cache[k] = None

\* What was told is in force, and is the state event of the room it was told in.
InForce(k) ==
  told[k].live =>
    /\ told[k].val \in Values(k) => cache[k] = told[k].val
    /\ Answered(k) /\ told[k].val = Empty /\ (\A r \in Rooms : stored[r][k] \notin Values(k)) =>
         cache[k] = None

IsStored(k) ==
  k \notin unanswered /\ Answered(k) /\ told[k].val # None =>
    told[k].room \in Rooms /\ stored[told[k].room][k] = told[k].val

\* As long as no two goroutines are at the setting at once.
KindInv(k) ==
  /\ \A v, w \in Workers : task[v].kind = k /\ task[w].kind = k => v = w
  /\ \A w \in Workers : task[w].kind = k => Current(w, k)
  /\ InForce(k)
  /\ IsStored(k)

\* A goroutine that knows a room has made it, or found it as, the config room.
RoomKnown ==
  \A w \in Workers : task[w].pc \in {"read", "write", "wrote", "got"} =>
    task[w].room = None \/ config # None

SettingsInv ==
  /\ TypeOK
  /\ \A k \in Setting \ raced : KindInv(k)
  /\ RoomKnown
  /\ SettingHasRoom

LEMMA RoomOfTask ==
  ASSUME TypeOK, NEW w \in Workers, task[w].pc \in {"write", "wrote", "got"}
  PROVE  /\ task[w].room \in Rooms /\ task[w].room # None
         /\ task[w].kind \in Setting /\ task[w].val \in Contents(task[w].kind)
BY ValuesAssumption DEF TypeOK, TasksOK, TaskOK

\* A step that has nothing to do with setting k.
LEMMA KindKept ==
  ASSUME TypeOK, NEW k \in Setting, KindInv(k),
         \A r \in Rooms : stored'[r][k] = stored[r][k],
         cache'[k] = cache[k], told'[k] = told[k], k \in unanswered => k \in unanswered',
         \A w \in Workers : task[w].kind = k \/ task'[w].kind = k => task'[w] = task[w]
  PROVE  KindInv(k)'
<1>1. \A v, w \in Workers : task'[v].kind = k /\ task'[w].kind = k => v = w
  BY DEF KindInv
<1>2. ASSUME NEW w \in Workers, task'[w].kind = k PROVE Current(w, k)'
  <2>1. task'[w] = task[w] /\ Current(w, k)
    BY <1>2 DEF KindInv
  <2>2. task[w].pc \in {"wrote", "got"} => task[w].room \in Rooms
    BY RoomOfTask
  <2> QED
    BY <2>1, <2>2 DEF Current
<1>3. Answered(k)' <=> Answered(k)
  BY DEF Answered
<1>4. IsStored(k)'
  BY <1>3 DEF KindInv, IsStored
<1>5. InForce(k)'
  BY <1>3 DEF KindInv, InForce
<1> QED
  BY <1>1, <1>2, <1>4, <1>5 DEF KindInv

\* A goroutine is the first to be at setting k.
LEMMA Begun ==
  ASSUME TypeOK, NEW k \in Setting, Quiet(k), NEW w \in Workers,
         UNCHANGED <<stored, cache, unanswered>>,
         (KindInv(k) /\ told'[k] = told[k]) \/ told'[k] = Untold,
         task'[w].kind = k, task'[w].pc \in {"read", "write"},
         task'[w].pc = "read" => cache[k] = None,
         \A v \in Workers \ {w} : task'[v] = task[v]
  PROVE  KindInv(k)'
<1>1. \A v \in Workers \ {w} : task'[v].kind # k
  BY DEF Quiet
<1>2. Answered(k) /\ Answered(k)'
  BY <1>1 DEF Answered, Quiet
<1>3. ASSUME NEW v \in Workers, task'[v].kind = k PROVE Current(v, k)'
  BY <1>1, <1>3 DEF Current
<1>4. \A u, v \in Workers : task'[u].kind = k /\ task'[v].kind = k => u = v
  BY <1>1
<1>5. InForce(k)' /\ IsStored(k)'
  <2>1. CASE KindInv(k) /\ told'[k] = told[k]
    BY <1>2, <2>1 DEF KindInv, InForce, IsStored
  <2>2. CASE told'[k] = Untold
    BY <2>2, UntoldType DEF InForce, IsStored
  <2> QED
    BY <2>1, <2>2
<1> QED
  BY <1>3, <1>4, <1>5 DEF KindInv

\* The only goroutine at setting k is done with it.
LEMMA Done ==
  ASSUME NEW k \in Setting, KindInv(k), NEW w \in Workers, task[w].kind = k,
         task'[w] = Idle, \A v \in Workers \ {w} : task'[v] = task[v],
         InForce(k)', IsStored(k)'
  PROVE  KindInv(k)'
<1>1. Idle.kind # k
  BY ValuesAssumption DEF Idle
<1>2. \A v \in Workers : task'[v].kind # k
  BY <1>1 DEF KindInv
<1> QED
  BY <1>2 DEF KindInv

\* A goroutine that was at no setting makes a call.
LEMMA CallKinds ==
  ASSUME SettingsInv, NEW w \in Workers, task[w].kind = None, NEW t, TaskOK(t), t.kind \in Setting,
         t.pc \in {"read", "write"}, t.pc = "read" => cache[t.kind] = None,
         Call(w, t), UNCHANGED <<stored, cache, unanswered>>, NEW k \in Setting \ raced'
  PROVE  KindInv(k)'
<1>1. TypeOK /\ TasksOK /\ raced \in SUBSET Setting /\ ToldOK
  BY DEF SettingsInv, TypeOK, MemOK, ToldOK
<1>2. /\ task'[w] = t /\ \A v \in Workers \ {w} : task'[v] = task[v]
      /\ \A j \in Setting \ {t.kind} : told'[j] = told[j] /\ (j \in raced' <=> j \in raced)
      /\ t.kind \notin raced' =>
           /\ Quiet(t.kind)
           /\ t.kind \notin raced => told'[t.kind] = told[t.kind]
           /\ t.kind \in raced => told'[t.kind] = Untold
  BY <1>1, CallType
<1>3. CASE k = t.kind
  <2>1. /\ Quiet(k) /\ task'[w].kind = k /\ task'[w].pc \in {"read", "write"}
        /\ task'[w].pc = "read" => cache[k] = None
    BY <1>2, <1>3
  <2>2. (KindInv(k) /\ told'[k] = told[k]) \/ told'[k] = Untold
    BY <1>2, <1>3 DEF SettingsInv
  <2> QED
    BY <1>1, <1>2, <2>1, <2>2, Begun
<1>4. CASE k # t.kind
  <2>1. \A v \in Workers : task[v].kind = k \/ task'[v].kind = k => task'[v] = task[v]
    BY <1>2, <1>4, ValuesAssumption
  <2>2. told'[k] = told[k] /\ KindInv(k)
    BY <1>2, <1>4 DEF SettingsInv
  <2> QED
    BY <1>1, <2>1, <2>2, KindKept
<1> QED
  BY <1>3, <1>4

LEMMA GetKinds ==
  ASSUME SettingsInv, NEW w \in Workers, NEW j \in Reads, Get(w, j), NEW k \in Setting \ raced'
  PROVE  KindInv(k)'
<1> DEFINE t == [pc |-> "read", kind |-> j, room |-> config, val |-> None]
<1>1. TypeOK /\ j \in Setting /\ task[w].kind = None
  BY SettingsBounds DEF SettingsInv, TypeOK, TasksOK, TaskOK, Get, Free
<1>2. Call(w, t)
  BY DEF Get
<1>3. UNCHANGED <<stored, cache, unanswered>> /\ cache[j] = None
  BY DEF Get, memVars
<1>4. TaskOK(t) /\ t.kind = j /\ t.pc = "read"
  BY <1>1, ReadingOK DEF TypeOK, MemOK
<1> HIDE DEF t
<1> QED
  BY <1>1, <1>2, <1>3, <1>4, CallKinds

LEMMA HandleMessageKinds ==
  ASSUME SettingsInv, NEW w \in Workers, NEW r \in Rooms, NEW c \in Commands,
         HandleMessage(w, r, c[1], c[2]), NEW k \in Setting \ raced'
  PROVE  KindInv(k)'
<1>1. TypeOK /\ TasksOK /\ raced \in SUBSET Setting /\ task[w].kind = None
  BY DEF SettingsInv, TypeOK, TasksOK, TaskOK, HandleMessage, Free
<1>2. UNCHANGED <<stored, cache, unanswered>>
  BY DEF HandleMessage
<1>3. CASE \E j \in Setting : \E v \in Contents(j) : Call(w, Writing(j, r, v))
  <2>1. PICK j \in Setting : \E v \in Contents(j) : Call(w, Writing(j, r, v))
    BY <1>3
  <2>2. PICK v \in Contents(j) : Call(w, Writing(j, r, v))
    BY <2>1
  <2> DEFINE t == Writing(j, r, v)
  <2>3. TaskOK(t) /\ t.kind = j /\ t.pc = "write"
    BY WritingOK
  <2>4. Call(w, t)
    BY <2>2
  <2> HIDE DEF t
  <2> QED
    BY <1>1, <1>2, <2>3, <2>4, CallKinds
<1>4. CASE Refuses(w) \/ Leave(w, r)
  <2>1. /\ raced' = raced /\ told' = told /\ task'[w].kind = None
        /\ \A u \in Workers \ {w} : task'[u] = task[u]
    BY <1>1, <1>4, ReturnType, LeaveType DEF Idle, Refuses
  <2>2. \A u \in Workers : task[u].kind = k \/ task'[u].kind = k => task'[u] = task[u]
    BY <1>1, <2>1, ValuesAssumption
  <2>3. KindInv(k)
    BY <2>1 DEF SettingsInv
  <2> QED
    BY <1>1, <1>2, <2>1, <2>2, <2>3, KindKept
<1> QED
  BY <1>3, <1>4, HandleMessageMoves

\* A goroutine that is done with setting j changes nothing of setting k.
LEMMA OtherKind ==
  ASSUME SettingsInv, NEW w \in Workers, Return(w), NEW k \in Setting \ raced',
         task[w].kind # k, UNCHANGED stored, cache'[k] = cache[k], told'[k] = told[k],
         k \in unanswered => k \in unanswered'
  PROVE  KindInv(k)'
<1>1. /\ raced' = raced /\ task'[w] = Idle /\ \A u \in Workers \ {w} : task'[u] = task[u]
  BY ReturnType DEF SettingsInv, TypeOK
<1>2. Idle.kind # k
  BY ValuesAssumption DEF Idle
<1>3. \A u \in Workers : task[u].kind = k \/ task'[u].kind = k => task'[u] = task[u]
  BY <1>1, <1>2
<1>4. TypeOK /\ KindInv(k)
  BY <1>1 DEF SettingsInv
<1> QED
  BY <1>3, <1>4, KindKept

\* What is known of a setting that a goroutine is at on its own.
LEMMA KindOfTask ==
  ASSUME SettingsInv, NEW w \in Workers, NEW k \in Setting \ raced, task[w].kind = k
  PROVE  /\ KindInv(k) /\ Current(w, k)
         /\ \A v \in Workers \ {w} : task[v].kind # k
         /\ task[w].pc # "wrote" => Answered(k)
BY DEF SettingsInv, KindInv, Answered

LEMMA ReadServedKinds ==
  ASSUME SettingsInv, NEW w \in Workers, ReadServed(w), NEW k \in Setting \ raced'
  PROVE  KindInv(k)'
<1>1. UNCHANGED <<stored, cache, told, unanswered, raced>>
  BY DEF ReadServed, memVars, ghostVars
<1>2. /\ TypeOK /\ task[w].room \in Rooms /\ task[w].pc = "read"
      /\ task'[w].pc = "got" /\ task'[w].kind = task[w].kind
      /\ task'[w].room = task[w].room
      /\ task'[w].val = stored[task[w].room][task[w].kind]
      /\ \A u \in Workers \ {w} : task'[u] = task[u]
  BY ReadServedType DEF SettingsInv, ReadServed, At
<1>3. KindInv(k)
  BY <1>1 DEF SettingsInv
<1>4. CASE task[w].kind = k
  <2>1. /\ Current(w, k) /\ Answered(k)
        /\ \A v \in Workers \ {w} : task[v].kind # k
    BY <1>1, <1>2, <1>4, KindOfTask
  <2>2. \A v \in Workers : task'[v].kind = k => v = w
    BY <1>2, <2>1
  <2>3. Current(w, k)'
    BY <1>1, <1>2, <1>4, <2>1 DEF Current
  <2>4. Answered(k)'
    BY <1>2, <2>2 DEF Answered
  <2>5. /\ \A u, v \in Workers : task'[u].kind = k /\ task'[v].kind = k => u = v
        /\ \A v \in Workers : task'[v].kind = k => Current(v, k)'
    BY <2>2, <2>3
  <2> QED
    BY <1>1, <1>3, <2>1, <2>4, <2>5 DEF KindInv, InForce, IsStored
<1>5. CASE task[w].kind # k
  <2>1. \A v \in Workers : task[v].kind = k \/ task'[v].kind = k => task'[v] = task[v]
    BY <1>2, <1>5
  <2> QED
    BY <1>1, <1>2, <1>3, <2>1, KindKept
<1> QED
  BY <1>4, <1>5

LEMMA ReadFailedKinds ==
  ASSUME SettingsInv, NEW w \in Workers, ReadFailed(w), NEW k \in Setting \ raced'
  PROVE  KindInv(k)'
<1>1. UNCHANGED <<stored, cache, told, unanswered>> /\ Return(w) /\ task[w].pc = "read"
  BY DEF ReadFailed, memVars, At
<1>2. /\ raced' = raced /\ task'[w] = Idle
      /\ \A u \in Workers \ {w} : task'[u] = task[u]
  BY <1>1, ReturnType DEF SettingsInv, TypeOK
<1>3. CASE task[w].kind = k
  <2>1. KindInv(k) /\ Answered(k)
    BY <1>1, <1>2, <1>3, KindOfTask
  <2> QED
    BY <1>1, <1>2, <1>3, <2>1, Done DEF KindInv, InForce, IsStored, Answered
<1>4. CASE task[w].kind # k
  BY <1>1, <1>4, OtherKind
<1> QED
  BY <1>3, <1>4

LEMMA ReadAnsweredKinds ==
  ASSUME SettingsInv, NEW w \in Workers, ReadAnswered(w), NEW k \in Setting \ raced'
  PROVE  KindInv(k)'
<1>1. UNCHANGED <<stored, told, unanswered>> /\ Return(w) /\ task[w].pc = "got"
  BY DEF ReadAnswered, At
<1>2. /\ raced' = raced /\ task'[w] = Idle
      /\ \A u \in Workers \ {w} : task'[u] = task[u]
  BY <1>1, ReturnType DEF SettingsInv, TypeOK
<1>3. DOMAIN cache = Setting
  BY DEF SettingsInv, TypeOK, MemOK
<1>4. CASE task[w].kind = k
  <2>1. KindInv(k) /\ Answered(k) /\ Current(w, k)
    BY <1>1, <1>2, <1>4, KindOfTask
  <2>2. task[w].room \in Rooms /\ task[w].val \in Contents(k)
    BY <1>1, <1>4, RoomOfTask DEF SettingsInv
  <2>3. stored[task[w].room][k] = task[w].val /\ cache[k] = None
    BY <1>1, <2>1 DEF Current
  <2>4. told[k].live => told[k].val \notin Values(k)
    BY <2>1, <2>3, NoValue DEF KindInv, InForce
  <2>5. IsStored(k)'
    BY <1>1, <1>2, <2>1 DEF KindInv, IsStored, Answered
  <2>6. CASE task[w].val = Empty
    <3>1. cache' = cache
      BY <2>6 DEF ReadAnswered
    <3>2. InForce(k)'
      BY <1>1, <2>3, <2>4, <3>1 DEF InForce
    <3> QED
      BY <1>2, <1>4, <2>1, <2>5, <3>2, Done
  <2>7. CASE task[w].val # Empty
    <3>1. cache'[k] = task[w].val /\ task[w].val \in Values(k)
      BY <1>3, <1>4, <2>2, <2>7, EmptyIsNotify DEF ReadAnswered
    <3>2. InForce(k)'
      BY <1>1, <2>2, <2>3, <2>4, <3>1 DEF InForce
    <3> QED
      BY <1>2, <1>4, <2>1, <2>5, <3>2, Done
  <2> QED
    BY <2>6, <2>7
<1>5. CASE task[w].kind # k
  <2>1. cache'[k] = cache[k]
    BY <1>3, <1>5 DEF ReadAnswered
  <2> QED
    BY <1>1, <1>5, <2>1, OtherKind
<1> QED
  BY <1>4, <1>5

LEMMA WriteServedKinds ==
  ASSUME SettingsInv, NEW w \in Workers, WriteServed(w), NEW k \in Setting \ raced'
  PROVE  KindInv(k)'
<1>1. UNCHANGED <<cache, told, unanswered, raced>>
  BY DEF WriteServed, memVars, ghostVars
<1>2. /\ TypeOK /\ task[w].room \in Rooms /\ task[w].pc = "write"
      /\ task'[w].pc = "wrote" /\ task'[w].kind = task[w].kind
      /\ task'[w].room = task[w].room /\ task'[w].val = task[w].val
      /\ \A u \in Workers \ {w} : task'[u] = task[u]
      /\ stored'[task[w].room][task[w].kind] = task[w].val
      /\ \A q \in Rooms, j \in Setting :
           q # task[w].room \/ j # task[w].kind => stored'[q][j] = stored[q][j]
  BY WriteServedMoves DEF SettingsInv, WriteServed, At
<1>3. KindInv(k)
  BY <1>1 DEF SettingsInv
<1>4. CASE task[w].kind = k
  <2>1. \A v \in Workers \ {w} : task[v].kind # k
    BY <1>1, <1>4, KindOfTask
  <2>2. \A v \in Workers : task'[v].kind = k => v = w
    BY <1>2, <2>1
  <2>3. Current(w, k)'
    BY <1>2, <1>4 DEF Current
  <2>4. ~Answered(k)'
    BY <1>2, <1>4 DEF Answered
  <2>5. /\ \A u, v \in Workers : task'[u].kind = k /\ task'[v].kind = k => u = v
        /\ \A v \in Workers : task'[v].kind = k => Current(v, k)'
    BY <2>2, <2>3
  <2>6. InForce(k)' /\ IsStored(k)'
    BY <1>1, <1>3, <2>4 DEF KindInv, InForce, IsStored
  <2> QED
    BY <2>4, <2>5, <2>6 DEF KindInv
<1>5. CASE task[w].kind # k
  <2>1. \A v \in Workers : task[v].kind = k \/ task'[v].kind = k => task'[v] = task[v]
    BY <1>2, <1>5
  <2>2. \A r \in Rooms : stored'[r][k] = stored[r][k]
    BY <1>2, <1>5
  <2> QED
    BY <1>1, <1>2, <1>3, <2>1, <2>2, KindKept
<1> QED
  BY <1>4, <1>5

LEMMA WriteAnsweredKinds ==
  ASSUME SettingsInv, NEW w \in Workers, WriteAnswered(w), NEW k \in Setting \ raced'
  PROVE  KindInv(k)'
<1>1. /\ UNCHANGED stored /\ Return(w) /\ task[w].pc = "wrote" /\ Tells(task[w])
      /\ unanswered' = unanswered \ {task[w].kind}
  BY DEF WriteAnswered, At
<1>2. /\ raced' = raced /\ task'[w] = Idle
      /\ \A u \in Workers \ {w} : task'[u] = task[u]
  BY <1>1, ReturnType DEF SettingsInv, TypeOK
<1>3. DOMAIN cache = Setting /\ ToldOK
  BY DEF SettingsInv, TypeOK, MemOK, ToldOK
<1>6. /\ task[w].room \in Rooms /\ task[w].kind \in Setting
      /\ task[w].val \in Contents(task[w].kind)
  BY <1>1, RoomOfTask DEF SettingsInv
<1>7. /\ told'[task[w].kind].val = task[w].val /\ told'[task[w].kind].room = task[w].room
      /\ \A j \in Setting \ {task[w].kind} : told'[j] = told[j]
  BY <1>1, <1>3, <1>6, TellsType
<1>4. CASE task[w].kind = k
  <2>1. KindInv(k) /\ Current(w, k)
    BY <1>2, <1>4, KindOfTask
  <2>2. stored[task[w].room][k] = task[w].val
    BY <1>1, <2>1 DEF Current
  <2>3. /\ cache'[k] = IF task[w].val = Empty THEN None ELSE task[w].val
        /\ told'[k].val = task[w].val /\ told'[k].room = task[w].room
    BY <1>3, <1>4, <1>7 DEF WriteAnswered
  <2>4. task[w].val \in Values(k) => task[w].val # Empty
    BY NoValue
  <2>5. InForce(k)'
    BY <2>3, <2>4 DEF InForce
  <2>6. IsStored(k)'
    BY <1>1, <1>6, <2>2, <2>3 DEF IsStored
  <2> QED
    BY <1>2, <1>4, <2>1, <2>5, <2>6, Done
<1>5. CASE task[w].kind # k
  <2>1. cache'[k] = cache[k] /\ told'[k] = told[k] /\ (k \in unanswered => k \in unanswered')
    BY <1>1, <1>3, <1>5, <1>7 DEF WriteAnswered
  <2> QED
    BY <1>1, <1>5, <2>1, OtherKind
<1> QED
  BY <1>4, <1>5

LEMMA WriteFailedKinds ==
  ASSUME SettingsInv, NEW w \in Workers, WriteFailed(w), NEW k \in Setting \ raced'
  PROVE  KindInv(k)'
<1>1. UNCHANGED stored /\ Return(w) /\ task[w].pc \in {"write", "wrote"}
  BY DEF WriteFailed, At
<1>2. /\ raced' = raced /\ task'[w] = Idle
      /\ \A u \in Workers \ {w} : task'[u] = task[u]
  BY <1>1, ReturnType DEF SettingsInv, TypeOK
<1>3. DOMAIN cache = Setting /\ ToldOK
  BY DEF SettingsInv, TypeOK, MemOK, ToldOK
<1>4. /\ task[w].room \in Rooms /\ task[w].kind \in Setting
      /\ task[w].val \in Contents(task[w].kind)
  BY <1>1, RoomOfTask DEF SettingsInv
<1>5. task[w].val = Empty => task[w].kind = "notify"
  BY <1>4, EmptyIsNotify
<1>6. IF task[w].val = Empty
      THEN /\ cache' = [cache EXCEPT !["notify"] = None]
           /\ told' = [told EXCEPT !["notify"].live = FALSE]
      ELSE UNCHANGED <<cache, told>>
  BY DEF WriteFailed
<1>7. unanswered \subseteq unanswered' /\ (task[w].pc = "wrote" => task[w].kind \in unanswered')
  BY DEF WriteFailed, At
<1>10. \A j \in Setting : told'[j].val = told[j].val /\ told'[j].room = told[j].room
  BY <1>3, <1>6, NotLive
<1>8. CASE task[w].kind = k
  <2>1. KindInv(k) /\ Current(w, k) /\ (task[w].pc # "wrote" => Answered(k))
    BY <1>2, <1>8, KindOfTask
  <2>5. IsStored(k)'
    BY <1>1, <1>7, <1>8, <1>10, <2>1 DEF KindInv, IsStored
  <2>2. CASE task[w].val = Empty
    <3>1. ~told'["notify"].live
      BY <1>3, <1>6, <2>2, NotLive
    <3>2. InForce(k)'
      BY <1>5, <1>8, <2>2, <3>1 DEF InForce
    <3> QED
      BY <1>2, <1>8, <2>1, <2>5, <3>2, Done
  <2>3. CASE task[w].val # Empty /\ task[w].pc = "wrote"
    <3>1. stored[task[w].room][k] \in Values(k)
      BY <1>4, <1>8, <2>1, <2>3, EmptyIsNotify DEF Current
    <3>2. InForce(k)'
      BY <1>1, <1>4, <1>6, <2>1, <2>3, <3>1 DEF KindInv, InForce
    <3> QED
      BY <1>2, <1>8, <2>1, <2>5, <3>2, Done
  <2>4. CASE task[w].val # Empty /\ task[w].pc = "write"
    <3>1. UNCHANGED <<cache, told, stored>> /\ Answered(k)
      BY <1>1, <1>6, <2>1, <2>4
    <3>2. InForce(k)'
      BY <2>1, <3>1 DEF KindInv, InForce
    <3> QED
      BY <1>2, <1>8, <2>1, <2>5, <3>2, Done
  <2> QED
    BY <1>1, <2>2, <2>3, <2>4
<1>9. CASE task[w].kind # k
  <2>1. cache'[k] = cache[k]
    BY <1>3, <1>5, <1>6, <1>9
  <2>2. told'[k] = told[k]
    BY <1>3, <1>5, <1>6, <1>9, NotLive
  <2> QED
    BY <1>1, <1>7, <1>9, <2>1, <2>2, OtherKind
<1> QED
  BY <1>8, <1>9

\* After a start no goroutine is at a setting, and what was told is where it was.
LEMMA RestartKinds ==
  ASSUME SettingsInv, Restart, NEW k \in Setting \ raced'
  PROVE  KindInv(k)'
<1>1. /\ \A w \in Workers : task'[w] = Idle
      /\ UNCHANGED <<stored, raced>>
      /\ unanswered' = unanswered \cup {j \in Setting : ~Answered(j)}
  BY DEF Restart
<1>2. Idle.kind # k
  BY ValuesAssumption DEF Idle
<1>3. KindInv(k) /\ ToldOK
  BY <1>1 DEF SettingsInv, TypeOK, MemOK, ToldOK
<1>4. told'[k].val = told[k].val /\ told'[k].room = told[k].room /\ ~told'[k].live
  BY <1>3, RestartTells
<1>5. InForce(k)'
  BY <1>4 DEF InForce
<1>6. IsStored(k)'
  BY <1>1, <1>3, <1>4 DEF KindInv, IsStored
<1> QED
  BY <1>1, <1>2, <1>5, <1>6 DEF KindInv

LEMMA NextKinds ==
  ASSUME SettingsInv, [Next]_vars, NEW k \in Setting \ raced'
  PROVE  KindInv(k)'
<1>1. ASSUME NEW w \in Workers, NEW j \in Reads, Get(w, j) PROVE KindInv(k)'
  BY <1>1, GetKinds
<1>2. ASSUME NEW w \in Workers, NEW r \in Rooms, NEW c \in Commands,
             HandleMessage(w, r, c[1], c[2])
      PROVE  KindInv(k)'
  BY <1>2, HandleMessageKinds
<1>3. ASSUME NEW w \in Workers, Left(w) PROVE KindInv(k)'
  <2>1. Return(w) /\ UNCHANGED <<stored, cache, told, unanswered>> /\ task[w].kind = None
    BY <1>3 DEF Left, At, memVars, SettingsInv, TypeOK, TasksOK, TaskOK
  <2>2. task[w].kind # k
    BY <2>1, ValuesAssumption
  <2> QED
    BY <2>1, <2>2, OtherKind
<1>4. ASSUME NEW w \in Workers, Answer(w) PROVE KindInv(k)'
  BY <1>3, <1>4, ReadServedKinds, ReadFailedKinds, ReadAnsweredKinds, WriteServedKinds,
     WriteAnsweredKinds, WriteFailedKinds DEF Answer
<1>5. ASSUME UNCHANGED <<stored, cache, told, task, raced, unanswered>> PROVE KindInv(k)'
  BY <1>5, KindKept DEF SettingsInv
<1>6. ASSUME NEW r \in Rooms, Invited(r) PROVE KindInv(k)'
  BY <1>5, <1>6 DEF Invited, memVars, ghostVars
<1>7. CASE Restart
  BY <1>7, RestartKinds
<1>8. CASE UNCHANGED vars
  BY <1>5, <1>8 DEF vars
<1> QED
  BY <1>1, <1>2, <1>4, <1>6, <1>7, <1>8 DEF Next

\* A step of a goroutine that knows a room, or makes its task's room the config room.
LEMMA RoomsKept ==
  ASSUME RoomKnown, SettingHasRoom, NEW w \in Workers,
         \A u \in Workers \ {w} : task'[u] = task[u],
         config # None => config' # None,
         task'[w].pc \in {"read", "write", "wrote", "got"} => task'[w].room = None \/ config' # None,
         \A k \in Setting : cache'[k] = None \/ cache'[k] = cache[k] \/ config' # None
  PROVE  RoomKnown' /\ SettingHasRoom'
BY DEF RoomKnown, SettingHasRoom

LEMMA AnswerRooms ==
  ASSUME SettingsInv, NEW w \in Workers, Answer(w)
  PROVE  RoomKnown' /\ SettingHasRoom'
<1>1. TypeOK /\ RoomKnown /\ SettingHasRoom /\ DOMAIN cache = Setting
  BY DEF SettingsInv, TypeOK, MemOK
<1>2. UNCHANGED config
  BY DEF Answer, ReadServed, ReadFailed, ReadAnswered, WriteServed, WriteAnswered, WriteFailed,
         Left, memVars
<1>3. task[w].pc \in {"wrote", "got"} => config # None
  BY <1>1, RoomOfTask DEF RoomKnown
<1>4. CASE Return(w)
  <2>1. task'[w].pc = "idle" /\ \A u \in Workers \ {w} : task'[u] = task[u]
    BY <1>1, <1>4, ReturnType DEF TypeOK, Idle
  <2>2. \A k \in Setting : cache'[k] = None \/ cache'[k] = cache[k] \/ config # None
    <3>1. CASE ReadAnswered(w) \/ WriteAnswered(w)
      BY <1>3, <3>1 DEF ReadAnswered, WriteAnswered, At
    <3>2. CASE WriteFailed(w)
      BY <1>1, <3>2 DEF WriteFailed
    <3>3. CASE ReadServed(w) \/ ReadFailed(w) \/ WriteServed(w) \/ Left(w)
      BY <3>3 DEF ReadServed, ReadFailed, WriteServed, Left, memVars
    <3> QED
      BY <3>1, <3>2, <3>3 DEF Answer
  <2> QED
    BY <1>1, <1>2, <2>1, <2>2, RoomsKept
<1>5. CASE ReadServed(w)
  <2>1. /\ task'[w].room = task[w].room /\ task[w].pc = "read" /\ UNCHANGED cache
        /\ \A u \in Workers \ {w} : task'[u] = task[u]
    BY <1>1, <1>5, ReadServedType DEF ReadServed, At, memVars
  <2>2. task'[w].room = None \/ config # None
    BY <1>1, <2>1 DEF RoomKnown
  <2> QED
    BY <1>1, <1>2, <2>1, <2>2, RoomsKept
<1>6. CASE WriteServed(w)
  <2>1. /\ task'[w].room = task[w].room /\ task[w].pc = "write" /\ UNCHANGED cache
        /\ \A u \in Workers \ {w} : task'[u] = task[u]
    BY <1>1, <1>6, WriteServedMoves DEF WriteServed, At, memVars
  <2>2. task'[w].room = None \/ config # None
    BY <1>1, <2>1 DEF RoomKnown
  <2> QED
    BY <1>1, <1>2, <2>1, <2>2, RoomsKept
<1> QED
  BY <1>4, <1>5, <1>6 DEF Answer, ReadFailed, ReadAnswered, WriteAnswered, WriteFailed, Left

LEMMA GetRooms ==
  ASSUME SettingsInv, NEW w \in Workers, NEW k \in Reads, Get(w, k)
  PROVE  RoomKnown' /\ SettingHasRoom'
<1> DEFINE t == [pc |-> "read", kind |-> k, room |-> config, val |-> None]
<1>1. task' = [task EXCEPT ![w] = t] /\ UNCHANGED <<cache, config>>
  BY DEF Get, Call, memVars
<1>2. t.room = config
  OBVIOUS
<1>3. RoomKnown /\ SettingHasRoom /\ task \in [Workers -> Task]
  BY DEF SettingsInv, TypeOK, TasksOK
<1> HIDE DEF t
<1>4. task'[w].room = config /\ \A u \in Workers \ {w} : task'[u] = task[u]
  BY <1>1, <1>2, <1>3
<1> QED
  BY <1>1, <1>3, <1>4, RoomsKept

LEMMA NextRooms ==
  ASSUME SettingsInv, [Next]_vars
  PROVE  RoomKnown' /\ SettingHasRoom'
<1>1. ASSUME NEW w \in Workers, NEW k \in Reads, Get(w, k)
      PROVE  RoomKnown' /\ SettingHasRoom'
  BY <1>1, GetRooms
<1>2. ASSUME NEW w \in Workers, NEW r \in Rooms, NEW c \in Commands,
             HandleMessage(w, r, c[1], c[2])
      PROVE  RoomKnown' /\ SettingHasRoom'
  <2>1. config' # None
    BY <1>2, ValuesAssumption DEF HandleMessage, SetConfigRoom
  <2> QED
    BY <2>1 DEF RoomKnown, SettingHasRoom
<1>3. ASSUME NEW w \in Workers, Answer(w) PROVE RoomKnown' /\ SettingHasRoom'
  BY <1>3, AnswerRooms
<1>4. ASSUME UNCHANGED <<cache, config, task>> PROVE RoomKnown' /\ SettingHasRoom'
  BY <1>4 DEF SettingsInv, RoomKnown, SettingHasRoom
<1>5. ASSUME NEW r \in Rooms, Invited(r) PROVE RoomKnown' /\ SettingHasRoom'
  BY <1>4, <1>5 DEF Invited, memVars
<1>6. CASE Restart
  <2>1. \A w \in Workers : task'[w].pc = "idle"
    BY <1>6 DEF Restart, Idle
  <2>2. \A k \in Setting : cache'[k] # None => config' # None
    BY <1>6, RestartType DEF SettingsInv
  <2> QED
    BY <2>1, <2>2 DEF RoomKnown, SettingHasRoom
<1>7. CASE UNCHANGED vars
  BY <1>4, <1>7 DEF vars
<1> QED
  BY <1>1, <1>2, <1>3, <1>5, <1>6, <1>7 DEF Next

LEMMA InitSettings == Init => SettingsInv
<1> SUFFICES ASSUME Init PROVE SettingsInv
  OBVIOUS
<1>1. TypeOK
  BY InitType
<1>2. /\ \A w \in Workers : task[w].kind = None /\ task[w].pc = "idle"
      /\ \A k \in Setting : cache[k] = None /\ told[k] = Untold
  BY DEF Init, Idle
<1>3. ASSUME NEW k \in Setting PROVE KindInv(k)
  BY <1>2, UntoldType, ValuesAssumption DEF KindInv, InForce, IsStored
<1>4. RoomKnown /\ SettingHasRoom
  BY <1>2 DEF RoomKnown, SettingHasRoom
<1> QED
  BY <1>1, <1>3, <1>4 DEF SettingsInv

LEMMA NextSettings == SettingsInv /\ [Next]_vars => SettingsInv'
<1> SUFFICES ASSUME SettingsInv, [Next]_vars PROVE SettingsInv'
  OBVIOUS
<1>1. TypeOK'
  BY NextType DEF SettingsInv
<1>2. \A k \in Setting \ raced' : KindInv(k)'
  BY NextKinds
<1> QED
  BY <1>1, <1>2, NextRooms DEF SettingsInv

LEMMA AlwaysSettingsInv == Spec => []SettingsInv
<1> QED
  BY InitSettings, NextSettings, PTL DEF Spec

\* What the bot has confirmed last of a setting is in force while no goroutine is at it and
\* the process lives, unless two were at it at once or a "notify stop" has failed since:
\* through commands from other rooms, failed and unanswered writes, reads and rooms that the
\* bot leaves.
THEOREM ToldCorrect == Spec => []ToldIsInForce
<1>1. SettingsInv => ToldIsInForce
  <2> SUFFICES ASSUME SettingsInv, NEW k \in Setting \ raced, Quiet(k), told[k].live
               PROVE  /\ told[k].val \in Values(k) => cache[k] = told[k].val
                      /\ told[k].val = Empty /\ (\A r \in Rooms : stored[r][k] \notin Values(k)) =>
                           cache[k] = None
    BY DEF ToldIsInForce
  <2>1. KindInv(k) /\ Answered(k)
    BY DEF SettingsInv, Answered, Quiet
  <2> QED
    BY <2>1 DEF KindInv, InForce
<1> QED
  BY <1>1, AlwaysSettingsInv, PTL

\* A start that misses nothing puts in force the value that some room has.
LEMMA RestartFinds ==
  ASSUME TypeOK, Restart, UNCHANGED faults, NEW k \in Setting, NEW q \in joined,
         stored[q][k] \in Values(k)
  PROVE  \E r \in joined : stored[r][k] \in Values(k) /\ cache'[k] = stored[r][k]
<1>1. PICK Found \in [Setting -> SUBSET joined] : \A j \in Setting :
        /\ \A r \in Found[j] : stored[r][j] \in Values(j)
        /\ IF Found[j] = {} THEN cache'[j] = None
           ELSE \E r \in Found[j] : cache'[j] = stored[r][j]
        /\ Found[j] # {} => config' # None
        /\ faults' = faults => Found[j] = {r \in joined : stored[r][j] \in Values(j)}
  BY RestartType
<1>2. q \in Found[k]
  BY <1>1
<1>3. PICK r \in Found[k] : cache'[k] = stored[r][k]
  BY <1>1, <1>2
<1>4. r \in joined /\ stored[r][k] \in Values(k)
  BY <1>1, <1>3
<1> QED
  BY <1>3, <1>4

\* A start that every request is answered to puts in force what was confirmed last, when
\* no room of the bot has another value and the one of that command has not been left: it is
\* still the state event of that room.
THEOREM RestartCorrect == Spec => RestartRestores
<1>1. SettingsInv /\ Restart /\ UNCHANGED faults =>
        \A k \in Setting \ (raced \cup unanswered) :
          LET v == told[k].val
          IN /\ Answered(k) /\ v \in Values(k) /\ told[k].room \in joined
             /\ \A r \in joined : stored[r][k] \notin Values(k) \ {v}
             => cache'[k] = v
  <2> SUFFICES ASSUME SettingsInv, Restart, UNCHANGED faults,
                      NEW k \in Setting \ (raced \cup unanswered), NEW v, v = told[k].val,
                      Answered(k), v \in Values(k), told[k].room \in joined,
                      \A r \in joined : stored[r][k] \notin Values(k) \ {v}
               PROVE  cache'[k] = v
    OBVIOUS
  <2>1. stored[told[k].room][k] = v
    BY NoValue DEF SettingsInv, KindInv, IsStored
  <2>2. TypeOK
    BY DEF SettingsInv
  <2>3. \E r \in joined : stored[r][k] \in Values(k) /\ cache'[k] = stored[r][k]
    BY <2>1, <2>2, RestartFinds
  <2>4. PICK r \in joined : stored[r][k] \in Values(k) /\ cache'[k] = stored[r][k]
    BY <2>3
  <2> QED
    BY <2>4
<1>2. SettingsInv /\ [Next]_vars =>
        [Restart /\ UNCHANGED faults =>
           \A k \in Setting \ (raced \cup unanswered) :
             LET v == told[k].val
             IN /\ Answered(k) /\ v \in Values(k) /\ told[k].room \in joined
                /\ \A r \in joined : stored[r][k] \notin Values(k) \ {v}
                => cache'[k] = v]_vars
  BY <1>1
<1> QED
  BY <1>2, AlwaysSettingsInv, PTL DEF Spec, RestartRestores

\* A user with a setting in force has a config room, and the notification loop finds it.
THEOREM RoomCorrect == Spec => []SettingHasRoom
<1>1. SettingsInv => SettingHasRoom
  BY DEF SettingsInv
<1> QED
  BY <1>1, AlwaysSettingsInv, PTL

=============================================================================
