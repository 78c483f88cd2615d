------------------------ MODULE MessageCache_proofs ------------------------
(***************************************************************************)
(* Proofs about MessageCache for any messages, photos and message ids, any *)
(* cache size and any number of handlers, edits, stops and deaths.         *)
(***************************************************************************)
EXTENDS MessageCache, TLAPS, SequenceTheorems, FiniteSetTheorems

USE DEF telegram

-----------------------------------------------------------------------------
(* The cache as a set of rows. *)

OneRowEach(c) == \A i, j \in DOMAIN c : c[i].m = c[j].m => i = j
RowsIn(c) == {c[i] : i \in DOMAIN c}
Stored == RowsIn(cache)

LEMMA StoredRows ==
  ASSUME cache \in Seq(Rows), OneRowEach(cache)
  PROVE  /\ Stored \subseteq Rows
         /\ \A m : Cached(m) <=> \E r \in Stored : r.m = m
         /\ \A r, s \in Stored : r.m = s.m => r = s
<1> USE LenProperties
<1>1. Stored \subseteq Rows
  BY DEF Stored, RowsIn
<1>2. \A m : Cached(m) <=> \E r \in Stored : r.m = m
  BY DEF Stored, RowsIn, Cached
<1>3. \A r, s \in Stored : r.m = s.m => r = s
  BY DEF Stored, RowsIn, OneRowEach
<1> QED BY <1>1, <1>2, <1>3

\* RowOf finds the row there is.
LEMMA RowOfStored ==
  ASSUME cache \in Seq(Rows), OneRowEach(cache), NEW m
  PROVE  /\ Cached(m) => RowOf(m) \in Stored /\ RowOf(m).m = m
         /\ ~Cached(m) => RowOf(m) = NoRow
         /\ \A r \in Stored : r.m = m => RowOf(m) = r
<1>1. ~Cached(m) => RowOf(m) = NoRow
  BY DEF RowOf
<1>2. CASE Cached(m)
  <2>1. Index(m) \in DOMAIN cache /\ cache[Index(m)].m = m
    BY <1>2 DEF Cached, Index
  <2>2. RowOf(m) = cache[Index(m)]
    BY <1>2 DEF RowOf
  <2>3. RowOf(m) \in Stored /\ RowOf(m).m = m
    BY <2>1, <2>2 DEF Stored, RowsIn
  <2> QED BY <1>1, <1>2, <2>3, StoredRows
<1>3. CASE ~Cached(m)
  BY <1>1, <1>3, StoredRows
<1> QED BY <1>2, <1>3

\* Without removes the row of a message.
LEMMA WithoutRows ==
  ASSUME cache \in Seq(Rows), OneRowEach(cache), NEW m
  PROVE  /\ Without(m) \in Seq(Rows) /\ OneRowEach(Without(m))
         /\ Len(Without(m)) <= Len(cache)
         /\ RowsIn(Without(m)) = {r \in Stored : r.m # m}
<1>1. CASE ~Cached(m)
  <2>1. Without(m) = cache
    BY <1>1 DEF Without
  <2>2. \A r \in Stored : r.m # m
    BY <1>1, StoredRows
  <2> QED BY <2>1, <2>2, LenProperties DEF Stored
<1>2. CASE Cached(m)
  <2> DEFINE i == Index(m)
             n == Len(cache)
             a == SubSeq(cache, 1, i - 1)
             b == SubSeq(cache, i + 1, n)
  <2>1. i \in 1..n /\ cache[i].m = m /\ n \in Nat
        /\ \A k \in 1..n : cache[k] \in Rows
    BY <1>2, LenProperties DEF Cached, Index
  <2>2. Without(m) = a \o b
    BY <1>2 DEF Without
  <2>3. /\ a \in Seq(Rows) /\ Len(a) = i - 1
        /\ \A k \in 1..(i - 1) : a[k] = cache[k]
    <3>1. \A k \in 1..(i - 1) : cache[k] \in Rows
      BY <2>1
    <3>2. 1 \in Int /\ i - 1 \in Int /\ (1 <= i - 1 \/ i - 1 = 0)
      BY <2>1
    <3> HIDE DEF i, n
    <3> QED BY <3>1, <3>2, SubSeqProperties
  <2>4. /\ b \in Seq(Rows) /\ Len(b) = n - i
        /\ \A k \in 1..(n - i) : b[k] = cache[k + i]
    <3>1. \A k \in (i + 1)..n : cache[k] \in Rows
      BY <2>1
    <3>2. i + 1 \in Int /\ n \in Int /\ (i + 1 <= n \/ n - i = 0) /\ n - (i + 1) + 1 = n - i
          /\ \A k \in 1..(n - i) : i + 1 + k - 1 = k + i
      BY <2>1
    <3> HIDE DEF i, n
    <3> QED BY <3>1, <3>2, SubSeqProperties
  <2> DEFINE w == a \o b
  <2>6. DOMAIN cache = 1..n
    BY LenProperties
  <2> HIDE DEF a, b, i, n, w
  <2>5. /\ w \in Seq(Rows) /\ DOMAIN w = 1..(n - 1) /\ Len(w) = n - 1
        /\ \A k \in 1..(n - 1) : w[k] = IF k < i THEN cache[k] ELSE cache[k + 1]
    <3>1. /\ w \in Seq(Rows) /\ Len(w) = Len(a) + Len(b)
          /\ \A k \in 1..(Len(a) + Len(b)) :
               w[k] = IF k <= Len(a) THEN a[k] ELSE b[k - Len(a)]
      BY <2>3, <2>4, ConcatProperties DEF w
    <3>2. Len(a) + Len(b) = n - 1
      BY <2>1, <2>3, <2>4
    <3>3. ASSUME NEW k \in 1..(n - 1)
          PROVE  w[k] = IF k < i THEN cache[k] ELSE cache[k + 1]
      <4>1. CASE k < i
        <5>1. k <= Len(a) /\ k \in 1..(i - 1) /\ k \in 1..(Len(a) + Len(b))
          BY <2>1, <2>3, <3>2, <4>1
        <5>2. w[k] = a[k]
          BY <3>1, <5>1
        <5> QED BY <2>3, <4>1, <5>1, <5>2
      <4>2. CASE ~(k < i)
        <5>1. k - (i - 1) \in 1..(n - i) /\ k - (i - 1) + i = k + 1
          BY <2>1, <4>2
        <5>2. ~(k <= Len(a)) /\ k - Len(a) = k - (i - 1) /\ k \in 1..(Len(a) + Len(b))
          BY <2>1, <2>3, <3>2, <4>2
        <5>3. w[k] = b[k - (i - 1)]
          BY <3>1, <5>2
        <5> QED BY <2>4, <4>2, <5>1, <5>3
      <4> QED BY <4>1, <4>2
    <3>4. DOMAIN w = 1..(n - 1)
      BY <3>1, <3>2, LenProperties
    <3> QED BY <3>1, <3>2, <3>3, <3>4
  <2>7. OneRowEach(w)
    <3> DEFINE Shift(k) == IF k < i THEN k ELSE k + 1
    <3>1. \A k \in 1..(n - 1) : Shift(k) \in 1..n /\ w[k] = cache[Shift(k)]
      BY <2>1, <2>5
    <3>2. \A j, k \in 1..(n - 1) : Shift(j) = Shift(k) => j = k
      BY <2>1
    <3> HIDE DEF Shift
    <3> QED BY <2>5, <2>6, <3>1, <3>2 DEF OneRowEach
  <2>8. ASSUME NEW k \in DOMAIN w PROVE w[k] \in Stored /\ w[k].m # m
    <3>1. CASE k < i
      BY <2>1, <2>5, <2>6, <3>1 DEF Stored, RowsIn, OneRowEach
    <3>2. CASE ~(k < i)
      BY <2>1, <2>5, <2>6, <3>2 DEF Stored, RowsIn, OneRowEach
    <3> QED BY <3>1, <3>2
  <2>9. ASSUME NEW k \in DOMAIN cache, cache[k].m # m
        PROVE  \E j \in DOMAIN w : w[j] = cache[k]
    <3>1. CASE k < i
      BY <2>1, <2>5, <2>6, <3>1
    <3>2. CASE k > i
      <4>1. k - 1 \in 1..(n - 1) /\ ~(k - 1 < i) /\ k - 1 + 1 = k
        BY <2>1, <2>6, <3>2
      <4> QED BY <2>5, <4>1
    <3> QED BY <2>1, <2>6, <2>9, <3>1, <3>2
  <2>10. RowsIn(w) = {r \in Stored : r.m # m}
    BY <2>8, <2>9 DEF RowsIn, Stored
  <2> QED BY <2>1, <2>2, <2>5, <2>7, <2>10 DEF w, n
<1> QED BY <1>1, <1>2

\* The upsert puts the new row in the place of the message's row.
LEMMA UpsertRows ==
  ASSUME cache \in Seq(Rows), OneRowEach(cache), NEW r \in Rows,
         NEW c, c = Append(Without(r.m), r)
  PROVE  /\ c \in Seq(Rows) /\ OneRowEach(c) /\ Len(c) <= Len(cache) + 1
         /\ RowsIn(c) = {s \in Stored : s.m # r.m} \cup {r}
<1> DEFINE w == Without(r.m)
           n == Len(w)
<1>1. /\ w \in Seq(Rows) /\ OneRowEach(w) /\ n <= Len(cache)
      /\ RowsIn(w) = {s \in Stored : s.m # r.m}
  BY WithoutRows
<1> HIDE DEF w
<1>2. /\ c \in Seq(Rows) /\ Len(c) = n + 1 /\ n \in Nat
      /\ DOMAIN c = 1..(n + 1) /\ DOMAIN w = 1..n
      /\ c[n + 1] = r /\ \A i \in 1..n : c[i] = w[i]
  BY <1>1, AppendProperties, LenProperties DEF w
<1>3. RowsIn(c) = RowsIn(w) \cup {r}
  BY <1>2 DEF RowsIn
<1>4. \A i \in 1..n : w[i].m # r.m
  BY <1>1, <1>2 DEF RowsIn
<1>5. OneRowEach(c)
  BY <1>1, <1>2, <1>4 DEF OneRowEach
<1>6. Len(cache) \in Nat
  BY LenProperties
<1> QED BY <1>1, <1>2, <1>3, <1>5, <1>6

LEMMA Shift ==
  ASSUME NEW n \in Nat, NEW k \in 0..n
  PROVE  /\ k + 1 \in Int /\ n \in Int
         /\ k + 1 <= n \/ n - k = 0
         /\ n - (k + 1) + 1 = n - k
         /\ \A i \in (k + 1)..n : i \in 1..n /\ i - k \in 1..(n - k) /\ i - k + k = i
         /\ \A i \in 1..(n - k) : k + 1 + i - 1 = i + k /\ i + k \in 1..n
         /\ \A i \in 1..n : i \in 1..k \/ i \in (k + 1)..n
         /\ \A i, j \in 1..(n - k) : i + k = j + k => i = j
  OBVIOUS

\* The eviction keeps the latest rows.
LEMMA EvictRows ==
  ASSUME cache \in Seq(Rows), OneRowEach(cache), MaxSize \in Nat,
         NEW old \in Nat,
         old = IF Len(cache) > MaxSize THEN Len(cache) - MaxSize ELSE 0,
         NEW c, c = SubSeq(cache, old + 1, Len(cache))
  PROVE  /\ c \in Seq(Rows) /\ OneRowEach(c) /\ Len(c) <= MaxSize
         /\ RowsIn(c) \subseteq Stored
         /\ \A r \in Stored : r \in RowsIn(c) \/ r.m \in {cache[i].m : i \in 1..old}
<1> DEFINE n == Len(cache)
<1>1. n \in Nat /\ DOMAIN cache = 1..n /\ \A i \in 1..n : cache[i] \in Rows
  BY LenProperties
<1>2. /\ old = IF n > MaxSize THEN n - MaxSize ELSE 0
      /\ c = SubSeq(cache, old + 1, n)
  OBVIOUS
<1> HIDE DEF n
<1>3. old \in 0..n /\ n - old <= MaxSize
  <2>1. CASE n > MaxSize
    BY <1>1, <1>2, <2>1
  <2>2. CASE ~(n > MaxSize)
    BY <1>1, <1>2, <2>2
  <2> QED BY <2>1, <2>2
<1>4. /\ old + 1 \in Int /\ n \in Int
      /\ old + 1 <= n \/ n - old = 0
      /\ n - (old + 1) + 1 = n - old
  BY <1>1, <1>3, Shift
<1>5. \A i \in (old + 1)..n : i \in 1..n /\ i - old \in 1..(n - old) /\ i - old + old = i
  BY <1>1, <1>3, Shift
<1>6. \A i \in 1..(n - old) : old + 1 + i - 1 = i + old /\ i + old \in 1..n
  BY <1>1, <1>3, Shift
<1>7. /\ c \in Seq(Rows) /\ Len(c) = n - old
      /\ \A i \in 1..(n - old) : c[i] = cache[i + old]
  <2>1. \A i \in (old + 1)..n : cache[i] \in Rows
    BY <1>1, <1>5
  <2> DEFINE lo == old + 1
  <2>2. lo \in Int /\ n \in Int /\ \A i \in lo..n : cache[i] \in Rows
    BY <1>4, <2>1
  <2>3. c = SubSeq(cache, lo, n) /\ n - lo + 1 = n - old /\ (lo <= n \/ n - old = 0)
    BY <1>2, <1>4
  <2>4. \A i \in 1..(n - old) : lo + i - 1 = i + old
    BY <1>6
  <2> HIDE DEF lo
  <2>5. /\ SubSeq(cache, lo, n) \in Seq(Rows)
        /\ Len(SubSeq(cache, lo, n)) = IF lo <= n THEN n - lo + 1 ELSE 0
        /\ \A i \in 1..(n - lo + 1) : SubSeq(cache, lo, n)[i] = cache[lo + i - 1]
    BY <2>2, SubSeqProperties
  <2> QED BY <2>3, <2>4, <2>5
<1>8. DOMAIN c = 1..(n - old)
  BY <1>7, LenProperties
<1>9. OneRowEach(c)
  <2>1. ASSUME NEW i \in DOMAIN c, NEW j \in DOMAIN c, c[i].m = c[j].m
        PROVE  i = j
    <3>1. i + old \in DOMAIN cache /\ j + old \in DOMAIN cache
      BY <1>1, <1>6, <1>8
    <3>2. i + old = j + old
      BY <1>7, <1>8, <2>1, <3>1 DEF OneRowEach
    <3> QED BY <1>1, <1>3, <1>8, <3>2, Shift
  <2> QED BY <2>1 DEF OneRowEach
<1>10. RowsIn(c) \subseteq Stored
  <2>1. ASSUME NEW i \in DOMAIN c PROVE \E j \in DOMAIN cache : c[i] = cache[j]
    <3>1. i + old \in DOMAIN cache /\ c[i] = cache[i + old]
      BY <1>1, <1>6, <1>7, <1>8
    <3> QED BY <3>1
  <2>2. ASSUME NEW r \in RowsIn(c) PROVE r \in Stored
    <3>1. PICK i \in DOMAIN c : r = c[i]
      BY DEF RowsIn
    <3>2. PICK j \in DOMAIN cache : c[i] = cache[j]
      BY <2>1
    <3> QED BY <3>1, <3>2 DEF RowsIn, Stored
  <2> QED BY <2>2
<1>11. ASSUME NEW i \in 1..n, i \notin 1..old PROVE cache[i] \in RowsIn(c)
  <2>1. i \in (old + 1)..n
    BY <1>1, <1>3, <1>11, Shift
  <2>2. i - old \in DOMAIN c /\ c[i - old] = cache[i]
    BY <1>5, <1>7, <1>8, <2>1
  <2> QED BY <2>2 DEF RowsIn
<1>12. \A r \in Stored : r \in RowsIn(c) \/ r.m \in {cache[i].m : i \in 1..old}
  <2>1. ASSUME NEW r \in Stored PROVE \E i \in 1..n : r = cache[i]
    BY <1>1 DEF Stored, RowsIn
  <2> QED BY <1>11, <2>1
<1> QED BY <1>3, <1>7, <1>9, <1>10, <1>12

-----------------------------------------------------------------------------
(* Types, and what a handler knows at each of its awaits. *)

TypeParts ==
  /\ sent \subseteq Messages /\ gone \subseteq sent
  /\ version \in [Messages -> Versions]
  /\ cache \in Seq(Rows) /\ OneRowEach(cache)
  /\ tasks \in [Tasks -> TaskStates]
  /\ up \in BOOLEAN
  /\ clean \subseteq Messages /\ owed \subseteq gone /\ mistaken \subseteq gone
  /\ faults \in 0..MaxFaults

\* What `remember`, on_edited and on_deleted hold.
Remembers(w) ==
  /\ w.job = "new" /\ w.at \in {"capture", "insert", "evict"}
  /\ w.m \in sent /\ w.todo = {}
  /\ w.text = 0 /\ w.row = NoRow

Edits(w) ==
  /\ w.job = "edit" /\ w.at \in {"get", "insert", "evict", "report"}
  /\ w.m \in sent /\ w.todo = {}
  /\ w.text <= version[w.m]
  /\ w.at = "get" => w.row = NoRow
  /\ w.row # NoRow =>
       w.row \in Rows /\ w.row.m = w.m /\ w.row.text <= version[w.m]
  /\ w.row # NoRow /\ w.at \in {"evict", "report"} => w.row.text # w.text
  /\ w.at = "report" => w.row # NoRow

Deletes(w) ==
  /\ w.job = "delete" /\ w.at \in {"find", "remove", "report"}
  /\ w.todo \subseteq gone
  /\ w.at = "find" => w.m = NoMessage
  /\ w.at # "find" =>
       /\ w.m \in w.todo
       /\ w.row \in Rows /\ Matches(w.m, w.row) /\ w.row.text <= version[w.row.m]

Works(w) == w = Idle \/ Remembers(w) \/ Edits(w) \/ Deletes(w)

TasksHold == \A t \in Tasks : Works(tasks[t])

\* The rows are of messages that were sent, with texts they had; a message not
\* sent yet was not edited.
Genuine(r) == r.m \in sent /\ r.text <= version[r.m]

StoredHold ==
  /\ \A r \in Stored : Genuine(r)
  /\ \A m \in Messages \ sent : version[m] = 0

CoreInv == TypeParts /\ TasksHold /\ StoredHold

LEMMA IdleTask ==
  ASSUME CacheAssumption
  PROVE  /\ Idle \in TaskStates /\ Idle.job = "none" /\ Idle.at = "idle"
         /\ Idle.m = NoMessage /\ Idle.todo = {}
  BY DEF CacheAssumption, Idle, TaskStates, Versions, NoRow

\* The tasks the updates start.
LEMMA NewTask ==
  ASSUME CacheAssumption, NEW m \in Messages
  PROVE  LET w == [Idle EXCEPT !.job = "new", !.at = "capture", !.m = m]
         IN  /\ w \in TaskStates /\ w.job = "new" /\ w.at = "capture" /\ w.m = m
             /\ w.todo = {} /\ w.text = 0 /\ w.row = NoRow
<1>1. 0 \in Versions
  BY DEF Versions, CacheAssumption
<1> QED BY <1>1 DEF Idle, TaskStates, NoRow

LEMMA DeleteTask ==
  ASSUME CacheAssumption, NEW M \in SUBSET Messages
  PROVE  LET w == [Idle EXCEPT !.job = "delete", !.at = "find", !.todo = M]
         IN  /\ w \in TaskStates /\ w.job = "delete" /\ w.at = "find"
             /\ w.m = NoMessage /\ w.todo = M
<1>1. 0 \in Versions
  BY DEF Versions, CacheAssumption
<1> QED BY <1>1 DEF Idle, TaskStates, NoRow

\* The fields a step of a handler leaves alone.
Same(v, w) == v.job = w.job /\ v.m = w.m /\ v.text = w.text /\ v.todo = w.todo

\* The next id of a deletion.
LEMMA NextTask ==
  ASSUME CacheAssumption, NEW t \in Tasks, tasks[t] \in TaskStates, NEW m
  PROVE  /\ NextId(t, m) \in TaskStates
         /\ \/ NextId(t, m) = Idle /\ tasks[t].todo = {m}
            \/ /\ NextId(t, m).job = "delete" /\ NextId(t, m).at = "find"
               /\ NextId(t, m).m = NoMessage
               /\ NextId(t, m).todo = tasks[t].todo \ {m}
<1>1. CASE tasks[t].todo = {m}
  BY <1>1, IdleTask DEF NextId
<1>2. CASE tasks[t].todo # {m}
  <2> DEFINE M == tasks[t].todo \ {m}
             w == [Idle EXCEPT !.job = "delete", !.at = "find", !.todo = M]
  <2>1. M \in SUBSET Messages
    BY DEF TaskStates
  <2>2. NextId(t, m) = w
    BY <1>2 DEF NextId
  <2> HIDE DEF M
  <2>3. w \in TaskStates /\ w.job = "delete" /\ w.at = "find"
        /\ w.m = NoMessage /\ w.todo = M
    BY <2>1, DeleteTask
  <2> HIDE DEF w
  <2> QED BY <2>2, <2>3 DEF M
<1> QED BY <1>1, <1>2

\* What a handler holds stays true as messages are sent, edited and deleted.
LEMMA WorksKept ==
  ASSUME CacheAssumption, TypeParts, TypeParts',
         sent \subseteq sent', gone \subseteq gone',
         \A m \in Messages : version[m] <= version'[m],
         NEW w \in TaskStates, Works(w)
  PROVE  Works(w)'
<1> USE DEF TypeParts, Versions
<1>1. \A m \in Messages : version[m] \in Nat /\ version'[m] \in Nat
  BY DEF CacheAssumption
<1>2. w.text \in Nat /\ \A r \in Rows : r.m \in Messages /\ r.text \in Nat
  BY DEF TaskStates, Rows, CacheAssumption
<1>3. ASSUME NEW m \in Messages, NEW n \in Nat, n <= version[m]
      PROVE  n <= version'[m]
  BY <1>1, <1>3
<1>4. CASE w = Idle
  BY <1>4 DEF Works
<1>5. CASE Remembers(w)
  BY <1>5 DEF Works, Remembers
<1>6. CASE Edits(w)
  BY <1>2, <1>3, <1>6 DEF Works, Edits
<1>7. CASE Deletes(w)
  BY <1>2, <1>3, <1>7 DEF Works, Deletes, Matches
<1> QED BY <1>4, <1>5, <1>6, <1>7 DEF Works

-----------------------------------------------------------------------------
(* What each step does to its handler. *)

Moved(t, w) == tasks' = [tasks EXCEPT ![t] = w]

LEMMA MovedTasks ==
  ASSUME tasks \in [Tasks -> TaskStates], NEW t \in Tasks, NEW w \in TaskStates,
         Moved(t, w)
  PROVE  /\ tasks' \in [Tasks -> TaskStates]
         /\ tasks'[t] = w
         /\ \A s \in Tasks : s # t => tasks'[s] = tasks[s]
  BY DEF Moved

LEMMA RowOfType ==
  ASSUME CacheAssumption, TypeParts, NEW m
  PROVE  RowOf(m) \in Rows \cup {NoRow} /\ RowOf(m).media \in BOOLEAN
<1>1. RowOf(m) \in Rows \cup {NoRow}
  BY RowOfStored, StoredRows DEF TypeParts
<1>2. \A r \in Rows : r.media \in BOOLEAN
  BY DEF Rows
<1>3. NoRow.media \in BOOLEAN
  BY DEF NoRow
<1> QED BY <1>1, <1>2, <1>3

\* The update is given to an idle handler, or missed.
LEMMA DispatchMoves ==
  ASSUME TypeParts, NEW t \in Tasks, NEW w \in TaskStates, Dispatch(t, w)
  PROVE  /\ clean' \subseteq clean
         /\ \/ /\ Moved(t, w) /\ tasks[t] = Idle
               /\ clean' = clean \ (InHand \cap ({w.m} \cup w.todo))
               /\ owed' = owed \cup {m \in w.todo : Cached(m)}
            \/ /\ UNCHANGED <<tasks, owed>>
               /\ clean' = clean \ ({w.m} \cup w.todo)
  BY DEF Dispatch, Moved

LEMMA CaptureMoves ==
  ASSUME TypeParts, NEW t \in Tasks, Capture(t)
  PROVE  \E w \in TaskStates :
           Moved(t, w) /\ Same(w, tasks[t]) /\ w.at = "insert" /\ w.row = tasks[t].row
<1>1. PICK b \in BOOLEAN : tasks' = [tasks EXCEPT ![t].at = "insert", ![t].media = b]
  BY DEF Capture
<1>2. tasks' = [tasks EXCEPT ![t] = [tasks[t] EXCEPT !.at = "insert", !.media = b]]
  BY <1>1
<1>3. tasks[t] \in TaskStates
  BY DEF TypeParts
<1> DEFINE w == [tasks[t] EXCEPT !.at = "insert", !.media = b]
<1>4. /\ w \in TaskStates /\ Same(w, tasks[t]) /\ w.at = "insert"
      /\ w.row = tasks[t].row
  BY <1>3 DEF TaskStates, Same
<1> QED BY <1>2, <1>4 DEF Moved

LEMMA GetMoves ==
  ASSUME CacheAssumption, TypeParts, NEW t \in Tasks, Get(t)
  PROVE  \E w \in TaskStates :
           /\ Moved(t, w) /\ Same(w, tasks[t]) /\ w.at = "insert"
           /\ w.row = RowOf(tasks[t].m) /\ w.media = RowOf(tasks[t].m).media
<1> DEFINE row == RowOf(tasks[t].m)
           w == [tasks[t] EXCEPT !.at = "insert", !.row = row, !.media = row.media]
<1>1. tasks' = [tasks EXCEPT ![t] = w]
  BY DEF Get
<1>2. tasks[t] \in TaskStates
  BY DEF TypeParts
<1>3. row \in Rows \cup {NoRow} /\ row.media \in BOOLEAN
  BY RowOfType
<1> HIDE DEF row
<1>4. /\ w \in TaskStates /\ Same(w, tasks[t]) /\ w.at = "insert"
      /\ w.row = row /\ w.media = row.media
  BY <1>2, <1>3 DEF TaskStates, Same
<1> QED BY <1>1, <1>4 DEF Moved, row

LEMMA InsertMoves ==
  ASSUME CacheAssumption, TypeParts, NEW t \in Tasks, tasks[t].m \in Messages, Insert(t)
  PROVE  /\ \E w \in TaskStates :
              /\ Moved(t, w) /\ Same(w, tasks[t]) /\ w.at = "evict"
              /\ Changed(t) => w.row = tasks[t].row
              /\ ~Changed(t) => w.row = NoRow
         /\ \E r \in Rows :
              /\ r.m = tasks[t].m /\ r.text = tasks[t].text /\ r.media = tasks[t].media
              /\ Stored' = {s \in Stored : s.m # r.m} \cup {r}
         /\ cache' \in Seq(Rows) /\ OneRowEach(cache')
         /\ Len(cache') <= Len(cache) + 1
<1> DEFINE row == IF Changed(t) THEN tasks[t].row ELSE NoRow
           w == [tasks[t] EXCEPT !.at = "evict", !.media = FALSE, !.row = row]
           r == [m |-> tasks[t].m, text |-> tasks[t].text, media |-> tasks[t].media]
<1>1. tasks' = [tasks EXCEPT ![t] = w]
  BY DEF Insert
<1>2. tasks[t] \in TaskStates
  BY DEF TypeParts
<1>3. row \in Rows \cup {NoRow}
  BY <1>2 DEF TaskStates
<1>4. /\ Changed(t) => row = tasks[t].row
      /\ ~Changed(t) => row = NoRow
  OBVIOUS
<1>5. \E v \in TaskStates :
        /\ Moved(t, v) /\ Same(v, tasks[t]) /\ v.at = "evict"
        /\ Changed(t) => v.row = tasks[t].row
        /\ ~Changed(t) => v.row = NoRow
  <2> HIDE DEF row
  <2>1. w \in TaskStates /\ Same(w, tasks[t]) /\ w.at = "evict" /\ w.row = row
    BY <1>2, <1>3 DEF TaskStates, Same
  <2> HIDE DEF w
  <2> QED BY <1>1, <1>4, <2>1 DEF Moved
<1>6. /\ r \in Rows /\ r.m = tasks[t].m /\ r.text = tasks[t].text
      /\ r.media = tasks[t].media
  BY <1>2 DEF TaskStates, Rows
<1>7. cache' = Append(Without(r.m), r)
  BY <1>6 DEF Insert
<1> HIDE DEF r
<1>8. /\ cache' \in Seq(Rows) /\ OneRowEach(cache') /\ Len(cache') <= Len(cache) + 1
      /\ RowsIn(cache') = {s \in Stored : s.m # r.m} \cup {r}
  BY <1>6, <1>7, UpsertRows DEF TypeParts
<1> QED BY <1>5, <1>6, <1>8 DEF Stored

LEMMA EvictMoves ==
  ASSUME CacheAssumption, TypeParts, NEW t \in Tasks, Evict(t)
  PROVE  /\ \E w \in TaskStates :
              /\ Moved(t, w)
              /\ \/ w = Idle
                 \/ /\ Same(w, tasks[t]) /\ w.at = "report" /\ w.row = tasks[t].row
                    /\ Changed(t)
         /\ cache' \in Seq(Rows) /\ OneRowEach(cache') /\ Len(cache') <= MaxSize
         /\ Stored' \subseteq Stored
         /\ owed' \subseteq owed
         /\ \A r \in Stored : r.m \in owed' => r \in Stored' \/ r.m \in Taken
<1>1. PICK old \in Nat :
        /\ old = IF Len(cache) > MaxSize THEN Len(cache) - MaxSize ELSE 0
        /\ cache' = SubSeq(cache, old + 1, Len(cache))
        /\ owed' = owed \ ({cache[i].m : i \in 1..old} \ Taken)
  <2>1. Len(cache) \in Nat /\ MaxSize \in Nat
    BY LenProperties DEF TypeParts, CacheAssumption
  <2> DEFINE n == IF Len(cache) > MaxSize THEN Len(cache) - MaxSize ELSE 0
  <2>2. n \in Nat
    BY <2>1
  <2> QED BY <2>2 DEF Evict
<1>2. /\ cache' \in Seq(Rows) /\ OneRowEach(cache') /\ Len(cache') <= MaxSize
      /\ RowsIn(cache') \subseteq Stored
      /\ \A r \in Stored : r \in RowsIn(cache') \/ r.m \in {cache[i].m : i \in 1..old}
  BY <1>1, EvictRows DEF TypeParts, CacheAssumption
<1>3. \E w \in TaskStates :
        /\ Moved(t, w)
        /\ \/ w = Idle
           \/ /\ Same(w, tasks[t]) /\ w.at = "report" /\ w.row = tasks[t].row
              /\ Changed(t)
  <2>1. CASE Changed(t)
    <3> DEFINE w == [tasks[t] EXCEPT !.at = "report"]
    <3>1. Moved(t, w)
      BY <2>1 DEF Evict, Moved
    <3>2. tasks[t] \in TaskStates
      BY DEF TypeParts
    <3>3. /\ w \in TaskStates /\ Same(w, tasks[t]) /\ w.at = "report"
          /\ w.row = tasks[t].row
      BY <3>2 DEF TaskStates, Same
    <3> QED BY <2>1, <3>1, <3>3
  <2>2. CASE ~Changed(t)
    BY <2>2, IdleTask DEF Evict, Moved
  <2> QED BY <2>1, <2>2
<1> QED BY <1>1, <1>2, <1>3 DEF Stored

LEMMA FindMoves ==
  ASSUME CacheAssumption, TypeParts, NEW t \in Tasks, NEW m \in Messages, Find(t, m)
  PROVE  \/ \E w \in TaskStates, r \in Stored :
              /\ Moved(t, w) /\ Matches(m, r)
              /\ w.job = tasks[t].job /\ w.todo = tasks[t].todo
              /\ w.at = "remove" /\ w.m = m /\ w.row = r
         \/ /\ Moved(t, NextId(t, m))
            /\ \A r \in Stored : ~Matches(m, r)
<1>1. CASE \E i \in DOMAIN cache :
             /\ Found(m, i)
             /\ tasks' = [tasks EXCEPT ![t].at = "remove", ![t].m = m, ![t].row = cache[i]]
  <2>1. PICK i \in DOMAIN cache :
          /\ Found(m, i)
          /\ tasks' = [tasks EXCEPT ![t].at = "remove", ![t].m = m, ![t].row = cache[i]]
    BY <1>1
  <2> DEFINE r == cache[i]
             w == [tasks[t] EXCEPT !.at = "remove", !.m = m, !.row = r]
  <2>2. r \in Stored /\ Matches(m, r)
    BY <2>1 DEF Stored, RowsIn, Found
  <2>3. r \in Rows
    BY <2>2, StoredRows DEF TypeParts
  <2>4. Moved(t, w)
    BY <2>1 DEF Moved
  <2>5. tasks[t] \in TaskStates
    BY DEF TypeParts
  <2> HIDE DEF r
  <2>6. /\ w \in TaskStates /\ w.job = tasks[t].job /\ w.todo = tasks[t].todo
        /\ w.at = "remove" /\ w.m = m /\ w.row = r
    BY <2>3, <2>5 DEF TaskStates
  <2> HIDE DEF w
  <2> QED BY <2>2, <2>4, <2>6
<1>2. CASE /\ \A i \in DOMAIN cache : ~Matches(m, cache[i])
           /\ tasks' = [tasks EXCEPT ![t] = NextId(t, m)]
  BY <1>2 DEF Stored, RowsIn, Moved
<1> QED BY <1>1, <1>2 DEF Find

LEMMA RemoveMoves ==
  ASSUME CacheAssumption, TypeParts, NEW t \in Tasks, Remove(t)
  PROVE  /\ \/ Moved(t, NextId(t, tasks[t].m)) /\ owed' = owed \ {tasks[t].row.m}
            \/ /\ UNCHANGED owed
               /\ \E w \in TaskStates :
                    /\ Moved(t, w) /\ Same(w, tasks[t]) /\ w.at = "report"
                    /\ w.row = tasks[t].row
         /\ cache' \in Seq(Rows) /\ OneRowEach(cache') /\ Len(cache') <= Len(cache)
         /\ Stored' = {r \in Stored : r.m # tasks[t].row.m}
<1>1. /\ cache' \in Seq(Rows) /\ OneRowEach(cache') /\ Len(cache') <= Len(cache)
      /\ RowsIn(cache') = {r \in Stored : r.m # tasks[t].row.m}
  <2>1. cache' = Without(tasks[t].row.m)
    BY DEF Remove
  <2> QED BY <2>1, WithoutRows DEF TypeParts
<1>2. CASE Bare(tasks[t].row)
  BY <1>1, <1>2 DEF Remove, Moved, Stored
<1>3. CASE ~Bare(tasks[t].row)
  <2> DEFINE w == [tasks[t] EXCEPT !.at = "report"]
  <2>1. Moved(t, w) /\ UNCHANGED owed
    BY <1>3 DEF Remove, Moved
  <2>2. tasks[t] \in TaskStates
    BY DEF TypeParts
  <2>3. w \in TaskStates /\ Same(w, tasks[t]) /\ w.at = "report" /\ w.row = tasks[t].row
    BY <2>2 DEF TaskStates, Same
  <2> HIDE DEF w
  <2> QED BY <1>1, <2>1, <2>3 DEF Stored
<1> QED BY <1>2, <1>3

LEMMA HandleMoves ==
  ASSUME CacheAssumption, TypeParts, NEW t \in Tasks, Handle(t)
  PROVE  /\ tasks[t].job = "edit" => Moved(t, Idle)
         /\ tasks[t].job # "edit" => Moved(t, NextId(t, tasks[t].m))
         /\ tasks[t].job = "delete" => owed' = owed \ {tasks[t].row.m}
         /\ tasks[t].job # "delete" => owed' = owed
  BY DEF Handle, Moved

-----------------------------------------------------------------------------
(* Every step keeps the types, and what handlers hold and rows say. *)

LEMMA TasksKept ==
  ASSUME CacheAssumption, TypeParts, TypeParts', TasksHold,
         sent \subseteq sent', gone \subseteq gone',
         \A m \in Messages : version[m] <= version'[m],
         \A t \in Tasks : tasks'[t] = tasks[t] \/ tasks'[t] = Idle
  PROVE  TasksHold'
<1> SUFFICES ASSUME NEW t \in Tasks PROVE Works(tasks[t])'
  BY DEF TasksHold
<1>1. CASE tasks'[t] = Idle
  BY <1>1 DEF Works
<1>2. CASE tasks'[t] = tasks[t]
  <2>1. PICK w \in TaskStates : w = tasks[t]
    BY DEF TypeParts
  <2>2. Works(w)
    BY <2>1 DEF TasksHold
  <2>3. Works(w)'
    BY <2>2, WorksKept
  <2> QED BY <1>2, <2>1, <2>3
<1> QED BY <1>1, <1>2

LEMMA OneTaskKept ==
  ASSUME CacheAssumption, TypeParts, TypeParts', TasksHold,
         sent \subseteq sent', gone \subseteq gone',
         \A m \in Messages : version[m] <= version'[m],
         NEW t \in Tasks, NEW w \in TaskStates, Moved(t, w), Works(w)'
  PROVE  TasksHold'
<1> SUFFICES ASSUME NEW s \in Tasks PROVE Works(tasks[s])'
  BY DEF TasksHold
<1>1. /\ tasks'[t] = w
      /\ \A q \in Tasks : q # t => tasks'[q] = tasks[q]
  BY MovedTasks DEF TypeParts
<1>2. CASE s = t
  BY <1>1, <1>2
<1>3. CASE s # t
  <2>1. PICK v \in TaskStates : v = tasks[s]
    BY DEF TypeParts
  <2>2. Works(v)
    BY <2>1 DEF TasksHold
  <2>3. Works(v)'
    BY <2>2, WorksKept
  <2> QED BY <1>1, <1>3, <2>1, <2>3
<1> QED BY <1>2, <1>3

\* A step of one handler that changes nothing at Telegram.
LEMMA HandlerCore ==
  ASSUME CacheAssumption, CoreInv,
         sent' = sent, gone' = gone, version' = version, up' = up,
         cache' \in Seq(Rows), OneRowEach(cache'),
         \A r \in Stored' : r \in Stored \/ Genuine(r),
         clean' \subseteq clean, owed' \subseteq owed, faults' \in 0..MaxFaults,
         mistaken' \subseteq mistaken \cup gone,
         NEW t \in Tasks, NEW w \in TaskStates, Moved(t, w), Works(w)
  PROVE  CoreInv'
<1> USE DEF CoreInv
<1>1. TypeParts'
  BY MovedTasks DEF TypeParts
<1>2. \A m \in Messages : version[m] <= version'[m]
  <2>1. \A m \in Messages : version[m] \in Nat
    BY DEF TypeParts, Versions, CacheAssumption
  <2> QED BY <2>1
<1>3. Works(w)'
  BY <1>1, <1>2, WorksKept
<1>4. TasksHold'
  BY <1>1, <1>2, <1>3, OneTaskKept
<1>5. StoredHold'
  BY DEF StoredHold, Genuine
<1> QED BY <1>1, <1>4, <1>5

\* What is known of a handler from its place.
LEMMA Places ==
  ASSUME CacheAssumption, CoreInv, NEW t \in Tasks
  PROVE  LET w == tasks[t] IN
         /\ w \in TaskStates
         /\ w.at = "capture" => Remembers(w)
         /\ w.at = "get" => Edits(w)
         /\ w.at \in {"insert", "evict"} => Remembers(w) \/ Edits(w)
         /\ w.at \in {"find", "remove"} => Deletes(w)
         /\ w.at = "report" => Edits(w) \/ Deletes(w)
         /\ w.job = "new" => Remembers(w)
         /\ w.job = "edit" => Edits(w)
         /\ w.job = "delete" => Deletes(w)
<1>1. Works(tasks[t]) /\ tasks[t] \in TaskStates
  BY DEF CoreInv, TasksHold, TypeParts
<1>2. CASE tasks[t] = Idle
  BY <1>1, <1>2, IdleTask
<1>3. CASE tasks[t] # Idle
  BY <1>1, <1>3 DEF Works, Remembers, Edits, Deletes
<1> QED BY <1>2, <1>3

\* The next id of a deletion, as a handler's state.
LEMMA NextWorks ==
  ASSUME CacheAssumption, CoreInv, NEW t \in Tasks, Deletes(tasks[t]), NEW m
  PROVE  NextId(t, m) \in TaskStates /\ Works(NextId(t, m))
<1>1. PICK w \in TaskStates :
        /\ w = NextId(t, m)
        /\ \/ w = Idle
           \/ w.job = "delete" /\ w.at = "find" /\ w.m = NoMessage
              /\ w.todo = tasks[t].todo \ {m}
  <2>1. tasks[t] \in TaskStates
    BY DEF CoreInv, TypeParts
  <2> QED BY <2>1, NextTask
<1>2. Works(w)
  BY <1>1 DEF Works, Deletes
<1> QED BY <1>1, <1>2

LEMMA CaptureCore ==
  ASSUME CacheAssumption, CoreInv, NEW t \in Tasks, Capture(t)
  PROVE  CoreInv'
<1>1. PICK w \in TaskStates :
        Moved(t, w) /\ Same(w, tasks[t]) /\ w.at = "insert" /\ w.row = tasks[t].row
  BY CaptureMoves DEF CoreInv
<1>2. Works(w)
  <2>1. Remembers(tasks[t])
    BY Places DEF Capture, At
  <2> QED BY <1>1, <2>1 DEF Same, Works, Remembers
<1>3. UNCHANGED <<telegram, cache, up, clean, owed, mistaken, faults>>
  BY DEF Capture
<1>4. /\ cache' \in Seq(Rows) /\ OneRowEach(cache')
      /\ Stored' = Stored /\ faults' \in 0..MaxFaults
  BY <1>3 DEF CoreInv, TypeParts, Stored
<1> QED BY <1>1, <1>2, <1>3, <1>4, HandlerCore

LEMMA GetCore ==
  ASSUME CacheAssumption, CoreInv, NEW t \in Tasks, Get(t)
  PROVE  CoreInv'
<1>1. PICK w \in TaskStates :
        /\ Moved(t, w) /\ Same(w, tasks[t]) /\ w.at = "insert"
        /\ w.row = RowOf(tasks[t].m)
  BY GetMoves DEF CoreInv
<1>2. Works(w)
  <2>1. Edits(tasks[t])
    BY Places DEF Get, At
  <2>2. \/ w.row = NoRow
        \/ w.row \in Stored /\ w.row.m = tasks[t].m
    BY <1>1, RowOfStored DEF CoreInv, TypeParts
  <2>3. w.row # NoRow =>
          w.row \in Rows /\ w.row.m = w.m /\ w.row.text <= version[w.row.m]
    BY <1>1, <2>2, StoredRows DEF CoreInv, TypeParts, StoredHold, Genuine, Same
  <2> QED BY <1>1, <2>1, <2>3 DEF Same, Works, Edits
<1>3. UNCHANGED <<telegram, cache, up, clean, owed, mistaken, faults>>
  BY DEF Get
<1>4. /\ cache' \in Seq(Rows) /\ OneRowEach(cache')
      /\ Stored' = Stored /\ faults' \in 0..MaxFaults
  BY <1>3 DEF CoreInv, TypeParts, Stored
<1> QED BY <1>1, <1>2, <1>3, <1>4, HandlerCore

LEMMA InsertCore ==
  ASSUME CacheAssumption, CoreInv, NEW t \in Tasks, Insert(t)
  PROVE  CoreInv'
<1>1. /\ Remembers(tasks[t]) \/ Edits(tasks[t])
      /\ tasks[t].m \in sent /\ tasks[t].m \in Messages
  <2>1. Remembers(tasks[t]) \/ Edits(tasks[t])
    BY Places DEF Insert
  <2> QED BY <2>1 DEF Remembers, Edits, CoreInv, TypeParts
<1>2. /\ \E w \in TaskStates :
           /\ Moved(t, w) /\ Same(w, tasks[t]) /\ w.at = "evict"
           /\ Changed(t) => w.row = tasks[t].row
           /\ ~Changed(t) => w.row = NoRow
      /\ \E r \in Rows :
           /\ r.m = tasks[t].m /\ r.text = tasks[t].text /\ r.media = tasks[t].media
           /\ Stored' = {s \in Stored : s.m # r.m} \cup {r}
      /\ cache' \in Seq(Rows) /\ OneRowEach(cache')
  BY <1>1, InsertMoves DEF CoreInv
<1>3. PICK w \in TaskStates :
        /\ Moved(t, w) /\ Same(w, tasks[t]) /\ w.at = "evict"
        /\ Changed(t) => w.row = tasks[t].row
        /\ ~Changed(t) => w.row = NoRow
  BY <1>2
<1>4. Works(w)
  <2>1. CASE Remembers(tasks[t])
    BY <1>3, <2>1 DEF Same, Works, Remembers, Changed
  <2>2. CASE Edits(tasks[t])
    BY <1>3, <2>2 DEF Same, Works, Edits, Changed
  <2> QED BY <1>1, <2>1, <2>2
<1>5. tasks[t].text <= version[tasks[t].m]
  <2>1. version[tasks[t].m] \in Nat
    BY <1>1 DEF CoreInv, TypeParts, Versions, CacheAssumption
  <2> QED BY <1>1, <2>1 DEF Remembers, Edits
<1>6. \A r \in Stored' : r \in Stored \/ Genuine(r)
  <2>1. PICK r \in Rows :
          /\ r.m = tasks[t].m /\ r.text = tasks[t].text
          /\ Stored' = {s \in Stored : s.m # r.m} \cup {r}
    BY <1>2
  <2>2. Genuine(r)
    BY <1>1, <1>5, <2>1 DEF Genuine
  <2>3. \A s \in Stored' : s \in Stored \/ s = r
    BY <2>1
  <2> QED BY <2>2, <2>3
<1>7. UNCHANGED <<telegram, up, clean, owed, mistaken, faults>>
  BY DEF Insert
<1> QED BY <1>2, <1>3, <1>4, <1>6, <1>7, HandlerCore DEF CoreInv, TypeParts

LEMMA EvictCore ==
  ASSUME CacheAssumption, CoreInv, NEW t \in Tasks, Evict(t)
  PROVE  CoreInv'
<1>1. /\ \E w \in TaskStates :
           /\ Moved(t, w)
           /\ \/ w = Idle
              \/ /\ Same(w, tasks[t]) /\ w.at = "report" /\ w.row = tasks[t].row
                 /\ Changed(t)
      /\ cache' \in Seq(Rows) /\ OneRowEach(cache')
      /\ Stored' \subseteq Stored /\ owed' \subseteq owed
  BY EvictMoves DEF CoreInv
<1>2. PICK w \in TaskStates :
        /\ Moved(t, w)
        /\ \/ w = Idle
           \/ /\ Same(w, tasks[t]) /\ w.at = "report" /\ w.row = tasks[t].row
              /\ Changed(t)
  BY <1>1
<1>3. Works(w)
  <2>1. CASE w = Idle
    BY <2>1 DEF Works
  <2>2. CASE w # Idle
    <3>1. Edits(tasks[t])
      BY <1>2, <2>2, Places DEF Changed
    <3> QED BY <1>2, <2>2, <3>1 DEF Works, Edits, Same, Changed
  <2> QED BY <2>1, <2>2
<1>4. UNCHANGED <<telegram, up, clean, mistaken, faults>>
  BY DEF Evict
<1>5. faults' \in 0..MaxFaults
  BY <1>4 DEF CoreInv, TypeParts
<1> QED BY <1>1, <1>2, <1>3, <1>4, <1>5, HandlerCore

LEMMA FindCore ==
  ASSUME CacheAssumption, CoreInv, NEW t \in Tasks, NEW m \in Messages, Find(t, m)
  PROVE  CoreInv'
<1>1. Deletes(tasks[t]) /\ m \in tasks[t].todo
  BY Places DEF Find, At
<1>2. PICK w \in TaskStates : Moved(t, w) /\ Works(w)
  <2>1. CASE Moved(t, NextId(t, m))
    BY <1>1, <2>1, NextWorks
  <2>2. CASE \E w \in TaskStates, r \in Stored :
               /\ Moved(t, w) /\ Matches(m, r)
               /\ w.job = tasks[t].job /\ w.todo = tasks[t].todo
               /\ w.at = "remove" /\ w.m = m /\ w.row = r
    <3>1. PICK w \in TaskStates, r \in Stored :
            /\ Moved(t, w) /\ Matches(m, r)
            /\ w.job = tasks[t].job /\ w.todo = tasks[t].todo
            /\ w.at = "remove" /\ w.m = m /\ w.row = r
      BY <2>2
    <3>2. r \in Rows /\ r.text <= version[r.m]
      BY StoredRows DEF CoreInv, TypeParts, StoredHold, Genuine
    <3>3. Works(w)
      BY <1>1, <3>1, <3>2 DEF Works, Deletes
    <3> QED BY <3>1, <3>3
  <2> QED BY <2>1, <2>2, FindMoves DEF CoreInv
<1>3. UNCHANGED <<telegram, cache, up, clean, owed, mistaken, faults>>
  BY DEF Find
<1>4. /\ cache' \in Seq(Rows) /\ OneRowEach(cache')
      /\ Stored' = Stored /\ faults' \in 0..MaxFaults
  BY <1>3 DEF CoreInv, TypeParts, Stored
<1> QED BY <1>2, <1>3, <1>4, HandlerCore

LEMMA RemoveCore ==
  ASSUME CacheAssumption, CoreInv, NEW t \in Tasks, Remove(t)
  PROVE  CoreInv'
<1>1. Deletes(tasks[t])
  BY Places DEF Remove, At
<1>2. /\ \/ Moved(t, NextId(t, tasks[t].m)) /\ owed' = owed \ {tasks[t].row.m}
         \/ /\ UNCHANGED owed
            /\ \E w \in TaskStates :
                 /\ Moved(t, w) /\ Same(w, tasks[t]) /\ w.at = "report"
                 /\ w.row = tasks[t].row
      /\ cache' \in Seq(Rows) /\ OneRowEach(cache')
      /\ Stored' = {r \in Stored : r.m # tasks[t].row.m}
  BY RemoveMoves DEF CoreInv
<1>3. PICK w \in TaskStates : Moved(t, w) /\ Works(w)
  <2>1. CASE Moved(t, NextId(t, tasks[t].m))
    BY <1>1, <2>1, NextWorks
  <2>2. CASE \E w \in TaskStates :
               /\ Moved(t, w) /\ Same(w, tasks[t]) /\ w.at = "report"
               /\ w.row = tasks[t].row
    <3>1. PICK w \in TaskStates :
            /\ Moved(t, w) /\ Same(w, tasks[t]) /\ w.at = "report"
            /\ w.row = tasks[t].row
      BY <2>2
    <3>2. Works(w)
      BY <1>1, <3>1 DEF Works, Deletes, Same, Remove, At
    <3> QED BY <3>1, <3>2
  <2> QED BY <1>2, <2>1, <2>2
<1>4. /\ UNCHANGED <<telegram, up, clean, faults>> /\ owed' \subseteq owed
      /\ mistaken' \subseteq mistaken \cup gone
  BY <1>1, <1>2 DEF Remove, Mistaken, Deletes, At
<1>5. faults' \in 0..MaxFaults
  BY <1>4 DEF CoreInv, TypeParts
<1> QED BY <1>2, <1>3, <1>4, <1>5, HandlerCore

LEMMA HandleCore ==
  ASSUME CacheAssumption, CoreInv, NEW t \in Tasks, Handle(t)
  PROVE  CoreInv'
<1>1. Edits(tasks[t]) \/ Deletes(tasks[t])
  BY Places DEF Handle
<1>2. PICK w \in TaskStates : Moved(t, w) /\ Works(w)
  <2>1. CASE Edits(tasks[t])
    <3>1. Moved(t, Idle)
      BY <2>1, HandleMoves DEF Edits, CoreInv
    <3> QED BY <3>1, IdleTask DEF Works
  <2>2. CASE Deletes(tasks[t])
    <3>1. Moved(t, NextId(t, tasks[t].m))
      BY <2>2, HandleMoves DEF Deletes, CoreInv
    <3> QED BY <2>2, <3>1, NextWorks
  <2> QED BY <1>1, <2>1, <2>2
<1>3. UNCHANGED <<telegram, cache, up, clean, mistaken, faults>> /\ owed' \subseteq owed
  BY DEF Handle
<1>4. /\ cache' \in Seq(Rows) /\ OneRowEach(cache')
      /\ Stored' = Stored /\ faults' \in 0..MaxFaults
  BY <1>3 DEF CoreInv, TypeParts, Stored
<1> QED BY <1>2, <1>3, <1>4, HandlerCore

LEMMA DiesCore ==
  ASSUME CacheAssumption, CoreInv, NEW t \in Tasks, Dies(t)
  PROVE  CoreInv'
<1>1. Moved(t, Idle) /\ Idle \in TaskStates /\ Works(Idle)
  BY IdleTask DEF Dies, Moved, Works
<1>2. /\ UNCHANGED <<telegram, cache, up, mistaken>>
      /\ clean' \subseteq clean /\ owed' \subseteq owed
  BY DEF Dies
<1>3. faults' \in 0..MaxFaults
  BY DEF Dies, CoreInv, TypeParts, CacheAssumption
<1>4. cache' \in Seq(Rows) /\ OneRowEach(cache') /\ Stored' = Stored
  BY <1>2 DEF CoreInv, TypeParts, Stored
<1> QED BY <1>1, <1>2, <1>3, <1>4, HandlerCore

\* An update, given to a handler or missed.
Grows ==
  /\ sent' \subseteq Messages /\ sent \subseteq sent'
  /\ gone' \subseteq sent' /\ gone \subseteq gone'
  /\ version' \in [Messages -> Versions]
  /\ \A m \in Messages : version[m] <= version'[m]
  /\ \A m \in Messages \ sent' : version'[m] = version[m]

LEMMA UpdateCore ==
  ASSUME CacheAssumption, CoreInv, Grows,
         cache' = cache, up' = up, mistaken' = mistaken, faults' = faults,
         NEW t \in Tasks, NEW w \in TaskStates, Dispatch(t, w),
         w.todo \subseteq gone', Works(w)'
  PROVE  CoreInv'
<1> USE DEF CoreInv
<1>1. /\ clean' \subseteq clean
      /\ \/ /\ Moved(t, w)
            /\ owed' = owed \cup {m \in w.todo : Cached(m)}
         \/ UNCHANGED <<tasks, owed>>
  BY DispatchMoves
<1>2. TypeParts'
  <2>1. tasks' \in [Tasks -> TaskStates]
    BY <1>1, MovedTasks DEF TypeParts
  <2>2. owed' \subseteq gone'
    BY <1>1 DEF TypeParts, Grows
  <2> QED BY <1>1, <2>1, <2>2 DEF TypeParts, Grows
<1>3. TasksHold'
  <2>1. CASE Moved(t, w)
    BY <1>2, <2>1, OneTaskKept DEF Grows
  <2>2. CASE UNCHANGED <<tasks, owed>>
    BY <1>2, <2>2, TasksKept DEF Grows
  <2> QED BY <1>1, <2>1, <2>2
<1>4. StoredHold'
  <2>1. Stored' = Stored
    BY DEF Stored
  <2>2. ASSUME NEW r \in Stored PROVE Genuine(r)'
    <3>1. r \in Rows /\ Genuine(r)
      BY StoredRows DEF TypeParts, StoredHold
    <3>2. r.m \in Messages /\ r.text \in Nat /\ version[r.m] \in Nat /\ version'[r.m] \in Nat
      BY <3>1 DEF Rows, Versions, TypeParts, Grows, CacheAssumption
    <3> QED BY <3>1, <3>2 DEF Genuine, Grows
  <2>3. \A m \in Messages \ sent' : version'[m] = 0
    BY DEF Grows, StoredHold
  <2> QED BY <2>1, <2>2, <2>3 DEF StoredHold
<1> QED BY <1>2, <1>3, <1>4

LEMMA ArrivesCore ==
  ASSUME CacheAssumption, CoreInv, NEW t \in Tasks, NEW m \in Messages, Arrives(t, m)
  PROVE  CoreInv'
<1>1. PICK w \in TaskStates :
        /\ Dispatch(t, w) /\ w.job = "new" /\ w.at = "capture" /\ w.m = m
        /\ w.todo = {} /\ w.text = 0 /\ w.row = NoRow
  BY NewTask DEF Arrives
<1>2. Works(w)'
  BY <1>1 DEF Works, Remembers, Arrives
<1>3. Grows
  <2>1. \A n \in Messages : version[n] \in Nat
    BY DEF CoreInv, TypeParts, Versions, CacheAssumption
  <2> QED BY <2>1 DEF Grows, Arrives, CoreInv, TypeParts
<1>4. cache' = cache /\ up' = up /\ mistaken' = mistaken /\ faults' = faults
  BY DEF Arrives
<1> QED BY <1>1, <1>2, <1>3, <1>4, UpdateCore

LEMMA EditedTelegram ==
  ASSUME CacheAssumption, CoreInv, NEW t \in Tasks, NEW m \in Messages, Edited(t, m)
  PROVE  \E v \in Versions :
           /\ version' = [version EXCEPT ![m] = v]
           /\ v = version[m] \/ v = version[m] + 1
           /\ Dispatch(t, [Idle EXCEPT !.job = "edit", !.at = "get", !.m = m, !.text = v])
<1>1. version[m] \in 0..MaxVersion /\ MaxVersion \in Nat
  BY DEF CoreInv, TypeParts, Versions, CacheAssumption
<1>2. CASE version[m] < MaxVersion
  <2>1. version[m] + 1 \in Versions
    BY <1>1, <1>2 DEF Versions
  <2> QED BY <1>2, <2>1 DEF Edited
<1>3. CASE ~(version[m] < MaxVersion)
  <2>1. version[m] \in Versions
    BY <1>1 DEF Versions
  <2> QED BY <1>3, <2>1 DEF Edited
<1> QED BY <1>2, <1>3

LEMMA EditedTask ==
  ASSUME CacheAssumption, CoreInv, NEW t \in Tasks, NEW m \in Messages, Edited(t, m)
  PROVE  \E w \in TaskStates :
           /\ Dispatch(t, w) /\ w.job = "edit" /\ w.at = "get" /\ w.m = m
           /\ w.todo = {} /\ w.text \in Versions /\ w.row = NoRow
           /\ version' = [version EXCEPT ![m] = w.text]
           /\ w.text = version[m] \/ w.text = version[m] + 1
<1>1. PICK v \in Versions :
        /\ version' = [version EXCEPT ![m] = v]
        /\ v = version[m] \/ v = version[m] + 1
        /\ Dispatch(t, [Idle EXCEPT !.job = "edit", !.at = "get", !.m = m, !.text = v])
  BY EditedTelegram
<1> DEFINE e == [Idle EXCEPT !.job = "edit", !.at = "get", !.m = m, !.text = v]
<1>2. /\ e \in TaskStates /\ e.job = "edit" /\ e.at = "get" /\ e.m = m
      /\ e.todo = {} /\ e.text = v /\ e.row = NoRow
  <2>1. 0 \in Versions
    BY DEF Versions, CacheAssumption
  <2> QED BY <2>1 DEF Idle, TaskStates, NoRow
<1>3. Dispatch(t, e)
  BY <1>1
<1> HIDE DEF e
<1> QED BY <1>1, <1>2, <1>3

LEMMA EditedCore ==
  ASSUME CacheAssumption, CoreInv, NEW t \in Tasks, NEW m \in Messages, Edited(t, m)
  PROVE  CoreInv'
<1>1. PICK w \in TaskStates :
        /\ Dispatch(t, w) /\ w.job = "edit" /\ w.at = "get" /\ w.m = m
        /\ w.todo = {} /\ w.text \in Versions /\ w.row = NoRow
        /\ version' = [version EXCEPT ![m] = w.text]
        /\ w.text = version[m] \/ w.text = version[m] + 1
  BY EditedTask
<1>2. PICK v \in Versions : v = w.text
  BY <1>1
<1>3. m \in sent /\ sent' = sent /\ gone' = gone /\ cache' = cache /\ up' = up
      /\ mistaken' = mistaken /\ faults' = faults
  BY DEF Edited
<1>4. Versions \subseteq Nat /\ version \in [Messages -> Versions]
  BY DEF CoreInv, TypeParts, Versions, CacheAssumption
<1>5. version'[m] = v /\ \A n \in Messages : n # m => version'[n] = version[n]
  BY <1>1, <1>2, <1>4
<1>6. Grows
  <2>1. \A n \in Messages : version[n] <= version'[n]
    BY <1>1, <1>2, <1>4, <1>5
  <2>2. version' \in [Messages -> Versions]
    BY <1>1, <1>2, <1>4
  <2> QED BY <1>3, <1>5, <2>1, <2>2 DEF Grows, CoreInv, TypeParts
<1>7. Works(w)'
  <2>1. w.text <= version'[m]
    BY <1>2, <1>4, <1>5
  <2> QED BY <1>1, <1>3, <2>1 DEF Works, Edits
<1>8. w.todo \subseteq gone'
  BY <1>1
<1> QED BY <1>1, <1>3, <1>6, <1>7, <1>8, UpdateCore

LEMMA DeletedCore ==
  ASSUME CacheAssumption, CoreInv, NEW t \in Tasks, NEW M \in SUBSET Messages,
         Deleted(t, M)
  PROVE  CoreInv'
<1>1. PICK w \in TaskStates :
        /\ Dispatch(t, w) /\ w.job = "delete" /\ w.at = "find"
        /\ w.m = NoMessage /\ w.todo = M
  BY DeleteTask DEF Deleted
<1>2. Works(w)'
  BY <1>1 DEF Works, Deletes, Deleted
<1>3. Grows
  <2>1. \A n \in Messages : version[n] \in Nat
    BY DEF CoreInv, TypeParts, Versions, CacheAssumption
  <2> QED BY <2>1 DEF Grows, Deleted, CoreInv, TypeParts
<1>4. /\ cache' = cache /\ up' = up /\ mistaken' = mistaken /\ faults' = faults
      /\ w.todo \subseteq gone'
  BY <1>1 DEF Deleted
<1> QED BY <1>1, <1>2, <1>3, <1>4, UpdateCore

\* The worker stops or starts.
LEMMA WorkerCore ==
  ASSUME CacheAssumption, CoreInv, Stop \/ Start
  PROVE  CoreInv'
<1>1. UNCHANGED <<telegram, cache, mistaken>> /\ Stored' = Stored
  BY DEF Stop, Start, Stored
<1>2. TypeParts'
  <2>1. tasks' \in [Tasks -> TaskStates] /\ up' \in BOOLEAN /\ clean' \subseteq clean
        /\ owed' \subseteq owed
    <3>1. CASE Stop
      BY <3>1, IdleTask DEF Stop
    <3>2. CASE Start
      BY <3>2 DEF Start, CoreInv, TypeParts
    <3> QED BY <3>1, <3>2
  <2>2. faults' \in 0..MaxFaults
    BY DEF Stop, Start, CoreInv, TypeParts, CacheAssumption
  <2> QED BY <1>1, <2>1, <2>2 DEF CoreInv, TypeParts
<1>3. \A t \in Tasks : tasks'[t] = tasks[t] \/ tasks'[t] = Idle
  BY DEF Stop, Start
<1>4. \A m \in Messages : version[m] <= version'[m]
  <2>1. \A m \in Messages : version[m] \in Nat
    BY DEF CoreInv, TypeParts, Versions, CacheAssumption
  <2> QED BY <1>1, <2>1
<1>5. TasksHold'
  BY <1>1, <1>2, <1>3, <1>4, TasksKept DEF CoreInv
<1>6. StoredHold'
  BY <1>1 DEF CoreInv, StoredHold, Genuine
<1> QED BY <1>2, <1>5, <1>6 DEF CoreInv

LEMMA CoreInit == ASSUME CacheAssumption, Init PROVE CoreInv
<1>1. Stored = {} /\ cache \in Seq(Rows) /\ OneRowEach(cache)
  BY DEF Init, Stored, RowsIn, OneRowEach
<1>2. 0 \in Versions /\ 0 \in 0..MaxFaults
  BY DEF Versions, CacheAssumption
<1>3. TypeParts
  BY <1>1, <1>2, IdleTask DEF Init, TypeParts
<1>4. TasksHold
  BY DEF Init, TasksHold, Works
<1>5. StoredHold
  BY <1>1 DEF Init, StoredHold
<1> QED BY <1>3, <1>4, <1>5 DEF CoreInv

LEMMA CoreStep ==
  ASSUME CacheAssumption, CoreInv, [Next]_vars
  PROVE  CoreInv'
<1>1. CASE UNCHANGED vars
  BY <1>1 DEF vars, CoreInv, TypeParts, TasksHold, StoredHold, Stored, Genuine, Works,
     Remembers, Edits, Deletes
<1>2. CASE Stop \/ Start
  BY <1>2, WorkerCore
<1>3. ASSUME NEW t \in Tasks, NEW m \in Messages,
             Arrives(t, m) \/ Edited(t, m) \/ Find(t, m)
      PROVE  CoreInv'
  BY <1>3, ArrivesCore, EditedCore, FindCore
<1>4. ASSUME NEW t \in Tasks, NEW M \in SUBSET Messages, Deleted(t, M) PROVE CoreInv'
  BY <1>4, DeletedCore
<1>5. ASSUME NEW t \in Tasks,
             \/ Capture(t) \/ Get(t) \/ Insert(t) \/ Evict(t)
             \/ Remove(t) \/ Handle(t) \/ Dies(t)
      PROVE  CoreInv'
  BY <1>5, CaptureCore, GetCore, InsertCore, EvictCore, RemoveCore, HandleCore, DiesCore
<1> QED BY <1>1, <1>2, <1>3, <1>4, <1>5 DEF Next

-----------------------------------------------------------------------------
(* The cache is no longer than its limit allows: an insert adds a row and a  *)
(* handler that will evict, an eviction cuts to max_size, and a lost eviction *)
(* is paid for by its fault.                                                  *)

Evicting == {t \in Tasks : tasks[t].at = "evict"}
Few == Len(cache) <= MaxSize + Cardinality(Evicting) + faults * Cardinality(Tasks)

LEMMA EvictingCount ==
  ASSUME CacheAssumption, NEW E \in SUBSET Tasks, NEW t \in Tasks
  PROVE  /\ Cardinality(E) \in Nat /\ Cardinality(Tasks) \in Nat
         /\ Cardinality(E) <= Cardinality(Tasks)
         /\ t \notin E => Cardinality(E \cup {t}) = Cardinality(E) + 1
<1>1. IsFiniteSet(Tasks)
  BY DEF CacheAssumption
<1>2. IsFiniteSet(E) /\ Cardinality(E) <= Cardinality(Tasks)
  BY <1>1, FS_Subset
<1>3. Cardinality(E) \in Nat /\ Cardinality(Tasks) \in Nat
  BY <1>1, <1>2, FS_CardinalityType
<1>4. t \notin E => Cardinality(E \cup {t}) = Cardinality(E) + 1
  BY <1>2, FS_AddElement
<1> QED BY <1>2, <1>3, <1>4

LEMMA EvictingMoved ==
  ASSUME TypeParts, NEW t \in Tasks, NEW w \in TaskStates, Moved(t, w),
         tasks[t].at # "evict"
  PROVE  /\ w.at # "evict" => Evicting' = Evicting
         /\ w.at = "evict" => t \notin Evicting /\ Evicting' = Evicting \cup {t}
<1>1. tasks'[t] = w /\ \A s \in Tasks : s # t => tasks'[s] = tasks[s]
  BY MovedTasks DEF TypeParts
<1> QED BY <1>1 DEF Evicting

LEMMA FewSame ==
  ASSUME CacheAssumption, TypeParts, TypeParts', Few,
         Evicting' = Evicting, Len(cache') <= Len(cache), faults' = faults
  PROVE  Few'
<1> DEFINE k == Cardinality(Tasks)
           e == Cardinality(Evicting)
           d == faults * k
<1>1. k \in Nat /\ e \in Nat
  <2>1. CASE Tasks = {}
    <3>1. Evicting = {}
      BY <2>1 DEF Evicting
    <3> QED BY <2>1, <3>1, FS_EmptySet
  <2>2. CASE Tasks # {}
    BY <2>2, EvictingCount DEF Evicting
  <2> QED BY <2>1, <2>2
<1>2. faults \in Nat /\ Len(cache) \in Nat /\ Len(cache') \in Nat /\ MaxSize \in Nat
  BY LenProperties DEF TypeParts, CacheAssumption
<1>3. d \in Nat
  BY <1>1, <1>2
<1>4. Len(cache) <= MaxSize + e + d
  BY DEF Few
<1>5. Cardinality(Evicting') = e /\ faults' * k = d
  OBVIOUS
<1> HIDE DEF k, e, d
<1>6. Len(cache') <= MaxSize + e + d
  BY <1>1, <1>2, <1>3, <1>4
<1> QED BY <1>5, <1>6 DEF Few, k

LEMMA FewMoved ==
  ASSUME CacheAssumption, TypeParts, TypeParts', Few,
         NEW t \in Tasks, NEW w \in TaskStates, Moved(t, w),
         tasks[t].at # "evict", w.at # "evict",
         Len(cache') <= Len(cache), faults' = faults
  PROVE  Few'
  BY EvictingMoved, FewSame

LEMMA FewInsert ==
  ASSUME CacheAssumption, TypeParts, TypeParts', Few,
         NEW t \in Tasks, NEW w \in TaskStates, Moved(t, w),
         tasks[t].at # "evict", w.at = "evict",
         Len(cache') <= Len(cache) + 1, faults' = faults
  PROVE  Few'
<1> DEFINE k == Cardinality(Tasks)
           e == Cardinality(Evicting)
           d == faults * k
<1>1. t \notin Evicting /\ Evicting' = Evicting \cup {t}
  BY EvictingMoved
<1>2. k \in Nat /\ e \in Nat /\ Cardinality(Evicting') = e + 1
  BY <1>1, EvictingCount DEF Evicting
<1>3. faults \in Nat /\ Len(cache) \in Nat /\ Len(cache') \in Nat /\ MaxSize \in Nat
  BY LenProperties DEF TypeParts, CacheAssumption
<1>4. d \in Nat /\ faults' * k = d
  BY <1>2, <1>3
<1>5. Len(cache) <= MaxSize + e + d
  BY DEF Few
<1> HIDE DEF k, e, d
<1>6. Len(cache') <= MaxSize + (e + 1) + d
  BY <1>2, <1>3, <1>4, <1>5
<1> QED BY <1>2, <1>4, <1>6 DEF Few, k

LEMMA FewEvicted ==
  ASSUME CacheAssumption, TypeParts', NEW t \in Tasks, Len(cache') <= MaxSize
  PROVE  Few'
<1> DEFINE k == Cardinality(Tasks)
           e == Cardinality(Evicting')
           d == faults' * k
<1>1. k \in Nat /\ e \in Nat
  BY EvictingCount DEF Evicting
<1>2. faults' \in Nat /\ Len(cache') \in Nat /\ MaxSize \in Nat
  BY LenProperties DEF TypeParts, CacheAssumption
<1>3. d \in Nat
  BY <1>1, <1>2
<1> HIDE DEF k, e, d
<1>4. Len(cache') <= MaxSize + e + d
  BY <1>1, <1>2, <1>3
<1> QED BY <1>4 DEF Few, k, e, d

\* A handler that dies or a worker that stops leaves at most one row too many
\* for each handler.
LEMMA FewFault ==
  ASSUME CacheAssumption, TypeParts, TypeParts', Few, cache' = cache,
         faults' = faults + 1
  PROVE  Few'
<1> DEFINE k == Cardinality(Tasks)
           e == Cardinality(Evicting)
           f == Cardinality(Evicting')
           d == faults * k
<1>1. k \in Nat /\ e \in Nat /\ f \in Nat /\ e <= k
  <2>1. CASE Tasks = {}
    <3>1. Evicting = {} /\ Evicting' = {}
      BY <2>1 DEF Evicting
    <3> QED BY <2>1, <3>1, FS_EmptySet
  <2>2. CASE Tasks # {}
    BY <2>2, EvictingCount DEF Evicting
  <2> QED BY <2>1, <2>2
<1>2. faults \in Nat /\ Len(cache) \in Nat /\ MaxSize \in Nat
  BY LenProperties DEF TypeParts, CacheAssumption
<1>3. d \in Nat /\ (faults + 1) * k = d + k
  BY <1>1, <1>2
<1>4. Len(cache) <= MaxSize + e + d
  BY DEF Few
<1> HIDE DEF k, e, f, d
<1>5. Len(cache) <= MaxSize + f + (d + k)
  BY <1>1, <1>2, <1>3, <1>4
<1> QED BY <1>3, <1>5 DEF Few, k, f

LEMMA FewUpdate ==
  ASSUME CacheAssumption, TypeParts, TypeParts', Few, cache' = cache,
         faults' = faults,
         NEW t \in Tasks, NEW w \in TaskStates, Dispatch(t, w), w.at # "evict"
  PROVE  Few'
<1>1. Len(cache') <= Len(cache)
  BY LenProperties DEF TypeParts
<1>2. CASE Moved(t, w) /\ tasks[t] = Idle
  BY <1>1, <1>2, IdleTask, FewMoved
<1>3. CASE UNCHANGED tasks
  BY <1>1, <1>3, FewSame DEF Evicting
<1> QED BY <1>2, <1>3, DispatchMoves

LEMMA FewStep ==
  ASSUME CacheAssumption, CoreInv, CoreInv', Few, [Next]_vars
  PROVE  Few'
<1>0. TypeParts /\ TypeParts'
  BY DEF CoreInv
<1>1. cache' = cache => Len(cache') <= Len(cache)
  BY <1>0, LenProperties DEF TypeParts
<1>2. CASE UNCHANGED vars
  BY <1>0, <1>1, <1>2, FewSame DEF vars, Evicting
<1>3. CASE Stop
  BY <1>0, <1>3, FewFault DEF Stop
<1>4. CASE Start
  BY <1>0, <1>1, <1>4, FewSame DEF Start, Evicting
<1>5. ASSUME NEW t \in Tasks, NEW m \in Messages, Arrives(t, m) PROVE Few'
  <2>1. PICK w \in TaskStates : Dispatch(t, w) /\ w.at # "evict"
    BY <1>5, NewTask DEF Arrives
  <2> QED BY <1>0, <1>5, <2>1, FewUpdate DEF Arrives
<1>6. ASSUME NEW t \in Tasks, NEW m \in Messages, Edited(t, m) PROVE Few'
  <2>1. PICK w \in TaskStates : Dispatch(t, w) /\ w.at # "evict"
    BY <1>6, EditedTask DEF CoreInv
  <2> QED BY <1>0, <1>6, <2>1, FewUpdate DEF Edited
<1>7. ASSUME NEW t \in Tasks, NEW M \in SUBSET Messages, Deleted(t, M) PROVE Few'
  <2>1. PICK w \in TaskStates : Dispatch(t, w) /\ w.at # "evict"
    BY <1>7, DeleteTask DEF Deleted
  <2> QED BY <1>0, <1>7, <2>1, FewUpdate DEF Deleted
<1>8. ASSUME NEW t \in Tasks, Capture(t) PROVE Few'
  <2>1. PICK w \in TaskStates : Moved(t, w) /\ w.at # "evict"
    BY <1>0, <1>8, CaptureMoves
  <2> QED BY <1>0, <1>1, <1>8, <2>1, FewMoved DEF Capture, At
<1>9. ASSUME NEW t \in Tasks, Get(t) PROVE Few'
  <2>1. PICK w \in TaskStates : Moved(t, w) /\ w.at # "evict"
    BY <1>0, <1>9, GetMoves
  <2> QED BY <1>0, <1>1, <1>9, <2>1, FewMoved DEF Get, At
<1>10. ASSUME NEW t \in Tasks, Insert(t) PROVE Few'
  <2>1. tasks[t].m \in Messages
    BY <1>10, Places DEF Insert, Remembers, Edits, CoreInv, TypeParts
  <2>2. Len(cache') <= Len(cache) + 1
    BY <1>0, <1>10, <2>1, InsertMoves
  <2>3. PICK w \in TaskStates : Moved(t, w) /\ w.at = "evict"
    BY <1>0, <1>10, <2>1, InsertMoves
  <2> QED BY <1>0, <1>10, <2>2, <2>3, FewInsert DEF Insert
<1>11. ASSUME NEW t \in Tasks, Evict(t) PROVE Few'
  <2>1. Len(cache') <= MaxSize
    BY <1>0, <1>11, EvictMoves
  <2> QED BY <1>0, <2>1, FewEvicted
<1>12. ASSUME NEW t \in Tasks, NEW m \in Messages, Find(t, m) PROVE Few'
  <2>1. PICK w \in TaskStates : Moved(t, w) /\ w.at # "evict"
    <3>1. NextId(t, m) \in TaskStates /\ NextId(t, m).at # "evict"
      BY <1>0, NextTask, IdleTask DEF TypeParts
    <3> QED BY <1>0, <1>12, <3>1, FindMoves
  <2> QED BY <1>0, <1>1, <1>12, <2>1, FewMoved DEF Find, At
<1>13. ASSUME NEW t \in Tasks, Remove(t) PROVE Few'
  <2>1. Len(cache') <= Len(cache)
    BY <1>0, <1>13, RemoveMoves
  <2>2. PICK w \in TaskStates : Moved(t, w) /\ w.at # "evict"
    BY <1>0, <1>13, RemoveMoves, NextTask, IdleTask DEF TypeParts
  <2> QED BY <1>0, <1>13, <2>1, <2>2, FewMoved DEF Remove, At
<1>14. ASSUME NEW t \in Tasks, Handle(t) PROVE Few'
  <2>1. PICK w \in TaskStates : Moved(t, w) /\ w.at # "evict"
    BY <1>0, <1>14, HandleMoves, NextTask, IdleTask DEF TypeParts
  <2> QED BY <1>0, <1>1, <1>14, <2>1, FewMoved DEF Handle
<1>15. ASSUME NEW t \in Tasks, Dies(t) PROVE Few'
  BY <1>0, <1>15, FewFault DEF Dies
<1> QED BY <1>2, <1>3, <1>4, <1>5, <1>6, <1>7, <1>8, <1>9, <1>10, <1>11, <1>12,
           <1>13, <1>14, <1>15 DEF Next

\* TypeOK of the cache: a message has at most one row, and the rows are no more
\* than max_size but for evictions that are due or were lost.
THEOREM CacheTypeCorrect == ASSUME CacheAssumption PROVE Spec => []TypeOK
<1>1. Init => CoreInv /\ Few
  <2>1. ASSUME Init PROVE Few
    <3>1. CoreInv /\ Len(cache) = 0
      BY <2>1, CoreInit DEF Init
    <3>2. CASE Tasks = {}
      <4>1. Evicting = {}
        BY <3>2 DEF Evicting
      <4>2. MaxSize \in Nat /\ faults = 0
        BY <2>1 DEF Init, CacheAssumption
      <4> QED BY <3>1, <3>2, <4>1, <4>2, FS_EmptySet DEF Few
    <3>3. CASE Tasks # {}
      <4> DEFINE e == Cardinality(Evicting)
                 k == Cardinality(Tasks)
      <4>1. e \in Nat /\ k \in Nat
        BY <3>3, EvictingCount DEF Evicting
      <4>2. MaxSize \in Nat /\ faults = 0
        BY <2>1 DEF Init, CacheAssumption
      <4> HIDE DEF e, k
      <4>3. Len(cache) <= MaxSize + e + faults * k
        BY <3>1, <4>1, <4>2
      <4> QED BY <4>3 DEF Few, e, k
    <3> QED BY <3>2, <3>3
  <2> QED BY <2>1, CoreInit
<1>2. CoreInv /\ Few /\ [Next]_vars => (CoreInv /\ Few)'
  BY CoreStep, FewStep
<1>3. CoreInv /\ Few => TypeOK
  BY DEF CoreInv, TypeParts, Few, TypeOK, OneRowEach, Evicting
<1> QED BY <1>1, <1>2, <1>3, PTL DEF Spec

-----------------------------------------------------------------------------
(* What is owed a report, a handler has to do: it will find the row, or has    *)
(* taken it.                                                                  *)

\* The row is there to be found, or read by a handler that will take another
\* one's for it, or read by a deletion of whatever message.
HoldsOwed(t, m) ==
  /\ tasks[t].job = "delete"
  /\ \/ /\ m \in tasks[t].todo /\ Cached(m)
        /\ tasks[t].at = "report" => tasks[t].m # m
     \/ tasks[t].at # "find" /\ tasks[t].row.m = m

OwedHeld == \A m \in owed \ mistaken : \E t \in Tasks : HoldsOwed(t, m)

LEMMA CachedBoth ==
  ASSUME NEW m
  PROVE  /\ Cached(m) <=> \E r \in Stored : r.m = m
         /\ Cached(m)' <=> \E r \in Stored' : r.m = m
<1>1. Cached(m) <=> \E r \in Stored : r.m = m
  BY DEF Cached, Stored, RowsIn
<1>2. Cached(m)' <=> \E r \in Stored' : r.m = m
  BY DEF Cached, Stored, RowsIn
<1> QED BY <1>1, <1>2

LEMMA OwedFrame ==
  ASSUME TypeParts, OwedHeld, NEW t \in Tasks, NEW w \in TaskStates, Moved(t, w),
         owed' \subseteq owed, mistaken \subseteq mistaken',
         \A m \in owed' \ mistaken' : HoldsOwed(t, m) => HoldsOwed(t, m)',
         \A m \in owed' \ mistaken' :
           Cached(m) => Cached(m)' \/ \E u \in Tasks : HoldsOwed(u, m)'
  PROVE  OwedHeld'
<1>1. tasks'[t] = w /\ \A s \in Tasks : s # t => tasks'[s] = tasks[s]
  BY MovedTasks DEF TypeParts
<1>2. ASSUME NEW m \in owed' \ mistaken' PROVE \E s \in Tasks : HoldsOwed(s, m)'
  <2>1. PICK s \in Tasks : HoldsOwed(s, m)
    BY <1>2 DEF OwedHeld
  <2>2. CASE s = t
    BY <1>2, <2>1, <2>2
  <2>3. CASE s # t
    <3>1. tasks'[s] = tasks[s]
      BY <1>1, <2>3
    <3>2. HoldsOwed(s, m)' \/ (Cached(m) /\ ~Cached(m)')
      BY <2>1, <3>1 DEF HoldsOwed
    <3> QED BY <1>2, <3>2
  <2> QED BY <2>2, <2>3
<1> QED BY <1>2 DEF OwedHeld

\* A step of a handler that is not on_deleted's.
LEMMA OwedOthers ==
  ASSUME CacheAssumption, CoreInv, OwedHeld, NEW t \in Tasks, NEW w \in TaskStates,
         Moved(t, w), tasks[t].job # "delete", owed' \subseteq owed,
         mistaken' = mistaken,
         \A m \in owed' : Cached(m) => Cached(m)' \/ \E u \in Tasks : HoldsOwed(u, m)'
  PROVE  OwedHeld'
<1>1. \A m : ~HoldsOwed(t, m)
  BY DEF HoldsOwed
<1> QED BY <1>1, OwedFrame DEF CoreInv

LEMMA OwedFind ==
  ASSUME CacheAssumption, CoreInv, OwedHeld, NEW t \in Tasks, NEW m \in Messages,
         Find(t, m)
  PROVE  OwedHeld'
<1>1. tasks[t].job = "delete" /\ tasks[t].at = "find" /\ m \in tasks[t].todo
  BY DEF Find, At
<1>2. owed' = owed /\ mistaken' = mistaken /\ \A n : Cached(n)' <=> Cached(n)
  BY DEF Find, Cached
<1>3. \A n : HoldsOwed(t, n) => n \in tasks[t].todo /\ Cached(n)
  BY <1>1 DEF HoldsOwed
<1>4. CASE \E w \in TaskStates, r \in Stored :
             /\ Moved(t, w) /\ Matches(m, r)
             /\ w.job = tasks[t].job /\ w.todo = tasks[t].todo
             /\ w.at = "remove" /\ w.m = m /\ w.row = r
  <2>1. PICK w \in TaskStates :
          /\ Moved(t, w) /\ w.job = tasks[t].job /\ w.todo = tasks[t].todo
          /\ w.at = "remove"
    BY <1>4
  <2>2. tasks'[t] = w
    BY <2>1, MovedTasks DEF CoreInv, TypeParts
  <2>3. \A n \in owed' : HoldsOwed(t, n) => HoldsOwed(t, n)'
    BY <1>1, <1>2, <1>3, <2>1, <2>2 DEF HoldsOwed
  <2> QED BY <1>2, <2>1, <2>3, OwedFrame DEF CoreInv
<1>5. CASE Moved(t, NextId(t, m)) /\ \A r \in Stored : ~Matches(m, r)
  <2>1. PICK w \in TaskStates :
          /\ w = NextId(t, m)
          /\ \/ w = Idle /\ tasks[t].todo = {m}
             \/ w.job = "delete" /\ w.at = "find" /\ w.todo = tasks[t].todo \ {m}
    BY NextTask DEF CoreInv, TypeParts
  <2>2. tasks'[t] = w
    BY <1>5, <2>1, MovedTasks DEF CoreInv, TypeParts
  <2>3. ~Cached(m)
    BY <1>5, CachedBoth DEF Matches
  <2>4. \A n \in owed' : HoldsOwed(t, n) => HoldsOwed(t, n)'
    <3> SUFFICES ASSUME NEW n \in owed, HoldsOwed(t, n) PROVE HoldsOwed(t, n)'
      BY <1>2
    <3>1. Cached(n) /\ n \in tasks[t].todo /\ n # m
      BY <1>3, <2>3
    <3> QED BY <1>2, <2>1, <2>2, <3>1 DEF HoldsOwed
  <2> QED BY <1>2, <1>5, <2>1, <2>4, OwedFrame DEF CoreInv
<1> QED BY <1>4, <1>5, FindMoves DEF CoreInv

LEMMA OwedRemove ==
  ASSUME CacheAssumption, CoreInv, OwedHeld, NEW t \in Tasks, Remove(t)
  PROVE  OwedHeld'
<1> DEFINE m == tasks[t].m
           row == tasks[t].row
<1>1. tasks[t].at = "remove" /\ tasks[t].job = "delete"
  BY DEF Remove, At
<1>2. Stored' = {r \in Stored : r.m # row.m} /\ owed' \subseteq owed
  BY RemoveMoves DEF CoreInv
<1>3. mistaken \subseteq mistaken' /\ (row.m # m => m \in mistaken')
  BY DEF Remove, Mistaken
<1>4. \A n : n # row.m /\ Cached(n) => Cached(n)'
  BY <1>2, CachedBoth
\* What is still to be found is neither the row removed nor the one asked for.
<1>5. ASSUME NEW n \in owed' \ mistaken', n # row.m, HoldsOwed(t, n)
      PROVE  n \in tasks[t].todo /\ Cached(n)' /\ n # m
  BY <1>3, <1>4, <1>5 DEF HoldsOwed
<1>6. CASE Moved(t, NextId(t, m)) /\ owed' = owed \ {row.m}
  <2>1. PICK w \in TaskStates :
          /\ w = NextId(t, m)
          /\ \/ w = Idle /\ tasks[t].todo = {m}
             \/ w.job = "delete" /\ w.at = "find" /\ w.todo = tasks[t].todo \ {m}
    BY NextTask DEF CoreInv, TypeParts
  <2>2. tasks'[t] = w
    BY <1>6, <2>1, MovedTasks DEF CoreInv, TypeParts
  <2>3. \A n \in owed' \ mistaken' : HoldsOwed(t, n) => HoldsOwed(t, n)'
    BY <1>5, <1>6, <2>1, <2>2 DEF HoldsOwed
  <2>4. \A n \in owed' : Cached(n) => Cached(n)'
    BY <1>4, <1>6
  <2> QED BY <1>2, <1>3, <1>6, <2>1, <2>3, <2>4, OwedFrame DEF CoreInv
<1>7. CASE \E w \in TaskStates :
             /\ Moved(t, w) /\ Same(w, tasks[t]) /\ w.at = "report" /\ w.row = row
  <2>1. PICK w \in TaskStates :
          Moved(t, w) /\ Same(w, tasks[t]) /\ w.at = "report" /\ w.row = row
    BY <1>7
  <2>2. tasks'[t] = w
    BY <2>1, MovedTasks DEF CoreInv, TypeParts
  <2>3. \A n : n = row.m => HoldsOwed(t, n)'
    BY <1>1, <2>1, <2>2 DEF HoldsOwed, Same
  <2>4. \A n \in owed' \ mistaken' : HoldsOwed(t, n) => HoldsOwed(t, n)'
    <3> SUFFICES ASSUME NEW n \in owed' \ mistaken', n # row.m, HoldsOwed(t, n)
                 PROVE  HoldsOwed(t, n)'
      BY <2>3
    <3>1. n \in tasks[t].todo /\ Cached(n)' /\ n # m
      BY <1>5
    <3> QED BY <1>1, <2>1, <2>2, <3>1 DEF HoldsOwed, Same
  <2>5. \A n \in owed' : Cached(n) => Cached(n)' \/ \E u \in Tasks : HoldsOwed(u, n)'
    BY <1>4, <2>3
  <2> QED BY <1>2, <1>3, <2>1, <2>4, <2>5, OwedFrame DEF CoreInv
<1> QED BY <1>6, <1>7, RemoveMoves DEF CoreInv

LEMMA OwedHandle ==
  ASSUME CacheAssumption, CoreInv, OwedHeld, NEW t \in Tasks, Handle(t)
  PROVE  OwedHeld'
<1> DEFINE m == tasks[t].m
<1>1. /\ cache' = cache /\ owed' \subseteq owed /\ mistaken' = mistaken
      /\ tasks[t].at = "report" /\ \A n : Cached(n)' <=> Cached(n)
  BY DEF Handle, Cached
<1>2. CASE tasks[t].job = "edit"
  <2>1. Moved(t, Idle)
    BY <1>2, HandleMoves DEF CoreInv
  <2> QED BY <1>1, <1>2, <2>1, IdleTask, OwedOthers
<1>3. CASE tasks[t].job = "delete"
  <2>1. Moved(t, NextId(t, m)) /\ owed' = owed \ {tasks[t].row.m}
    BY <1>3, HandleMoves DEF CoreInv
  <2>2. PICK w \in TaskStates :
          /\ w = NextId(t, m)
          /\ \/ w = Idle /\ tasks[t].todo = {m}
             \/ w.job = "delete" /\ w.at = "find" /\ w.todo = tasks[t].todo \ {m}
    BY NextTask DEF CoreInv, TypeParts
  <2>3. tasks'[t] = w
    BY <2>1, <2>2, MovedTasks DEF CoreInv, TypeParts
  <2>4. \A n \in owed' : HoldsOwed(t, n) => HoldsOwed(t, n)'
    <3> SUFFICES ASSUME NEW n \in owed', HoldsOwed(t, n) PROVE HoldsOwed(t, n)'
      OBVIOUS
    <3>1. n \in tasks[t].todo /\ Cached(n)' /\ n # m
      BY <1>1, <2>1 DEF HoldsOwed
    <3> QED BY <2>2, <2>3, <3>1 DEF HoldsOwed
  <2> QED BY <1>1, <2>1, <2>2, <2>4, OwedFrame DEF CoreInv
<1>4. tasks[t].job \in {"edit", "delete"}
  BY Places DEF Handle, Edits, Deletes
<1> QED BY <1>2, <1>3, <1>4

LEMMA OwedUpdate ==
  ASSUME CacheAssumption, CoreInv, OwedHeld, cache' = cache, mistaken' = mistaken,
         NEW t \in Tasks, NEW w \in TaskStates, Dispatch(t, w),
         w.todo # {} => w.job = "delete" /\ w.at = "find"
  PROVE  OwedHeld'
<1>1. \A n : Cached(n)' <=> Cached(n)
  BY DEF Cached
<1>2. CASE /\ Moved(t, w) /\ tasks[t] = Idle
           /\ owed' = owed \cup {m \in w.todo : Cached(m)}
  <2>1. tasks'[t] = w /\ \A s \in Tasks : s # t => tasks'[s] = tasks[s]
    BY <1>2, MovedTasks DEF CoreInv, TypeParts
  <2>2. ASSUME NEW n \in owed \ mistaken PROVE \E s \in Tasks : HoldsOwed(s, n)'
    <3>1. PICK s \in Tasks : HoldsOwed(s, n)
      BY <2>2 DEF OwedHeld
    <3>2. s # t
      BY <1>2, <3>1, IdleTask DEF HoldsOwed
    <3>3. HoldsOwed(s, n)'
      BY <1>1, <2>1, <3>1, <3>2 DEF HoldsOwed
    <3> QED BY <3>3
  <2>3. ASSUME NEW n \in w.todo, Cached(n) PROVE HoldsOwed(t, n)'
    BY <1>1, <2>1, <2>3 DEF HoldsOwed
  <2> QED BY <1>2, <2>2, <2>3 DEF OwedHeld
<1>3. CASE UNCHANGED <<tasks, owed>>
  BY <1>1, <1>3 DEF OwedHeld, HoldsOwed
<1> QED BY <1>2, <1>3, DispatchMoves DEF CoreInv

LEMMA OwedEvict ==
  ASSUME CacheAssumption, CoreInv, OwedHeld, NEW t \in Tasks, Evict(t)
  PROVE  OwedHeld'
<1>1. tasks[t].job # "delete" /\ mistaken' = mistaken
  BY Places DEF Evict, Remembers, Edits
<1>2. PICK w \in TaskStates : Moved(t, w)
  BY EvictMoves DEF CoreInv
<1>3. /\ owed' \subseteq owed
      /\ \A r \in Stored : r.m \in owed' => r \in Stored' \/ r.m \in Taken
  BY EvictMoves DEF CoreInv
<1>4. ASSUME NEW n \in Taken PROVE \E u \in Tasks : HoldsOwed(u, n)'
  <2>1. PICK u \in Tasks :
          tasks[u].job = "delete" /\ tasks[u].at # "find" /\ tasks[u].row.m = n
    BY <1>4 DEF Taken
  <2>2. tasks'[u] = tasks[u]
    BY <1>1, <1>2, <2>1, MovedTasks DEF CoreInv, TypeParts
  <2>3. HoldsOwed(u, n)'
    BY <2>1, <2>2 DEF HoldsOwed
  <2> QED BY <2>3
<1>5. ASSUME NEW n \in owed', Cached(n)
      PROVE  Cached(n)' \/ \E u \in Tasks : HoldsOwed(u, n)'
  <2>1. PICK r \in Stored : r.m = n
    BY <1>5, CachedBoth
  <2>2. CASE r \in Stored'
    BY <2>1, <2>2, CachedBoth
  <2>3. CASE n \in Taken
    BY <1>4, <2>3
  <2> QED BY <1>3, <1>5, <2>1, <2>2, <2>3
<1> QED BY <1>1, <1>2, <1>3, <1>5, OwedOthers

LEMMA OwedStep ==
  ASSUME CacheAssumption, CoreInv, OwedHeld, [Next]_vars
  PROVE  OwedHeld'
<1>0. cache' = cache => \A n : Cached(n)' <=> Cached(n)
  BY DEF Cached
<1>1. CASE UNCHANGED vars
  BY <1>0, <1>1 DEF vars, OwedHeld, HoldsOwed
<1>2. CASE Stop
  BY <1>2 DEF Stop, OwedHeld
<1>3. CASE Start
  BY <1>0, <1>3 DEF Start, OwedHeld, HoldsOwed
<1>4. ASSUME NEW t \in Tasks, NEW m \in Messages, Arrives(t, m) PROVE OwedHeld'
  <2>1. PICK w \in TaskStates : Dispatch(t, w) /\ w.todo = {}
    BY <1>4, NewTask DEF Arrives
  <2> QED BY <1>4, <2>1, OwedUpdate DEF Arrives
<1>5. ASSUME NEW t \in Tasks, NEW m \in Messages, Edited(t, m) PROVE OwedHeld'
  <2>1. PICK w \in TaskStates : Dispatch(t, w) /\ w.todo = {}
    BY <1>5, EditedTask
  <2> QED BY <1>5, <2>1, OwedUpdate DEF Edited
<1>6. ASSUME NEW t \in Tasks, NEW M \in SUBSET Messages, Deleted(t, M) PROVE OwedHeld'
  <2>1. PICK w \in TaskStates : Dispatch(t, w) /\ w.job = "delete" /\ w.at = "find"
    BY <1>6, DeleteTask DEF Deleted
  <2> QED BY <1>6, <2>1, OwedUpdate DEF Deleted
<1>7. ASSUME NEW t \in Tasks, Capture(t) PROVE OwedHeld'
  <2>1. tasks[t].job # "delete"
    BY <1>7 DEF Capture, At
  <2>2. PICK w \in TaskStates : Moved(t, w)
    BY <1>7, CaptureMoves DEF CoreInv
  <2>3. owed' = owed /\ mistaken' = mistaken /\ cache' = cache
    BY <1>7 DEF Capture
  <2> QED BY <1>0, <2>1, <2>2, <2>3, OwedOthers
<1>8. ASSUME NEW t \in Tasks, Get(t) PROVE OwedHeld'
  <2>1. tasks[t].job # "delete"
    BY <1>8 DEF Get, At
  <2>2. PICK w \in TaskStates : Moved(t, w)
    BY <1>8, GetMoves DEF CoreInv
  <2>3. owed' = owed /\ mistaken' = mistaken /\ cache' = cache
    BY <1>8 DEF Get
  <2> QED BY <1>0, <2>1, <2>2, <2>3, OwedOthers
<1>9. ASSUME NEW t \in Tasks, Insert(t) PROVE OwedHeld'
  <2>1. tasks[t].job # "delete" /\ tasks[t].m \in Messages
    BY <1>9, Places DEF Insert, Remembers, Edits, CoreInv, TypeParts
  <2>2. PICK w \in TaskStates : Moved(t, w)
    BY <1>9, <2>1, InsertMoves DEF CoreInv
  <2>3. PICK r \in Rows : Stored' = {s \in Stored : s.m # r.m} \cup {r}
    BY <1>9, <2>1, InsertMoves DEF CoreInv
  <2>4. \A n : Cached(n) => Cached(n)'
    BY <2>3, CachedBoth
  <2>5. owed' = owed /\ mistaken' = mistaken
    BY <1>9 DEF Insert
  <2> QED BY <2>1, <2>2, <2>4, <2>5, OwedOthers
<1>10. ASSUME NEW t \in Tasks, Evict(t) PROVE OwedHeld'
  BY <1>10, OwedEvict
<1>11. ASSUME NEW t \in Tasks, NEW m \in Messages, Find(t, m) PROVE OwedHeld'
  BY <1>11, OwedFind
<1>12. ASSUME NEW t \in Tasks, Remove(t) PROVE OwedHeld'
  BY <1>12, OwedRemove
<1>13. ASSUME NEW t \in Tasks, Handle(t) PROVE OwedHeld'
  BY <1>13, OwedHandle
<1>14. ASSUME NEW t \in Tasks, Dies(t) PROVE OwedHeld'
  <2>1. Moved(t, Idle) /\ Idle \in TaskStates
    BY <1>14, IdleTask DEF Dies, Moved
  <2>2. /\ owed' = owed \ (tasks[t].todo \cup {tasks[t].row.m})
        /\ mistaken' = mistaken /\ cache' = cache
    BY <1>14 DEF Dies
  <2>3. \A m \in owed' : ~HoldsOwed(t, m)
    BY <2>2 DEF HoldsOwed
  <2> QED BY <1>0, <2>1, <2>2, <2>3, OwedFrame DEF CoreInv
<1> QED BY <1>1, <1>2, <1>3, <1>4, <1>5, <1>6, <1>7, <1>8, <1>9, <1>10, <1>11,
           <1>12, <1>13, <1>14 DEF Next

\* autosave.py, on_deleted: a deleted message whose row was cached is reported,
\* however the handlers of any updates interleave with it, unless its deletion
\* took the row of another message with its id, or the row was evicted before a
\* deletion read it, or held nothing, or a handler died with it or a stop came.
THEOREM Reported == ASSUME CacheAssumption PROVE Spec => []DeletionIsReported
<1>1. Init => CoreInv /\ OwedHeld
  BY CoreInit DEF Init, OwedHeld
<1>2. CoreInv /\ OwedHeld /\ [Next]_vars => (CoreInv /\ OwedHeld)'
  BY CoreStep, OwedStep
<1>3. OwedHeld => DeletionIsReported
  BY IdleTask DEF OwedHeld, HoldsOwed, DeletionIsReported
<1> QED BY <1>1, <1>2, <1>3, PTL DEF Spec

-----------------------------------------------------------------------------
(* Messages whose handlers do not overlap: one handler works on such a       *)
(* message, and what the handler and the row say of its text agrees with      *)
(* Telegram, or with the text before the edit the handler brings.             *)

Alone ==
  \A m \in clean, s, t \in Tasks : m \in Concerns(s) /\ m \in Concerns(t) => s = t

Precedes(v, w) == v = w \/ w = v + 1

\* `remember`: not cached before its insert, and neither edited nor deleted.
FreshAt(t) ==
  tasks[t].job = "new" /\ tasks[t].m \in clean =>
    /\ version[tasks[t].m] = 0 /\ tasks[t].m \notin gone
    /\ tasks[t].at # "evict" => ~Cached(tasks[t].m)

\* on_edited: it brings the present text, has read the one before, and carries
\* the media of the row there is.
EditAt(t) ==
  tasks[t].job = "edit" /\ tasks[t].m \in clean =>
    /\ tasks[t].text = version[tasks[t].m] /\ tasks[t].m \notin gone
    /\ tasks[t].row # NoRow => Precedes(tasks[t].row.text, tasks[t].text)
    /\ tasks[t].at = "insert" =>
         \A r \in Stored : r.m = tasks[t].m =>
           tasks[t].row = r /\ tasks[t].media = r.media

Editing(t, m) ==
  tasks[t].job = "edit" /\ tasks[t].at \in {"get", "insert"} /\ tasks[t].m = m

ExactAt(m, r) ==
  \/ r.text = version[m]
  \/ Precedes(r.text, version[m]) /\ \E t \in Tasks : Editing(t, m)

Exact == \A m \in clean, r \in Stored : r.m = m => ExactAt(m, r)

Deleting(t, m) ==
  /\ tasks[t].job = "delete" /\ m \in tasks[t].todo
  /\ ~(tasks[t].at = "report" /\ tasks[t].m = m)

GoneHeld ==
  \A m \in clean \cap gone :
    m \notin mistaken /\ Cached(m) => \E t \in Tasks : Deleting(t, m)

CleanInv ==
  Alone /\ (\A t \in Tasks : FreshAt(t) /\ EditAt(t)) /\ Exact /\ GoneHeld

LEMMA CleanMessages ==
  ASSUME CacheAssumption, TypeParts
  PROVE  clean \subseteq Messages /\ NoMessage \notin clean
  BY DEF TypeParts, CacheAssumption

\* A row is exact unless the handler of its message is about to write it.
LEMMA Settled ==
  ASSUME CleanInv, NEW t \in Tasks, NEW m \in clean, m \in Concerns(t), ~Editing(t, m),
         NEW r \in Stored, r.m = m
  PROVE  r.text = version[m]
<1>1. \A s \in Tasks : Editing(s, m) => s = t
  BY DEF CleanInv, Alone, Editing, Concerns
<1>2. ExactAt(m, r)
  BY DEF CleanInv, Exact
<1> QED BY <1>1, <1>2 DEF ExactAt

LEMMA SettledExact ==
  ASSUME CleanInv, version' = version, NEW t \in Tasks, NEW m \in clean,
         m \in Concerns(t), ~Editing(t, m), NEW r \in Stored, r.m = m
  PROVE  ExactAt(m, r)'
  BY Settled DEF ExactAt

LEMMA CleanFrame ==
  ASSUME CacheAssumption, CoreInv, CleanInv, version' = version, gone' = gone,
         clean' \subseteq clean, mistaken \subseteq mistaken',
         NEW t \in Tasks, NEW w \in TaskStates, Moved(t, w),
         \A m \in clean' : m = w.m \/ m \in w.todo => m \in Concerns(t),
         \A r \in Stored' : r \in Stored \/ r.m = tasks[t].m,
         FreshAt(t)', EditAt(t)',
         \A m \in clean', r \in Stored' :
           m \in Concerns(t) /\ r.m = m => ExactAt(m, r)',
         \A m \in (clean' \cap gone) \ mistaken' :
           m \in Concerns(t) /\ Cached(m)' => Deleting(t, m)'
  PROVE  CleanInv'
<1>1. tasks'[t] = w /\ \A s \in Tasks : s # t => tasks'[s] = tasks[s]
  BY MovedTasks DEF CoreInv, TypeParts
<1>2. \A m \in clean', s \in Tasks : m \in Concerns(s)' => m \in Concerns(s)
  BY <1>1 DEF Concerns
<1>3. Alone'
  BY <1>2 DEF CleanInv, Alone
<1>4. \A m \in clean', r \in Stored' : r.m = m /\ m \notin Concerns(t) => r \in Stored
  BY DEF Concerns
<1>5. ASSUME NEW s \in Tasks PROVE FreshAt(s)' /\ EditAt(s)'
  <2>1. CASE s # t
    <3>1. tasks'[s] = tasks[s]
      BY <1>1, <2>1
    <3>2. FreshAt(s) /\ EditAt(s)
      BY DEF CleanInv
    <3>3. ASSUME tasks[s].m \in clean', NEW r \in Stored', r.m = tasks[s].m
          PROVE  r \in Stored
      <4>1. tasks[s].m \notin Concerns(t)
        BY <2>1, <3>3 DEF CleanInv, Alone, Concerns
      <4> QED BY <1>4, <3>3, <4>1
    <3>4. ASSUME NEW m, m = tasks[s].m, m \in clean', Cached(m)' PROVE Cached(m)
      BY <3>3, <3>4, CachedBoth
    <3>5. FreshAt(s)'
      BY <3>1, <3>2, <3>4 DEF FreshAt
    <3>6. EditAt(s)'
      BY <3>1, <3>2, <3>3 DEF EditAt
    <3> QED BY <3>5, <3>6
  <2>2. CASE s = t
    BY <2>2
  <2> QED BY <2>1, <2>2
<1>6. ASSUME NEW m \in clean', NEW r \in Stored', r.m = m PROVE ExactAt(m, r)'
  <2>1. CASE m \in Concerns(t)
    BY <1>6, <2>1
  <2>2. CASE m \notin Concerns(t)
    <3>1. r \in Stored /\ m \in clean
      BY <1>4, <1>6, <2>2
    <3>2. ExactAt(m, r)
      BY <1>6, <3>1 DEF CleanInv, Exact
    <3>3. ASSUME NEW s \in Tasks, Editing(s, m) PROVE Editing(s, m)'
      <4>1. s # t
        BY <2>2, <3>3 DEF Editing, Concerns
      <4> QED BY <1>1, <3>3, <4>1 DEF Editing
    <3> QED BY <3>2, <3>3 DEF ExactAt, Precedes
  <2> QED BY <2>1, <2>2
<1>7. Exact'
  BY <1>6 DEF Exact
<1>8. ASSUME NEW m \in clean' \cap gone, m \notin mistaken', Cached(m)'
      PROVE  \E s \in Tasks : Deleting(s, m)'
  <2>1. CASE m \in Concerns(t)
    BY <1>8, <2>1
  <2>2. CASE m \notin Concerns(t)
    <3>1. Cached(m) /\ m \in clean
      BY <1>4, <1>8, <2>2, CachedBoth
    <3>2. PICK s \in Tasks : Deleting(s, m)
      BY <1>8, <3>1 DEF CleanInv, GoneHeld
    <3>3. s # t
      BY <2>2, <3>2 DEF Deleting, Concerns
    <3>4. Deleting(s, m)'
      BY <1>1, <3>2, <3>3 DEF Deleting
    <3> QED BY <3>4
  <2> QED BY <2>1, <2>2
<1>9. GoneHeld'
  BY <1>8 DEF GoneHeld
<1> QED BY <1>3, <1>5, <1>7, <1>9 DEF CleanInv

\* The update of a message no handler works on, or of one that is missed.
LEMMA CleanUpdate ==
  ASSUME CacheAssumption, CoreInv, CleanInv, cache' = cache, mistaken' = mistaken,
         NEW t \in Tasks, NEW w \in TaskStates, Dispatch(t, w),
         \A m \in Messages : version'[m] = version[m] \/ m = w.m,
         \A m \in gone' : m \in gone \/ m \in w.todo,
         gone \subseteq gone',
         Moved(t, w) => FreshAt(t)' /\ EditAt(t)',
         \A r \in Stored : r.m = w.m /\ r.text = version[w.m] =>
           \/ r.text = version'[w.m]
           \/ Precedes(r.text, version'[w.m]) /\ w.job = "edit" /\ w.at = "get",
         w.todo # {} => w.job = "delete" /\ w.at = "find"
  PROVE  CleanInv'
<1>0. Stored' = Stored /\ (\A m : Cached(m)' <=> Cached(m)) /\ clean \subseteq Messages
  BY DEF Stored, Cached, CoreInv, TypeParts
<1>1. CASE /\ Moved(t, w) /\ tasks[t] = Idle
           /\ clean' = clean \ (InHand \cap ({w.m} \cup w.todo))
  <2> DEFINE own == {w.m} \cup w.todo
  <2>1. tasks'[t] = w /\ \A s \in Tasks : s # t => tasks'[s] = tasks[s]
    BY <1>1, MovedTasks DEF CoreInv, TypeParts
  <2>2. \A m \in clean', s \in Tasks : m \in clean /\ (m \in own => m \notin Concerns(s))
    BY <1>1 DEF InHand
  <2>3. /\ Concerns(t)' = own
        /\ \A s \in Tasks : s # t => Concerns(s)' = Concerns(s)
    BY <2>1 DEF Concerns
  \* The messages of other updates are as they were.
  <2>4. \A m \in clean' : m \notin own =>
          version'[m] = version[m] /\ (m \in gone' => m \in gone)
    BY <1>0, <2>2
  <2>5. \A m \in clean' : m \notin Concerns(t)
    BY <1>1, <2>2, IdleTask, CleanMessages DEF Concerns, CoreInv
  <2> HIDE DEF own
  <2>6. Alone'
    <3> SUFFICES ASSUME NEW m \in clean', NEW r \in Tasks, NEW s \in Tasks,
                        m \in Concerns(r)', m \in Concerns(s)'
                 PROVE  r = s
      BY DEF Alone
    <3>1. CASE m \in own
      BY <2>2, <2>3, <3>1
    <3>2. CASE m \notin own
      BY <2>2, <2>3, <3>2 DEF CleanInv, Alone
    <3> QED BY <3>1, <3>2
  <2>7. ASSUME NEW s \in Tasks PROVE FreshAt(s)' /\ EditAt(s)'
    <3>1. CASE s # t /\ tasks[s].m \in clean'
      <4>1. tasks'[s] = tasks[s] /\ tasks[s].m \in clean /\ FreshAt(s) /\ EditAt(s)
        BY <2>1, <2>2, <3>1 DEF CleanInv
      <4>2. tasks[s].m \notin own
        BY <2>2, <3>1 DEF Concerns
      <4>3. /\ version'[tasks[s].m] = version[tasks[s].m]
            /\ tasks[s].m \in gone' => tasks[s].m \in gone
        BY <2>4, <3>1, <4>2
      <4>4. FreshAt(s)'
        BY <1>0, <4>1, <4>3 DEF FreshAt
      <4>5. EditAt(s)'
        BY <1>0, <4>1, <4>3 DEF EditAt, Precedes
      <4> QED BY <4>4, <4>5
    <3>2. CASE s # t /\ tasks[s].m \notin clean'
      BY <2>1, <3>2 DEF FreshAt, EditAt
    <3>3. CASE s = t
      BY <1>1, <3>3
    <3> QED BY <3>1, <3>2, <3>3
  <2>8. ASSUME NEW m \in clean', NEW r \in Stored, r.m = m PROVE ExactAt(m, r)'
    <3>0. m \in clean /\ ExactAt(m, r)
      BY <2>2, <2>8 DEF CleanInv, Exact
    <3>1. CASE m \in own
      <4>1. r.text = version[m]
        BY <2>2, <3>0, <3>1 DEF ExactAt, Editing, Concerns
      <4>2. CASE version'[m] = version[m]
        BY <4>1, <4>2 DEF ExactAt
      <4>3. CASE m = w.m
        <5>1. \/ r.text = version'[m]
              \/ Precedes(r.text, version'[m]) /\ w.job = "edit" /\ w.at = "get"
          BY <2>8, <4>1, <4>3
        <5>2. w.job = "edit" /\ w.at = "get" => Editing(t, m)'
          BY <2>1, <4>3 DEF Editing
        <5> QED BY <5>1, <5>2 DEF ExactAt, Precedes
      <4> QED BY <1>0, <3>0, <4>2, <4>3
    <3>2. CASE m \notin own
      <4>1. version'[m] = version[m]
        BY <2>4, <3>2
      <4>2. ASSUME NEW s \in Tasks, Editing(s, m) PROVE Editing(s, m)'
        <5>1. s # t
          BY <2>5, <4>2 DEF Editing, Concerns
        <5> QED BY <2>1, <4>2, <5>1 DEF Editing
      <4> QED BY <3>0, <4>1, <4>2 DEF ExactAt, Precedes
    <3> QED BY <3>1, <3>2
  <2>9. Exact'
    BY <1>0, <2>8 DEF Exact
  <2>10. ASSUME NEW m \in clean' \cap gone', m \notin mistaken, Cached(m)
         PROVE  \E s \in Tasks : Deleting(s, m)'
    <3>1. CASE m \in gone
      <4>1. PICK s \in Tasks : Deleting(s, m)
        BY <2>2, <2>10, <3>1 DEF CleanInv, GoneHeld
      <4>2. s # t
        BY <2>5, <4>1 DEF Deleting, Concerns
      <4>3. Deleting(s, m)'
        BY <2>1, <4>1, <4>2 DEF Deleting
      <4> QED BY <4>3
    <3>2. CASE m \notin gone
      <4>1. m \in w.todo /\ w.job = "delete" /\ w.at = "find"
        BY <2>10, <3>2
      <4>2. Deleting(t, m)'
        BY <2>1, <4>1 DEF Deleting
      <4> QED BY <4>2
    <3> QED BY <3>1, <3>2
  <2>11. GoneHeld'
    BY <1>0, <2>10 DEF GoneHeld
  <2> QED BY <2>6, <2>7, <2>9, <2>11 DEF CleanInv
<1>2. CASE UNCHANGED tasks /\ clean' = clean \ ({w.m} \cup w.todo)
  <2>1. \A m \in clean' : /\ m \in clean /\ version'[m] = version[m]
                          /\ m \in gone' => m \in gone
    BY <1>0, <1>2
  <2>2. Alone'
    BY <1>2, <2>1 DEF CleanInv, Alone, Concerns
  <2>3. ASSUME NEW s \in Tasks PROVE FreshAt(s)' /\ EditAt(s)'
    <3>1. FreshAt(s) /\ EditAt(s) /\ tasks' = tasks
      BY <1>2 DEF CleanInv
    <3>2. FreshAt(s)'
      BY <1>0, <2>1, <3>1 DEF FreshAt
    <3>3. EditAt(s)'
      BY <1>0, <2>1, <3>1 DEF EditAt
    <3> QED BY <3>2, <3>3
  <2>4. Exact'
    BY <1>0, <1>2, <2>1 DEF CleanInv, Exact, ExactAt, Precedes, Editing
  <2>5. GoneHeld'
    BY <1>0, <1>2, <2>1 DEF CleanInv, GoneHeld, Deleting
  <2> QED BY <2>2, <2>3, <2>4, <2>5 DEF CleanInv
<1> QED BY <1>1, <1>2, DispatchMoves DEF CoreInv

LEMMA CleanCapture ==
  ASSUME CacheAssumption, CoreInv, CleanInv, NEW t \in Tasks, Capture(t)
  PROVE  CleanInv'
<1>1. /\ tasks[t].job = "new" /\ tasks[t].at = "capture" /\ tasks[t].todo = {}
      /\ FreshAt(t)
  BY Places DEF Capture, At, Remembers, CleanInv
<1>2. PICK w \in TaskStates : Moved(t, w) /\ Same(w, tasks[t]) /\ w.at = "insert"
  BY CaptureMoves DEF CoreInv
<1>3. tasks'[t] = w
  BY <1>2, MovedTasks DEF CoreInv, TypeParts
<1>4. UNCHANGED <<version, gone, cache, clean, mistaken>>
  BY DEF Capture
<1>5. Stored' = Stored /\ \A n : Cached(n)' <=> Cached(n)
  BY <1>4 DEF Stored, Cached
<1>6. FreshAt(t)' /\ EditAt(t)'
  <2>1. FreshAt(t)'
    BY <1>1, <1>2, <1>3, <1>4, <1>5 DEF FreshAt, Same
  <2>2. EditAt(t)'
    BY <1>1, <1>2, <1>3 DEF EditAt, Same
  <2> QED BY <2>1, <2>2
<1>7. \A m \in clean : m \in Concerns(t) => m = tasks[t].m /\ m \notin gone /\ ~Cached(m)
  BY <1>1 DEF FreshAt, Concerns
<1>8. \A m \in clean, r \in Stored : m \in Concerns(t) => r.m # m
  BY <1>7, CachedBoth
<1>9. \A m \in clean : m = w.m \/ m \in w.todo => m \in Concerns(t)
  BY <1>2 DEF Same, Concerns
<1> QED BY <1>2, <1>4, <1>5, <1>6, <1>7, <1>8, <1>9, CleanFrame

LEMMA CleanGet ==
  ASSUME CacheAssumption, CoreInv, CleanInv, NEW t \in Tasks, Get(t)
  PROVE  CleanInv'
<1>1. /\ tasks[t].job = "edit" /\ tasks[t].at = "get" /\ tasks[t].todo = {}
      /\ EditAt(t)
  BY Places DEF Get, At, Edits, CleanInv
<1>2. PICK w \in TaskStates :
        /\ Moved(t, w) /\ Same(w, tasks[t]) /\ w.at = "insert"
        /\ w.row = RowOf(tasks[t].m) /\ w.media = RowOf(tasks[t].m).media
  BY GetMoves DEF CoreInv
<1>3. tasks'[t] = w
  BY <1>2, MovedTasks DEF CoreInv, TypeParts
<1>4. UNCHANGED <<version, gone, cache, clean, mistaken>>
  BY DEF Get
<1>5. Stored' = Stored /\ \A n : Cached(n)' <=> Cached(n)
  BY <1>4 DEF Stored, Cached
<1>6. \A m \in clean, r \in Stored : m = tasks[t].m /\ r.m = m => Precedes(r.text, version[m])
  BY DEF CleanInv, Exact, ExactAt, Precedes
<1>7. FreshAt(t)' /\ EditAt(t)'
  <2>1. FreshAt(t)'
    BY <1>1, <1>2, <1>3 DEF FreshAt, Same
  <2>2. w.row # NoRow => w.row \in Stored /\ w.row.m = tasks[t].m
    BY <1>2, RowOfStored DEF CoreInv, TypeParts
  <2>3. \A r \in Stored : r.m = tasks[t].m => w.row = r /\ w.media = r.media
    BY <1>2, RowOfStored DEF CoreInv, TypeParts
  <2>4. tasks[t].m \in clean /\ w.row # NoRow => Precedes(w.row.text, version[tasks[t].m])
    BY <1>6, <2>2
  <2>5. EditAt(t)'
    BY <1>1, <1>2, <1>3, <1>4, <1>5, <2>3, <2>4 DEF EditAt, Same, Precedes
  <2> QED BY <2>1, <2>5
<1>8. \A m \in clean : m \in Concerns(t) => m = tasks[t].m /\ m \notin gone
  BY <1>1 DEF EditAt, Concerns
<1>9. \A m \in clean : m \in Concerns(t) => Editing(t, m)'
  BY <1>1, <1>2, <1>3, <1>8 DEF Editing, Same
<1>10. ASSUME NEW m \in clean, NEW r \in Stored, m \in Concerns(t), r.m = m
       PROVE  ExactAt(m, r)'
  <2>1. Precedes(r.text, version[m]) /\ Editing(t, m)'
    BY <1>6, <1>8, <1>9, <1>10
  <2> QED BY <1>4, <2>1 DEF ExactAt, Precedes
<1>11. \A m \in clean : m = w.m \/ m \in w.todo => m \in Concerns(t)
  BY <1>2 DEF Same, Concerns
<1> QED BY <1>2, <1>4, <1>5, <1>7, <1>8, <1>10, <1>11, CleanFrame

LEMMA CleanInsert ==
  ASSUME CacheAssumption, CoreInv, CleanInv, NEW t \in Tasks, Insert(t)
  PROVE  CleanInv'
<1>1. /\ tasks[t].job \in {"new", "edit"} /\ tasks[t].at = "insert"
      /\ tasks[t].todo = {} /\ tasks[t].m \in Messages /\ FreshAt(t) /\ EditAt(t)
      /\ tasks[t].job = "new" => tasks[t].text = 0 /\ tasks[t].row = NoRow
  <2>1. Remembers(tasks[t]) \/ Edits(tasks[t])
    BY Places DEF Insert
  <2>2. FreshAt(t) /\ EditAt(t) /\ tasks[t].at = "insert"
    BY DEF Insert, CleanInv
  <2> QED BY <2>1, <2>2 DEF Remembers, Edits, CoreInv, TypeParts
<1>2. PICK w \in TaskStates :
        /\ Moved(t, w) /\ Same(w, tasks[t]) /\ w.at = "evict"
        /\ w.row = tasks[t].row \/ w.row = NoRow
  BY <1>1, InsertMoves DEF CoreInv
<1>3. PICK r \in Rows :
        /\ r.m = tasks[t].m /\ r.text = tasks[t].text
        /\ Stored' = {s \in Stored : s.m # r.m} \cup {r}
  BY <1>1, InsertMoves DEF CoreInv
<1>4. tasks'[t] = w
  BY <1>2, MovedTasks DEF CoreInv, TypeParts
<1>5. UNCHANGED <<version, gone, clean, mistaken>>
  BY DEF Insert
<1>6. \A m \in clean :
        m \in Concerns(t) => m = tasks[t].m /\ m \notin gone /\ tasks[t].text = version[m]
  BY <1>1 DEF FreshAt, EditAt, Concerns
<1>7. FreshAt(t)'
  BY <1>1, <1>2, <1>4, <1>5 DEF FreshAt, Same
<1>8. EditAt(t)'
  BY <1>1, <1>2, <1>4, <1>5 DEF EditAt, Same, Precedes
<1>9. \A s \in Stored' : s \in Stored \/ s.m = tasks[t].m
  BY <1>3
<1>10. ASSUME NEW m \in clean, NEW s \in Stored', m \in Concerns(t), s.m = m
       PROVE  ExactAt(m, s)'
  <2>1. s = r
    BY <1>3, <1>6, <1>10
  <2>2. s.text = version[m]
    BY <1>3, <1>6, <1>10, <2>1
  <2> QED BY <1>5, <2>2 DEF ExactAt
<1>11. \A m \in clean : m = w.m \/ m \in w.todo => m \in Concerns(t)
  BY <1>2 DEF Same, Concerns
<1> QED BY <1>2, <1>5, <1>6, <1>7, <1>8, <1>9, <1>10, <1>11, CleanFrame

LEMMA CleanEvict ==
  ASSUME CacheAssumption, CoreInv, CleanInv, NEW t \in Tasks, Evict(t)
  PROVE  CleanInv'
<1>1. /\ tasks[t].job \in {"new", "edit"} /\ tasks[t].at = "evict"
      /\ tasks[t].todo = {} /\ FreshAt(t) /\ EditAt(t)
  <2>1. Remembers(tasks[t]) \/ Edits(tasks[t])
    BY Places DEF Evict
  <2>2. FreshAt(t) /\ EditAt(t) /\ tasks[t].at = "evict"
    BY DEF Evict, CleanInv
  <2> QED BY <2>1, <2>2 DEF Remembers, Edits
<1>2. PICK w \in TaskStates :
        /\ Moved(t, w)
        /\ \/ w = Idle
           \/ /\ Same(w, tasks[t]) /\ w.at = "report" /\ w.row = tasks[t].row
              /\ Changed(t)
  BY EvictMoves DEF CoreInv
<1>3. Stored' \subseteq Stored
  BY EvictMoves DEF CoreInv
<1>4. tasks'[t] = w
  BY <1>2, MovedTasks DEF CoreInv, TypeParts
<1>5. UNCHANGED <<version, gone, clean, mistaken>>
  BY DEF Evict
<1>6. \A m \in clean : m \in Concerns(t) => m \notin gone /\ ~Editing(t, m)
  BY <1>1 DEF FreshAt, EditAt, Concerns, Editing
<1>7. \A m \in clean, r \in Stored : m \in Concerns(t) /\ r.m = m => ExactAt(m, r)'
  BY <1>5, <1>6, SettledExact
<1>8. FreshAt(t)'
  BY <1>1, <1>2, <1>4, IdleTask DEF FreshAt, Same, Changed
<1>9. EditAt(t)'
  BY <1>1, <1>2, <1>4, <1>5, IdleTask DEF EditAt, Same, Precedes
<1>10. \A m \in clean : m = w.m \/ m \in w.todo => m \in Concerns(t)
  BY <1>2, IdleTask, CleanMessages DEF Same, Concerns, CoreInv
<1> QED BY <1>2, <1>3, <1>5, <1>6, <1>7, <1>8, <1>9, <1>10, CleanFrame

\* A step of on_deleted.
LEMMA CleanDelete ==
  ASSUME CacheAssumption, CoreInv, CleanInv, version' = version, gone' = gone,
         clean' = clean, mistaken \subseteq mistaken', Stored' \subseteq Stored,
         NEW t \in Tasks, tasks[t].job = "delete",
         NEW w \in TaskStates, Moved(t, w), w.job \in {"none", "delete"},
         w.m \in tasks[t].todo \cup {NoMessage}, w.todo \subseteq tasks[t].todo,
         \A m \in clean \ mistaken' : Deleting(t, m) /\ Cached(m)' => Deleting(t, m)'
  PROVE  CleanInv'
<1>1. tasks'[t] = w
  BY MovedTasks DEF CoreInv, TypeParts
<1>2. FreshAt(t)' /\ EditAt(t)'
  BY <1>1 DEF FreshAt, EditAt
<1>3. \A m \in clean, r \in Stored : m \in Concerns(t) /\ r.m = m => ExactAt(m, r)'
  BY SettledExact DEF Editing
<1>4. \A m \in clean : m = w.m \/ m \in w.todo => m \in Concerns(t)
  BY CleanMessages DEF Concerns, CoreInv
<1>5. ASSUME NEW m \in (clean \cap gone) \ mistaken', m \in Concerns(t), Cached(m)'
      PROVE  Deleting(t, m)'
  <2>1. Cached(m)
    BY <1>5, CachedBoth
  <2>2. PICK s \in Tasks : Deleting(s, m)
    BY <1>5, <2>1 DEF CleanInv, GoneHeld
  <2>3. s = t
    BY <1>5, <2>2 DEF CleanInv, Alone, Deleting, Concerns
  <2> QED BY <1>5, <2>2, <2>3
<1> QED BY <1>2, <1>3, <1>4, <1>5, CleanFrame

LEMMA CleanFind ==
  ASSUME CacheAssumption, CoreInv, CleanInv, NEW t \in Tasks, NEW m \in Messages,
         Find(t, m)
  PROVE  CleanInv'
<1>1. tasks[t].job = "delete" /\ tasks[t].at = "find" /\ m \in tasks[t].todo
  BY DEF Find, At
<1>2. UNCHANGED <<version, gone, clean, cache, mistaken>>
  BY DEF Find
<1>3. Stored' = Stored /\ \A n : Cached(n)' <=> Cached(n)
  BY <1>2 DEF Stored, Cached
<1>4. CASE \E w \in TaskStates, r \in Stored :
             /\ Moved(t, w) /\ Matches(m, r)
             /\ w.job = tasks[t].job /\ w.todo = tasks[t].todo
             /\ w.at = "remove" /\ w.m = m /\ w.row = r
  <2>1. PICK w \in TaskStates :
          /\ Moved(t, w) /\ w.job = tasks[t].job /\ w.todo = tasks[t].todo
          /\ w.at = "remove" /\ w.m = m
    BY <1>4
  <2>2. tasks'[t] = w
    BY <2>1, MovedTasks DEF CoreInv, TypeParts
  <2>3. \A n \in clean : Deleting(t, n) => Deleting(t, n)'
    BY <2>1, <2>2 DEF Deleting
  <2> QED BY <1>1, <1>2, <1>3, <2>1, <2>3, CleanDelete
<1>5. CASE Moved(t, NextId(t, m)) /\ \A r \in Stored : ~Matches(m, r)
  <2>1. PICK w \in TaskStates :
          /\ w = NextId(t, m)
          /\ \/ w = Idle /\ tasks[t].todo = {m}
             \/ /\ w.job = "delete" /\ w.at = "find" /\ w.m = NoMessage
                /\ w.todo = tasks[t].todo \ {m}
    BY NextTask DEF CoreInv, TypeParts
  <2>2. tasks'[t] = w
    BY <1>5, <2>1, MovedTasks DEF CoreInv, TypeParts
  <2>3. ~Cached(m)
    BY <1>5, CachedBoth DEF Matches
  <2>4. \A n \in clean : Deleting(t, n) /\ Cached(n)' => Deleting(t, n)'
    BY <1>3, <2>1, <2>2, <2>3 DEF Deleting
  <2>5. w.job \in {"none", "delete"} /\ w.m = NoMessage /\ w.todo \subseteq tasks[t].todo
    BY <2>1, IdleTask
  <2> QED BY <1>1, <1>2, <1>3, <1>5, <2>1, <2>4, <2>5, CleanDelete
<1> QED BY <1>4, <1>5, FindMoves DEF CoreInv

LEMMA CleanRemove ==
  ASSUME CacheAssumption, CoreInv, CleanInv, NEW t \in Tasks, Remove(t)
  PROVE  CleanInv'
<1> DEFINE m == tasks[t].m
           row == tasks[t].row
<1>1. /\ tasks[t].job = "delete" /\ tasks[t].at = "remove"
      /\ m \in tasks[t].todo /\ m \in Messages /\ row \in Rows /\ Matches(m, row)
  BY Places DEF Remove, At, Deletes, CoreInv, TypeParts
<1>2. /\ UNCHANGED <<version, gone, clean>> /\ mistaken \subseteq mistaken'
      /\ row.m # m => m \in mistaken'
  BY DEF Remove, Mistaken
<1>3. Stored' = {r \in Stored : r.m # row.m}
  BY RemoveMoves DEF CoreInv
\* The row of the message is what was removed.
<1>4. ASSUME NEW n, n = m, n \notin mistaken' PROVE ~Cached(n)'
  <2>1. row.m = n
    BY <1>2, <1>4
  <2>2. \A r \in Stored' : r.m # row.m
    BY <1>3
  <2> QED BY <2>1, <2>2, CachedBoth
<1>5. CASE Moved(t, NextId(t, m))
  <2>1. PICK w \in TaskStates :
          /\ w = NextId(t, m)
          /\ \/ w = Idle /\ tasks[t].todo = {m}
             \/ /\ w.job = "delete" /\ w.at = "find" /\ w.m = NoMessage
                /\ w.todo = tasks[t].todo \ {m}
    BY NextTask DEF CoreInv, TypeParts
  <2>2. tasks'[t] = w
    BY <1>5, <2>1, MovedTasks DEF CoreInv, TypeParts
  <2>3. \A n \in clean \ mistaken' :
          Deleting(t, n) /\ Cached(n)' => Deleting(t, n)'
    BY <1>4, <2>1, <2>2 DEF Deleting
  <2>4. w.job \in {"none", "delete"} /\ w.m = NoMessage /\ w.todo \subseteq tasks[t].todo
    BY <2>1, IdleTask
  <2> QED BY <1>1, <1>2, <1>3, <1>5, <2>1, <2>3, <2>4, CleanDelete
<1>6. CASE \E w \in TaskStates :
             /\ Moved(t, w) /\ Same(w, tasks[t]) /\ w.at = "report" /\ w.row = row
  <2>1. PICK w \in TaskStates : Moved(t, w) /\ Same(w, tasks[t]) /\ w.at = "report"
    BY <1>6
  <2>2. tasks'[t] = w
    BY <2>1, MovedTasks DEF CoreInv, TypeParts
  <2>3. \A n \in clean \ mistaken' :
          Deleting(t, n) /\ Cached(n)' => Deleting(t, n)'
    BY <1>4, <2>1, <2>2 DEF Deleting, Same
  <2>4. w.job = "delete" /\ w.m \in tasks[t].todo /\ w.todo \subseteq tasks[t].todo
    BY <1>1, <2>1 DEF Same
  <2> QED BY <1>1, <1>2, <1>3, <2>1, <2>3, <2>4, CleanDelete
<1> QED BY <1>5, <1>6, RemoveMoves DEF CoreInv

LEMMA CleanHandle ==
  ASSUME CacheAssumption, CoreInv, CleanInv, NEW t \in Tasks, Handle(t)
  PROVE  CleanInv'
<1> DEFINE m == tasks[t].m
<1>1. tasks[t].at = "report" /\ (Edits(tasks[t]) \/ Deletes(tasks[t]))
  BY Places DEF Handle
<1>2. UNCHANGED <<version, gone, clean, cache, mistaken>>
  BY DEF Handle
<1>3. Stored' = Stored /\ \A n : Cached(n)' <=> Cached(n)
  BY <1>2 DEF Stored, Cached
<1>4. CASE Edits(tasks[t])
  <2>1. tasks[t].job = "edit" /\ tasks[t].todo = {} /\ EditAt(t) /\ Moved(t, Idle)
        /\ Idle \in TaskStates
    BY <1>4, HandleMoves, IdleTask DEF Edits, CleanInv, CoreInv
  <2>2. tasks'[t] = Idle
    BY <2>1, MovedTasks DEF CoreInv, TypeParts
  <2>3. FreshAt(t)' /\ EditAt(t)'
    BY <2>2, IdleTask DEF FreshAt, EditAt
  <2>4. \A n \in clean : n \in Concerns(t) => n \notin gone /\ ~Editing(t, n)
    BY <1>1, <2>1 DEF EditAt, Concerns, Editing
  <2>5. \A n \in clean, r \in Stored : n \in Concerns(t) /\ r.m = n => ExactAt(n, r)'
    BY <1>2, <2>4, SettledExact
  <2>6. \A n \in clean : ~(n = Idle.m \/ n \in Idle.todo)
    BY IdleTask, CleanMessages DEF CoreInv
  <2> QED BY <1>2, <1>3, <2>1, <2>3, <2>4, <2>5, <2>6, CleanFrame
<1>5. CASE Deletes(tasks[t])
  <2>1. tasks[t].job = "delete" /\ Moved(t, NextId(t, m))
    BY <1>5, HandleMoves DEF Deletes, CoreInv
  <2>2. PICK w \in TaskStates :
          /\ w = NextId(t, m)
          /\ \/ w = Idle /\ tasks[t].todo = {m}
             \/ /\ w.job = "delete" /\ w.at = "find" /\ w.m = NoMessage
                /\ w.todo = tasks[t].todo \ {m}
    BY NextTask DEF CoreInv, TypeParts
  <2>3. tasks'[t] = w
    BY <2>1, <2>2, MovedTasks DEF CoreInv, TypeParts
  <2>4. \A n \in clean : Deleting(t, n) => Deleting(t, n)'
    BY <1>1, <2>2, <2>3 DEF Deleting
  <2>5. w.job \in {"none", "delete"} /\ w.m = NoMessage /\ w.todo \subseteq tasks[t].todo
    BY <2>2, IdleTask
  <2> QED BY <1>2, <1>3, <2>1, <2>2, <2>4, <2>5, CleanDelete
<1> QED BY <1>1, <1>4, <1>5

LEMMA CleanDies ==
  ASSUME CacheAssumption, CoreInv, CleanInv, NEW t \in Tasks, Dies(t)
  PROVE  CleanInv'
<1>1. Moved(t, Idle) /\ Idle \in TaskStates
  BY IdleTask DEF Dies, Moved
<1>2. tasks'[t] = Idle
  BY <1>1, MovedTasks DEF CoreInv, TypeParts
<1>3. FreshAt(t)' /\ EditAt(t)'
  BY <1>2, IdleTask DEF FreshAt, EditAt
<1>4. UNCHANGED <<version, gone, cache, mistaken>> /\ clean' = clean \ Concerns(t)
  BY DEF Dies
<1>5. \A n \in clean : ~(n = Idle.m \/ n \in Idle.todo)
  BY IdleTask, CleanMessages DEF CoreInv
<1>6. Stored' = Stored
  BY <1>4 DEF Stored
<1> QED BY <1>1, <1>3, <1>4, <1>5, <1>6, CleanFrame

LEMMA CleanArrives ==
  ASSUME CacheAssumption, CoreInv, CleanInv, NEW t \in Tasks, NEW m \in Messages,
         Arrives(t, m)
  PROVE  CleanInv'
<1>1. PICK w \in TaskStates :
        /\ Dispatch(t, w) /\ w.job = "new" /\ w.at = "capture" /\ w.m = m
        /\ w.todo = {} /\ w.text = 0 /\ w.row = NoRow
  BY NewTask DEF Arrives
<1>2. /\ UNCHANGED <<version, gone, cache, mistaken>>
      /\ m \notin sent /\ version[m] = 0 /\ m \notin gone
  BY DEF Arrives, CoreInv, TypeParts, StoredHold
<1>3. ~Cached(m)
  BY <1>2, CachedBoth DEF CoreInv, StoredHold, Genuine
<1>4. ~Cached(m)'
  BY <1>2, <1>3 DEF Cached
<1>5. ASSUME Moved(t, w) PROVE FreshAt(t)' /\ EditAt(t)'
  <2>1. tasks'[t] = w
    BY <1>5, MovedTasks DEF CoreInv, TypeParts
  <2> QED BY <1>1, <1>2, <1>4, <2>1 DEF FreshAt, EditAt
<1> QED BY <1>1, <1>2, <1>5, CleanUpdate

LEMMA CleanEdited ==
  ASSUME CacheAssumption, CoreInv, CleanInv, NEW t \in Tasks, NEW m \in Messages,
         Edited(t, m)
  PROVE  CleanInv'
<1>1. PICK w \in TaskStates :
        /\ Dispatch(t, w) /\ w.job = "edit" /\ w.at = "get" /\ w.m = m
        /\ w.todo = {} /\ w.text \in Versions /\ w.row = NoRow
        /\ version' = [version EXCEPT ![m] = w.text]
        /\ w.text = version[m] \/ w.text = version[m] + 1
  BY EditedTask
<1>2. UNCHANGED <<gone, cache, mistaken>> /\ m \notin gone
  BY DEF Edited
<1>3. /\ version'[m] = w.text
      /\ \A n \in Messages : n # m => version'[n] = version[n]
  BY <1>1 DEF CoreInv, TypeParts
<1>4. ASSUME Moved(t, w) PROVE FreshAt(t)' /\ EditAt(t)'
  <2>1. tasks'[t] = w
    BY <1>4, MovedTasks DEF CoreInv, TypeParts
  <2> QED BY <1>1, <1>2, <1>3, <2>1 DEF FreshAt, EditAt
<1>5. Precedes(version[m], version'[m])
  BY <1>1, <1>3 DEF Precedes
<1> QED BY <1>1, <1>2, <1>3, <1>4, <1>5, CleanUpdate

LEMMA CleanDeleted ==
  ASSUME CacheAssumption, CoreInv, CleanInv, NEW t \in Tasks, NEW M \in SUBSET Messages,
         Deleted(t, M)
  PROVE  CleanInv'
<1>1. PICK w \in TaskStates :
        /\ Dispatch(t, w) /\ w.job = "delete" /\ w.at = "find"
        /\ w.m = NoMessage /\ w.todo = M
  BY DeleteTask DEF Deleted
<1>2. UNCHANGED <<version, cache, mistaken>> /\ gone' = gone \cup M
  BY DEF Deleted
<1>3. ASSUME Moved(t, w) PROVE FreshAt(t)' /\ EditAt(t)'
  <2>1. tasks'[t] = w
    BY <1>3, MovedTasks DEF CoreInv, TypeParts
  <2> QED BY <1>1, <2>1 DEF FreshAt, EditAt
<1> QED BY <1>1, <1>2, <1>3, CleanUpdate

\* The messages in hand when the worker stops are clean no more.
LEMMA CleanStop ==
  ASSUME CacheAssumption, CoreInv, CleanInv, Stop
  PROVE  CleanInv'
<1>1. /\ UNCHANGED <<version, gone, cache, mistaken>>
      /\ clean' = clean \ InHand /\ tasks' = [t \in Tasks |-> Idle]
  BY DEF Stop
<1>2. Stored' = Stored /\ \A n : Cached(n)' <=> Cached(n)
  BY <1>1 DEF Stored, Cached
<1>3. \A m \in clean', t \in Tasks : m \in clean /\ m \notin Concerns(t)
  BY <1>1 DEF InHand
<1>4. Alone'
  <2>1. \A m \in clean', t \in Tasks : m \notin Concerns(t)'
    BY <1>1, <1>3, IdleTask, CleanMessages DEF Concerns, CoreInv
  <2> QED BY <2>1 DEF Alone
<1>5. \A t \in Tasks : FreshAt(t)' /\ EditAt(t)'
  BY <1>1, IdleTask DEF FreshAt, EditAt
<1>6. ASSUME NEW m \in clean', NEW r \in Stored, r.m = m PROVE ExactAt(m, r)'
  <2>1. m \in clean /\ \A t \in Tasks : ~Editing(t, m)
    <3>1. m \in clean
      BY <1>1
    <3>2. ASSUME NEW t \in Tasks PROVE ~Editing(t, m)
      BY <1>3 DEF Editing, Concerns
    <3> QED BY <3>1, <3>2
  <2>2. r.text = version[m]
    BY <1>6, <2>1 DEF CleanInv, Exact, ExactAt
  <2> QED BY <1>1, <2>2 DEF ExactAt
<1>7. Exact'
  BY <1>2, <1>6 DEF Exact
<1>8. \A m \in clean' \cap gone : m \notin mistaken => ~Cached(m)
  BY <1>1, <1>3 DEF CleanInv, GoneHeld, Deleting, Concerns, InHand
<1>9. GoneHeld'
  BY <1>1, <1>2, <1>8 DEF GoneHeld
<1> QED BY <1>4, <1>5, <1>7, <1>9 DEF CleanInv

LEMMA CleanSame ==
  ASSUME CleanInv, UNCHANGED <<version, gone, cache, tasks, clean, mistaken>>
  PROVE  CleanInv'
<1>1. Stored' = Stored /\ \A n : Cached(n)' <=> Cached(n)
  BY DEF Stored, Cached
<1>2. Alone'
  BY DEF CleanInv, Alone, Concerns
<1>3. ASSUME NEW t \in Tasks PROVE FreshAt(t)' /\ EditAt(t)'
  <2>1. FreshAt(t) /\ EditAt(t)
    BY DEF CleanInv
  <2>2. FreshAt(t)'
    BY <1>1, <2>1 DEF FreshAt
  <2>3. EditAt(t)'
    BY <1>1, <2>1 DEF EditAt
  <2> QED BY <2>2, <2>3
<1>4. Exact'
  BY <1>1 DEF CleanInv, Exact, ExactAt, Precedes, Editing
<1>5. GoneHeld'
  BY <1>1 DEF CleanInv, GoneHeld, Deleting
<1> QED BY <1>2, <1>3, <1>4, <1>5 DEF CleanInv

LEMMA CleanStep ==
  ASSUME CacheAssumption, CoreInv, CleanInv, [Next]_vars
  PROVE  CleanInv'
<1>1. CASE UNCHANGED vars
  BY <1>1, CleanSame DEF vars
<1>2. CASE Stop
  BY <1>2, CleanStop
<1>3. CASE Start
  BY <1>3, CleanSame DEF Start
<1>4. ASSUME NEW t \in Tasks, NEW m \in Messages,
             Arrives(t, m) \/ Edited(t, m) \/ Find(t, m)
      PROVE  CleanInv'
  BY <1>4, CleanArrives, CleanEdited, CleanFind
<1>5. ASSUME NEW t \in Tasks, NEW M \in SUBSET Messages, Deleted(t, M) PROVE CleanInv'
  BY <1>5, CleanDeleted
<1>6. ASSUME NEW t \in Tasks,
             \/ Capture(t) \/ Get(t) \/ Insert(t) \/ Evict(t)
             \/ Remove(t) \/ Handle(t) \/ Dies(t)
      PROVE  CleanInv'
  BY <1>6, CleanCapture, CleanGet, CleanInsert, CleanEvict, CleanRemove, CleanHandle,
     CleanDies
<1> QED BY <1>1, <1>2, <1>3, <1>4, <1>5, <1>6 DEF Next

LEMMA CleanHolds == ASSUME CacheAssumption PROVE Spec => [](CoreInv /\ CleanInv)
<1>1. Init => CoreInv /\ CleanInv
  <2>1. ASSUME Init PROVE CleanInv
    <3>1. Stored = {} /\ (\A m : ~Cached(m)) /\ CoreInv
      BY <2>1, CoreInit DEF Init, Stored, RowsIn, Cached
    <3>2. \A m \in clean, t \in Tasks : m \notin Concerns(t)
      BY <2>1, <3>1, IdleTask, CleanMessages DEF Init, Concerns, CoreInv
    <3>3. \A t \in Tasks : FreshAt(t) /\ EditAt(t)
      BY <2>1, IdleTask DEF Init, FreshAt, EditAt
    <3> QED BY <3>1, <3>2, <3>3 DEF CleanInv, Alone, Exact, GoneHeld
  <2> QED BY <2>1, CoreInit
<1>2. CoreInv /\ CleanInv /\ [Next]_vars => (CoreInv /\ CleanInv)'
  BY CoreStep, CleanStep
<1> QED BY <1>1, <1>2, PTL DEF Spec

\* message_cache.py: between the updates of a message that were handled one at a
\* time, its row holds its present text, and a deleted message has no row unless
\* its deletion took another one's, however the handlers of other messages, also
\* on rows of its id, restarts and evictions interleave.
THEOREM RowExact == ASSUME CacheAssumption PROVE Spec => []RowIsExact
<1>1. CoreInv /\ CleanInv => RowIsExact
  <2> SUFFICES ASSUME CoreInv, CleanInv, NEW m \in clean, m \notin InHand, Cached(m)
               PROVE  RowOf(m).text = version[m] /\ (m \in gone => m \in mistaken)
    BY DEF RowIsExact
  <2>1. \A t \in Tasks : ~Editing(t, m) /\ ~Deleting(t, m)
    BY DEF InHand, Concerns, Editing, Deleting
  <2>2. RowOf(m).text = version[m]
    <3>1. PICK r \in Stored : r.m = m /\ RowOf(m) = r
      BY RowOfStored, CachedBoth DEF CoreInv, TypeParts
    <3>2. ExactAt(m, r)
      BY <3>1 DEF CleanInv, Exact
    <3> QED BY <2>1, <3>1, <3>2 DEF ExactAt
  <2>3. m \in gone => m \in mistaken
    BY <2>1 DEF CleanInv, GoneHeld
  <2> QED BY <2>2, <2>3
<1> QED BY <1>1, CleanHolds, PTL

\* autosave.py, _handle: what is reported as deleted was deleted, or shares the
\* id of a deleted private message, with a text it had; the previous text
\* of a reported edit is the one right before it.
THEOREM ReportsTrue == ASSUME CacheAssumption PROVE Spec => []ReportsAreTrue
<1>1. CoreInv /\ CleanInv => ReportsAreTrue
  <2> SUFFICES ASSUME CoreInv, CleanInv, NEW t \in Tasks, tasks[t].at = "report"
               PROVE  LET row == tasks[t].row IN
                      /\ row.text <= version[row.m]
                      /\ tasks[t].job = "delete" =>
                           \/ row.m \in gone
                           \/ \E n \in gone \cap Direct : Id[n] = Id[row.m]
                      /\ tasks[t].job = "edit" /\ row.m \in clean =>
                           tasks[t].text = row.text + 1
    BY DEF ReportsAreTrue
  <2>1. Edits(tasks[t]) \/ Deletes(tasks[t])
    BY Places
  <2>2. CASE Edits(tasks[t])
    <3>1. /\ tasks[t].job = "edit" /\ tasks[t].row # NoRow
          /\ tasks[t].row.m = tasks[t].m
          /\ tasks[t].row.text <= version[tasks[t].row.m]
          /\ tasks[t].row.text # tasks[t].text
      BY <2>2 DEF Edits
    <3>2. EditAt(t)
      BY DEF CleanInv
    <3> QED BY <3>1, <3>2 DEF EditAt, Precedes
  <2>3. CASE Deletes(tasks[t])
    <3>1. /\ tasks[t].job = "delete" /\ tasks[t].m \in gone
          /\ Matches(tasks[t].m, tasks[t].row)
          /\ tasks[t].row.text <= version[tasks[t].row.m]
      BY <2>3 DEF Deletes
    <3> QED BY <3>1 DEF Matches
  <2> QED BY <2>1, <2>2, <2>3
<1> QED BY <1>1, CleanHolds, PTL

\* autosave.py, on_edited: the media captured with a message is carried from row
\* to row.
THEOREM MediaKept == ASSUME CacheAssumption PROVE Spec => MediaIsKept
<1> DEFINE Keeps == \A m \in clean, i \in DOMAIN cache, j \in DOMAIN cache' :
              cache[i].m = m /\ cache'[j].m = m /\ cache[i].media => cache'[j].media
<1>1. ASSUME CacheAssumption, CoreInv, CleanInv, [Next]_vars PROVE Keeps
  <2> SUFFICES ASSUME NEW m \in clean, NEW r \in Stored, NEW s \in Stored',
                      r.m = m, s.m = m
               PROVE  s = r \/ s.media = r.media
    BY DEF Stored, RowsIn
  <2>1. CASE s \in Stored
    BY <1>1, <2>1, StoredRows DEF CoreInv, TypeParts
  <2>2. CASE s \notin Stored
    <3>1. PICK t \in Tasks : Insert(t)
      <4>1. cache' = cache => Stored' = Stored
        BY DEF Stored
      <4>2. \A t \in Tasks : Evict(t) => Stored' \subseteq Stored
        BY <1>1, EvictMoves DEF CoreInv
      <4>3. \A t \in Tasks : Remove(t) => Stored' \subseteq Stored
        BY <1>1, RemoveMoves DEF CoreInv
      <4>4. cache' = cache \/ \E t \in Tasks : Insert(t) \/ Evict(t) \/ Remove(t)
        BY <1>1 DEF Next, vars, Stop, Start, Arrives, Edited, Find, Deleted, Capture, Get,
           Handle, Dies
      <4> QED BY <2>2, <4>1, <4>2, <4>3, <4>4
    <3>2. /\ tasks[t].at = "insert" /\ tasks[t].m \in Messages
          /\ tasks[t].job \in {"new", "edit"}
      <4>1. Remembers(tasks[t]) \/ Edits(tasks[t])
        BY <1>1, <3>1, Places DEF Insert
      <4> QED BY <1>1, <3>1, <4>1 DEF Insert, Remembers, Edits, CoreInv, TypeParts
    <3>3. s.m = tasks[t].m /\ s.media = tasks[t].media
      BY <1>1, <2>2, <3>1, <3>2, InsertMoves DEF CoreInv
    <3>4. Cached(m) /\ FreshAt(t) /\ EditAt(t)
      BY <1>1, CachedBoth DEF CleanInv
    <3> QED BY <3>2, <3>3, <3>4 DEF FreshAt, EditAt
  <2> QED BY <2>1, <2>2
<1>2. CoreInv /\ CleanInv /\ [Next]_vars =>
        [\A m \in clean, i \in DOMAIN cache, j \in DOMAIN cache' :
           cache[i].m = m /\ cache'[j].m = m /\ cache[i].media => cache'[j].media]_vars
  BY <1>1
<1> QED BY <1>2, CleanHolds, PTL DEF Spec, MediaIsKept

=============================================================================
