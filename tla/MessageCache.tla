---------------------------- MODULE MessageCache ----------------------------
(***************************************************************************)
(* Auto-saving deleted and edited messages: the handlers of one worker     *)
(* (userbot/handlers/autosave.py) over its part of the persistent cache of *)
(* recent messages (userbot/message_cache.py).                             *)
(*                                                                         *)
(* Telegram's updates arrive in order, but Telethon runs each handler as a *)
(* task of its own: handlers of one message interleave at every await.  A  *)
(* deletion outside channels does not name its chat.  The worker may stop  *)
(* and start; updates meanwhile are missed, the cache stays.               *)
(*                                                                         *)
(* A statement and its commit are one step: all tasks share a connection,  *)
(* and what is lost between them is lost as if the statement had not run.  *)
(* The history `clean` sets apart the messages two of whose own handlers   *)
(* overlapped, or one died or was missed; `mistaken`, the deletions that   *)
(* took the row of another message with the same id.                       *)
(***************************************************************************)
EXTENDS Naturals, Sequences, FiniteSets

CONSTANTS
  Tasks,      \* handlers running at once (a bound)
  Messages,
  Direct,     \* messages of private chats and small groups; others: one channel
  Photos,     \* messages that arrive as media without a caption
  Id,         \* the message id, unique within the channel and within Direct
  NoMessage,
  MaxSize,    \* max_size
  MaxVersion, \* bound on the edits of a message
  MaxFaults   \* bound on stops and on handlers that die

ASSUME CacheAssumption ==
  /\ Direct \subseteq Messages /\ Photos \subseteq Messages
  /\ Id \in [Messages -> Nat]
  /\ \A m, n \in Messages :
       Id[m] = Id[n] /\ (m \in Direct <=> n \in Direct) => m = n
  /\ NoMessage \notin Messages
  /\ IsFiniteSet(Tasks)
  /\ MaxSize \in Nat \ {0}
  /\ {MaxVersion, MaxFaults} \subseteq Nat

VARIABLES
  sent, gone,  \* Telegram: messages sent, and deleted
  version,     \* Telegram: the text of each message, as its number of edits
  cache,       \* the owner's rows of cached_messages, by created_at
  tasks,
  up,          \* the worker runs
  clean,       \* history: messages handled one update at a time, none missed
  owed,        \* history: deleted messages whose row was there when told so
  mistaken,    \* history: messages whose deletion took another one's row
  faults

telegram == <<sent, gone, version>>
vars == <<sent, gone, version, cache, tasks, up, clean, owed, mistaken, faults>>

-----------------------------------------------------------------------------

Versions == 0..MaxVersion
Rows == [m : Messages, text : Versions, media : BOOLEAN]
NoRow == [m |-> NoMessage, text |-> 0, media |-> FALSE]

\* m and text are the event's; row is the row read, todo the ids to delete.
Idle == [job |-> "none", at |-> "idle", m |-> NoMessage, text |-> 0,
         media |-> FALSE, row |-> NoRow, todo |-> {}]

TaskStates ==
  [job : {"none", "new", "edit", "delete"},
   at : {"idle", "capture", "get", "insert", "evict", "find", "remove", "report"},
   m : Messages \cup {NoMessage}, text : Versions, media : BOOLEAN,
   row : Rows \cup {NoRow}, todo : SUBSET Messages]

Cached(m) == \E i \in DOMAIN cache : cache[i].m = m
Index(m) == CHOOSE i \in DOMAIN cache : cache[i].m = m
RowOf(m) == IF Cached(m) THEN cache[Index(m)] ELSE NoRow
Without(m) ==
  IF Cached(m)
    THEN SubSeq(cache, 1, Index(m) - 1) \o SubSeq(cache, Index(m) + 1, Len(cache))
    ELSE cache

\* Values are of their types, a message has at most one row, and there are no
\* more rows than max_size, but for inserts whose eviction has not run yet or was
\* lost with its handler (the next eviction makes up for those).
TypeOK ==
  /\ sent \subseteq Messages /\ gone \subseteq sent
  /\ version \in [Messages -> Versions]
  /\ cache \in Seq(Rows)
  /\ \A i, j \in DOMAIN cache : cache[i].m = cache[j].m => i = j
  /\ Len(cache) <= MaxSize + Cardinality({t \in Tasks : tasks[t].at = "evict"})
                           + faults * Cardinality(Tasks)
  /\ tasks \in [Tasks -> TaskStates]
  /\ up \in BOOLEAN
  /\ clean \subseteq Messages /\ owed \subseteq gone /\ mistaken \subseteq gone
  /\ faults \in 0..MaxFaults

Init ==
  /\ sent = {} /\ gone = {}
  /\ version = [m \in Messages |-> 0]
  /\ cache = <<>>
  /\ tasks = [t \in Tasks |-> Idle]
  /\ up = TRUE
  /\ clean = Messages /\ owed = {} /\ mistaken = {}
  /\ faults = 0

At(t, job, at) == tasks[t].job = job /\ tasks[t].at = at

\* The messages a task works on, and those whose rows deletions have read.
Concerns(t) == {tasks[t].m} \cup tasks[t].todo
InHand == UNION {Concerns(t) : t \in Tasks}
Taken ==
  {tasks[t].row.m : t \in {u \in Tasks : tasks[u].job = "delete" /\ tasks[u].at # "find"}}

-----------------------------------------------------------------------------
(* Telegram, and the updates it sends. *)

\* A handler starts for the update; a worker that is down misses it.
Dispatch(t, rec) ==
  \/ /\ up /\ tasks[t] = Idle
     /\ tasks' = [tasks EXCEPT ![t] = rec]
     /\ clean' = clean \ (InHand \cap ({rec.m} \cup rec.todo))
     /\ owed' = owed \cup {m \in rec.todo : Cached(m)}
  \/ /\ ~up
     /\ clean' = clean \ ({rec.m} \cup rec.todo)
     /\ UNCHANGED <<tasks, owed>>

Arrives(t, m) ==
  /\ m \notin sent
  /\ sent' = sent \cup {m}
  /\ Dispatch(t, [Idle EXCEPT !.job = "new", !.at = "capture", !.m = m])
  /\ UNCHANGED <<gone, version, cache, up, mistaken, faults>>

\* An edit; beyond MaxVersion, an update that leaves the text (a reaction).
Edited(t, m) ==
  /\ m \in sent \ gone
  /\ LET v == IF version[m] < MaxVersion THEN version[m] + 1 ELSE version[m] IN
       /\ version' = [version EXCEPT ![m] = v]
       /\ Dispatch(t, [Idle EXCEPT !.job = "edit", !.at = "get", !.m = m, !.text = v])
  /\ UNCHANGED <<sent, gone, cache, up, mistaken, faults>>

\* One update deletes messages of the channel, or of private chats.
Deleted(t, M) ==
  /\ M # {} /\ M \subseteq sent \ gone
  /\ M \subseteq Direct \/ M \cap Direct = {}
  /\ gone' = gone \cup M
  /\ Dispatch(t, [Idle EXCEPT !.job = "delete", !.at = "find", !.todo = M])
  /\ UNCHANGED <<sent, version, cache, up, mistaken, faults>>

-----------------------------------------------------------------------------
(* remember (the handler and the cache's) and on_edited. *)

\* _capture_media: the download succeeds, fails or is not wanted.
Capture(t) ==
  /\ At(t, "new", "capture")
  /\ \E got \in (IF tasks[t].m \in Photos THEN BOOLEAN ELSE {FALSE}) :
       tasks' = [tasks EXCEPT ![t].at = "insert", ![t].media = got]
  /\ UNCHANGED <<telegram, cache, up, clean, owed, mistaken, faults>>

\* Mutant: the media is not carried forward.
GetTextOnly(t) ==
  /\ At(t, "edit", "get")
  /\ tasks' = [tasks EXCEPT ![t].at = "insert", ![t].row = RowOf(tasks[t].m)]
  /\ UNCHANGED <<telegram, cache, up, clean, owed, mistaken, faults>>

\* on_edited reads the row there is, for the previous text and the media.
Get(t) ==
  /\ At(t, "edit", "get")
  /\ LET row == RowOf(tasks[t].m) IN
     tasks' = [tasks EXCEPT ![t].at = "insert", ![t].row = row, ![t].media = row.media]
  /\ UNCHANGED <<telegram, cache, up, clean, owed, mistaken, faults>>

\* An edit is reported if the row held another text.
Changed(t) ==
  /\ tasks[t].job = "edit"
  /\ tasks[t].row # NoRow
  /\ tasks[t].row.text # tasks[t].text

\* Mutant: ON CONFLICT DO NOTHING.
InsertIfNew(t) ==
  /\ tasks[t].at = "insert"
  /\ cache' = IF Cached(tasks[t].m) THEN cache
              ELSE Append(cache, [m |-> tasks[t].m, text |-> tasks[t].text,
                                  media |-> tasks[t].media])
  /\ tasks' = [tasks EXCEPT ![t].at = "evict", ![t].media = FALSE,
                            ![t].row = IF Changed(t) THEN tasks[t].row ELSE NoRow]
  /\ UNCHANGED <<telegram, up, clean, owed, mistaken, faults>>

\* INSERT ... ON CONFLICT DO UPDATE, created_at included.
Insert(t) ==
  /\ tasks[t].at = "insert"
  /\ cache' = Append(Without(tasks[t].m),
                     [m |-> tasks[t].m, text |-> tasks[t].text, media |-> tasks[t].media])
  /\ tasks' = [tasks EXCEPT ![t].at = "evict", ![t].media = FALSE,
                            ![t].row = IF Changed(t) THEN tasks[t].row ELSE NoRow]
  /\ UNCHANGED <<telegram, up, clean, owed, mistaken, faults>>

\* Mutant: one row too many is kept.
EvictLate(t) ==
  /\ tasks[t].at = "evict"
  /\ cache' = IF Len(cache) > MaxSize + 1 THEN Tail(cache) ELSE cache
  /\ tasks' = [tasks EXCEPT ![t] = IF Changed(t)
                                       THEN [tasks[t] EXCEPT !.at = "report"]
                                     ELSE Idle]
  /\ owed' = IF Len(cache) > MaxSize + 1 THEN owed \ ({cache[1].m} \ Taken) ELSE owed
  /\ UNCHANGED <<telegram, up, clean, mistaken, faults>>

\* _evict_old: the MaxSize latest stay.
Evict(t) ==
  /\ tasks[t].at = "evict"
  /\ LET old == IF Len(cache) > MaxSize THEN Len(cache) - MaxSize ELSE 0 IN
       /\ cache' = SubSeq(cache, old + 1, Len(cache))
       /\ owed' = owed \ ({cache[i].m : i \in 1..old} \ Taken)
  /\ tasks' = [tasks EXCEPT ![t] = IF Changed(t)
                                       THEN [tasks[t] EXCEPT !.at = "report"]
                                     ELSE Idle]
  /\ UNCHANGED <<telegram, up, clean, mistaken, faults>>

-----------------------------------------------------------------------------
(* on_deleted, one id after the other. *)

\* Mutant: every deletion is looked up by its id alone.
MatchesById(m, row) == Id[row.m] = Id[m]

\* pop's key, or pop_by_message_id's when the update names no chat.
Matches(m, row) == IF m \in Direct THEN Id[row.m] = Id[m] ELSE row.m = m

\* The latest of the rows it matches.
Found(m, i) ==
  /\ i \in DOMAIN cache /\ Matches(m, cache[i])
  /\ \A j \in DOMAIN cache : Matches(m, cache[j]) => j <= i

NextId(t, m) ==
  IF tasks[t].todo = {m} THEN Idle
  ELSE [Idle EXCEPT !.job = "delete", !.at = "find", !.todo = tasks[t].todo \ {m}]

\* The SELECT; without a row the handler goes on to the next id.
Find(t, m) ==
  /\ At(t, "delete", "find") /\ m \in tasks[t].todo
  /\ \/ \E i \in DOMAIN cache :
          /\ Found(m, i)
          /\ tasks' = [tasks EXCEPT ![t].at = "remove", ![t].m = m, ![t].row = cache[i]]
     \/ /\ \A i \in DOMAIN cache : ~Matches(m, cache[i])
        /\ tasks' = [tasks EXCEPT ![t] = NextId(t, m)]
  /\ UNCHANGED <<telegram, cache, up, clean, owed, mistaken, faults>>

\* Nothing was cached of it but its existence.
Bare(row) == row.m \in Photos /\ row.text = 0 /\ ~row.media

\* The message a deletion is of does not get its own row.
Mistaken(t) ==
  mistaken' = IF tasks[t].row.m # tasks[t].m THEN mistaken \cup {tasks[t].m} ELSE mistaken

\* Mutant: a message without text is skipped, whatever its media.
RemoveTextOnly(t) ==
  /\ At(t, "delete", "remove")
  /\ cache' = Without(tasks[t].row.m)
  /\ tasks' = [tasks EXCEPT ![t] =
       IF tasks[t].row.m \in Photos /\ tasks[t].row.text = 0 THEN NextId(t, tasks[t].m)
       ELSE [tasks[t] EXCEPT !.at = "report"]]
  /\ owed' = IF Bare(tasks[t].row) THEN owed \ {tasks[t].row.m} ELSE owed
  /\ Mistaken(t)
  /\ UNCHANGED <<telegram, up, clean, faults>>

\* The DELETE of the row found; a bare row is not reported.
Remove(t) ==
  /\ At(t, "delete", "remove")
  /\ cache' = Without(tasks[t].row.m)
  /\ IF Bare(tasks[t].row)
       THEN /\ tasks' = [tasks EXCEPT ![t] = NextId(t, tasks[t].m)]
            /\ owed' = owed \ {tasks[t].row.m}
       ELSE tasks' = [tasks EXCEPT ![t].at = "report"] /\ UNCHANGED owed
  /\ Mistaken(t)
  /\ UNCHANGED <<telegram, up, clean, faults>>

-----------------------------------------------------------------------------
(* _handle: the row of captured_messages and the notice to the owner, or     *)
(* neither (a bot's message, no subscription, the feature off, the chat      *)
(* ignored, the save failed).  Both are only ever written, so they are no    *)
(* state: a task at "report" is about to make the report of its row.         *)

Handle(t) ==
  /\ tasks[t].at = "report"
  /\ tasks' = [tasks EXCEPT ![t] = IF tasks[t].job = "edit" THEN Idle
                                     ELSE NextId(t, tasks[t].m)]
  /\ owed' = owed \ (IF tasks[t].job = "delete" THEN {tasks[t].row.m} ELSE {})
  /\ UNCHANGED <<telegram, cache, up, clean, mistaken, faults>>

-----------------------------------------------------------------------------

\* A handler dies at an await (the database is locked, say), with the ids it
\* had not come to.
Dies(t) ==
  /\ tasks[t] # Idle
  /\ faults < MaxFaults
  /\ faults' = faults + 1
  /\ clean' = clean \ Concerns(t)
  /\ owed' = owed \ (tasks[t].todo \cup {tasks[t].row.m})
  /\ tasks' = [tasks EXCEPT ![t] = Idle]
  /\ UNCHANGED <<telegram, cache, up, mistaken>>

\* A deploy, a crash, a reboot: the rows stay.
Stop ==
  /\ up /\ faults < MaxFaults
  /\ up' = FALSE /\ faults' = faults + 1
  /\ clean' = clean \ InHand
  /\ owed' = {}
  /\ tasks' = [t \in Tasks |-> Idle]
  /\ UNCHANGED <<telegram, cache, mistaken>>

Start ==
  /\ ~up
  /\ up' = TRUE
  /\ UNCHANGED <<telegram, cache, tasks, clean, owed, mistaken, faults>>

-----------------------------------------------------------------------------

Next ==
  \/ Stop \/ Start
  \/ \E t \in Tasks :
       \/ \E m \in Messages : Arrives(t, m) \/ Edited(t, m) \/ Find(t, m)
       \/ \E M \in SUBSET Messages : Deleted(t, M)
       \/ Capture(t) \/ Get(t) \/ Insert(t) \/ Evict(t)
       \/ Remove(t) \/ Handle(t) \/ Dies(t)

Spec == Init /\ [][Next]_vars

-----------------------------------------------------------------------------
(* Properties. *)

\* Between its updates, the row of a message holds its present text, and a
\* deleted message has none, unless its deletion took the row of another message
\* with its id: restarts, evictions, edits of evicted messages, and handlers of
\* other messages running beside its own, also on rows of the same id, do not make
\* it stale.  Set apart by `clean`: messages an update of which came while an
\* earlier one was being handled, died in its handler, or was missed.
RowIsExact ==
  \A m \in clean \ InHand : Cached(m) =>
    /\ RowOf(m).text = version[m]
    /\ m \in gone => m \in mistaken

\* An edited message keeps the media captured when it arrived, as long as its
\* row is neither evicted nor popped.  Set apart by `clean` as above: an edit
\* while the capture still downloads loses them (EditKeepsMedia).
MediaIsKept ==
  [][\A m \in clean, i \in DOMAIN cache, j \in DOMAIN cache' :
       cache[i].m = m /\ cache'[j].m = m /\ cache[i].media => cache'[j].media]_vars

\* A deleted message whose row was cached when the deletion came is reported, by
\* its own deletion's handler or by the one that took its row: no overlapping
\* handler, of the same message or of another, and no other id of the same
\* update, loses it.  The exceptions: its own deletion took the row of another
\* message with its id (pop_by_message_id: "collisions are possible"); the row was
\* evicted before a deletion read it; nothing was captured in the row as it was
\* read; the handler that had it to do, or held its row, died, or the worker
\* stopped.
DeletionIsReported == (\A t \in Tasks : tasks[t] = Idle) => owed \subseteq mistaken

\* What is reported as deleted was deleted, or has the id of a deleted private
\* message (pop_by_message_id: "collisions are possible"), with a text it had.
\* The previous text of an edit is the one right before it.
ReportsAreTrue ==
  \A t \in Tasks : tasks[t].at = "report" =>
    LET row == tasks[t].row IN
    /\ row.text <= version[row.m]
    /\ tasks[t].job = "delete" =>
         row.m \in gone \/ \E n \in gone \cap Direct : Id[n] = Id[row.m]
    /\ tasks[t].job = "edit" /\ row.m \in clean => tasks[t].text = row.text + 1

\* "An edit only ever changes the caption/text, never the media/location
\* itself, so [...] carry the already-cached values forward untouched"
\* (on_edited): MediaIsKept of every message.
EditKeepsMedia ==
  [][\A m \in Messages, i \in DOMAIN cache, j \in DOMAIN cache' :
       cache[i].m = m /\ cache'[j].m = m /\ cache[i].media => cache'[j].media]_vars

=============================================================================
