--------------------------- MODULE UserProjections ---------------------------
(***************************************************************************)
(* The read models of the admin boundary: the users table with the cache   *)
(* of each backend's admin database, and the counts of the dashboard.  A   *)
(* projector loads its checkpoint, subscribes after it, and for each event *)
(* handles it and moves the checkpoint; after a failure of either it waits *)
(* and does both again.  One process projects onto the tables.             *)
(*                                                                         *)
(* Events carry a document of tags, as the log's other events do; a hash   *)
(* is the record of the password it was made from.                         *)
(***************************************************************************)
EXTENDS Consistency, Sequences, FiniteSets

CONSTANTS
    Width,       \* 2^32: counts of users are unsigned integers of this width
    MaxFaults    \* bound on failures and crashes

VARIABLES
    backend,     \* "postgres" or "sqlite"
    log,         \* the events of the admin boundary
    table,       \* the rows of the users table
    cache,       \* userCache: the users it holds, by username
    userCount,   \* the row of users_count
    eventCount,  \* the row of events_count, or NoRow
    checkpoint,  \* the row of projector_checkpoint of each projector
    cursor,      \* the position of each projector's subscription
    phase,       \* each projector: "off", "load", "idle" or "handled"
    faults

tableVars     == <<table, cache, userCount, eventCount, checkpoint>>
projectorVars == <<tableVars, cursor, phase>>

Projectors == {"users", "userCount", "eventCount"}

HashPassword(password) == [hashOf |-> password]
ComparePassword(hash, password) == hash = HashPassword(password)

UserCreated(u, username, hash) ==
    [type |-> "$UserCreated", user_id |-> u, username |-> username, hash |-> hash]
UserDeleted(u) == [type |-> "$UserDeleted", user_id |-> u]
UserPasswordChanged(u, hash) == [type |-> "$UserPasswordChanged", user_id |-> u, hash |-> hash]

\* The tags of a stored event: its type and the fields of its data.
Document(e) ==
    {<<"__eventType", e.type>>} \cup {<<f, e[f]>> : f \in DOMAIN e \cap {"user_id", "username"}}

LogRows == {[pos |-> <<i, i>>, doc |-> Document(log[i])] : i \in DOMAIN log}

User(e) == [id |-> e.user_id, username |-> e.username, hash |-> e.hash]

-----------------------------------------------------------------------------
(* The admin database.                                                      *)

Upserted(rows, user) == {x \in rows : x.id # user.id} \cup {user}

\* PostgreSQL replaces the entry of the username, SQLite the whole cache.
CacheUpserted(user) ==
    (IF backend = "sqlite" THEN {} ELSE {x \in cache : x.username # user.username}) \cup {user}

\* The cache follows when the statement is answered.
UpsertUser(user, ok) ==
    /\ table' = Upserted(table, user)
    /\ cache' = IF ok THEN CacheUpserted(user) ELSE cache

\* PostgreSQL keeps the entry of a user it deletes.
CacheDeleted == IF backend = "sqlite" THEN {} ELSE cache

DeleteUser(u, ok) ==
    /\ table' = {x \in table : x.id # u}
    /\ cache' = IF ok THEN CacheDeleted ELSE cache

GetUserById(u) == {x \in table : x.id = u}

GetProjectorLastPosition(k) == checkpoint[k]

\* What a read of the count may answer.  PostgreSQL does not ask whether the rows
\* ended in an error, and answers zero; an error that is reported is no answer.
GetUsersCount(outcome) ==
    CASE outcome # "unread" -> {userCount}
      [] outcome = "unread" /\ backend = "postgres" -> {0}
      [] OTHER -> {}

\* An unsigned integer.
SaveUsersCount(count) == userCount' = count % Width

NoRow == -1

\* Without a row PostgreSQL answers zero, SQLite the events of the boundary.
NoEventsCount == IF backend = "sqlite" THEN Len(log) ELSE 0

\* When the row cannot be read both backends count the events, and PostgreSQL
\* answers zero if it is the rows that end in an error.
GetEventsCount(outcome) ==
    CASE outcome # "unread" -> {IF eventCount = NoRow THEN NoEventsCount ELSE eventCount}
      [] outcome = "unread" /\ backend = "postgres" -> {0, Len(log)}
      [] OTHER -> {Len(log)}

SaveEventCount(count) == eventCount' = count

-----------------------------------------------------------------------------
(* handleEvent and Project.                                                 *)

ChangeHash(e, ok) ==
    \E user \in GetUserById(e.user_id) : UpsertUser([user EXCEPT !.hash = e.hash], ok)

\* Fault: a deletion leaves the row.
KeepsDeleted(e, ok) ==
    CASE e.type = "$UserCreated" -> UpsertUser(User(e), ok)
      [] e.type = "$UserDeleted" -> UNCHANGED <<table, cache>>
      [] OTHER -> ChangeHash(e, ok)

\* Fault: the deletion of a row that is gone is an error.
FailsOnMissing(e, ok) ==
    CASE e.type = "$UserCreated" -> UpsertUser(User(e), ok)
      [] e.type = "$UserDeleted" -> GetUserById(e.user_id) # {} /\ DeleteUser(e.user_id, ok)
      [] OTHER -> ChangeHash(e, ok)

\* The users projector.  A password change of a user who is not in the table is
\* an error, so the projector stays at that event.
handleEvent(e, ok) ==
    CASE e.type = "$UserCreated" -> UpsertUser(User(e), ok)
      [] e.type = "$UserDeleted" -> DeleteUser(e.user_id, ok)
      [] OTHER -> ChangeHash(e, ok)

\* Fault: deletions are not counted.
CreationsOnly(e) == IF e.type = "$UserCreated" THEN 1 ELSE 0

\* What an event adds to the count of users.
UserCountDelta(e) ==
    CASE e.type = "$UserCreated" -> 1 [] e.type = "$UserDeleted" -> -1 [] OTHER -> 0

\* Read the count and write it back changed; that the write fails is not noticed.
ProjectUserCount(e, outcome) ==
    \E count \in GetUsersCount(outcome) :
        IF UserCountDelta(e) = 0 \/ outcome = "unsaved"
        THEN UNCHANGED userCount
        ELSE SaveUsersCount(count + UserCountDelta(e))

ProjectEventCount(outcome) ==
    \E count \in GetEventsCount(outcome) :
        IF outcome = "unsaved" THEN UNCHANGED eventCount ELSE SaveEventCount(count + 1)

\* outcome is "ok", "unread" when a count could not be read, or "unsaved" when a
\* statement that writes is not answered.
Handled(k, e, outcome) ==
    CASE k = "users" -> /\ outcome # "unread"
                        /\ handleEvent(e, outcome = "ok")
                        /\ UNCHANGED <<userCount, eventCount>>
      [] k = "userCount" -> /\ ProjectUserCount(e, outcome)
                            /\ UNCHANGED <<table, cache, eventCount>>
      [] k = "eventCount" -> /\ ProjectEventCount(outcome)
                             /\ UNCHANGED <<table, cache, userCount>>

-----------------------------------------------------------------------------
(* Start.                                                                   *)

\* getProjectorLastPosition; without a row the subscription starts at the beginning.
Load(k) ==
    /\ phase[k] = "load"
    /\ cursor' = [cursor EXCEPT ![k] = GetProjectorLastPosition(k)]
    /\ phase' = [phase EXCEPT ![k] = "idle"]
    /\ UNCHANGED <<tableVars, faults>>

Delivered(k) == log[cursor[k] + 1]

\* The subscription delivers the next event, and it is handled.
Handle(k) ==
    /\ phase[k] = "idle"
    /\ cursor[k] < Len(log)
    /\ Handled(k, Delivered(k), "ok")
    /\ phase' = [phase EXCEPT ![k] = "handled"]
    /\ UNCHANGED <<checkpoint, cursor, faults>>

\* The users projector's statement takes effect and its answer is lost, so the
\* event is handled again; a failed read of a count passes for a count, or its
\* write fails and is ignored.  (What reports an error is tried again unchanged.)
HandleFails(k) ==
    /\ faults < MaxFaults /\ faults' = faults + 1
    /\ phase[k] = "idle"
    /\ cursor[k] < Len(log)
    /\ \E outcome \in {"unread", "unsaved"} : Handled(k, Delivered(k), outcome)
    /\ phase' = [phase EXCEPT ![k] = IF k = "users" THEN "idle" ELSE "handled"]
    /\ UNCHANGED <<checkpoint, cursor>>

\* The position the checkpoint is moved to.
CheckpointAfter(k) == cursor[k] + 1

UpdateProjectorPosition(k) ==
    /\ phase[k] = "handled"
    /\ checkpoint' = [checkpoint EXCEPT ![k] = CheckpointAfter(k)]
    /\ cursor' = [cursor EXCEPT ![k] = @ + 1]
    /\ phase' = [phase EXCEPT ![k] = "idle"]
    /\ UNCHANGED <<table, cache, userCount, eventCount, faults>>

\* The update of the checkpoint fails, with or without effect: the same event is
\* handled again.
UpdateFails(k) ==
    /\ faults < MaxFaults /\ faults' = faults + 1
    /\ phase[k] = "handled"
    /\ checkpoint' \in {checkpoint, [checkpoint EXCEPT ![k] = CheckpointAfter(k)]}
    /\ phase' = [phase EXCEPT ![k] = "idle"]
    /\ UNCHANGED <<table, cache, userCount, eventCount, cursor>>

\* The subscription ends with an error; Start is called again after a backoff.
Resubscribe(k) ==
    /\ faults < MaxFaults /\ faults' = faults + 1
    /\ phase[k] = "idle"
    /\ phase' = [phase EXCEPT ![k] = "load"]
    /\ UNCHANGED <<tableVars, cursor>>

Progress(k) == Load(k) \/ Handle(k) \/ UpdateProjectorPosition(k)
Failing(k) == HandleFails(k) \/ UpdateFails(k) \/ Resubscribe(k)

UserProjectorStart == Progress("users")
UserCountStart == Progress("userCount")
EventCountStart == Progress("eventCount")

StartUserProjector == UserProjectorStart \/ Failing("users")
StartUserCountProjector == UserCountStart \/ Failing("userCount")
StartBoundary == EventCountStart \/ Failing("eventCount")

\* The memory of the process is lost, and it starts again: after a crash, or after
\* the fatal error of concurrent uses of the unguarded map that is PostgreSQL's cache.
ProjectorsCrash ==
    /\ cache' = {}
    /\ phase' = [k \in DOMAIN phase |-> IF phase[k] = "off" THEN "off" ELSE "load"]
    /\ cursor' = [k \in Projectors |-> 0]
    /\ UNCHANGED <<table, userCount, eventCount, checkpoint>>

-----------------------------------------------------------------------------
(* Properties                                                               *)

\* What the users table holds after the first n events, for as many as it can.
Replayed(t, e) ==
    CASE e.type = "$UserCreated" -> Upserted(t, User(e))
      [] e.type = "$UserDeleted" -> {x \in t : x.id # e.user_id}
      [] OTHER -> {IF x.id = e.user_id THEN [x EXCEPT !.hash = e.hash] ELSE x : x \in t}

Replay(n) ==
    LET after[i \in 0 .. Len(log)] == IF i = 0 THEN {} ELSE Replayed(after[i - 1], log[i])
    IN after[n]

\* The events whose effect a projector has recorded.
Projected(k) ==
    CASE phase[k] = "handled" -> cursor[k] + 1
      [] phase[k] = "idle" -> cursor[k]
      [] OTHER -> checkpoint[k]

Users(n) ==
    LET Of(type) == Cardinality({i \in 1 .. n : log[i].type = type})
    IN Of("$UserCreated") - Of("$UserDeleted")

\* Every projector has projected the first n events of the log.
ProjectionsInit(n) ==
    /\ table = Replay(n)
    /\ cache = {}
    /\ userCount = Users(n)
    /\ eventCount = IF n = 0 THEN NoRow ELSE n
    /\ checkpoint = [k \in Projectors |-> n]
    /\ cursor = [k \in Projectors |-> 0]
    /\ faults = 0

\* However often an event is handled again, after a lost answer, a failed
\* checkpoint or a crash between the two, the users table is what the log up to
\* the projector's place says, or one event further (UserProjector.Start).
TableFollowsLog ==
    \E n \in {Projected("users"), Projected("users") + 1} \cap 0 .. Len(log) : table = Replay(n)

\* How far the counts are from the events their projectors have recorded.
UserDrift == (userCount - Users(Projected("userCount"))) % Width
EventDrift == (IF eventCount = NoRow THEN 0 ELSE eventCount) - Projected("eventCount")

\* The counts are not idempotent, and one failure can make them wrong by any
\* amount.  But it takes a failure or a crash: however handling, checkpoints,
\* restarts and saves interleave, no other step moves a count away from its
\* events, except that on SQLite the first event count starts from the events
\* already stored, the one being counted among them
\* (UserCountEventHandler.Project, EventCountEventHandler.Project).
OnlyFailuresMoveCounts ==
    [][faults' = faults =>
         /\ UserDrift' = UserDrift
         /\ EventDrift' = EventDrift \/ (backend = "sqlite" /\ eventCount = NoRow)
      ]_<<tableVars, cursor, phase, log, faults>>

\* The count of users only lags: a projector that has caught up with the log has
\* counted the users that are in it (GetUserCount).
CountsOnlyLag ==
    phase["userCount"] = "idle" /\ cursor["userCount"] = Len(log)
        => userCount = Users(Len(log)) % Width
=============================================================================
