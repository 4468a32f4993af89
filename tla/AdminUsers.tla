----------------------------- MODULE AdminUsers -----------------------------
(***************************************************************************)
(* The commands on users and the whole of the admin service: CreateUser,   *)
(* DeleteUser and ChangePassword read the log, decide, and save one event  *)
(* under a consistency observation, while other calls run.  The id of a    *)
(* user created by call c is c.                                            *)
(***************************************************************************)
EXTENDS AdminSessions

CONSTANTS
    Admins       \* the callers with the role ADMIN

vars == <<backend, log, projectorVars, faults, pc, read, sessionVars>>

Kind(type) == <<"__eventType", type>>
Created(username) == {Kind("$UserCreated"), <<"username", username>>}
Of(type, u) == {Kind(type), <<"user_id", u>>}

Found(position) == position # NotExists
EventAt(position) == log[position[1]]
Latest(criterion) == LatestPosition({criterion}, LogRows)

\* A step of a call that leaves the tables and sessions alone.
Quiet == UNCHANGED <<backend, projectorVars, sessionVars>>

\* Read the latest event of a criterion into a field of the call.
Reads(c, field, criterion) == read' = [read EXCEPT ![c][field] = Latest(criterion)]

\* Save one event under an observation of a query: the call goes on to a label or
\* ends in a conflict; or an error is reported, whether or not it was stored.
Save(c, event, criteria, position, label) ==
    /\ UNCHANGED <<read, projectorVars, sessionVars, backend>>
    /\ \/ /\ Satisfied({[criteria |-> criteria, position |-> position]}, LogRows)
          /\ log' = Append(log, event)
          /\ \/ Goto(c, label) /\ UNCHANGED faults
             \/ faults < MaxFaults /\ faults' = faults + 1 /\ Goto(c, "error")
       \/ /\ ~Satisfied({[criteria |-> criteria, position |-> position]}, LogRows)
          /\ Goto(c, "conflict")
          /\ UNCHANGED <<log, faults>>

-----------------------------------------------------------------------------
(* CreateUser.                                                              *)

\* authorizeAdminRPC and validateCreateUserRequest.
Accepted(c) == Request[c].caller \in Admins /\ Request[c].complete

Refuse(c) ==
    /\ pc[c] = "idle"
    /\ \/ Request[c].op \in {"CreateUser", "DeleteUser"} /\ ~Accepted(c)
       \/ Request[c].op = "DeleteUser" /\ Request[c].caller = Request[c].user
       \/ Request[c].op = "ChangePassword" /\ ~Request[c].complete
       \/ Request[c].op = "ChangePassword" /\ Request[c].caller # Request[c].user
    /\ Goto(c, "denied")
    /\ UNCHANGED <<log, read, faults>> /\ Quiet

createUserCommandHandler(created, deleted) ==
    IF Found(created) /\ ~Found(deleted) THEN "exists" ELSE "save"

CreateUserRead(c) ==
    /\ At(c, "CreateUser", "idle") /\ Accepted(c)
    /\ Reads(c, "created", Created(Request[c].username))
    /\ Goto(c, IF Found(read'[c].created)
               THEN "readDeleted" ELSE createUserCommandHandler(read'[c].created, NotExists))
    /\ UNCHANGED <<log, faults>> /\ Quiet

\* The deletion is looked up by the tag userId, which no event carries.
DeletionOf(u) == {Kind("$UserDeleted"), <<"userId", u>>}

CreateUserReadDeleted(c) ==
    /\ At(c, "CreateUser", "readDeleted")
    /\ Reads(c, "deleted", DeletionOf(EventAt(read[c].created).user_id))
    /\ Goto(c, createUserCommandHandler(read[c].created, read'[c].deleted))
    /\ UNCHANGED <<log, faults>> /\ Quiet

CreateUserQuery(c) == {Created(Request[c].username), DeletionOf(c)}

CreateUserSave(c) ==
    /\ At(c, "CreateUser", "save")
    /\ Save(c, UserCreated(c, Request[c].username, HashPassword(Request[c].password)),
            CreateUserQuery(c), NotExists, "ok")

CreateUser(c) == CreateUserRead(c) \/ CreateUserReadDeleted(c) \/ CreateUserSave(c)

-----------------------------------------------------------------------------
(* ChangePassword.                                                          *)

Unread == <<>>

ChangePasswordRead(c) ==
    /\ At(c, "ChangePassword", "idle")
    /\ Request[c].complete /\ Request[c].caller = Request[c].user
    /\ Reads(c, "created", Of("$UserCreated", Request[c].user))
    /\ Goto(c, "reads")
    /\ UNCHANGED <<log, faults>> /\ Quiet

\* The deletion and the latest change are read concurrently.
ReadConcurrently(c, field, type) ==
    /\ At(c, "ChangePassword", "reads")
    /\ read[c][field] = Unread
    /\ Reads(c, field, Of(type, Request[c].user))
    /\ UNCHANGED <<log, pc, faults>> /\ Quiet

Exists(c) == Found(read[c].created) /\ ~Found(read[c].deleted)

PasswordHash(c) == EventAt(IF Found(read[c].changed) THEN read[c].changed ELSE read[c].created).hash

\* Fault: the position is read again when the event is saved.
ReadAgain(c) == Latest(Of("$UserPasswordChanged", Request[c].user))

\* The position of the change read, and without one that of the creation.
ObservedPosition(c) == IF Found(read[c].changed) THEN read[c].changed ELSE read[c].created

ChangePasswordSave(c) ==
    /\ At(c, "ChangePassword", "reads")
    /\ read[c].deleted # Unread /\ read[c].changed # Unread
    /\ \/ /\ ~Exists(c)
          /\ Goto(c, "notFound")
          /\ UNCHANGED <<log, read, faults>> /\ Quiet
       \/ /\ Exists(c)
          /\ ~ComparePassword(PasswordHash(c), Request[c].password)
          /\ Goto(c, "invalid")
          /\ UNCHANGED <<log, read, faults>> /\ Quiet
       \/ /\ Exists(c)
          /\ ComparePassword(PasswordHash(c), Request[c].password)
          /\ Save(c, UserPasswordChanged(Request[c].user, HashPassword(Request[c].new)),
                  {Of("$UserPasswordChanged", Request[c].user)}, ObservedPosition(c), "revoke")

ChangePassword(c) ==
    \/ ChangePasswordRead(c)
    \/ ReadConcurrently(c, "deleted", "$UserDeleted")
    \/ ReadConcurrently(c, "changed", "$UserPasswordChanged")
    \/ ChangePasswordSave(c)

-----------------------------------------------------------------------------
(* DeleteUser.                                                              *)

\* getUserByID of the service: the row of the users table.
DeleteUserLookup(c) ==
    /\ At(c, "DeleteUser", "idle")
    /\ Accepted(c) /\ Request[c].caller # Request[c].user
    /\ Goto(c, IF GetUserById(Request[c].user) = {} THEN "notFound" ELSE "check")
    /\ UNCHANGED <<log, read, faults>> /\ Quiet

\* isUserDeleted asks for the type UserDeleted, which no event has.
isUserDeleted(c) == Found(Latest(Of("UserDeleted", Request[c].user)))

DeleteUserCheck(c) ==
    /\ At(c, "DeleteUser", "check")
    /\ Goto(c, IF isUserDeleted(c) THEN "deleted" ELSE "read")
    /\ UNCHANGED <<log, read, faults>> /\ Quiet

DeleteUserQuery(c) == {Of("$UserCreated", Request[c].user), Of("$UserDeleted", Request[c].user)}

DeleteUserRead(c) ==
    /\ At(c, "DeleteUser", "read")
    /\ read' = [read EXCEPT ![c].deleted = Latest(Of("$UserDeleted", Request[c].user)),
                            ![c].created = Latest(Of("$UserCreated", Request[c].user))]
    /\ Goto(c, CASE Found(read'[c].deleted) -> "deleted"
                 [] Found(read'[c].created) -> "save"
                 [] OTHER -> "notFound")
    /\ UNCHANGED <<log, faults>> /\ Quiet

DeleteUserSave(c) ==
    /\ At(c, "DeleteUser", "save")
    /\ Save(c, UserDeleted(Request[c].user), DeleteUserQuery(c), read[c].created, "revoke")

DeleteUserCall(c) ==
    DeleteUserLookup(c) \/ DeleteUserCheck(c) \/ DeleteUserRead(c) \/ DeleteUserSave(c)

\* After a change or a deletion the service revokes the sessions of the user.
Revoke(c) ==
    /\ pc[c] = "revoke"
    /\ sessions' = RevokeUserSessions(sessions, Request[c].user)
    /\ Goto(c, "ok")
    /\ UNCHANGED <<backend, log, projectorVars, faults, read, authCursor>>

-----------------------------------------------------------------------------
(* The service.                                                             *)

NothingRead == [created |-> Unread, deleted |-> Unread, changed |-> Unread]

CallsInit ==
    /\ pc = [c \in Calls |-> "idle"]
    /\ read = [c \in Calls |-> NothingRead]

\* A read or a save of a call fails without effect.
CallFails(c) ==
    /\ faults < MaxFaults /\ faults' = faults + 1
    /\ pc[c] \notin Answers \cup {"off", "idle", "revoke"}
    /\ Goto(c, "error")
    /\ UNCHANGED <<log, read>> /\ Quiet

\* The process dies with its calls, its caches and its sessions, and starts again.
Crash ==
    /\ faults < MaxFaults /\ faults' = faults + 1
    /\ ProjectorsCrash
    /\ pc' = [c \in Calls |-> IF pc[c] \in Answers \cup {"off", "idle"} THEN pc[c] ELSE "error"]
    /\ sessions' = <<>>
    /\ authCursor' = 0
    /\ UNCHANGED <<backend, log, read>>

Call(c) ==
    \/ Refuse(c) \/ CreateUser(c) \/ ChangePassword(c) \/ DeleteUserCall(c) \/ Revoke(c)
    \/ Login(c) \/ CallFails(c)

Projections ==
    /\ StartUserProjector \/ StartUserCountProjector \/ StartBoundary
    /\ UNCHANGED <<backend, log, pc, read, sessionVars>>

Next ==
    \/ \E c \in Calls : Call(c)
    \/ Projections
    \/ ValidateToken \/ Expire \/ StartAuthUserProjector
    \/ Crash

\* The retry loops of the projectors and the backoff of Start go on for ever.
Fairness ==
    \A k \in Projectors :
        WF_vars(Progress(k) /\ UNCHANGED <<backend, log, pc, read, sessionVars>>)

-----------------------------------------------------------------------------
(* Properties                                                               *)

Indices(type) == {i \in DOMAIN log : log[i].type = type}

Deleted(u) == \E i \in Indices("$UserDeleted") : log[i].user_id = u

UserIsLive(u) == ~Deleted(u) /\ \E i \in Indices("$UserCreated") : log[i].user_id = u

NameTaken(username) ==
    \E i \in Indices("$UserCreated") : log[i].username = username /\ ~Deleted(log[i].user_id)

\* The events that set the password of a user; the last one is in force.
Passwords(u) ==
    {i \in Indices("$UserCreated") \cup Indices("$UserPasswordChanged") : log[i].user_id = u}

HasPassword(u, password) ==
    \E i \in Passwords(u) :
        (\A j \in Passwords(u) : j <= i) /\ ComparePassword(log[i].hash, password)

\* What a command decided on is still so when its event is stored, however the
\* reads and saves of concurrent calls interleave, fail or are cut short: the
\* username has no live user, the user to delete is live, and the current
\* password that was compared is the one in force.  That the user whose password
\* changes is still live is not among it: a deletion and a password change do not
\* exclude each other (ChangeAfterDeletion).  (The observations that CreateUser,
\* DeleteUser and ChangePassword save under.)
DecisionsHoldWhenStored ==
    [][\A c \in Calls :
         pc'[c] # pc[c] /\ Len(log') > Len(log) =>
           CASE Request[c].op = "CreateUser" -> ~NameTaken(Request[c].username)
             [] Request[c].op = "DeleteUser" -> UserIsLive(Request[c].user)
             [] OTHER -> HasPassword(Request[c].user, Request[c].password)]_vars

\* A change that the save refuses as a conflict had a reason: another change of
\* the same password was stored since it was read (ChangePassword).
ConflictMeansOverlap ==
    \A c \in Calls :
        Request[c].op = "ChangePassword" /\ pc[c] = "conflict"
            => Latest(Of("$UserPasswordChanged", Request[c].user)) # read[c].changed

\* A password change stored after the deletion of its user.
ChangeAfterDeletion(j) ==
    /\ j \in Indices("$UserPasswordChanged")
    /\ \E i \in Indices("$UserDeleted") : i < j /\ log[i].user_id = log[j].user_id

\* The projectors catch up with the log through failures and crashes, and one
\* event only stops one of them: the users projector stays for ever before a
\* password change of a user who is deleted by then, which its handler rejects
\* and no retry gets past (UserProjector.Start, handleEvent).
ProjectorsCatchUp ==
    <>[](\A k \in Projectors :
            \/ phase[k] = "off"
            \/ cursor[k] = Len(log)
            \/ k = "users" /\ ChangeAfterDeletion(cursor[k] + 1))
=============================================================================
