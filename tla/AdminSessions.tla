---------------------------- MODULE AdminSessions ----------------------------
(***************************************************************************)
(* Authentication of one process: logins that look a user up in the cache  *)
(* or the users table and issue a token, the token cache with its limit    *)
(* per user and its sliding expiry, and the projector that revokes the     *)
(* sessions of a user whose password changed or who was deleted.           *)
(*                                                                         *)
(* Every session has the same time to live, counted from its last use, so  *)
(* the sequence of sessions in the order of last use is also the order of  *)
(* expiry.                                                                 *)
(***************************************************************************)
EXTENDS UserProjections

CONSTANTS
    Calls,        \* the RPCs that may be made
    Request,      \* Request[c]: the operation of a call and its arguments
    MaxSessions   \* maxSessionsPerUser

VARIABLES
    pc,           \* where each call is, or its answer
    read,         \* what each call has read
    sessions,     \* tokenCache: records of a token, its user, and if it is live
    authCursor    \* the events the auth projector has handled

sessionVars == <<sessions, authCursor>>

Answers == {"ok", "exists", "notFound", "deleted", "invalid", "denied", "conflict", "error"}

Goto(c, label) == pc' = [pc EXCEPT ![c] = label]

At(c, op, label) == Request[c].op = op /\ pc[c] = label

SessionsInit ==
    /\ sessions = <<>>
    /\ authCursor = 0

-----------------------------------------------------------------------------
(* The token cache.                                                         *)

\* deleteExpiredSessionsLocked.
Live(s) == SelectSeq(s, LAMBDA x : x.live)

Without(s, gone) ==
    LET from[i \in 0 .. Len(s)] ==
            IF i = 0 THEN <<>> ELSE from[i - 1] \o (IF i \in gone THEN <<>> ELSE <<s[i]>>)
    IN from[Len(s)]

\* Fault: a user may keep one session more than the limit.
LimitOffByOne(s, u) ==
    LET mine == {i \in DOMAIN s : s[i].user = u}
        excess == Cardinality(mine) - MaxSessions
    IN Without(s, {i \in mine : Cardinality({j \in mine : j <= i}) <= excess})

\* Evict the sessions closest to expiry until there is room for another.
enforceUserSessionLimitLocked(s, u) ==
    LET mine == {i \in DOMAIN s : s[i].user = u}
        excess == Cardinality(mine) - (MaxSessions - 1)
    IN Without(s, {i \in mine : Cardinality({j \in mine : j <= i}) <= excess})

RevokeUserSessions(s, u) == SelectSeq(s, LAMBDA x : x.user # u)

\* A request with a token: a live session is used and its expiry moves on, an
\* expired one is dropped.
ValidateToken ==
    \E i \in DOMAIN sessions :
        /\ sessions' = Without(sessions, {i})
                           \o (IF sessions[i].live THEN <<sessions[i]>> ELSE <<>>)
        /\ UNCHANGED <<backend, log, projectorVars, faults, pc, read, authCursor>>

\* The time to live of the session used least recently runs out.
Expire ==
    \E i \in DOMAIN sessions :
        /\ sessions[i].live
        /\ \A j \in 1 .. i - 1 : ~sessions[j].live
        /\ sessions' = [sessions EXCEPT ![i].live = FALSE]
        /\ UNCHANGED <<backend, log, projectorVars, faults, pc, read, authCursor>>

-----------------------------------------------------------------------------
(* ValidateCredentials, of a request with a username and a password.        *)

Named(users, c) == {x \in users : x.username = Request[c].username}

\* GetUserByUsername: the cache, and behind it the table.
GetUserByUsername(c) ==
    /\ At(c, "Login", "idle")
    /\ IF Named(cache, c) # {}
       THEN /\ \E user \in Named(cache, c) : read' = [read EXCEPT ![c] = user]
            /\ Goto(c, "compare")
       ELSE \/ /\ \E user \in Named(table, c) : read' = [read EXCEPT ![c] = user]
               /\ Goto(c, "fill")
            \/ /\ Named(table, c) = {}
               /\ Goto(c, "invalid")
               /\ UNCHANGED read
    /\ UNCHANGED <<backend, log, projectorVars, faults, sessionVars>>

\* The user read from the table is put into the cache.
FillCache(c) ==
    /\ At(c, "Login", "fill")
    /\ cache' = (cache \ Named(cache, c)) \cup {read[c]}
    /\ Goto(c, "compare")
    /\ UNCHANGED <<backend, log, table, userCount, eventCount, checkpoint, cursor, phase,
                   faults, read, sessionVars>>

\* Compare the password, then under the lock drop expired sessions, make room and
\* add the new one.
ValidateCredentials(c) ==
    /\ At(c, "Login", "compare")
    /\ IF ComparePassword(read[c].hash, Request[c].password)
       THEN /\ sessions' = Append(enforceUserSessionLimitLocked(Live(sessions), read[c].id),
                                  [token |-> c, user |-> read[c].id, live |-> TRUE])
            /\ Goto(c, "ok")
       ELSE Goto(c, "invalid") /\ UNCHANGED sessions
    /\ UNCHANGED <<backend, log, projectorVars, faults, read, authCursor>>

Login(c) == GetUserByUsername(c) \/ FillCache(c) \/ ValidateCredentials(c)

-----------------------------------------------------------------------------
(* AuthUserProjector.                                                       *)

Revoking == {"$UserDeleted", "$UserPasswordChanged"}

handleAuthEvent(e) ==
    sessions' = IF e.type \in Revoking THEN RevokeUserSessions(sessions, e.user_id) ELSE sessions

AuthUserProjectorStart ==
    /\ phase["auth"] # "off"
    /\ authCursor < Len(log)
    /\ handleAuthEvent(log[authCursor + 1])
    /\ authCursor' = authCursor + 1
    /\ UNCHANGED <<backend, log, projectorVars, faults, pc, read>>

\* A subscription that ended starts again at the beginning of the log, for there
\* is no checkpoint.
AuthResubscribe ==
    /\ faults < MaxFaults /\ faults' = faults + 1
    /\ phase["auth"] # "off"
    /\ authCursor' = 0
    /\ UNCHANGED <<backend, log, projectorVars, pc, read, sessions>>

StartAuthUserProjector == AuthUserProjectorStart \/ AuthResubscribe

-----------------------------------------------------------------------------
(* Properties                                                               *)

\* However logins, uses of tokens, expiry and revocation interleave, a user has
\* at most the configured number of sessions that can still be used, and one
\* token is one session (enforceUserSessionLimitLocked).
SessionsAreBounded ==
    /\ \A u \in {sessions[i].user : i \in DOMAIN sessions} :
           Cardinality({i \in DOMAIN sessions : sessions[i].user = u}) <= MaxSessions
    /\ \A i, j \in DOMAIN sessions : sessions[i].token = sessions[j].token => i = j
=============================================================================
