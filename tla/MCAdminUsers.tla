---------------------------- MODULE MCAdminUsers ----------------------------
(* Instances of AdminUsers for TLC: scenarios of a few calls each. *)
EXTENDS AdminUsers

CONSTANTS seed, root, create1, create2, create3, delete1, delete2, delete3, change1, change2,
          change3, change4, login1, login2, login3

MCCalls == {create1, create2, create3, delete1, delete2, delete3, change1, change2, change3,
            change4, login1, login2, login3}

Ask(op, caller, complete, user, username, password, new) ==
    [op |-> op, caller |-> caller, complete |-> complete, user |-> user, username |-> username,
     password |-> password, new |-> new]

MCRequest == [c \in MCCalls |->
    CASE c \in {create1, create2} -> Ask("CreateUser", root, TRUE, c, "ann", "pw1", "pw1")
      [] c = create3 -> Ask("CreateUser", seed, TRUE, c, "bob", "pw1", "pw1")
      [] c \in {delete1, delete2} -> Ask("DeleteUser", root, TRUE, seed, "", "", "")
      [] c = delete3 -> Ask("DeleteUser", root, TRUE, root, "", "", "")
      [] c = change1 -> Ask("ChangePassword", seed, TRUE, seed, "", "pw2", "pw3")
      [] c = change2 -> Ask("ChangePassword", seed, TRUE, seed, "", "pw2", "pw1")
      [] c = change3 -> Ask("ChangePassword", root, TRUE, seed, "", "pw2", "pw1")
      [] c = change4 -> Ask("ChangePassword", seed, FALSE, seed, "", "pw2", "pw1")
      [] c \in {login1, login2} -> Ask("Login", seed, TRUE, seed, "adm", "pw2", "")
      [] c = login3 -> Ask("Login", seed, TRUE, seed, "adm", "pw1", "")]

MCAdmins == {root}

\* A log whose only user never changed the password, and one where they did under
\* an earlier release.
Fresh == <<UserCreated(seed, "adm", HashPassword("pw2"))>>
Changed == <<UserCreated(seed, "adm", HashPassword("pw1")),
             UserPasswordChanged(seed, HashPassword("pw2"))>>

Scenario(events, projected, calls, running) ==
    /\ log = events
    /\ ProjectionsInit(projected)
    /\ SessionsInit
    /\ pc = [c \in Calls |-> IF c \in calls THEN "idle" ELSE "off"]
    /\ read = [c \in Calls |-> NothingRead]
    /\ phase = [k \in Projectors \cup {"auth"} |-> IF k \in running THEN "load" ELSE "off"]

\* Concurrent commands of each kind, refused requests, the counts, and logins.
MCInit ==
    \/ /\ backend = "postgres"
       /\ \/ Scenario(Fresh, 1, {create1, create2, delete1}, {"users"})
          \/ Scenario(Fresh, 1, {delete1, delete2}, {"users"})
          \/ Scenario(Changed, 2, {change1, change2, delete1}, {"users"})
          \/ Scenario(Fresh, 1, {create3, delete3, change3, change4}, {})
    \/ /\ backend \in {"postgres", "sqlite"}
       /\ \/ Scenario(Fresh, 0, {create1, delete1}, {"users", "userCount"})
          \/ Scenario(Fresh, 0, {create1, login3}, {"users", "eventCount"})
          \/ Scenario(Changed, 2, {login1, login2, change1}, {"users", "auth"})

MCSpec == MCInit /\ [][Next]_vars /\ Fairness

\* A first change of a password, on its own.
FirstChangeInit == backend = "postgres" /\ Scenario(Fresh, 1, {change1, login1}, {"users"})
FirstChangeSpec == FirstChangeInit /\ [][Next]_vars

\* A new user is counted, on its own.
CountInit == backend = "postgres" /\ Scenario(Fresh, 1, {create1}, {"userCount"})
CountSpec == CountInit /\ [][Next]_vars
=============================================================================
