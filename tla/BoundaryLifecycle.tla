-------------------------- MODULE BoundaryLifecycle --------------------------
(***************************************************************************)
(* The life of a boundary.  A command records its definition in the admin  *)
(* boundary's log; the server that holds the provisioning lease creates    *)
(* its storage and records the outcome; every server follows the recorded  *)
(* activations, installs the boundary and only then opens its gate.        *)
(*                                                                         *)
(* admin/slices: create_boundary, boundary_catalog, boundary_provisioning; *)
(* the assemblies server/ and embedded/; the activation gate of            *)
(* orisun/eventstore.go; the provisioners of both backends.                *)
(*                                                                         *)
(* A position is an index of log, 0 is "not exists".  Appends go through   *)
(* the consistency check that EventLog specifies.  A handler's first read  *)
(* is part of the step that delivers the event to it: the delivery might   *)
(* as well have been later.                                                *)
(***************************************************************************)
EXTENDS Integers, Sequences, FiniteSets

CONSTANTS
    Servers,
    Embedded,       \* the servers that are embedded stores
    Boundaries,
    Admin,          \* the admin boundary, one of Boundaries
    Commands,       \* CreateBoundary calls
    Target,         \* the boundary a call names
    Histories,      \* the logs that earlier releases and runs left
    MaxFaults       \* failed operations, lost leases, crashes and shutdowns

ASSUME BoundaryAssumption ==
    /\ Embedded \subseteq Servers
    /\ Admin \in Boundaries
    /\ Target \in [Commands -> Boundaries]
    /\ MaxFaults \in Nat

VARIABLES
    log,            \* the lifecycle events of the admin boundary
    storage,        \* the boundaries whose physical storage exists
    command,        \* what became of each CreateBoundary call
    main,           \* how far the start of each server is
    leader,         \* who holds the provisioning lease, if anyone
    cursor,         \* per subscriber and server: the position handled
    delivering,     \* the event its subscription is handling, 0 if none
    stage,          \* per subscriber, server and boundary: the handler
    seen,           \* the context position a provisioning handler loaded
    registry,       \* per server: the boundaries its backend can reach
    provisioned,    \* the boundaries it installed
    projectors,     \* the boundaries whose events it counts
    gate,           \* the boundaries it accepts requests for
    faults

vars == <<log, storage, command, main, leader, cursor, delivering, stage, seen,
          registry, provisioned, projectors, gate, faults>>
handling == <<cursor, delivering, stage>>
local == <<registry, provisioned, projectors, gate>>

Kinds == {"definition", "activation"}
LifecycleTypes == {"Created", "Activated", "Failed"}
NoOne == "nobody"

-----------------------------------------------------------------------------
(* The catalog: what a log says of a boundary. *)

Undefined == [status |-> "NONE", definition |-> 0]

define(view, i) ==
    IF view.status = "NONE" THEN [status |-> "PROVISIONING", definition |-> i]
    ELSE [view EXCEPT !.status = "ERROR"]

FailedApplied(view) ==
    IF view.status \in {"NONE", "ACTIVE"} THEN view
    ELSE [view EXCEPT !.status = "FAILED"]

Apply(view, i) ==
    CASE log[i].type = "Created" -> define(view, i)
      [] log[i].type = "Activated" ->
            IF view.status = "NONE" THEN view ELSE [view EXCEPT !.status = "ACTIVE"]
      [] log[i].type = "Failed" -> FailedApplied(view)

\* The view after the events at the given positions, in order.
Replayed(positions) ==
    LET view[n \in 0..Len(log)] ==
          IF n = 0 THEN Undefined
          ELSE IF n \in positions THEN Apply(view[n - 1], n) ELSE view[n - 1]
    IN view[Len(log)]

\* GetBoundary: every event of the boundary, in order.
replayCatalog(b) == Replayed({i \in DOMAIN log : log[i].boundary = b})

Latest(b, types) ==
    LET found == {i \in DOMAIN log : log[i].boundary = b /\ log[i].type \in types}
    IN IF found = {} THEN 0 ELSE CHOOSE i \in found : \A j \in found : j <= i

\* Fault: the positions are compared the wrong way round.
OlderOutcome(b, i) == i < Latest(b, {"Created"})
CurrentOutcome(b, i) == i > Latest(b, {"Created"})

\* The context of the provisioning command: the latest event of each type.
loadContext(b) ==
    LET outcomes == {Latest(b, {t}) : t \in {"Activated", "Failed"}}
    IN Replayed({Latest(b, {"Created"})} \cup {i \in outcomes : CurrentOutcome(b, i)})

\* Fault: a failure is appended whatever happened since the definition.
DefinitionContext(b, type) ==
    Latest(b, IF type = "Failed" THEN {"Created"} ELSE LifecycleTypes)
OutcomeContext(b, type) == Latest(b, LifecycleTypes)

Event(type, b) == [type |-> type, boundary |-> b]

-----------------------------------------------------------------------------
(* CreateBoundary, from a caller or at the start of a server. *)

\* The API of a server is reachable once it serves.
Callable == \E s \in Servers : main[s] = "serving"

\* Fault: the definition is appended without the observation.
Unchecked(b) == TRUE
NotDefined(b) == Latest(b, {"Created"}) = 0

CreateBoundary(c) ==
    /\ command[c] = "idle"
    /\ Callable
    /\ command' = [command EXCEPT ![c] =
                    IF Latest(Target[c], {"Created"}) = 0 THEN "loaded" ELSE "exists"]
    /\ UNCHANGED <<log, storage, main, leader, handling, seen, local, faults>>

\* The append finds the context it observed, or the call is told that the
\* boundary exists; a fault loses the answer of an append that was made.
AppendDefinition(c) ==
    /\ command[c] = "loaded"
    /\ \/ /\ NotDefined(Target[c])
          /\ log' = Append(log, Event("Created", Target[c]))
          /\ \/ command' = [command EXCEPT ![c] = "created"] /\ UNCHANGED faults
             \/ /\ faults < MaxFaults
                /\ faults' = faults + 1
                /\ command' = [command EXCEPT ![c] = "unknown"]
       \/ /\ ~NotDefined(Target[c])
          /\ command' = [command EXCEPT ![c] = "exists"]
          /\ UNCHANGED <<log, faults>>
    /\ UNCHANGED <<storage, main, leader, handling, seen, local>>

EnsureBootstrapBoundary(s) ==
    /\ main[s] = "bootstrap"
    /\ main' = [main EXCEPT ![s] =
                  IF Latest(Admin, {"Created"}) = 0 THEN "append" ELSE "replay"]
    /\ UNCHANGED <<log, storage, command, leader, handling, seen, local, faults>>

\* A conflict means that another server was first: its definition is verified
\* and accepted.
AppendBootstrap(s) ==
    /\ main[s] = "append"
    /\ log' = IF NotDefined(Admin) THEN Append(log, Event("Created", Admin)) ELSE log
    /\ main' = [main EXCEPT ![s] = "replay"]
    /\ UNCHANGED <<storage, command, leader, handling, seen, local, faults>>

-----------------------------------------------------------------------------
(* A subscriber: one event at a time, in order, each either handled or left *)
(* to a retry loop of its own before the cursor moves past it.              *)

EventOf(k) == IF k = "definition" THEN "Created" ELSE "Activated"

\* The definitions are followed under the cluster-wide lease once the catalog
\* was replayed, the activations by every server from the replay on.
Follows(k, s) ==
    IF k = "definition" THEN leader = s /\ main[s] \in {"projectors", "serving"}
    ELSE main[s] \in {"replay", "projectors", "serving"}

Undelivered(k, s) ==
    {i \in DOMAIN log : i > cursor[k][s] /\ log[i].type = EventOf(k)}

Delivered(k, s, i) ==
    /\ Follows(k, s)
    /\ delivering[k][s] = 0
    /\ i \in Undelivered(k, s)
    /\ \A j \in Undelivered(k, s) : i <= j

setPosition(k, s, i) == cursor' = [cursor EXCEPT ![k][s] = i]

\* The handler of b goes to stage st.
Enter(k, s, b, st) == stage' = [stage EXCEPT ![k][s][b] = st]

\* The handler of b returns; if the subscription called it, the cursor moves.
Returned(k, s, b, st) ==
    /\ Enter(k, s, b, st)
    /\ IF delivering[k][s] # 0 /\ log[delivering[k][s]].boundary = b
       THEN /\ setPosition(k, s, delivering[k][s])
            /\ delivering' = [delivering EXCEPT ![k][s] = 0]
       ELSE UNCHANGED <<cursor, delivering>>

\* Fault: a failed event is not retried.
ErrorDropped(s) == "idle"
handleOrRetry(s) == IF main[s] = "stopping" THEN "idle" ELSE "retry"

Running(k, s, b) == stage[k][s][b] \notin {"idle", "retry"}

\* A read, an append, an installation or a cancelled context ends a handler
\* with an error.
HandlerFails(k, s, b) ==
    /\ stage[k][s][b] \in {"provision", "activate", "fail", "install"}
    /\ \/ main[s] = "stopping" /\ UNCHANGED faults
       \/ faults < MaxFaults /\ faults' = faults + 1
    /\ Returned(k, s, b, handleOrRetry(s))
    /\ UNCHANGED <<log, storage, command, main, leader, seen, local>>

-----------------------------------------------------------------------------
(* Provisioning: BoundaryProvisioningEventHandler. *)

AcquireLease(s) ==
    /\ leader = NoOne
    /\ main[s] \in {"projectors", "serving"}
    /\ leader' = s
    /\ UNCHANGED <<log, storage, command, main, handling, seen, local, faults>>

\* The lease ends; handlers and retry loops do not notice.
LoseLease ==
    /\ leader # NoOne
    /\ faults < MaxFaults
    /\ faults' = faults + 1
    /\ leader' = NoOne
    /\ UNCHANGED <<log, storage, command, main, handling, seen, local>>

\* An active boundary needs nothing; for any other one its context is kept.
Load(s, b) ==
    /\ Enter("definition", s, b, "provision")
    /\ seen' = [seen EXCEPT ![s][b] = OutcomeContext(b, "Created")]

DeliverDefinition(s) ==
    \E i \in Undelivered("definition", s) :
        LET b == log[i].boundary IN
        /\ Delivered("definition", s, i)
        /\ IF loadContext(b).status = "ACTIVE"
           THEN /\ setPosition("definition", s, i)
                /\ UNCHANGED <<delivering, stage, seen>>
           ELSE /\ Load(s, b)
                /\ delivering' = [delivering EXCEPT !["definition"][s] = i]
                /\ UNCHANGED cursor
        /\ UNCHANGED <<log, storage, command, main, leader, local, faults>>

RetryDefinition(s, b) ==
    /\ stage["definition"][s][b] = "retry"
    /\ IF loadContext(b).status = "ACTIVE"
       THEN Enter("definition", s, b, "idle") /\ UNCHANGED seen
       ELSE Load(s, b)
    /\ UNCHANGED <<log, storage, command, main, leader, cursor, delivering, local, faults>>

\* The migrations are run again; a registered SQLite boundary is left alone.
PostgresProvisioned(b) == storage \cup {b}
SqliteProvisioned(s, b) == IF b \in registry[s] THEN storage ELSE storage \cup {b}

ProvisionBoundary(s, b) ==
    /\ stage["definition"][s][b] = "provision"
    /\ storage' \in {PostgresProvisioned(b), SqliteProvisioned(s, b)}
    /\ Enter("definition", s, b, "activate")
    /\ UNCHANGED <<log, command, main, leader, cursor, delivering, seen, local, faults>>

RecordsFailure(s, b) == log[seen[s][b]].type # "Failed"

ProvisioningFails(s, b) ==
    /\ stage["definition"][s][b] = "provision"
    /\ faults < MaxFaults
    /\ faults' = faults + 1
    /\ IF RecordsFailure(s, b)
       THEN Enter("definition", s, b, "fail") /\ UNCHANGED <<cursor, delivering>>
       ELSE Returned("definition", s, b, handleOrRetry(s))
    /\ UNCHANGED <<log, storage, command, main, leader, seen, local>>

\* The append succeeds if nothing happened to the boundary since the context
\* was loaded; otherwise the context is loaded again.
AppendActivated(s, b) ==
    /\ stage["definition"][s][b] = "activate"
    /\ IF OutcomeContext(b, "Activated") = seen[s][b]
       THEN /\ log' = Append(log, Event("Activated", b))
            /\ \/ Returned("definition", s, b, "idle") /\ UNCHANGED faults
               \/ /\ faults < MaxFaults
                  /\ faults' = faults + 1
                  /\ Returned("definition", s, b, handleOrRetry(s))
            /\ UNCHANGED seen
       ELSE /\ IF loadContext(b).status = "ACTIVE"
               THEN Returned("definition", s, b, "idle") /\ UNCHANGED seen
               ELSE /\ seen' = [seen EXCEPT ![s][b] = OutcomeContext(b, "Activated")]
                    /\ UNCHANGED handling
            /\ UNCHANGED <<log, faults>>
    /\ UNCHANGED <<storage, command, main, leader, local>>

\* A conflict is ignored: the attempt is retried in any case.
AppendFailed(s, b) ==
    /\ stage["definition"][s][b] = "fail"
    /\ log' = IF OutcomeContext(b, "Failed") = seen[s][b]
              THEN Append(log, Event("Failed", b)) ELSE log
    /\ Returned("definition", s, b, handleOrRetry(s))
    /\ UNCHANGED <<storage, command, main, leader, seen, local, faults>>

-----------------------------------------------------------------------------
(* Installation on each server: BoundaryRuntimeEventHandler. *)

\* Fault: the gate is opened before the boundary is installed.
OpenFirst == "open"
FirstStage == "install"

\* An activation of no definition, or of one that it precedes, is ignored.
DeliverActivation(s) ==
    \E i \in Undelivered("activation", s) :
        LET b == log[i].boundary
            view == replayCatalog(b)
        IN /\ Delivered("activation", s, i)
           /\ IF view.status = "NONE" \/ i <= view.definition
              THEN setPosition("activation", s, i) /\ UNCHANGED <<delivering, stage>>
              ELSE /\ Enter("activation", s, b, FirstStage)
                   /\ delivering' = [delivering EXCEPT !["activation"][s] = i]
                   /\ UNCHANGED cursor
           /\ UNCHANGED <<log, storage, command, main, leader, seen, local, faults>>

RetryActivation(s, b) ==
    /\ stage["activation"][s][b] = "retry"
    /\ replayCatalog(b).status = "ACTIVE"
    /\ Enter("activation", s, b, FirstStage)
    /\ UNCHANGED <<log, storage, command, main, leader, cursor, delivering, seen,
                   local, faults>>

Register(s, b) == registry' = [registry EXCEPT ![s] = @ \cup {b}]

\* PostgreSQL brings the schema up to date and registers the boundary, unless it
\* is registered already.
PostgresInstall(s, b) ==
    /\ storage' = IF b \in registry[s] THEN storage ELSE storage \cup {b}
    /\ Register(s, b)

\* SQLite opens the pools and publishes them, unless the saver is closed.
SqliteInstall(s, b) ==
    \/ b \in registry[s] /\ UNCHANGED <<storage, registry>>
    \/ storage' = storage \cup {b} /\ Register(s, b)

\* Fault: a boundary installed later is not counted.
NeverLater(s) == FALSE
ManagerStarted(s) == projectors[s] # {}

\* The backend installs the boundary; then, unless the relays are stopped, it
\* is added under the mutex, which also covers the look at the manager.
InstallBoundary(s, b) ==
    /\ stage["activation"][s][b] = "install"
    /\ PostgresInstall(s, b) \/ SqliteInstall(s, b)
    /\ \/ /\ provisioned' = [provisioned EXCEPT ![s] = @ \cup {b}]
          /\ Enter("activation", s, b, IF ManagerStarted(s) THEN "count" ELSE "open")
          /\ UNCHANGED <<cursor, delivering>>
       \/ /\ main[s] = "stopping"
          /\ Returned("activation", s, b, handleOrRetry(s))
          /\ UNCHANGED provisioned
    /\ UNCHANGED <<log, command, main, leader, seen, projectors, gate, faults>>

\* A started manager counts each boundary once.
StartBoundary(s, b) ==
    projectors' = IF stage["activation"][s][b] = "count"
                  THEN [projectors EXCEPT ![s] = @ \cup {b}] ELSE projectors

ActivateBoundary(s, b) ==
    /\ stage["activation"][s][b] \in {"count", "open"}
    /\ StartBoundary(s, b)
    /\ gate' = [gate EXCEPT ![s] = @ \cup {b}]
    /\ Returned("activation", s, b, "idle")
    /\ UNCHANGED <<log, storage, command, main, leader, seen, registry, provisioned, faults>>

-----------------------------------------------------------------------------
(* The start and the end of a server. *)

\* The replay ends when no activation is left.
ReplayDone(s) ==
    /\ main[s] = "replay"
    /\ delivering["activation"][s] = 0
    /\ Undelivered("activation", s) = {}

\* An embedded store is then ready; a server starts its projectors first.
EmbeddedStarted(s) ==
    /\ s \in Embedded
    /\ ReplayDone(s)
    /\ main' = [main EXCEPT ![s] = "serving"]
    /\ UNCHANGED <<log, storage, command, leader, handling, seen, local, faults>>

ServerReplayed(s) ==
    /\ s \notin Embedded
    /\ ReplayDone(s)
    /\ main' = [main EXCEPT ![s] = "projectors"]
    /\ UNCHANGED <<log, storage, command, leader, handling, seen, local, faults>>

\* Under the mutex the manager is published and started for what is installed.
StartProjectors(s) ==
    /\ main[s] = "projectors"
    /\ projectors' = [projectors EXCEPT ![s] = provisioned[s]]
    /\ main' = [main EXCEPT ![s] = "serving"]
    /\ UNCHANGED <<log, storage, command, leader, handling, seen, registry, provisioned,
                   gate, faults>>

\* A process starts with its admin boundary and cursors before the first event.
Fresh(s) ==
    /\ main' = [main EXCEPT ![s] = "bootstrap"]
    /\ cursor' = [k \in Kinds |-> [cursor[k] EXCEPT ![s] = 0]]
    /\ delivering' = [k \in Kinds |-> [delivering[k] EXCEPT ![s] = 0]]
    /\ stage' = [k \in Kinds |-> [stage[k] EXCEPT ![s] = [b \in Boundaries |-> "idle"]]]
    /\ seen' = [seen EXCEPT ![s] = [b \in Boundaries |-> 0]]
    /\ registry' = [registry EXCEPT ![s] = {Admin}]
    /\ provisioned' = [provisioned EXCEPT ![s] = {Admin}]
    /\ projectors' = [projectors EXCEPT ![s] = {}]
    /\ gate' = [gate EXCEPT ![s] = {Admin}]

Vacated(s) == IF leader = s THEN NoOne ELSE leader

Crash(s) ==
    /\ faults < MaxFaults
    /\ faults' = faults + 1
    /\ leader' = Vacated(s)
    /\ Fresh(s)
    /\ UNCHANGED <<log, storage, command>>

\* The context is cancelled: nothing is delivered and the retry loops end.
Shutdown(s) ==
    /\ faults < MaxFaults
    /\ main[s] = "serving"
    /\ faults' = faults + 1
    /\ main' = [main EXCEPT ![s] = "stopping"]
    /\ leader' = Vacated(s)
    /\ stage' = [k \in Kinds |-> [stage[k] EXCEPT ![s] =
                   [b \in Boundaries |-> IF @[b] = "retry" THEN "idle" ELSE @[b]]]]
    /\ UNCHANGED <<log, storage, command, cursor, delivering, seen, local>>

\* Both subscribers are waited for, with their retry loops.
Stopped(s) ==
    /\ main[s] = "stopping"
    /\ \A k \in Kinds, b \in Boundaries : ~Running(k, s, b)
    /\ Fresh(s)
    /\ UNCHANGED <<log, storage, command, leader, faults>>

-----------------------------------------------------------------------------
\* The processes start on what is stored; only some of the calls will be made.
InitFrom(history, calls) ==
    /\ log = history
    /\ storage = {Admin}
    /\ command = [c \in Commands |-> IF c \in calls THEN "idle" ELSE "none"]
    /\ main = [s \in Servers |-> "bootstrap"]
    /\ leader = NoOne
    /\ cursor = [k \in Kinds |-> [s \in Servers |-> 0]]
    /\ delivering = cursor
    /\ stage = [k \in Kinds |-> [s \in Servers |-> [b \in Boundaries |-> "idle"]]]
    /\ seen = [s \in Servers |-> [b \in Boundaries |-> 0]]
    /\ registry = [s \in Servers |-> {Admin}]
    /\ provisioned = registry
    /\ projectors = [s \in Servers |-> {}]
    /\ gate = registry
    /\ faults = 0

Init == \E history \in Histories, calls \in SUBSET Commands : InitFrom(history, calls)

Server(s) ==
    \/ EnsureBootstrapBoundary(s) \/ AppendBootstrap(s)
    \/ EmbeddedStarted(s) \/ ServerReplayed(s)
    \/ StartProjectors(s) \/ Stopped(s)
    \/ AcquireLease(s) \/ DeliverDefinition(s) \/ DeliverActivation(s)

Handler(s, b) ==
    \/ RetryDefinition(s, b) \/ ProvisionBoundary(s, b)
    \/ AppendActivated(s, b) \/ AppendFailed(s, b)
    \/ RetryActivation(s, b) \/ InstallBoundary(s, b) \/ ActivateBoundary(s, b)

Next ==
    \/ \E c \in Commands : CreateBoundary(c) \/ AppendDefinition(c)
    \/ LoseLease
    \/ \E s \in Servers :
         \/ Server(s) \/ Crash(s) \/ Shutdown(s)
         \/ \E b \in Boundaries :
              \/ Handler(s, b) \/ ProvisioningFails(s, b)
              \/ \E k \in Kinds : HandlerFails(k, s, b)

Spec == Init /\ [][Next]_vars

-----------------------------------------------------------------------------

Count(b, type) ==
    Cardinality({i \in DOMAIN log :
                   log[i] = Event(type, b) /\ i >= Latest(b, {"Created"})})

\* However many servers, retry loops and callers race, a boundary is defined once,
\* activated once and reported as failed once, and at most one CreateBoundary call
\* is told that it created it: the contexts of the appends serialise them
\* (create_boundary, ProvisionBoundaryCommandHandler).
OneEventOfEachKind ==
    \A b \in Boundaries :
        /\ Cardinality({i \in DOMAIN log : log[i] = Event("Created", b)}) <= 1
        /\ Count(b, "Activated") <= 1
        /\ Count(b, "Failed") <= 1
        /\ Cardinality({c \in Commands : Target[c] = b /\ command[c] = "created"}) <= 1

\* A definition that was activated is never reported as failed afterwards, not even
\* by a handler that outlived its lease and whose own attempt failed (appendOutcome).
ActivationIsTerminal ==
    \A i, j \in DOMAIN log :
        i < j /\ log[i].type = "Activated" /\ log[i].boundary = log[j].boundary
              /\ log[j].type = "Failed"
        => i < Latest(log[i].boundary, {"Created"})

\* The two readings of the log agree on every defined boundary: the provisioning
\* command's, from the latest event of each type, and the catalog's, from a replay
\* of all of them (loadContext, replayCatalog), outcomes older than the definition
\* included.
ContextAgreesWithCatalog ==
    \A b \in Boundaries : Latest(b, {"Created"}) # 0 => loadContext(b) = replayCatalog(b)

Active(b) == Latest(b, {"Activated"}) > Latest(b, {"Created"}) /\ Latest(b, {"Created"}) # 0

\* Activation is recorded only after the storage exists, and a server accepts
\* requests for a boundary (RequireBoundaryActive) only if its activation is
\* recorded and its own backend can reach it.
ExposedOnlyWhenReady ==
    /\ \A b \in Boundaries : Active(b) => b \in storage
    /\ \A s \in Servers : \A b \in gate[s] \ {Admin} :
         Active(b) /\ b \in registry[s]

\* Once a server serves, the events of every boundary it accepts requests for are
\* counted: a boundary installed while the manager is published and started is
\* missed by neither (installBoundary, eventCountProjectionManager).
EveryBoundaryIsCounted ==
    \A s \in Servers \ Embedded :
        main[s] = "serving" => gate[s] \subseteq projectors[s]

\* A cursor that moved past an event leaves nothing behind: the boundary reached
\* what the event asks for, or a handler or retry loop of this server still works
\* on it (handleOrRetry, scheduleRetry).
NothingForgotten ==
    \A s \in Servers, b \in Boundaries :
        LET d == Latest(b, {"Created"})
            a == Latest(b, {"Activated"})
        IN main[s] # "stopping" =>
           /\ d # 0 /\ cursor["definition"][s] >= d =>
                \/ stage["definition"][s][b] # "idle"
                \/ Active(b)
           /\ d # 0 /\ a > d /\ cursor["activation"][s] >= a =>
                \/ stage["activation"][s][b] # "idle"
                \/ b \in gate[s]
=============================================================================
