--------------------------- MODULE IndexLifecycle ---------------------------
(***************************************************************************)
(* Creating and dropping an index of an active boundary.  One logical name *)
(* is followed: its row of metadata, and the physical index of that name.  *)
(*                                                                         *)
(* PostgreSQL (postgres/postgres_eventstore.go, index_definition.go) takes *)
(* one statement at a time without a common transaction, so calls on any   *)
(* servers interleave; CREATE and DROP INDEX CONCURRENTLY exclude each     *)
(* other by a lock of the table, nothing else does.  SQLite                *)
(* (sqlite/sqlite_eventstore.go, index_definition.go) does the same work   *)
(* in one write transaction.                                               *)
(***************************************************************************)
EXTENDS BoundaryLifecycle

CONSTANTS
    Creators,       \* CreateIndex calls
    Droppers,       \* DropIndex calls
    Spellings,      \* the definitions that calls may send
    Indexed,        \* the boundary
    MaxIndexFaults  \* failed builds and interrupted calls

Clients == Creators \cup Droppers

VARIABLES
    backend,        \* "postgres" or "sqlite"
    spelling,       \* the definition that each creator sends
    call,           \* the next statement of each call
    reserved,       \* the stored spelling that a creator found
    metadata,       \* the row: its spelling and state, or none
    physical,       \* the index: its expressions and validity, or none
    builder,        \* the call that holds the lock of the table
    drops,          \* how many drops have begun
    indexFaults

indexVars == <<backend, spelling, call, reserved, metadata, physical, builder, drops,
               indexFaults>>
indexInput == <<backend, spelling>>

Absent == [state |-> "absent"]
NoIndex == [valid |-> FALSE]

\* The request of a client and the core's: a combinator other than OR is AND.
createIndexRequestFromProto(sp) ==
    [sp EXCEPT !.combinator = IF sp.combinator = "OR" THEN "OR" ELSE "AND"]

\* What a definition means: an unknown type is text, and a combinator counts
\* only if there are conditions to combine.
boundaryIndexExpressions(sp) ==
    [type |-> IF sp.type \in {"numeric", "boolean", "timestamptz"} THEN sp.type ELSE "text",
     predicate |-> IF sp.conditions THEN sp.combinator ELSE "none"]

\* The same on SQLite, which also stores the type that it took.
normalizeIndexValueType(type) ==
    IF type \in {"numeric", "boolean", "timestamptz"} THEN type ELSE "text"
buildSQLiteBoundaryIndexDDL(sp) ==
    [type |-> normalizeIndexValueType(sp.type),
     predicate |-> IF sp.conditions THEN sp.combinator ELSE "none"]

Wanted(c) == boundaryIndexExpressions(spelling[c])

RequireBoundaryActive(s) == Indexed \in gate[s]

\* The request reached a server that accepts it.
Admitted == \E s \in Servers : RequireBoundaryActive(s)
DropAdmitted == \E s \in Servers : RequireBoundaryActive(s)

To(c, st) == call' = [call EXCEPT ![c] = st]

-----------------------------------------------------------------------------
(* CreateBoundaryIndex on PostgreSQL. *)

\* checkBoundaryIndexMetadata: the row, if any, has the wanted expressions.
SameMetadata(c) == boundaryIndexExpressions(metadata.spelling) = Wanted(c)

CreateIndex(c) ==
    /\ backend = "postgres"
    /\ call[c] = "idle"
    /\ Admitted
    /\ To(c, IF metadata = Absent \/ SameMetadata(c) THEN "adopt" ELSE "exists")
    /\ UNCHANGED <<indexInput, reserved, metadata, physical, builder, drops, indexFaults>>

\* verifyBoundaryIndexDefinition: a physical index of the name is the wanted one.
AdoptPhysical(c) ==
    /\ call[c] = "adopt"
    /\ To(c, IF physical = NoIndex \/ physical.expressions = Wanted(c)
             THEN "reserve" ELSE "exists")
    /\ UNCHANGED <<indexInput, reserved, metadata, physical, builder, drops, indexFaults>>

Reserved(c) ==
    IF metadata = Absent THEN [spelling |-> spelling[c], state |-> "building"] ELSE metadata

reserveBoundaryIndex(c) ==
    /\ call[c] = "reserve"
    /\ metadata' = Reserved(c)
    /\ To(c, "check")
    /\ UNCHANGED <<indexInput, reserved, physical, builder, drops, indexFaults>>

\* The row is read again; its spelling guards the later updates.
CheckReserved(c) ==
    /\ call[c] = "check"
    /\ IF metadata = Absent THEN To(c, "failed") /\ UNCHANGED reserved
       ELSE IF SameMetadata(c)
            THEN To(c, "building") /\ reserved' = [reserved EXCEPT ![c] = metadata.spelling]
            ELSE To(c, "exists") /\ UNCHANGED reserved
    /\ UNCHANGED <<indexInput, metadata, physical, builder, drops, indexFaults>>

\* setState updates the row only if it still has the reserved spelling.
setState(c, state, then) ==
    /\ IF metadata # Absent /\ metadata.spelling = reserved[c]
       THEN metadata' = [metadata EXCEPT !.state = state] /\ To(c, then)
       ELSE To(c, "failed") /\ UNCHANGED metadata
    /\ UNCHANGED <<indexInput, reserved, physical, builder, drops, indexFaults>>

MarkBuilding(c) == call[c] = "building" /\ setState(c, "building", "inspect")

\* postgresIndexValidity, before the build and when it is cleaned up.
InspectValidity(c) ==
    /\ \/ /\ call[c] = "inspect"
          /\ To(c, IF physical # NoIndex /\ ~physical.valid THEN "remove" ELSE "create")
       \/ /\ call[c] = "clean"
          /\ To(c, IF physical # NoIndex /\ ~physical.valid THEN "cleanup" ELSE "failed")
    /\ UNCHANGED <<indexInput, reserved, metadata, physical, builder, drops, indexFaults>>

\* DROP INDEX CONCURRENTLY IF EXISTS drops whatever has the name by then.
dropInvalidBoundaryIndex(c) ==
    /\ call[c] \in {"remove", "cleanup"}
    /\ builder = {}
    /\ physical' = NoIndex
    /\ To(c, IF call[c] = "remove" THEN "create" ELSE "failed")
    /\ UNCHANGED <<indexInput, reserved, metadata, builder, drops, indexFaults>>

\* CREATE INDEX CONCURRENTLY IF NOT EXISTS: the index is there, not valid yet.
CreateConcurrently(c) ==
    /\ call[c] = "create"
    /\ builder = {}
    /\ IF physical # NoIndex THEN To(c, "validate") /\ UNCHANGED <<physical, builder>>
       ELSE /\ physical' = [expressions |-> Wanted(c), valid |-> FALSE]
            /\ builder' = {c}
            /\ To(c, "build")
    /\ UNCHANGED <<indexInput, reserved, metadata, drops, indexFaults>>

FinishBuild(c) ==
    /\ call[c] = "build"
    /\ builder' = {}
    /\ \/ /\ physical' = [physical EXCEPT !.valid = TRUE]
          /\ To(c, "validate")
          /\ UNCHANGED indexFaults
       \/ /\ indexFaults < MaxIndexFaults
          /\ indexFaults' = indexFaults + 1
          /\ To(c, "clean")
          /\ UNCHANGED physical
    /\ UNCHANGED <<indexInput, reserved, metadata, drops>>

ValidateIndex(c) ==
    /\ call[c] = "validate"
    /\ To(c, IF physical # NoIndex /\ physical.valid THEN "verify" ELSE "clean")
    /\ UNCHANGED <<indexInput, reserved, metadata, physical, builder, drops, indexFaults>>

\* The index of the name may have another definition by now, which is AlreadyExists
\* like "exists", but leaves the row that was reserved.
VerifyBuilt(c) ==
    /\ call[c] = "verify"
    /\ To(c, CASE physical = NoIndex -> "failed"
               [] physical # NoIndex /\ physical.expressions = Wanted(c) -> "ready"
               [] OTHER -> "differs")
    /\ UNCHANGED <<indexInput, reserved, metadata, physical, builder, drops, indexFaults>>

MarkReady(c) == call[c] = "ready" /\ setState(c, "ready", "done")

\* The caller gives up or the server dies between two statements or during the
\* build, whose index is then left invalid.
Interrupt(c) ==
    /\ call[c] \notin {"idle", "done", "exists", "differs", "failed"}
    /\ indexFaults < MaxIndexFaults
    /\ indexFaults' = indexFaults + 1
    /\ builder' = builder \ {c}
    /\ To(c, "failed")
    /\ UNCHANGED <<indexInput, reserved, metadata, physical, drops>>

-----------------------------------------------------------------------------
(* DropBoundaryIndex on PostgreSQL: the index first, then the row. *)

DropIndex(d) ==
    /\ backend = "postgres"
    /\ call[d] = "idle"
    /\ DropAdmitted
    /\ builder = {}
    /\ physical' = NoIndex
    /\ drops' = drops + 1
    /\ To(d, "delete")
    /\ UNCHANGED <<indexInput, reserved, metadata, builder, indexFaults>>

\* Fault: the row is left behind.
RowKept == metadata
RowDeleted == Absent

DeleteMetadata(d) ==
    /\ call[d] = "delete"
    /\ metadata' = RowDeleted
    /\ To(d, "done")
    /\ UNCHANGED <<indexInput, reserved, physical, builder, drops, indexFaults>>

-----------------------------------------------------------------------------
(* SQLite: each call is one immediate transaction. *)

SqliteVerified(ddl) ==
    /\ metadata = Absent \/ buildSQLiteBoundaryIndexDDL(metadata.spelling) = ddl
    /\ physical = NoIndex \/ physical.expressions = ddl

SqliteCreateIndex(c) ==
    /\ backend = "sqlite"
    /\ call[c] = "idle"
    /\ Admitted
    /\ LET ddl == buildSQLiteBoundaryIndexDDL(spelling[c])
           row == [spelling |-> [spelling[c] EXCEPT !.type = normalizeIndexValueType(@)]]
       IN IF SqliteVerified(ddl)
          THEN /\ physical' = [expressions |-> ddl, valid |-> TRUE]
               /\ metadata' = IF metadata = Absent THEN row ELSE metadata
               /\ To(c, "done")
          ELSE To(c, "exists") /\ UNCHANGED <<physical, metadata>>
    /\ UNCHANGED <<indexInput, reserved, builder, drops, indexFaults>>

SqliteDropIndex(d) ==
    /\ backend = "sqlite"
    /\ call[d] = "idle"
    /\ DropAdmitted
    /\ physical' = NoIndex
    /\ metadata' = RowDeleted
    /\ drops' = drops + 1
    /\ To(d, "done")
    /\ UNCHANGED <<indexInput, reserved, builder, indexFaults>>

-----------------------------------------------------------------------------
IndexInit ==
    /\ backend \in {"postgres", "sqlite"}
    /\ spelling \in [Creators -> {createIndexRequestFromProto(sp) : sp \in Spellings}]
    /\ call = [c \in Clients |-> "idle"]
    /\ reserved = [c \in Creators |-> "none"]
    /\ metadata = Absent
    /\ physical = NoIndex
    /\ builder = {}
    /\ drops = 0
    /\ indexFaults = 0

IndexNext ==
    \/ \E c \in Creators :
         \/ CreateIndex(c) \/ AdoptPhysical(c) \/ reserveBoundaryIndex(c)
         \/ CheckReserved(c) \/ MarkBuilding(c) \/ InspectValidity(c)
         \/ dropInvalidBoundaryIndex(c) \/ CreateConcurrently(c) \/ FinishBuild(c)
         \/ ValidateIndex(c) \/ VerifyBuilt(c) \/ MarkReady(c)
         \/ SqliteCreateIndex(c)
    \/ \E d \in Droppers : DropIndex(d) \/ DeleteMetadata(d) \/ SqliteDropIndex(d)
    \/ \E c \in Clients : Interrupt(c)

-----------------------------------------------------------------------------
(* Listing and getting the index, which only read the row. *)

\* The row as it is; on SQLite a row has no state and is of a finished index.
scanPostgresBoundaryIndex(row) == row
sqliteBoundaryIndexFromRow(row) == [spelling |-> row.spelling, state |-> "ready"]

PostgresListBoundaryIndexes ==
    {scanPostgresBoundaryIndex(row) : row \in {metadata} \ {Absent}}
SqliteListBoundaryIndexes ==
    {sqliteBoundaryIndexFromRow(row) : row \in {metadata} \ {Absent}}

PostgresGetBoundaryIndex ==
    IF metadata = Absent THEN [code |-> "NotFound"]
    ELSE [code |-> "OK", index |-> scanPostgresBoundaryIndex(metadata)]
SqliteGetBoundaryIndex ==
    IF metadata = Absent THEN [code |-> "NotFound"]
    ELSE [code |-> "OK", index |-> sqliteBoundaryIndexFromRow(metadata)]

\* The core's answers, which a server gives once the boundary is active there.
ListIndexes(s) ==
    IF ~RequireBoundaryActive(s) THEN {}
    ELSE IF backend = "postgres" THEN PostgresListBoundaryIndexes
                                 ELSE SqliteListBoundaryIndexes
GetIndex(s) ==
    IF ~RequireBoundaryActive(s) THEN [code |-> "Refused"]
    ELSE IF backend = "postgres" THEN PostgresGetBoundaryIndex
                                 ELSE SqliteGetBoundaryIndex

\* The message a client gets: a type that is not known is TEXT there too.
indexDefinitionToProto(index) ==
    [type |-> IF index.spelling.type \in {"numeric", "boolean", "timestamptz"}
              THEN index.spelling.type ELSE "text",
     conditions |-> index.spelling.conditions,
     combinator |-> IF index.spelling.combinator = "OR" THEN "OR" ELSE "AND",
     state |-> IF index.state \in {"building", "ready"} THEN index.state ELSE "unspecified"]

\* What the adapter returns for ListIndexes and, if there is one, for GetIndex.
GrpcListIndexes(s) == {indexDefinitionToProto(index) : index \in ListIndexes(s)}
GrpcGetIndex(s) ==
    IF GetIndex(s).code = "OK" THEN {indexDefinitionToProto(GetIndex(s).index)} ELSE {}

\* When every call so far has ended without an error, or was refused with
\* AlreadyExists before it reserved the row, the index that a client of any server
\* lists, or gets by its name, is READY, and its physical index exists, is valid and
\* means what the message says: the statements of concurrent creations and drops
\* never leave them apart unless one of the calls reports it (CreateBoundaryIndex,
\* DropBoundaryIndex, ListIndexes, GetIndex).
ListedIndexIsUsable ==
    (\A c \in Clients : call[c] \in {"idle", "done", "exists"}) =>
        \A s \in Servers :
          /\ GrpcGetIndex(s) = GrpcListIndexes(s)
          /\ \A index \in GrpcListIndexes(s) :
               /\ index.state = "ready"
               /\ physical = [expressions |-> boundaryIndexExpressions(index), valid |-> TRUE]

=============================================================================
