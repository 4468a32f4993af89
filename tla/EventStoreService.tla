-------------------------- MODULE EventStoreService --------------------------
(***************************************************************************)
(* The requests of the event store, from the message of the caller to the  *)
(* rows of a backend and back: SaveEventsV2, GetEvents,                    *)
(* GetLatestByCriteria, GetWriteContext and the reads of a subscription,   *)
(* through gRPC, the embedded OrisunServer and the neutral port of the     *)
(* boundary slices (internal/eventstoreadapter).                           *)
(*                                                                         *)
(* A request is handled in one step: SqliteStore and PostgresStore model   *)
(* how saves and reads of several callers interleave, this module what the *)
(* layers make of them.  A caller's query is a sequence of criteria, each  *)
(* a sequence of tags, with Nil wherever the messages allow one; the       *)
(* messages of a door are built from it.                                   *)
(***************************************************************************)
EXTENDS EventStoreMessages

LOCAL INSTANCE SequencesExt

CONSTANTS
    Backends,             \* "sqlite", "postgres"
    Boundary,             \* the boundary that has storage
    ValidNames,           \* valid names of boundaries
    UUIDs,                \* the event ids that are UUIDs
    SaveRequests,         \* what callers may ask for
    ReadRequests,
    LatestRequests,
    StreamRequests,
    DefaultReadBatchSize,
    MaxReadBatchSize,
    batchSize,            \* page size of a subscription's drain
    MaxWrites             \* bound on the stored writes

ASSUME ServiceAssumption ==
    /\ DefaultReadBatchSize \in 1 .. MaxReadBatchSize
    /\ batchSize \in 2 .. MaxReadBatchSize
    /\ MaxWrites \in Nat

VARIABLES
    backend,
    enforced,    \* enforceBoundaryActivation
    active,      \* activeBoundaries
    stored,      \* the events of the boundary, in the order of their positions
    contexts,    \* its writes, with what their callers asked for
    reply        \* the answer of the request that was just handled

serviceVars == <<backend, enforced, active, stored, contexts, reply>>

NoReply == [op |-> "none"]

ServiceInit ==
    /\ backend \in Backends
    /\ enforced = FALSE
    /\ active = {}
    /\ stored = <<>>
    /\ contexts = <<>>
    /\ reply = NoReply

Then(code, next) == IF code = "OK" THEN next ELSE code

Require(condition, code) == IF condition THEN "OK" ELSE code

Checked(code, answer) == IF code = "OK" THEN answer ELSE [code |-> code]

\* The backend's answer in the shape of a door.
Convert(answer, to(_)) ==
    IF answer.code = "OK" THEN [code |-> "OK", result |-> to(answer.batch)] ELSE [code |-> answer.code]

-----------------------------------------------------------------------------
(* The messages of the callers *)

Shape(q, criterion(_)) == [i \in DOMAIN q |-> criterion(q[i])]

ProtoCriterion(c) ==
    IF c = Nil THEN Nil
    ELSE [tags |-> [i \in DOMAIN c |->
            IF c[i] = Nil THEN Nil
            ELSE [key |-> c[i].Key, value |-> c[i].Value, operator |-> c[i].Operator]]]

GoCriterion(c) == IF c = Nil THEN Nil ELSE [Tags |-> c]

ProtoQuery(q) == IF q = Nil THEN Nil ELSE [criteria |-> Shape(q, ProtoCriterion)]

GoQuery(q) == IF q = Nil THEN Nil ELSE [Criteria |-> Shape(q, GoCriterion)]

\* The neutral port has no nil criteria and no nil tags.
IsCoreQuery(q) ==
    q # Nil => \A i \in DOMAIN q : q[i] # Nil /\ \A j \in DOMAIN q[i] : q[i][j] # Nil

CoreQuery(q) == IF q = Nil THEN [Criteria |-> <<>>] ELSE GoQuery(q)

ProtoPosition(p) ==
    IF p = Nil THEN Nil
    ELSE [commit_position |-> p.CommitPosition, prepare_position |-> p.PreparePosition]

ProtoEvent(e) ==
    IF e = Nil THEN Nil
    ELSE [event_id |-> e.EventId, event_type |-> e.EventType, data |-> e.Data, metadata |-> e.Metadata]

-----------------------------------------------------------------------------
(* The gate and the roles *)

\* The gate is there before requests are; boundaries are activated at any time.
EnableBoundaryActivationGate ==
    /\ ~enforced
    /\ reply = NoReply
    /\ stored = <<>>
    /\ enforced' = TRUE
    /\ UNCHANGED <<backend, active, stored, contexts, reply>>

ActivateServedBoundary ==
    /\ enforced
    /\ reply = NoReply
    /\ active' = active \cup {Boundary}
    /\ UNCHANGED <<backend, enforced, stored, contexts, reply>>

BoundaryGate(boundary) ==
    IF ~enforced THEN "OK"
    ELSE IF boundary \notin ValidNames THEN "InvalidArgument"
    ELSE Require(boundary \in active, "FailedPrecondition")

\* Requests without a user come from inside the process.
authorizeRequest(user, roles) == Require(user = Nil \/ user \cap roles # {}, "PermissionDenied")

-----------------------------------------------------------------------------
(* Backends: writes *)

PositionOf(row) == [CommitPosition |-> row.CommitPosition, PreparePosition |-> row.PreparePosition]

ComparePositions(p, q) ==
    IF p = q THEN 0
    ELSE IF \/ p.CommitPosition < q.CommitPosition
            \/ p.CommitPosition = q.CommitPosition /\ p.PreparePosition < q.PreparePosition
    THEN -1 ELSE 1

Latest(positions) ==
    IF positions = {} THEN NotExistsPosition
    ELSE CHOOSE p \in positions : \A q \in positions : ComparePositions(q, p) <= 0

Matching(rows, holds(_)) == SelectSeq(rows, LAMBDA row : holds(row.document))

\* The lookups of a check's criteria: SQLite leaves out the redundant ones.
latestCriteriaQueries(criteria) ==
    LET encoded == {EncodeCriterion(criteria[i].Tags) : i \in DOMAIN criteria} IN
    IF backend = "sqlite" THEN minimalCriteria(encoded) ELSE encoded

\* The latest position that a lookup finds, as the writer reads it.
latestPreparedCriteriaPosition(queries) ==
    LET found == {Matching(stored, LAMBDA doc : orisun_criterion_sql(doc, c)) : c \in queries} IN
    Latest({PositionOf(Last(rows)) : rows \in found \ {<<>>}})

latestCriteriaPosition(criteria) == latestPreparedCriteriaPosition(latestCriteriaQueries(criteria))

\* Fault: the first check that stands is enough.
AnyCheck(checks) ==
    checks = <<>> \/ \E i \in DOMAIN checks : latestCriteriaPosition(checks[i].Criteria) = checks[i].Position

ChecksPass(checks) ==
    \A i \in DOMAIN checks : latestCriteriaPosition(checks[i].Criteria) = checks[i].Position

validatePostgresSaveInput(events, checks) ==
    IF \E i \in DOMAIN events : events[i].EventType = "" \/ events[i].EventId \notin UUIDs
    THEN "Internal"
    ELSE Require(\A i \in DOMAIN checks : ValidateReadCriteria(checks[i].Criteria), "InvalidArgument")

\* A request that PostgreSQL would refuse is refused before it joins a flush.
prepareSave(events, checks) == validatePostgresSaveInput(events, checks)

PostgresSavePrepared(events, boundary, checks) ==
    Then(Require(events # <<>> /\ boundary = Boundary, "InvalidArgument"),
    Then(prepareSave(events, checks), Require(ChecksPass(checks), "AlreadyExists")))

SqliteSavePrepared(events, boundary, checks) ==
    Then(Require(events # <<>> /\ boundary = Boundary, "InvalidArgument"),
         Require(ChecksPass(checks), "AlreadyExists"))

\* What the backend answers to a prepared save.
SavePrepared(events, boundary, checks) ==
    IF backend = "postgres" THEN PostgresSavePrepared(events, boundary, checks)
    ELSE SqliteSavePrepared(events, boundary, checks)

\* The text of a position: its two numbers, with a colon between them.
WriteID(p) == <<p.CommitPosition, p.PreparePosition>>

TextValue(text) == [type |-> "text", text |-> text]

\* The stored document, with the envelope's fields that criteria name.
positionedDocument(event) ==
    WithFields(event.DataJSON, [key \in {"__eventId", "__eventType"} |->
                                  TextValue(IF key = "__eventId" THEN event.EventId ELSE event.EventType)])

\* SQLite's ids begin at one and the last is also the transaction id; those of
\* PostgreSQL begin at zero and the transaction id is one more than the last.
FirstID == Len(stored) + (IF backend = "sqlite" THEN 1 ELSE 0)

\* The rows of an accepted save.
insertEventBatch(events) ==
    LET last == FirstID + Len(events) - 1
        tx == IF backend = "sqlite" THEN last ELSE last + 1
    IN  [i \in DOMAIN events |->
            [CommitPosition |-> tx, PreparePosition |-> FirstID + i - 1,
             document |-> positionedDocument(events[i]),
             metadata |-> events[i].MetadataJSON,
             writeId |-> WriteID([CommitPosition |-> tx, PreparePosition |-> last])]]

-----------------------------------------------------------------------------
(* Backends: reads *)

scanReadEventRow(row) ==
    [EventId |-> row.document["__eventId"].text, EventType |-> row.document["__eventType"].text,
     Data |-> WithoutStorageEnvelope(row.document), Metadata |-> row.metadata,
     CommitPosition |-> row.CommitPosition, PreparePosition |-> row.PreparePosition,
     WriteId |-> row.writeId]

\* The position is inclusive in both directions.
FromCursor(row, from, direction) ==
    from # Nil => LET c == ComparePositions(PositionOf(row), from) IN IF direction = "DESC" THEN c <= 0 ELSE c >= 0

PageSize(count) ==
    IF count = 0 THEN DefaultReadBatchSize
    ELSE IF count > MaxReadBatchSize THEN MaxReadBatchSize ELSE count

InOrder(rows, direction) == IF direction = "DESC" THEN Reverse(rows) ELSE rows

UpTo(count, rows) == SubSeq(rows, 1, IF Len(rows) < count THEN Len(rows) ELSE count)

Scanned(rows) == [i \in DOMAIN rows |-> scanReadEventRow(rows[i])]

\* The rows that hold, in the order of a direction, as far as the count goes.
Page(holds(_), direction, count) ==
    Scanned(UpTo(count, InOrder(SelectSeq(stored, holds), direction)))

\* A code, and the rows of one page.
SqliteGetBatch(req) ==
    IF req = Nil \/ ~ValidateQuery(req.Query) \/ req.Boundary # Boundary
    THEN [code |-> "InvalidArgument"]
    ELSE LET criteria == EncodeQueryCriteria(req.Query)
             holds(row) == /\ buildCriteriaSQL(row.document, criteria)
                           /\ FromCursor(row, req.FromPosition, req.Direction)
         IN  [code |-> "OK", batch |-> Page(holds, req.Direction, PageSize(req.Count))]

\* The statement of PostgreSQL; its barrier for rows of open transactions is
\* that of PostgresStore.
get_matching_events_v4(criteria, after, sort_dir, max_count) ==
    LET used == {i \in DOMAIN criteria : DOMAIN criteria[i] # {}}
        holds(row) ==
            /\ used # {} => \E i \in used : orisun_criterion_sql(row.document, criteria[i])
            /\ after # Nil => LET c == ComparePositions(PositionOf(row), after) IN
                              IF sort_dir = "ASC" THEN c >= 0 ELSE c <= 0
    IN  Page(holds, sort_dir, max_count)

PostgresGetBatch(req) ==
    IF req = Nil \/ ~ValidateQuery(req.Query) \/ req.Boundary # Boundary
    THEN [code |-> "InvalidArgument"]
    ELSE [code |-> "OK",
          batch |-> get_matching_events_v4(EncodeQueryCriteria(req.Query), req.FromPosition,
                                           req.Direction, PageSize(req.Count))]

GetBatch(req) == IF backend = "sqlite" THEN SqliteGetBatch(req) ELSE PostgresGetBatch(req)

\* The last row of each lookup that found any, by index.
LastScanned(lookups) ==
    [i \in {j \in DOMAIN lookups : lookups[j] # <<>>} |-> scanReadEventRow(Last(lookups[i]))]

\* The latest event of each criterion.
get_latest_by_criteria_v2(criteria) ==
    LastScanned([i \in DOMAIN criteria |->
        Matching(stored, LAMBDA doc : orisun_criterion_sql(doc, criteria[i]))])

\* Matches in the order of the criteria, and the greatest of their positions.
LatestBatch(n, events) ==
    LET context == Latest({PositionOf(events[i]) : i \in DOMAIN events}) IN
    [Matches |-> [i \in 1 .. n |->
        IF i \in DOMAIN events THEN [Found |-> TRUE, Event |-> events[i]] ELSE [Found |-> FALSE]],
     ContextCommitPosition |-> context.CommitPosition,
     ContextPreparePosition |-> context.PreparePosition]

SqliteGetLatest(query) ==
    IF \/ ~ValidateReadCriteria(query.Criteria)
       \/ query.Boundary # Boundary
       \/ query.Criteria = <<>>
       \/ \E i \in DOMAIN query.Criteria : query.Criteria[i].Tags = <<>>
    THEN [code |-> "InvalidArgument"]
    ELSE [code |-> "OK",
          batch |-> LatestBatch(Len(query.Criteria), LastScanned([i \in DOMAIN query.Criteria |->
              Matching(stored, LAMBDA doc :
                  buildCriteriaSQL(doc, <<EncodeCriterion(query.Criteria[i].Tags)>>))]))]

getReadCriteriaAsList(criteria) ==
    LET tagged == SelectSeq(criteria, LAMBDA c : c.Tags # <<>>) IN
    [i \in DOMAIN tagged |-> EncodeCriterion(tagged[i].Tags)]

PostgresGetLatest(query) ==
    LET criteria == getReadCriteriaAsList(query.Criteria) IN
    IF \/ ~ValidateReadCriteria(query.Criteria)
       \/ query.Boundary # Boundary
       \/ query.Criteria = <<>>
       \/ Len(criteria) # Len(query.Criteria)
    THEN [code |-> "InvalidArgument"]
    ELSE [code |-> "OK", batch |-> LatestBatch(Len(criteria), get_latest_by_criteria_v2(criteria))]

GetLatest(query) == IF backend = "sqlite" THEN SqliteGetLatest(query) ELSE PostgresGetLatest(query)

\* The context stored with the write, found through the row at its position.
ReadWriteContext(boundary, id) ==
    IF boundary # Boundary THEN [code |-> "InvalidArgument"]
    ELSE LET w == {i \in DOMAIN contexts : contexts[i].id = id} IN
         IF w = {} THEN [code |-> "NotFound"]
         ELSE [code |-> "OK",
               context |-> DecodeWriteContext(id, contexts[CHOOSE i \in w : TRUE].consistency)]

-----------------------------------------------------------------------------
(* The doors: saves.  Each gives a code and, once admitted, what is saved. *)

\* The backend's answer to an admitted save.
Admitted(code, events, boundary, checks) ==
    IF code # "OK" THEN [code |-> code]
    ELSE [code |-> SavePrepared(events, boundary, checks), events |-> events, checks |-> checks]

The(S) == CHOOSE x \in S : TRUE

validateSaveEventsV2Request(req) == Require(req # Nil /\ req.Events # <<>>, "InvalidArgument")

saveEvents(boundary, events, checks) ==
    LET prepared == prepareRequestedEventsForSave(events) IN
    Admitted(Then(BoundaryGate(boundary), Require(prepared # {}, "InvalidArgument")),
             The(prepared), boundary, checks)

saveEventsV2Request(user, req) ==
    LET code == Then(authorizeRequest(user, {"ADMIN", "OPERATIONS"}),
                Then(validateSaveEventsV2Request(req),
                     Require(~RefusedObservations(req.Consistency), "InvalidArgument")))
    IN  IF code # "OK" THEN [code |-> code]
        ELSE saveEvents(req.Boundary, req.Events, ConsistencyChecksFromObservations(req.Consistency))

\* OrisunServer: errors of the preparation carry no code.
saveWithConsistency(events, boundary, observations) ==
    LET prepared == PrepareEventsForSave(events)
        code == Then(Require(~RefusedObservations(observations), "InvalidArgument"),
                Then(BoundaryGate(boundary), Require(prepared # {}, "Unknown")))
    IN  Admitted(code, The(prepared), boundary, ConsistencyChecksFromObservations(observations))

\* SaveEvents of OrisunServer: one query, none without criteria, and no position
\* means that nothing was there.
SingleObservation(query, expectedPosition) ==
    IF query = Nil \/ query.Criteria = <<>> THEN <<>>
    ELSE <<[Query |-> query,
            Position |-> IF expectedPosition = Nil THEN NotExistsPosition ELSE expectedPosition]>>

\* The neutral port: no gate.
AppendPort(events, boundary, consistency) ==
    LET prepared == PrepareEventsForSave(events)
        observations == coreConsistency(consistency)
        code == Then(Require(prepared # {}, "Unknown"),
                     Require(~RefusedObservations(observations), "InvalidArgument"))
    IN  Admitted(code, The(prepared), boundary, ConsistencyChecksFromObservations(observations))

\* A request of a caller at its door; ps are the positions it has observed.
SaveAt(r, ps) ==
    CASE r.door = "grpc" ->
            saveEventsV2Request(r.user, saveEventsV2RequestFromProto(
                [boundary |-> r.boundary,
                 events |-> [i \in DOMAIN r.events |-> ProtoEvent(r.events[i])],
                 consistency |-> [i \in DOMAIN r.observed |->
                     IF r.observed[i] = Nil THEN Nil
                     ELSE [query |-> ProtoQuery(r.observed[i].query), position |-> ProtoPosition(ps[i])]]]))
      [] r.door = "server" ->
            saveWithConsistency(r.events, r.boundary,
                [i \in DOMAIN r.observed |->
                    IF r.observed[i] = Nil THEN Nil
                    ELSE [Query |-> GoQuery(r.observed[i].query), Position |-> ps[i]]])
      [] r.door = "single" ->
            saveWithConsistency(r.events, r.boundary, SingleObservation(GoQuery(r.observed[1].query), ps[1]))
      [] r.door = "port" ->
            AppendPort(r.events, r.boundary,
                [i \in DOMAIN r.observed |-> [Query |-> CoreQuery(r.observed[i].query), Position |-> ps[i]]])

\* Positions that callers name: none, the one of nothing, an invalid one and
\* those of the stored events.
NamedPositions ==
    {Nil, NotExistsPosition, [CommitPosition |-> -1, PreparePosition |-> 0]}
    \cup {PositionOf(stored[i]) : i \in DOMAIN stored}

\* An observation of the neutral port always has a position, and a query without nil.
Expressible(r, ps) ==
    r.door = "port" => \A i \in DOMAIN r.observed :
        r.observed[i] # Nil /\ ps[i] # Nil /\ IsCoreQuery(r.observed[i].query)

\* What an accepted save stores and is told.
AcceptSave(r, ps, checks, rows, last) ==
    /\ stored' = stored \o rows
    /\ contexts' = Append(contexts,
          [id |-> WriteID(last), consistency |-> MarshalConsistency(checks),
           asked |-> [request |-> r, positions |-> ps], before |-> stored])
    /\ reply' = [op |-> "save", code |-> "OK", request |-> r, positions |-> ps,
                 result |-> IF r.door = "grpc"
                            THEN writeResultToProto([WriteId |-> WriteID(last), LogPosition |-> last])
                            ELSE last]

SaveEvents(r, ps) ==
    /\ reply = NoReply
    /\ Len(contexts) < MaxWrites
    /\ Expressible(r, ps)
    /\ \E answer \in {SaveAt(r, ps)} :
          IF answer.code = "OK"
          THEN \E rows \in {insertEventBatch(answer.events)} :
                  AcceptSave(r, ps, answer.checks, rows, PositionOf(Last(rows)))
          ELSE /\ reply' = [op |-> "save", code |-> answer.code, request |-> r, positions |-> ps]
               /\ UNCHANGED <<stored, contexts>>
    /\ UNCHANGED <<backend, enforced, active>>

-----------------------------------------------------------------------------
(* The doors: reads *)

GrpcGetEvents(req) ==
    Checked(Then(Require(req # Nil, "InvalidArgument"),
            Then(Require(req.Count \in 1 .. MaxReadBatchSize, "InvalidArgument"),
            Then(Require(ValidateQuery(req.Query), "InvalidArgument"), BoundaryGate(req.Boundary)))),
            Convert(GetBatch(req), LAMBDA batch : getEventsResponseToProto(Response(batch)).events))

\* OrisunServer leaves the count to the backend.
ServerGetEvents(req) ==
    Checked(Then(Require(req # Nil, "Unknown"), BoundaryGate(req.Boundary)),
            Convert(GetBatch(req), LAMBDA batch : batch))

PortRead(request) ==
    Convert(GetBatch([Boundary |-> request.Boundary,
                      FromPosition |-> storagePosition(request.FromPosition),
                      Count |-> request.Count,
                      Direction |-> storageDirection(request.Direction),
                      Query |-> storageQuery(request.Query)]),
            LAMBDA batch : [i \in DOMAIN batch |-> neutralReadEvent(batch[i])])

ReadAt(r) ==
    CASE r.door = "grpc" ->
            GrpcGetEvents(getEventsRequestFromProto(
                [boundary |-> r.boundary, query |-> ProtoQuery(r.query), count |-> r.count,
                 from_position |-> ProtoPosition(r.from), direction |-> r.direction]))
      [] r.door = "server" ->
            ServerGetEvents([Boundary |-> r.boundary, Query |-> GoQuery(r.query), Count |-> r.count,
                             FromPosition |-> r.from, Direction |-> r.direction])
      [] r.door = "port" ->
            PortRead([Boundary |-> r.boundary, Query |-> CoreQuery(r.query), Count |-> r.count,
                      FromPosition |-> r.from,
                      Direction |-> IF r.direction = "DESC" THEN "DirectionDescending" ELSE "DirectionAscending"])

GetEvents(r) ==
    /\ reply = NoReply
    /\ r.door = "port" => IsCoreQuery(r.query)
    /\ reply' = [op |-> "read", request |-> r] @@ ReadAt(r)
    /\ UNCHANGED <<backend, enforced, active, stored, contexts>>

\* The latest events of criteria: the request is checked before its criteria are
\* taken apart.
GrpcLatest(req) ==
    Checked(Then(Require(req # Nil /\ req.Boundary # "", "InvalidArgument"),
            Then(BoundaryGate(req.Boundary),
            Then(Require(req.Criteria # <<>> /\ ValidateQuery([Criteria |-> req.Criteria]), "InvalidArgument"),
                 Require(\A i \in DOMAIN req.Criteria : req.Criteria[i].Tags # <<>>, "InvalidArgument")))),
            Convert(GetLatest(latestQueryFromRequest(req)),
                    LAMBDA batch : latestResponseToProto(latestBatchResponse(batch, req.Criteria))))

ServerLatest(query) ==
    Checked(BoundaryGate(query.Boundary), Convert(GetLatest(query), LAMBDA batch : batch))

\* A match in the shape of the port.
PortMatch(match) ==
    IF match.Found THEN [Found |-> TRUE, Event |-> neutralReadEvent(match.Event)] ELSE [Found |-> FALSE]

PortLatest(request) ==
    Convert(GetLatest([Boundary |-> request.Boundary, Criteria |-> readCriteria(request.Criteria)]),
            LAMBDA batch :
                [Matches |-> [i \in DOMAIN batch.Matches |-> PortMatch(batch.Matches[i])],
                 ContextPosition |-> [CommitPosition |-> batch.ContextCommitPosition,
                                      PreparePosition |-> batch.ContextPreparePosition]])

LatestAt(r) ==
    CASE r.door = "grpc" ->
            GrpcLatest(latestRequestFromProto([boundary |-> r.boundary, criteria |-> ProtoQuery(r.query).criteria]))
      [] r.door = "server" -> ServerLatest([Boundary |-> r.boundary, Criteria |-> GoQuery(r.query).Criteria])
      [] r.door = "port" -> PortLatest([Boundary |-> r.boundary, Criteria |-> CoreQuery(r.query).Criteria])

GetLatestByCriteria(r) ==
    /\ reply = NoReply
    /\ r.door # "grpc" => IsCoreQuery(r.query)
    /\ reply' = [op |-> "latest", request |-> r] @@ LatestAt(r)
    /\ UNCHANGED <<backend, enforced, active, stored, contexts>>

\* The first read of a subscription: after its position, whose own row is not sent
\* again, or the latest event if it names none.  An error of the read is Internal
\* for the client.
firstDrain(boundary, query, after) ==
    Convert(GetBatch([Boundary |-> boundary, Query |-> query, FromPosition |-> after,
                      Direction |-> IF after = Nil THEN "DESC" ELSE "ASC",
                      Count |-> IF after = Nil THEN 1 ELSE batchSize]),
            LAMBDA batch : SelectSeq(batch, LAMBDA event : after = Nil \/ PositionOf(event) # after))

Sent(answer) ==
    IF answer.code # "OK" THEN [code |-> "Internal"]
    ELSE [code |-> "OK", result |-> [i \in DOMAIN answer.result |->
                            readEventToProto(neutralSubscriptionReadEvent(answer.result[i]))]]

Stream(boundary, query, after) ==
    Checked(Then(BoundaryGate(boundary), Require(ValidateQuery(query), "InvalidArgument")),
            Sent(firstDrain(boundary, query, after)))

CatchUpSubscribeToEvents(r) ==
    /\ reply = NoReply
    /\ reply' = [op |-> "stream", request |-> r] @@
          Stream(r.boundary, subscriptionQuery(coreQueryFromProto(ProtoQuery(r.query))),
                 subscriptionPosition(corePositionFromProto(ProtoPosition(r.from))))
    /\ UNCHANGED <<backend, enforced, active, stored, contexts>>

\* The parts of a write id are two numbers of a stored position.
ValidateWriteContextRequest(boundary, id) ==
    Require(boundary # "" /\ Len(id) = 2 /\ \A i \in DOMAIN id : id[i] >= 0, "InvalidArgument")

GetWriteContext(boundary, id) ==
    LET code == Then(ValidateWriteContextRequest(boundary, id),
                Then(BoundaryGate(boundary), ReadWriteContext(boundary, id).code))
        context == ReadWriteContext(boundary, id).context
    IN
    /\ reply = NoReply
    /\ reply' = [op |-> "context", request |-> id] @@
          IF code # "OK" THEN [code |-> code]
          ELSE [code |-> "OK",
                result |-> [write_id |-> context.WriteId,
                            consistency |-> [i \in DOMAIN context.Consistency |->
                                [query |-> queryToProto(context.Consistency[i].Query),
                                 position |-> positionToProto(context.Consistency[i].Position)]]]]
    /\ UNCHANGED <<backend, enforced, active, stored, contexts>>

\* The caller has its answer.
Return ==
    /\ reply # NoReply
    /\ reply' = NoReply
    /\ UNCHANGED <<backend, enforced, active, stored, contexts>>

ServiceNext ==
    \/ EnableBoundaryActivationGate \/ ActivateServedBoundary \/ Return
    \/ \E r \in SaveRequests :
          \E ps \in [{i \in DOMAIN r.observed : r.observed[i] # Nil} -> NamedPositions] : SaveEvents(r, ps)
    \/ \E r \in ReadRequests : \E from \in NamedPositions : GetEvents([r EXCEPT !.from = from])
    \/ \E r \in LatestRequests : GetLatestByCriteria(r)
    \/ \E r \in StreamRequests : \E from \in NamedPositions :
          CatchUpSubscribeToEvents([r EXCEPT !.from = from])
    \/ \E id \in {WriteID(p) : p \in NamedPositions \ {Nil}} \cup {<<0>>} :
          \E boundary \in {"", Boundary} : GetWriteContext(boundary, id)

-----------------------------------------------------------------------------
(* Properties *)

\* The latest position of what a caller's query selects among rows.
Observation(query, rows) ==
    Latest({PositionOf(rows[i]) : i \in {j \in DOMAIN rows : Selects(query, rows[j].document)}})

\* What a caller's observations come to: the queries with their positions.
Observations(asked) ==
    LET r == asked.request
        at(i) == IF r.door = "single" /\ asked.positions[i] = Nil THEN NotExistsPosition ELSE asked.positions[i]
    IN  {[query |-> GoQuery(r.observed[i].query), position |-> at(i)] :
            i \in {j \in DOMAIN r.observed :
                     r.door = "single" => r.observed[j].query # Nil /\ r.observed[j].query # <<>>}}

\* Two queries select the same stored documents.
SameSelection(p, q) ==
    \A i \in DOMAIN stored : Selects(p, stored[i].document) <=> Selects(q, stored[i].document)

\* The context of a write explains it: what GetWriteContext answers are the
\* queries and positions that the writer named, no matter how they were repeated,
\* ordered or spelled, and every one of them stood when the write was saved
\* (ConsistencyChecksFromObservations, MarshalConsistency, DecodeWriteContext).
ContextExplainsWrite ==
    reply.op = "context" /\ reply.code = "OK" =>
        LET write == contexts[CHOOSE i \in DOMAIN contexts : contexts[i].id = reply.request]
            asked == Observations(write.asked)
            told == {[query |-> domainQueryFromProto(c.query), position |-> domainPositionFromProto(c.position)] :
                        c \in {reply.result.consistency[i] : i \in DOMAIN reply.result.consistency}}
            same(o, p) == o.position = p.position /\ SameSelection(o.query, p.query)
        IN
        /\ \A o \in asked : \E p \in told : same(o, p)
        /\ \A p \in told : \E o \in asked : same(o, p)
        /\ \A o \in asked : Observation(o.query, write.before) = o.position

\* An event as a caller of any door sees it.
Plain(event) ==
    IF "event_id" \in DOMAIN event
    THEN <<event.event_id, event.event_type, event.data, event.metadata,
           event.position.commit_position, event.position.prepare_position, event.write_id>>
    ELSE IF "EventID" \in DOMAIN event
    THEN <<event.EventID, event.EventType, event.Data, event.Metadata,
           event.Position.CommitPosition, event.Position.PreparePosition, event.WriteID>>
    ELSE <<event.EventId, event.EventType, event.Data, event.Metadata,
           event.CommitPosition, event.PreparePosition, event.WriteId>>

\* The events as their writers gave them, at the positions they have been given:
\* what readers should see.  No data and no metadata are empty objects.
Public ==
    LET given(c) == [i \in DOMAIN c.asked.request.events |->
            LET e == c.asked.request.events[i]
                none == IF c.asked.request.door = "grpc" THEN {"empty", "null"} ELSE {"empty"}
            IN  <<e.EventId, e.EventType, IF e.Data.kind = "object" THEN e.Data.fields ELSE <<>>,
                  IF e.Metadata.kind \in none THEN EmptyObject ELSE e.Metadata>>]
        all == FlattenSeq([n \in DOMAIN contexts |-> given(contexts[n])])
    IN  [i \in DOMAIN stored |->
            all[i] \o <<stored[i].CommitPosition, stored[i].PreparePosition, stored[i].writeId>>]

\* The indices a read asks for, in the order it asks for them.
Asked(query, from, descending, count) ==
    LET wanted == {i \in DOMAIN stored :
                     /\ Selects(query, stored[i].document)
                     /\ from # Nil => IF descending THEN ComparePositions(PositionOf(stored[i]), from) # 1
                                      ELSE ComparePositions(PositionOf(stored[i]), from) # -1}
        nth(n) == CHOOSE i \in wanted :
                     n = Cardinality({j \in wanted : IF descending THEN j >= i ELSE j <= i})
        all == [n \in 1 .. Cardinality(wanted) |-> nth(n)]
    IN  SubSeq(all, 1, IF Len(all) < count THEN Len(all) ELSE count)

\* The criteria of a stream may be nil.
StreamQuery(q) == IF q = Nil THEN Nil ELSE [Criteria |-> [i \in DOMAIN q |-> [Tags |-> IF q[i] = Nil THEN <<>> ELSE q[i]]]]

\* No count means the default, and no page is larger than the largest.
Wanted(count) ==
    IF count = 0 THEN DefaultReadBatchSize ELSE CHOOSE n \in {count, MaxReadBatchSize} : n <= count /\ n <= MaxReadBatchSize

ReadMeans ==
    LET r == reply.request
        asked == Asked(GoQuery(r.query), r.from, r.direction = "DESC", Wanted(r.count))
        public == Public
    IN  [i \in DOMAIN reply.result |-> Plain(reply.result[i])] = [i \in DOMAIN asked |-> public[asked[i]]]

StreamMeans ==
    LET r == reply.request
        asked == IF r.from = Nil THEN Asked(StreamQuery(r.query), Nil, TRUE, 1)
                 ELSE SelectSeq(Asked(StreamQuery(r.query), r.from, FALSE, batchSize),
                                LAMBDA i : PositionOf(stored[i]) # r.from)
        public == Public
    IN  [i \in DOMAIN reply.result |-> Plain(reply.result[i])] = [i \in DOMAIN asked |-> public[asked[i]]]

\* The answers for each criterion and the position of them all.
LatestMeans ==
    LET query == GoQuery(reply.request.query)
        grpc == reply.request.door = "grpc"
        entries == IF grpc THEN reply.result.results ELSE reply.result.Matches
        position == CASE grpc -> domainPositionFromProto(reply.result.context_position)
                      [] reply.request.door = "port" -> reply.result.ContextPosition
                      [] OTHER -> [CommitPosition |-> reply.result.ContextCommitPosition,
                                   PreparePosition |-> reply.result.ContextPreparePosition]
        found(i) == IF grpc THEN entries[i].event # Nil ELSE entries[i].Found
        event(i) == IF grpc THEN entries[i].event ELSE entries[i].Event
        hits(i) == {j \in DOMAIN stored : CriterionHolds(query.Criteria[i], stored[j].document)}
    IN
    /\ position = Observation(query, stored)
    /\ DOMAIN entries = DOMAIN query.Criteria
    /\ \A i \in DOMAIN entries :
          /\ found(i) <=> hits(i) # {}
          /\ found(i) => Plain(event(i)) = Public[CHOOSE j \in hits(i) : \A k \in hits(i) : k <= j]

\* A save is told the position of its last event, and a conflict only if one of
\* its observations does not stand.
SaveMeans ==
    /\ reply.code = "OK" =>
          IF reply.request.door = "grpc"
          THEN /\ reply.result.write_id = stored[Len(stored)].writeId
               /\ domainPositionFromProto(reply.result.log_position) = PositionOf(stored[Len(stored)])
          ELSE reply.result = PositionOf(stored[Len(stored)])
    /\ reply.code = "AlreadyExists" =>
          \E o \in Observations([request |-> reply.request, positions |-> reply.positions]) :
              Observation(o.query, stored) # o.position

\* The answer of every door means the request: a page holds the first events the
\* caller's query selects, from its position on, in its direction and as they
\* were saved; the latest events and the context position are those of the
\* criteria; a conflict is one (GetBatch, GetLatestByCriteria, the adapters).
RepliesMeanRequests ==
    /\ reply.op = "read" /\ reply.code = "OK" => ReadMeans
    /\ reply.op = "stream" /\ reply.code = "OK" => StreamMeans
    /\ reply.op = "latest" /\ reply.code = "OK" => LatestMeans
    /\ reply.op = "save" => SaveMeans
=============================================================================
