------------------------- MODULE EventStoreMessages -------------------------
(***************************************************************************)
(* The shapes of a request and of its answer on the way between a caller   *)
(* and a backend.  There are three doors: gRPC, whose messages have the    *)
(* lower-case fields of the protocol; the embedded OrisunServer, which     *)
(* takes the Go requests as they are; and the neutral port of the boundary *)
(* slices, whose queries are values without nil in them.                   *)
(***************************************************************************)
EXTENDS TagQueries

-----------------------------------------------------------------------------
(* gRPC to Go *)

domainPositionFromProto(p) ==
    IF p = Nil THEN Nil
    ELSE [CommitPosition |-> p.commit_position, PreparePosition |-> p.prepare_position]

TagFromProto(t) == [Key |-> t.key, Value |-> t.value, Operator |-> t.operator]

\* Nil criteria and nil tags stay nil.
domainCriteriaFromProto(criteria) ==
    [i \in DOMAIN criteria |->
        IF criteria[i] = Nil THEN Nil
        ELSE [Tags |-> [j \in DOMAIN criteria[i].tags |->
                IF criteria[i].tags[j] = Nil THEN Nil ELSE TagFromProto(criteria[i].tags[j])]]]

domainQueryFromProto(q) ==
    IF q = Nil THEN Nil ELSE [Criteria |-> domainCriteriaFromProto(q.criteria)]

\* Nil events stay nil.
eventsToSaveFromProto(events) ==
    [i \in DOMAIN events |->
        IF events[i] = Nil THEN Nil
        ELSE [EventId |-> events[i].event_id, EventType |-> events[i].event_type,
              Data |-> events[i].data, Metadata |-> events[i].metadata]]

\* Nil observations stay nil.
saveEventsV2RequestFromProto(req) ==
    IF req = Nil THEN Nil
    ELSE [Boundary |-> req.boundary,
          Events |-> eventsToSaveFromProto(req.events),
          Consistency |-> [i \in DOMAIN req.consistency |->
             LET o == req.consistency[i] IN
             IF o = Nil THEN Nil
             ELSE [Query |-> domainQueryFromProto(o.query), Position |-> domainPositionFromProto(o.position)]]]

\* Every direction but DESC is ascending.
getEventsRequestFromProto(req) ==
    IF req = Nil THEN Nil
    ELSE [Query |-> domainQueryFromProto(req.query),
          FromPosition |-> domainPositionFromProto(req.from_position),
          Count |-> req.count,
          Direction |-> IF req.direction = "DESC" THEN "DESC" ELSE "ASC",
          Boundary |-> req.boundary]

latestRequestFromProto(req) ==
    IF req = Nil THEN Nil
    ELSE [Boundary |-> req.boundary, Criteria |-> domainCriteriaFromProto(req.criteria)]

corePositionFromProto(p) ==
    IF p = Nil THEN Nil
    ELSE [CommitPosition |-> p.commit_position, PreparePosition |-> p.prepare_position]

EmptyTag == [Key |-> "", Value |-> "", Operator |-> ""]

\* Nil criteria become criteria without tags and nil tags empty tags.
coreQueryFromProto(q) ==
    [Criteria |-> IF q = Nil THEN <<>>
        ELSE [i \in DOMAIN q.criteria |->
            IF q.criteria[i] = Nil THEN [Tags |-> <<>>]
            ELSE [Tags |-> [j \in DOMAIN q.criteria[i].tags |->
                    IF q.criteria[i].tags[j] = Nil THEN EmptyTag ELSE TagFromProto(q.criteria[i].tags[j])]]]]

-----------------------------------------------------------------------------
(* Go to gRPC *)

positionToProto(p) ==
    IF p = Nil THEN Nil
    ELSE [commit_position |-> p.CommitPosition, prepare_position |-> p.PreparePosition]

criterionToProto(c) ==
    IF c = Nil THEN Nil
    ELSE [tags |-> [i \in DOMAIN c.Tags |->
            IF c.Tags[i] = Nil THEN Nil
            ELSE [key |-> c.Tags[i].Key, value |-> c.Tags[i].Value, operator |-> c.Tags[i].Operator]]]

queryToProto(q) ==
    IF q = Nil THEN Nil ELSE [criteria |-> [i \in DOMAIN q.Criteria |-> criterionToProto(q.Criteria[i])]]

writeResultToProto(r) ==
    IF r = Nil THEN Nil ELSE [log_position |-> positionToProto(r.LogPosition), write_id |-> r.WriteId]

fillProtoEventRow(event) ==
    [event_id |-> event.EventId, event_type |-> event.EventType, data |-> event.Data,
     metadata |-> event.Metadata, write_id |-> event.WriteId,
     position |-> positionToProto(event.Position)]

getEventsResponseToProto(response) ==
    [events |-> [i \in DOMAIN response.Events |-> fillProtoEventRow(response.Events[i])]]

latestResponseToProto(response) ==
    [results |-> [i \in DOMAIN response.Results |->
        LET r == response.Results[i] IN
        [criterion |-> criterionToProto(r.Criterion),
         event |-> IF r.Event = Nil THEN Nil ELSE fillProtoEventRow(r.Event)]],
     context_position |-> positionToProto(response.ContextPosition)]

\* An event of a subscription stream.
readEventToProto(event) ==
    [event_id |-> event.EventID, event_type |-> event.EventType, data |-> event.Data,
     metadata |-> event.Metadata, write_id |-> event.WriteID,
     position |-> [commit_position |-> event.Position.CommitPosition,
                   prepare_position |-> event.Position.PreparePosition]]

-----------------------------------------------------------------------------
(* Inside the server *)

\* A row of a read batch as an event.
fillEvent(read) ==
    [WriteId |-> read.WriteId, EventId |-> read.EventId, EventType |-> read.EventType,
     Data |-> read.Data, Metadata |-> read.Metadata,
     Position |-> [CommitPosition |-> read.CommitPosition, PreparePosition |-> read.PreparePosition]]

Response(batch) == [Events |-> [i \in DOMAIN batch |-> fillEvent(batch[i])]]

latestQueryFromRequest(req) ==
    [Boundary |-> req.Boundary,
     Criteria |-> [i \in DOMAIN req.Criteria |->
        [Tags |-> [j \in DOMAIN req.Criteria[i].Tags |->
            LET t == req.Criteria[i].Tags[j] IN
            [Key |-> t.Key, Value |-> t.Value, Operator |-> t.Operator]]]]]

latestBatchResponse(batch, criteria) ==
    [Results |-> [i \in DOMAIN criteria |->
        [Criterion |-> criteria[i],
         Event |-> IF batch.Matches[i].Found THEN fillEvent(batch.Matches[i].Event) ELSE Nil]],
     ContextPosition |-> [CommitPosition |-> batch.ContextCommitPosition,
                          PreparePosition |-> batch.ContextPreparePosition]]

subscriptionPosition(p) ==
    IF p = Nil THEN Nil
    ELSE [CommitPosition |-> p.CommitPosition, PreparePosition |-> p.PreparePosition]

\* A query without criteria is no query.
subscriptionQuery(query) ==
    IF query.Criteria = <<>> THEN Nil
    ELSE [Criteria |-> [i \in DOMAIN query.Criteria |->
            [Tags |-> [j \in DOMAIN query.Criteria[i].Tags |->
                LET t == query.Criteria[i].Tags[j] IN
                [Key |-> t.Key, Value |-> t.Value, Operator |-> t.Operator]]]]]

neutralSubscriptionReadEvent(event) ==
    [EventID |-> event.EventId, WriteID |-> event.WriteId, EventType |-> event.EventType,
     Data |-> event.Data, Metadata |-> event.Metadata,
     Position |-> [CommitPosition |-> event.CommitPosition, PreparePosition |-> event.PreparePosition]]

-----------------------------------------------------------------------------
(* The neutral port *)

storagePosition(p) ==
    IF p = Nil THEN Nil
    ELSE [CommitPosition |-> p.CommitPosition, PreparePosition |-> p.PreparePosition]

storageQuery(query) ==
    IF query.Criteria = <<>> THEN Nil
    ELSE [Criteria |-> [i \in DOMAIN query.Criteria |->
            [Tags |-> [j \in DOMAIN query.Criteria[i].Tags |->
                LET t == query.Criteria[i].Tags[j] IN
                [Key |-> t.Key, Value |-> t.Value, Operator |-> t.Operator]]]]]

storageDirection(direction) == IF direction = "DirectionDescending" THEN "DESC" ELSE "ASC"

readCriteria(criteria) ==
    [i \in DOMAIN criteria |->
        [Tags |-> [j \in DOMAIN criteria[i].Tags |->
            LET t == criteria[i].Tags[j] IN
            [Key |-> t.Key, Value |-> t.Value, Operator |-> t.Operator]]]]

neutralReadEvent(event) ==
    [EventID |-> event.EventId, WriteID |-> event.WriteId, EventType |-> event.EventType,
     Data |-> event.Data, Metadata |-> event.Metadata,
     Position |-> [CommitPosition |-> event.CommitPosition, PreparePosition |-> event.PreparePosition]]

\* A position of the neutral port that stands for "none" keeps its value: the
\* observation's position is never nil.
coreConsistency(consistency) ==
    [i \in DOMAIN consistency |->
        [Query |-> storageQuery(consistency[i].Query), Position |-> storagePosition(consistency[i].Position)]]

-----------------------------------------------------------------------------
(* Event data *)

EmptyObject == [kind |-> "object", fields |-> <<>>]

IsReservedKey(key) == key \in ReservedKeys

\* The prepared object of a JSON text: nothing for what is not an object or, in
\* event data, has a reserved key.
prepareJSONObjectJSON(value, validateData) ==
    CASE value.kind \in {"empty", "null"} -> {EmptyObject}
      [] value.kind = "object" ->
            IF validateData /\ \E key \in DOMAIN value.fields : IsReservedKey(key) THEN {} ELSE {value}
      [] OTHER -> {}

prepareEventDataJSON(value) == prepareJSONObjectJSON(value, TRUE)

\* Metadata of the embedding APIs may be any JSON.
prepareJSONValue(value) ==
    CASE value.kind = "empty" -> {EmptyObject}
      [] value.kind = "invalid" -> {}
      [] OTHER -> {value}

\* The prepared events of gRPC, whose metadata is an object; refused as a whole.
prepareRequestedEventsForSave(events) ==
    IF \E i \in DOMAIN events :
        \/ events[i] = Nil
        \/ prepareEventDataJSON(events[i].Data) = {}
        \/ prepareJSONObjectJSON(events[i].Metadata, FALSE) = {}
    THEN {}
    ELSE {[i \in DOMAIN events |->
            [EventId |-> events[i].EventId, EventType |-> events[i].EventType,
             DataJSON |-> CHOOSE d \in prepareEventDataJSON(events[i].Data) : TRUE,
             MetadataJSON |-> CHOOSE m \in prepareJSONObjectJSON(events[i].Metadata, FALSE) : TRUE]]}

\* The prepared events of the embedding APIs.
PrepareEventsForSave(events) ==
    IF \E i \in DOMAIN events :
        prepareEventDataJSON(events[i].Data) = {} \/ prepareJSONValue(events[i].Metadata) = {}
    THEN {}
    ELSE {[i \in DOMAIN events |->
            [EventId |-> events[i].EventId, EventType |-> events[i].EventType,
             DataJSON |-> CHOOSE d \in prepareEventDataJSON(events[i].Data) : TRUE,
             MetadataJSON |-> CHOOSE m \in prepareJSONValue(events[i].Metadata) : TRUE]]}

\* The stored document: the application's fields under the envelope's.
WithFields(object, values) ==
    [key \in DOMAIN object.fields \cup DOMAIN values |->
        IF key \in DOMAIN values THEN values[key] ELSE object.fields[key]]

\* The fields a reader sees.
WithoutStorageEnvelope(document) ==
    [key \in {k \in DOMAIN document : ~IsReservedKey(k)} |-> document[key]]
=============================================================================
