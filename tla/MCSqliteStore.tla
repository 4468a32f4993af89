---------------------------- MODULE MCSqliteStore ----------------------------
(***************************************************************************)
(* Instances of SqliteStore and EventStoreService for TLC: a behaviour is  *)
(* of one or of the other, with the other one at rest.                     *)
(***************************************************************************)
EXTENDS SqliteStore, EventStoreService, TLC

CONSTANTS a, b, r1, r2, r3

\* r1 has two events; r2 depends on the first of them and r3 on both, with a
\* criterion that the other one covers.
MCDocs == (r1 :> <<{a}, {b}>>) @@ (r2 :> <<{a, b}>>) @@ (r3 :> <<{b}, {b}>>)
MCQueries == (r1 :> {{{b}}}) @@ (r2 :> {{{a}}}) @@ (r3 :> {{{b}, {a, b}}})

-----------------------------------------------------------------------------
(* Texts, and the numbers among them *)

MCTextOrder ==
    <<"nul", "", "-1", "0.5", "10", "1e1", "2", "A", "__eventId", "__eventType", "b", "eq",
      "f", "gt", "gte", "k", "lt", "lte", "n", "ne", "true", "u1", "u2", "{}">>

Token(negative, digits, fraction, exponent) ==
    [negative |-> negative, digits |-> digits, fraction |-> fraction, exponent |-> exponent]

MCTokens ==
    ("-1" :> Token(TRUE, <<1>>, 0, 0)) @@ ("0.5" :> Token(FALSE, <<0, 5>>, 1, 0)) @@
    ("10" :> Token(FALSE, <<1, 0>>, 0, 0)) @@ ("1e1" :> Token(FALSE, <<1>>, 0, 1)) @@
    ("2" :> Token(FALSE, <<2>>, 0, 0))

-----------------------------------------------------------------------------
(* Events *)

Object(fields) == [kind |-> "object", fields |-> fields]

Text(t) == [type |-> "text", text |-> t]
Number(t) == [type |-> "number", text |-> t]

Event(id, data, metadata) == [EventId |-> id, EventType |-> "A", Data |-> data, Metadata |-> metadata]

Nothing == [kind |-> "empty"]

Ten == Event("u1", Object(("n" :> Number("10")) @@ ("k" :> Text("b"))), Nothing)
Two == Event("u2", Object(("n" :> Number("2")) @@ ("f" :> [type |-> "true", text |-> "true"])), Object(<<>>))
Half == Event("u1", Object(("n" :> Number("0.5")) @@ ("k" :> [type |-> "null", text |-> ""])), [kind |-> "null"])
Word == Event("u2", Object(("n" :> Text("10")) @@ ("f" :> [type |-> "object", text |-> "{}"])), [kind |-> "scalar"])
Reserved == Event("u1", Object("__eventId" :> Text("A")), Nothing)
Unnamed == Event("", [kind |-> "null"], Nothing)

-----------------------------------------------------------------------------
(* Queries: sequences of criteria, which are sequences of tags *)

Tag(key, operator, value) == [Key |-> key, Value |-> value, Operator |-> operator]

Everything == <<<<Tag("__eventType", "eq", "A")>>>>
Exactly == <<<<Tag("n", "gte", "2"), Tag("n", "lte", "2")>>>>
Between == <<<<Tag("n", "lt", "10"), Tag("n", "gt", "-1"), Tag("n", "lt", "10")>>>>
Covered == <<<<Tag("n", "eq", "2")>>, <<Tag("f", "ne", "b"), Tag("n", "", "2")>>, <<Tag("k", "", "b")>>>>
\* Between with its tags in another order.
Respelled == <<<<Tag("n", "gt", "-1"), Tag("n", "lt", "10")>>>>

GoodQueries ==
    {Nil, Exactly, Between, Covered, <<<<>>, <<Tag("k", "gte", "A")>>>>, <<<<Tag("f", "ne", "2")>>>>,
     <<<<Tag("n", "gt", "0.5")>>, <<Tag("n", "lte", "1e1")>>>>}
BadQueries == {<<<<Tag("nul", "", "")>>>>, <<Nil>>, <<<<Nil>>>>, <<<<Tag("k", "like", "b")>>>>}

-----------------------------------------------------------------------------
(* Requests *)

Operator == {"OPERATIONS"}

Saving(door, events, queries) ==
    [door |-> door, user |-> Operator, boundary |-> "b", events |-> events,
     observed |-> [i \in DOMAIN queries |-> [query |-> queries[i]]]]

MCSaveRequests ==
    {Saving("grpc", <<Ten>>, <<Exactly, Everything>>),
     Saving("grpc", <<Two, Half>>, <<Between, Respelled>>),
     Saving("server", <<Word, Two>>, <<Covered>>),
     Saving("port", <<Half>>, <<Exactly>>),
     Saving("single", <<Ten, Word>>, <<Between>>),
     Saving("single", <<Unnamed>>, <<Nil>>),
     Saving("grpc", <<Word>>, <<>>),
     Saving("port", <<Reserved>>, <<>>),
     Saving("grpc", <<Nil>>, <<>>),
     Saving("server", <<>>, <<>>),
     Saving("server", <<Two>>, <<Covered \o Between>>),
     [Saving("grpc", <<Two>>, <<>>) EXCEPT !.user = {"READ"}],
     [Saving("grpc", <<Two>>, <<>>) EXCEPT !.boundary = "c"],
     [Saving("grpc", <<Two>>, <<>>) EXCEPT !.boundary = "C!"],
     [Saving("grpc", <<Two>>, <<>>) EXCEPT !.observed = <<Nil>>],
     [Saving("server", <<Two>>, <<>>) EXCEPT !.observed = <<Nil, Nil, Nil>>]}

Reading(door, query, count, direction) ==
    [door |-> door, boundary |-> "b", query |-> query, count |-> count, direction |-> direction, from |-> Nil]

MCReadRequests ==
    {Reading("grpc", q, 2, "ASC") : q \in GoodQueries \cup BadQueries}
    \cup {Reading("server", q, 0, "DESC") : q \in GoodQueries \cup BadQueries}
    \cup {Reading("port", q, 3, direction) : q \in {Nil, Covered}, direction \in {"ASC", "DESC"}}
    \cup {Reading(door, Nil, count, "ASC") : door \in {"grpc", "port"}, count \in {0, 5}}

MCLatestRequests ==
    {[door |-> door, boundary |-> boundary, query |-> q] :
        door \in {"grpc", "server", "port"}, boundary \in {"b"},
        q \in (GoodQueries \ {Nil}) \cup BadQueries \cup {<<>>}}

MCStreamRequests == {[boundary |-> "b", query |-> q, from |-> Nil] : q \in GoodQueries \cup BadQueries}

-----------------------------------------------------------------------------
MCInit ==
    \/ Init /\ backend = "none" /\ enforced = FALSE /\ active = {} /\ stored = <<>> /\ contexts = <<>>
            /\ reply = NoReply
    \/ Init /\ ServiceInit

MCNext ==
    \/ backend = "none" /\ Next /\ UNCHANGED serviceVars
    \/ backend # "none" /\ ServiceNext /\ UNCHANGED vars

MCSpec == MCInit /\ [][MCNext]_<<vars, serviceVars>>
=============================================================================
