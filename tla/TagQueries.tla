----------------------------- MODULE TagQueries -----------------------------
(***************************************************************************)
(* Content queries: tags, their validation, their durable encoding, the    *)
(* normalisation of observed queries, and the predicates the two backends  *)
(* render from them.                                                       *)
(*                                                                         *)
(* A document is a function from its top-level keys to values, records of  *)
(* a JSON type and the text ->> gives for it.  Texts are opaque: TextOrder *)
(* lists them in byte order, NulTexts are the ones with a NUL and Tokens   *)
(* splits the ones that are JSON numbers.  Stored numbers are tokens that  *)
(* the engines render as they were written.                                *)
(***************************************************************************)
EXTENDS Integers, Sequences, FiniteSets

LOCAL INSTANCE SequencesExt

CONSTANTS
    Nil,                          \* a nil pointer
    TextOrder,                    \* all texts, in byte order
    NulTexts,                     \* the texts that contain a NUL
    Tokens,                       \* sign, digits, fraction length and exponent of number texts
    ReservedKeys,                 \* the keys with the prefix __
    maxConsistencyObservations,
    maxConsistencyCriteria,
    maxConsistencyTags

Texts == {TextOrder[i] : i \in DOMAIN TextOrder}

ASSUME TextAssumption ==
    /\ \A i, j \in DOMAIN TextOrder : TextOrder[i] = TextOrder[j] => i = j
    /\ NulTexts \subseteq Texts
    /\ DOMAIN Tokens \subseteq Texts
    /\ \A t \in DOMAIN Tokens : Tokens[t].digits # <<>> /\ Tokens[t].fraction < Len(Tokens[t].digits)

Rank(text) == CHOOSE i \in DOMAIN TextOrder : TextOrder[i] = text

-----------------------------------------------------------------------------
(* Numbers *)

Sign(n) == IF n < 0 THEN -1 ELSE IF n > 0 THEN 1 ELSE 0

\* Digits without leading zeros.
Significant(digits) ==
    SubSeq(digits, 1 + Cardinality({i \in DOMAIN digits : \A j \in 1 .. i : digits[j] = 0}), Len(digits))

\* The significant digits of a number token, its decimal magnitude and its sign;
\* zero has no digits and is not negative.
Parts(token, digits) ==
    [digits    |-> digits,
     magnitude |-> IF digits = <<>> THEN token.exponent
                   ELSE token.exponent + Len(digits) - token.fraction,
     negative  |-> digits # <<>> /\ token.negative]

decimalParts(text) == Parts(Tokens[text], Significant(Tokens[text].digits))

\* Digits of one magnitude, the shorter ones padded with zeros.
Digit(digits, i) == IF i <= Len(digits) THEN digits[i] ELSE 0

FirstSign(differences) == IF differences = <<>> THEN 0 ELSE Sign(Head(differences))

CompareDigits(a, b) ==
    FirstSign(SelectSeq([i \in DOMAIN a \cup DOMAIN b |-> Digit(a, i) - Digit(b, i)],
                        LAMBDA d : d # 0))

\* Numbers without their signs.
CompareSizes(x, y) ==
    IF x.digits = <<>> \/ y.digits = <<>> THEN Sign(Len(x.digits) - Len(y.digits))
    ELSE IF x.magnitude # y.magnitude THEN Sign(x.magnitude - y.magnitude)
    ELSE CompareDigits(x.digits, y.digits)

CompareParts(x, y) ==
    (IF x.negative THEN -1 ELSE 1) * (IF x.negative # y.negative THEN 1 ELSE CompareSizes(x, y))

\* The sign of the difference of two numbers; other texts are incomparable.
CompareJSONNumbers(a, b) ==
    IF {a, b} \subseteq DOMAIN Tokens THEN {CompareParts(decimalParts(a), decimalParts(b))} ELSE {}

-----------------------------------------------------------------------------
(* Validation and encoding *)

Operators == {"eq", "ne", "gt", "gte", "lt", "lte"}

\* The operators a text stands for; none if it is unsupported.
CanonicalTagOperator(operator) ==
    IF operator = "" THEN {"eq"} ELSE Operators \cap {operator}

ValidateTag(tag) ==
    /\ tag.Key # ""
    /\ {tag.Key, tag.Value} \cap NulTexts = {}
    /\ CanonicalTagOperator(tag.Operator) # {}

ValidateQuery(query) ==
    query # Nil =>
        \A i \in DOMAIN query.Criteria :
            /\ query.Criteria[i] # Nil
            /\ \A j \in DOMAIN query.Criteria[i].Tags :
                  query.Criteria[i].Tags[j] # Nil /\ ValidateTag(query.Criteria[i].Tags[j])

ValidateReadCriteria(criteria) ==
    \A i \in DOMAIN criteria : \A j \in DOMAIN criteria[i].Tags : ValidateTag(criteria[i].Tags[j])

\* The predicates that tags give for one key.
PredicatesFor(tags, key) ==
    LET own == SelectSeq(tags, LAMBDA tag : tag.Key = key) IN
    [i \in DOMAIN own |->
        [operator |-> CHOOSE op \in CanonicalTagOperator(own[i].Operator) : TRUE, value |-> own[i].Value]]

IsEquality(predicates) == Len(predicates) = 1 /\ predicates[1].operator = "eq"

\* Fault: of the predicates on one key the last one stays.
EncodeLast(tags) ==
    [key \in {tags[i].Key : i \in DOMAIN tags} |->
        LET all == PredicatesFor(tags, key)
            last == <<all[Len(all)]>>
        IN  IF IsEquality(last) THEN [kind |-> "text", text |-> last[1].value]
            ELSE [kind |-> "list", predicates |-> last]]

\* A criterion as it is stored: one equality is its text, the other predicates
\* on a key are a list.
EncodeCriterion(tags) ==
    [key \in {tags[i].Key : i \in DOMAIN tags} |->
        LET all == PredicatesFor(tags, key) IN
        IF IsEquality(all) THEN [kind |-> "text", text |-> all[1].value]
        ELSE [kind |-> "list", predicates |-> all]]

EncodeReadCriteria(criteria) == [i \in DOMAIN criteria |-> EncodeCriterion(criteria[i].Tags)]

EncodeQueryCriteria(query) == IF query = Nil THEN <<>> ELSE EncodeReadCriteria(query.Criteria)

DecodeTagPredicates(field) ==
    IF field.kind = "text" THEN <<[operator |-> "eq", value |-> field.text]>> ELSE field.predicates

\* The tags of a stored criterion, by key.
DecodeCriterion(fields) ==
    LET tag(key, p) ==
            [Key |-> key, Value |-> p.value, Operator |-> IF p.operator = "eq" THEN "" ELSE p.operator]
        tags(key) == LET ps == DecodeTagPredicates(fields[key]) IN [i \in DOMAIN ps |-> tag(key, ps[i])]
        keys == SelectSeq(TextOrder, LAMBDA t : t \in DOMAIN fields)
    IN  FlattenSeq([i \in DOMAIN keys |-> tags(keys[i])])

-----------------------------------------------------------------------------
(* Observations *)

NotExistsPosition == [CommitPosition |-> -1, PreparePosition |-> -1]

validateConsistencyPosition(p) ==
    p = NotExistsPosition \/ (p.CommitPosition >= 0 /\ p.PreparePosition >= 0)

\* The tags of a criterion with their operators in canonical form.
Canonical(tag) ==
    LET op == CHOOSE o \in CanonicalTagOperator(tag.Operator) : TRUE IN
    [Key |-> tag.Key, Value |-> tag.Value, Operator |-> IF op = "eq" THEN "" ELSE op]

TagLess(a, b) ==
    IF a.Key # b.Key THEN Rank(a.Key) < Rank(b.Key)
    ELSE IF a.Operator # b.Operator THEN Rank(a.Operator) < Rank(b.Operator)
    ELSE Rank(a.Value) < Rank(b.Value)

Sorted(tags) ==
    [i \in 1 .. Cardinality(tags) |->
        CHOOSE t \in tags : Cardinality({u \in tags : TagLess(u, t)}) = i - 1]

\* A query that can be observed: criteria with tags, and no criterion that asks
\* for two values of one key.
Observable(query) ==
    /\ query # Nil
    /\ query.Criteria # <<>>
    /\ ValidateQuery(query)
    /\ \A i \in DOMAIN query.Criteria :
          LET tags == query.Criteria[i].Tags IN
          /\ tags # <<>>
          /\ \A j, k \in DOMAIN tags :
                Canonical(tags[j]).Operator = "" /\ Canonical(tags[k]).Operator = ""
                /\ tags[j].Key = tags[k].Key => tags[j].Value = tags[k].Value

\* The distinct predicates of a criterion.
DistinctTags(tags) == {Canonical(tags[i]) : i \in DOMAIN tags}

\* Duplicate tags and criteria dropped, both in a fixed order.
normalizeConsistencyQuery(query) ==
    SetToSeq({[Tags |-> Sorted(DistinctTags(query.Criteria[i].Tags))] : i \in DOMAIN query.Criteria})

Sum(f) == FoldLeft(LAMBDA x, y : x + y, 0, f)

\* The criteria and the tags that an observation counts for.
CriteriaIn(o) == IF o = Nil \/ o.Query = Nil THEN <<>> ELSE o.Query.Criteria

TagsIn(criteria) == Sum([i \in DOMAIN criteria |-> IF criteria[i] = Nil THEN 0 ELSE Len(criteria[i].Tags)])

ValidObservation(o) ==
    o # Nil /\ o.Position # Nil /\ validateConsistencyPosition(o.Position) /\ Observable(o.Query)

\* Whether the observations of a request are refused: too many, invalid, or two
\* positions for one query.
RefusedObservations(os) ==
    \/ Len(os) > maxConsistencyObservations
    \/ Sum([i \in DOMAIN os |-> Len(CriteriaIn(os[i]))]) > maxConsistencyCriteria
    \/ Sum([i \in DOMAIN os |-> TagsIn(CriteriaIn(os[i]))]) > maxConsistencyTags
    \/ \E i \in DOMAIN os : ~ValidObservation(os[i])
    \/ \E i, j \in DOMAIN os :
          /\ os[i].Position # os[j].Position
          /\ normalizeConsistencyQuery(os[i].Query) = normalizeConsistencyQuery(os[j].Query)

\* The checks of accepted observations, each query once.
ConsistencyChecksFromObservations(os) ==
    LET check(o) == [Criteria |-> normalizeConsistencyQuery(o.Query), Position |-> o.Position] IN
    FoldLeft(LAMBDA checks, o : IF Contains(checks, check(o)) THEN checks ELSE Append(checks, check(o)),
             <<>>, os)

\* Checks as they are stored with the write, and read from there.
MarshalConsistency(checks) ==
    [i \in DOMAIN checks |->
        [criteria |-> EncodeReadCriteria(checks[i].Criteria),
         transaction_id |-> checks[i].Position.CommitPosition,
         global_id |-> checks[i].Position.PreparePosition]]

DecodeWriteContext(writeID, stored) ==
    [WriteId |-> writeID,
     Consistency |-> [i \in DOMAIN stored |->
        [Query |-> [Criteria |-> [j \in DOMAIN stored[i].criteria |->
                       [Tags |-> DecodeCriterion(stored[i].criteria[j])]]],
         Position |-> [CommitPosition |-> stored[i].transaction_id,
                       PreparePosition |-> stored[i].global_id]]]]

-----------------------------------------------------------------------------
(* The predicates of the backends *)

\* What ->> gives for a key: the text, or nothing for null and a missing key.
sqliteJSONScalarTextExpr(doc, key) ==
    IF key \in DOMAIN doc /\ doc[key].type # "null" THEN {doc[key].text} ELSE {}

TypeIn(doc, key) == IF key \in DOMAIN doc THEN doc[key].type ELSE "missing"

\* What TagSQLOperator makes of the sign of a comparison.
TagSQLOperator(operator, sign) ==
    CASE operator = "gt" -> sign > 0
      [] operator = "gte" -> sign >= 0
      [] operator = "lt" -> sign < 0
      [] operator = "lte" -> sign <= 0

\* strings.Compare, COLLATE BINARY and COLLATE "C".
CompareTexts(a, b) == Sign(Rank(a) - Rank(b))

\* Texts are compared with texts and numbers with numbers.
Compared(operator, type, texts, value) ==
    \E t \in texts :
        \E sign \in CASE type = "text" -> {CompareTexts(t, value)}
                       [] type = "number" -> CompareJSONNumbers(t, value)
                       [] OTHER -> {} :
            TagSQLOperator(operator, sign)

\* One predicate on a stored document.
PredicateHolds(doc, key, p) ==
    CASE p.operator = "eq" -> sqliteJSONScalarTextExpr(doc, key) = {p.value}
      [] p.operator = "ne" -> sqliteJSONScalarTextExpr(doc, key) \notin {{}, {p.value}}
      [] OTHER -> Compared(p.operator, TypeIn(doc, key), sqliteJSONScalarTextExpr(doc, key), p.value)

\* The predicate that a field of an encoded criterion renders to.
renderCriterionPredicate(doc, key, field) ==
    LET ps == DecodeTagPredicates(field) IN
    \A i \in DOMAIN ps : PredicateHolds(doc, key, ps[i])

\* The predicate of a criterion in PostgreSQL.
orisun_criterion_sql(doc, criterion) ==
    \A key \in DOMAIN criterion : renderCriterionPredicate(doc, key, criterion[key])

\* The WHERE of encoded criteria: an OR of those that have keys, if any has.
buildCriteriaSQL(doc, criteria) ==
    LET used == {i \in DOMAIN criteria : DOMAIN criteria[i] # {}} IN
    used # {} => \E i \in used : orisun_criterion_sql(doc, criteria[i])

\* A criterion that another one of the query covers is redundant.
criterionContains(criterion, subset) ==
    /\ DOMAIN subset \subseteq DOMAIN criterion
    /\ \A key \in DOMAIN subset : subset[key] = criterion[key]

minimalCriteria(criteria) ==
    {c \in criteria : \A d \in criteria : criterionContains(c, d) => d = c}

-----------------------------------------------------------------------------
(* What a query means: the reference of the properties *)

Pow10 == <<1, 10, 100, 1000, 10000, 100000, 1000000>>

\* The value of a number text, scaled by a thousand.
Value(text) ==
    LET t == Tokens[text]
        whole == FoldLeft(LAMBDA n, d : 10 * n + d, 0, t.digits)
    IN  (IF t.negative THEN -whole ELSE whole) * Pow10[t.exponent - t.fraction + 4]

Related(operator, x, y) ==
    \/ operator \in {"gt", "gte"} /\ x > y
    \/ operator \in {"lt", "lte"} /\ x < y
    \/ operator \in {"gte", "lte"} /\ x = y

\* A tag holds for a document: equality and inequality compare texts, the other
\* operators compare texts with texts and numbers with numbers.
TagHolds(tag, doc) ==
    /\ TypeIn(doc, tag.Key) \notin {"missing", "null"}
    /\ LET v == doc[tag.Key] IN
       \/ tag.Operator \in {"", "eq"} /\ v.text = tag.Value
       \/ tag.Operator = "ne" /\ v.text # tag.Value
       \/ v.type = "text" /\ Related(tag.Operator, Rank(v.text), Rank(tag.Value))
       \/ /\ v.type = "number"
          /\ tag.Value \in DOMAIN Tokens
          /\ Related(tag.Operator, Value(v.text), Value(tag.Value))

CriterionHolds(criterion, doc) ==
    \A i \in DOMAIN criterion.Tags : TagHolds(criterion.Tags[i], doc)

\* A query selects what one of its criteria does; criteria without tags are not
\* counted, and a query without any other selects everything.
Selects(query, doc) ==
    LET criteria == IF query = Nil THEN <<>> ELSE query.Criteria
        counted == {i \in DOMAIN criteria : criteria[i].Tags # <<>>}
    IN  counted = {} \/ \E i \in counted : CriterionHolds(criteria[i], doc)
=============================================================================
