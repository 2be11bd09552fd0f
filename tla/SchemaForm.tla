----------------------------- MODULE SchemaForm -----------------------------
(***************************************************************************)
(* The form made from a Flow360 schema: SchemaForm, its fields, the local  *)
(* check of a candidate, and the way its two hosts take an edit.           *)
(*                                                                         *)
(* JSON values are tagged tuples.  A union is edited as a draft that says  *)
(* which variant it is; a number is typed as text; a list of entities is   *)
(* edited as the choices ticked, next to the entities the form has no      *)
(* choice for.  The order of the entities of a list is abstracted away.    *)
(*                                                                         *)
(* The changes of such values that an assistant proposes for a Draft are   *)
(* here too: what its patch makes of them and how the dialog lists it.     *)
(***************************************************************************)
EXTENDS Naturals, Sequences, FiniteSets, SequencesExt

CONSTANTS
    FormSchemas,  \* schemas the form is made from
    StoredValues, \* for each schema, the values that may be stored
    TypedNumbers, \* numbers the user may type
    MaxFormEdits  \* bound on the edits of a behaviour

Undefined == <<"undefined">>
Null == <<"null">>
Error == <<"error">>
Text(t) == <<"text", t>>
Typed(n) == <<"typed", n>>
Num(n) == <<"number", n>>
List(q) == <<"list", q>>
Rec(f) == <<"record", f>>
Is(tag, v) == v[1] = tag
DraftOf(i, v, kept) == <<"union", i, v, kept>>

SchemaFormAssumption ==
    /\ MaxFormEdits \in Nat /\ TypedNumbers \subseteq Nat
    /\ \A s \in FormSchemas : "type" \in DOMAIN s /\ StoredValues[s] # {}

VARIABLES
    sheet, \* the form: its host, schema, stored value, draft
    probe  \* an expression's check: status, number of the last, those under way

(***************************************************************************)
(* Schemas: records with a type; optional parts are looked up with a       *)
(* default.                                                                *)
(***************************************************************************)
Part(s, name, otherwise) == IF name \in DOMAIN s THEN s[name] ELSE otherwise
HasDefault(s) == Part(s, "default", Null) # Null
Required(s, k) == k \in Part(s, "required", {}) \/ Part(s.props[k], "must", FALSE)
IsDiscriminator(s) == s.type = "enum" /\ Len(s.options) = 1 /\ HasDefault(s)
Configured(v) == v \notin {Null, Undefined, Text(""), List(<<>>)}
Has(v, k) == Is("record", v) /\ k \in DOMAIN v[2]
Get(v, k) == IF Has(v, k) THEN v[2][k] ELSE Undefined
Put(v, k, x) == Rec([j \in {k} \union (IF Is("record", v) THEN DOMAIN v[2] ELSE {}) |->
                       IF j = k THEN x ELSE v[2][j]])
InRange(s, n) == n >= Part(s, "minimum", 0) /\ n <= Part(s, "maximum", 99)

RECURSIVE InitialValue(_, _)
InitialValue(s, sparse) ==
    IF HasDefault(s) THEN s.default
    ELSE CASE s.type = "object" ->
                Rec([k \in {k \in DOMAIN s.props :
                              ~sparse \/ Required(s, k) \/ IsDiscriminator(s.props[k])
                                      \/ HasDefault(s.props[k])} |->
                       InitialValue(s.props[k], sparse)])
           [] s.type = "array" -> List(<<>>)
           [] s.type = "tuple" -> List([i \in 1..s.length |-> InitialValue(s.item, sparse)])
           [] s.type = "quantity" -> Rec([value |-> Text(""), units |-> Text(s.units[1])])
           [] s.type = "expression" -> Rec([expression |-> Text("")])
           [] s.type = "entity_list" -> Rec([entities |-> {}, matched |-> {}, unmatched |-> {}])
           [] s.type = "entity_assignment" -> Rec([model |-> Text(s.model), entities |-> {}])
           [] s.type = "multi_select" -> List(<<>>)
           [] s.type = "enum" -> s.options[1]
           [] s.type = "union" ->
                DraftOf(1, InitialValue(s.variants[1], sparse), [i \in 1..Len(s.variants) |-> Undefined])
           [] OTHER -> Text("")

\* schemaValueMatches: whether a JSON value is of a variant
RECURSIVE ValueMatches(_, _)
ValueMatches(s, v) ==
    CASE s.type = "quantity" ->
           Is("record", v) /\ {"value", "units"} \subseteq DOMAIN v[2] /\ ValueMatches(s.value, v[2].value)
      [] s.type = "expression" -> Get(v, "expression") # Undefined
      [] s.type = "object" ->
           Is("record", v) /\ \A k \in DOMAIN s.props :
                                IsDiscriminator(s.props[k]) => Get(v, k) = s.props[k].options[1]
      [] s.type \in {"entity_list", "entity_assignment"} -> Is("record", v)
      [] s.type \in {"array", "tuple", "multi_select"} -> Is("list", v)
      [] s.type = "number" -> Is("number", v) /\ InRange(s, v[2])
      [] s.type = "text" -> Is("text", v)
      [] s.type = "enum" -> v \in ToSet(s.options)
      [] OTHER -> FALSE

\* hydrateSchemaValue: from JSON to what the fields edit
RECURSIVE Hydrate(_, _, _)
Hydrate(s, v, sparse) ==
    LET fresh == InitialValue(s, sparse)
    IN  IF v = Undefined THEN fresh
        ELSE IF v = Null /\ Part(s, "nullable", FALSE) THEN Null
        ELSE CASE s.type = "object" ->
                    IF ~Is("record", v) THEN fresh
                    ELSE Rec([k \in DOMAIN v[2] |-> IF k \in DOMAIN s.props
                                                    THEN Hydrate(s.props[k], v[2][k], sparse) ELSE v[2][k]])
               [] s.type \in {"array", "tuple"} ->
                    IF ~Is("list", v) THEN fresh
                    ELSE List([i \in DOMAIN v[2] |-> Hydrate(s.item, v[2][i], sparse)])
               [] s.type = "entity_list" ->
                    IF ~Is("record", v) THEN fresh
                    ELSE LET known == {e \in v[2].stored_entities : e.id \in s.choices}
                         IN  Rec([entities |-> {e.id : e \in known}, matched |-> known,
                                  unmatched |-> v[2].stored_entities \ known])
               [] s.type = "union" ->
                    LET of == {i \in DOMAIN s.variants : ValueMatches(s.variants[i], v)}
                        i == IF of = {} THEN 1 ELSE CHOOSE x \in of : \A y \in of : x <= y
                    IN  DraftOf(i, Hydrate(s.variants[i], v, sparse),
                                [j \in DOMAIN s.variants |-> Undefined])
               [] s.type = "number" -> IF Is("typed", v) THEN Num(v[2]) ELSE v
               [] OTHER -> v

\* serializeValue: back to JSON, or the error that is thrown
AllOrError(f, value) == IF \E k \in DOMAIN f : f[k] = Error THEN Error ELSE value
RECURSIVE Serialize(_, _, _)
Serialize(s, v, sparse) ==
    IF v = Null /\ Part(s, "nullable", FALSE) THEN Null
    ELSE CASE s.type = "object" ->
                LET keys == IF sparse THEN {k \in (IF Is("record", v) THEN DOMAIN v[2] ELSE {}) :
                                              k \in DOMAIN s.props \/ k = "private_attribute"}
                            ELSE DOMAIN s.props
                    out == [k \in keys |-> IF k \in DOMAIN s.props
                                           THEN Serialize(s.props[k], Get(v, k), sparse) ELSE Get(v, k)]
                IN  AllOrError(out, Rec(out))
           [] s.type \in {"array", "tuple"} ->
                LET items == IF Is("list", v) THEN v[2] ELSE <<>>
                    out == [i \in DOMAIN items |-> Serialize(s.item, items[i], sparse)]
                IN  IF s.type = "tuple" /\ Len(items) # s.length THEN Error
                    ELSE AllOrError(out, List(out))
           [] s.type = "multi_select" -> IF Is("list", v) THEN v ELSE List(<<>>)
           [] s.type = "quantity" ->
                LET n == Serialize(s.value, Get(v, "value"), sparse)
                    u == Get(v, "units")
                    unit == IF u = Undefined THEN Text(s.units[1])
                            ELSE Text(Part(Part(s, "aliases", <<>>), u[2], u[2]))
                IN  IF n = Error \/ unit[2] \notin ToSet(s.units) THEN Error
                    ELSE Rec([value |-> n, units |-> unit])
           [] s.type = "expression" ->
                LET e == Get(v, "expression")
                IN  IF e \in {Undefined, Text("")} THEN Error ELSE Rec([expression |-> e])
           [] s.type = "entity_list" ->
                LET ticked == Get(v, "entities") \intersect s.choices
                    kept == {e \in Get(v, "matched") : e.id \in ticked}
                IN  Rec([stored_entities |->
                           kept \union Get(v, "unmatched") \union
                           {[id |-> c, payload |-> "choice"] :
                              c \in {c \in ticked : ~\E e \in kept : e.id = c}}])
           [] s.type = "entity_assignment" ->
                IF Get(v, "model") = Text("") \/ Get(v, "entities") = {} THEN Error ELSE v
           [] s.type = "number" ->
                IF v[1] \in {"number", "typed"} /\ InRange(s, v[2]) THEN Num(v[2]) ELSE Error
           [] s.type = "union" ->
                IF Is("union", v) THEN Serialize(s.variants[v[2]], v[3], sparse)
                ELSE Serialize(s.variants[1], v, sparse)
           [] OTHER -> v

\* buildDraftParameters: fields the schema does not know are put back
RECURSIVE Preserve(_, _, _)
Preserve(s, v, out) ==
    IF out = Error \/ s.type # "object" \/ ~Is("record", v) \/ ~Is("record", out) THEN out
    ELSE Rec([k \in (DOMAIN v[2] \ DOMAIN s.props) \union (DOMAIN v[2] \intersect DOMAIN out[2]) |->
                IF k \in DOMAIN s.props THEN Preserve(s.props[k], v[2][k], out[2][k]) ELSE v[2][k]])
\* As Built, the unknown fields left out.
BuiltWithoutUnknown(s, v) == Serialize(s, v, TRUE)
Built(s, v) == Preserve(s, v, Serialize(s, v, TRUE))

(***************************************************************************)
(* localDraftValidation: whether a candidate has issues of its own.        *)
(***************************************************************************)
RECURSIVE LocalIssue(_, _)
LocalIssue(s, v) ==
    IF v = Null /\ Part(s, "nullable", FALSE) THEN FALSE
    ELSE IF v \in {Undefined, Text("")} THEN Part(s, "must", FALSE)
    ELSE CASE s.type = "object" ->
                \/ ~Is("record", v) \/ ~(Part(s, "required", {}) \subseteq DOMAIN v[2])
                \/ \E k \in DOMAIN s.props \intersect DOMAIN v[2] : LocalIssue(s.props[k], v[2][k])
           [] s.type \in {"array", "tuple"} ->
                \/ ~Is("list", v)
                \/ s.type = "tuple" /\ Len(v[2]) # s.length
                \/ \E i \in DOMAIN v[2] : LocalIssue(s.item, v[2][i])
           [] s.type = "union" -> \A i \in DOMAIN s.variants : LocalIssue(s.variants[i], v)
           [] s.type = "quantity" -> Is("record", v) /\ LocalIssue(s.value, Get(v, "value"))
           [] s.type = "number" -> ~(v[1] \in {"number", "typed"} /\ InRange(s, v[2]))
           [] OTHER -> FALSE

(***************************************************************************)
(* What one edit of the form may make of a draft.                          *)
(***************************************************************************)
SelectVariant(s, d, i) ==
    LET kept == [d[4] EXCEPT ![d[2]] = d[3]]
    IN  DraftOf(i, IF kept[i] \in {Undefined, Null} THEN InitialValue(s.variants[i], TRUE) ELSE kept[i], kept)
IsSentinel(s) == Part(s, "sentinel", FALSE)

Toggled(set, x) == IF x \in set THEN set \ {x} ELSE set \union {x}
ItemsOf(v) == IF Is("list", v) THEN v[2] ELSE <<>>
UnionDraft(s, v) == IF Is("union", v) THEN v ELSE InitialValue(s, TRUE)

RECURSIVE Edits(_, _)
\* A field that is not configured is first given its initial value.
FieldEdits(s, v, k) ==
    LET held == Get(v, k)
        shown == IF Configured(held) THEN held ELSE InitialValue(s.props[k], TRUE)
    IN  {Put(v, k, x) : x \in {shown} \union Edits(s.props[k], shown)}
ObjectEdits(s, v) ==
    UNION {FieldEdits(s, v, k) : k \in {k \in DOMAIN s.props : ~IsDiscriminator(s.props[k])}}
\* ComplexArrayField: the dialog of an item is saved, over the item or as a new one.
AddedItems(s, v) ==
    LET new == InitialValue(s.item, TRUE)
    IN  {List(Append(ItemsOf(v), x)) : x \in {new} \union Edits(s.item, new)}
ChangedItems(s, v) ==
    LET q == ItemsOf(v)
    IN  {List(RemoveAt(q, i)) : i \in DOMAIN q} \union
        UNION {{List([q EXCEPT ![i] = x]) : x \in Edits(s.item, q[i])} : i \in DOMAIN q}
TupleEdits(s, v) ==
    {List([ItemsOf(v) EXCEPT ![i] = x]) : i \in DOMAIN ItemsOf(v), x \in Edits(s.item, Text(""))}
QuantityEdits(s, v) ==
    {Put(v, "value", x) : x \in Edits(s.value, Get(v, "value"))} \union
    {Put(v, "units", Text(u)) : u \in ToSet(s.units)}
ExpressionEdits(s, v) == {Put(v, "expression", Text(t)) : t \in {"", "x"}}
EntityListEdits(s, v) ==
    LET ticked == Get(v, "entities")
    IN  {Put(v, "entities", e) : e \in {s.choices, {}} \union {Toggled(ticked, c) : c \in s.choices}}
AssignmentEdits(s, v) ==
    EntityListEdits(s, v) \union {Put(v, "model", Text(m)) : m \in s.models}
MultiSelectEdits(s, v) ==
    LET q == ItemsOf(v)
    IN  {List(Append(q, o)) : o \in s.picks \ ToSet(q)} \union
        (IF Len(q) > s.atLeast THEN {List(Remove(q, o)) : o \in ToSet(q)} ELSE {})
\* One input stands for both variants: what is typed decides which it is.
SentinelEdits(s, v) ==
    LET d == UnionDraft(s, v)
        kept == [d[4] EXCEPT ![d[2]] = d[3]]
    IN  {DraftOf(IF x = Text("-1") THEN 2 ELSE 1, x, kept) :
           x \in {Text("-1"), Text("")} \union {Typed(n) : n \in TypedNumbers}}
UnionEdits(s, v) ==
    LET d == UnionDraft(s, v)
    IN  {SelectVariant(s, d, i) : i \in DOMAIN s.variants} \union
        {DraftOf(d[2], x, d[4]) : x \in Edits(s.variants[d[2]], d[3])}

Edits(s, v) ==
    (IF Part(s, "nullable", FALSE) THEN {Null, InitialValue(s, TRUE)} ELSE {}) \union
    (CASE s.type = "object" -> ObjectEdits(s, v)
       [] s.type = "array" -> AddedItems(s, v) \union ChangedItems(s, v)
       [] s.type = "tuple" -> TupleEdits(s, v)
       [] s.type = "quantity" -> QuantityEdits(s, v)
       [] s.type = "expression" -> ExpressionEdits(s, v)
       [] s.type = "entity_list" -> EntityListEdits(s, v)
       [] s.type = "entity_assignment" -> AssignmentEdits(s, v)
       [] s.type = "multi_select" -> MultiSelectEdits(s, v)
       [] s.type = "union" -> IF IsSentinel(s) THEN SentinelEdits(s, v) ELSE UnionEdits(s, v)
       [] s.type = "enum" -> ToSet(s.options)
       [] s.type = "number" -> {Text("")} \union {Typed(n) : n \in TypedNumbers}
       [] s.type = "text" -> {Text(""), Text("x")}
       [] OTHER -> {})

(***************************************************************************)
(* The two hosts.  The Draft editor makes JSON of every edit and its form  *)
(* of that JSON; the review form keeps the drafts until they are compiled. *)
(***************************************************************************)
\* The Draft editor shows one root field of the schema at a time.
Tabs(s) == IF s.type = "object" THEN DOMAIN s.props ELSE {}
FirstTab(s) == IF Tabs(s) = {} THEN "" ELSE CHOOSE k \in Tabs(s) : TRUE

Init ==
    /\ probe = [status |-> "idle", last |-> 0, asked |-> {}]
    /\ \E host \in {"draft", "plan"}, s \in FormSchemas : \E stored \in StoredValues[s] :
         sheet = [host |-> host, schema |-> s, stored |-> stored, edits |-> 0, tab |-> FirstTab(s),
                  draft |-> Hydrate(s, stored, TRUE)]

TypeOK ==
    /\ sheet.host \in {"draft", "plan"} /\ sheet.schema \in FormSchemas
    /\ sheet.stored \in StoredValues[sheet.schema] /\ sheet.edits \in 0..MaxFormEdits
    /\ sheet.tab \in Tabs(sheet.schema) \union {""} /\ sheet.draft # Undefined /\ sheet.draft # Error
    /\ probe.status \in {"idle", "checking", "valid", "error"}
    /\ \A n \in probe.asked : n \in 1..probe.last

\* An edit of the Draft editor that cannot be written as JSON throws in its
\* handler, and is not taken.
Taken(next) ==
    IF sheet.host = "plan" THEN next
    ELSE LET json == Built(sheet.schema, next)
         IN  IF json = Error THEN sheet.draft ELSE Hydrate(sheet.schema, json, TRUE)
Edit == /\ sheet.edits < MaxFormEdits
        /\ \E next \in IF sheet.host = "draft" /\ sheet.tab # ""
                        THEN FieldEdits(sheet.schema, sheet.draft, sheet.tab)
                        ELSE Edits(sheet.schema, sheet.draft) :
             sheet' = [sheet EXCEPT !.draft = Taken(next), !.edits = @ + 1]
        /\ probe' = [probe EXCEPT !.status = "idle"]

\* A tab is chosen, or an issue of the validation is focused that is in another tab.
OpenTab == /\ sheet.host = "draft" /\ sheet.edits < MaxFormEdits /\ UNCHANGED probe
           /\ \E k \in Tabs(sheet.schema) \ {sheet.tab} : sheet' = [sheet EXCEPT !.tab = k]

\* An expression is checked when its field loses the focus; the last check counts.
IsExpression == sheet.schema.type = "expression"
Check == /\ IsExpression /\ UNCHANGED sheet
         /\ probe' = IF Get(sheet.draft, "expression") = Text("")
                     THEN [probe EXCEPT !.status = "error"]
                     ELSE [status |-> "checking", last |-> probe.last + 1,
                           asked |-> probe.asked \union {probe.last + 1}]
         /\ probe.last < MaxFormEdits
CheckArrives ==
    \E n \in probe.asked, verdict \in {"valid", "error"} :
      /\ probe' = [probe EXCEPT !.asked = @ \ {n}, !.status = IF n = probe.last THEN verdict ELSE @]
      /\ UNCHANGED sheet

Next == Edit \/ OpenTab \/ Check \/ CheckArrives

vars == <<sheet, probe>>
Spec == Init /\ [][Next]_vars

(***************************************************************************)
(* What an assistant proposes: applyDraftMergePatch, in which null removes *)
(* a key, and draftParameterChanges, which AgentDraftUpdateDialog lists.   *)
(***************************************************************************)
KeysOf(v) == IF Is("record", v) THEN DOMAIN v[2] ELSE {}
RECURSIVE Merged(_, _)
Merged(d, patch) ==
    IF ~Is("record", patch) THEN patch
    ELSE LET kept == {k \in KeysOf(d) \union KeysOf(patch) : Get(patch, k) # Null}
         IN  Rec([k \in kept |-> IF Has(patch, k) THEN Merged(Get(d, k), Get(patch, k)) ELSE Get(d, k)])
RECURSIVE Differences(_, _, _)
Differences(left, right, path) ==
    IF Is("record", left) /\ Is("record", right)
    THEN UNION {Differences(Get(left, k), Get(right, k), Append(path, k)) : k \in KeysOf(left) \union KeysOf(right)}
    ELSE IF left = right THEN {} ELSE {<<path, left, right>>}
Changes(d, patch) == Differences(d, Merged(d, patch), <<>>)

(***************************************************************************)
(* Properties.                                                             *)
(***************************************************************************)
\* What a value of a schema is, for Flow360.
RECURSIVE Conforms(_, _)
Conforms(s, v) ==
    \/ v = Null /\ Part(s, "nullable", FALSE)
    \/ CASE s.type = "object" ->
              /\ Is("record", v) /\ Part(s, "required", {}) \subseteq DOMAIN v[2]
              /\ \A k \in DOMAIN s.props \intersect DOMAIN v[2] : Conforms(s.props[k], v[2][k])
         [] s.type = "array" -> Is("list", v) /\ \A i \in DOMAIN v[2] : Conforms(s.item, v[2][i])
         [] s.type = "tuple" -> /\ Is("list", v) /\ Len(v[2]) = s.length
                                /\ \A i \in DOMAIN v[2] : Conforms(s.item, v[2][i])
         [] s.type = "quantity" ->
              Conforms(s.value, Get(v, "value")) /\ Get(v, "units") \in {Text(u) : u \in ToSet(s.units)}
         [] s.type = "expression" -> Get(v, "expression") \notin {Undefined, Text("")}
         [] s.type = "entity_list" -> Has(v, "stored_entities")
         [] s.type = "entity_assignment" -> Has(v, "model") /\ Get(v, "entities") # {}
         [] s.type = "multi_select" -> Is("list", v) /\ Len(v[2]) >= s.atLeast
         [] s.type = "enum" -> v \in ToSet(s.options)
         [] s.type = "number" -> Is("number", v) /\ InRange(s, v[2])
         [] s.type = "union" -> \E i \in DOMAIN s.variants : Conforms(s.variants[i], v)
         [] OTHER -> Is("text", v)

\* Opening a form changes nothing: what was stored is what would be sent.
OpeningChangesNothing == sheet.edits = 0 => Built(sheet.schema, sheet.draft) = sheet.stored

\* Whatever is edited, the form sends a value of its schema or none, and one the
\* local check has nothing against (but for a sentinel typed as text).
SendsItsSchema ==
    LET json == Built(sheet.schema, sheet.draft)
    IN  (json # Error /\ ~IsSentinel(sheet.schema)) =>
          Conforms(sheet.schema, json) /\ ~LocalIssue(sheet.schema, json)

\* Entities the form has no choice for are still there after any edits.
UnknownEntitiesKept ==
    sheet.schema.type = "entity_list" =>
      LET unknown(v) == {e \in Get(v, "stored_entities") : e.id \notin sheet.schema.choices}
      IN  unknown(Built(sheet.schema, sheet.draft)) = unknown(sheet.stored)

\* A check that is said to be under way is: its answer will end it.
CheckingIsBacked == probe.status = "checking" => probe.last \in probe.asked

\* The changes that are confirmed are all of them: the parameters with each of
\* them made are those with the patch applied.
RECURSIVE Changed(_, _, _)
Changed(d, path, v) ==
    IF path = <<>> THEN v
    ELSE LET sub == Changed(Get(d, Head(path)), Tail(path), v)
             keys == KeysOf(d) \ {Head(path)}
         IN  Rec([k \in IF sub = Undefined THEN keys ELSE keys \union {Head(path)} |->
                    IF k = Head(path) THEN sub ELSE Get(d, k)])
ChangesAreComplete(d, patch) ==
    FoldLeft(LAMBDA e, c : Changed(e, c[1], c[3]), d, SetToSeq(Changes(d, patch))) = Merged(d, patch)
=============================================================================
