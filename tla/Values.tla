------------------------------- MODULE Values -------------------------------
(****************************************************************************)
(* Functions of values: validation, and their text.                         *)
(****************************************************************************)
EXTENDS Integers, Sequences, FiniteSets, TLC, SequencesExt, FiniteSetsExt

(****************************************************************************)
(* The two validators that guard REST requests, form elements and messages: *)
(* Validation (core/validation.js), whose schema is a list of constraints   *)
(* per key, and ValidationSchema (core/validation_schema.js), which takes a *)
(* JSON schema.  Both are pure; a step validates one input, and the inputs  *)
(* are enumerated.  A value is a record of its JavaScript type and content. *)
(****************************************************************************)
CONSTANTS
  Lists,          \* lists of constraints of the key "a"
  OtherLists,     \* lists of constraints of the key "b"
  Inputs,         \* values of a key; Absent when the key is not given
  JsonSchemas,    \* root schemas
  JsonValues      \* values validated against them

VARIABLES
  schemaOf,       \* the lists of constraints, per key
  given,          \* the values, per key
  options,        \* all, allMandatory
  json,           \* the schema and the value of ValidationSchema
  stage           \* "new", "constructed" or "done"

validationVars == <<schemaOf, given, options, json, stage>>

Keys == {"a", "b", "extra"}
Absent == [js |-> "absent", v |-> 0]
Undefined == [js |-> "undefined", v |-> 0]

-----------------------------------------------------------------------------
(* Validation: a constraint is [name, args].                                *)

\* create() of every constraint runs while the list is read: "mandatory" and "type" write the entry.
EntryOf(list) ==
  [mandatory |-> \E i \in DOMAIN list : list[i].name = "mandatory",
   type |-> LET types == {i \in DOMAIN list : list[i].name = "type"} IN IF types = {} THEN "string" ELSE list[Max(types)].args]
\* castArgsToType() and getAndAssertInteger(), getAndAssertBoolean(): text that reads as a number or a boolean is one.
Cast(type, value) ==
  CASE type = "integer" -> IF value.js \in {"integer", "digits"} THEN [js |-> "integer", v |-> value.v] ELSE Undefined
    [] type = "boolean" -> IF value.js \in {"boolean", "truth"} THEN [js |-> "boolean", v |-> value.v] ELSE Undefined
    [] OTHER -> value
\* The type an installed constraint sees is the one of the whole list: install() runs after every create().
\* Mutant: a constraint is installed as it is read, with the type of what precedes it.
InstallTypeSoFar(list, i) == EntryOf(SubSeq(list, 1, i)).type
InstallType(list, i) == EntryOf(list).type
\* The length of a text: "digits" and "truth" are texts too.
LengthOf(value) == IF value.js \in {"digits", "truth", "text"} THEN Len(ToString(value.v)) ELSE -1
\* The closure that install() returns.
ConstraintHolds(list, i, value, values) ==
  LET c == list[i]
      type == InstallType(list, i) IN
  CASE c.name = "min" -> IF type = "integer" THEN value.js = "integer" /\ value.v >= c.args ELSE LengthOf(value) >= c.args
    [] c.name = "values" -> value = Cast(type, [js |-> "digits", v |-> c.args])
    [] c.name = "same" -> value = values[c.args]
    [] OTHER -> TRUE
\* Construction throws for a constraint that does not fit the type.
Constructs(list) == \A i \in DOMAIN list :
  /\ list[i].name = "min" => InstallType(list, i) # "boolean"
  /\ list[i].name = "values" => Cast(InstallType(list, i), [js |-> "digits", v |-> list[i].args]) # Undefined

\* validate() of one key; the result is whether the key has an error.
\* Mutant: a key that is given as undefined is enough for "mandatory".
MissingKeyOnly(value) == value = Absent
Missing(value) == value \in {Absent, Undefined}
\* What the constraints are given.
\* Mutant: the value as it came.
CheckedAsGiven(cast, value) == value
Checked(cast, value) == cast
KeyFails(list, value, values, allMandatory) ==
  LET entry == EntryOf(list)
      cast == Cast(entry.type, value) IN
  IF (entry.mandatory \/ allMandatory) /\ Missing(value) THEN TRUE
  ELSE IF value = Absent THEN FALSE
  ELSE IF cast = Undefined THEN entry.type # "string"
  ELSE \E i \in DOMAIN list : ~ConstraintHolds(list, i, Checked(cast, value), values)
\* validate(): the keys of the schema, then, with "all", the keys that the schema does not have.
Validate(schema, values, opts) ==
  {k \in DOMAIN schema : KeyFails(schema[k], values[k], values, opts.allMandatory)}
    \cup (IF opts.all THEN {k \in DOMAIN values : values[k] # Absent /\ k \notin DOMAIN schema} ELSE {})

-----------------------------------------------------------------------------
(* ValidationSchema: a schema is a record with the keywords it uses.        *)

Has(schema, keyword) == keyword \in DOMAIN schema
\* deepMerge(): the later wins; objects below (the properties) are merged as well.
DeepMerge(a, b) ==
  LET merged == b @@ a IN
  IF Has(a, "properties") /\ Has(b, "properties") THEN [merged EXCEPT !.properties = b.properties @@ a.properties] ELSE merged
\* getRefFromSchema(): "#" is the root, another reference one of its $defs.
GetRefFromSchema(ref, root) == IF ref = "#" THEN root ELSE root.defs[ref]
ValidationNumber(value, property) ==
  (Has(property, "minimum") => value.v >= property.minimum) /\ (Has(property, "maximum") => value.v <= property.maximum)

RECURSIVE ValidateJson(_, _, _)
\* validateType(): one type of the property.
\* Mutant: the keys that are required are not looked for when the schema lists its properties.
RequiredUnlessListed(property, fields) == Has(property, "properties") \/ property.required \subseteq fields
RequiredPresent(property, fields) == property.required \subseteq fields
ValidateType(type, value, property, root) ==
  CASE type = "string" -> value.js = "text" /\ (Has(property, "enum") => value.v \in property.enum)
    [] type = "integer" -> value.js = "integer" /\ ValidationNumber(value, property)
    [] type = "boolean" -> value.js = "boolean"
    [] type = "object" ->
         LET properties == IF Has(property, "properties") THEN property.properties ELSE <<>>
             fields == DOMAIN value.v IN
         /\ value.js = "object"
         /\ \A k \in fields :
              IF k \in DOMAIN properties THEN ValidateJson(value.v[k], properties[k], root)
              ELSE Has(property, "additional") /\ property.additional # <<>> => ValidateJson(value.v[k], property.additional[1], root)
         /\ Has(property, "required") => RequiredPresent(property, fields)
         /\ Has(property, "additional") /\ property.additional = <<>> => fields \subseteq DOMAIN properties
    [] type = "array" -> value.js = "array" /\ (Has(property, "items") => \A i \in DOMAIN value.v : ValidateJson(value.v[i], property.items, root))
    [] OTHER -> TRUE
\* validateProperty(): the reference is resolved, then one of the types must fit.
ValidateProperty(value, property, root) ==
  LET resolved == IF Has(property, "ref") THEN DeepMerge(property, GetRefFromSchema(property.ref, root)) ELSE property IN
  IF Has(resolved, "type") THEN \E type \in resolved.type : ValidateType(type, value, resolved, root) ELSE TRUE
\* validate(): allOf is merged, anyOf tried one by one with the rest of the schema.
\* Mutant: the rest of the schema is forgotten.
AlternativeAlone(schema, sub) == sub
Alternative(schema, sub) == DeepMerge(schema, sub)
ValidateJson(value, schema, root) ==
  LET merged == IF Has(schema, "allOf") THEN FoldLeft(DeepMerge, schema, schema.allOf) ELSE schema IN
  IF Has(merged, "anyOf") THEN \E sub \in merged.anyOf : ValidateProperty(value, Alternative(merged, sub), root)
  ELSE ValidateProperty(value, merged, root)

-----------------------------------------------------------------------------
ValidationInit ==
  /\ stage = "new" /\ schemaOf = [k \in {"a", "b"} |-> <<>>] /\ given = [k \in Keys |-> Absent]
  /\ options = [all |-> FALSE, allMandatory |-> FALSE] /\ json = <<CHOOSE s \in JsonSchemas : TRUE, CHOOSE v \in JsonValues : TRUE>>
\* new Validation(): the constraints of each key.
Construct(a, b) ==
  /\ stage = "new" /\ stage' = "constructed" /\ Constructs(a) /\ Constructs(b)
  /\ schemaOf' = [schemaOf EXCEPT !.a = a, !.b = b] /\ UNCHANGED <<given, options, json>>
ValidateValues(x, y, extra, opts) ==
  /\ stage = "constructed" /\ stage' = "done" /\ given' = [a |-> x, b |-> y, extra |-> extra] /\ options' = opts /\ UNCHANGED <<schemaOf, json>>
ValidateSchema(schema, value) ==
  /\ stage = "new" /\ stage' = "done" /\ json' = <<schema, value>> /\ UNCHANGED <<schemaOf, given, options>>
ValidationNext ==
  \/ \E a \in Lists, b \in OtherLists : Construct(a, b)
  \/ \E x, y \in Inputs, extra \in {Absent, Undefined}, opts \in [all : BOOLEAN, allMandatory : BOOLEAN] : ValidateValues(x, y, extra, opts)
  \/ \E s \in JsonSchemas, v \in JsonValues : ValidateSchema(s, v)

-----------------------------------------------------------------------------
Errors == Validate(schemaOf, given, options)

\* The order of the constraints in a schema, as "min(2) type(integer)", means nothing: install() comes after create() (validation.js:162).
OrderMeansNothing == \A key \in {"a", "b"} :
  Errors = Validate([schemaOf EXCEPT ![key] = Reverse(@)], given, options)

\* Whether a text or its number arrives, from a query or from JSON, the verdict is the same for a key with a type; same() is the exception:
\* it compares what was cast with what was given (validation.js:371).
TextIsNumber ==
  LET number == [js |-> "integer", v |-> given.a.v] IN
  given.a.js = "digits" /\ EntryOf(schemaOf.a).type = "integer" /\ (\A i \in DOMAIN schemaOf.a : schemaOf.a[i].name # "same")
     => ("a" \in Errors <=> "a" \in Validate(schemaOf, [given EXCEPT !.a = number], options))

\* What passes with every key mandatory has every key: a handler that runs after validate() can read them (validation.js:214-220).
AcceptedIsComplete ==
  options.allMandatory /\ Errors = {} => \A k \in {"a", "b"} : given[k] \notin {Absent, Undefined}

\* A value accepted by a schema has the keys that it requires, at every level that the schema reaches through its references.
RECURSIVE HasRequired(_, _, _)
HasRequired(value, schema, root) ==
  LET target == IF Has(schema, "ref") THEN GetRefFromSchema(schema.ref, root) ELSE schema IN
  value.js = "object" => /\ Has(target, "required") => target.required \subseteq DOMAIN value.v
                         /\ Has(target, "properties") => \A k \in DOMAIN target.properties \cap DOMAIN value.v : HasRequired(value.v[k], target.properties[k], root)
RequiredAtEveryLevel == ValidateJson(json[2], json[1], json[1]) => HasRequired(json[2], json[1], json[1])

\* An alternative of anyOf adds to the schema it stands in: a value that the rest of the schema refuses is refused (validation_schema.js:233).
AnyOfAdds ==
  LET rest == [k \in DOMAIN json[1] \ {"anyOf"} |-> json[1][k]] IN
  Has(json[1], "anyOf") /\ (\A sub \in json[1].anyOf : DOMAIN sub \cap DOMAIN rest = {})
     => (ValidateJson(json[2], json[1], json[1]) => ValidateJson(json[2], rest, json[1]))

-----------------------------------------------------------------------------
(****************************************************************************)
(* Three algorithms that every message and most of the pages go through:    *)
(* a number with its unit written in the unit that reads best               *)
(* (utils/to_string.ts), the dump of a value cut at a size (core/format.ts) *)
(* and the comparison of two values by Exception.assertEqual()              *)
(* (core/exception.ts).  An input is taken, then its output is computed.    *)
(****************************************************************************)
CONSTANTS
  UnitInputs,     \* [unit, n, d]: the number n / d in a unit
  DumpInputs,     \* [item, size]
  EqualInputs     \* [left, right]

VARIABLES
  formatInput,    \* the input and what is asked
  formatOutput    \* the output

formatVars == <<formatInput, formatOutput>>

-----------------------------------------------------------------------------
(* Units: lists of [name, factor to the next].                              *)

Units(names, factors) == [i \in DOMAIN names |-> [name |-> names[i], factor |-> factors[i]]]
PresetUCUMMetrics ==
  Units(<<"y", "z", "a", "f", "p", "n", "u", "m", "c", "d", "", "da", "h", "k", "M", "G", "T", "P", "E", "Z", "Y">>,
        <<1000, 1000, 1000, 1000, 1000, 1000, 1000, 10, 10, 10, 10, 10, 10, 1000, 1000, 1000, 1000, 1000, 1000, 1000, 1000>>)
PresetUCUMMetricsNo10Forward == Units(<<"", "k", "M", "G", "T", "P", "E", "Z", "Y">>, [i \in 1 .. 9 |-> 1000])
PresetUCUMBinary == Units(<<"", "Ki", "Mi", "Gi", "Ti">>, [i \in 1 .. 5 |-> 1024])
UCUMToFormatter ==
  Units(<<"ys", "zs", "as", "fs", "ps", "ns", "us", "ms", "s", "min", "h", "d">>,
        <<1000, 1000, 1000, 1000, 1000, 1000, 1000, 1000, 60, 60, 24, 1>>)

\* UCUMToString(): the unit is one of the formatter's, or a prefix and one of Hz, By, g.  The unit is
\* given here as its two parts.
UnitListOf(base) == CASE base = "Hz" -> PresetUCUMMetricsNo10Forward [] base = "By" -> PresetUCUMBinary
                      [] base = "g" -> PresetUCUMMetrics [] OTHER -> UCUMToFormatter
IndexOf(list, name) == CHOOSE i \in DOMAIN list : list[i].name = name

\* _unitsToString(): first up, while the value is above the factor; then down, while it is below 1.
RECURSIVE ToHigher(_, _, _, _)
ToHigher(list, i, n, d) ==
  IF n > list[i].factor * d /\ i < Len(list) THEN ToHigher(list, i + 1, n, d * list[i].factor) ELSE <<i, n, d>>
\* Mutant: by the factor of the unit that is left.
LowerFactorLeft(list, i) == list[i].factor
LowerFactor(list, i) == list[i - 1].factor
RECURSIVE ToLower(_, _, _, _)
ToLower(list, i, n, d) ==
  IF n > 0 /\ n < d /\ i > 1 THEN ToLower(list, i - 1, n * LowerFactor(list, i), d) ELSE <<i, n, d>>
\* toFixed(1), as tenths.
Tenths(n, d) == (20 * n + d) \div (2 * d)
UnitsToString(base, prefix, n, d) ==
  LET list == UnitListOf(base)
      up == ToHigher(list, IndexOf(list, prefix), n, d)
      down == ToLower(list, up[1], up[2], up[3])
  IN  [index |-> down[1], tenths |-> Tenths(down[2], down[3])]

-----------------------------------------------------------------------------
(* Dumps: an item is a number or a string with its characters, or a         *)
(* container of items; the keys of a dictionary are strings.                *)

Number(chars) == [t |-> "number", chars |-> chars, items |-> <<>>, keys |-> <<>>]
Text(chars) == [t |-> "string", chars |-> chars, items |-> <<>>, keys |-> <<>>]
ListOf(t, items) == [t |-> t, chars |-> <<>>, items |-> items, keys |-> <<>>]
DictOf(keys, items) == [t |-> "dictionary", chars |-> <<>>, items |-> items, keys |-> keys]
OpeningOf(t) == CASE t = "array" -> <<"[">> [] t = "set" -> <<"S", "e", "t", "(">> [] OTHER -> <<"{">>
Closing(t) == CASE t = "array" -> <<"]">> [] t = "set" -> <<")">> [] OTHER -> <<"}">>

FirstChars(s, n) == SubSeq(s, 1, IF n < Len(s) THEN n ELSE Len(s))
\* Mutant: room is left for the quotes.
StringPartQuoted(chars, size) == FirstChars(chars, IF size > 2 THEN size - 2 ELSE 0)
StringPart(chars, size) == FirstChars(chars, size)
RECURSIVE ItemToString(_, _), ItemsToString(_, _, _, _)
ItemToString(item, size) ==
  CASE size <= 0 -> <<>>
    [] item.t = "number" -> item.chars
    [] item.t = "string" -> <<"'">> \o StringPart(item.chars, size) \o <<"'">>
    [] OTHER -> ItemsToString(item, size, 1, OpeningOf(item.t))
\* iterableToString() and dictionaryToString(): without its end once the size is reached.
ItemsToString(item, size, i, result) ==
  IF i > Len(item.items) THEN result \o Closing(item.t)
  ELSE LET comma == result \o IF i = 1 THEN <<>> ELSE <<",", " ">>
           keyed == IF item.t # "dictionary" THEN comma
                    ELSE comma \o ItemToString(Text(item.keys[i]), size - Len(comma)) \o <<":", " ">>
           all == keyed \o ItemToString(item.items[i], size - Len(keyed))
       IN  IF Len(all) >= size THEN all ELSE ItemsToString(item, size, i + 1, all)
\* toDumpString(): cut, and marked when something was cut here.
Marker == <<"[", ".", ".", ".", "]">>
ToDumpString(item, size) ==
  LET all == ItemToString(item, size) IN IF Len(all) > size THEN FirstChars(all, size) \o Marker ELSE all

-----------------------------------------------------------------------------
(* assertEqual(): lists in their order, sets by their elements, anything    *)
(* else by its own keys, of which a set has none, then by ==.               *)

IsObject(x) == x.t \in {"array", "set", "dictionary"}
OwnKeys(x) == CASE x.t = "array" -> [i \in DOMAIN x.items |-> <<ToString(i - 1)>>] [] x.t = "dictionary" -> x.keys
                [] OTHER -> <<>>
\* Mutant: a longer list begins as the other one.
SameLengthAtMost(x, y) == Len(x.items) <= Len(y.items)
SameLength(x, y) == Len(x.items) = Len(y.items)
RECURSIVE AssertEqual(_, _)
AssertEqual(x, y) ==
  CASE x.t = "array" /\ y.t = "array" ->
         SameLength(x, y) /\ \A i \in DOMAIN x.items : AssertEqual(x.items[i], y.items[i])
    [] x.t = "set" /\ y.t = "set" ->
         Len(x.items) = Len(y.items) /\ \A i \in DOMAIN x.items : x.items[i] \in ToSet(y.items)
    [] IsObject(x) /\ IsObject(y) /\ ~(x.t = "array" /\ y.t = "array") ->
         OwnKeys(x) = OwnKeys(y) /\ \A i \in DOMAIN OwnKeys(x) : AssertEqual(x.items[i], y.items[i])
    [] OTHER -> ~IsObject(x) /\ ~IsObject(y) /\ x.chars = y.chars

-----------------------------------------------------------------------------
FormattingInit ==
  /\ formatInput \in {[task |-> "unit", unit |-> u] : u \in UnitInputs} \cup
                     {[task |-> "dump", item |-> i.item, size |-> i.size] : i \in DumpInputs} \cup
                     {[task |-> "equal", left |-> e.left, right |-> e.right] : e \in EqualInputs}
  /\ formatOutput = <<>>

UnitStep ==
  /\ formatInput.task = "unit" /\ formatOutput = <<>>
  /\ LET u == formatInput.unit IN formatOutput' = <<UnitsToString(u.base, u.prefix, u.n, u.d)>>
  /\ UNCHANGED formatInput
DumpStep ==
  /\ formatInput.task = "dump" /\ formatOutput = <<>>
  /\ formatOutput' = <<ToDumpString(formatInput.item, formatInput.size)>> /\ UNCHANGED formatInput
EqualStep ==
  /\ formatInput.task = "equal" /\ formatOutput = <<>>
  /\ formatOutput' = <<AssertEqual(formatInput.left, formatInput.right)>> /\ UNCHANGED formatInput
FormattingNext == UnitStep \/ DumpStep \/ EqualStep

-----------------------------------------------------------------------------
Computed(task) == formatOutput # <<>> /\ formatInput.task = task

\* Reference: the power of ten of a prefix, and the seconds of a unit of time.
Exponent == <<-24, -21, -18, -15, -12, -9, -6, -3, -2, -1, 0, 1, 2, 3, 6, 9, 12, 15, 18, 21, 24>>
RefFactor(base, i) ==
  CASE base = "g" -> 10 ^ (Exponent[i + 1] - Exponent[i])
    [] base = "Hz" -> 1000
    [] base = "By" -> 2 ^ 10
    [] OTHER -> CASE i <= 8 -> 1000 [] i = 9 -> 60 [] i = 10 -> 3600 \div 60 [] OTHER -> 86400 \div 3600
RECURSIVE RefScale(_, _, _)
RefScale(base, from, to) == IF from >= to THEN 1 ELSE RefFactor(base, from) * RefScale(base, from + 1, to)
Distance(a, b) == IF a > b THEN a - b ELSE b - a

\* Whatever unit is chosen, the number written in it is the number that was given, to half a tenth, and it
\* is at least 1 unless there is no lower unit and at most one of the next unit unless there is none
\* (to_string.ts, _unitsToString() and its tables, against the powers of ten, 1024 and the clock).
UnitsExact ==
  Computed("unit") =>
    LET u == formatInput.unit
        out == formatOutput[1]
        list == UnitListOf(u.base)
        start == IndexOf(list, u.prefix)
        d == u.d * RefScale(u.base, start, out.index)
        n == u.n * RefScale(u.base, out.index, start)
    IN  /\ 2 * Distance(out.tenths * d, 10 * n) <= d
        /\ (u.n > 0 /\ out.index > 1) => n >= d
        /\ out.index < Len(list) => n <= d * RefFactor(u.base, out.index)

\* However the value is nested and wherever the size is reached, the dump is the beginning of the whole
\* dump and at most the size long; it ends with [...] only when something is missing (format.ts,
\* toDumpString()).  A dump that is cut by a container exactly at the size has no mark.
DumpIsBeginning ==
  Computed("dump") =>
    LET whole == ItemToString(formatInput.item, 1000)
        out == formatOutput[1]
        marked == Len(out) > formatInput.size
        text == IF marked THEN SubSeq(out, 1, formatInput.size) ELSE out
    IN  /\ text = FirstChars(whole, Len(text)) /\ (marked => Len(whole) > formatInput.size)
        /\ Len(whole) <= formatInput.size => out = whole

\* Values that differ are told apart, at any depth, unless one of them is a set and the other is not: a
\* set has no keys of its own and equals every object without (exception.ts, assertEqual()).
RECURSIVE HasMixedSet(_, _)
HasMixedSet(x, y) ==
  \/ IsObject(x) /\ IsObject(y) /\ x.t # y.t
  \/ x.t # "set" /\ \E i \in DOMAIN x.items \cap DOMAIN y.items : HasMixedSet(x.items[i], y.items[i])
RECURSIVE SameValue(_, _)
SameValue(x, y) ==
  IF x.t = "set" /\ y.t = "set" THEN ToSet(x.items) = ToSet(y.items)
  ELSE /\ IsObject(x) = IsObject(y) /\ x.chars = y.chars /\ x.keys = y.keys /\ DOMAIN x.items = DOMAIN y.items
       /\ \A i \in DOMAIN x.items : SameValue(x.items[i], y.items[i])
DifferentRefused ==
  (Computed("equal") /\ ~HasMixedSet(formatInput.left, formatInput.right)) =>
    formatOutput[1] = SameValue(formatInput.left, formatInput.right)


-----------------------------------------------------------------------------
\* Validation accepts just what its constraints say, and texts of values are what they stand for.
ValuesCorrect ==
  /\ OrderMeansNothing
  /\ TextIsNumber
  /\ AcceptedIsComplete
  /\ RequiredAtEveryLevel
  /\ AnyOfAdds
  /\ UnitsExact
  /\ DumpIsBeginning
  /\ DifferentRefused
=============================================================================
