------------------------------ MODULE ToolSchema ------------------------------
(***************************************************************************)
(* validateArguments: what Executor.execute asks before it invokes a tool. *)
(* The tool's schema and the model's arguments are JSON documents that the *)
(* program did not write.  The walk over the arguments asserts, without a  *)
(* second result, what the walk over the schema is to have established; an *)
(* assertion that fails would end the process.                             *)
(***************************************************************************)
EXTENDS Integers, Sequences

CONSTANTS
  Values,       \* JSON values, and what they contain
  Definitions,  \* schema documents that tools come with
  Arguments,    \* argument documents that models send
  MaxDepth,     \* of the values a decoder accepts (10000 in encoding/json)
  WordBits      \* bits of a signed integer (64 in the program)

ASSUME MaxDepthAssumption == MaxDepth \in Nat
ASSUME WordBitsAssumption == WordBits \in Nat \ {0}

VARIABLES
  definition,  \* the schema document
  arguments,   \* the argument document, NotRead before
  stage,       \* how far validateArguments is
  verdict      \* "none" before, then "invalid schema", "ok", "error" (in the
               \* arguments) or "panic"

vars == <<definition, arguments, stage, verdict>>

-----------------------------------------------------------------------------
(* JSON values.  A number is an integer in plain digits, the same integer  *)
(* in another spelling (1.0, 1e0), or lies between it and the next one; -0,*)
(* a second plain spelling of 0, is left out.                              *)

Null == [kind |-> "null"]
Bool(b) == [kind |-> "boolean", bool |-> b]
Str(s) == [kind |-> "string", string |-> s]
Num(n, spelling) == [kind |-> "number", number |-> n, spelling |-> spelling]
Arr(s) == [kind |-> "array", elements |-> s]
Obj(f) == [kind |-> "object", members |-> f]

IsValue(v) ==
  \/ v \in [kind : {"null"}]
  \/ v \in [kind : {"boolean"}, bool : BOOLEAN]
  \/ v \in [kind : {"string"}, string : STRING]
  \/ v \in [kind : {"number"}, number : Int, spelling : {"plain", "respelled", "fraction"}]
  \/ v \in [kind : {"array"}, elements : Seq(Values)]
  \/ /\ v.kind = "object"
     /\ v = Obj(v.members)
     /\ v.members \in [DOMAIN v.members -> Values]

ASSUME ValuesAssumption == \A v \in Values : IsValue(v)

Parts(value) ==
  CASE value.kind = "array" -> {value.elements[i] : i \in DOMAIN value.elements}
    [] value.kind = "object" -> {value.members[name] : name \in DOMAIN value.members}
    [] OTHER -> {}

(* The values with at most n arrays and objects around each other.         *)
Nested[n \in Nat] ==
  IF n = 0 THEN {v \in Values : v.kind \notin {"array", "object"}}
  ELSE LET inner == Nested[n - 1] IN {v \in Values : Parts(v) \subseteq inner}

Decodable == Nested[MaxDepth]

(* A document: the values a decoder finds in it, and whether what follows  *)
(* them is broken.                                                         *)
Document(values, broken) == [values |-> values, broken |-> broken]
One(value) == Document(<<value>>, FALSE)

ASSUME DocumentsAssumption ==
  Definitions \cup Arguments \subseteq [values : Seq(Values), broken : BOOLEAN]

NotRead == Document(<<>>, FALSE)

Init ==
  /\ definition \in Definitions
  /\ arguments = NotRead
  /\ stage = "schema"
  /\ verdict = "none"

-----------------------------------------------------------------------------
(* decodeOneJSON: one value, not too deep, and nothing behind it.          *)
Decodes(document) ==
  Len(document.values) = 1 /\ ~document.broken /\ document.values[1] \in Decodable

(* Decoding into a map: an object, or null, which leaves the map empty.    *)
DecodesAsSchema(document) ==
  Decodes(document) /\ document.values[1].kind \in {"object", "null"}

SchemaOf(document) ==
  IF document.values[1] = Null THEN Obj(<<>>) ELSE document.values[1]

SupportedKeywords == {"type", "properties", "required", "additionalProperties", "items", "enum"}
Types == {"object", "array", "string", "number", "integer", "boolean", "null"}

Has(schema, keyword) == keyword \in DOMAIN schema.members
Says(schema, keyword, kind) == Has(schema, keyword) /\ schema.members[keyword].kind = kind
TypeIs(schema, type) == Says(schema, "type", "string") /\ schema.members.type.string = type

Properties(schema) ==
  IF Says(schema, "properties", "object") THEN schema.members.properties.members ELSE <<>>

(* Mutant: the schemas of properties are not looked into.                  *)
PropertiesAreObjects(schema, valid) ==
  Has(schema, "properties") =>
    /\ Says(schema, "properties", "object")
    /\ \A name \in DOMAIN Properties(schema) : Properties(schema)[name].kind = "object"

(* The walk goes on where valid says how it ends.                          *)
ValidProperties(schema, valid) ==
  Has(schema, "properties") =>
    /\ Says(schema, "properties", "object")
    /\ \A name \in DOMAIN Properties(schema) :
         Properties(schema)[name].kind = "object" /\ Properties(schema)[name] \in valid

ValidRequired(schema) ==
  Has(schema, "required") =>
    /\ Says(schema, "required", "array")
    /\ \A i \in DOMAIN schema.members.required.elements :
         schema.members.required.elements[i].kind = "string"

(* validateSchema.  A keyword is judged only where the declared type uses  *)
(* it; items of a string, say, may be anything.                            *)
ValidateSchema(schema, valid) ==
  /\ DOMAIN schema.members \subseteq SupportedKeywords
  /\ \E type \in Types : TypeIs(schema, type)
  /\ TypeIs(schema, "object") =>
       /\ ValidProperties(schema, valid)
       /\ ValidRequired(schema)
       /\ Has(schema, "additionalProperties") =>
            schema.members.additionalProperties = Bool(FALSE)
  /\ TypeIs(schema, "array") => Says(schema, "items", "object") /\ schema.members.items \in valid
  /\ Has(schema, "enum") => Says(schema, "enum", "array")

(* The valid schemas with at most n around each other.                     *)
ValidSchemas[n \in Nat] ==
  IF n = 0 THEN {}
  ELSE LET valid == ValidSchemas[n - 1]
       IN  {s \in Values : s.kind = "object" /\ ValidateSchema(s, valid)}

ValidRoots == {s \in ValidSchemas[MaxDepth] : TypeIs(s, "object")}

-----------------------------------------------------------------------------
(* A schema or value, and a value.                                         *)
Pairs == Values \X Values

(* validateValue.  A part of the walk says "ok", "error", or "panic" where *)
(* a type assertion without a second result fails.                         *)

(* Parts that the code visits one after the other until one fails.  It     *)
(* ranges over a map, so a panic may come before any error.                *)
Together(verdicts) ==
  IF "panic" \in verdicts THEN "panic" ELSE IF "error" \in verdicts THEN "error" ELSE "ok"

Check(condition) == IF condition THEN "ok" ELSE "error"

(* json.Number.Int64: the spelling of an integer, within the word.         *)
IsInt64(value) ==
  /\ value.spelling = "plain"
  /\ value.number \in (-(2 ^ (WordBits - 1))) .. (2 ^ (WordBits - 1) - 1)

(* reflect.DeepEqual: numbers are equal when they are spelled alike.       *)
EnumForbids(schema, value) ==
  /\ Says(schema, "enum", "array")
  /\ \A i \in DOMAIN schema.members.enum.elements : schema.members.enum.elements[i] # value

(* Mutant: a required name counts as given when the schema declares it.    *)
RequiredOrDeclared(schema, value) ==
  IF ~ Says(schema, "required", "array") THEN "ok"
  ELSE Together({LET name == schema.members.required.elements[i] IN
                   IF name.kind # "string" THEN "panic"
                   ELSE Check(name.string \in DOMAIN value.members \cup DOMAIN Properties(schema)) :
                   i \in DOMAIN schema.members.required.elements})

RequiredGiven(schema, value) ==
  IF ~ Says(schema, "required", "array") THEN "ok"
  ELSE Together({LET name == schema.members.required.elements[i] IN
                   IF name.kind # "string" THEN "panic"
                   ELSE Check(name.string \in DOMAIN value.members) :
                   i \in DOMAIN schema.members.required.elements})

(* Mutant: declared names must be given, and the others are not looked at. *)
OnlyDeclaredSwapped(schema, value) ==
  Check(Has(schema, "additionalProperties") /\ schema.members.additionalProperties = Bool(FALSE)
          => DOMAIN Properties(schema) \subseteq DOMAIN value.members)

OnlyDeclared(schema, value) ==
  Check(Has(schema, "additionalProperties") /\ schema.members.additionalProperties = Bool(FALSE)
          => DOMAIN value.members \subseteq DOMAIN Properties(schema))

ValidateMembers(schema, value, judge) ==
  LET given == DOMAIN Properties(schema) \cap DOMAIN value.members IN
  Together({IF Properties(schema)[name].kind # "object" THEN "panic"
            ELSE judge[<<Properties(schema)[name], value.members[name]>>] : name \in given})

ValidateObject(schema, value, judge) ==
  IF value.kind # "object" THEN "error"
  ELSE IF RequiredGiven(schema, value) # "ok" THEN RequiredGiven(schema, value)
  ELSE IF OnlyDeclared(schema, value) # "ok" THEN "error"
  ELSE ValidateMembers(schema, value, judge)

ValidateArray(schema, value, judge) ==
  IF value.kind # "array" THEN "error"
  ELSE IF ~ Says(schema, "items", "object") THEN "panic"
  ELSE Together({judge[<<schema.members.items, value.elements[i]>>] : i \in DOMAIN value.elements})

(* validateValue; judge says how the walk goes on one schema further in.   *)
ValidateValue(schema, value, judge) ==
  IF EnumForbids(schema, value) THEN "error"
  ELSE IF ~ Says(schema, "type", "string") THEN "panic"
  ELSE IF TypeIs(schema, "object") THEN ValidateObject(schema, value, judge)
  ELSE IF TypeIs(schema, "array") THEN ValidateArray(schema, value, judge)
  ELSE IF TypeIs(schema, "integer") THEN Check(value.kind = "number" /\ IsInt64(value))
  ELSE Check(schema.members.type.string \in Types => TypeIs(schema, value.kind))

(* The walk through n schemas around each other; one that met more would   *)
(* not have come to its end.                                               *)
Verdicts[n \in Nat] ==
  IF n = 0 THEN [pair \in Pairs |-> "panic"]
  ELSE [pair \in Pairs |-> ValidateValue(pair[1], pair[2], Verdicts[n - 1])]

-----------------------------------------------------------------------------
(* validateArguments.                                                      *)

Conclude(result) == verdict' = result /\ stage' = "done"

RejectDefinition ==
  /\ stage = "schema"
  /\ ~ (DecodesAsSchema(definition) /\ SchemaOf(definition) \in ValidRoots)
  /\ Conclude("invalid schema")
  /\ UNCHANGED <<definition, arguments>>

AcceptDefinition ==
  /\ stage = "schema"
  /\ DecodesAsSchema(definition) /\ SchemaOf(definition) \in ValidRoots
  /\ stage' = "arguments"
  /\ UNCHANGED <<definition, arguments, verdict>>

(* The call's arguments, which nothing has looked at before.               *)
ReadArguments ==
  /\ stage = "arguments"
  /\ arguments' \in Arguments
  /\ IF Decodes(arguments') THEN stage' = "value" /\ UNCHANGED verdict ELSE Conclude("error")
  /\ UNCHANGED definition

JudgeArguments ==
  /\ stage = "value"
  /\ Conclude(Verdicts[MaxDepth][<<SchemaOf(definition), arguments.values[1]>>])
  /\ UNCHANGED <<definition, arguments>>

Next == RejectDefinition \/ AcceptDefinition \/ ReadArguments \/ JudgeArguments

Spec == Init /\ [][Next]_vars

-----------------------------------------------------------------------------
(* The reference: what the keywords mean in JSON Schema, where each speaks *)
(* of the values it applies to whatever the declared type, numbers are     *)
(* equal when their values are, and an integer is any number without a     *)
(* fraction.  A schema that uses anything else admits nothing.             *)

Twice(value) == IF value.spelling = "fraction" THEN 2 * value.number + 1 ELSE 2 * value.number

Same(a, b, same) ==
  \/ a = b
  \/ a.kind = "number" /\ b.kind = "number" /\ Twice(a) = Twice(b)
  \/ /\ a.kind = "array" /\ b.kind = "array"
     /\ Len(a.elements) = Len(b.elements)
     /\ \A i \in DOMAIN a.elements : same[<<a.elements[i], b.elements[i]>>]
  \/ /\ a.kind = "object" /\ b.kind = "object"
     /\ DOMAIN a.members = DOMAIN b.members
     /\ \A name \in DOMAIN a.members : same[<<a.members[name], b.members[name]>>]

SameValue[n \in Nat] ==
  IF n = 0 THEN [pair \in Pairs |-> pair[1] = pair[2]]
  ELSE [pair \in Pairs |-> Same(pair[1], pair[2], SameValue[n - 1])]

(* The declared type admits the kind of the value.                         *)
TypeAdmits(type, value) ==
  \/ type.kind = "string" /\ type.string = value.kind
  \/ type = Str("integer") /\ value.kind = "number" /\ value.spelling # "fraction"

(* What a keyword, with what it says, asks of a value.                     *)
KeywordAdmits(schema, keyword, value, conforms) ==
  LET s == schema.members[keyword] IN
  CASE keyword = "type" -> TypeAdmits(s, value)
    [] keyword = "enum" ->
         /\ s.kind = "array"
         /\ \E i \in DOMAIN s.elements : SameValue[MaxDepth][<<s.elements[i], value>>]
    [] keyword = "properties" ->
         value.kind = "object" =>
           /\ s.kind = "object"
           /\ \A name \in DOMAIN s.members \cap DOMAIN value.members :
                conforms[<<s.members[name], value.members[name]>>]
    [] keyword = "required" ->
         value.kind = "object" =>
           /\ s.kind = "array"
           /\ \A i \in DOMAIN s.elements :
                s.elements[i].kind = "string" /\ s.elements[i].string \in DOMAIN value.members
    [] keyword = "additionalProperties" ->
         value.kind = "object" =>
           s = Bool(FALSE) /\ DOMAIN value.members \subseteq DOMAIN Properties(schema)
    [] keyword = "items" ->
         value.kind = "array" => \A i \in DOMAIN value.elements : conforms[<<s, value.elements[i]>>]
    [] OTHER -> FALSE

Conforms[n \in Nat] ==
  IF n = 0 THEN [pair \in Pairs |-> FALSE]
  ELSE [pair \in Pairs |->
          /\ pair[1].kind = "object"
          /\ \A keyword \in DOMAIN pair[1].members :
               KeywordAdmits(pair[1], keyword, pair[2], Conforms[n - 1])]

(* The documented subset: every keyword is one of six and says what it is  *)
(* to say, there is a type, and arrays say what their items are.           *)
KeywordIsDocumented(schema, keyword, documented) ==
  LET s == schema.members[keyword] IN
  CASE keyword = "type" -> \E type \in Types : s = Str(type)
    [] keyword = "properties" -> s.kind = "object" /\ Parts(s) \subseteq documented
    [] keyword = "required" -> s.kind = "array" /\ \A part \in Parts(s) : part.kind = "string"
    [] keyword = "additionalProperties" -> s = Bool(FALSE)
    [] keyword = "items" -> s \in documented
    [] keyword = "enum" -> s.kind = "array"
    [] OTHER -> FALSE

Documented[n \in Nat] ==
  IF n = 0 THEN {}
  ELSE LET documented == Documented[n - 1]
       IN  {s \in Values :
              /\ s.kind = "object"
              /\ Has(s, "type")
              /\ TypeIs(s, "array") => Has(s, "items")
              /\ \A keyword \in DOMAIN s.members : KeywordIsDocumented(s, keyword, documented)}

DocumentedRoots == {s \in Documented[MaxDepth] : TypeIs(s, "object")}

(* The values with numbers that are spelled plainly and fit the word.      *)
PlainNumber(value) == value.kind = "number" => value.spelling = "fraction" \/ IsInt64(value)

Plain[n \in Nat] ==
  IF n = 0 THEN {v \in Nested[0] : PlainNumber(v)}
  ELSE LET plain == Plain[n - 1] IN {v \in Values : PlainNumber(v) /\ Parts(v) \subseteq plain}

PlainValues == Plain[MaxDepth]

-----------------------------------------------------------------------------
(* Properties.                                                             *)

(* A schema that passed validateSchema never makes the walk over the       *)
(* arguments fail an assertion, whatever the arguments are: no tool and no *)
(* model answer can end the process here.  (The unchecked assertions of    *)
(* validateValue.)                                                         *)
NeverPanics == verdict # "panic"

(* A tool is only invoked with arguments that its schema admits, and a     *)
(* keyword or type outside the subset admits none.  (validateArguments;    *)
(* contracts/tool-execution.md, "fail closed before Invoke".)              *)
AcceptedArgumentsConform ==
  verdict = "ok" => Conforms[MaxDepth][<<definition.values[1], arguments.values[1]>>]

(* A tool that keeps to the documented subset is invoked with any arguments*)
(* its schema admits, but for numbers that are not plain integers of the   *)
(* word.  (contracts/tool-execution.md, "The lesson 17 validator accepts"; *)
(* number.Int64 and reflect.DeepEqual over json.Number.)                   *)
ConformingArgumentsAccepted ==
  /\ Decodes(definition) /\ definition.values[1] \in DocumentedRoots
  => /\ verdict # "invalid schema"
     /\ verdict = "error" =>
          \/ ~ Decodes(arguments)
          \/ ~ Conforms[MaxDepth][<<definition.values[1], arguments.values[1]>>]
          \/ arguments.values[1] \notin PlainValues
          \/ definition.values[1] \notin PlainValues
=============================================================================
