--------------------------- MODULE PlaybookParams ---------------------------
(***************************************************************************)
(* The parameters of a playbook: which schemas are accepted, and what      *)
(* becomes of the parameters of a request.  An execution stores what they  *)
(* became, and a replay sends the stored ones through the same function.   *)
(*                                                                         *)
(* A text is its length and whether blanks surround it; the texts an enum  *)
(* allows are the lengths in `options`.                                    *)
(***************************************************************************)
EXTENDS Integers, FiniteSets, Functions

CONSTANTS Keys, Sizes   \* keys of parameters, numbers and lengths

Types == {"string", "integer", "number", "boolean", "enum"}
Field == [type : Types, required : BOOLEAN, least : Sizes, most : Sizes,
          options : SUBSET Sizes, default : {{}} \cup {{v} : v \in Sizes}]
Value == [type : {"string", "integer", "number", "boolean"}, v : Sizes, padded : BOOLEAN]

\* parse_parameter_schema: keys are distinct, being the domain of the schema.
SchemaIsValid(schema) ==
    \A k \in DOMAIN schema :
        /\ schema[k].type = "enum" => schema[k].options # {}
        /\ schema[k].least <= schema[k].most

InRange(field, value) == field.least <= value.v /\ value.v <= field.most

\* Seeded fault: a number is read as an integer, and stored as a float.
ValidIntegersOnly(field, value) ==
    CASE field.type = "string" ->
           value.type = "string" /\ (field.required => value.v > 0) /\ value.v <= field.most
      [] field.type = "integer" -> value.type = "integer" /\ InRange(field, value)
      [] field.type = "number"  -> value.type = "integer" /\ InRange(field, value)
      [] field.type = "boolean" -> value.type = "boolean"
      [] OTHER -> value.type = "string" /\ value.v \in field.options

IsValid(field, value) ==
    CASE field.type = "string" ->
           value.type = "string" /\ (field.required => value.v > 0) /\ value.v <= field.most
      [] field.type = "integer" -> value.type = "integer" /\ InRange(field, value)
      [] field.type = "number"  -> value.type \in {"integer", "number"} /\ InRange(field, value)
      [] field.type = "boolean" -> value.type = "boolean"
      [] OTHER -> value.type = "string" /\ value.v \in field.options

\* What is stored of a valid value: texts are trimmed, a number becomes a float.
Stored(field, value) ==
    CASE field.type \in {"string", "enum"} -> [value EXCEPT !.padded = FALSE]
      [] field.type = "number" -> [value EXCEPT !.type = "number"]
      [] OTHER -> value

TypeOfDefault(field) == IF field.type = "enum" THEN "string" ELSE field.type

\* What the request gives for a key, or else the default of the schema.
Given(schema, params, k) ==
    IF k \in DOMAIN params THEN {params[k]}
    ELSE {[type |-> TypeOfDefault(schema[k]), v |-> d, padded |-> TRUE] : d \in schema[k].default}

\* normalize_playbook_params: what becomes of the parameters; nothing, of those
\* that are refused.
Normalized(schema, params) ==
    IF \/ DOMAIN params \ DOMAIN schema # {}
       \/ \E k \in DOMAIN schema :
            IF Given(schema, params, k) = {}
              THEN schema[k].required
              ELSE \A value \in Given(schema, params, k) : ~IsValid(schema[k], value)
      THEN {}
      ELSE {[k \in {x \in DOMAIN schema : Given(schema, params, x) # {}} |->
              Stored(schema[k], CHOOSE value \in Given(schema, params, k) : TRUE)]}

\* What an execution stored is accepted by the same schema, and a replay runs
\* with exactly the parameters of the run it repeats.
ReplayKeepsParams(schema, params) ==
    SchemaIsValid(schema) =>
        \A stored \in Normalized(schema, params) : Normalized(schema, stored) = {stored}
=============================================================================
