------------------------------- MODULE Fields -------------------------------
(***************************************************************************)
(* The definitions of an asset's custom fields.  An update reads the       *)
(* definition, fills in what the request leaves out from what it read,     *)
(* checks the whole and writes the whole back; the reading locks nothing.  *)
(* The definitions that are enabled decide which values an asset may have. *)
(***************************************************************************)
EXTENDS Integers, Sequences, FiniteSets

CONSTANTS
    Calls,      \* requests under way
    Keys,       \* field keys
    Types,      \* the field types that are used, of FieldTypes
    Values,     \* records: form (string, integer, number, boolean), length, reads
    Limits,     \* maximal lengths a request may give
    Absent,     \* no definition, no limit, no value
    LeftOut     \* a field the request leaves out

VARIABLES
    definitions,    \* asset_field_definitions: key -> row or Absent
    calls           \* calls[c]: the local state of a request

Idle == [pc |-> "idle"]
Goto(c, state) == calls' = [calls EXCEPT ![c] = state]

FieldTypes == {"text", "integer", "float", "boolean", "enum", "date", "datetime"}
HasLength == {"text", "enum"}

\* validate_max_length
WithinLimit(limit, value) == IF limit = Absent THEN TRUE ELSE value.length <= limit

\* validate_custom_field_value.  `reads` is what a string can be read as.
Fits(d, value) ==
    /\ d.type \in {"text", "enum", "date", "datetime"} => value.form = "string"
    /\ d.type = "integer" => value.form = "integer"
    /\ d.type = "float"   => value.form \in {"integer", "number"}
    /\ d.type = "boolean" => value.form = "boolean"
    /\ d.type \in HasLength => WithinLimit(d.limit, value)
    /\ d.type = "enum" => value \in d.options
    /\ d.type \in {"date", "datetime"} => value.reads = d.type

\* normalize_field_definition_input and normalize_options; the options are a
\* set, as a list that repeats one is refused.
WellFormed(d) ==
    /\ d.limit # Absent => d.type \in HasLength
    /\ IF d.type = "enum" THEN d.options # {} /\ \A o \in d.options : WithinLimit(d.limit, o)
       ELSE d.options = {}

Options == SUBSET {v \in Values : v.form = "string"}

InitFields == /\ definitions = [k \in Keys |-> Absent]
              /\ calls = [c \in Calls |-> Idle]

\* The key is unique.
CreateDefinition(k) ==
    /\ definitions[k] = Absent
    /\ \E type \in Types, limit \in Limits \cup {Absent}, options \in Options,
          required, enabled \in BOOLEAN :
         LET d == [type |-> type, limit |-> limit, options |-> options,
                   required |-> required, enabled |-> enabled]
         IN WellFormed(d) /\ definitions' = [definitions EXCEPT ![k] = d]

ReadDefinition(c, k) ==
    /\ calls[c] = Idle /\ definitions[k] # Absent
    /\ Goto(c, [pc |-> "definition", key |-> k, read |-> definitions[k]])

Given(value, otherwise) == IF value = LeftOut THEN otherwise ELSE value

Filled(d, limit, options, required, enabled) ==
    [type |-> d.type, limit |-> Given(limit, d.limit), options |-> Given(options, d.options),
     required |-> Given(required, d.required), enabled |-> Given(enabled, d.enabled)]

\* Seeded fault: the check is of the row that was read, the write of the given columns only.
WriteGivenColumns(c, limit, options, required, enabled) ==
    Filled(definitions[calls[c].key], limit, options, required, enabled)

\* The row an update writes.
NewRow(c, limit, options, required, enabled) ==
    Filled(calls[c].read, limit, options, required, enabled)

\* A limit cannot be taken away: a null counts as left out.
UpdateDefinition(c) ==
    /\ calls[c].pc = "definition"
    /\ \E limit \in Limits \cup {LeftOut}, options \in Options \cup {LeftOut},
          required, enabled \in BOOLEAN \cup {LeftOut} :
         /\ WellFormed(Filled(calls[c].read, limit, options, required, enabled))
         /\ definitions' = [definitions EXCEPT
              ![calls[c].key] = NewRow(c, limit, options, required, enabled)]

EnabledKeys(defs) == {k \in Keys : defs[k] # Absent /\ defs[k].enabled}

\* Seeded fault: only the fields that are given are looked at.
ValidGiven(defs, fields) ==
    \A k \in DOMAIN fields : k \in EnabledKeys(defs) /\ Fits(defs[k], fields[k])

\* validate_custom_fields
ValidFields(defs, fields) ==
    /\ DOMAIN fields \subseteq EnabledKeys(defs)
    /\ \A k \in EnabledKeys(defs) :
         IF k \in DOMAIN fields THEN Fits(defs[k], fields[k]) ELSE ~defs[k].required

\* What a request may give as custom fields; a null counts as left out.
FieldSets == UNION {[keys -> Values] : keys \in SUBSET Keys}
-----------------------------------------------------------------------------
(* Properties *)

\* Whoever updates a definition at the same time, each option of an enumeration
\* is a value the enumeration accepts, and there is one.
OptionsAreUsable ==
    \A k \in Keys :
      definitions[k] # Absent /\ definitions[k].type = "enum" =>
        /\ definitions[k].options # {}
        /\ \A o \in definitions[k].options : Fits(definitions[k], o)
=============================================================================
