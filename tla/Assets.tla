------------------------------- MODULE Assets -------------------------------
(***************************************************************************)
(* The rows of the assets, their bindings and their lifecycle.  An update  *)
(* reads the whole row and writes the whole row back, status included.  A  *)
(* transition reads the status and counts three kinds of bindings in three *)
(* statements before it writes the status.  Nothing is locked.  The        *)
(* approval of a candidate, which is Discovery's, creates assets too and   *)
(* writes into the custom fields of others, and checks neither.  The job   *)
(* for the monitoring that follows a creation or an update is SyncQueue's. *)
(***************************************************************************)
EXTENDS Fields

CONSTANTS
    Departments, Services, Owners,  \* what an asset can be bound to
    Codes,                          \* QR codes and barcodes
    Entered, Sought,                \* the statuses that requests give for the column,
                                    \* and those that transitions ask for
    MaxAssets                       \* bound on the assets

VARIABLES
    assets,     \* rows by id, with what was true when they were written:
                \*   decided: the status was set by a lifecycle transition
                \*   sure:    its bindings have not been replaced since they were counted
                \*   checked: no definition has changed since the fields were checked
    bindings    \* the three binding tables: asset -> kind -> set

assetVars == <<definitions, calls, assets, bindings>>

Kinds == {"department", "service", "owner"}
Statuses == {"idle", "onboarding", "operational", "maintenance", "retired"}
\* normalize_create_status, normalize_update_status: `active` is read as idle.
Settable == Entered \ {"operational"}
Unbound == [k \in Kinds |-> {}]

InitAssets == InitFields /\ assets = <<>> /\ bindings = <<>>

\* Seeded fault: a code is compared with that of the asset itself, not of the others.
FreeOfItself(column, code, i) ==
    code = Absent \/ \A j \in DOMAIN assets \cap {i} : assets[j][column] # code

\* A column with a unique index.
FreeCode(column, code, i) ==
    code = Absent \/ \A j \in DOMAIN assets \ {i} : assets[j][column] # code

\* The keys that the approval of a candidate writes, the second only if the
\* candidate tells its source, and its values: texts that no request gives.
Marks == {{"discovery_fingerprint"}, {"discovery_fingerprint", "discovery_source_type"}}
Stamp == [form |-> "string", length |-> 40, reads |-> "word"]

\* Seeded fault: what discovery knows takes the place of the fields.
MarkedAlone(fields, marks) == [k \in marks |-> Stamp]

\* The JSON operator ||: keys are added or overwritten.
Marked(fields, marks) == [k \in DOMAIN fields \cup marks |-> IF k \in marks THEN Stamp ELSE fields[k]]

\* create_asset_from_candidate_payload: the metadata become fields as they are.
CreateDiscovered ==
    /\ Len(assets) < MaxAssets
    /\ \E metadata \in FieldSets, marks \in Marks, department \in Departments \cup {Absent} :
         assets' = Append(assets, [status |-> "idle", department |-> department, qr |-> Absent,
                            bar |-> Absent, fields |-> Marked(metadata, marks), checked |-> FALSE,
                            decided |-> FALSE, sure |-> TRUE])
    /\ bindings' = Append(bindings, Unbound)
    /\ UNCHANGED <<definitions, calls>>

\* upsert_asset_discovery_fingerprint
MergeDiscovered ==
    /\ \E i \in DOMAIN assets, marks \in Marks :
         assets' = [assets EXCEPT ![i].fields = Marked(@, marks)]
    /\ UNCHANGED <<definitions, calls, bindings>>

CreateRead(c) ==
    /\ calls[c] = Idle /\ Len(assets) < MaxAssets
    /\ \E fields \in FieldSets :
         ValidFields(definitions, fields)
         /\ Goto(c, [pc |-> "create", fields |-> fields, checked |-> TRUE])
    /\ UNCHANGED <<definitions, assets, bindings>>

CreateAsset(c) ==
    /\ calls[c].pc = "create" /\ Len(assets) < MaxAssets
    /\ \E status \in Settable, department \in Departments \cup {Absent},
          qr, bar \in Codes \cup {Absent} :
         /\ FreeCode("qr", qr, 0) /\ FreeCode("bar", bar, 0)
         /\ assets' = Append(assets, [status |-> status, department |-> department, qr |-> qr,
                              bar |-> bar, fields |-> calls[c].fields, checked |-> calls[c].checked,
                              decided |-> FALSE, sure |-> TRUE])
    /\ bindings' = Append(bindings, Unbound)
    /\ Goto(c, Idle)
    /\ UNCHANGED definitions

UpdateRead(c) ==
    /\ calls[c] = Idle
    /\ \E i \in DOMAIN assets :
         Goto(c, [pc |-> "update", asset |-> i, read |-> assets[i], given |-> FALSE])
    /\ UNCHANGED <<definitions, assets, bindings>>

\* Only custom fields the request gives are checked.
UpdateCheck(c) ==
    /\ calls[c].pc = "update" /\ ~calls[c].given
    /\ \E fields \in FieldSets :
         /\ ValidFields(definitions, fields)
         /\ Goto(c, [calls[c] EXCEPT !.given = TRUE, !.read.fields = fields,
                                     !.read.checked = TRUE])
    /\ UNCHANGED <<definitions, assets, bindings>>

\* What a request gives for a column: to clear one that can hold no value is
\* the same as to leave it out.
GivenFor(values) == values \cup {LeftOut} \cup {Absent : v \in values}

\* A status, a department or a code that is left out is written back as it was read.
Rewritten(read, status, department, qr, bar) ==
    [status |-> Given(status, read.status), department |-> Given(department, read.department),
     qr |-> Given(qr, read.qr), bar |-> Given(bar, read.bar), fields |-> read.fields,
     checked |-> read.checked, decided |-> read.decided /\ status = LeftOut, sure |-> read.sure]

UpdateAsset(c) ==
    /\ calls[c].pc = "update"
    /\ \E status \in Settable \cup {LeftOut}, department \in GivenFor(Departments),
          qr, bar \in GivenFor(Codes) :
         LET row == Rewritten(calls[c].read, status, department, qr, bar)
         IN /\ FreeCode("qr", row.qr, calls[c].asset) /\ FreeCode("bar", row.bar, calls[c].asset)
            /\ assets' = [assets EXCEPT ![calls[c].asset] = row]
    /\ Goto(c, Idle)
    /\ UNCHANGED <<definitions, bindings>>

\* Each list that is given replaces the asset's; two requests at once may leave
\* the lists of both, which is a list that one request could have given.  What was
\* counted before, by a transition or for the row or for a row that was read, may
\* not hold any more.
UpsertBindings ==
    \E i \in DOMAIN assets, d \in (SUBSET Departments) \cup {LeftOut},
       s \in (SUBSET Services) \cup {LeftOut}, o \in (SUBSET Owners) \cup {LeftOut} :
        LET lists == [department |-> d, service |-> s, owner |-> o]
        IN /\ \E k \in Kinds : lists[k] # LeftOut
           /\ bindings' = [bindings EXCEPT ![i] = [k \in Kinds |-> Given(lists[k], @[k])]]
           /\ assets' = [assets EXCEPT ![i].sure = FALSE]
           /\ calls' = [c \in Calls |->
                CASE calls[c].pc = "transition" /\ calls[c].asset = i -> [calls[c] EXCEPT !.sure = FALSE]
                  [] calls[c].pc = "update" /\ calls[c].asset = i -> [calls[c] EXCEPT !.read.sure = FALSE]
                  [] OTHER -> calls[c]]
           /\ UNCHANGED definitions

\* evaluate_operational_readiness counts the departments, the services and the
\* owners, one statement after the other.
NextKind == [department |-> "service", service |-> "owner", owner |-> "write"]

TransitionRead(c) ==
    /\ calls[c] = Idle
    /\ \E i \in DOMAIN assets, status \in Sought :
         Goto(c, [pc |-> "transition", asset |-> i, status |-> status, count |-> "department",
                  missing |-> {}, sure |-> TRUE])
    /\ UNCHANGED <<definitions, assets, bindings>>

\* Seeded fault: an owner is not required.
CountAllButOwners(c) ==
    LET call == calls[c]
    IN IF bindings[call.asset][call.count] = {} /\ call.count # "owner"
       THEN call.missing \cup {call.count} ELSE call.missing

Missing(c) == IF bindings[calls[c].asset][calls[c].count] = {}
              THEN calls[c].missing \cup {calls[c].count} ELSE calls[c].missing

CountBindings(c) ==
    /\ calls[c].pc = "transition" /\ calls[c].count \in Kinds
    /\ Goto(c, [calls[c] EXCEPT !.missing = Missing(c), !.count = NextKind[calls[c].count]])
    /\ UNCHANGED <<definitions, assets, bindings>>

\* Any status may follow any other; only `operational` needs the bindings.
Transition(c) ==
    /\ calls[c].pc = "transition" /\ calls[c].count = "write"
    /\ calls[c].status = "operational" => calls[c].missing = {}
    /\ assets' = [assets EXCEPT ![calls[c].asset].status = calls[c].status,
                                ![calls[c].asset].decided = TRUE,
                                ![calls[c].asset].sure = calls[c].sure]
    /\ Goto(c, Idle)
    /\ UNCHANGED <<definitions, bindings>>

Refuse(c) == /\ calls[c] # Idle
             /\ Goto(c, Idle)
             /\ UNCHANGED <<definitions, assets, bindings>>

\* A definition is written: what was checked with another one is not any more.
Recheck(local) == [c \in Calls |->
    CASE local[c].pc = "create" -> [local[c] EXCEPT !.checked = FALSE]
      [] local[c].pc = "update" -> [local[c] EXCEPT !.read.checked = FALSE]
      [] OTHER -> local[c]]

FieldStep ==
    \/ \E c \in Calls, k \in Keys : ReadDefinition(c, k) /\ UNCHANGED <<definitions, assets>>
    \/ /\ \/ \E k \in Keys : CreateDefinition(k) /\ calls' = Recheck(calls)
          \/ \E c \in Calls : UpdateDefinition(c) /\ calls' = Recheck([calls EXCEPT ![c] = Idle])
       /\ assets' = [i \in DOMAIN assets |-> [assets[i] EXCEPT !.checked = FALSE]]

NextAssets ==
    \/ \E c \in Calls : \/ CreateRead(c) \/ CreateAsset(c) \/ UpdateRead(c) \/ UpdateCheck(c)
                        \/ UpdateAsset(c) \/ TransitionRead(c) \/ CountBindings(c)
                        \/ Transition(c) \/ Refuse(c)
    \/ CreateDiscovered \/ MergeDiscovered \/ UpsertBindings
    \/ FieldStep /\ UNCHANGED bindings

SpecAssets == InitAssets /\ [][NextAssets]_assetVars
-----------------------------------------------------------------------------
(* What is shown *)

\* get_asset_by_code: a QR code goes before a barcode, then the newest asset.
ByCode(code, mode) ==
    LET qr == {i \in DOMAIN assets : mode \in {"auto", "qr"} /\ assets[i].qr = code}
        bar == {i \in DOMAIN assets : mode \in {"auto", "barcode"} /\ assets[i].bar = code}
        found == IF qr # {} THEN qr ELSE bar
    IN {i \in found : \A j \in found : i >= j}

\* get_asset_stats: the department column counts for an asset that is bound to none.
Buckets(status) ==
    LET scope == {i \in DOMAIN assets : status \in {Absent, assets[i].status}}
        DepartmentsOf(i) == IF bindings[i]["department"] # {} THEN bindings[i]["department"]
                            ELSE {assets[i].department} \ {Absent}
    IN [total      |-> Cardinality(scope),
        department |-> [d \in Departments |-> {i \in scope : d \in DepartmentsOf(i)}],
        service    |-> [s \in Services |-> {i \in scope : s \in bindings[i]["service"]}],
        noDepartment |-> {i \in scope : DepartmentsOf(i) = {}},
        noService  |-> {i \in scope : bindings[i]["service"] = {}}]
-----------------------------------------------------------------------------
(* Properties *)

\* An asset that is operational has been made so by a transition, or holds the
\* status an update had read from such a row; and while its bindings stay as
\* they were counted it has an owner and the statistics count it under a
\* department and a service.
OperationalWasReady ==
    \A i \in DOMAIN assets :
      assets[i].status = "operational" =>
        /\ assets[i].decided
        /\ assets[i].sure =>
             /\ bindings[i]["owner"] # {}
             /\ LET shown == Buckets("operational")
                IN /\ i \notin shown.noDepartment \cup shown.noService
                   /\ \E d \in bindings[i]["department"] : i \in shown.department[d]

\* While the definitions stay as they were when an asset's fields were checked,
\* the asset has a value for each enabled field that is required; and what it has
\* under any key fits an enabled definition of the key, unless the approval of a
\* candidate wrote it there.  A definition that is tightened leaves the assets alone.
RequiredIsPresent ==
    \A i \in DOMAIN assets :
      assets[i].checked =>
        /\ {k \in Keys : definitions[k] # Absent /\ definitions[k].enabled /\ definitions[k].required}
             \subseteq DOMAIN assets[i].fields
        /\ \A k \in DOMAIN assets[i].fields :
             \/ assets[i].fields[k] = Stamp
             \/ /\ definitions[k] # Absent /\ definitions[k].enabled
                /\ Fits(definitions[k], assets[i].fields[k])

\* An asset is found by the codes it has, whatever updates write back; a barcode
\* that is another asset's QR code finds that one unless barcodes are asked for.
CodesIdentify ==
    \A i \in DOMAIN assets :
      /\ assets[i].qr # Absent => ByCode(assets[i].qr, "auto") = {i}
      /\ assets[i].bar # Absent =>
           /\ ByCode(assets[i].bar, "barcode") = {i}
           /\ ByCode(assets[i].bar, "auto") # {i} =>
                \E j \in DOMAIN assets : assets[j].qr = assets[i].bar
=============================================================================
