------------------------- MODULE MCDiscoveryAssets -------------------------
(***************************************************************************)
(* Discovery for TLC: a host with a hostname and an IP, and a container.   *)
(* In the same run the rest of the CMDB: assets with their fields, their   *)
(* bindings, codes and lifecycle, and the relations between assets.        *)
(* `focus` says which of them a behaviour is about.                        *)
(***************************************************************************)
EXTENDS Discovery, TLC

CONSTANTS
    Absent, LeftOut,   \* no value; a field that a request leaves out
    Foci,              \* what the run is about
    Nodes, RelationTypes, AskedDepths, MaxRelations   \* relations

VARIABLES focus, calls, definitions, assetRows, bindings, relations, lastId

assetVars == <<definitions, assetRows, bindings>>
relationVars == <<relations, lastId>>

Requests == {"c", "d"}

(* The lifecycle of an asset without fields, and its bindings.               *)
Living == INSTANCE Assets WITH
    assets <- assetRows, Calls <- Requests, Keys <- {}, Types <- {}, Values <- {}, Limits <- {},
    Departments <- {"ops"}, Services <- {"shop"}, Owners <- {"ann"}, Codes <- {}, MaxAssets <- 1,
    Entered <- {"idle"}, Sought <- {"operational", "retired"}

(* A field whose definition changes while assets are created and updated,    *)
(* and discovery marks them: one of its keys is the key of that field.       *)
Defining == INSTANCE Assets WITH
    assets <- assetRows, Calls <- Requests, Keys <- {"discovery_source_type"}, Types <- {"enum"},
    Limits <- {1}, Departments <- {}, Services <- {}, Owners <- {}, Codes <- {}, MaxAssets <- 1,
    Entered <- {"idle"}, Sought <- {},
    Values <- {[form |-> "string", length |-> 1, reads |-> "word"],
               [form |-> "string", length |-> 2, reads |-> "date"]}

(* Codes of two assets.                                                      *)
Coding == INSTANCE Assets WITH
    assets <- assetRows, Calls <- Requests, Keys <- {}, Types <- {}, Values <- {}, Limits <- {},
    Departments <- {}, Services <- {}, Owners <- {}, Codes <- {"code"}, MaxAssets <- 2,
    Entered <- {"idle"}, Sought <- {}

(* The hierarchy of some assets and what they have an impact on.             *)
Relating == INSTANCE Relations WITH Calls <- Requests, Types <- RelationTypes

ASSUME DepthsAssumption == AskedDepths \subseteq Int
-----------------------------------------------------------------------------
NoAssets == definitions = <<>> /\ assetRows = <<>> /\ bindings = <<>>
NoRelations == relations = <<>> /\ lastId = <<>>

AllInit ==
    /\ Init
    /\ focus \in Foci
    /\ \/ focus = "discovering" /\ calls = <<>> /\ NoAssets /\ NoRelations
       \/ focus \in {"living", "coding"} /\ Living!InitAssets /\ NoRelations
       \/ focus = "defining" /\ Defining!InitAssets /\ NoRelations
       \/ focus = "relating" /\ Relating!Init /\ NoAssets

\* The lifecycle is explored with the department column empty; what discovery
\* writes into the fields of assets, where the fields are.
OnlyLiving == \A i \in DOMAIN assetRows' : assetRows'[i].department = Absent
Unmarked == \A i \in DOMAIN assetRows' : DOMAIN assetRows'[i].fields = {}

AllNext ==
    /\ UNCHANGED focus
    /\ focus # "discovering" => UNCHANGED vars
    /\ focus # "relating" => UNCHANGED relationVars
    /\ \/ focus = "discovering" /\ Next /\ UNCHANGED <<calls, assetVars>>
       \/ focus = "living" /\ Living!NextAssets /\ OnlyLiving /\ Unmarked
       \/ focus = "defining" /\ Defining!NextAssets
       \/ focus = "coding" /\ Coding!NextAssets /\ Unmarked
       \/ focus = "relating" /\ Relating!Next /\ UNCHANGED assetVars

allVars == <<focus, vars, calls, assetVars, relationVars>>

AllSpec == AllInit /\ [][AllNext]_allVars

\* The fairness of Discovery, in behaviours that are about it.
Alone == focus = "discovering" /\ UNCHANGED <<focus, calls, assetVars, relationVars>>
AllFairSpec ==
    /\ AllSpec
    /\ WF_vars(IntervalElapses /\ Alone)
    /\ WF_vars(SchedulerPicks /\ Alone)
    /\ \A r \in Runners : WF_vars(RunStep(r) /\ Alone)

\* A job of which no run fails or is cut off is run again and again.
JobIsRunAgain == focus = "discovering" => KeepsRunningUnlessCut
-----------------------------------------------------------------------------
(* The properties of the CMDB that the run checks.                           *)

\* Assets: an operational asset had its bindings when they were counted.
OperationalWasReady == focus = "living" => Living!OperationalWasReady

\* Fields and Assets: the options of an enumeration can be chosen, what a
\* definition requires is there, and a code finds its asset.
FieldsAndCodesHold ==
    /\ focus = "defining" => Defining!OptionsAreUsable /\ Defining!RequiredIsPresent
    /\ focus = "coding" => Coding!CodesIdentify

\* Relations: the hierarchy is a forest and the impact of an asset is complete,
\* except for what two creations under way at the same time can do.
RelationsHold == focus = "relating" => Relating!HierarchyIsForest /\ Relating!ImpactIsComplete
=============================================================================
