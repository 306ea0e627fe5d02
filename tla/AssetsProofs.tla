---------------------------- MODULE AssetsProofs ----------------------------
(***************************************************************************)
(* The invariants of Assets, for any numbers of requests, assets, fields   *)
(* and codes.  Every request works on what it read, so the argument is     *)
(* about what it holds at each of its statements: CallOK.                  *)
(***************************************************************************)
EXTENDS Assets, SequenceTheorems, TLAPS

Definition == [type : Types, limit : Limits \cup {Absent}, options : Options,
               required : BOOLEAN, enabled : BOOLEAN]
\* The fields of an asset: of those of a request, with the marks of discovery.
Stored == UNION {[keys -> Values \cup {Stamp}] : keys \in SUBSET (Keys \cup UNION Marks)}
AssetRow == [status : Entered \cup Sought \cup {"idle"}, department : Departments \cup {Absent},
             qr : Codes \cup {Absent}, bar : Codes \cup {Absent}, fields : Stored,
             checked : BOOLEAN, decided : BOOLEAN, sure : BOOLEAN]
Bound == {b \in [Kinds -> SUBSET (Departments \cup Services \cup Owners)] :
            b["department"] \subseteq Departments}

DefinitionCall == [pc : {"definition"}, key : Keys, read : Definition]
CreateCall == [pc : {"create"}, fields : FieldSets, checked : BOOLEAN]
UpdateCall == [pc : {"update"}, asset : Nat, read : AssetRow, given : BOOLEAN]
TransitionCall == [pc : {"transition"}, asset : Nat, status : Sought,
                   count : Kinds \cup {"write"}, missing : SUBSET Kinds, sure : BOOLEAN]

TypeOK ==
    /\ definitions \in [Keys -> Definition \cup {Absent}]
    /\ assets \in Seq(AssetRow)
    /\ bindings \in Seq(Bound) /\ Len(bindings) = Len(assets)
    /\ calls \in [Calls -> {Idle} \cup DefinitionCall \cup CreateCall \cup UpdateCall
                             \cup TransitionCall]
-----------------------------------------------------------------------------
(* The inductive invariant *)

\* What was checked once, and then at most marked by discovery.
FieldsOK(defs, fields) ==
    /\ \A k \in EnabledKeys(defs) : defs[k].required => k \in DOMAIN fields
    /\ \A k \in DOMAIN fields :
         fields[k] = Stamp \/ (k \in EnabledKeys(defs) /\ Fits(defs[k], fields[k]))

\* What holds of a row, written or about to be written back, of an asset with
\* the bindings b: its fields were checked with these definitions, and its
\* bindings counted, unless something has changed since.
RowOK(defs, b, row) ==
    /\ row.checked => FieldsOK(defs, row.fields)
    /\ row.status = "operational" => /\ row.decided
                                     /\ row.sure => \A k \in Kinds : b[k] # {}

\* The kinds that a transition has counted when it is about to count another.
Before == [department |-> {}, service |-> {"department"}, owner |-> {"department", "service"},
           write |-> Kinds]

\* What a request holds at each of its statements.
CallOK(defs, binds, call) ==
    /\ call.pc = "create" => (call.checked => ValidFields(defs, call.fields))
    /\ call.pc = "update" => /\ call.asset \in DOMAIN binds
                             /\ RowOK(defs, binds[call.asset], call.read)
    /\ call.pc = "transition" =>
         /\ call.asset \in DOMAIN binds
         /\ call.sure => \A k \in Before[call.count] \ call.missing : binds[call.asset][k] # {}

RowsOK == \A i \in DOMAIN assets : RowOK(definitions, bindings[i], assets[i])
CallsOK == \A c \in Calls : CallOK(definitions, bindings, calls[c])
DefinitionsOK == /\ \A k \in Keys : definitions[k] # Absent => WellFormed(definitions[k])
\* A code of an asset is no other asset's.
CodesUnique ==
    \A i, j \in DOMAIN assets :
      i # j => /\ assets[i].qr # Absent => assets[i].qr # assets[j].qr
               /\ assets[i].bar # Absent => assets[i].bar # assets[j].bar

IInv == TypeOK /\ RowsOK /\ CallsOK /\ DefinitionsOK /\ CodesUnique
-----------------------------------------------------------------------------
(* What the type says *)

LEMMA Typed ==
    ASSUME TypeOK
    PROVE  /\ Len(assets) \in Nat /\ DOMAIN assets = 1..Len(assets)
           /\ DOMAIN bindings = 1..Len(assets)
           /\ \A i \in DOMAIN assets : assets[i] \in AssetRow
           /\ \A i \in DOMAIN assets : bindings[i] \in Bound
<1>1. assets \in Seq(AssetRow) /\ bindings \in Seq(Bound) /\ Len(bindings) = Len(assets)
  BY DEF TypeOK
<1> QED BY <1>1, LenProperties, ElementOfSeq

LEMMA CallAt ==
    ASSUME TypeOK, NEW c \in Calls
    PROVE  /\ calls[c].pc = "definition" => calls[c] \in DefinitionCall
           /\ calls[c].pc = "create" => calls[c] \in CreateCall
           /\ calls[c].pc = "update" => calls[c] \in UpdateCall
           /\ calls[c].pc = "transition" => calls[c] \in TransitionCall
  BY DEF TypeOK, Idle, DefinitionCall, CreateCall, UpdateCall, TransitionCall

LEMMA FieldsStored ==
    /\ FieldSets \subseteq Stored
    /\ \A defs : \A fields \in FieldSets : ValidFields(defs, fields) => FieldsOK(defs, fields)
<1>1. ASSUME NEW keys \in SUBSET Keys, NEW fields \in [keys -> Values]
      PROVE  fields \in Stored
  <2>1. fields \in [keys -> Values \cup {Stamp}] /\ keys \in SUBSET (Keys \cup UNION Marks)
    OBVIOUS
  <2> QED BY <2>1, Zenon DEF Stored
<1> QED BY <1>1 DEF FieldSets, ValidFields, FieldsOK

\* Discovery adds keys, and what it overwrites bears its mark.
LEMMA MarksAreStored ==
    ASSUME NEW fields \in Stored, NEW marks \in Marks
    PROVE  /\ Marked(fields, marks) \in Stored
           /\ \A defs : FieldsOK(defs, fields) => FieldsOK(defs, Marked(fields, marks))
<1>1. PICK keys \in SUBSET (Keys \cup UNION Marks) : fields \in [keys -> Values \cup {Stamp}]
  BY DEF Stored
<1>2. PICK all : all = keys \cup marks
  OBVIOUS
<1>3. all \in SUBSET (Keys \cup UNION Marks)
  BY <1>1, <1>2, Zenon
<1>4. DOMAIN fields = keys
  BY <1>1
<1>5. PICK new : new = Marked(fields, marks)
  OBVIOUS
<1>6. /\ new \in [all -> Values \cup {Stamp}]
      /\ \A k \in all : new[k] = Stamp \/ (k \in keys /\ new[k] = fields[k])
  <2> HIDE DEF Stamp
  <2> QED BY <1>1, <1>2, <1>4, <1>5 DEF Marked
<1>7. new \in Stored
  BY <1>3, <1>6, Zenon DEF Stored
<1>8. ASSUME NEW defs, FieldsOK(defs, fields)
      PROVE  FieldsOK(defs, new)
  BY <1>2, <1>4, <1>6, <1>8 DEF FieldsOK
<1> QED BY <1>5, <1>7, <1>8

LEMMA IdleOK ==
    ASSUME NEW defs, NEW binds
    PROVE  CallOK(defs, binds, Idle)
  BY DEF CallOK, Idle

\* A request goes on, and the tables stay as they are.
LEMMA CallMoves ==
    ASSUME IInv, NEW c \in Calls,
           NEW call \in {Idle} \cup DefinitionCall \cup CreateCall \cup UpdateCall
                          \cup TransitionCall,
           CallOK(definitions, bindings, call),
           calls' = [calls EXCEPT ![c] = call], UNCHANGED <<definitions, assets, bindings>>
    PROVE  IInv'
<1>1. calls' \in [Calls -> {Idle} \cup DefinitionCall \cup CreateCall \cup UpdateCall
                             \cup TransitionCall]
  BY Zenon DEF IInv, TypeOK
<1>2. TypeOK'
  BY <1>1 DEF IInv, TypeOK
<1>3. CallsOK'
  <2> SUFFICES ASSUME NEW d \in Calls PROVE CallOK(definitions, bindings, calls'[d])
    BY DEF CallsOK
  <2>1. CASE d = c
    <3>1. calls'[d] = call
      BY <2>1 DEF IInv, TypeOK
    <3> QED BY <3>1
  <2>2. CASE d # c
    <3>1. calls'[d] = calls[d]
      BY <2>2 DEF IInv, TypeOK
    <3> QED BY <3>1 DEF IInv, CallsOK
  <2> QED BY <2>1, <2>2
<1> QED BY <1>2, <1>3 DEF IInv, RowsOK, DefinitionsOK, CodesUnique

\* A request that writes has ended; the others go on as they were.
Ends == /\ calls' \in [Calls -> {Idle} \cup DefinitionCall \cup CreateCall \cup UpdateCall
                                  \cup TransitionCall]
        /\ \A d \in Calls : calls'[d] \in {Idle, calls[d]}

LEMMA CallEnds ==
    ASSUME TypeOK, NEW c \in Calls, calls' = [calls EXCEPT ![c] = Idle]
    PROVE  Ends
  BY DEF TypeOK, Ends

LEMMA NoneEnds ==
    ASSUME TypeOK, UNCHANGED calls
    PROVE  Ends
  BY DEF TypeOK, Ends

\* The row of an asset is written.
LEMMA RowIsWritten ==
    ASSUME IInv, NEW i \in DOMAIN assets, NEW row \in AssetRow,
           RowOK(definitions, bindings[i], row),
           \A j \in DOMAIN assets \ {i} : /\ row.qr # Absent => row.qr # assets[j].qr
                                          /\ row.bar # Absent => row.bar # assets[j].bar,
           assets' = [assets EXCEPT ![i] = row], Ends, UNCHANGED <<definitions, bindings>>
    PROVE  IInv'
<1>1. /\ assets' \in Seq(AssetRow) /\ Len(assets') = Len(assets)
      /\ DOMAIN assets' = DOMAIN assets /\ assets'[i] = row
      /\ \A j \in DOMAIN assets \ {i} : assets'[j] = assets[j]
  <2>1. assets \in Seq(AssetRow)
    BY DEF IInv, TypeOK
  <2> QED BY <2>1, ExceptSeq, LenProperties
<1>2. TypeOK'
  BY <1>1 DEF IInv, TypeOK, Ends
<1>3. CallsOK'
  <2> SUFFICES ASSUME NEW d \in Calls PROVE CallOK(definitions, bindings, calls'[d])
    BY DEF CallsOK
  <2>1. CASE calls'[d] = Idle
    BY <2>1, IdleOK
  <2>2. CASE calls'[d] = calls[d]
    BY <2>2 DEF IInv, CallsOK
  <2> QED BY <2>1, <2>2 DEF Ends
<1>4. RowsOK'
  <2> SUFFICES ASSUME NEW j \in DOMAIN assets PROVE RowOK(definitions, bindings[j], assets'[j])
    BY <1>1 DEF RowsOK
  <2> QED BY <1>1 DEF IInv, RowsOK
<1>5. CodesUnique'
  BY <1>1 DEF IInv, CodesUnique
<1> QED BY <1>2, <1>3, <1>4, <1>5 DEF IInv, DefinitionsOK
-----------------------------------------------------------------------------
(* The steps of a request that writes nothing *)

LEMMA ReadDefinitionKept ==
    ASSUME IInv, NEW c \in Calls, NEW k \in Keys, ReadDefinition(c, k),
           UNCHANGED <<definitions, assets, bindings>>
    PROVE  IInv'
<1>1. PICK call : call = [pc |-> "definition", key |-> k, read |-> definitions[k]]
  OBVIOUS
<1>2. definitions[k] \in Definition
  BY DEF ReadDefinition, IInv, TypeOK
<1>3. call \in DefinitionCall
  BY <1>1, <1>2 DEF DefinitionCall
<1>4. CallOK(definitions, bindings, call)
  BY <1>1 DEF CallOK
<1>5. calls' = [calls EXCEPT ![c] = call]
  BY <1>1 DEF ReadDefinition, Goto
<1> QED BY <1>3, <1>4, <1>5, CallMoves

LEMMA CreateReadKept ==
    ASSUME IInv, NEW c \in Calls, CreateRead(c)
    PROVE  IInv'
<1>1. PICK fields \in FieldSets :
        /\ ValidFields(definitions, fields)
        /\ calls' = [calls EXCEPT ![c] = [pc |-> "create", fields |-> fields, checked |-> TRUE]]
  BY DEF CreateRead, Goto
<1>2. PICK call : call = [pc |-> "create", fields |-> fields, checked |-> TRUE]
  OBVIOUS
<1>3. call \in CreateCall /\ CallOK(definitions, bindings, call)
  BY <1>1, <1>2 DEF CreateCall, CallOK
<1> QED BY <1>1, <1>2, <1>3, CallMoves DEF CreateRead

LEMMA UpdateReadKept ==
    ASSUME IInv, NEW c \in Calls, UpdateRead(c)
    PROVE  IInv'
<1>1. PICK i \in DOMAIN assets :
        calls' = [calls EXCEPT ![c] = [pc |-> "update", asset |-> i, read |-> assets[i],
                                       given |-> FALSE]]
  BY DEF UpdateRead, Goto
<1>2. PICK call : call = [pc |-> "update", asset |-> i, read |-> assets[i], given |-> FALSE]
  OBVIOUS
<1>3. call \in UpdateCall /\ i \in DOMAIN bindings
  BY <1>2, Typed DEF IInv, UpdateCall
<1>4. CallOK(definitions, bindings, call)
  BY <1>2, <1>3 DEF CallOK, IInv, RowsOK
<1> QED BY <1>1, <1>2, <1>3, <1>4, CallMoves DEF UpdateRead

\* The row that will be written gets fields that have been checked.
LEMMA UpdateCheckKept ==
    ASSUME IInv, NEW c \in Calls, UpdateCheck(c)
    PROVE  IInv'
<1>1. PICK fields \in FieldSets :
        /\ ValidFields(definitions, fields)
        /\ calls' = [calls EXCEPT ![c] = [calls[c] EXCEPT !.given = TRUE, !.read.fields = fields,
                                                          !.read.checked = TRUE]]
  BY Zenon DEF UpdateCheck, Goto
<1>2. PICK read : read = [calls[c].read EXCEPT !.fields = fields, !.checked = TRUE]
  OBVIOUS
<1>3. PICK call : call = [calls[c] EXCEPT !.given = TRUE, !.read = read]
  OBVIOUS
<1>4. calls[c] \in UpdateCall /\ calls[c].read \in AssetRow
  BY CallAt DEF UpdateCheck, IInv, UpdateCall
<1>5. call = [calls[c] EXCEPT !.given = TRUE, !.read.fields = fields, !.read.checked = TRUE]
  BY <1>2, <1>3, <1>4 DEF UpdateCall, AssetRow
<1>6. read \in AssetRow /\ read.fields = fields /\ fields \in Stored /\ read.status = calls[c].read.status
      /\ read.decided = calls[c].read.decided /\ read.sure = calls[c].read.sure
  <2>1. fields \in Stored
    BY <1>1, FieldsStored
  <2> QED BY <1>2, <1>4, <2>1 DEF AssetRow
<1>7. call \in UpdateCall /\ call.asset = calls[c].asset /\ call.read = read /\ call.pc = "update"
  BY <1>3, <1>4, <1>6 DEF UpdateCall
<1>8. CallOK(definitions, bindings, calls[c]) /\ calls[c].pc = "update"
  BY DEF IInv, CallsOK, UpdateCheck
<1>9. CallOK(definitions, bindings, call)
  <2>1. FieldsOK(definitions, read.fields)
    BY <1>1, <1>6, FieldsStored
  <2> QED BY <1>6, <1>7, <1>8, <2>1 DEF CallOK, RowOK
<1> QED BY <1>1, <1>5, <1>7, <1>9, CallMoves DEF UpdateCheck

LEMMA TransitionReadKept ==
    ASSUME IInv, NEW c \in Calls, TransitionRead(c)
    PROVE  IInv'
<1>1. PICK i \in DOMAIN assets, status \in Sought :
        calls' = [calls EXCEPT ![c] = [pc |-> "transition", asset |-> i, status |-> status,
                                       count |-> "department", missing |-> {}, sure |-> TRUE]]
  BY DEF TransitionRead, Goto
<1>2. PICK call : call = [pc |-> "transition", asset |-> i, status |-> status,
                          count |-> "department", missing |-> {}, sure |-> TRUE]
  OBVIOUS
<1>3. call \in TransitionCall /\ i \in DOMAIN bindings
  BY <1>2, Typed DEF IInv, TransitionCall, Kinds
<1>4. CallOK(definitions, bindings, call)
  BY <1>2, <1>3 DEF CallOK, Before
<1> QED BY <1>1, <1>2, <1>3, <1>4, CallMoves DEF TransitionRead

\* A kind that is counted and not missing has a binding.
LEMMA CountBindingsKept ==
    ASSUME IInv, NEW c \in Calls, CountBindings(c)
    PROVE  IInv'
<1>1. PICK call : call = [calls[c] EXCEPT !.missing = Missing(c), !.count = NextKind[calls[c].count]]
  OBVIOUS
<1>2. calls[c] \in TransitionCall /\ calls[c].count \in Kinds /\ calls[c].pc = "transition"
  BY CallAt DEF CountBindings, IInv
<1>3. Missing(c) \in SUBSET Kinds /\ NextKind[calls[c].count] \in Kinds \cup {"write"}
  BY <1>2 DEF Missing, TransitionCall, NextKind, Kinds
<1>4. /\ call \in TransitionCall /\ call.pc = "transition" /\ call.asset = calls[c].asset
      /\ call.sure = calls[c].sure /\ call.missing = Missing(c)
      /\ call.count = NextKind[calls[c].count]
  BY <1>1, <1>2, <1>3 DEF TransitionCall
<1>5. /\ calls[c].asset \in DOMAIN bindings
      /\ calls[c].sure => \A k \in Before[calls[c].count] \ calls[c].missing :
                            bindings[calls[c].asset][k] # {}
  BY <1>2 DEF IInv, CallsOK, CallOK
<1>6. Before[call.count] = Before[calls[c].count] \cup {calls[c].count}
  BY <1>2, <1>4 DEF Before, NextKind, Kinds
<1>7. \A k \in Before[call.count] \ call.missing :
        \/ k \in Before[calls[c].count] \ calls[c].missing
        \/ k = calls[c].count /\ bindings[calls[c].asset][k] # {}
  BY <1>4, <1>6 DEF Missing
<1>8. CallOK(definitions, bindings, call)
  BY <1>4, <1>5, <1>7 DEF CallOK
<1>9. calls' = [calls EXCEPT ![c] = call]
  BY <1>1, Zenon DEF CountBindings, Goto
<1> QED BY <1>4, <1>8, <1>9, CallMoves DEF CountBindings

LEMMA RefuseKept ==
    ASSUME IInv, NEW c \in Calls, Refuse(c)
    PROVE  IInv'
  BY IdleOK, CallMoves DEF Refuse, Goto
-----------------------------------------------------------------------------
(* The steps that write *)

\* A status is given, and then it is not operational, or it is written back as
\* it was read.
LEMMA UpdateAssetKept ==
    ASSUME IInv, NEW c \in Calls, UpdateAsset(c)
    PROVE  IInv'
<1>1. PICK read : read = calls[c].read
  OBVIOUS
<1>2. PICK i : i = calls[c].asset
  OBVIOUS
<1>3. PICK status \in Settable \cup {LeftOut}, department \in GivenFor(Departments),
           qr \in GivenFor(Codes), bar \in GivenFor(Codes) :
        LET row == Rewritten(calls[c].read, status, department, qr, bar)
        IN /\ FreeCode("qr", row.qr, calls[c].asset) /\ FreeCode("bar", row.bar, calls[c].asset)
           /\ assets' = [assets EXCEPT ![calls[c].asset] = row]
  BY Zenon DEF UpdateAsset
<1>4. PICK row : row = Rewritten(read, status, department, qr, bar)
  OBVIOUS
<1>5. /\ FreeCode("qr", row.qr, i) /\ FreeCode("bar", row.bar, i)
      /\ assets' = [assets EXCEPT ![i] = row]
  BY <1>1, <1>2, <1>3, <1>4
<1>6. calls[c].pc = "update" /\ read \in AssetRow /\ i \in Nat
  BY <1>1, <1>2, CallAt DEF UpdateAsset, IInv, UpdateCall
<1>7. i \in DOMAIN assets /\ RowOK(definitions, bindings[i], read)
  BY <1>1, <1>2, <1>6, Typed DEF IInv, CallsOK, CallOK
<1>8. /\ row.status = Given(status, read.status) /\ row.qr = Given(qr, read.qr)
      /\ row.bar = Given(bar, read.bar) /\ row.department = Given(department, read.department)
      /\ row.decided = (read.decided /\ status = LeftOut)
      /\ row.fields = read.fields /\ row.checked = read.checked /\ row.sure = read.sure
  BY <1>4 DEF Rewritten
<1>9. row \in AssetRow
  <2>1. Given(status, read.status) \in Entered \cup Sought \cup {"idle"}
    BY <1>6 DEF Given, Settable, AssetRow
  <2>2. Given(department, read.department) \in Departments \cup {Absent}
    BY <1>6 DEF Given, GivenFor, AssetRow
  <2>3. Given(qr, read.qr) \in Codes \cup {Absent} /\ Given(bar, read.bar) \in Codes \cup {Absent}
    BY <1>6 DEF Given, GivenFor, AssetRow
  <2> QED BY <1>4, <1>6, <2>1, <2>2, <2>3 DEF AssetRow, Rewritten
<1>10. row.status = "operational" => read.status = "operational" /\ status = LeftOut
  BY <1>8 DEF Given, Settable
<1>11. RowOK(definitions, bindings[i], row)
  BY <1>7, <1>8, <1>10 DEF RowOK
<1>12. \A j \in DOMAIN assets \ {i} : /\ row.qr # Absent => row.qr # assets[j].qr
                                      /\ row.bar # Absent => row.bar # assets[j].bar
  BY <1>5 DEF FreeCode
<1>13. Ends /\ UNCHANGED <<definitions, bindings>>
  BY CallEnds DEF UpdateAsset, Goto, IInv
<1> QED BY <1>5, <1>7, <1>9, <1>11, <1>12, <1>13, RowIsWritten

\* The transition to operational was counted to have every kind of binding.
LEMMA TransitionKept ==
    ASSUME IInv, NEW c \in Calls, Transition(c)
    PROVE  IInv'
<1>1. PICK i : i = calls[c].asset
  OBVIOUS
<1>2. calls[c] \in TransitionCall /\ calls[c].pc = "transition" /\ calls[c].count = "write"
  BY CallAt DEF Transition, IInv
<1>3. i \in DOMAIN assets
  BY <1>1, <1>2, Typed DEF IInv, CallsOK, CallOK
<1>4. assets[i] \in AssetRow /\ RowOK(definitions, bindings[i], assets[i])
  BY <1>3, Typed DEF IInv, RowsOK
<1>5. PICK row : row = [assets[i] EXCEPT !.status = calls[c].status, !.decided = TRUE,
                                         !.sure = calls[c].sure]
  OBVIOUS
<1>6. assets' = [assets EXCEPT ![i] = row]
  BY <1>1, <1>3, <1>5, Zenon DEF Transition
<1>7. /\ row \in AssetRow /\ row.status = calls[c].status /\ row.decided /\ row.sure = calls[c].sure
      /\ row.qr = assets[i].qr /\ row.bar = assets[i].bar
      /\ row.fields = assets[i].fields /\ row.checked = assets[i].checked
  BY <1>2, <1>4, <1>5 DEF AssetRow, TransitionCall
<1>8. row.status = "operational" /\ row.sure => \A k \in Kinds : bindings[i][k] # {}
  <2>1. calls[c].sure => \A k \in Before["write"] \ calls[c].missing : bindings[i][k] # {}
    BY <1>1, <1>2 DEF IInv, CallsOK, CallOK
  <2>2. calls[c].status = "operational" => calls[c].missing = {}
    BY DEF Transition
  <2>3. Before["write"] = Kinds
    BY DEF Before
  <2> QED BY <1>7, <2>1, <2>2, <2>3
<1>9. RowOK(definitions, bindings[i], row)
  BY <1>4, <1>7, <1>8 DEF RowOK
<1>10. \A j \in DOMAIN assets \ {i} : /\ row.qr # Absent => row.qr # assets[j].qr
                                      /\ row.bar # Absent => row.bar # assets[j].bar
  BY <1>3, <1>7 DEF IInv, CodesUnique
<1>11. Ends /\ UNCHANGED <<definitions, bindings>>
  BY CallEnds DEF Transition, Goto, IInv
<1> QED BY <1>3, <1>6, <1>7, <1>9, <1>10, <1>11, RowIsWritten

\* The row of a new asset is written.
LEMMA RowIsAdded ==
    ASSUME IInv, NEW row \in AssetRow, row.status # "operational",
           row.checked => FieldsOK(definitions, row.fields),
           FreeCode("qr", row.qr, 0), FreeCode("bar", row.bar, 0),
           assets' = Append(assets, row), bindings' = Append(bindings, Unbound), Ends,
           UNCHANGED definitions
    PROVE  IInv'
<1>1. Unbound \in Bound
  BY DEF Unbound, Bound, Kinds
<1>2. PICK n \in Nat : n = Len(assets)
  BY Typed DEF IInv
<1>3. /\ assets' \in Seq(AssetRow) /\ Len(assets') = n + 1 /\ DOMAIN assets' = 1..(n + 1)
      /\ \A j \in 1..n : assets'[j] = assets[j]
      /\ assets'[n + 1] = row
  <2>1. assets \in Seq(AssetRow)
    BY DEF IInv, TypeOK
  <2> QED BY <1>2, <2>1, AppendProperties, LenProperties
<1>4. /\ bindings' \in Seq(Bound) /\ Len(bindings') = n + 1 /\ DOMAIN bindings' = 1..(n + 1)
      /\ \A j \in 1..n : bindings'[j] = bindings[j]
  <2>1. bindings \in Seq(Bound) /\ Len(bindings) = n
    BY <1>2 DEF IInv, TypeOK
  <2> QED BY <1>1, <2>1, AppendProperties, LenProperties
<1>5. DOMAIN assets = 1..n /\ DOMAIN bindings = 1..n
  BY <1>2, Typed DEF IInv
<1>6. TypeOK'
  BY <1>3, <1>4 DEF IInv, TypeOK, Ends
<1>7. CallsOK'
  <2> SUFFICES ASSUME NEW d \in Calls PROVE CallOK(definitions, bindings', calls'[d])
    BY DEF CallsOK
  <2>1. CASE calls'[d] = Idle
    BY <2>1, IdleOK
  <2>2. CASE calls'[d] = calls[d]
    <3>1. CallOK(definitions, bindings, calls[d])
      BY DEF IInv, CallsOK
    <3>2. \A j \in DOMAIN bindings : j \in DOMAIN bindings' /\ bindings'[j] = bindings[j]
      BY <1>4, <1>5
    <3> QED BY <2>2, <3>1, <3>2 DEF CallOK
  <2> QED BY <2>1, <2>2 DEF Ends
<1>8. RowsOK'
  <2> SUFFICES ASSUME NEW j \in 1..(n + 1)
               PROVE  RowOK(definitions, bindings'[j], assets'[j])
    BY <1>3 DEF RowsOK
  <2>1. CASE j = n + 1
    BY <1>3, <2>1 DEF RowOK
  <2>2. CASE j \in 1..n
    <3>1. assets'[j] = assets[j] /\ bindings'[j] = bindings[j]
      BY <1>3, <1>4, <2>2
    <3> QED BY <1>5, <2>2, <3>1 DEF IInv, RowsOK
  <2>3. j = n + 1 \/ j \in 1..n
    BY <1>2
  <2> QED BY <2>1, <2>2, <2>3
<1>9. CodesUnique'
  <2>1. \A j \in 1..n : /\ row.qr # Absent => assets[j].qr # row.qr
                        /\ row.bar # Absent => assets[j].bar # row.bar
    BY <1>5 DEF FreeCode
  <2>2. \A j \in 1..(n + 1) : j = n + 1 \/ j \in 1..n
    OBVIOUS
  <2> SUFFICES ASSUME NEW i \in 1..(n + 1), NEW j \in 1..(n + 1), i # j
               PROVE  /\ assets'[i].qr # Absent => assets'[i].qr # assets'[j].qr
                      /\ assets'[i].bar # Absent => assets'[i].bar # assets'[j].bar
    BY <1>3 DEF CodesUnique
  <2>3. CASE i \in 1..n /\ j \in 1..n
    <3>1. assets'[i] = assets[i] /\ assets'[j] = assets[j]
      BY <1>3, <2>3
    <3> QED BY <1>5, <2>3, <3>1 DEF IInv, CodesUnique
  <2>4. CASE i = n + 1 /\ j \in 1..n
    BY <1>3, <2>1, <2>4
  <2>5. CASE i \in 1..n /\ j = n + 1
    BY <1>3, <2>1, <2>5
  <2> QED BY <2>2, <2>3, <2>4, <2>5
<1> QED BY <1>6, <1>7, <1>8, <1>9 DEF IInv, DefinitionsOK

LEMMA CreateAssetKept ==
    ASSUME IInv, NEW c \in Calls, CreateAsset(c)
    PROVE  IInv'
<1>1. PICK status \in Settable, department \in Departments \cup {Absent},
           qr \in Codes \cup {Absent}, bar \in Codes \cup {Absent} :
        /\ FreeCode("qr", qr, 0) /\ FreeCode("bar", bar, 0)
        /\ assets' = Append(assets, [status |-> status, department |-> department, qr |-> qr,
                             bar |-> bar, fields |-> calls[c].fields, checked |-> calls[c].checked,
                             decided |-> FALSE, sure |-> TRUE])
  BY DEF CreateAsset
<1>2. PICK row : row = [status |-> status, department |-> department, qr |-> qr,
                        bar |-> bar, fields |-> calls[c].fields, checked |-> calls[c].checked,
                        decided |-> FALSE, sure |-> TRUE]
  OBVIOUS
<1>3. calls[c] \in CreateCall /\ calls[c].pc = "create"
  BY CallAt DEF CreateAsset, IInv
<1>4. calls[c].fields \in Stored
  BY <1>3, FieldsStored DEF CreateCall
<1>5. /\ row \in AssetRow /\ row.status # "operational" /\ row.qr = qr /\ row.bar = bar
      /\ row.fields = calls[c].fields /\ row.checked = calls[c].checked
  BY <1>2, <1>3, <1>4 DEF AssetRow, CreateCall, Settable
<1>6. row.checked => FieldsOK(definitions, row.fields)
  BY <1>3, <1>5, FieldsStored DEF IInv, CallsOK, CallOK, CreateCall
<1>7. Ends /\ assets' = Append(assets, row) /\ bindings' = Append(bindings, Unbound)
      /\ definitions' = definitions
  BY <1>1, <1>2, CallEnds DEF CreateAsset, Goto, IInv
<1>8. FreeCode("qr", row.qr, 0) /\ FreeCode("bar", row.bar, 0)
  BY <1>1, <1>5
<1> QED BY <1>5, <1>6, <1>7, <1>8, RowIsAdded

\* Discovery checks nothing, and says so.
LEMMA CreateDiscoveredKept ==
    ASSUME IInv, CreateDiscovered
    PROVE  IInv'
<1>1. PICK metadata \in FieldSets, marks \in Marks, department \in Departments \cup {Absent} :
        assets' = Append(assets, [status |-> "idle", department |-> department, qr |-> Absent,
                           bar |-> Absent, fields |-> Marked(metadata, marks), checked |-> FALSE,
                           decided |-> FALSE, sure |-> TRUE])
  BY Zenon DEF CreateDiscovered
<1>2. PICK fields : fields = Marked(metadata, marks)
  OBVIOUS
<1>3. fields \in Stored
  BY <1>2, FieldsStored, MarksAreStored
<1>4. PICK row : row = [status |-> "idle", department |-> department, qr |-> Absent,
                        bar |-> Absent, fields |-> fields, checked |-> FALSE,
                        decided |-> FALSE, sure |-> TRUE]
  OBVIOUS
<1>5. row \in AssetRow /\ row.status # "operational" /\ ~row.checked
      /\ row.qr = Absent /\ row.bar = Absent
  BY <1>3, <1>4 DEF AssetRow
<1>6. assets' = Append(assets, row) /\ Ends /\ bindings' = Append(bindings, Unbound)
      /\ definitions' = definitions
  BY <1>1, <1>2, <1>4, NoneEnds DEF CreateDiscovered, IInv
<1>7. FreeCode("qr", row.qr, 0) /\ FreeCode("bar", row.bar, 0)
  BY <1>5 DEF FreeCode
<1> QED BY <1>5, <1>6, <1>7, RowIsAdded

\* What was checked stays but for the keys that bear the mark.
LEMMA MergeDiscoveredKept ==
    ASSUME IInv, MergeDiscovered
    PROVE  IInv'
<1>1. PICK i \in DOMAIN assets, marks \in Marks :
        assets' = [assets EXCEPT ![i].fields = Marked(@, marks)]
  BY Zenon DEF MergeDiscovered
<1>2. assets[i] \in AssetRow /\ RowOK(definitions, bindings[i], assets[i])
  BY Typed DEF IInv, RowsOK
<1>3. PICK fields : fields = Marked(assets[i].fields, marks)
  OBVIOUS
<1>4. assets[i].fields \in Stored
  BY <1>2 DEF AssetRow
<1>5. /\ fields \in Stored
      /\ FieldsOK(definitions, assets[i].fields) => FieldsOK(definitions, fields)
  BY <1>3, <1>4, MarksAreStored
<1>6. PICK row : row = [assets[i] EXCEPT !.fields = fields]
  OBVIOUS
<1>7. assets' = [assets EXCEPT ![i] = row]
  BY <1>1, <1>3, <1>6, Zenon
<1>8. /\ row \in AssetRow /\ row.status = assets[i].status /\ row.decided = assets[i].decided
      /\ row.sure = assets[i].sure /\ row.qr = assets[i].qr /\ row.bar = assets[i].bar
      /\ row.fields = fields /\ row.checked = assets[i].checked
  BY <1>2, <1>5, <1>6 DEF AssetRow
<1>9. RowOK(definitions, bindings[i], row)
  BY <1>2, <1>5, <1>8 DEF RowOK
<1>10. \A j \in DOMAIN assets \ {i} : /\ row.qr # Absent => row.qr # assets[j].qr
                                      /\ row.bar # Absent => row.bar # assets[j].bar
  BY <1>8 DEF IInv, CodesUnique
<1>11. Ends /\ UNCHANGED <<definitions, bindings>>
  BY NoneEnds DEF MergeDiscovered, IInv
<1> QED BY <1>7, <1>8, <1>9, <1>10, <1>11, RowIsWritten

\* The bindings of an asset are replaced: nobody is sure of them any more.
LEMMA UpsertBindingsKept ==
    ASSUME IInv, UpsertBindings
    PROVE  IInv'
<1>1. PICK i \in DOMAIN assets, d \in (SUBSET Departments) \cup {LeftOut},
           s \in (SUBSET Services) \cup {LeftOut}, o \in (SUBSET Owners) \cup {LeftOut} :
        LET lists == [department |-> d, service |-> s, owner |-> o]
        IN /\ \E k \in Kinds : lists[k] # LeftOut
           /\ bindings' = [bindings EXCEPT ![i] = [k \in Kinds |-> Given(lists[k], @[k])]]
           /\ assets' = [assets EXCEPT ![i].sure = FALSE]
           /\ calls' = [c \in Calls |->
                CASE calls[c].pc = "transition" /\ calls[c].asset = i -> [calls[c] EXCEPT !.sure = FALSE]
                  [] calls[c].pc = "update" /\ calls[c].asset = i -> [calls[c] EXCEPT !.read.sure = FALSE]
                  [] OTHER -> calls[c]]
           /\ UNCHANGED definitions
  BY Zenon DEF UpsertBindings
<1>2. /\ assets \in Seq(AssetRow) /\ bindings \in Seq(Bound) /\ Len(bindings) = Len(assets)
      /\ DOMAIN bindings = DOMAIN assets /\ assets[i] \in AssetRow /\ bindings[i] \in Bound
  BY <1>1, Typed DEF IInv, TypeOK
<1>3. PICK lists : lists = [department |-> d, service |-> s, owner |-> o]
  OBVIOUS
<1>4. PICK b : b = [k \in Kinds |-> Given(lists[k], bindings[i][k])]
  OBVIOUS
<1>5. PICK row : row = [assets[i] EXCEPT !.sure = FALSE]
  OBVIOUS
<1>6. b \in Bound
  <2>1. /\ Given(lists["department"], bindings[i]["department"]) \in SUBSET Departments
        /\ Given(lists["service"], bindings[i]["service"])
             \in SUBSET (Departments \cup Services \cup Owners)
        /\ Given(lists["owner"], bindings[i]["owner"])
             \in SUBSET (Departments \cup Services \cup Owners)
    BY <1>2, <1>3 DEF Given, Bound, Kinds
  <2> QED BY <1>4, <2>1 DEF Bound, Kinds
<1>7. /\ row \in AssetRow /\ row.sure = FALSE /\ row.status = assets[i].status
      /\ row.qr = assets[i].qr /\ row.bar = assets[i].bar /\ row.decided = assets[i].decided
      /\ row.fields = assets[i].fields /\ row.checked = assets[i].checked
  BY <1>2, <1>5 DEF AssetRow
<1>8. bindings' = [bindings EXCEPT ![i] = b] /\ assets' = [assets EXCEPT ![i] = row]
      /\ definitions' = definitions
  BY <1>1, <1>3, <1>4, <1>5, Zenon
<1>9. /\ assets' \in Seq(AssetRow) /\ Len(assets') = Len(assets)
      /\ DOMAIN assets' = DOMAIN assets /\ assets'[i] = row
      /\ \A j \in DOMAIN assets \ {i} : assets'[j] = assets[j]
  BY <1>2, <1>7, <1>8, ExceptSeq, LenProperties
<1>10. /\ bindings' \in Seq(Bound) /\ Len(bindings') = Len(bindings)
       /\ DOMAIN bindings' = DOMAIN bindings
       /\ \A j \in DOMAIN bindings \ {i} : bindings'[j] = bindings[j]
  BY <1>2, <1>6, <1>8, ExceptSeq, LenProperties
<1>11. ASSUME NEW c \in Calls
       PROVE  /\ calls'[c] \in {Idle} \cup DefinitionCall \cup CreateCall \cup UpdateCall
                                 \cup TransitionCall
              /\ CallOK(definitions, bindings', calls'[c])
  <2>1. CallOK(definitions, bindings, calls[c])
    BY DEF IInv, CallsOK
  <2>2. CASE calls[c].pc = "transition" /\ calls[c].asset = i
    <3>1. calls'[c] = [calls[c] EXCEPT !.sure = FALSE] /\ calls[c] \in TransitionCall
      BY <1>1, <2>2, CallAt DEF IInv
    <3>2. calls'[c] \in TransitionCall /\ calls'[c].asset = i /\ calls'[c].sure = FALSE
          /\ calls'[c].pc = "transition"
      BY <2>2, <3>1 DEF TransitionCall
    <3> QED BY <1>2, <1>10, <3>2 DEF CallOK
  <2>3. CASE calls[c].pc = "update" /\ calls[c].asset = i
    <3>1. calls'[c] = [calls[c] EXCEPT !.read.sure = FALSE] /\ calls[c] \in UpdateCall
      BY <1>1, <2>3, CallAt DEF IInv
    <3>2. PICK read : read = [calls[c].read EXCEPT !.sure = FALSE]
      OBVIOUS
    <3>3. calls'[c] = [calls[c] EXCEPT !.read = read]
      BY <3>1, <3>2, Zenon
    <3>4. /\ read \in AssetRow /\ read.sure = FALSE /\ read.status = calls[c].read.status
          /\ read.decided = calls[c].read.decided /\ read.fields = calls[c].read.fields
          /\ read.checked = calls[c].read.checked
      BY <3>1, <3>2 DEF UpdateCall, AssetRow
    <3>5. calls'[c] \in UpdateCall /\ calls'[c].asset = i /\ calls'[c].read = read
          /\ calls'[c].pc = "update"
      BY <2>3, <3>1, <3>3, <3>4 DEF UpdateCall
    <3>6. RowOK(definitions, bindings'[i], read)
      BY <2>1, <2>3, <3>4 DEF CallOK, RowOK
    <3> QED BY <1>2, <1>10, <3>5, <3>6 DEF CallOK
  <2>4. CASE ~(calls[c].pc \in {"transition", "update"} /\ calls[c].asset = i)
    <3>1. calls'[c] = calls[c]
      BY <1>1, <2>4
    <3>2. calls[c].pc \in {"transition", "update"} =>
            bindings'[calls[c].asset] = bindings[calls[c].asset]
      BY <1>10, <2>1, <2>4 DEF CallOK
    <3>3. CallOK(definitions, bindings', calls[c])
      BY <1>10, <2>1, <3>2 DEF CallOK
    <3>4. calls[c] \in {Idle} \cup DefinitionCall \cup CreateCall \cup UpdateCall
                         \cup TransitionCall
      BY DEF IInv, TypeOK
    <3> QED BY <3>1, <3>3, <3>4
  <2> QED BY <2>2, <2>3, <2>4
<1>12. calls' = [c \in Calls |-> calls'[c]]
  BY <1>1
<1>13. TypeOK'
  BY <1>2, <1>8, <1>9, <1>10, <1>11, <1>12 DEF IInv, TypeOK
<1>14. CallsOK'
  BY <1>8, <1>11 DEF CallsOK
<1>15. RowsOK'
  <2> SUFFICES ASSUME NEW j \in DOMAIN assets PROVE RowOK(definitions, bindings'[j], assets'[j])
    BY <1>8, <1>9 DEF RowsOK
  <2>1. CASE j = i
    BY <1>7, <1>9, <2>1 DEF IInv, RowsOK, RowOK
  <2>2. CASE j # i
    BY <1>2, <1>9, <1>10, <2>2 DEF IInv, RowsOK
  <2> QED BY <2>1, <2>2
<1>16. CodesUnique'
  BY <1>7, <1>9 DEF IInv, CodesUnique
<1> QED BY <1>8, <1>13, <1>14, <1>15, <1>16 DEF IInv, DefinitionsOK

\* A definition is written: nothing that was checked is known to hold.
LEMMA DefinitionIsWritten ==
    ASSUME IInv, NEW k \in Keys, NEW d \in Definition, WellFormed(d),
           definitions' = [definitions EXCEPT ![k] = d],
           NEW local \in [Calls -> {Idle} \cup DefinitionCall \cup CreateCall \cup UpdateCall
                                     \cup TransitionCall],
           \A c \in Calls : local[c] \in {Idle, calls[c]},
           calls' = Recheck(local), UNCHANGED bindings,
           assets' = [i \in DOMAIN assets |-> [assets[i] EXCEPT !.checked = FALSE]]
    PROVE  IInv'
<1>1. PICK n \in Nat : n = Len(assets) /\ DOMAIN assets = 1..n
  BY Typed DEF IInv
<1>2. \A i \in 1..n : assets[i] \in AssetRow
  BY <1>1, Typed DEF IInv
<1>3. ASSUME NEW i \in 1..n
      PROVE  /\ assets'[i] \in AssetRow /\ assets'[i].checked = FALSE
             /\ assets'[i].status = assets[i].status /\ assets'[i].decided = assets[i].decided
             /\ assets'[i].sure = assets[i].sure
             /\ assets'[i].qr = assets[i].qr /\ assets'[i].bar = assets[i].bar
  <2>1. PICK row : row = [assets[i] EXCEPT !.checked = FALSE]
    OBVIOUS
  <2>2. assets[i] \in AssetRow
    BY <1>2
  <2>3. /\ row \in AssetRow /\ row.checked = FALSE /\ row.status = assets[i].status
        /\ row.decided = assets[i].decided /\ row.sure = assets[i].sure
        /\ row.qr = assets[i].qr /\ row.bar = assets[i].bar
    BY <2>1, <2>2 DEF AssetRow
  <2>4. assets'[i] = row
    BY <1>1, <2>1
  <2> QED BY <2>3, <2>4
<1>4. DOMAIN assets' = 1..n /\ assets' = [i \in 1..n |-> assets'[i]]
  BY <1>1
<1>5. assets' \in Seq(AssetRow) /\ Len(assets') = n
  <2>1. assets' \in [1..n -> AssetRow]
    BY <1>3, <1>4
  <2>2. assets' \in Seq(AssetRow)
    BY <2>1, SeqDef
  <2> QED BY <1>4, <2>2, LenProperties
<1>6. ASSUME NEW c \in Calls
      PROVE  /\ calls'[c] \in {Idle} \cup DefinitionCall \cup CreateCall \cup UpdateCall
                                \cup TransitionCall
             /\ CallOK(definitions', bindings, calls'[c])
  <2>1. CallOK(definitions, bindings, local[c])
    BY IdleOK DEF IInv, CallsOK
  <2>2. CASE local[c].pc = "create"
    <3>1. calls'[c] = [local[c] EXCEPT !.checked = FALSE]
      BY <2>2 DEF Recheck
    <3>2. local[c] \in CreateCall
      BY <2>2 DEF Idle, DefinitionCall, UpdateCall, TransitionCall, CreateCall
    <3>3. calls'[c] \in CreateCall /\ calls'[c].pc = "create" /\ calls'[c].checked = FALSE
      BY <3>1, <3>2 DEF CreateCall
    <3> QED BY <3>3 DEF CallOK
  <2>3. CASE local[c].pc = "update"
    <3>1. calls'[c] = [local[c] EXCEPT !.read.checked = FALSE]
      BY <2>3 DEF Recheck
    <3>2. local[c] \in UpdateCall
      BY <2>3 DEF Idle, DefinitionCall, UpdateCall, TransitionCall, CreateCall
    <3>3. PICK read : read = [local[c].read EXCEPT !.checked = FALSE]
      OBVIOUS
    <3>4. calls'[c] = [local[c] EXCEPT !.read = read]
      BY <3>1, <3>3, Zenon
    <3>5. /\ read \in AssetRow /\ read.checked = FALSE /\ read.status = local[c].read.status
          /\ read.decided = local[c].read.decided /\ read.sure = local[c].read.sure
      BY <3>2, <3>3 DEF UpdateCall, AssetRow
    <3>6. calls'[c] \in UpdateCall /\ calls'[c].asset = local[c].asset /\ calls'[c].read = read
          /\ calls'[c].pc = "update"
      BY <3>2, <3>4, <3>5 DEF UpdateCall
    <3> QED BY <2>1, <2>3, <3>5, <3>6 DEF CallOK, RowOK
  <2>4. CASE local[c].pc \notin {"create", "update"}
    <3>1. calls'[c] = local[c]
      BY <2>4 DEF Recheck
    <3> QED BY <2>1, <2>4, <3>1 DEF CallOK
  <2> QED BY <2>2, <2>3, <2>4
<1>7. calls' = [c \in Calls |-> calls'[c]]
  BY DEF Recheck
<1>8. definitions' \in [Keys -> Definition \cup {Absent}]
  BY DEF IInv, TypeOK
<1>9. TypeOK'
  BY <1>1, <1>5, <1>6, <1>7, <1>8 DEF IInv, TypeOK
<1>10. CallsOK'
  BY <1>6 DEF CallsOK
<1>11. RowsOK'
  <2> SUFFICES ASSUME NEW i \in 1..n PROVE RowOK(definitions', bindings[i], assets'[i])
    BY <1>4 DEF RowsOK
  <2>1. RowOK(definitions, bindings[i], assets[i])
    BY <1>1 DEF IInv, RowsOK
  <2> QED BY <1>3, <2>1 DEF RowOK
<1>12. CodesUnique'
  <2> SUFFICES ASSUME NEW i \in 1..n, NEW j \in 1..n, i # j
               PROVE  /\ assets'[i].qr # Absent => assets'[i].qr # assets'[j].qr
                      /\ assets'[i].bar # Absent => assets'[i].bar # assets'[j].bar
    BY <1>4 DEF CodesUnique
  <2>1. /\ assets[i].qr # Absent => assets[i].qr # assets[j].qr
        /\ assets[i].bar # Absent => assets[i].bar # assets[j].bar
    BY <1>1 DEF IInv, CodesUnique
  <2>2. /\ assets'[i].qr = assets[i].qr /\ assets'[i].bar = assets[i].bar
        /\ assets'[j].qr = assets[j].qr /\ assets'[j].bar = assets[j].bar
    BY <1>3
  <2> QED BY <2>1, <2>2
<1>13. DefinitionsOK'
  BY DEF IInv, TypeOK, DefinitionsOK
<1> QED BY <1>9, <1>10, <1>11, <1>12, <1>13 DEF IInv

LEMMA FieldStepKept ==
    ASSUME IInv, FieldStep, UNCHANGED bindings
    PROVE  IInv'
<1>1. CASE \E c \in Calls, k \in Keys : ReadDefinition(c, k) /\ UNCHANGED <<definitions, assets>>
  BY <1>1, ReadDefinitionKept
<1>2. ASSUME assets' = [i \in DOMAIN assets |-> [assets[i] EXCEPT !.checked = FALSE]],
             NEW k \in Keys, CreateDefinition(k), calls' = Recheck(calls)
      PROVE  IInv'
  <2>1. PICK type \in Types, limit \in Limits \cup {Absent}, options \in Options,
             required \in BOOLEAN, enabled \in BOOLEAN :
          LET d == [type |-> type, limit |-> limit, options |-> options,
                    required |-> required, enabled |-> enabled]
          IN WellFormed(d) /\ definitions' = [definitions EXCEPT ![k] = d]
    BY <1>2 DEF CreateDefinition
  <2>2. PICK d : d = [type |-> type, limit |-> limit, options |-> options,
                      required |-> required, enabled |-> enabled]
    OBVIOUS
  <2>3. d \in Definition /\ WellFormed(d) /\ definitions' = [definitions EXCEPT ![k] = d]
    BY <2>1, <2>2 DEF Definition
  <2>4. calls \in [Calls -> {Idle} \cup DefinitionCall \cup CreateCall \cup UpdateCall
                              \cup TransitionCall]
    BY DEF IInv, TypeOK
  <2> QED BY <1>2, <2>3, <2>4, DefinitionIsWritten
<1>3. ASSUME assets' = [i \in DOMAIN assets |-> [assets[i] EXCEPT !.checked = FALSE]],
             NEW c \in Calls, UpdateDefinition(c), calls' = Recheck([calls EXCEPT ![c] = Idle])
      PROVE  IInv'
  <2>1. calls[c] \in DefinitionCall
    BY <1>3, CallAt DEF UpdateDefinition, IInv
  <2>2. PICK k \in Keys : k = calls[c].key
    BY <2>1 DEF DefinitionCall
  <2>3. PICK read \in Definition : read = calls[c].read
    BY <2>1 DEF DefinitionCall
  <2>4. PICK limit \in Limits \cup {LeftOut}, options \in Options \cup {LeftOut},
             required \in BOOLEAN \cup {LeftOut}, enabled \in BOOLEAN \cup {LeftOut} :
          /\ WellFormed(Filled(calls[c].read, limit, options, required, enabled))
          /\ definitions' = [definitions EXCEPT
               ![calls[c].key] = NewRow(c, limit, options, required, enabled)]
    BY <1>3, Zenon DEF UpdateDefinition
  <2>5. PICK d : d = Filled(read, limit, options, required, enabled)
    OBVIOUS
  <2>6. WellFormed(d) /\ definitions' = [definitions EXCEPT ![k] = d]
    BY <2>2, <2>3, <2>4, <2>5, Zenon DEF NewRow
  <2>7. d \in Definition
    <3>1. \A given, otherwise : \/ Given(given, otherwise) = given /\ given # LeftOut
                                \/ Given(given, otherwise) = otherwise
      BY DEF Given
    <3>2. Given(limit, read.limit) \in Limits \cup {Absent}
      BY <2>4, <3>1 DEF Definition
    <3>3. Given(options, read.options) \in Options
      BY <2>4, <3>1 DEF Definition
    <3>4. Given(required, read.required) \in BOOLEAN /\ Given(enabled, read.enabled) \in BOOLEAN
      BY <2>4, <3>1 DEF Definition
    <3> QED BY <2>5, <3>2, <3>3, <3>4 DEF Filled, Definition
  <2>8. PICK local : local = [calls EXCEPT ![c] = Idle]
    OBVIOUS
  <2>9. local \in [Calls -> {Idle} \cup DefinitionCall \cup CreateCall \cup UpdateCall
                              \cup TransitionCall]
    BY <2>8, Zenon DEF IInv, TypeOK
  <2>10. \A e \in Calls : local[e] \in {Idle, calls[e]}
    BY <2>8 DEF IInv, TypeOK
  <2> QED BY <1>3, <2>6, <2>7, <2>8, <2>9, <2>10, DefinitionIsWritten
<1> QED BY <1>1, <1>2, <1>3, Zenon DEF FieldStep
-----------------------------------------------------------------------------
LEMMA InitInv ==
    ASSUME InitAssets
    PROVE  IInv
<1>1. /\ definitions = [k \in Keys |-> Absent] /\ calls = [c \in Calls |-> Idle]
      /\ assets = <<>> /\ bindings = <<>>
  BY DEF InitAssets, InitFields
<1>2. assets \in Seq(AssetRow) /\ bindings \in Seq(Bound) /\ DOMAIN assets = {} /\ Len(bindings) = Len(assets)
  BY <1>1, EmptySeq
<1>3. TypeOK
  BY <1>1, <1>2 DEF TypeOK
<1>4. CallsOK
  BY <1>1, IdleOK DEF CallsOK
<1> QED BY <1>1, <1>2, <1>3, <1>4 DEF IInv, RowsOK, DefinitionsOK, CodesUnique

LEMMA NextInv ==
    ASSUME IInv, [NextAssets]_assetVars
    PROVE  IInv'
<1>1. CASE UNCHANGED assetVars
  BY <1>1 DEF assetVars, IInv, TypeOK, RowsOK, CallsOK, DefinitionsOK, CodesUnique
<1>2. ASSUME NEW c \in Calls, \/ CreateRead(c) \/ UpdateRead(c) \/ UpdateCheck(c)
                              \/ TransitionRead(c) \/ CountBindings(c) \/ Refuse(c)
      PROVE  IInv'
  BY <1>2, CreateReadKept, UpdateReadKept, UpdateCheckKept, TransitionReadKept,
     CountBindingsKept, RefuseKept
<1>3. ASSUME NEW c \in Calls, CreateAsset(c) \/ UpdateAsset(c) \/ Transition(c)
      PROVE  IInv'
  BY <1>3, CreateAssetKept, UpdateAssetKept, TransitionKept
<1> QED BY <1>1, <1>2, <1>3, CreateDiscoveredKept, MergeDiscoveredKept, UpsertBindingsKept,
           FieldStepKept DEF NextAssets

LEMMA Inductive == SpecAssets => []IInv
<1>1. InitAssets => IInv
  BY InitInv
<1>2. IInv /\ [NextAssets]_assetVars => IInv'
  BY NextInv
<1> QED BY <1>1, <1>2, PTL DEF SpecAssets
-----------------------------------------------------------------------------
(* What the invariant says of the properties *)

LEMMA ReadyWhenOperational ==
    ASSUME IInv
    PROVE  OperationalWasReady
<1> SUFFICES ASSUME NEW i \in DOMAIN assets, assets[i].status = "operational"
             PROVE  /\ assets[i].decided
                    /\ assets[i].sure =>
                         /\ bindings[i]["owner"] # {}
                         /\ LET shown == Buckets("operational")
                            IN /\ i \notin shown.noDepartment \cup shown.noService
                               /\ \E d \in bindings[i]["department"] : i \in shown.department[d]
  BY DEF OperationalWasReady
<1>1. RowOK(definitions, bindings[i], assets[i]) /\ bindings[i] \in Bound
  BY Typed DEF IInv, RowsOK
<1>2. assets[i].decided
  BY <1>1 DEF RowOK
<1>3. ASSUME assets[i].sure
      PROVE  /\ bindings[i]["owner"] # {}
             /\ LET shown == Buckets("operational")
                IN /\ i \notin shown.noDepartment \cup shown.noService
                   /\ \E d \in bindings[i]["department"] : i \in shown.department[d]
  <2>1. \A k \in Kinds : bindings[i][k] # {}
    BY <1>1, <1>3 DEF RowOK
  <2>2. /\ bindings[i]["owner"] # {} /\ bindings[i]["service"] # {}
        /\ bindings[i]["department"] # {} /\ bindings[i]["department"] \subseteq Departments
    BY <1>1, <2>1 DEF Bound, Kinds
  <2>3. i \in {j \in DOMAIN assets : "operational" \in {Absent, assets[j].status}}
    OBVIOUS
  <2>4. PICK d \in Departments : d \in bindings[i]["department"]
    BY <2>2
  <2>5. i \notin Buckets("operational").noDepartment
    BY <2>2 DEF Buckets
  <2>6. i \notin Buckets("operational").noService
    BY <2>2 DEF Buckets
  <2>7. i \in Buckets("operational").department[d]
    BY <2>2, <2>3, <2>4 DEF Buckets
  <2> QED BY <2>2, <2>4, <2>5, <2>6, <2>7
<1> QED BY <1>2, <1>3

LEMMA CheckedIsPresent ==
    ASSUME IInv
    PROVE  RequiredIsPresent
<1> SUFFICES ASSUME NEW i \in DOMAIN assets, FieldsOK(definitions, assets[i].fields)
             PROVE  /\ {k \in Keys : definitions[k] # Absent /\ definitions[k].enabled
                                       /\ definitions[k].required} \subseteq DOMAIN assets[i].fields
                    /\ \A k \in DOMAIN assets[i].fields :
                         \/ assets[i].fields[k] = Stamp
                         \/ /\ definitions[k] # Absent /\ definitions[k].enabled
                            /\ Fits(definitions[k], assets[i].fields[k])
  BY DEF RequiredIsPresent, IInv, RowsOK, RowOK
<1> QED BY DEF FieldsOK, EnabledKeys

LEMMA OptionsFit ==
    ASSUME IInv
    PROVE  OptionsAreUsable
<1> SUFFICES ASSUME NEW k \in Keys, definitions[k] # Absent, definitions[k].type = "enum"
             PROVE  /\ definitions[k].options # {}
                    /\ \A o \in definitions[k].options : Fits(definitions[k], o)
  BY DEF OptionsAreUsable
<1>1. definitions[k] \in Definition /\ WellFormed(definitions[k])
  BY DEF IInv, TypeOK, DefinitionsOK
<1>2. \A o \in definitions[k].options : o.form = "string"
  BY <1>1 DEF Definition, Options
<1> QED BY <1>1, <1>2 DEF WellFormed, Fits

LEMMA CodesFound ==
    ASSUME IInv
    PROVE  CodesIdentify
<1> SUFFICES ASSUME NEW i \in DOMAIN assets
             PROVE  /\ assets[i].qr # Absent => ByCode(assets[i].qr, "auto") = {i}
                    /\ assets[i].bar # Absent =>
                         /\ ByCode(assets[i].bar, "barcode") = {i}
                         /\ ByCode(assets[i].bar, "auto") # {i} =>
                              \E j \in DOMAIN assets : assets[j].qr = assets[i].bar
  BY DEF CodesIdentify
<1>1. i \in Nat /\ i >= i
  BY Typed DEF IInv
<1>2. \A j \in DOMAIN assets : j # i =>
        /\ assets[i].qr # Absent => assets[j].qr # assets[i].qr
        /\ assets[i].bar # Absent => assets[j].bar # assets[i].bar
  BY DEF IInv, CodesUnique
<1>3. {k \in {i} : \A j \in {i} : k >= j} = {i}
  BY <1>1
<1>4. ASSUME assets[i].qr # Absent
      PROVE  ByCode(assets[i].qr, "auto") = {i}
  <2>1. {j \in DOMAIN assets : "auto" \in {"auto", "qr"} /\ assets[j].qr = assets[i].qr} = {i}
    BY <1>2, <1>4
  <2> QED BY <1>3, <2>1 DEF ByCode
<1>5. ASSUME assets[i].bar # Absent
      PROVE  ByCode(assets[i].bar, "barcode") = {i}
  <2>1. {j \in DOMAIN assets : "barcode" \in {"auto", "qr"} /\ assets[j].qr = assets[i].bar} = {}
    OBVIOUS
  <2>2. {j \in DOMAIN assets : "barcode" \in {"auto", "barcode"} /\ assets[j].bar = assets[i].bar} = {i}
    BY <1>2, <1>5
  <2> QED BY <1>3, <2>1, <2>2 DEF ByCode
<1>6. ASSUME assets[i].bar # Absent, \A j \in DOMAIN assets : assets[j].qr # assets[i].bar
      PROVE  ByCode(assets[i].bar, "auto") = {i}
  <2>1. {j \in DOMAIN assets : "auto" \in {"auto", "qr"} /\ assets[j].qr = assets[i].bar} = {}
    BY <1>6
  <2>2. {j \in DOMAIN assets : "auto" \in {"auto", "barcode"} /\ assets[j].bar = assets[i].bar} = {i}
    BY <1>2, <1>6
  <2> QED BY <1>3, <2>1, <2>2 DEF ByCode
<1> QED BY <1>4, <1>5, <1>6

\* Every table, and what a request holds at each of its statements, has its
\* type, however many requests read and write back whole rows.
THEOREM TypeCorrect == SpecAssets => []TypeOK
<1>1. IInv => TypeOK
  BY DEF IInv
<1> QED BY <1>1, Inductive, PTL

\* An operational asset has been made so by a transition, and while its bindings
\* stay as they were counted it has all three kinds: three statements count
\* them, and an update may write back the status of a row it read before.
THEOREM OperationalTheorem == SpecAssets => []OperationalWasReady
<1>1. IInv => OperationalWasReady
  BY ReadyWhenOperational
<1> QED BY <1>1, Inductive, PTL

\* While the definitions stay as they were when an asset's fields were checked,
\* it has a value for each required field, and what it has under any key fits
\* the definition of the key unless discovery wrote it there.
THEOREM RequiredTheorem == SpecAssets => []RequiredIsPresent
<1>1. IInv => RequiredIsPresent
  BY CheckedIsPresent
<1> QED BY <1>1, Inductive, PTL

\* Whoever updates a definition at the same time, each option of an enumeration
\* is a value the enumeration accepts, and there is one.
THEOREM OptionsTheorem == SpecAssets => []OptionsAreUsable
<1>1. IInv => OptionsAreUsable
  BY OptionsFit
<1> QED BY <1>1, Inductive, PTL

\* An asset is found by the codes it has; only a QR code goes before a barcode.
THEOREM CodesTheorem == SpecAssets => []CodesIdentify
<1>1. IInv => CodesIdentify
  BY CodesFound
<1> QED BY <1>1, Inductive, PTL
=============================================================================
