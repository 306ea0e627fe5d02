------------------------------ MODULE Profiles ------------------------------
(***************************************************************************)
(* The operator profiles of the setup.  Applying one reads what the        *)
(* sections are, one statement each and outside the transaction that then  *)
(* writes them all and keeps what was read as the state to go back to.     *)
(* Reverting a run writes that state back, and deletes the sections that   *)
(* were not there.  Other requests change one section at a time.           *)
(*                                                                         *)
(* Of a row's columns the snapshot keeps only some.  Others are set anew   *)
(* whenever a profile is applied or reverted, and the rest is left as it   *)
(* is, or gets its default where the row has to be inserted again.         *)
(***************************************************************************)
EXTENDS Integers, Sequences, FiniteSets, Functions

CONSTANTS
    Calls,      \* requests under way
    Sections,   \* the rows a profile writes, in the order they are written
    Profiles,   \* setup_profile_definitions, each a value for every section
    Absent,     \* there is no row
    MaxCommits  \* bound on the transactions that commit

VARIABLES
    rows,   \* section -> Absent, or what its columns were last set by:
            \*   saved: those of the snapshot
            \*   own:   match_status, name, destination_validated, next_backup_at, ...
            \*   kept:  match_source, match_site, the windows of critical and low, ...
    runs,   \* setup_operator_profile_runs, with the snapshot each of them keeps
    calls,
    log     \* the commits: what they were, what they had seen, the rows they left

vars == <<rows, runs, calls, log>>

Idle == [pc |-> "idle"]
Goto(c, state) == calls' = [calls EXCEPT ![c] = state]
AllOf(value) == [s \in Range(Sections) |-> value]

Init == /\ rows = AllOf(Absent)
        /\ runs = <<>>
        /\ calls = [c \in Calls |-> Idle]
        /\ log = <<>>

\* A row that is written, or inserted, is locked until the transaction ends.
Holds(c) == IF calls[c].pc = "write" THEN calls[c].locks ELSE {}
Locked(s, c) == \E d \in Calls \ {c} : s \in Holds(d)

Committed(what, run, saw) ==
    log' = Append(log, [what |-> what, run |-> run, saw |-> saw, rows |-> rows'])

\* A policy is updated, a starter template sets the identity.
Edit(s) ==
    /\ Len(log) < MaxCommits
    /\ \A c \in Calls : s \notin Holds(c)
    /\ rows' = [rows EXCEPT ![s] = [saved |-> "edited", own |-> "edited", kept |-> "edited"]]
    /\ Committed("edit", 0, Len(log))
    /\ UNCHANGED <<runs, calls>>

BeginApply(c) ==
    /\ calls[c] = Idle
    /\ \E p \in Profiles :
         Goto(c, [pc |-> "read", profile |-> p, before |-> AllOf(Absent), done |-> 0,
                  saw |-> Len(log)])
    /\ UNCHANGED <<rows, runs, log>>

Writing(what, run, before, values, saw) ==
    [pc |-> "write", what |-> what, run |-> run, before |-> before, values |-> values,
     locks |-> {}, found |-> "unasked", done |-> 0, saw |-> saw]

Section(c) == Sections[calls[c].done + 1]

Saved(row) == IF row = Absent THEN Absent ELSE row.saved

\* load_setup_profile_snapshot, a statement for each section.
ReadSection(c) ==
    /\ calls[c].pc = "read"
    /\ LET call == calls[c]
           before == [call.before EXCEPT ![Section(c)] = Saved(rows[Section(c)])]
       IN Goto(c, IF call.done + 1 < Len(Sections)
                    THEN [call EXCEPT !.before = before, !.done = call.done + 1]
                    ELSE Writing("apply", 0, before, AllOf(call.profile), call.saw))
    /\ UNCHANGED <<rows, runs, log>>

BeginRevert(c) ==
    /\ calls[c] = Idle
    /\ \E r \in DOMAIN runs :
         /\ runs[r].status = "applied"
         /\ Goto(c, Writing("revert", r, <<>>, runs[r].before, Len(log)))
    /\ UNCHANGED <<rows, runs, log>>

Unfinished(c) == calls[c].pc = "write" /\ calls[c].done < Len(Sections)
Done(c, locks) ==
    Goto(c, [calls[c] EXCEPT !.done = @ + 1, !.locks = @ \cup locks, !.found = "unasked"])

\* Whether the row is to be updated or inserted: a statement of its own, that
\* locks nothing.  (For the identity it only tells what to report.)
LookUp(c) ==
    /\ Unfinished(c) /\ calls[c].found = "unasked"
    /\ calls[c].values[Section(c)] # Absent
    /\ Goto(c, [calls[c] EXCEPT !.found = IF rows[Section(c)] = Absent THEN "missing" ELSE "there"])
    /\ UNCHANGED <<rows, runs, log>>

\* The row's key is unique: an insertion fails where there is a row by now.
UpsertSection(c) ==
    /\ Unfinished(c) /\ ~Locked(Section(c), c)
    /\ \/ calls[c].found = "there" /\ rows[Section(c)] # Absent
       \/ calls[c].found = "missing" /\ rows[Section(c)] = Absent
    /\ Done(c, {Section(c)})
    /\ UNCHANGED <<rows, runs, log>>

\* An update finds that the row has been deleted since: it writes nothing, and
\* nothing tells the request so.
MissSection(c) ==
    /\ Unfinished(c) /\ ~Locked(Section(c), c)
    /\ calls[c].found = "there" /\ rows[Section(c)] = Absent
    /\ Done(c, {})
    /\ UNCHANGED <<rows, runs, log>>

\* A section that was not there; a deletion that finds no row locks none.
DeleteSection(c) ==
    /\ Unfinished(c) /\ ~Locked(Section(c), c)
    /\ calls[c].values[Section(c)] = Absent
    /\ Done(c, {Section(c)} \ {s \in Range(Sections) : rows[s] = Absent})
    /\ UNCHANGED <<rows, runs, log>>

\* A row that is there is updated, one that is not is inserted.
Written(s, value) ==
    [saved |-> value, own |-> "set", kept |-> IF rows[s] = Absent THEN "default" ELSE rows[s].kept]

\* Seeded fault: a section that was not there is left as it is.
RestorePresent(c) == [s \in Range(Sections) |->
                        IF s \in calls[c].locks /\ calls[c].values[s] # Absent
                        THEN Written(s, calls[c].values[s]) ELSE rows[s]]

Restored(c) == [s \in Range(Sections) |->
                  IF s \notin calls[c].locks THEN rows[s]
                  ELSE IF calls[c].values[s] = Absent THEN Absent
                  ELSE Written(s, calls[c].values[s])]

\* The run is written in the same transaction; a run is marked as reverted
\* whatever its status has become.
Commit(c) ==
    /\ calls[c].pc = "write" /\ calls[c].done = Len(Sections) /\ Len(log) < MaxCommits
    /\ rows' = Restored(c)
    /\ LET call == calls[c]
           id == IF call.what = "apply" THEN Len(runs) + 1 ELSE call.run
       IN /\ runs' = IF call.what = "apply"
                     THEN Append(runs, [status |-> "applied", before |-> call.before])
                     ELSE [runs EXCEPT ![id].status = "reverted"]
          /\ Committed(call.what, id, call.saw)
    /\ Goto(c, Idle)

\* A statement fails, and with it the transaction.
RollBack(c) == /\ calls[c] # Idle
               /\ Goto(c, Idle)
               /\ UNCHANGED <<rows, runs, log>>

Next == \/ \E s \in Range(Sections) : Edit(s)
        \/ \E c \in Calls : \/ BeginApply(c) \/ ReadSection(c) \/ BeginRevert(c)
                            \/ LookUp(c) \/ UpsertSection(c) \/ MissSection(c) \/ DeleteSection(c)
                            \/ Commit(c) \/ RollBack(c)

Spec == Init /\ [][Next]_vars
-----------------------------------------------------------------------------
(* Properties *)

Before(i) == IF i = 1 THEN AllOf(Absent) ELSE log[i - 1].rows
Applies == {i \in DOMAIN log : log[i].what = "apply"}
Reverts == {i \in DOMAIN log : log[i].what = "revert"}

\* Nothing else was committed between what the i-th commit had seen and itself.
Alone(i) == log[i].saw = i - 1

SavedOf(sections) == [s \in Range(Sections) |-> Saved(sections[s])]

\* A profile that nothing else gets in between is applied as a whole.  The
\* reverting of its run brings back the columns of the snapshot, and the absence
\* of sections that had not been there; the columns that profiles set by
\* themselves it does not bring back, and those that profiles leave alone stay
\* with the row.  Two revert one run only when each had looked before the other
\* was through.
RevertRestores ==
    /\ \A i \in Applies : Alone(i) => \E p \in Profiles : SavedOf(log[i].rows) = AllOf(p)
    /\ \A i \in Applies, j \in Reverts :
         log[i].run = log[j].run /\ Alone(i) /\ Alone(j) =>
           /\ SavedOf(log[j].rows) = SavedOf(Before(i))
           /\ \A s \in Range(Sections) : Before(i)[s] # Absent => log[j].rows[s].own = "set"
    /\ \A i \in Applies \cup Reverts, s \in Range(Sections) :
         Before(i)[s] # Absent /\ log[i].rows[s] # Absent =>
           log[i].rows[s].kept = Before(i)[s].kept
    /\ \A i, j \in Reverts : i < j /\ log[i].run = log[j].run => log[j].saw < i
=============================================================================
