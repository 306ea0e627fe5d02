---------------------------- MODULE RiskTickets ----------------------------
(***************************************************************************)
(* The ticket of a runbook's risk alert.  A request looks for the active   *)
(* ticket its source is linked to and, later, gives that ticket an owner   *)
(* or makes a ticket of its own and points the link to it.  The lookup     *)
(* locks nothing.                                                          *)
(***************************************************************************)
EXTENDS Tickets

CONSTANT Sources    \* source keys: template, mode and window of an alert

VARIABLES
    links,      \* ops_runbook_risk_alert_ticket_links: source -> ticket, 0 for none
    risk,       \* risk[i]: source of ticket i, and how many tickets its request saw
    settled     \* tickets that have been settled at some time

riskVars == <<links, risk, settled>>

InitRisk == /\ Init
            /\ links = [s \in Sources |-> 0]
            /\ risk = <<>>
            /\ settled = {}

\* Seeded fault: a ticket somebody works on is not found.
OpenOnly(s) == {i \in {links[s]} \ {0} : tickets[i].status = "open"}

\* The link's own status is `open` from its insertion on.
Linked(s) == {i \in {links[s]} \ {0} : tickets[i].status \in Active}

ReadLink(c) ==
    /\ calls[c] = Idle
    /\ \E s \in Sources :
         Goto(c, [pc |-> "link", source |-> s, found |-> Linked(s), saw |-> Len(tickets),
                  unassigned |-> {i \in Linked(s) : tickets[i].assignee = Nobody}])
    /\ UNCHANGED <<tickets, requests, actions, policy, now, links, risk, settled>>

\* The owner comes from the routing; a ticket that was found without one gets
\* it, whoever has it by now.
AssignLinked(c) ==
    /\ calls[c].pc = "link" /\ calls[c].found # {}
    /\ \E owner \in Users :
         tickets' = [i \in DOMAIN tickets |->
                       IF i \in calls[c].unassigned THEN [tickets[i] EXCEPT !.assignee = owner]
                       ELSE tickets[i]]
    /\ Goto(c, Idle)
    /\ UNCHANGED <<requests, actions, policy, now, links, risk, settled>>

\* The new ticket and the link that is turned to it, in one transaction.
CreateLinked(c) ==
    /\ calls[c].pc = "link" /\ calls[c].found = {}
    /\ Len(tickets) < MaxTickets
    /\ \E owner \in Users, priority \in Priorities :
         tickets' = Append(tickets, [status |-> "open", priority |-> priority,
                                     assignee |-> owner, created |-> now, request |-> 0])
    /\ LET i == Len(tickets) + 1
       IN /\ links' = [links EXCEPT ![calls[c].source] = i]
          /\ risk' = [k \in DOMAIN risk \cup {i} |->
                        IF k = i THEN [source |-> calls[c].source, saw |-> calls[c].saw]
                        ELSE risk[k]]
    /\ Goto(c, Idle)
    /\ UNCHANGED <<requests, actions, policy, now, settled>>

\* The routing or a statement fails: nothing is kept.
RollBack(c) ==
    /\ calls[c].pc = "link"
    /\ Goto(c, Idle)
    /\ UNCHANGED <<tickets, requests, actions, policy, now, links, risk, settled>>

\* What the list of alerts shows of a source's ticket, whatever its status.
ShownLink(s) == IF links[s] = 0 THEN {}
                ELSE {[ticket |-> links[s], status |-> tickets[links[s]].status,
                       assignee |-> tickets[links[s]].assignee]}

NextRisk ==
    \/ /\ Next
       /\ settled' = settled \cup {i \in DOMAIN tickets : tickets'[i].status \in Settled}
       /\ UNCHANGED <<links, risk>>
    \/ \E c \in Calls : ReadLink(c) \/ AssignLinked(c) \/ CreateLinked(c) \/ RollBack(c)

SpecRisk == InitRisk /\ [][NextRisk]_<<vars, riskVars>>
-----------------------------------------------------------------------------
(* Properties *)

\* Two active tickets of one source have an excuse: the later request had
\* looked before the earlier ticket was there, or the earlier one was settled
\* and opened again, or a request in the first position had turned the link
\* away from it in between.  The list shows the newest one.
OneRiskTicket ==
    /\ \A i, j \in DOMAIN risk :
         /\ i < j /\ risk[i].source = risk[j].source
         /\ tickets[i].status \in Active /\ tickets[j].status \in Active
         => \/ risk[j].saw < i
            \/ i \in settled
            \/ \E k \in DOMAIN risk :
                 i < k /\ k < j /\ risk[k].source = risk[i].source /\ risk[k].saw < i
    /\ \A i \in DOMAIN risk : \E shown \in ShownLink(risk[i].source) : shown.ticket >= i
=============================================================================
