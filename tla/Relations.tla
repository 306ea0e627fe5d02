----------------------------- MODULE Relations -----------------------------
(***************************************************************************)
(* The relations between assets and what an asset has an impact on.  A     *)
(* `contains` relation is checked against the parent the child has, then   *)
(* against the descendants of the child, and only then inserted: three     *)
(* statements and no transaction.  The table keeps a relation, and a       *)
(* child's parent, unique.                                                 *)
(***************************************************************************)
EXTENDS Integers

CONSTANTS
    Calls,          \* requests under way
    Nodes,          \* the assets, which are never deleted
    Types,          \* relation types after normalize_relation_type
    AskedDepths,    \* depths that are asked for
    MaxRelations    \* bound on the relations that are ever inserted

VARIABLES
    relations,  \* asset_relations: records [id, src, dst, type, saw], where `saw`
                \* is the set of the hierarchy's relations at the check for a cycle
    lastId,     \* the sequence the ids are drawn from
    calls

vars == <<relations, lastId, calls>>

Idle == [pc |-> "idle"]
DefaultTypes == {"contains", "depends_on", "runs_service", "owned_by"}

Init == relations = {} /\ lastId = 0 /\ calls = [c \in Calls |-> Idle]

Hierarchy == {r \in relations : r.type = "contains"}
ParentsOf(n) == {r.src : r \in {r \in Hierarchy : r.dst = n}}

\* The nodes below n: the least set with the children of n and of its members.
Below(n, edges) ==
    LET Children(S) == {r.dst : r \in {r \in edges : r.src \in S}}
    IN {m \in Nodes : \A S \in SUBSET Nodes : Children({n} \cup S) \subseteq S => m \in S}

\* validate_self_loop
LoopAllowed(src, dst, type) == src = dst => type \in {"self", "loopback"}

\* Another type needs no check and goes straight to the insertion.
BeginCreate(c) ==
    /\ calls[c] = Idle /\ lastId < MaxRelations
    /\ \E src, dst \in Nodes, type \in Types :
         /\ LoopAllowed(src, dst, type)
         /\ calls' = [calls EXCEPT ![c] =
              [pc |-> IF type = "contains" THEN "parent" ELSE "insert",
               src |-> src, dst |-> dst, type |-> type, saw |-> {}]]
    /\ UNCHANGED <<relations, lastId>>

CheckParent(c) ==
    /\ calls[c].pc = "parent"
    /\ ParentsOf(calls[c].dst) \subseteq {calls[c].src}
    /\ calls' = [calls EXCEPT ![c].pc = "cycle"]
    /\ UNCHANGED <<relations, lastId>>

\* Seeded fault: only the children are looked at, not their children.
ChildrenOnly(src, dst) == src \in {r.dst : r \in {r \in Hierarchy : r.src = dst}}

CreatesCycle(src, dst) == src \in Below(dst, Hierarchy)

CheckCycle(c) ==
    /\ calls[c].pc = "cycle"
    /\ ~CreatesCycle(calls[c].src, calls[c].dst)
    /\ calls' = [calls EXCEPT ![c].pc = "insert", ![c].saw = {r.id : r \in Hierarchy}]
    /\ UNCHANGED <<relations, lastId>>

\* The two unique indexes.
Free(src, dst, type) ==
    /\ \A r \in relations : <<r.src, r.dst, r.type>> # <<src, dst, type>>
    /\ type = "contains" => ParentsOf(dst) = {}

Insert(c) ==
    /\ calls[c].pc = "insert" /\ lastId < MaxRelations
    /\ Free(calls[c].src, calls[c].dst, calls[c].type)
    /\ lastId' = lastId + 1
    /\ relations' = relations \cup {[id |-> lastId + 1, src |-> calls[c].src, dst |-> calls[c].dst,
                                     type |-> calls[c].type, saw |-> calls[c].saw]}
    /\ calls' = [calls EXCEPT ![c] = Idle]

Refuse(c) == /\ calls[c] # Idle
             /\ calls' = [calls EXCEPT ![c] = Idle]
             /\ UNCHANGED <<relations, lastId>>

Delete == \E r \in relations : /\ relations' = relations \ {r}
                               /\ UNCHANGED <<lastId, calls>>

Next == \/ \E c \in Calls : \/ BeginCreate(c) \/ CheckParent(c) \/ CheckCycle(c)
                            \/ Insert(c) \/ Refuse(c)
        \/ Delete

Spec == Init /\ [][Next]_vars
-----------------------------------------------------------------------------
(* What is shown *)

\* get_asset_graph
Graph(n) == LET edges == {r \in relations : n \in {r.src, r.dst}}
            IN [nodes |-> {n} \cup UNION {{r.src, r.dst} : r \in edges}, edges |-> edges]

Source(r, direction) == IF direction = "downstream" THEN r.src ELSE r.dst
Target(r, direction) == IF direction = "downstream" THEN r.dst ELSE r.src

\* fetch_relations_by_frontier
Leaving(frontier, types, direction) ==
    {r \in relations : r.type \in types /\ Source(r, direction) \in frontier}

\* A node and an edge keep the depth they were met at first.
Met(depths, new, depth) ==
    [x \in DOMAIN depths \cup new |-> IF x \in DOMAIN depths THEN depths[x] ELSE depth]

\* One round of traverse_impact; a node is in the frontier once.
Round(found, depth, types, direction) ==
    LET edges == Leaving(found.frontier, types, direction)
        new == {Target(r, direction) : r \in edges} \ DOMAIN found.nodes
    IN [nodes |-> Met(found.nodes, new, depth),
        edges |-> Met(found.edges, {<<r.id, direction>> : r \in edges}, depth),
        frontier |-> new]

\* The rounds from a root, as a function of their number.
Rounds(root, limit, types, direction) ==
    LET found[d \in 0..limit] ==
            IF d = 0 THEN [nodes |-> [n \in {root} |-> 0], edges |-> <<>>, frontier |-> {root}]
            ELSE Round(found[d - 1], d, types, direction)
    IN found

\* Seeded fault: the round that has reached the limit is left out.
ShortOfLimit(root, limit, types, direction) == Rounds(root, limit, types, direction)[limit - 1]

Traverse(root, limit, types, direction) == Rounds(root, limit, types, direction)[limit]

Directions(mode) == IF mode = "both" THEN {"downstream", "upstream"} ELSE {mode}

\* merge_impact: the least depth of the two directions.
Least(f, g) == [x \in DOMAIN f \cup DOMAIN g |->
                  IF x \notin DOMAIN g \/ (x \in DOMAIN f /\ f[x] < g[x]) THEN f[x] ELSE g[x]]

Limit(depth) == IF depth < 1 THEN 1 ELSE IF depth > 8 THEN 8 ELSE depth

\* get_asset_impact
Impact(root, depth, types, mode) ==
    LET limit == Limit(depth)
        of == IF types = {} THEN DefaultTypes ELSE types
        down == Traverse(root, limit, of, "downstream")
        up == Traverse(root, limit, of, "upstream")
        nodes == CASE mode = "downstream" -> down.nodes [] mode = "upstream" -> up.nodes
                   [] OTHER -> Least(down.nodes, up.nodes)
        edges == CASE mode = "downstream" -> down.edges [] mode = "upstream" -> up.edges
                   [] OTHER -> Least(down.edges, up.edges)
        Ends(type) == {r.dst : r \in {r \in relations :
                                 r.type = type /\ \E dir \in Directions(mode) : <<r.id, dir>> \in DOMAIN edges}}
    IN [nodes |-> nodes, edges |-> edges,
        services |-> Ends("runs_service"), owners |-> Ends("owned_by")]
-----------------------------------------------------------------------------
(* Properties *)

OnCycle == {r \in Hierarchy : r.src \in Below(r.dst, Hierarchy) \/ r.src = r.dst}

\* An asset has one parent; and where assets contain each other in a circle,
\* two of the circle's relations were each checked before the other was there.
HierarchyIsForest ==
    /\ \A n \in Nodes : \A p, q \in ParentsOf(n) : p = q
    /\ \A r \in OnCycle : \E e, f \in {g \in OnCycle : g.src \in Below(r.dst, Hierarchy)} :
         e.id \notin f.saw /\ f.id \notin e.saw /\ e # f

\* Walks(k): the nodes a walk of k relations leads to, in one direction.
Walks(root, k, types, direction) ==
    LET at[j \in 0..k] == IF j = 0 THEN {root}
                          ELSE {Target(r, direction) : r \in Leaving(at[j - 1], types, direction)}
    IN at

\* Also when the relations form circles: the impact of an asset is every node
\* that a walk within the limit leads to, at the length of the shortest such
\* walk; every relation that leaves such a node before the limit is there, and
\* the affected services and owners are the ends of those relations.  Requests
\* that are under way make no difference, so it is asked between them.
ImpactIsComplete ==
    (\A c \in Calls : calls[c] = Idle) =>
    \A root \in Nodes, depth \in AskedDepths, mode \in {"downstream", "upstream", "both"} :
      \A types \in SUBSET Types :
        LET impact == Impact(root, depth, types, mode)
            limit == Limit(depth)
            of == IF types = {} THEN DefaultTypes ELSE types
            reached == [dir \in Directions(mode) |-> Walks(root, limit, of, dir)]
            Depths(n) == {k \in 0..limit : \E dir \in Directions(mode) : n \in reached[dir][k]}
        IN /\ DOMAIN impact.nodes = {n \in Nodes : Depths(n) # {}}
           /\ \A n \in DOMAIN impact.nodes :
                impact.nodes[n] \in Depths(n) /\ \A k \in Depths(n) : impact.nodes[n] <= k
           /\ \A r \in relations, dir \in Directions(mode) :
                <<r.id, dir>> \in DOMAIN impact.edges <=>
                  r.type \in of /\ \E k \in 0..limit - 1 : Source(r, dir) \in reached[dir][k]
           /\ impact.services = {r.dst : r \in {r \in relations : r.type = "runs_service"
                                 /\ \E dir \in Directions(mode) : <<r.id, dir>> \in DOMAIN impact.edges}}
           /\ impact.owners = {r.dst : r \in {r \in relations : r.type = "owned_by"
                                 /\ \E dir \in Directions(mode) : <<r.id, dir>> \in DOMAIN impact.edges}}
=============================================================================
