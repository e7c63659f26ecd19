------------------------------ MODULE AssetGraph ------------------------------
(* app/graph.py, app/graph_vocabulary.py and app/impact_analysis.py: typed    *)
(* relations between nodes, which people create and end, and the walk that    *)
(* looks for all that depends on a node, one statement per node, while they   *)
(* do. A relation of the routes is validated from the start.                  *)
EXTENDS Naturals, Sequences, FiniteSets

CONSTANTS
    Nodes,          \* nodes of the registry
    NodeType,       \* the type of each
    Failed,         \* the node whose dependents are looked for
    Predicates,     \* the predicates that are used, all of the vocabulary
    Pairs,          \* bound: the pairs of nodes that people relate
    GraphCalls,     \* requests that write relations
    MaxRelations,   \* bound: relations ever created
    NoRelation,     \* no row
    NoRead          \* a request that has read nothing yet

VARIABLES
    relations,      \* the rows: [subject, predicate, object, open]
    graphCall,      \* what each open request has read
    walk,           \* the walk: [state, frontier, next, visited]
    throughout,     \* history: rows open ever since the walk began
    sometime        \* history: rows open at some time since it began

graphVars == <<relations, graphCall, walk, throughout, sometime>>

EquipmentType == {"functional_location"}
EquipmentOrSpaceType == {"functional_location", "space"}

(* The predicates that may be stored, with the types of their two ends. *)
PREDICATES ==
    [feeds |-> [subjects |-> EquipmentType, objects |-> EquipmentOrSpaceType],
     poweredBy |-> [subjects |-> EquipmentType, objects |-> EquipmentType],
     measuredBy |-> [subjects |-> EquipmentOrSpaceType,
                     objects |-> {"functional_location", "point"}],
     controlledBy |-> [subjects |-> EquipmentType, objects |-> EquipmentType],
     connectedTo |-> [subjects |-> EquipmentType, objects |-> EquipmentType],
     servedBy |-> [subjects |-> {"space"}, objects |-> {"space"}],
     maintainedBy |-> [subjects |-> EquipmentOrSpaceType \cup {"site", "physical_unit"},
                       objects |-> {"provider"}],
     dependsOn |-> [subjects |-> EquipmentOrSpaceType \cup {"site"},
                    objects |-> EquipmentOrSpaceType \cup {"site"}],
     protectedBy |-> [subjects |-> EquipmentOrSpaceType, objects |-> EquipmentType]]

symmetric(p) == p = "connectedTo"

check_storable_relation(s, p, o) ==
    /\ NodeType[s] \in PREDICATES[p].subjects
    /\ NodeType[o] \in PREDICATES[p].objects

OpenRows == {i \in DOMAIN relations : relations[i].open}

_open_relation_exists(s, p, o) ==
    \E i \in OpenRows : /\ relations[i].subject = s
                        /\ relations[i].predicate = p
                        /\ relations[i].object = o

(* A row, and what a request has read: that it may insert, or whom to close. *)
RelationRows == [subject : Nodes, predicate : Predicates, object : Nodes, open : BOOLEAN]
GraphReads ==
    [id : {NoRelation}, subject : Nodes, predicate : Predicates, object : Nodes]
    \cup [id : 1..MaxRelations]

ASSUME GraphAssumption ==
    /\ Failed \in Nodes /\ Pairs \subseteq Nodes \X Nodes /\ MaxRelations \in Nat
    /\ NoRelation \notin 1..MaxRelations /\ NoRead \notin GraphReads

GraphTypeOK ==
    /\ relations \in Seq(RelationRows) /\ Len(relations) <= MaxRelations
    /\ graphCall \in [GraphCalls -> GraphReads \cup {NoRead}]
    /\ \A c \in GraphCalls :
          graphCall[c] # NoRead /\ graphCall[c].id # NoRelation => graphCall[c].id \in DOMAIN relations
    /\ \A i, j \in OpenRows :
          /\ relations[i].subject = relations[j].subject
          /\ relations[i].predicate = relations[j].predicate
          /\ relations[i].object = relations[j].object
          => i = j
    /\ walk \in [state : {"none", "walking", "done"}, frontier : SUBSET Nodes,
                 next : SUBSET Nodes, visited : SUBSET Nodes]
    /\ throughout \subseteq sometime /\ sometime \subseteq DOMAIN relations

GraphInit ==
    /\ relations = <<>>
    /\ graphCall = [c \in GraphCalls |-> NoRead]
    /\ walk = [state |-> "none", frontier |-> {}, next |-> {}, visited |-> {}]
    /\ throughout = {} /\ sometime = {}

(* What the walk could have seen, after a change of the rows. *)
Watched(open) ==
    IF walk.state = "walking"
    THEN throughout' = throughout \cap open /\ sometime' = sometime \cup open
    ELSE UNCHANGED <<throughout, sometime>>

-----------------------------------------------------------------------------
(* create_relation: the nodes, the vocabulary and the open relations are read *)
(* (both directions of a symmetric predicate), then the row is inserted.      *)
create_relation(c, s, p, o) ==
    /\ graphCall[c] = NoRead
    /\ s # o
    /\ check_storable_relation(s, p, o)
    /\ ~_open_relation_exists(s, p, o)
    /\ symmetric(p) => ~_open_relation_exists(o, p, s)
    /\ graphCall' = [graphCall EXCEPT ![c] =
                        [id |-> NoRelation, subject |-> s, predicate |-> p, object |-> o]]
    /\ UNCHANGED <<relations, walk, throughout, sometime>>

(* The index of open relations, which knows one direction only. *)
uq_relations_open(s, p, o) == ~_open_relation_exists(s, p, o)

InsertRelation(c) ==
    /\ graphCall[c] # NoRead
    /\ graphCall[c].id = NoRelation
    /\ graphCall' = [graphCall EXCEPT ![c] = NoRead]
    /\ LET new == graphCall[c]
       IN  IF uq_relations_open(new.subject, new.predicate, new.object)
           THEN /\ Len(relations) < MaxRelations
                /\ relations' = Append(relations, [subject |-> new.subject,
                                                   predicate |-> new.predicate,
                                                   object |-> new.object, open |-> TRUE])
                /\ Watched(OpenRows \cup {Len(relations) + 1})
           ELSE UNCHANGED <<relations, throughout, sometime>>
    /\ UNCHANGED walk

(* end_relation: the row is read open, then closed by its identifier. *)
end_relation(c, i) ==
    /\ graphCall[c] = NoRead
    /\ i \in OpenRows
    /\ graphCall' = [graphCall EXCEPT ![c] = [id |-> i]]
    /\ UNCHANGED <<relations, walk, throughout, sometime>>

(* The trigger refuses to close a row again at another date; at the same date *)
(* the row does not change. Either way it stays as it was closed first.       *)
CloseRelation(c) ==
    /\ graphCall[c] # NoRead
    /\ graphCall[c].id # NoRelation
    /\ graphCall' = [graphCall EXCEPT ![c] = NoRead]
    /\ relations' = [relations EXCEPT ![graphCall[c].id].open = FALSE]
    /\ Watched(OpenRows \ {graphCall[c].id})
    /\ UNCHANGED walk

-----------------------------------------------------------------------------
(* What depends on one node at the instant of its statement. *)
dependents(n) ==
    {relations[i].subject : i \in {j \in OpenRows :
        relations[j].predicate = "dependsOn" /\ relations[j].object = n}}

find_dependents ==
    /\ walk.state = "none"
    /\ walk' = [state |-> "walking", frontier |-> {Failed}, next |-> {}, visited |-> {}]
    /\ throughout' = OpenRows /\ sometime' = OpenRows
    /\ UNCHANGED <<relations, graphCall>>

(* One node of the frontier: what depends on it and was not visited is for    *)
(* the next level, which begins when this one is empty. The node looked for   *)
(* is not counted as visited: a cycle brings it back as one of its dependents.*)
Visit(n) ==
    /\ walk.state = "walking" /\ n \in walk.frontier
    /\ LET left == walk.frontier \ {n}
           next == walk.next \cup (dependents(n) \ walk.visited)
       IN  walk' =
             [visited |-> walk.visited \cup dependents(n),
              frontier |-> IF left = {} THEN next ELSE left,
              next |-> IF left = {} THEN {} ELSE next,
              state |-> IF left = {} /\ next = {} THEN "done" ELSE "walking"]
    /\ UNCHANGED <<relations, graphCall, throughout, sometime>>

GraphNext ==
    \/ \E c \in GraphCalls : \E pair \in Pairs : \E p \in Predicates :
          create_relation(c, pair[1], p, pair[2])
    \/ \E c \in GraphCalls : InsertRelation(c) \/ CloseRelation(c)
    \/ \E c \in GraphCalls : \E i \in DOMAIN relations : end_relation(c, i)
    \/ find_dependents
    \/ \E n \in Nodes : Visit(n)

GraphSpec == GraphInit /\ [][GraphNext]_graphVars

-----------------------------------------------------------------------------
(* What depends on node n, at any distance, by the relations of rows: the     *)
(* least set that has the dependents of n and those of its members.           *)
DependOn(rows, n) ==
    LET Closed(S) == \A i \in rows :
            /\ relations[i].predicate = "dependsOn"
            /\ relations[i].object = n \/ relations[i].object \in S
            => relations[i].subject \in S
    IN  {m \in Nodes : \A S \in SUBSET Nodes : Closed(S) => m \in S}

(* The walk reads one node after the other, and relations change meanwhile:   *)
(* it still finds all that depended on the node the whole time (a cycle does  *)
(* not stop it early), and nothing that did not at any time.                  *)
WalkFaithful ==
    walk.state = "done" =>
        /\ DependOn(throughout, Failed) \subseteq walk.visited
        /\ walk.visited \subseteq DependOn(sometime, Failed)
===============================================================================
