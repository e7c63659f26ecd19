------------------------------ MODULE IfcImport ------------------------------
(***************************************************************************)
(* The import of a building model (app/ifc_import.py,                      *)
(* app/routers/ifc_import.py): what a file holds becomes proposals, and a  *)
(* proposal a person accepts is created by the same create_space and       *)
(* create_functional_location as what is typed in.                         *)
(***************************************************************************)
EXTENDS Spaces

CONSTANTS
    Candidates,     \* what the file holds, [type, within] of each:
    Held,           \* the element it stands in, NoNode for none
    NoNode, NoProposal

VARIABLES
    ifcBatch,          \* status of the batch
    imports,        \* NoProposal, or [status, node] of each candidate
    deciding        \* the candidate each request decides on, or NoNode

importVars == <<spaces, located, moves, writing, raced, ifcBatch, imports, deciding>>

Decisions == {"proposed", "accepted", "rejected"}

ProposalsRead == [status : Decisions, node : SpaceIds \cup Equipment \cup {NoNode}]
Rejections == [op : {"reject"}, id : Candidates]

(* An element stands in a space of the file, if in anything.               *)
ASSUME ImportAssumption ==
    /\ Held \in [Candidates -> [type : DOMAIN SPACE_TYPES \cup {"equipment"},
                               within : Candidates \cup {NoNode}]]
    /\ \A p \in Candidates :
          /\ Held[p].within # NoNode => Held[Held[p].within].type # "equipment"
          /\ Held[p].type # "equipment" => p \in SpaceCodes
    /\ Candidates \cap (SpaceIds \cup Equipment) = {}
    /\ NoNode \notin Candidates \cup SpaceIds \cup Equipment \cup {Site}
    /\ NoProposal \notin ProposalsRead /\ NoWrite \notin Rejections

(* ck_ifc_import_proposals_accepted_node.                                  *)
ImportTypeOK ==
    /\ SpaceTypeOK
    /\ ifcBatch \in {"none", "ready", "failed"}
    /\ imports \in [Candidates -> ProposalsRead \cup {NoProposal}]
    /\ \A p \in Candidates : imports[p] # NoProposal =>
          (imports[p].status = "accepted") = (imports[p].node # NoNode)
    /\ writing \in [SpaceCalls -> SpaceWrites \cup Rejections \cup {NoWrite}]
    /\ deciding \in [SpaceCalls -> Candidates \cup {NoNode}]

ImportInit ==
    /\ SpaceInit
    /\ ifcBatch = "none"
    /\ imports = [p \in Candidates |-> NoProposal]
    /\ deciding = [c \in SpaceCalls |-> NoNode]

-----------------------------------------------------------------------------
(* A file that cannot be read leaves a failed batch; another may be sent.  *)
create_ifc_import ==
    /\ ifcBatch # "ready"
    /\ \/ ifcBatch' = "failed" /\ UNCHANGED imports
       \/ /\ ifcBatch' = "ready"
          /\ imports' = [p \in Candidates |-> [status |-> "proposed", node |-> NoNode]]
    /\ UNCHANGED <<spaces, located, moves, writing, raced, deciding>>

(* _resolve_node_by_global_id: the node of an accepted proposal.           *)
NodeOfAnySpace(p) ==
    IF p = NoNode THEN NoNode
    ELSE IF imports[p].node = NoNode /\ \E s \in SpaceIds : IsOpen(s)
         THEN CHOOSE s \in SpaceIds : IsOpen(s) ELSE imports[p].node
NodeOf(p) == IF p = NoNode THEN NoNode ELSE imports[p].node

Proposed(p) == imports[p] # NoProposal /\ imports[p].status = "proposed"

_accept_space(c, p) ==
    LET parent == IF Held[p].type = "building" THEN Site ELSE NodeOf(Held[p].within) IN
    /\ parent # NoNode                          \* IFC_IMPORT_PARENT_NOT_ACCEPTED
    /\ \E s \in SpaceIds : create_space(c, s, parent, Held[p].type, p)

(* Where its space has no node, an equipment is created without a place.   *)
_accept_equipment(c, p) ==
    LET space == NodeOf(Held[p].within) IN
    \E e \in Equipment :
       CreateLocation(c, e, IF space = NoNode THEN Nowhere ELSE space)

accept_ifc_import_proposal(c, p) ==
    /\ Proposed(p)
    /\ IF Held[p].type = "equipment" THEN _accept_equipment(c, p) ELSE _accept_space(c, p)
    /\ deciding' = [deciding EXCEPT ![c] = p]
    /\ UNCHANGED <<ifcBatch, imports>>

reject_ifc_import_proposal(c, p) ==
    /\ Proposed(p)
    /\ Holds(c, [op |-> "reject", id |-> p])
    /\ deciding' = [deciding EXCEPT ![c] = p]
    /\ UNCHANGED <<ifcBatch, imports>>

(* The proposal is written by id with what it created: a second acceptance *)
(* of it gives it a second node, and may follow a rejection.               *)
AcceptCommit(c) ==
    /\ SpaceCommit(c)
    /\ imports' = IF deciding[c] = NoNode THEN imports
                  ELSE [imports EXCEPT ![deciding[c]] =
                          [status |-> "accepted", node |-> writing[c].id]]
    /\ deciding' = [deciding EXCEPT ![c] = NoNode]
    /\ UNCHANGED ifcBatch

(* A rejection that follows an acceptance is refused by the table.         *)
RejectCommit(c) ==
    /\ writing[c] # NoWrite /\ writing[c].op = "reject"
    /\ imports[deciding[c]].node = NoNode
    /\ imports' = [imports EXCEPT ![deciding[c]].status = "rejected"]
    /\ writing' = [writing EXCEPT ![c] = NoWrite]
    /\ deciding' = [deciding EXCEPT ![c] = NoNode]
    /\ UNCHANGED <<spaces, located, moves, raced, ifcBatch>>

ImportNext ==
    \/ create_ifc_import
    \/ \E c \in SpaceCalls :
          \/ SpaceCheck(c) /\ UNCHANGED <<ifcBatch, imports, deciding>>
          \/ \E p \in Candidates : accept_ifc_import_proposal(c, p) \/ reject_ifc_import_proposal(c, p)
          \/ AcceptCommit(c) \/ RejectCommit(c)
          \/ /\ SpaceRollback(c)
             /\ deciding' = [deciding EXCEPT ![c] = NoNode]
             /\ UNCHANGED <<ifcBatch, imports>>

ImportSpec == ImportInit /\ [][ImportNext]_importVars

-----------------------------------------------------------------------------
(* What is still open of an import stands where the model of the building  *)
(* puts it: under the node its parent was accepted as, whatever was closed *)
(* and decided twice meanwhile ("la hiérarchie s'accepte du haut vers le   *)
(* bas").  Excepted, what a request that overlapped a closing put there.   *)
ImportedUnderParent ==
    \A p \in Candidates : imports[p] # NoProposal /\ imports[p].node \in SpaceIds =>
       LET row == spaces[imports[p].node]
           above == Held[p].within
       IN row.open /\ Held[p].type # "building" /\ row.parent \notin raced =>
             /\ imports[above] # NoProposal
             /\ row.parent = imports[above].node

(* The registry of a building stays coherent, whatever is typed in,        *)
(* imported, moved and closed at the same time.                            *)
TreeConsistent == SettledSpaces /\ ImportedUnderParent

(* Not so: an equipment whose space the import has not created is refused  *)
(* ("jamais approximée", ifc_import.py:18-22).  It is created without a    *)
(* place, and stays so while nobody moves it.                              *)
EquipmentInItsSpace ==
    \A p \in Candidates :
       /\ imports[p] # NoProposal /\ imports[p].node \in Equipment
       /\ moves[imports[p].node] = {}
       => Held[p].within = NoNode
=============================================================================
