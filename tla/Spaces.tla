-------------------------------- MODULE Spaces --------------------------------
(***************************************************************************)
(* The tree of the spaces of a site and where its equipment stands         *)
(* (app/spatial.py, app/spatial_vocabulary.py, app/routers/spatial.py,     *)
(* create_functional_location of app/assets.py).                           *)
(*                                                                         *)
(* A request reads what has committed, then writes by id and commits: one  *)
(* step for its checks, one for its commit.  Names are left out.           *)
(***************************************************************************)
EXTENDS Naturals, FiniteSets, FiniteSetsExt

CONSTANTS
    SpaceIds, Equipment, SpaceCodes,
    CodesTyped,     \* bound: codes a person gives
    SpaceCalls,     \* requests that may be open at once
    MoveDates,      \* dates a person may give to a move
    TypesUsed,      \* bound: types of space that are created
    Site, Nowhere, Uncreated, NoSpace, NoWrite

VARIABLES
    spaces,         \* NoSpace, or the row of a space
    located,        \* space_id of each equipment, Uncreated before its row
    moves,          \* functional_location_space_history of each equipment
    writing,        \* what each open request is about to write
    raced           \* history: spaces and equipment of requests that overlapped

spaceVars == <<spaces, located, moves, writing, raced>>

(* The types of parent of each type of space, Site for none.               *)
SPACE_TYPES ==
    [building |-> {Site}, floor |-> {"building"}, zone |-> {"building", "floor"},
     room |-> {"floor", "zone"}, outdoor_area |-> {Site}]

SpaceRows == [parent : SpaceIds \cup {Site}, type : DOMAIN SPACE_TYPES, code : SpaceCodes,
              open : BOOLEAN]

(* What a request writes: a row to create, to close or to move.            *)
PlacesOfEquipment == [at : MoveDates, to : SpaceIds \cup {Nowhere}]
SpaceWrites ==
    [op : {"create"}, id : SpaceIds, parent : SpaceIds \cup {Site},
     type : DOMAIN SPACE_TYPES, code : SpaceCodes]
    \cup [op : {"equip", "move"}, id : Equipment, to : SpaceIds \cup {Nowhere}, at : MoveDates]
    \cup [op : {"close"}, id : SpaceIds]

ASSUME SpaceAssumption ==
    /\ SpaceIds \cap Equipment = {} /\ CodesTyped \subseteq SpaceCodes
    /\ TypesUsed \subseteq DOMAIN SPACE_TYPES
    /\ MoveDates \subseteq Nat /\ MoveDates # {}
    /\ {Site, Nowhere, Uncreated} \cap SpaceIds = {} /\ Nowhere # Uncreated
    /\ NoSpace \notin SpaceRows /\ NoWrite \notin SpaceWrites

SpaceTypeOK ==
    /\ spaces \in [SpaceIds -> SpaceRows \cup {NoSpace}]
    /\ \A s \in SpaceIds : spaces[s] # NoSpace =>
          IF spaces[s].parent = Site THEN Site \in SPACE_TYPES[spaces[s].type]
          ELSE spaces[spaces[s].parent].type \in SPACE_TYPES[spaces[s].type]
    /\ located \in [Equipment -> SpaceIds \cup {Nowhere, Uncreated}]
    /\ moves \in [Equipment -> SUBSET PlacesOfEquipment]
    /\ raced \subseteq SpaceIds \cup Equipment

SpaceInit ==
    /\ spaces = [s \in SpaceIds |-> NoSpace]
    /\ located = [e \in Equipment |-> Uncreated]
    /\ moves = [e \in Equipment |-> {}]
    /\ writing = [c \in SpaceCalls |-> NoWrite]
    /\ raced = {}

-----------------------------------------------------------------------------
IsOpen(s) == spaces[s] # NoSpace /\ spaces[s].open
OpenChildren(s) == {t \in SpaceIds : IsOpen(t) /\ spaces[t].parent = s}
LocatedIn(s) == {e \in Equipment : located[e] = s}

Holds(c, what) == /\ writing[c] = NoWrite
                  /\ writing' = [writing EXCEPT ![c] = what]
                  /\ UNCHANGED <<spaces, located, moves, raced>>

(* check_space_placement, under an open parent or directly under the site. *)
check_space_placement(type, parent) ==
    IF parent = Site THEN Site \in SPACE_TYPES[type]
    ELSE IsOpen(parent) /\ spaces[parent].type \in SPACE_TYPES[type]

(* SPACE_CODE_ALREADY_USED at the check, uq_spaces_open_code at the commit. *)
CodeFree(code) == \A s \in SpaceIds : IsOpen(s) => spaces[s].code # code

(* A new identifier, the least that no row and no open request has.        *)
Unused(id) == /\ id \in SpaceIds => spaces[id] = NoSpace
              /\ id \in Equipment => located[id] = Uncreated
              /\ \A d \in SpaceCalls : writing[d] # NoWrite => writing[d].id # id
New(id, ids) == Unused(id) /\ \A o \in ids : o < id => ~Unused(o)

create_space(c, s, parent, type, code) ==
    /\ New(s, SpaceIds)
    /\ check_space_placement(type, parent) /\ CodeFree(code)
    /\ Holds(c, [op |-> "create", id |-> s, parent |-> parent, type |-> type, code |-> code])

(* An equipment may come with its first place (check_space_for_location).  *)
CreateLocation(c, e, to) ==
    /\ New(e, Equipment)
    /\ to # Nowhere => IsOpen(to)
    /\ Holds(c, [op |-> "equip", id |-> e, to |-> to, at |-> Min(MoveDates)])

(* close_space is refused while the space holds something.                 *)
Empty(s) == OpenChildren(s) = {} /\ LocatedIn(s) = {}

close_space(c, s) ==
    /\ IsOpen(s) /\ Empty(s)
    /\ Holds(c, [op |-> "close", id |-> s])

(* record_location_space: another space, after the last move.              *)
Later(e, at) == \A m \in moves[e] : m.at < at

record_location_space(c, e, to, at) ==
    /\ located[e] # Uncreated /\ to # located[e]
    /\ to # Nowhere => IsOpen(to)
    /\ Later(e, at)
    /\ Holds(c, [op |-> "move", id |-> e, to |-> to, at |-> at])

-----------------------------------------------------------------------------
(* Two requests overlap on a space that one closes and the other fills, or *)
(* on an equipment that both move.                                         *)
Fills(r) == IF r.op = "create" THEN {r.parent}
            ELSE IF r.op \in {"equip", "move"} THEN {r.to} ELSE {}
Closes(r) == IF r.op = "close" THEN {r.id} ELSE {}
Moves(r) == IF r.op = "move" THEN {r.id} ELSE {}

Shared(r, o) == (Fills(r) \cap Closes(o)) \cup (Closes(r) \cap Fills(o))
                \cup (Moves(r) \cap Moves(o))

UniqueCode(code) == CodeFree(code)

SpaceCommit(c) ==
    LET r == writing[c]
        others == {writing[d] : d \in {d \in SpaceCalls \ {c} : writing[d] # NoWrite}}
    IN
    /\ r # NoWrite
    /\ writing' = [writing EXCEPT ![c] = NoWrite]
    /\ raced' = raced \cup UNION {Shared(r, o) : o \in others}
    /\ \/ /\ r.op = "create" /\ UniqueCode(r.code)
          /\ spaces' = [spaces EXCEPT ![r.id] =
                [parent |-> r.parent, type |-> r.type, code |-> r.code, open |-> TRUE]]
          /\ UNCHANGED <<located, moves>>
       \/ /\ r.op = "close" /\ spaces[r.id].open    \* protect_space_structure
          /\ spaces' = [spaces EXCEPT ![r.id].open = FALSE]
          /\ UNCHANGED <<located, moves>>
       \/ /\ r.op \in {"equip", "move"}
          /\ located' = [located EXCEPT ![r.id] = r.to]
          /\ moves' = IF r.op = "equip" /\ r.to = Nowhere THEN moves
                      ELSE [moves EXCEPT ![r.id] = @ \cup {[at |-> r.at, to |-> r.to]}]
          /\ UNCHANGED spaces

(* A lost connection, or the refusal of the trigger.                       *)
SpaceRollback(c) ==
    /\ writing[c] # NoWrite
    /\ writing' = [writing EXCEPT ![c] = NoWrite]
    /\ UNCHANGED <<spaces, located, moves, raced>>

SpaceCheck(c) ==
    \/ \E s \in SpaceIds, parent \in SpaceIds \cup {Site}, type \in TypesUsed, code \in CodesTyped :
          create_space(c, s, parent, type, code)
    \/ \E e \in Equipment, to \in SpaceIds \cup {Nowhere} :
          \/ CreateLocation(c, e, to)
          \/ \E at \in MoveDates : record_location_space(c, e, to, at)
    \/ \E s \in SpaceIds : close_space(c, s)

-----------------------------------------------------------------------------
(* A closed space holds nothing but what a request that overlapped its     *)
(* closing put there (close_space: "refusé tant qu'il contient encore      *)
(* quelque chose"), and the place of an equipment is the last one of its   *)
(* history ("la valeur courante est mise à jour pour la lecture rapide")   *)
(* unless two moves of it overlapped.                                      *)
SettledSpaces ==
    /\ \A s \in SpaceIds \ raced : spaces[s] # NoSpace /\ ~spaces[s].open =>
          OpenChildren(s) = {} /\ LocatedIn(s) = {}
    /\ \A e \in Equipment \ raced : moves[e] # {} =>
          \E m \in moves[e] : m.to = located[e] /\ m.at = Max({n.at : n \in moves[e]})
=============================================================================
