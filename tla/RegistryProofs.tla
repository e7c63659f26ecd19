---------------------------- MODULE RegistryProofs ----------------------------
(***************************************************************************)
(* Proofs about the registry of a site for any equipment, places, units    *)
(* and any number of overlapping requests: the archiving of a site, the    *)
(* placement of physical units, the records and the files kept beside      *)
(* them, the edge devices, the relations, the tree of the spaces and what  *)
(* is imported into it, and the migrations that rewrite its rows.          *)
(***************************************************************************)
EXTENDS Archiving, Placement, AssetRecords, EdgeDevices, Filing, AssetGraph, IfcImport,
        Migrations, FiniteSetTheorems, SequenceTheorems, WellFoundedInduction, TLAPS

-----------------------------------------------------------------------------
(* Archiving.                                                              *)

(* A request that is about to make an equipment active, having found that  *)
(* the site was not archived, still holds the lock that keeps it so.       *)
WillActivate(q) == q.op = "create" \/ (q.op = "restore" /\ q.was)
ShareInv ==
    \A c \in ArchiveCalls : call[c] # Idle /\ WillActivate(call[c]) => ~archived

ArchInv == ArchTypeOK /\ ShareInv /\ ActiveOnArchivedIsStray

-----------------------------------------------------------------------------
(* Placement.                                                              *)

RowsOf(u) == {r \in assignments : r.unit = u}

(* A place has one open row at most; a unit that no two overlapping        *)
(* requests shared is mounted and in one row, or neither.                  *)
OneRowAPlace == \A r, s \in assignments : r.place = s.place => r = s
MountedInOneRow ==
    \A u \in Units \ disturbed :
        IF lifecycle[u] \in MOUNTED_STATES THEN \E r \in assignments : RowsOf(u) = {r}
        ELSE RowsOf(u) = {}

(* A request that has replaced the occupant of a place is alone to have    *)
(* done so, and closes the row that is there.                              *)
ReplacesInv ==
    /\ \A c \in PlaceCalls :
          /\ placing[c] # NoCall /\ placing[c].op = "assign" /\ placing[c].changed
          => placing[c].closes = AtPlace(placing[c].place)
    /\ \A c, d \in PlaceCalls :
          /\ placing[c] # NoCall /\ placing[c].op = "assign" /\ placing[c].changed
          /\ placing[d] # NoCall /\ placing[d].op = "assign" /\ placing[d].changed
          /\ placing[c].place = placing[d].place
          => c = d

(* What a request has read of a unit is still true, unless another request *)
(* disturbed that unit.                                                    *)
After(stage) ==
    CASE stage = "looked" -> {"looked", "checked", "changed", "removing", "removed",
                              "writing", "written"}
      [] stage = "checked" -> {"checked", "changed", "removing", "removed", "writing",
                               "written"}
      [] stage = "changed" -> {"changed", "removing", "removed", "writing", "written"}
      [] OTHER -> {"removed", "writing", "written"}
ReadsUnit(t) ==
    t.unit \notin disturbed =>
        IF t.op = "change"
        THEN t.to \in MOUNTED_STATES <=> lifecycle[t.unit] \in MOUNTED_STATES
        ELSE t.stage \in After("checked") => lifecycle[t.unit] \in INSTALLABLE_STATES
ReadsPlace(t) ==
    /\ t.previous # t.unit
    /\ \A r \in AtPlace(t.place) : r.unit = t.previous \/ r.unit \in disturbed
    /\ t.previous # NoUnit /\ t.previous \notin disturbed =>
          /\ [place |-> t.place, unit |-> t.previous] \in assignments
          /\ t.stage \in After("removed") => t.previous \in t.wrote
    /\ t.stage \in After("changed") => t.changed
    /\ t.stage = "removing" => t.previous # NoUnit
ReadsInv ==
    \A c \in PlaceCalls : placing[c] # NoCall =>
        /\ placing[c].wrote \subseteq UnitsOf(placing[c])
        /\ ReadsUnit(placing[c])
        /\ placing[c].op = "assign" => ReadsPlace(placing[c])
        /\ placing[c].op = "change" => placing[c].stage \in {"writing", "written"}

PlaceInv == PlaceTypeOK /\ OneRowAPlace /\ MountedInOneRow /\ ReplacesInv /\ ReadsInv

-----------------------------------------------------------------------------
LEMMA ArchInitInv == ArchInit => ArchInv
  BY DEF ArchInit, ArchInv, ArchTypeOK, ShareInv, ActiveOnArchivedIsStray

(* A step changes the requests only, or is the last statement of one.      *)
LEMMA ArchCallStep == ArchInv /\ [ArchNext]_archVars => ArchTypeOK'
  <1> SUFFICES ASSUME ArchInv, [ArchNext]_archVars PROVE ArchTypeOK'
    OBVIOUS
  <1> USE DEF ArchInv, ArchTypeOK, ArchRequests, CallGoes, Ends
  <1>1. ASSUME NEW c \in ArchiveCalls, archive_site(c) \/ unarchive_site(c)
        PROVE  ArchTypeOK'
    <2>1. PICK op \in {"archive_site", "unarchive_site"}, matches \in BOOLEAN :
             UpdateSite(c, op, matches)
      BY <1>1 DEF archive_site, unarchive_site
    <2>2. CASE matches
      <3>1. \A d \in ArchiveCalls : d # c /\ call[d] # Idle => call[d].lock = "none"
        BY <2>1, <2>2 DEF UpdateSite, LocksOfOthers
      <3>2. call' = [call EXCEPT ![c] = [op |-> op, lock |-> "update"]]
        BY <2>1, <2>2 DEF UpdateSite
      <3>3. UNCHANGED <<archived, status, stray>>
        BY <2>1 DEF UpdateSite
      <3>4. QED
        BY <3>1, <3>2, <3>3
    <2>3. CASE ~matches
      <3>1. call' = [call EXCEPT ![c] = [op |-> op, lock |-> "none"]]
            /\ UNCHANGED <<archived, status, stray>>
        BY <2>1, <2>3 DEF UpdateSite
      <3>2. QED
        BY <3>1
    <2>4. QED
      BY <2>2, <2>3
  <1>2. ASSUME NEW c \in ArchiveCalls, NEW l \in Locations, LocationRoutes(c, l)
        PROVE  ArchTypeOK'
    <2>1. CASE archive_functional_location(c, l)
      BY <2>1 DEF archive_functional_location
    <2>2. CASE unarchive_functional_location(c, l)
      BY <2>2 DEF unarchive_functional_location
    <2>3. CASE create_functional_location(c, l)
      <3>1. \A d \in ArchiveCalls : d # c /\ call[d] # Idle => call[d].lock # "update"
        BY <2>3 DEF create_functional_location, ForShare, LocksOfOthers
      <3>2. call' = [call EXCEPT ![c] = [op |-> "create", l |-> l, lock |-> "share"]]
            /\ UNCHANGED <<archived, status, stray>>
        BY <2>3 DEF create_functional_location
      <3>3. QED
        BY <3>1, <3>2
    <2>4. QED
      BY <1>2, <2>1, <2>2, <2>3 DEF LocationRoutes
  <1>3. ASSUME NEW c \in ArchiveCalls, call[c] # Idle, LockSite(c)
        PROVE  ArchTypeOK'
    <2>1. \A d \in ArchiveCalls : d # c /\ call[d] # Idle => call[d].lock # "update"
      BY <1>3 DEF LockSite, ForShare, LocksOfOthers
    <2>2. call[c] \in [op : {"look"}, l : Locations, was : BOOLEAN, lock : {"none"}]
      BY <1>3 DEF LockSite
    <2>3. [call[c] EXCEPT !.op = "restore", !.lock = "share"]
             \in [op : {"restore"}, l : Locations, was : BOOLEAN, lock : {"share"}]
      BY <2>2
    <2>4. CASE call[c].was /\ archived
      BY <1>3, <2>4 DEF LockSite
    <2>5. CASE ~(call[c].was /\ archived)
      <3>1. call' = [call EXCEPT ![c] = [call[c] EXCEPT !.op = "restore", !.lock = "share"]]
            /\ UNCHANGED <<archived, status, stray>>
        BY <1>3, <2>5 DEF LockSite
      <3>2. QED
        BY <2>1, <2>3, <3>1
    <2>6. QED
      BY <2>4, <2>5
  <1>4. ASSUME NEW c \in ArchiveCalls, call[c] # Idle,
               ArchiveEquipment(c) \/ RestoreEquipment(c) \/ KeepArchived(c) \/ RestoreOne(c)
                 \/ InsertLocation(c)
        PROVE  ArchTypeOK'
    <2>1. call' = [call EXCEPT ![c] = Idle]
      BY <1>4 DEF ArchiveEquipment, RestoreEquipment, KeepArchived, RestoreOne, InsertLocation
    <2>2. archived' \in BOOLEAN
      BY <1>4 DEF ArchiveEquipment, RestoreEquipment, KeepArchived, RestoreOne, InsertLocation
    <2>3. status' \in [Locations -> {"none", "active", "by_hand", "with_site"}]
      BY <1>4 DEF ArchiveEquipment, RestoreEquipment, KeepArchived, RestoreOne, InsertLocation
    <2>4. stray' \subseteq Locations
      BY <1>4 DEF ArchiveEquipment, RestoreEquipment, KeepArchived, RestoreOne, InsertLocation
    <2>5. QED
      BY <2>1, <2>2, <2>3, <2>4
  <1>5. CASE UNCHANGED archVars
    BY <1>5 DEF archVars
  <1>6. QED
    BY <1>1, <1>2, <1>3, <1>4, <1>5 DEF ArchNext, SiteRoutes

(* The site is archived by the holder of its lock only, so that nobody     *)
(* holds it to make an equipment active then.                              *)
LEMMA ShareStep == ArchInv /\ [ArchNext]_archVars => ShareInv'
  <1> SUFFICES ASSUME ArchInv, [ArchNext]_archVars,
                      NEW d \in ArchiveCalls, call'[d] # Idle, WillActivate(call'[d])
               PROVE  ~archived'
    BY DEF ShareInv
  <1> USE DEF ArchInv, ArchTypeOK, ShareInv, CallGoes, Ends, WillActivate
  <1>1. ASSUME NEW c \in ArchiveCalls, archive_site(c) \/ unarchive_site(c)
        PROVE  ~archived'
    BY <1>1 DEF archive_site, unarchive_site, UpdateSite
  <1>2. ASSUME NEW c \in ArchiveCalls, NEW l \in Locations, LocationRoutes(c, l)
        PROVE  ~archived'
    BY <1>2 DEF LocationRoutes, archive_functional_location, unarchive_functional_location,
                create_functional_location
  <1>3. ASSUME NEW c \in ArchiveCalls, call[c] # Idle, LockSite(c)
        PROVE  ~archived'
    <2>1. call[c] \in [op : {"look"}, l : Locations, was : BOOLEAN, lock : {"none"}]
      BY <1>3 DEF LockSite, ArchRequests
    <2>2. archived' = archived /\ (d # c => call'[d] = call[d])
      BY <1>3 DEF LockSite
    <2>3. CASE d = c
      <3>1. call'[c] = [call[c] EXCEPT !.op = "restore", !.lock = "share"]
            /\ ~(call[c].was /\ archived)
        BY <1>3, <2>3 DEF LockSite
      <3>2. call'[c].was = call[c].was /\ call'[c].op = "restore"
        BY <2>1, <3>1
      <3>3. QED
        BY <2>2, <2>3, <3>1, <3>2
    <2>4. CASE d # c
      BY <2>2, <2>4
    <2>5. QED
      BY <2>3, <2>4
  <1>4. ASSUME NEW c \in ArchiveCalls, call[c] # Idle, ArchiveEquipment(c)
        PROVE  ~archived'
    <2>1. d # c /\ call'[d] = call[d]
      BY <1>4 DEF ArchiveEquipment
    <2>2. call[d].lock = "share"
      BY <2>1 DEF ArchRequests
    <2>3. call[c].lock # "update"
      BY <1>4, <2>1, <2>2
    <2>4. QED
      BY <1>4, <2>1, <2>3 DEF ArchiveEquipment
  <1>5. ASSUME NEW c \in ArchiveCalls, call[c] # Idle,
               RestoreEquipment(c) \/ KeepArchived(c) \/ RestoreOne(c) \/ InsertLocation(c)
        PROVE  ~archived'
    <2>1. call'[d] = call[d]
      BY <1>5 DEF RestoreEquipment, KeepArchived, RestoreOne, InsertLocation
    <2>2. archived' => archived
      BY <1>5 DEF RestoreEquipment, KeepArchived, RestoreOne, InsertLocation
    <2>3. QED
      BY <2>1, <2>2
  <1>6. CASE UNCHANGED archVars
    BY <1>6 DEF archVars
  <1>7. QED
    BY <1>1, <1>2, <1>3, <1>4, <1>5, <1>6 DEF ArchNext, SiteRoutes

LEMMA StrayStep == ArchInv /\ [ArchNext]_archVars => ActiveOnArchivedIsStray'
  <1> SUFFICES ASSUME ArchInv, [ArchNext]_archVars PROVE ActiveOnArchivedIsStray'
    OBVIOUS
  <1> USE DEF ArchInv, ArchTypeOK, ActiveOnArchivedIsStray, CallGoes, Ends
  <1>1. ASSUME NEW c \in ArchiveCalls,
               archive_site(c) \/ unarchive_site(c) \/ LockSite(c)
        PROVE  ActiveOnArchivedIsStray'
    BY <1>1 DEF archive_site, unarchive_site, UpdateSite, LockSite
  <1>2. ASSUME NEW c \in ArchiveCalls, NEW l \in Locations, LocationRoutes(c, l)
        PROVE  ActiveOnArchivedIsStray'
    BY <1>2 DEF LocationRoutes, archive_functional_location, unarchive_functional_location,
                create_functional_location
  <1>3. ASSUME NEW c \in ArchiveCalls, call[c] # Idle, ArchiveEquipment(c) \/ KeepArchived(c)
        PROVE  ActiveOnArchivedIsStray'
    BY <1>3 DEF ArchiveEquipment, KeepArchived
  <1>4. ASSUME NEW c \in ArchiveCalls, call[c] # Idle, RestoreEquipment(c)
        PROVE  ActiveOnArchivedIsStray'
    <2>1. call[c].lock \in {"none", "update"}
      BY <1>4 DEF RestoreEquipment, ArchRequests
    <2>2. CASE call[c].lock = "update"
      BY <1>4, <2>2 DEF RestoreEquipment
    <2>3. CASE call[c].lock = "none"
      BY <1>4, <2>3 DEF RestoreEquipment
    <2>4. QED
      BY <2>1, <2>2, <2>3
  <1>5. ASSUME NEW c \in ArchiveCalls, call[c] # Idle, RestoreOne(c) \/ InsertLocation(c)
        PROVE  ActiveOnArchivedIsStray'
    BY <1>5 DEF RestoreOne, InsertLocation, ShareInv, WillActivate
  <1>6. CASE UNCHANGED archVars
    BY <1>6 DEF archVars
  <1>7. QED
    BY <1>1, <1>2, <1>3, <1>4, <1>5, <1>6 DEF ArchNext, SiteRoutes

LEMMA ArchInvariant == ArchSpec => []ArchInv
  <1>1. ArchInv /\ [ArchNext]_archVars => ArchInv'
    BY ArchCallStep, ShareStep, StrayStep DEF ArchInv
  <1>2. QED
    BY <1>1, ArchInitInv, PTL DEF ArchSpec

(* Every reachable state of a site, its equipment and its requests is well *)
(* typed, and whoever updates the site is alone to hold it.                *)
THEOREM ArchTypeCorrect == ArchSpec => []ArchTypeOK
  <1>1. ArchInv => ArchTypeOK
    BY DEF ArchInv
  <1>2. QED
    BY <1>1, ArchInvariant, PTL

(* Neither a creation nor an unarchive that found something to restore     *)
(* slips past the archiving of its site: what is active on an archived     *)
(* site was put back by a repeated unarchive.                              *)
THEOREM ActiveOnArchivedIsStrayHolds == ArchSpec => []ActiveOnArchivedIsStray
  <1>1. ArchInv => ActiveOnArchivedIsStray
    BY DEF ArchInv
  <1>2. QED
    BY <1>1, ArchInvariant, PTL

-----------------------------------------------------------------------------
(* The table of transitions: what can be declared neither mounts a unit    *)
(* nor takes it down (lifecycle.py, ASSIGNMENT_STATES).                    *)
LEMMA Transitions ==
  /\ \A s \in STATES : TRANSITIONS[s] \subseteq STATES
  /\ \A s \in STATES : \A to \in Declarable \cap TRANSITIONS[s] :
        to \in MOUNTED_STATES <=> s \in MOUNTED_STATES
  /\ "installed" \in STATES /\ "installed" \in MOUNTED_STATES
  /\ "removed" \in STATES /\ "removed" \notin MOUNTED_STATES
  /\ INSTALLABLE_STATES \cap MOUNTED_STATES = {}
  /\ "planned" \in STATES /\ "planned" \notin MOUNTED_STATES
  <1>1. STATES = {"planned", "ordered", "in_stock", "installed", "commissioned", "in_service",
                  "out_of_service", "removed", "decommissioned", "disposed"}
    BY DEF STATES, TRANSITIONS
  <1>2. /\ TRANSITIONS["planned"] = {"ordered", "in_stock"}
        /\ TRANSITIONS["ordered"] = {"in_stock"}
        /\ TRANSITIONS["in_stock"] = {"installed", "decommissioned", "disposed"}
        /\ TRANSITIONS["installed"] = {"commissioned", "removed"}
        /\ TRANSITIONS["commissioned"] = {"in_service", "removed"}
        /\ TRANSITIONS["in_service"] = {"out_of_service", "removed"}
        /\ TRANSITIONS["out_of_service"] = {"in_service", "removed"}
        /\ TRANSITIONS["removed"] = {"in_stock", "installed", "decommissioned"}
        /\ TRANSITIONS["decommissioned"] = {"disposed"}
        /\ TRANSITIONS["disposed"] = {}
    BY DEF TRANSITIONS
  <1>3. QED
    BY <1>1, <1>2 DEF Declarable, ASSIGNMENT_STATES, MOUNTED_STATES, INSTALLABLE_STATES

LEMMA PlaceInitInv == PlaceInit => PlaceInv
  <1> SUFFICES ASSUME PlaceInit PROVE PlaceInv
    OBVIOUS
  <1>1. PlaceTypeOK
    BY Transitions DEF PlaceInit, PlaceTypeOK
  <1>2. OneRowAPlace /\ ReplacesInv /\ ReadsInv
    BY DEF PlaceInit, OneRowAPlace, ReplacesInv, ReadsInv
  <1>3. MountedInOneRow
    BY Transitions DEF PlaceInit, MountedInOneRow, RowsOf
  <1>4. QED
    BY <1>1, <1>2, <1>3 DEF PlaceInv

(* What an open request is, one kind or the other.                         *)
Assigning(t) ==
    /\ t \in [op : {"assign"}, stage : Stages, place : Places, unit : Units,
              previous : Units \cup {NoUnit}, to : {"installed"}, wrote : SUBSET Units,
              changed : BOOLEAN, closes : SUBSET OpenAssignments]
Changing(t) ==
    t \in [op : {"change"}, stage : Stages, unit : Units, previous : {NoUnit}, to : STATES,
           wrote : SUBSET Units]
LEMMA OpenRequest ==
  ASSUME PlaceInv, NEW c \in PlaceCalls, placing[c] # NoCall
  PROVE  /\ Assigning(placing[c]) \/ Changing(placing[c])
         /\ Assigning(placing[c]) <=> placing[c].op = "assign"
         /\ Changing(placing[c]) <=> placing[c].op = "change"
  BY DEF PlaceInv, PlaceTypeOK, PlaceRequests, Assigning, Changing

(* A request that reads or stages a write changes itself only.  Good is    *)
(* what must then be said of it.                                           *)
Good(t) ==
    /\ Assigning(t) \/ Changing(t)
    /\ t.op = "assign" /\ t.changed => t.closes = AtPlace(t.place)
    /\ t.wrote \subseteq UnitsOf(t)
    /\ ReadsUnit(t)
    /\ t.op = "assign" => ReadsPlace(t)
    /\ t.op = "change" => t.stage \in {"writing", "written"}

LEMMA OpenIsGood ==
  ASSUME PlaceInv, NEW c \in PlaceCalls, placing[c] # NoCall
  PROVE  Good(placing[c])
  BY OpenRequest DEF Good, PlaceInv, ReplacesInv, ReadsInv

Alone(c, t) ==
    t.op = "assign" /\ t.changed =>
        \A d \in PlaceCalls \ {c} :
            placing[d] # NoCall /\ placing[d].op = "assign" /\ placing[d].changed
                => placing[d].place # t.place

LEMMA GoesKeeps ==
  ASSUME PlaceInv, NEW c \in PlaceCalls, NEW t, Goes(c, t), t = NoCall \/ (Good(t) /\ Alone(c, t))
  PROVE  PlaceInv'
  <1>1. /\ placing' = [placing EXCEPT ![c] = t]
        /\ lifecycle' = lifecycle /\ assignments' = assignments /\ disturbed' = disturbed
    BY DEF Goes
  <1>2. PlaceTypeOK'
    BY <1>1 DEF PlaceInv, PlaceTypeOK, PlaceRequests, Good, Assigning, Changing
  <1>3. OneRowAPlace' /\ MountedInOneRow'
    BY <1>1 DEF PlaceInv, OneRowAPlace, MountedInOneRow, RowsOf
  <1>4. \A d \in PlaceCalls : placing'[d] = IF d = c THEN t ELSE placing[d]
    BY <1>1 DEF PlaceInv, PlaceTypeOK
  <1>5. \A d \in PlaceCalls : placing'[d] # NoCall => Good(placing'[d])
    BY <1>4, OpenIsGood
  <1>6. ReadsInv'
    BY <1>1, <1>5
    DEF ReadsInv, Good, ReadsUnit, ReadsPlace, AtPlace, UnitsOf
  <1>7. ReplacesInv'
    <2>1. \A d \in PlaceCalls :
            placing'[d] # NoCall /\ placing'[d].op = "assign" /\ placing'[d].changed
              => placing'[d].closes = AtPlace(placing'[d].place)
      BY <1>5 DEF Good
    <2>2. ASSUME NEW d \in PlaceCalls, NEW e \in PlaceCalls, d # e,
                 placing'[d] # NoCall, placing'[d].op = "assign", placing'[d].changed,
                 placing'[e] # NoCall, placing'[e].op = "assign", placing'[e].changed,
                 placing'[d].place = placing'[e].place
          PROVE  FALSE
      <3>1. CASE d # c /\ e # c
        BY <1>4, <2>2, <3>1 DEF PlaceInv, ReplacesInv
      <3>2. CASE d = c
        BY <1>4, <2>2, <3>2 DEF Alone
      <3>3. CASE e = c
        BY <1>4, <2>2, <3>3 DEF Alone
      <3>4. QED
        BY <3>1, <3>2, <3>3
    <2>3. QED
      BY <1>1, <2>1, <2>2 DEF ReplacesInv, AtPlace
  <1>8. QED
    BY <1>2, <1>3, <1>6, <1>7 DEF PlaceInv

LEMMA StageOrder ==
  /\ "looked" \notin After("checked") /\ "looked" \notin After("changed")
  /\ "looked" \notin After("removed")
  /\ "checked" \notin After("changed") /\ "checked" \notin After("removed")
  /\ "changed" \notin After("removed") /\ "removing" \notin After("removed")
  /\ \A s \in Stages \ {"looked"} : s \in After("checked")
  /\ \A s \in Stages \ {"looked", "checked"} : s \in After("changed")
  /\ \A s \in {"removed", "writing", "written"} : s \in After("removed")
  BY DEF After, Stages

(* assign_physical_unit: the occupant that is read is the one row there is.*)
LEMMA AssignKeeps ==
  ASSUME PlaceInv, NEW c \in PlaceCalls, NEW p \in Places, NEW u \in Units,
         assign_physical_unit(c, p, u)
  PROVE  PlaceInv'
  <1>1. PICK previous \in Units \cup {NoUnit} :
          /\ IF get_current_occupant(p) = {} THEN previous = NoUnit
             ELSE previous \in get_current_occupant(p)
          /\ Goes(c, [op |-> "assign", stage |-> "looked", place |-> p, unit |-> u,
                      previous |-> previous, to |-> "installed", wrote |-> {},
                      changed |-> FALSE, closes |-> {}])
    BY DEF assign_physical_unit
  <1> DEFINE t == [op |-> "assign", stage |-> "looked", place |-> p, unit |-> u,
                   previous |-> previous, to |-> "installed", wrote |-> {},
                   changed |-> FALSE, closes |-> {}]
  <1>2. u \notin get_current_occupant(p)
    BY DEF assign_physical_unit
  <1>3. Assigning(t)
    BY DEF Assigning, Stages
  <1>4. previous # u
    BY <1>1, <1>2, PlaceAssumption
  <1>5. \A r \in AtPlace(p) : r.unit = previous
    BY <1>1 DEF get_current_occupant, AtPlace, PlaceInv, OneRowAPlace
  <1>6. previous # NoUnit => [place |-> p, unit |-> previous] \in assignments
    <2> SUFFICES ASSUME previous # NoUnit
                 PROVE  [place |-> p, unit |-> previous] \in assignments
      OBVIOUS
    <2>1. PICK r \in assignments : r.place = p /\ r.unit = previous
      BY <1>1 DEF get_current_occupant, AtPlace
    <2>2. r = [place |-> p, unit |-> previous]
      BY <2>1 DEF PlaceInv, PlaceTypeOK, OpenAssignments
    <2>3. QED
      BY <2>1, <2>2
  <1>7. ReadsPlace(t)
    BY <1>4, <1>5, <1>6, StageOrder DEF ReadsPlace
  <1>8. ReadsUnit(t)
    BY StageOrder DEF ReadsUnit
  <1>9. Good(t) /\ Alone(c, t)
    BY <1>3, <1>7, <1>8 DEF Good, Alone
  <1>10. QED
    BY <1>1, <1>9, GoesKeeps

LEMMA ChangeKeeps ==
  ASSUME PlaceInv, NEW c \in PlaceCalls, NEW u \in Units, NEW to \in STATES,
         change_state(c, u, to)
  PROVE  PlaceInv'
  <1> DEFINE t == [op |-> "change", stage |-> "writing", unit |-> u, previous |-> NoUnit,
                   to |-> to, wrote |-> {}]
  <1>1. to \in Declarable \cap TRANSITIONS[lifecycle[u]] /\ Goes(c, t)
    BY DEF change_state
  <1>2. Changing(t)
    BY DEF Changing, Stages
  <1>3. lifecycle[u] \in STATES
    BY DEF PlaceInv, PlaceTypeOK
  <1>4. ReadsUnit(t)
    BY <1>1, <1>3, Transitions DEF ReadsUnit
  <1>5. Good(t) /\ Alone(c, t)
    BY <1>2, <1>4 DEF Good, Alone
  <1>6. QED
    BY <1>1, <1>5, GoesKeeps

(* The unit that is not mounted is checked before anything is written.     *)
LEMMA CheckKeeps ==
  ASSUME PlaceInv, NEW c \in PlaceCalls, CheckInstallable(c)
  PROVE  PlaceInv'
  <1> DEFINE old == placing[c]
             t == [old EXCEPT !.stage = "checked"]
  <1>1. CASE Goes(c, NoCall)
    BY <1>1, GoesKeeps
  <1>2. CASE lifecycle[old.unit] \in INSTALLABLE_STATES /\ Goes(c, t)
    <2>1. old # NoCall /\ old.stage = "looked" /\ Good(old)
      BY OpenIsGood DEF CheckInstallable
    <2>2. Assigning(old) /\ old.op = "assign"
      BY <2>1 DEF Good, Changing, Assigning
    <2>3. /\ Assigning(t) /\ t.stage = "checked" /\ t.op = "assign"
          /\ t.place = old.place /\ t.unit = old.unit /\ t.previous = old.previous
          /\ t.wrote = old.wrote /\ t.changed = old.changed /\ t.closes = old.closes
      BY <2>2 DEF Assigning, Stages
    <2>4. ReadsUnit(t)
      BY <1>2, <2>3 DEF ReadsUnit
    <2>5. ReadsPlace(t)
      BY <2>1, <2>2, <2>3, StageOrder DEF Good, ReadsPlace
    <2>6. Good(t)
      BY <2>1, <2>2, <2>3, <2>4, <2>5 DEF Good, UnitsOf
    <2>7. Alone(c, t)
      BY <2>1, <2>2, <2>3 DEF Alone, PlaceInv, ReplacesInv
    <2>8. QED
      BY <1>2, <2>6, <2>7, GoesKeeps
  <1>3. QED
    BY <1>1, <1>2 DEF CheckInstallable, Refused

(* The row that is there is closed, by one request at a time.              *)
LEMMA OccupantKeeps ==
  ASSUME PlaceInv, NEW c \in PlaceCalls, ChangeOccupant(c)
  PROVE  PlaceInv'
  <1> DEFINE old == placing[c]
             t == [old EXCEPT !.stage = "changed", !.changed = TRUE,
                              !.closes = AtPlace(old.place)]
  <1>1. CASE Goes(c, NoCall)
    BY <1>1, GoesKeeps
  <1>2. CASE PlaceFree(c, old.place) /\ Goes(c, t)
    <2>1. old # NoCall /\ old.stage = "checked" /\ Good(old)
      BY OpenIsGood DEF ChangeOccupant
    <2>2. Assigning(old) /\ old.op = "assign"
      BY <2>1 DEF Good, Changing, Assigning
    <2>3. AtPlace(old.place) \subseteq OpenAssignments
      BY DEF AtPlace, PlaceInv, PlaceTypeOK
    <2>4. /\ Assigning(t) /\ t.stage = "changed" /\ t.op = "assign"
          /\ t.place = old.place /\ t.unit = old.unit /\ t.previous = old.previous
          /\ t.wrote = old.wrote /\ t.changed /\ t.closes = AtPlace(old.place)
      BY <2>2, <2>3 DEF Assigning, Stages
    <2>5. ReadsUnit(t)
      BY <2>1, <2>2, <2>4, StageOrder DEF Good, ReadsUnit, Stages
    <2>6. ReadsPlace(t)
      BY <2>1, <2>2, <2>4, StageOrder DEF Good, ReadsPlace
    <2>7. Good(t)
      BY <2>1, <2>2, <2>4, <2>5, <2>6 DEF Good, UnitsOf
    <2>8. Alone(c, t)
      BY <1>2, <2>4 DEF Alone, PlaceFree, Others
    <2>9. QED
      BY <1>2, <2>7, <2>8, GoesKeeps
  <1>3. QED
    BY <1>1, <1>2 DEF ChangeOccupant, Refused

(* The previous unit is taken down if it is mounted; it is, unless         *)
(* another request took it down.                                           *)
LEMMA ReadOccupantKeeps ==
  ASSUME PlaceInv, NEW c \in PlaceCalls, ReadOccupant(c)
  PROVE  PlaceInv'
  <1> DEFINE old == placing[c]
             u == old.previous
             next == IF u # NoUnit /\ lifecycle[u] \in MOUNTED_STATES THEN "removing"
                     ELSE "removed"
             t == [old EXCEPT !.stage = next]
  <1>1. Goes(c, t)
    BY DEF ReadOccupant
  <1>2. old # NoCall /\ old.stage = "changed" /\ Good(old)
    BY OpenIsGood DEF ReadOccupant
  <1>3. Assigning(old) /\ old.op = "assign"
    BY <1>2 DEF Good, Changing, Assigning
  <1>4. next \in {"removing", "removed"}
    OBVIOUS
  <1> HIDE DEF next
  <1>5. /\ Assigning(t) /\ t.stage = next /\ t.op = "assign"
        /\ t.place = old.place /\ t.unit = old.unit /\ t.previous = old.previous
        /\ t.wrote = old.wrote /\ t.changed = old.changed /\ t.closes = old.closes
    BY <1>3, <1>4 DEF Assigning, Stages
  <1>6. ReadsUnit(t)
    BY <1>2, <1>3, <1>4, <1>5, StageOrder DEF Good, ReadsUnit, Stages
  <1>7. u # NoUnit /\ u \notin disturbed => next = "removing"
    <2> SUFFICES ASSUME u # NoUnit, u \notin disturbed PROVE lifecycle[u] \in MOUNTED_STATES
      BY DEF next
    <2>1. u \in Units \ disturbed
      BY <1>3 DEF Assigning
    <2>2. [place |-> old.place, unit |-> u] \in RowsOf(u)
      BY <1>2, <1>3 DEF Good, ReadsPlace, RowsOf
    <2>3. QED
      BY <2>1, <2>2 DEF PlaceInv, MountedInOneRow
  <1>8. ReadsPlace(t)
    <2>1. t.stage \in After("changed") => t.changed
      BY <1>2, <1>3, <1>5, StageOrder DEF Good, ReadsPlace, Stages
    <2>2. u # NoUnit /\ u \notin disturbed => t.stage \notin After("removed")
      BY <1>5, <1>7, StageOrder
    <2>3. next = "removing" => u # NoUnit
      BY DEF next
    <2>4. QED
      BY <1>2, <1>3, <1>5, <2>1, <2>2, <2>3 DEF Good, ReadsPlace
  <1>9. Good(t)
    BY <1>2, <1>3, <1>5, <1>6, <1>8 DEF Good, UnitsOf
  <1>10. Alone(c, t)
    BY <1>2, <1>3, <1>5 DEF Alone, PlaceInv, ReplacesInv
  <1>11. QED
    BY <1>1, <1>9, <1>10, GoesKeeps

(* Taken down, the previous unit is among what the request wrote.          *)
LEMMA RemovePreviousKeeps ==
  ASSUME PlaceInv, NEW c \in PlaceCalls, RemovePrevious(c)
  PROVE  PlaceInv'
  <1> DEFINE old == placing[c]
             t == [old EXCEPT !.stage = "removed", !.wrote = {old.previous}]
  <1>1. Goes(c, t)
    BY DEF RemovePrevious
  <1>2. old # NoCall /\ old.stage = "removing" /\ Good(old)
    BY OpenIsGood DEF RemovePrevious
  <1>3. Assigning(old) /\ old.op = "assign"
    BY <1>2 DEF Good, Changing, Assigning
  <1>4. old.previous \in Units /\ old.previous # NoUnit
    BY <1>2, <1>3 DEF Good, ReadsPlace, Assigning
  <1>5. /\ Assigning(t) /\ t.stage = "removed" /\ t.op = "assign"
        /\ t.place = old.place /\ t.unit = old.unit /\ t.previous = old.previous
        /\ t.wrote = {old.previous} /\ t.changed = old.changed /\ t.closes = old.closes
    BY <1>3, <1>4 DEF Assigning, Stages
  <1>6. ReadsUnit(t)
    BY <1>2, <1>3, <1>5, StageOrder DEF Good, ReadsUnit, Stages
  <1>7. ReadsPlace(t)
    BY <1>2, <1>3, <1>5, StageOrder DEF Good, ReadsPlace, Stages
  <1>8. t.wrote \subseteq UnitsOf(t)
    BY <1>4, <1>5 DEF UnitsOf
  <1>9. Good(t)
    BY <1>2, <1>3, <1>5, <1>6, <1>7, <1>8 DEF Good
  <1>10. Alone(c, t)
    BY <1>2, <1>3, <1>5 DEF Alone, PlaceInv, ReplacesInv
  <1>11. QED
    BY <1>1, <1>9, <1>10, GoesKeeps

LEMMA ReadStateKeeps ==
  ASSUME PlaceInv, NEW c \in PlaceCalls, ReadState(c)
  PROVE  PlaceInv'
  <1> DEFINE old == placing[c]
             t == [old EXCEPT !.stage = "writing"]
  <1>1. CASE Goes(c, NoCall)
    BY <1>1, GoesKeeps
  <1>2. CASE Goes(c, t)
    <2>1. old # NoCall /\ old.stage = "removed" /\ Good(old)
      BY OpenIsGood DEF ReadState
    <2>2. Assigning(old) /\ old.op = "assign"
      BY <2>1 DEF Good, Changing, Assigning
    <2>3. /\ Assigning(t) /\ t.stage = "writing" /\ t.op = "assign"
          /\ t.place = old.place /\ t.unit = old.unit /\ t.previous = old.previous
          /\ t.wrote = old.wrote /\ t.changed = old.changed /\ t.closes = old.closes
      BY <2>2 DEF Assigning, Stages
    <2>4. ReadsUnit(t)
      BY <2>1, <2>2, <2>3, StageOrder DEF Good, ReadsUnit, Stages
    <2>5. ReadsPlace(t)
      BY <2>1, <2>2, <2>3, StageOrder DEF Good, ReadsPlace, Stages
    <2>6. Good(t)
      BY <2>1, <2>2, <2>3, <2>4, <2>5 DEF Good, UnitsOf
    <2>7. Alone(c, t)
      BY <2>1, <2>2, <2>3 DEF Alone, PlaceInv, ReplacesInv
    <2>8. QED
      BY <1>2, <2>6, <2>7, GoesKeeps
  <1>3. QED
    BY <1>1, <1>2 DEF ReadState, Refused

LEMMA WriteStateKeeps ==
  ASSUME PlaceInv, NEW c \in PlaceCalls, WriteState(c)
  PROVE  PlaceInv'
  <1> DEFINE old == placing[c]
             t == [old EXCEPT !.stage = "written", !.wrote = old.wrote \cup {old.unit}]
  <1>1. Goes(c, t)
    BY DEF WriteState
  <1>2. old # NoCall /\ old.stage = "writing" /\ Good(old)
    BY OpenIsGood DEF WriteState
  <1>3. CASE Assigning(old)
    <2>1. /\ Assigning(t) /\ t.stage = "written" /\ t.op = "assign" /\ old.op = "assign"
          /\ t.place = old.place /\ t.unit = old.unit /\ t.previous = old.previous
          /\ t.wrote = old.wrote \cup {old.unit} /\ t.changed = old.changed
          /\ t.closes = old.closes
      BY <1>3 DEF Assigning, Stages
    <2>2. ReadsUnit(t)
      BY <1>2, <2>1, StageOrder DEF Good, ReadsUnit, Stages
    <2>3. ReadsPlace(t)
      BY <1>2, <2>1, StageOrder DEF Good, ReadsPlace, Stages
    <2>4. t.wrote \subseteq UnitsOf(t)
      BY <1>2, <1>3, <2>1, PlaceAssumption DEF Good, UnitsOf, Assigning
    <2>5. Good(t)
      BY <1>2, <2>1, <2>2, <2>3, <2>4 DEF Good
    <2>6. Alone(c, t)
      BY <1>2, <2>1 DEF Alone, PlaceInv, ReplacesInv
    <2>7. QED
      BY <1>1, <2>5, <2>6, GoesKeeps
  <1>4. CASE Changing(old)
    <2>1. /\ Changing(t) /\ t.stage = "written" /\ t.op = "change" /\ old.op = "change"
          /\ t.unit = old.unit /\ t.previous = old.previous /\ t.to = old.to
          /\ t.wrote = old.wrote \cup {old.unit}
      BY <1>4 DEF Changing, Stages
    <2>2. t.wrote \subseteq UnitsOf(t)
      BY <1>2, <1>4, <2>1, PlaceAssumption DEF Good, UnitsOf, Changing
    <2>3. Good(t) /\ Alone(c, t)
      BY <1>2, <2>1, <2>2 DEF Good, ReadsUnit, Alone
    <2>4. QED
      BY <1>1, <2>3, GoesKeeps
  <1>5. QED
    BY <1>2, <1>3, <1>4 DEF Good

-----------------------------------------------------------------------------
(* What a commit does: the units and the place of another open request are *)
(* untouched, unless the two met, and then all their units are disturbed.  *)
LEMMA CommitEffect ==
  ASSUME PlaceInv, NEW c \in PlaceCalls, PlaceCommit(c)
  PROVE  /\ placing[c] # NoCall /\ Good(placing[c])
         /\ placing[c].op = "assign" =>
              /\ Assigning(placing[c]) /\ placing[c].changed
              /\ placing[c].closes = AtPlace(placing[c].place)
         /\ \A u \in Units : lifecycle'[u] = IF u = placing[c].unit THEN placing[c].to
                                             ELSE IF u \in placing[c].wrote THEN "removed"
                                             ELSE lifecycle[u]
         /\ \A d \in PlaceCalls : placing'[d] = IF d = c THEN NoCall ELSE placing[d]
         /\ disturbed \subseteq disturbed'
         /\ \A d \in PlaceCalls \ {c} :
               placing[d] # NoCall /\ Meets(placing[c], placing[d])
                 => UnitsOf(placing[c]) \cup UnitsOf(placing[d]) \subseteq disturbed'
         /\ \A p \in Places :
               p # placing[c].place \/ placing[c].op = "change" => AtPlace(p)' = AtPlace(p)
  <1> DEFINE t == placing[c]
             met == {o \in Others(c) : Meets(t, o)}
  <1>1. t # NoCall /\ t.stage = "written" /\ Good(t)
    BY OpenIsGood DEF PlaceCommit
  <1>2. t.op = "assign" => Assigning(t) /\ t.changed /\ t.closes = AtPlace(t.place)
    BY <1>1, StageOrder DEF Good, ReadsPlace, Assigning, Changing, Stages
  <1>3. \A u \in Units : lifecycle'[u] = IF u = t.unit THEN t.to
                                        ELSE IF u \in t.wrote THEN "removed" ELSE lifecycle[u]
    BY DEF PlaceCommit
  <1>4. \A d \in PlaceCalls : placing'[d] = IF d = c THEN NoCall ELSE placing[d]
    BY DEF PlaceCommit, PlaceInv, PlaceTypeOK
  <1>5. disturbed' = disturbed \cup IF met = {} THEN {}
                                   ELSE UnitsOf(t) \cup UNION {UnitsOf(o) : o \in met}
    BY DEF PlaceCommit
  <1>6. ASSUME NEW d \in PlaceCalls \ {c}, placing[d] # NoCall, Meets(t, placing[d])
        PROVE  UnitsOf(t) \cup UnitsOf(placing[d]) \subseteq disturbed'
    <2>1. placing[d] \in met
      BY <1>6 DEF Others
    <2> HIDE DEF met
    <2>2. QED
      BY <1>5, <2>1
  <1>7. ASSUME NEW p \in Places, p # t.place \/ t.op = "change"
        PROVE  AtPlace(p)' = AtPlace(p)
    <2>1. assignments' = IF t.op = "change" THEN assignments
                         ELSE (assignments \ t.closes) \cup {[place |-> t.place, unit |-> t.unit]}
      BY DEF PlaceCommit
    <2>2. CASE t.op = "change"
      BY <2>1, <2>2 DEF AtPlace
    <2>3. CASE t.op # "change"
      <3>1. t.op = "assign"
        BY <1>1, <2>3 DEF Good, Assigning, Changing
      <3>2. \A r \in t.closes : r.place # p
        BY <1>2, <1>7, <3>1 DEF AtPlace
      <3>3. QED
        BY <1>7, <2>1, <3>1, <3>2 DEF AtPlace
    <2>4. QED
      BY <2>2, <2>3
  <1>8. disturbed \subseteq disturbed'
    BY <1>5
  <1>9. QED
    BY <1>1, <1>2, <1>3, <1>4, <1>6, <1>7, <1>8

LEMMA CommitKeepsType ==
  ASSUME PlaceInv, NEW c \in PlaceCalls, PlaceCommit(c)
  PROVE  PlaceTypeOK'
  <1> DEFINE t == placing[c]
             met == {o \in Others(c) : Meets(t, o)}
  <1>1. t # NoCall /\ Good(t)
    BY CommitEffect
  <1>2. t.unit \in Units /\ t.to \in STATES /\ UnitsOf(t) \subseteq Units
    BY <1>1, Transitions DEF Good, Assigning, Changing, UnitsOf
  <1>3. lifecycle' \in [Units -> STATES]
    <2>1. \A u \in Units : (IF u = t.unit THEN t.to
                           ELSE IF u \in t.wrote THEN "removed" ELSE lifecycle[u]) \in STATES
      BY <1>2, Transitions DEF PlaceInv, PlaceTypeOK
    <2>2. QED
      BY <2>1 DEF PlaceCommit
  <1>4. assignments' \subseteq OpenAssignments
    <2>1. CASE t.op = "change"
      BY <2>1 DEF PlaceCommit, PlaceInv, PlaceTypeOK
    <2>2. CASE t.op # "change"
      <3>1. Assigning(t)
        BY <1>1, <2>2 DEF Good, Changing
      <3>2. [place |-> t.place, unit |-> t.unit] \in OpenAssignments
        BY <3>1 DEF Assigning, OpenAssignments
      <3>3. QED
        BY <2>2, <3>2 DEF PlaceCommit, PlaceInv, PlaceTypeOK
    <2>3. QED
      BY <2>1, <2>2
  <1>5. disturbed' \subseteq Units
    <2>1. \A o \in Others(c) : UnitsOf(o) \subseteq Units
      BY OpenRequest DEF Others, UnitsOf, Assigning, Changing
    <2>2. UNION {UnitsOf(o) : o \in met} \subseteq Units
      BY <2>1
    <2>3. disturbed' = disturbed \cup IF met = {} THEN {}
                                     ELSE UnitsOf(t) \cup UNION {UnitsOf(o) : o \in met}
      BY DEF PlaceCommit
    <2> HIDE DEF met
    <2>4. QED
      BY <1>2, <2>2, <2>3 DEF PlaceInv, PlaceTypeOK
  <1>6. placing' \in [PlaceCalls -> PlaceRequests \cup {NoCall}]
    BY DEF PlaceCommit, PlaceInv, PlaceTypeOK
  <1>7. QED
    BY <1>3, <1>4, <1>5, <1>6 DEF PlaceTypeOK

(* The row of the place is replaced by one row.                            *)
LEMMA CommitKeepsRows ==
  ASSUME PlaceInv, NEW c \in PlaceCalls, PlaceCommit(c)
  PROVE  OneRowAPlace' /\ MountedInOneRow'
  <1> DEFINE t == placing[c]
  <1>1. t # NoCall /\ Good(t)
    BY CommitEffect
  <1>2. \A u \in Units : lifecycle'[u] = IF u = t.unit THEN t.to
                                        ELSE IF u \in t.wrote THEN "removed" ELSE lifecycle[u]
    BY CommitEffect
  <1>3. disturbed \subseteq disturbed'
    BY CommitEffect
  <1>4. CASE t.op = "change"
    <2>1. assignments' = assignments
      BY <1>4 DEF PlaceCommit
    <2>2. OneRowAPlace'
      BY <2>1 DEF PlaceInv, OneRowAPlace
    <2>3. Changing(t)
      BY <1>1, <1>4 DEF Good, Assigning
    <2>4. t.wrote \subseteq {t.unit}
      BY <1>1, <2>3 DEF Good, UnitsOf, Changing
    <2>5. ASSUME NEW u \in Units, u \notin disturbed'
          PROVE  lifecycle'[u] \in MOUNTED_STATES <=> lifecycle[u] \in MOUNTED_STATES
      <3>1. CASE u = t.unit
        BY <1>1, <1>2, <1>3, <1>4, <2>5, <3>1 DEF Good, ReadsUnit
      <3>2. CASE u # t.unit
        BY <1>2, <2>4, <3>2
      <3>3. QED
        BY <3>1, <3>2
    <2>6. MountedInOneRow'
      BY <1>3, <2>1, <2>5 DEF PlaceInv, MountedInOneRow, RowsOf
    <2>7. QED
      BY <2>2, <2>6
  <1>5. CASE t.op = "assign"
    <2> DEFINE row == [place |-> t.place, unit |-> t.unit]
    <2>1. Assigning(t) /\ t.closes = AtPlace(t.place)
      BY <1>5, CommitEffect
    <2>2. assignments' = (assignments \ AtPlace(t.place)) \cup {row}
      BY <1>5, <2>1 DEF PlaceCommit
    <2>3. row.place = t.place /\ row.unit = t.unit
      OBVIOUS
    <2> HIDE DEF row
    <2>4. OneRowAPlace'
      BY <2>2, <2>3 DEF PlaceInv, OneRowAPlace, AtPlace
    <2>5. ReadsUnit(t) /\ ReadsPlace(t) /\ t.wrote \subseteq UnitsOf(t)
      BY <1>1, <1>5 DEF Good
    <2>6. t.stage = "written" /\ t.to = "installed" /\ t.unit \in Units
      BY <2>1 DEF PlaceCommit, Assigning
    <2>7. ASSUME NEW u \in Units, u \notin disturbed'
          PROVE  IF lifecycle'[u] \in MOUNTED_STATES THEN \E r \in assignments' : RowsOf(u)' = {r}
                 ELSE RowsOf(u)' = {}
      <3>1. u \notin disturbed
        BY <1>3, <2>7
      <3>2. RowsOf(u)' = {r \in assignments' : r.unit = u}
        BY DEF RowsOf
      <3>3. IF lifecycle[u] \in MOUNTED_STATES THEN \E r \in assignments : RowsOf(u) = {r}
            ELSE RowsOf(u) = {}
        BY <2>7, <3>1 DEF PlaceInv, MountedInOneRow
      <3>4. CASE u = t.unit
        <4>1. lifecycle[u] \notin MOUNTED_STATES
          BY <1>5, <2>5, <2>6, <3>1, <3>4, StageOrder, Transitions DEF ReadsUnit, Stages
        <4>2. RowsOf(u) = {}
          BY <3>3, <4>1
        <4>3. RowsOf(u)' = {row}
          BY <2>2, <2>3, <3>2, <3>4, <4>2 DEF RowsOf
        <4>4. lifecycle'[u] \in MOUNTED_STATES
          BY <1>2, <2>6, <3>4, Transitions
        <4>5. row \in assignments'
          BY <2>2
        <4>6. QED
          BY <4>3, <4>4, <4>5
      <3>5. CASE u # t.unit /\ u = t.previous
        <4>1. u # NoUnit
          BY PlaceAssumption
        <4>2. [place |-> t.place, unit |-> u] \in assignments /\ u \in t.wrote
          BY <2>5, <2>6, <3>1, <3>5, <4>1, StageOrder DEF ReadsPlace
        <4>3. lifecycle'[u] \notin MOUNTED_STATES
          BY <1>2, <3>5, <4>2, Transitions
        <4>4. [place |-> t.place, unit |-> u] \in RowsOf(u)
          BY <4>2 DEF RowsOf
        <4>5. RowsOf(u) \subseteq AtPlace(t.place)
          BY <3>3, <4>2, <4>4 DEF RowsOf, AtPlace
        <4>6. RowsOf(u)' = {}
          BY <2>2, <2>3, <3>2, <3>5, <4>5 DEF RowsOf
        <4>7. QED
          BY <4>3, <4>6
      <3>6. CASE u # t.unit /\ u # t.previous
        <4>1. u \notin t.wrote
          BY <2>5, <3>6 DEF UnitsOf
        <4>2. lifecycle'[u] = lifecycle[u]
          BY <1>2, <3>6, <4>1
        <4>3. \A r \in AtPlace(t.place) : r.unit # u
          BY <2>5, <3>1, <3>6 DEF ReadsPlace
        <4>4. RowsOf(u)' = RowsOf(u)
          BY <2>2, <2>3, <3>2, <3>6, <4>3 DEF RowsOf
        <4>5. RowsOf(u) \subseteq assignments'
          BY <2>2, <4>3 DEF RowsOf
        <4>6. QED
          BY <3>3, <4>2, <4>4, <4>5
      <3>7. QED
        BY <3>4, <3>5, <3>6
    <2>8. MountedInOneRow'
      BY <2>7 DEF MountedInOneRow
    <2>9. QED
      BY <2>4, <2>8
  <1>6. QED
    BY <1>1, <1>4, <1>5 DEF Good, Assigning, Changing

(* What the other requests have read is still true, or is disturbed.       *)
LEMMA CommitKeepsReads ==
  ASSUME PlaceInv, NEW c \in PlaceCalls, PlaceCommit(c),
         NEW d \in PlaceCalls \ {c}, placing[d] # NoCall
  PROVE  /\ ReadsUnit(placing[d])'
         /\ placing[d].op = "assign" => ReadsPlace(placing[d])'
  <1> DEFINE t == placing[c]
             o == placing[d]
  <1>1. Good(t) /\ Good(o) /\ t # NoCall
    BY CommitEffect, OpenIsGood
  <1>2. placing'[d] = o
    BY CommitEffect
  <1>3. \A u \in Units : lifecycle'[u] = IF u = t.unit THEN t.to
                                        ELSE IF u \in t.wrote THEN "removed" ELSE lifecycle[u]
    BY CommitEffect
  <1>4. disturbed \subseteq disturbed'
    BY CommitEffect
  <1>5. Meets(t, o) => UnitsOf(t) \cup UnitsOf(o) \subseteq disturbed'
    BY CommitEffect
  <1>6. o.unit \in UnitsOf(o) /\ t.unit \in UnitsOf(t)
    BY <1>1, PlaceAssumption DEF Good, UnitsOf, Assigning, Changing
  <1>7. o.unit \notin disturbed' => lifecycle'[o.unit] = lifecycle[o.unit]
    <2> SUFFICES ASSUME o.unit \notin disturbed' PROVE lifecycle'[o.unit] = lifecycle[o.unit]
      OBVIOUS
    <2>1. o.unit \notin UnitsOf(t)
      BY <1>5, <1>6 DEF Meets
    <2>2. o.unit # t.unit /\ o.unit \notin t.wrote
      BY <1>1, <1>6, <2>1 DEF Good
    <2>3. o.unit \in Units
      BY <1>1 DEF Good, Assigning, Changing
    <2>4. QED
      BY <1>3, <2>2, <2>3
  <1>8. ReadsUnit(o)
    BY <1>1 DEF Good
  <1>9. ReadsUnit(placing[d])'
    BY <1>2, <1>4, <1>7, <1>8 DEF ReadsUnit
  <1>10. ASSUME o.op = "assign"
         PROVE  ReadsPlace(placing[d])'
    <2>1. Assigning(o) /\ ReadsPlace(o)
      BY <1>1, <1>10 DEF Good, Changing
    <2>2. CASE t.op = "assign" /\ t.place = o.place
      <3> DEFINE row == [place |-> t.place, unit |-> t.unit]
      <3>1. UnitsOf(t) \cup UnitsOf(o) \subseteq disturbed'
        BY <1>5, <1>10, <2>2 DEF Meets
      <3>2. t.closes = AtPlace(t.place)
        BY <2>2, CommitEffect
      <3>3. assignments' = (assignments \ AtPlace(t.place)) \cup {row}
        BY <2>2, <3>2 DEF PlaceCommit
      <3>4. row.place = t.place /\ row.unit = t.unit
        OBVIOUS
      <3> HIDE DEF row
      <3>5. \A r \in AtPlace(o.place)' : r.unit \in disturbed'
        BY <1>2, <1>6, <2>2, <3>1, <3>3, <3>4 DEF AtPlace
      <3>6. o.previous # NoUnit => o.previous \in disturbed'
        BY <3>1 DEF UnitsOf
      <3>7. \A r \in AtPlace(placing[d].place)' : r.unit \in disturbed'
        BY <1>2, <3>5 DEF AtPlace
      <3>8. QED
        BY <1>2, <2>1, <3>6, <3>7 DEF ReadsPlace
    <2>3. CASE ~(t.op = "assign" /\ t.place = o.place)
      <3>1. o.place \in Places
        BY <2>1 DEF Assigning
      <3>2. o.place # t.place \/ t.op = "change"
        BY <1>1, <2>3 DEF Good, Assigning, Changing
      <3>3. \A p \in Places : p # t.place \/ t.op = "change" => AtPlace(p)' = AtPlace(p)
        BY CommitEffect
      <3>4. {r \in assignments' : r.place = o.place} = {r \in assignments : r.place = o.place}
        BY <3>1, <3>2, <3>3 DEF AtPlace
      <3> DEFINE seat == [place |-> o.place, unit |-> o.previous]
      <3>5. seat.place = o.place
        OBVIOUS
      <3>6. seat \in assignments => seat \in assignments'
        BY <3>4, <3>5
      <3>7. \A r \in AtPlace(placing[d].place)' : r.unit = o.previous \/ r.unit \in disturbed'
        BY <1>2, <1>4, <2>1, <3>4 DEF ReadsPlace, AtPlace
      <3>8. QED
        BY <1>2, <1>4, <2>1, <3>6, <3>7 DEF ReadsPlace
    <2>4. QED
      BY <2>2, <2>3
  <1>11. QED
    BY <1>9, <1>10

LEMMA CommitKeeps ==
  ASSUME PlaceInv, NEW c \in PlaceCalls, PlaceCommit(c)
  PROVE  PlaceInv'
  <1>1. \A d \in PlaceCalls : placing'[d] = IF d = c THEN NoCall ELSE placing[d]
    BY CommitEffect
  <1>2. ReadsInv'
    <2> SUFFICES ASSUME NEW d \in PlaceCalls, placing'[d] # NoCall
                 PROVE  /\ placing'[d].wrote \subseteq UnitsOf(placing'[d])
                        /\ ReadsUnit(placing[d])'
                        /\ placing'[d].op = "assign" => ReadsPlace(placing[d])'
                        /\ placing'[d].op = "change"
                             => placing'[d].stage \in {"writing", "written"}
      BY DEF ReadsInv, UnitsOf, ReadsUnit, ReadsPlace, AtPlace
    <2>1. d # c /\ placing'[d] = placing[d]
      BY <1>1
    <2>2. Good(placing[d])
      BY <2>1, OpenIsGood
    <2>3. QED
      BY <2>1, <2>2, CommitKeepsReads DEF Good
  <1>3. ReplacesInv'
    <2> DEFINE Replaces(d) == /\ placing[d] # NoCall
                              /\ placing[d].op = "assign" /\ placing[d].changed
    <2>1. ASSUME NEW d \in PlaceCalls, d # c, Replaces(d)
          PROVE  placing[d].closes = AtPlace(placing[d].place)'
      <3>1. placing[d].closes = AtPlace(placing[d].place) /\ placing[d].place \in Places
        BY <2>1, OpenRequest DEF PlaceInv, ReplacesInv, Assigning
      <3>2. \/ placing[d].place # placing[c].place \/ placing[c].op = "change"
        <4>1. placing[c] # NoCall /\ Good(placing[c])
          BY CommitEffect
        <4>2. CASE placing[c].op = "assign"
          <5>1. Replaces(c)
            BY <4>1, <4>2, CommitEffect
          <5>2. QED
            BY <2>1, <5>1 DEF PlaceInv, ReplacesInv
        <4>3. QED
          BY <4>1, <4>2 DEF Good, Assigning, Changing
      <3>3. \A p \in Places :
              p # placing[c].place \/ placing[c].op = "change" => AtPlace(p)' = AtPlace(p)
        BY CommitEffect
      <3>4. placing'[d] = placing[d]
        BY <1>1, <2>1
      <3>5. QED
        BY <3>1, <3>2, <3>3, <3>4 DEF AtPlace
    <2>2. \A d \in PlaceCalls : placing'[d] # NoCall => d # c /\ placing'[d] = placing[d]
      BY <1>1
    <2>3. QED
      BY <2>1, <2>2 DEF PlaceInv, ReplacesInv, AtPlace
  <1>4. QED
    BY <1>2, <1>3, CommitKeepsType, CommitKeepsRows DEF PlaceInv

LEMMA PlaceInvariant == PlaceSpec => []PlaceInv
  <1>1. ASSUME PlaceInv, [PlaceNext]_placeVars
        PROVE  PlaceInv'
    <2>1. ASSUME NEW c \in PlaceCalls, NEW p \in Places, NEW u \in Units,
                 assign_physical_unit(c, p, u)
          PROVE  PlaceInv'
      BY <1>1, <2>1, AssignKeeps
    <2>2. ASSUME NEW c \in PlaceCalls, NEW u \in Units, NEW to \in STATES,
                 change_state(c, u, to)
          PROVE  PlaceInv'
      BY <1>1, <2>2, ChangeKeeps
    <2>3. ASSUME NEW c \in PlaceCalls, CheckInstallable(c)
          PROVE  PlaceInv'
      BY <1>1, <2>3, CheckKeeps
    <2>4. ASSUME NEW c \in PlaceCalls, ChangeOccupant(c)
          PROVE  PlaceInv'
      BY <1>1, <2>4, OccupantKeeps
    <2>5. ASSUME NEW c \in PlaceCalls, ReadOccupant(c)
          PROVE  PlaceInv'
      BY <1>1, <2>5, ReadOccupantKeeps
    <2>6. ASSUME NEW c \in PlaceCalls, RemovePrevious(c)
          PROVE  PlaceInv'
      BY <1>1, <2>6, RemovePreviousKeeps
    <2>7. ASSUME NEW c \in PlaceCalls, ReadState(c)
          PROVE  PlaceInv'
      BY <1>1, <2>7, ReadStateKeeps
    <2>8. ASSUME NEW c \in PlaceCalls, WriteState(c)
          PROVE  PlaceInv'
      BY <1>1, <2>8, WriteStateKeeps
    <2>9. ASSUME NEW c \in PlaceCalls, PlaceCommit(c)
          PROVE  PlaceInv'
      BY <1>1, <2>9, CommitKeeps
    <2>10. ASSUME NEW c \in PlaceCalls, PlaceRollback(c)
           PROVE  PlaceInv'
      <3>1. Goes(c, NoCall)
        BY <2>10 DEF PlaceRollback, Refused
      <3>2. QED
        BY <1>1, <3>1, GoesKeeps
    <2>11. CASE UNCHANGED placeVars
      BY <1>1, <2>11
      DEF placeVars, PlaceInv, PlaceTypeOK, OneRowAPlace, MountedInOneRow, ReplacesInv,
          ReadsInv, ReadsUnit, ReadsPlace, RowsOf, AtPlace, UnitsOf
    <2>12. QED
      BY <1>1, <2>1, <2>2, <2>3, <2>4, <2>5, <2>6, <2>7, <2>8, <2>9, <2>10, <2>11
      DEF PlaceNext
  <1>2. QED
    BY <1>1, PlaceInitInv, PTL DEF PlaceSpec

(* A request on a place is one of an assignment or one of a change, with   *)
(* the fields of its kind, whatever it has read.                           *)
THEOREM PlaceTypeCorrect == PlaceSpec => []PlaceTypeOK
  <1>1. PlaceInv => PlaceTypeOK
    BY DEF PlaceInv
  <1>2. QED
    BY <1>1, PlaceInvariant, PTL

(* A place never has two open rows, and a unit that no two overlapping     *)
(* requests shared is mounted exactly when it has one row                  *)
(* (assign_physical_unit and change_state, app/assets.py, app/lifecycle.py)*)
THEOREM UndisturbedConsistentHolds == PlaceSpec => []UndisturbedConsistent
  <1>1. ASSUME PlaceInv
        PROVE  UndisturbedConsistent
    <2>1. Cardinality({}) = 0
      BY FS_EmptySet
    <2>2. \A r : Cardinality({r}) = 1
      BY FS_Singleton, Zenon
    <2>3. ASSUME NEW p \in Places
          PROVE  Cardinality(AtPlace(p)) <= 1
      <3>1. CASE AtPlace(p) = {}
        BY <2>1, <3>1
      <3>2. CASE AtPlace(p) # {}
        <4>1. PICK r : r \in AtPlace(p)
          BY <3>2
        <4>2. AtPlace(p) = {r}
          BY <1>1, <4>1 DEF PlaceInv, OneRowAPlace, AtPlace
        <4>3. Cardinality(AtPlace(p)) = 1
          BY <2>2, <4>2, Zenon
        <4>4. QED
          BY <4>3
      <3>3. QED
        BY <3>1, <3>2
    <2>4. ASSUME NEW u \in Units \ disturbed
          PROVE  Cardinality(RowsOf(u)) = IF lifecycle[u] \in MOUNTED_STATES THEN 1 ELSE 0
      <3>1. CASE lifecycle[u] \in MOUNTED_STATES
        <4>1. PICK r \in assignments : RowsOf(u) = {r}
          BY <1>1, <3>1 DEF PlaceInv, MountedInOneRow
        <4>2. Cardinality(RowsOf(u)) = 1
          BY <2>2, <4>1, Zenon
        <4>3. QED
          BY <3>1, <4>2
      <3>2. CASE lifecycle[u] \notin MOUNTED_STATES
        <4>1. RowsOf(u) = {}
          BY <1>1, <3>2 DEF PlaceInv, MountedInOneRow
        <4>2. QED
          BY <2>1, <3>2, <4>1
      <3>3. QED
        BY <3>1, <3>2
    <2>5. QED
      BY <2>3, <2>4 DEF UndisturbedConsistent, RowsOf
  <1>2. QED
    BY <1>1, PlaceInvariant, PTL

-----------------------------------------------------------------------------
(* Records kept beside an asset, documents and plans, edge devices: their  *)
(* tables are sequences of rows.                                           *)
LEMMA AppendIs ==
  ASSUME NEW S, NEW s \in Seq(S), NEW x \in S
  PROVE  /\ Append(s, x) \in Seq(S) /\ Append(s, x) # <<>>
         /\ Len(s) \in Nat /\ Len(Append(s, x)) = Len(s) + 1
         /\ DOMAIN s = 1..Len(s) /\ DOMAIN Append(s, x) = 1..(Len(s) + 1)
         /\ \A i \in 1..Len(s) : Append(s, x)[i] = s[i] /\ s[i] \in S
         /\ Append(s, x)[Len(s) + 1] = x
  BY AppendProperties, LenProperties, ElementOfSeq

-----------------------------------------------------------------------------
(* AssetRecords.                                                           *)

(* A plan that is about to be inserted has the next number at most.        *)
PlanInv ==
    \A e \in Editors : edit[e] # NoEdit /\ edit[e].kind = "plan" =>
        edit[e].version <= Len(plans) + 1

(* Each value ends when the next one begins; the last one has not ended.   *)
ValueInv ==
    /\ \A i \in 1..Len(periods) - 1 : periods[i].to = periods[i + 1].from
    /\ periods # <<>> => periods[Len(periods)].to = OpenEnded

NumberInv == \A i \in DOMAIN plans : plans[i] = i

RecordInv == RecordTypeOK /\ ValueInv /\ NumberInv /\ PlanInv

Period == [from : Dates, to : Dates \cup {OpenEnded}]

(* The current value is the last one.                                      *)
LEMMA CurrentIsLast ==
  ASSUME RecordTypeOK, ValueInv
  PROVE  CurrentValue = IF periods = <<>> THEN {} ELSE {Len(periods)}
  <1> USE RecordAssumption
  <1>1. periods \in Seq(Period) /\ Len(periods) \in Nat /\ DOMAIN periods = 1..Len(periods)
    BY DEF RecordTypeOK, Period
  <1>2. \A i \in 1..Len(periods) : periods[i] \in Period
    BY <1>1
  <1>3. CASE periods = <<>>
    BY <1>3 DEF CurrentValue
  <1>4. CASE periods # <<>>
    <2>1. Len(periods) \in 1..Len(periods) /\ periods[Len(periods)].to = OpenEnded
      BY <1>1, <1>4 DEF ValueInv
    <2>2. ASSUME NEW i \in 1..Len(periods), i # Len(periods)
          PROVE  periods[i].to # OpenEnded
      <3>1. i \in 1..Len(periods) - 1 /\ i + 1 \in 1..Len(periods)
        <4>1. PICK n \in Nat : n = Len(periods)
          BY <1>1
        <4> QED BY <2>2, <4>1
      <3>2. periods[i].to = periods[i + 1].from
        BY <3>1 DEF ValueInv
      <3>3. periods[i + 1].from \in Dates
        BY <1>2, <3>1 DEF Period
      <3> QED BY <3>2, <3>3
    <2> QED BY <1>1, <1>4, <2>1, <2>2 DEF CurrentValue
  <1> QED BY <1>3, <1>4

LEMMA RecordInvInit == RecordInit => RecordInv
  <1> SUFFICES ASSUME RecordInit PROVE RecordInv
    OBVIOUS
  <1> USE DEF RecordInit
  <1>1. Len(periods) = 0 /\ Len(plans) = 0 /\ periods \in Seq(Period) /\ plans \in Seq(1..MaxPlans)
    OBVIOUS
  <1>2. RecordTypeOK
    BY <1>1, RecordAssumption DEF RecordTypeOK, Period
  <1>3. ValueInv /\ NumberInv
    BY <1>1 DEF ValueInv, NumberInv
  <1>4. PlanInv
    BY DEF PlanInv
  <1> QED BY <1>2, <1>3, <1>4 DEF RecordInv

(* What a request has read is one of the requests that may be.             *)
LEMMA ReadRowKeeps ==
  ASSUME RecordInv, NEW e \in Editors, NEW what \in EditRequests, ReadRow(e, what),
         what.kind = "plan" => what.version <= Len(plans) + 1
  PROVE  RecordInv'
  <1> USE RecordAssumption DEF ReadRow
  <1>1. edit' \in [Editors -> EditRequests \cup {NoEdit}]
    BY DEF RecordInv, RecordTypeOK
  <1>2. RecordTypeOK'
    BY <1>1 DEF RecordInv, RecordTypeOK
  <1>3. ValueInv' /\ NumberInv'
    BY DEF RecordInv, ValueInv, NumberInv
  <1>4. PlanInv'
    <2> SUFFICES ASSUME NEW d \in Editors, edit'[d] # NoEdit, edit'[d].kind = "plan"
                 PROVE  edit'[d].version <= Len(plans) + 1
      BY DEF PlanInv
    <2>1. edit'[d] = IF d = e THEN what ELSE edit[d]
      BY DEF RecordInv, RecordTypeOK
    <2> QED BY <2>1 DEF RecordInv, PlanInv
  <1> QED BY <1>2, <1>3, <1>4 DEF RecordInv

(* A write that leaves the values and the plans alone, or the values only. *)
LEMMA WriteRowKeeps ==
  ASSUME RecordInv, NEW e \in Editors, NEW kind, WriteRow(e, kind)
  PROVE  /\ edit' \in [Editors -> EditRequests \cup {NoEdit}]
         /\ edit[e] \in EditRequests /\ edit[e].kind = kind
         /\ Len(plans') >= Len(plans) /\ Len(plans) \in Nat /\ Len(plans') \in Nat => PlanInv'
  <1> USE RecordAssumption DEF WriteRow
  <1>1. edit \in [Editors -> EditRequests \cup {NoEdit}]
    BY DEF RecordInv, RecordTypeOK
  <1>2. \A d \in Editors : edit'[d] = IF d = e THEN NoEdit ELSE edit[d]
    BY <1>1
  <1>3. \A d \in Editors : edit[d] # NoEdit /\ edit[d].kind = "plan" => edit[d].version \in 1..MaxPlans
    BY <1>1 DEF EditRequests
  <1>4. ASSUME Len(plans') >= Len(plans), Len(plans) \in Nat, Len(plans') \in Nat PROVE PlanInv'
    BY <1>2, <1>3, <1>4 DEF RecordInv, PlanInv
  <1> QED BY <1>1, <1>4
(* set_property: what was current is closed at the date of the new value.  *)
Closed(new) ==
    [i \in DOMAIN periods |->
        IF i \in new.current THEN [periods[i] EXCEPT !.to = new.from] ELSE periods[i]]

LEMMA ClosedIs ==
  ASSUME RecordTypeOK, NEW new \in [kind : {"property"}, current : SUBSET (1..MaxPeriods), from : Dates]
  PROVE  /\ Closed(new) \in Seq(Period) /\ Len(Closed(new)) = Len(periods)
         /\ Len(periods) \in Nat /\ DOMAIN periods = 1..Len(periods)
         /\ \A i \in 1..Len(periods) :
               /\ periods[i] \in Period
               /\ Closed(new)[i] = IF i \in new.current THEN [periods[i] EXCEPT !.to = new.from]
                                   ELSE periods[i]
  <1>1. periods \in Seq(Period) /\ Len(periods) \in Nat /\ DOMAIN periods = 1..Len(periods)
    BY DEF RecordTypeOK, Period
  <1>2. \A i \in 1..Len(periods) : periods[i] \in Period
    BY <1>1
  <1>3. \A i \in 1..Len(periods) : [periods[i] EXCEPT !.to = new.from] \in Period
    BY <1>2 DEF Period
  <1>4. PICK n \in Nat : n = Len(periods)
    BY <1>1
  <1>5. Closed(new) \in [1..n -> Period]
    BY <1>1, <1>2, <1>3, <1>4 DEF Closed
  <1>6. Closed(new) \in Seq(Period)
    BY <1>5, IsASeq
  <1>7. Len(Closed(new)) = n
    BY <1>5, <1>6, LenProperties
  <1> QED BY <1>1, <1>2, <1>4, <1>6, <1>7 DEF Closed

LEMMA WritePropertyKeeps ==
  ASSUME RecordInv, NEW e \in Editors, WriteProperty(e)
  PROVE  RecordInv'
  <1> USE RecordAssumption
  <1>1. PICK new : new = edit[e]
    OBVIOUS
  <1>2. WriteRow(e, "property") /\ UNCHANGED <<label, plans, declaration>>
    BY DEF WriteProperty
  <1>3. new \in [kind : {"property"}, current : SUBSET (1..MaxPeriods), from : Dates]
    BY <1>1, <1>2, WriteRowKeeps DEF EditRequests
  <1>4. /\ \/ /\ \A i \in new.current : protect_node_property(i, new.from)
              /\ CurrentValue \subseteq new.current
              /\ Len(periods) < MaxPeriods
              /\ periods' = Append(Closed(new), [from |-> new.from, to |-> OpenEnded])
           \/ periods' = periods
    BY <1>1 DEF WriteProperty, Closed, uq_node_properties_open
  <1>5. CASE periods' = periods
    <2>1. PlanInv' /\ edit' \in [Editors -> EditRequests \cup {NoEdit}]
      BY <1>2, WriteRowKeeps DEF RecordInv, RecordTypeOK
    <2> QED BY <1>2, <1>5, <2>1 DEF RecordInv, RecordTypeOK, ValueInv, NumberInv
  <1>6. CASE /\ \A i \in new.current : protect_node_property(i, new.from)
             /\ CurrentValue \subseteq new.current
             /\ Len(periods) < MaxPeriods
             /\ periods' = Append(Closed(new), [from |-> new.from, to |-> OpenEnded])
    <2>1. PICK last : last = [from |-> new.from, to |-> OpenEnded]
      OBVIOUS
    <2>2. last \in Period
      BY <1>3, <2>1 DEF Period
    <2>3. PICK n \in Nat : n = Len(periods)
      BY <1>3, ClosedIs DEF RecordInv
    <2>4. PICK c : c = Closed(new)
      OBVIOUS
    <2>5. /\ c \in Seq(Period) /\ Len(c) = n /\ DOMAIN periods = 1..n
          /\ \A i \in 1..n :
                /\ periods[i] \in Period
                /\ c[i] = IF i \in new.current THEN [periods[i] EXCEPT !.to = new.from]
                                    ELSE periods[i]
      BY <1>3, <2>3, <2>4, ClosedIs DEF RecordInv
    <2>6. periods' = Append(c, last)
      BY <1>6, <2>1, <2>4
    <2>7. /\ periods' \in Seq(Period) /\ periods' # <<>> /\ Len(periods') = n + 1
          /\ \A i \in 1..n : periods'[i] = c[i]
          /\ periods'[n + 1] = last
      BY <2>2, <2>5, <2>6, AppendIs
    <2>8. \A i \in 1..n : c[i].from = periods[i].from
      BY <1>3, <2>5, ZenonT(40) DEF Period
    <2>9. \A i \in 1..n : c[i].to = IF i \in new.current THEN new.from ELSE periods[i].to
      BY <1>3, <2>5 DEF Period
    <2>10. n # 0 => n \in new.current
      BY <1>6, <2>3, CurrentIsLast DEF RecordInv
    <2>11. \A i \in 1..n - 1 : periods[i].to = periods[i + 1].from /\ periods[i].to # OpenEnded
      <3>1. \A i \in 1..n - 1 : periods[i].to = periods[i + 1].from
        BY <2>3 DEF RecordInv, ValueInv
      <3>2. \A i \in 1..n - 1 : periods[i + 1].from # OpenEnded
        BY <2>5 DEF Period
      <3> QED BY <3>1, <3>2
    <2>12. \A i \in 1..n - 1 : c[i].to = periods[i].to
      BY <1>6, <2>9, <2>11 DEF protect_node_property
    <2>13. ASSUME NEW i \in 1..Len(periods') - 1
           PROVE  periods'[i].to = periods'[i + 1].from
      <3>1. i \in 1..n
        BY <2>7
      <3>2. CASE i = n
        <4>1. periods'[i].to = new.from
          BY <2>7, <2>9, <2>10, <3>1, <3>2
        <4>2. periods'[i + 1] = last
          BY <2>7, <3>2
        <4> QED BY <2>1, <4>1, <4>2
      <3>3. CASE i # n
        <4>1. i \in 1..n - 1 /\ i + 1 \in 1..n
          BY <3>1, <3>3
        <4>2. periods'[i] = c[i] /\ periods'[i + 1] = c[i + 1]
          BY <2>7, <4>1, <3>1
        <4> QED BY <2>8, <2>11, <2>12, <4>1, <4>2
      <3> QED BY <3>2, <3>3
    <2>14. ValueInv'
      <3>1. periods'[Len(periods')].to = OpenEnded
        BY <2>1, <2>7
      <3> QED BY <2>13, <3>1 DEF ValueInv
    <2>15. PlanInv' /\ edit' \in [Editors -> EditRequests \cup {NoEdit}]
      BY <1>2, WriteRowKeeps DEF RecordInv, RecordTypeOK
    <2>16. Len(periods') <= MaxPeriods
      BY <1>6, <2>3, <2>7
    <2>17. RecordTypeOK'
      BY <1>2, <2>7, <2>15, <2>16 DEF RecordInv, RecordTypeOK, Period
    <2>18. NumberInv'
      BY <1>2 DEF RecordInv, NumberInv
    <2> QED BY <2>14, <2>15, <2>17, <2>18 DEF RecordInv
  <1> QED BY <1>4, <1>5, <1>6

LEMMA InsertPlanKeeps ==
  ASSUME RecordInv, NEW e \in Editors, InsertPlan(e)
  PROVE  RecordInv'
  <1> USE RecordAssumption
  <1>1. PICK v : v = edit[e].version
    OBVIOUS
  <1>2. PICK n : n = Len(plans)
    OBVIOUS
  <1>3. /\ WriteRow(e, "plan") /\ UNCHANGED <<periods, label, declaration>>
        /\ plans' = IF uq_floor_plans_version(v) THEN Append(plans, v) ELSE plans
    BY <1>1 DEF InsertPlan
  <1>4. v \in 1..MaxPlans /\ v <= n + 1
    BY <1>1, <1>2, <1>3, WriteRowKeeps DEF EditRequests, RecordInv, PlanInv, WriteRow
  <1>5. plans \in Seq(1..MaxPlans) /\ n \in Nat /\ DOMAIN plans = 1..n
    BY <1>2 DEF RecordInv, RecordTypeOK
  <1>6. \A i \in 1..n : plans[i] = i
    BY <1>5 DEF RecordInv, NumberInv
  <1>7. /\ plans' \in Seq(1..MaxPlans) /\ Len(plans') \in Nat /\ Len(plans') >= n
        /\ \A i \in DOMAIN plans' : plans'[i] = i
    <2>1. CASE uq_floor_plans_version(v)
      <3>1. plans' = Append(plans, v)
        BY <1>3, <2>1
      <3>2. v = n + 1
        BY <1>4, <1>5, <1>6, <2>1 DEF uq_floor_plans_version
      <3>3. /\ plans' \in Seq(1..MaxPlans) /\ Len(plans') = n + 1
            /\ DOMAIN plans' = 1..(n + 1) /\ plans'[n + 1] = v
            /\ \A i \in 1..n : plans'[i] = plans[i]
        BY <1>2, <1>4, <1>5, <3>1, AppendIs
      <3> QED BY <1>5, <1>6, <3>2, <3>3
    <2>2. CASE ~ uq_floor_plans_version(v)
      BY <1>2, <1>3, <1>5, <1>6, <2>2
    <2> QED BY <2>1, <2>2
  <1>8. PlanInv' /\ edit' \in [Editors -> EditRequests \cup {NoEdit}]
    BY <1>2, <1>3, <1>5, <1>7, WriteRowKeeps
  <1>9. RecordTypeOK'
    BY <1>3, <1>7, <1>8 DEF RecordInv, RecordTypeOK
  <1> QED BY <1>3, <1>7, <1>8, <1>9 DEF RecordInv, ValueInv, NumberInv

LEMMA OtherWritesKeep ==
  ASSUME RecordInv, NEW e \in Editors, WriteTag(e) \/ InsertDraft(e) \/ WriteDeclaration(e)
  PROVE  RecordInv'
  <1> USE RecordAssumption
  <1>1. UNCHANGED <<periods, plans>>
    BY DEF WriteTag, InsertDraft, WriteDeclaration
  <1>2. PICK kind : WriteRow(e, kind)
    BY DEF WriteTag, InsertDraft, WriteDeclaration
  <1>3. PlanInv' /\ edit' \in [Editors -> EditRequests \cup {NoEdit}]
    BY <1>1, <1>2, WriteRowKeeps DEF RecordInv, RecordTypeOK
  <1>4. /\ label' \in [status : {"active", "revoked"}, by : Editors \cup {Nobody}]
        /\ declaration' \in [status : {"none", "draft", "ready", "submitted"},
                        filled : BOOLEAN, by : Editors \cup {Nobody}, edits : 0..MaxEdits]
        /\ declaration'.status = "submitted" <=> declaration'.by # Nobody
    <2> USE DEF RecordInv, RecordTypeOK
    <2>1. CASE WriteTag(e)
      BY <2>1 DEF WriteTag
    <2>2. CASE InsertDraft(e)
      BY <2>2 DEF InsertDraft, uq_operat_declarations_site_year
    <2>3. CASE WriteDeclaration(e)
      <3>1. UNCHANGED label
        BY <2>3 DEF WriteDeclaration
      <3>2. CASE UNCHANGED declaration
        BY <3>1, <3>2
      <3>3. CASE ~ UNCHANGED declaration
        <4>1. declaration.status # "submitted" /\ declaration.edits < MaxEdits
          BY <2>3, <3>3 DEF WriteDeclaration, protect_operat_declaration_update
        <4>2. PICK k \in {"update", "ready", "submission"} : WriteRow(e, k)
          BY <2>3 DEF WriteDeclaration
        <4>3. edit[e].kind = k /\ edit[e] \in EditRequests
          BY <4>2, WriteRowKeeps
        <4>4. declaration.edits + 1 \in 0..MaxEdits /\ declaration.by = Nobody
          BY <4>1
        <4>5. CASE k = "update"
          <5>1. declaration' = [declaration EXCEPT !.filled = edit[e].filled, !.edits = @ + 1]
            BY <2>3, <3>3, <4>3, <4>5 DEF WriteDeclaration
          <5>2. edit[e].filled \in BOOLEAN
            BY <4>3, <4>5 DEF EditRequests
          <5> QED BY <3>1, <4>1, <4>4, <5>1, <5>2
        <4>6. CASE k = "ready"
          <5>1. declaration' = [declaration EXCEPT !.status = "ready", !.edits = @ + 1]
            BY <2>3, <3>3, <4>3, <4>6 DEF WriteDeclaration
          <5> QED BY <3>1, <4>1, <4>4, <5>1
        <4>7. CASE k = "submission"
          <5>1. declaration' = [declaration EXCEPT !.status = "submitted", !.by = e, !.edits = @ + 1]
            BY <2>3, <3>3, <4>3, <4>7 DEF WriteDeclaration
          <5> QED BY <3>1, <4>1, <4>4, <5>1
        <4> QED BY <4>5, <4>6, <4>7
      <3> QED BY <3>2, <3>3
    <2> QED BY <2>1, <2>2, <2>3
  <1>5. RecordTypeOK'
    BY <1>1, <1>3, <1>4 DEF RecordInv, RecordTypeOK
  <1> QED BY <1>1, <1>3, <1>5 DEF RecordInv, ValueInv, NumberInv

LEMMA RecordInvStep == RecordInv /\ [RecordNext]_recordVars => RecordInv'
  <1> USE RecordAssumption
  <1> SUFFICES ASSUME RecordInv, [RecordNext]_recordVars PROVE RecordInv'
    OBVIOUS
  <1>1. CASE UNCHANGED recordVars
    BY <1>1 DEF RecordInv, RecordTypeOK, ValueInv, NumberInv, PlanInv, recordVars
  <1>2. ASSUME NEW e \in Editors, NEW d \in Dates, set_property(e, d)
        PROVE  RecordInv'
    <2>1. PICK what : what = [kind |-> "property", current |-> CurrentValue, from |-> d]
      OBVIOUS
    <2>2. CurrentValue \in SUBSET (1..MaxPeriods)
      <3>1. Len(periods) \in Nat /\ DOMAIN periods = 1..Len(periods) /\ Len(periods) <= MaxPeriods
        BY DEF RecordInv, RecordTypeOK
      <3> QED BY <3>1 DEF CurrentValue
    <2>3. what \in EditRequests /\ what.kind = "property"
      BY <2>1, <2>2 DEF EditRequests
    <2>4. ReadRow(e, what)
      BY <1>2, <2>1 DEF set_property
    <2> QED BY <2>3, <2>4, ReadRowKeeps
  <1>3. ASSUME NEW e \in Editors, NEW v \in 1..MaxPlans, record_floor_plan(e, v)
        PROVE  RecordInv'
    <2>1. PICK what : what = [kind |-> "plan", version |-> v]
      OBVIOUS
    <2>2. v <= Len(plans) + 1
      <3>1. Len(plans) \in Nat /\ DOMAIN plans = 1..Len(plans)
        BY DEF RecordInv, RecordTypeOK
      <3>2. \A i \in DOMAIN plans : plans[i] = i
        BY DEF RecordInv, NumberInv
      <3>3. v = 1 \/ \E i \in DOMAIN plans : plans[i] = v - 1
        BY <1>3 DEF record_floor_plan
      <3> QED BY <3>1, <3>2, <3>3
    <2>3. what \in EditRequests /\ ReadRow(e, what)
      BY <1>3, <2>1 DEF EditRequests, record_floor_plan
    <2> QED BY <2>1, <2>2, <2>3, ReadRowKeeps
  <1>4. ASSUME NEW e \in Editors, NEW filled \in BOOLEAN, update_declaration(e, filled)
        PROVE  RecordInv'
    <2>1. PICK what : what = [kind |-> "update", filled |-> filled]
      OBVIOUS
    <2>2. what \in EditRequests /\ what.kind = "update" /\ ReadRow(e, what)
      BY <1>4, <2>1 DEF EditRequests, update_declaration
    <2> QED BY <2>2, ReadRowKeeps
  <1>5. ASSUME NEW e \in Editors, NEW kind \in {"label", "draft", "ready", "submission"},
               ReadRow(e, [kind |-> kind])
        PROVE  RecordInv'
    <2>1. PICK what : what = [kind |-> kind]
      OBVIOUS
    <2>2. what \in EditRequests /\ what.kind # "plan" /\ ReadRow(e, what)
      BY <1>5, <2>1 DEF EditRequests
    <2> QED BY <2>2, ReadRowKeeps
  <1>6. ASSUME NEW e \in Editors,
               \/ revoke_tag(e) \/ create_draft_declaration(e)
               \/ mark_ready(e) \/ record_manual_submission(e)
        PROVE  RecordInv'
    BY <1>5, <1>6 DEF revoke_tag, create_draft_declaration, mark_ready, record_manual_submission
  <1> QED
    BY <1>1, <1>2, <1>3, <1>4, <1>6, WritePropertyKeeps, InsertPlanKeeps, OtherWritesKeep
    DEF RecordNext

LEMMA RecordInvariant == RecordSpec => []RecordInv
  BY RecordInvInit, RecordInvStep, PTL DEF RecordSpec

(* The rows of the four tables and what the open requests have read.       *)
THEOREM RecordTypeCorrect == RecordSpec => []RecordTypeOK
  <1>1. RecordInv => RecordTypeOK
    BY DEF RecordInv
  <1> QED BY <1>1, RecordInvariant, PTL

(* At every date a property has one value, and plans are numbered without  *)
(* a gap, although each request writes from what it read before others     *)
(* wrote (uq_node_properties_open and protect_node_property,               *)
(* uq_floor_plans_version).                                                *)
THEOREM OneValueAtATimeHolds == RecordSpec => []OneValueAtATime
  <1>1. RecordInv => OneValueAtATime
    <2> SUFFICES ASSUME RecordInv PROVE OneValueAtATime
      OBVIOUS
    <2>1. CurrentValue = IF periods = <<>> THEN {} ELSE {Len(periods)}
      BY CurrentIsLast DEF RecordInv
    <2>2. \A x : Cardinality({x}) = 1
      BY FS_Singleton, Zenon
    <2>3. periods # <<>> => Cardinality(CurrentValue) = 1
      BY <2>1, <2>2
    <2> QED BY <2>3 DEF RecordInv, ValueInv, NumberInv, OneValueAtATime
  <1> QED BY <1>1, RecordInvariant, PTL

(* What is settled stays (protect_operat_declaration_update,               *)
(* protect_asset_tag, protect_node_property).                              *)
THEOREM SettledKeptHolds == RecordSpec => [][SettledKept]_recordVars
  <1>1. RecordInv /\ [RecordNext]_recordVars => [SettledKept]_recordVars
    <2> SUFFICES ASSUME RecordInv, [RecordNext]_recordVars PROVE SettledKept
      OBVIOUS
    <2>1. declaration.status = "submitted" => declaration' = declaration
      BY DEF RecordNext, ReadRow, set_property, WriteProperty, revoke_tag, WriteTag,
             record_floor_plan, InsertPlan, create_draft_declaration, InsertDraft,
             update_declaration, mark_ready, record_manual_submission, WriteDeclaration,
             protect_operat_declaration_update, uq_operat_declarations_site_year, recordVars
    <2>2. label.status = "revoked" => label' = label
      BY DEF RecordNext, ReadRow, set_property, WriteProperty, revoke_tag, WriteTag,
             record_floor_plan, InsertPlan, create_draft_declaration, InsertDraft,
             update_declaration, mark_ready, record_manual_submission, WriteDeclaration,
             protect_asset_tag, recordVars
    <2>3. ASSUME NEW i \in DOMAIN periods \ CurrentValue
          PROVE  periods'[i] = periods[i]
      <3>1. CASE periods' = periods
        BY <3>1
      <3>2. CASE periods' # periods
        <4>1. PICK e \in Editors : WriteProperty(e)
          BY <3>2 DEF RecordNext, ReadRow, set_property, revoke_tag, WriteTag,
             record_floor_plan, InsertPlan, create_draft_declaration, InsertDraft,
             update_declaration, mark_ready, record_manual_submission, WriteDeclaration,
             recordVars
        <4>2. PICK new : new = edit[e]
          OBVIOUS
        <4>3. new \in [kind : {"property"}, current : SUBSET (1..MaxPeriods), from : Dates]
          <5>1. WriteRow(e, "property")
            BY <4>1 DEF WriteProperty
          <5> QED BY <4>2, <5>1, WriteRowKeeps DEF EditRequests
        <4>4. /\ \A j \in new.current : protect_node_property(j, new.from)
              /\ periods' = Append(Closed(new), [from |-> new.from, to |-> OpenEnded])
          BY <3>2, <4>1, <4>2 DEF WriteProperty, Closed
        <4>5. PICK c : c = Closed(new)
          OBVIOUS
        <4>6. PICK last \in Period : last = [from |-> new.from, to |-> OpenEnded]
          BY <4>3 DEF Period
        <4>7. /\ c \in Seq(Period) /\ Len(c) = Len(periods) /\ i \in 1..Len(periods)
              /\ periods[i] \in Period /\ periods[i].to # OpenEnded
              /\ c[i] = IF i \in new.current THEN [periods[i] EXCEPT !.to = new.from]
                        ELSE periods[i]
          BY <2>3, <4>3, <4>5, ClosedIs DEF RecordInv, CurrentValue
        <4>8. c[i] = periods[i]
          BY <4>4, <4>7 DEF protect_node_property, Period
        <4>9. periods'[i] = c[i]
          <5>1. periods' = Append(c, last)
            BY <4>4, <4>5, <4>6
          <5> QED BY <4>7, <5>1, AppendIs
        <4> QED BY <4>8, <4>9
      <3> QED BY <3>1, <3>2
    <2> QED BY <2>1, <2>2, <2>3 DEF SettledKept
  <1> QED BY <1>1, RecordInvariant, PTL DEF RecordSpec

-----------------------------------------------------------------------------
(* EdgeDevices.                                                            *)

(* What is shown of a device, against what was heard of it.                *)
HeardOf(row, h) ==
    /\ row.last_seen = Unsaid <=> h.at = Unsaid
    /\ row.last_seen <= h.at /\ h.at <= clock
    /\ row.pending # Unsaid <=> h.told
    /\ row.status = "active" <=> row.revoked_by = NoAct

ShownInv ==
    /\ \A n \in Registered : HeardOf(devices[n], heard[n])
    /\ \A r \in Reports : reporting[r] # NoAct => reporting[r].at <= clock

LabelInv ==
    \A m, n \in Registered : devices[m].device_id = devices[n].device_id => m = n

(* The last entry of the journal about a device names its key.             *)
LastEntry(n, i) ==
    /\ i \in 1..Len(identities) /\ identities[i].n = n
    /\ \A j \in 1..Len(identities) : identities[j].n = n => j <= i
IdentityInv ==
    \A n \in Registered :
        \E i \in 1..Len(identities) : LastEntry(n, i) /\ identities[i].new = devices[n].key

DevicesInv == DevicesTypeOK /\ ShownInv /\ LabelInv /\ IdentityInv

HeardRows == [at : SeenAt, told : BOOLEAN]

LEMMA DevicesInvInit == DevicesInit => DevicesInv
  <1> USE DevicesAssumption
  <1> SUFFICES ASSUME DevicesInit PROVE DevicesInv
    OBVIOUS
  <1>0. /\ acting \in [Staff -> StaffRequests \cup {NoAct}]
        /\ reporting \in [Reports -> DeviceReports \cup {NoAct}]
        /\ clock \in 0..MaxClock /\ acts \in 0..MaxActs
        /\ \A s \in Staff : acting[s] = NoAct
        /\ \A r \in Reports : reporting[r] = NoAct
    BY DEF DevicesInit
  <1>1. CASE devices = <<>> /\ identities = <<>> /\ heard = <<>>
    <2>1. Len(devices) = 0 /\ Len(heard) = 0 /\ Registered = {}
      BY <1>1 DEF Registered
    <2>2. devices \in Seq(DeviceRows) /\ identities \in Seq(IdentityEntries) /\ heard \in Seq(HeardRows)
      BY <1>1
    <2> QED BY <1>0, <2>1, <2>2
        DEF DevicesInv, DevicesTypeOK, ShownInv, LabelInv, IdentityInv, HeardRows
  <1>2. ASSUME NEW d \in DeviceIds, devices = <<Provisioned(d, NoKey)>>,
               identities = <<[n |-> 1, old |-> NoKey, new |-> NoKey]>>, heard = <<Unheard>>
        PROVE  DevicesInv
    <2>1. Provisioned(d, NoKey) \in DeviceRows
      BY DEF Provisioned, DeviceRows, KeysKnown, SeenAt
    <2>2. Unheard \in HeardRows
      BY DEF Unheard, HeardRows, SeenAt
    <2>3. PICK e : e = [n |-> 1, old |-> NoKey, new |-> NoKey]
      OBVIOUS
    <2>4. e \in IdentityEntries
      BY <2>3 DEF IdentityEntries, KeysKnown
    <2>5. /\ devices \in Seq(DeviceRows) /\ Len(devices) = 1 /\ devices[1] = Provisioned(d, NoKey)
          /\ identities \in Seq(IdentityEntries) /\ Len(identities) = 1 /\ identities[1] = e
          /\ heard \in Seq(HeardRows) /\ Len(heard) = 1 /\ heard[1] = Unheard
      BY <1>2, <2>1, <2>2, <2>3, <2>4
    <2>6. Registered = {1}
      BY <2>5 DEF Registered
    <2>7. DevicesTypeOK
      BY <1>0, <2>5 DEF DevicesTypeOK, HeardRows
    <2>8. HeardOf(devices[1], heard[1])
      BY <1>0, <2>5 DEF HeardOf, Provisioned, Unheard, Unsaid
    <2>9. LastEntry(1, 1) /\ identities[1].new = devices[1].key
      BY <2>3, <2>5 DEF LastEntry, Provisioned
    <2> QED BY <1>0, <2>5, <2>6, <2>7, <2>8, <2>9 DEF DevicesInv, ShownInv, LabelInv, IdentityInv
  <1> QED BY <1>1, <1>2 DEF DevicesInit

(* What the variables are, as numbers and rows. *)
LEMMA DevicesAre ==
  ASSUME DevicesTypeOK
  PROVE  /\ Len(devices) \in Nat /\ DOMAIN devices = 1..Len(devices)
         /\ DOMAIN heard = 1..Len(devices)
         /\ \A n \in 1..Len(devices) : devices[n] \in DeviceRows /\ heard[n] \in HeardRows
         /\ Len(identities) \in Nat /\ DOMAIN identities = 1..Len(identities)
         /\ \A i \in 1..Len(identities) : identities[i] \in IdentityEntries
         /\ Registered = 1..Len(devices) /\ clock \in Int
         /\ \A s \in Staff : acting[s] = NoAct \/ acting[s] \in StaffRequests
         /\ \A r \in Reports : reporting[r] = NoAct \/ reporting[r] \in DeviceReports
  <1>1. /\ devices \in Seq(DeviceRows) /\ identities \in Seq(IdentityEntries)
        /\ heard \in Seq(HeardRows) /\ Len(heard) = Len(devices)
    BY DEF DevicesTypeOK, HeardRows
  <1>2. /\ Len(devices) \in Nat /\ DOMAIN devices = 1..Len(devices)
        /\ \A n \in 1..Len(devices) : devices[n] \in DeviceRows
    BY <1>1, LenProperties, ElementOfSeq
  <1>3. /\ Len(identities) \in Nat /\ DOMAIN identities = 1..Len(identities)
        /\ \A n \in 1..Len(identities) : identities[n] \in IdentityEntries
    BY <1>1, LenProperties, ElementOfSeq
  <1>4. DOMAIN heard = 1..Len(devices) /\ \A n \in 1..Len(devices) : heard[n] \in HeardRows
    BY <1>1, LenProperties, ElementOfSeq
  <1>5. clock \in Int
    BY DevicesAssumption DEF DevicesTypeOK
  <1> QED BY <1>2, <1>3, <1>4, <1>5 DEF DevicesTypeOK, Registered

LEMMA BeforeLast ==
  ASSUME NEW k \in Nat, NEW j \in 1..(k + 1), j # k + 1
  PROVE  j \in 1..k
  OBVIOUS

(* A step that appends an entry about one device, whose key it names. *)
LEMMA AppendedEntry ==
  ASSUME DevicesTypeOK, IdentityInv, NEW e \in IdentityEntries,
         identities' = Append(identities, e),
         e.n \in 1..Len(devices'), e.new = devices'[e.n].key,
         \A n \in 1..Len(devices') : n # e.n => n \in 1..Len(devices) /\ devices'[n].key = devices[n].key
  PROVE  identities' \in Seq(IdentityEntries) /\ IdentityInv'
  <1>1. PICK k \in Nat : k = Len(identities)
    BY DevicesAre
  <1>2. /\ identities' \in Seq(IdentityEntries) /\ Len(identities') = k + 1
        /\ \A i \in 1..k : identities'[i] = identities[i]
        /\ identities'[k + 1] = e
    BY <1>1, AppendIs DEF DevicesTypeOK
  <1>3. ASSUME NEW n \in 1..Len(devices')
        PROVE  \E i \in 1..(k + 1) :
                  /\ identities'[i].n = n
                  /\ \A j \in 1..(k + 1) : identities'[j].n = n => j <= i
                  /\ identities'[i].new = devices'[n].key
    <2>1. CASE n = e.n
      <3>1. k + 1 \in 1..(k + 1) /\ \A j \in 1..(k + 1) : j <= k + 1
        BY <1>1
      <3> QED BY <1>2, <2>1, <3>1
    <2>2. CASE n # e.n
      <3>1. n \in 1..Len(devices) /\ devices'[n].key = devices[n].key
        BY <2>2
      <3>2. PICK i \in 1..k : LastEntry(n, i) /\ identities[i].new = devices[n].key
        BY <1>1, <3>1 DEF IdentityInv, Registered
      <3>3. i \in 1..(k + 1) /\ identities'[i] = identities[i]
        BY <1>1, <1>2
      <3>4. identities'[i].n = n /\ identities'[i].new = devices'[n].key
        BY <3>1, <3>2, <3>3 DEF LastEntry
      <3>5. ASSUME NEW j \in 1..(k + 1), identities'[j].n = n
            PROVE  j <= i
        <4>1. j # k + 1
          BY <1>2, <2>2, <3>5
        <4>2. j \in 1..k
          BY <1>1, <3>5, <4>1, BeforeLast
        <4>3. identities[j].n = n
          BY <1>2, <3>5, <4>2
        <4> QED BY <1>1, <3>2, <4>2, <4>3 DEF LastEntry
      <3> QED BY <3>3, <3>4, <3>5
    <2> QED BY <2>1, <2>2
  <1> QED BY <1>1, <1>2, <1>3 DEF IdentityInv, LastEntry, Registered
-----------------------------------------------------------------------------
(* A step that leaves the rows, the journal and what was heard as they are.*)
LEMMA RequestStep ==
  ASSUME DevicesInv, UNCHANGED <<devices, identities, heard>>, DevicesTypeOK',
         clock <= clock',
         \A r \in Reports : reporting'[r] # NoAct => reporting'[r].at <= clock'
  PROVE  DevicesInv'
  <1>1. clock \in Int /\ clock' \in Int
    BY DevicesAssumption DEF DevicesInv, DevicesTypeOK
  <1>2. Registered' = Registered
    BY DEF Registered
  <1>3. ASSUME NEW n \in Registered PROVE HeardOf(devices[n], heard[n])'
    <2>1. HeardOf(devices[n], heard[n]) /\ heard[n].at \in Int
      <3>1. heard[n] \in HeardRows
        BY <1>3, DevicesAre DEF DevicesInv
      <3> QED BY <1>3, <3>1 DEF DevicesInv, ShownInv, HeardRows, SeenAt, Unsaid
    <2> QED BY <1>1, <2>1 DEF HeardOf
  <1>4. ShownInv'
    BY <1>2, <1>3 DEF ShownInv
  <1>5. LabelInv'
    BY <1>2 DEF DevicesInv, LabelInv
  <1>6. IdentityInv'
    BY <1>2 DEF DevicesInv, IdentityInv, LastEntry
  <1> QED BY <1>4, <1>5, <1>6 DEF DevicesInv

LEMMA LookForLabelKeeps ==
  ASSUME DevicesInv, NEW s \in Staff, NEW d \in DeviceIds, NEW k \in Fingerprints \cup {NoKey},
         LookForLabel(s, d, k)
  PROVE  DevicesInv'
  <1> USE DevicesAssumption
  <1>1. PICK a : a = [act |-> "provision", device_id |-> d, key |-> k]
    OBVIOUS
  <1>2. a \in StaffRequests /\ a.act = "provision"
    BY <1>1 DEF StaffRequests, KeysKnown
  <1>3. acting' = [acting EXCEPT ![s] = a]
    BY <1>1 DEF LookForLabel
  <1>4. UNCHANGED <<devices, identities, reporting, clock, heard>> /\ acts' \in 0..MaxActs
    BY DEF LookForLabel, DevicesInv, DevicesTypeOK
  <1>5. DevicesTypeOK'
    BY <1>2, <1>3, <1>4 DEF DevicesInv, DevicesTypeOK, Registered
  <1> QED BY <1>4, <1>5, RequestStep DEF DevicesInv, ShownInv, DevicesTypeOK

LEMMA ReadFingerprintKeeps ==
  ASSUME DevicesInv, NEW s \in Staff, NEW n \in Registered, NEW k \in Fingerprints,
         ReadFingerprint(s, n, k)
  PROVE  DevicesInv'
  <1> USE DevicesAssumption
  <1>1. PICK a : a = [act |-> "key", n |-> n, key |-> k, old |-> devices[n].key]
    OBVIOUS
  <1>2. n \in 1..MaxDevices /\ devices[n].key \in KeysKnown
    BY DevicesAre DEF DevicesInv, DevicesTypeOK, DeviceRows
  <1>3. a \in StaffRequests /\ a.n = n
    BY <1>1, <1>2 DEF StaffRequests
  <1>4. acting' = [acting EXCEPT ![s] = a]
    BY <1>1 DEF ReadFingerprint
  <1>5. UNCHANGED <<devices, identities, reporting, clock, heard>> /\ acts' \in 0..MaxActs
    BY DEF ReadFingerprint, DevicesInv, DevicesTypeOK
  <1>6. DevicesTypeOK'
    BY <1>3, <1>4, <1>5 DEF DevicesInv, DevicesTypeOK, Registered
  <1> QED BY <1>5, <1>6, RequestStep DEF DevicesInv, ShownInv, DevicesTypeOK

(* A request of a device that begins, at an instant of the clock or none. *)
LEMMA ReportKeeps ==
  ASSUME DevicesInv, NEW r \in Reports, NEW q \in DeviceReports,
         q.n \in Registered, q.at <= clock,
         reporting' = [reporting EXCEPT ![r] = q],
         UNCHANGED <<devices, identities, acting, clock, heard, acts>>
  PROVE  DevicesInv'
  <1> USE DevicesAssumption
  <1>1. DevicesTypeOK'
    BY DEF DevicesInv, DevicesTypeOK, Registered
  <1>2. \A p \in Reports : reporting'[p] # NoAct => reporting'[p].at <= clock
    BY DEF DevicesInv, DevicesTypeOK, ShownInv
  <1>3. clock <= clock'
    BY DEF DevicesInv, DevicesTypeOK
  <1> QED BY <1>1, <1>2, <1>3, RequestStep

LEMMA ReportsKeep ==
  ASSUME DevicesInv, NEW r \in Reports, NEW n \in Registered
  PROVE  /\ \A p \in Counts \cup {Unsaid} : create_edge_measurements(r, n, p) => DevicesInv'
         /\ authenticate_device_route(r, n) => DevicesInv'
  <1> USE DevicesAssumption
  <1>1. n \in 1..MaxDevices /\ clock \in SeenAt /\ Unsaid \in SeenAt /\ Unsaid <= clock /\ clock <= clock
    BY DevicesAre DEF DevicesInv, DevicesTypeOK, SeenAt, Unsaid
  <1>2. ASSUME NEW p \in Counts \cup {Unsaid}, create_edge_measurements(r, n, p)
        PROVE  DevicesInv'
    <2>1. PICK q : q = [n |-> n, at |-> clock, pending |-> p]
      OBVIOUS
    <2>2. q \in DeviceReports /\ q.n = n /\ q.at = clock
      BY <1>1, <2>1 DEF DeviceReports
    <2>3. /\ reporting' = [reporting EXCEPT ![r] = q]
          /\ UNCHANGED <<devices, identities, acting, clock, heard, acts>>
      BY <1>2, <2>1 DEF create_edge_measurements
    <2> QED BY <1>1, <2>2, <2>3, ReportKeeps
  <1>3. ASSUME authenticate_device_route(r, n)
        PROVE  DevicesInv'
    <2>1. PICK q : q = [n |-> n, at |-> Unsaid, pending |-> Unsaid]
      OBVIOUS
    <2>2. q \in DeviceReports /\ q.n = n /\ q.at = Unsaid
      BY <1>1, <2>1 DEF DeviceReports
    <2>3. /\ reporting' = [reporting EXCEPT ![r] = q]
          /\ UNCHANGED <<devices, identities, acting, clock, heard, acts>>
      BY <1>3, <2>1 DEF authenticate_device_route
    <2> QED BY <1>1, <2>2, <2>3, ReportKeeps
  <1> QED BY <1>2, <1>3

LEMMA ClockTicksKeeps == ASSUME DevicesInv, ClockTicks PROVE DevicesInv'
  <1> USE DevicesAssumption
  <1>1. /\ clock \in 0..MaxClock /\ clock' = clock + 1 /\ clock' \in 0..MaxClock
        /\ UNCHANGED <<devices, identities, acting, reporting, heard, acts>>
    BY DEF ClockTicks, DevicesInv, DevicesTypeOK
  <1>2. DevicesTypeOK'
    BY <1>1 DEF DevicesInv, DevicesTypeOK, Registered
  <1>3. \A r \in Reports : reporting'[r] # NoAct => reporting'[r].at <= clock'
    <2> SUFFICES ASSUME NEW r \in Reports, reporting[r] # NoAct PROVE reporting[r].at <= clock'
      BY <1>1
    <2>1. reporting[r].at \in Int
      BY DevicesAre DEF DevicesInv, DeviceReports, SeenAt, Unsaid
    <2>2. reporting[r].at <= clock
      BY DEF DevicesInv, ShownInv
    <2> QED BY <1>1, <2>1, <2>2
  <1> QED BY <1>1, <1>2, <1>3, RequestStep
LEMMA AppendKeeps ==
  ASSUME NEW S, NEW s \in Seq(S), NEW x, NEW i \in 1..Len(s)
  PROVE  Append(s, x)[i] = s[i]
  OBVIOUS

LEMMA ExceptItself ==
  ASSUME NEW S, NEW s \in Seq(S), NEW i \in 1..Len(s)
  PROVE  [s EXCEPT ![i] = s[i]] = s
  OBVIOUS

-----------------------------------------------------------------------------
(* Steps that write.                                                       *)
LEMMA ProvisionKeeps ==
  ASSUME DevicesInv, NEW s \in Staff, provision_device(s)
  PROVE  DevicesInv'
  <1> USE DevicesAssumption
  <1>1. PICK a : a = acting[s]
    OBVIOUS
  <1>2. /\ a # NoAct /\ a.act = "provision" /\ acting' = [acting EXCEPT ![s] = NoAct]
        /\ UNCHANGED <<reporting, clock, acts>>
    BY <1>1 DEF provision_device
  <1>3. a.device_id \in DeviceIds /\ a.key \in KeysKnown
    BY <1>1, <1>2, DevicesAre DEF DevicesInv, StaffRequests
  <1>4. CASE UNCHANGED <<devices, identities, heard>>
    <2>1. DevicesTypeOK'
      BY <1>2, <1>4 DEF DevicesInv, DevicesTypeOK, Registered
    <2> QED BY <1>2, <1>4, <2>1, RequestStep DEF DevicesInv, ShownInv, DevicesTypeOK
  <1>5. CASE ~ UNCHANGED <<devices, identities, heard>>
    <2>1. PICK n \in Nat : n = Len(devices)
      BY DevicesAre DEF DevicesInv
    <2>2. PICK row : row = Provisioned(a.device_id, a.key)
      OBVIOUS
    <2>3. PICK e : e = [n |-> n + 1, old |-> NoKey, new |-> a.key]
      OBVIOUS
    <2>4. /\ ~ Labelled(a.device_id) /\ n < MaxDevices
          /\ devices' = Append(devices, row)
          /\ heard' = Append(heard, Unheard)
          /\ identities' = Append(identities, e)
      BY <1>1, <1>5, <2>1, <2>2, <2>3 DEF provision_device, uq_edge_devices_tenant_device_id
    <2>5. /\ row \in DeviceRows /\ row.key = a.key /\ row.device_id = a.device_id
          /\ HeardOf(row, Unheard)
      BY <1>3, <2>2 DEF Provisioned, DeviceRows, KeysKnown, SeenAt, HeardOf, Unheard, Unsaid,
                        DevicesInv, DevicesTypeOK
    <2>6. Unheard \in HeardRows
      BY DEF Unheard, HeardRows, SeenAt
    <2>7. e \in IdentityEntries /\ e.n = n + 1 /\ e.new = a.key
      BY <1>3, <2>1, <2>3, <2>4 DEF IdentityEntries, KeysKnown
    <2>8. /\ devices' \in Seq(DeviceRows) /\ Len(devices') = n + 1
          /\ \A m \in 1..n : devices'[m] = devices[m]
          /\ devices'[n + 1] = row
      BY <2>1, <2>4, <2>5, AppendIs DEF DevicesInv, DevicesTypeOK
    <2>9. /\ heard' \in Seq(HeardRows) /\ Len(heard') = n + 1
          /\ \A m \in 1..n : heard'[m] = heard[m]
          /\ heard'[n + 1] = Unheard
      <3>1. heard \in Seq(HeardRows) /\ Len(heard) = n
        BY <2>1 DEF DevicesInv, DevicesTypeOK, HeardRows
      <3> QED BY <2>4, <2>6, <3>1, AppendIs
    <2>10. \A m \in 1..(n + 1) : m = n + 1 \/ m \in 1..n
      BY <2>1
    <2>11. identities' \in Seq(IdentityEntries) /\ IdentityInv'
      <3>1. e.n \in 1..Len(devices') /\ e.new = devices'[e.n].key
        BY <2>1, <2>5, <2>7, <2>8
      <3>2. \A m \in 1..Len(devices') : m # e.n => m \in 1..Len(devices) /\ devices'[m].key = devices[m].key
        BY <2>1, <2>7, <2>8, <2>10
      <3> QED BY <2>4, <2>7, <3>1, <3>2, AppendedEntry DEF DevicesInv
    <2>12. 1..n \subseteq 1..(n + 1) /\ n + 1 <= MaxDevices
      BY <2>1, <2>4
    <2>13. DevicesTypeOK'
      BY <1>2, <2>1, <2>8, <2>9, <2>11, <2>12 DEF DevicesInv, DevicesTypeOK, Registered, HeardRows
    <2>14. ShownInv'
      <3>1. \A m \in 1..n : HeardOf(devices[m], heard[m])
        BY <2>1 DEF DevicesInv, ShownInv, Registered
      <3>2. \A m \in 1..(n + 1) : HeardOf(devices'[m], heard'[m])
        BY <2>5, <2>8, <2>9, <2>10, <3>1
      <3>3. \A m \in 1..(n + 1) : HeardOf(devices[m], heard[m])'
        BY <1>2, <3>2 DEF HeardOf
      <3>4. Registered' = 1..(n + 1)
        BY <2>8 DEF Registered
      <3> QED BY <1>2, <3>3, <3>4 DEF DevicesInv, ShownInv
    <2>15. LabelInv'
      <3>1. \A m \in 1..n : devices[m].device_id # a.device_id
        BY <2>1, <2>4 DEF Labelled, Registered
      <3>2. \A m, p \in 1..n : devices[m].device_id = devices[p].device_id => m = p
        BY <2>1 DEF DevicesInv, LabelInv, Registered
      <3>3. \A m, p \in 1..(n + 1) : devices'[m].device_id = devices'[p].device_id => m = p
        BY <2>5, <2>8, <2>10, <3>1, <3>2
      <3> QED BY <2>8, <3>3 DEF LabelInv, Registered
    <2> QED BY <2>11, <2>13, <2>14, <2>15 DEF DevicesInv
  <1> QED BY <1>4, <1>5

(* One row changes, and stays what was heard of it.                        *)
LEMMA RowStep ==
  ASSUME DevicesInv, NEW n \in Registered, NEW row \in DeviceRows, NEW h \in HeardRows,
         devices' = [devices EXCEPT ![n] = row], heard' = [heard EXCEPT ![n] = h],
         row.device_id = devices[n].device_id, HeardOf(row, h), UNCHANGED clock
  PROVE  /\ devices' \in Seq(DeviceRows) /\ Len(devices') = Len(devices)
         /\ heard' \in Seq(HeardRows) /\ Len(heard') = Len(heard)
         /\ Registered' = Registered
         /\ \A m \in Registered : devices'[m] = IF m = n THEN row ELSE devices[m]
         /\ \A m \in Registered : HeardOf(devices[m], heard[m])'
         /\ LabelInv'
  <1>1. /\ devices \in Seq(DeviceRows) /\ heard \in Seq(HeardRows) /\ Len(heard) = Len(devices)
        /\ n \in 1..Len(devices)
    BY DEF DevicesInv, DevicesTypeOK, HeardRows, Registered
  <1>2. /\ devices' \in Seq(DeviceRows) /\ Len(devices') = Len(devices)
        /\ heard' \in Seq(HeardRows) /\ Len(heard') = Len(heard)
    BY <1>1, ExceptSeq
  <1>3. /\ \A m \in 1..Len(devices) : devices'[m] = IF m = n THEN row ELSE devices[m]
        /\ \A m \in 1..Len(devices) : heard'[m] = IF m = n THEN h ELSE heard[m]
    BY <1>1
  <1>4. Registered' = Registered /\ Registered = 1..Len(devices)
    BY <1>2 DEF Registered
  <1>5. \A m \in Registered : HeardOf(devices[m], heard[m])'
    <2>1. \A m \in Registered : HeardOf(devices'[m], heard'[m])
      BY <1>3, <1>4 DEF DevicesInv, ShownInv
    <2> QED BY <2>1 DEF HeardOf
  <1>6. LabelInv'
    BY <1>3, <1>4 DEF DevicesInv, LabelInv
  <1> QED BY <1>2, <1>3, <1>4, <1>5, <1>6

LEMMA SetKeyKeeps ==
  ASSUME DevicesInv, NEW s \in Staff, set_public_key(s)
  PROVE  DevicesInv'
  <1> USE DevicesAssumption
  <1>1. PICK a : a = acting[s]
    OBVIOUS
  <1>2. /\ a # NoAct /\ a.act = "key" /\ acting' = [acting EXCEPT ![s] = NoAct]
        /\ UNCHANGED <<reporting, clock, heard, acts>>
    BY <1>1 DEF set_public_key
  <1>3. /\ a.n \in 1..MaxDevices /\ a.key \in KeysKnown /\ a.old \in KeysKnown
        /\ a.n \in Registered
    BY <1>1, <1>2, DevicesAre DEF DevicesInv, DevicesTypeOK, StaffRequests, KeysKnown
  <1>4. PICK n \in Registered : n = a.n
    BY <1>3
  <1>5. PICK row : row = [devices[n] EXCEPT !.key = a.key]
    OBVIOUS
  <1>6. PICK e : e = [n |-> n, old |-> a.old, new |-> a.key]
    OBVIOUS
  <1>7. devices[n] \in DeviceRows /\ heard[n] \in HeardRows /\ n \in DOMAIN heard
    BY DevicesAre DEF DevicesInv
  <1>8. /\ row \in DeviceRows /\ row.key = a.key /\ row.device_id = devices[n].device_id
        /\ row.status = devices[n].status /\ row.revoked_by = devices[n].revoked_by
        /\ row.last_seen = devices[n].last_seen /\ row.pending = devices[n].pending
    BY <1>3, <1>5, <1>7 DEF DeviceRows
  <1>9. e \in IdentityEntries /\ e.n = n /\ e.new = a.key
    BY <1>3, <1>4, <1>6 DEF IdentityEntries
  <1>10. devices' = [devices EXCEPT ![n] = row] /\ identities' = Append(identities, e)
    BY <1>1, <1>4, <1>5, <1>6 DEF set_public_key
  <1>11. heard' = [heard EXCEPT ![n] = heard[n]]
    BY <1>2, <1>7, ExceptItself DEF DevicesInv, DevicesTypeOK, Registered
  <1>12. HeardOf(row, heard[n])
    <2>1. HeardOf(devices[n], heard[n])
      BY DEF DevicesInv, ShownInv
    <2> QED BY <1>8, <2>1 DEF HeardOf
  <1>13. /\ devices' \in Seq(DeviceRows) /\ Len(devices') = Len(devices)
         /\ Registered' = Registered
         /\ \A m \in Registered : devices'[m] = IF m = n THEN row ELSE devices[m]
         /\ \A m \in Registered : HeardOf(devices[m], heard[m])'
         /\ LabelInv'
    BY <1>2, <1>7, <1>8, <1>10, <1>11, <1>12, RowStep
  <1>14. identities' \in Seq(IdentityEntries) /\ IdentityInv'
    BY <1>8, <1>9, <1>10, <1>13, AppendedEntry DEF DevicesInv, Registered
  <1>15. DevicesTypeOK'
    BY <1>2, <1>13, <1>14 DEF DevicesInv, DevicesTypeOK
  <1>16. ShownInv'
    BY <1>2, <1>13 DEF DevicesInv, ShownInv
  <1> QED BY <1>13, <1>14, <1>15, <1>16 DEF DevicesInv

(* A change that leaves the keys alone.                                    *)
LEMMA SameKeys ==
  ASSUME IdentityInv, UNCHANGED identities, Registered' = Registered,
         \A m \in Registered : devices'[m].key = devices[m].key
  PROVE  IdentityInv'
  BY DEF IdentityInv, LastEntry

LEMMA RevokeKeeps ==
  ASSUME DevicesInv, NEW s \in Staff, NEW n \in Registered, revoke_device(s, n)
  PROVE  DevicesInv'
  <1> USE DevicesAssumption
  <1>1. PICK row : row = [devices[n] EXCEPT !.status = "revoked", !.revoked_by = s]
    OBVIOUS
  <1>2. devices[n] \in DeviceRows /\ heard[n] \in HeardRows /\ n \in DOMAIN devices
    BY DevicesAre DEF DevicesInv
  <1>3. /\ row \in DeviceRows /\ row.key = devices[n].key /\ row.device_id = devices[n].device_id
        /\ row.status = "revoked" /\ row.revoked_by = s
        /\ row.last_seen = devices[n].last_seen /\ row.pending = devices[n].pending
    BY <1>1, <1>2 DEF DeviceRows
  <1>4. /\ devices' = [devices EXCEPT ![n] = row]
        /\ UNCHANGED <<identities, acting, reporting, clock, heard>> /\ acts' \in 0..MaxActs
    <2>1. devices' = [devices EXCEPT ![n].status = "revoked", ![n].revoked_by = s]
      BY DEF revoke_device
    <2>2. devices' = [devices EXCEPT ![n] = row]
      BY <1>1, <1>2, <2>1
    <2>3. acts \in 0..MaxActs /\ acts < MaxActs /\ acts' = acts + 1
      BY DEF revoke_device, DevicesInv, DevicesTypeOK
    <2>4. acts' \in 0..MaxActs
      BY <2>3
    <2> QED BY <2>2, <2>4 DEF revoke_device
  <1>5. heard' = [heard EXCEPT ![n] = heard[n]]
    BY <1>4, ExceptItself DEF DevicesInv, DevicesTypeOK, Registered
  <1>6. HeardOf(row, heard[n])
    <2>1. HeardOf(devices[n], heard[n])
      BY DEF DevicesInv, ShownInv
    <2> QED BY <1>3, <2>1 DEF HeardOf
  <1>7. /\ devices' \in Seq(DeviceRows) /\ Len(devices') = Len(devices)
        /\ Registered' = Registered
        /\ \A m \in Registered : devices'[m] = IF m = n THEN row ELSE devices[m]
        /\ \A m \in Registered : HeardOf(devices[m], heard[m])'
        /\ LabelInv'
    BY <1>2, <1>3, <1>4, <1>5, <1>6, RowStep
  <1>8. IdentityInv'
    BY <1>3, <1>4, <1>7, SameKeys DEF DevicesInv
  <1>9. DevicesTypeOK'
    BY <1>4, <1>7 DEF DevicesInv, DevicesTypeOK
  <1>10. ShownInv'
    BY <1>4, <1>7 DEF DevicesInv, ShownInv
  <1> QED BY <1>7, <1>8, <1>9, <1>10 DEF DevicesInv

LEMMA TouchKeeps ==
  ASSUME DevicesInv, NEW r \in Reports, touch_last_seen(r)
  PROVE  DevicesInv'
  <1> USE DevicesAssumption
  <1>1. PICK q : q = reporting[r]
    OBVIOUS
  <1>2. PICK at : at = IF q.at = Unsaid THEN clock ELSE q.at
    OBVIOUS
  <1>3. q # NoAct /\ reporting' = [reporting EXCEPT ![r] = NoAct]
        /\ UNCHANGED <<identities, acting, clock, acts>>
    BY <1>1 DEF touch_last_seen
  <1>4. q \in DeviceReports /\ q.n \in Registered /\ q.at <= clock
    BY <1>1, <1>3, DevicesAre DEF DevicesInv, DevicesTypeOK, ShownInv
  <1>5. clock \in 0..MaxClock
    BY DEF DevicesInv, DevicesTypeOK
  <1>6. at \in 0..MaxClock /\ at <= clock /\ at # Unsaid /\ at \in SeenAt
    BY <1>2, <1>4, <1>5 DEF DeviceReports, SeenAt, Unsaid
  <1>7. PICK n \in Registered : n = q.n
    BY <1>4
  <1>8. PICK row : row = [devices[n] EXCEPT !.last_seen = at,
                                            !.pending = Coalesce(q.pending, devices[n].pending)]
    OBVIOUS
  <1>9. PICK h : h = [at |-> IF at > heard[n].at THEN at ELSE heard[n].at,
                      told |-> heard[n].told \/ q.pending # Unsaid]
    OBVIOUS
  <1>10. devices[n] \in DeviceRows /\ heard[n] \in HeardRows /\ n \in DOMAIN devices /\ n \in DOMAIN heard
    BY DevicesAre DEF DevicesInv
  <1>11. /\ row \in DeviceRows /\ row.key = devices[n].key /\ row.device_id = devices[n].device_id
         /\ row.status = devices[n].status /\ row.revoked_by = devices[n].revoked_by
         /\ row.last_seen = at /\ row.pending = Coalesce(q.pending, devices[n].pending)
    <2>1. Coalesce(q.pending, devices[n].pending) \in {Unsaid} \cup Counts
      BY <1>4, <1>10 DEF Coalesce, DeviceReports, DeviceRows
    <2> QED BY <1>6, <1>8, <1>10, <2>1 DEF DeviceRows
  <1>12. h \in HeardRows /\ h.at = (IF at > heard[n].at THEN at ELSE heard[n].at)
         /\ (h.told <=> heard[n].told \/ q.pending # Unsaid)
    BY <1>6, <1>9, <1>10 DEF HeardRows
  <1>13. devices' = [devices EXCEPT ![n] = row]
    <2>1. devices' = [devices EXCEPT ![q.n].last_seen = at,
                                     ![q.n].pending = Coalesce(q.pending, @)]
      BY <1>1, <1>2 DEF touch_last_seen
    <2> QED BY <1>7, <1>8, <1>10, <2>1
  <1>14. heard' = [heard EXCEPT ![n] = h]
    <2>1. heard' = [heard EXCEPT ![q.n] =
                      [at |-> IF at > @.at THEN at ELSE @.at, told |-> @.told \/ q.pending # Unsaid]]
      BY <1>1, <1>2 DEF touch_last_seen
    <2> QED BY <1>7, <1>9, <1>10, <2>1
  <1>15. HeardOf(row, h)
    <2>1. HeardOf(devices[n], heard[n])
      BY DEF DevicesInv, ShownInv
    <2>2. heard[n].at \in Int /\ at \in Int /\ clock \in Int
      BY <1>5, <1>6, <1>10 DEF HeardRows, SeenAt, Unsaid
    <2>3. h.at \in Int /\ h.at >= at /\ h.at <= clock
      BY <1>6, <1>12, <2>1, <2>2 DEF HeardOf
    <2>4. row.pending # Unsaid <=> h.told
      BY <1>11, <1>12, <2>1 DEF HeardOf, Coalesce
    <2>5. h.at # Unsaid /\ row.last_seen # Unsaid
      BY <1>6, <1>11, <2>2, <2>3 DEF Unsaid
    <2> QED BY <1>11, <2>1, <2>2, <2>3, <2>4, <2>5 DEF HeardOf
  <1>16. /\ devices' \in Seq(DeviceRows) /\ Len(devices') = Len(devices)
         /\ heard' \in Seq(HeardRows) /\ Len(heard') = Len(heard)
         /\ Registered' = Registered
         /\ \A m \in Registered : devices'[m] = IF m = n THEN row ELSE devices[m]
         /\ \A m \in Registered : HeardOf(devices[m], heard[m])'
         /\ LabelInv'
    BY <1>3, <1>11, <1>12, <1>13, <1>14, <1>15, RowStep
  <1>17. IdentityInv'
    BY <1>3, <1>11, <1>16, SameKeys DEF DevicesInv
  <1>18. DevicesTypeOK'
    BY <1>3, <1>16 DEF DevicesInv, DevicesTypeOK, HeardRows
  <1>19. ShownInv'
    BY <1>3, <1>16 DEF DevicesInv, DevicesTypeOK, ShownInv
  <1> QED BY <1>16, <1>17, <1>18, <1>19 DEF DevicesInv

LEMMA DevicesInvStep == DevicesInv /\ [DevicesNext]_deviceVars => DevicesInv'
  <1> SUFFICES ASSUME DevicesInv, [DevicesNext]_deviceVars PROVE DevicesInv'
    OBVIOUS
  <1>1. CASE UNCHANGED deviceVars
    BY <1>1 DEF DevicesInv, DevicesTypeOK, ShownInv, LabelInv, IdentityInv, Registered, HeardOf,
                LastEntry, deviceVars
  <1>2. CASE DevicesNext
    BY <1>2, LookForLabelKeeps, ReadFingerprintKeeps, ReportsKeep, ClockTicksKeeps,
       ProvisionKeeps, SetKeyKeeps, RevokeKeeps, TouchKeeps DEF DevicesNext
  <1> QED BY <1>1, <1>2

LEMMA DevicesInvariant == DevicesSpec => []DevicesInv
  BY DevicesInvInit, DevicesInvStep, PTL DEF DevicesSpec

(* The rows of the devices, the journal of their keys and the requests.     *)
THEOREM DevicesTypeCorrect == DevicesSpec => []DevicesTypeOK
  <1>1. DevicesInv => DevicesTypeOK
    BY DEF DevicesInv
  <1> QED BY <1>1, DevicesInvariant, PTL

(* Whatever rotations and reports overlap, the journal tells the key that  *)
(* is installed, a label is that of one device, and the status shown never *)
(* claims more than was heard (app/devices.py).                            *)
THEOREM DevicesAccountedForHolds == DevicesSpec => []DevicesAccountedFor
  <1>1. DevicesInv => JournalTellsIdentity
    <2> SUFFICES ASSUME DevicesInv, NEW n \in Registered
                 PROVE  /\ EntriesOf(n) # {}
                        /\ \E i \in EntriesOf(n) :
                              (\A j \in EntriesOf(n) : j <= i) /\ identities[i].new = devices[n].key
      BY DEF JournalTellsIdentity
    <2> QED BY DEF DevicesInv, IdentityInv, LastEntry, EntriesOf
  <1>2. DevicesInv => StatusNeverClaims
    <2> SUFFICES ASSUME DevicesInv, NEW n \in Registered
                 PROVE  /\ communication_status(n) = "unknown" <=> heard[n].at = Unsaid
                        /\ communication_status(n) = "online" => clock - heard[n].at <= OnlineAfter
                        /\ devices[n].pending # Unsaid <=> heard[n].told
                        /\ devices[n].status = "active" <=> devices[n].revoked_by = NoAct
      BY DEF StatusNeverClaims, DevicesInv, LabelInv
    <2>1. HeardOf(devices[n], heard[n])
      BY DEF DevicesInv, ShownInv
    <2>2. devices[n].last_seen \in Int /\ heard[n].at \in Int /\ clock \in Int /\ OnlineAfter \in Int
      BY DevicesAre, DevicesAssumption DEF DevicesInv, DeviceRows, HeardRows, SeenAt, Unsaid
    <2>3. communication_status(n) = "unknown" <=> heard[n].at = Unsaid
      BY <2>1 DEF communication_status, HeardOf
    <2>4. communication_status(n) = "online" => clock - heard[n].at <= OnlineAfter
      BY <2>1, <2>2 DEF communication_status, HeardOf
    <2> QED BY <2>1, <2>3, <2>4 DEF HeardOf
  <1> QED BY <1>1, <1>2, DevicesInvariant, PTL DEF DevicesAccountedFor

(* A device that was revoked stays so, by the person who revoked it first, *)
(* whatever requests had begun before (revoke_device, touch_last_seen,     *)
(* set_public_key).                                                        *)
THEOREM RevocationKeptHolds == DevicesSpec => [][RevocationKept]_deviceVars
  <1>1. DevicesInv /\ [DevicesNext]_deviceVars => [RevocationKept]_deviceVars
    <2> SUFFICES ASSUME DevicesInv, [DevicesNext]_deviceVars, NEW n \in Registered,
                        devices[n].status = "revoked"
                 PROVE  devices'[n].status = "revoked" /\ devices'[n].revoked_by = devices[n].revoked_by
      BY DEF RevocationKept
    <2>0. n \in 1..Len(devices) /\ DOMAIN devices = 1..Len(devices) /\ devices \in Seq(DeviceRows)
          /\ \A m \in 1..Len(devices) : devices[m] \in DeviceRows
      BY DevicesAre DEF DevicesInv, DevicesTypeOK
    <2>1. CASE UNCHANGED devices
      BY <2>1
    <2>2. ASSUME NEW s \in Staff, provision_device(s), ~ UNCHANGED devices
          PROVE  devices'[n] = devices[n]
      <3>1. PICK row : devices' = Append(devices, row)
        BY <2>2 DEF provision_device
      <3>2. Append(devices, row)[n] = devices[n]
        BY <2>0, AppendKeeps
      <3> QED BY <3>1, <3>2
    <2>3. ASSUME NEW s \in Staff, set_public_key(s)
          PROVE  /\ devices'[n].status = devices[n].status
                 /\ devices'[n].revoked_by = devices[n].revoked_by
      BY <2>0, <2>3 DEF set_public_key, DeviceRows
    <2>4. ASSUME NEW s \in Staff, NEW m \in Registered, revoke_device(s, m)
          PROVE  devices'[n] = devices[n]
      BY <2>0, <2>4 DEF revoke_device
    <2>5. ASSUME NEW r \in Reports, touch_last_seen(r)
          PROVE  /\ devices'[n].status = devices[n].status
                 /\ devices'[n].revoked_by = devices[n].revoked_by
      BY <2>0, <2>5 DEF touch_last_seen, DeviceRows
    <2>6. CASE ~ UNCHANGED devices
      BY <2>2, <2>3, <2>4, <2>5, <2>6
      DEF DevicesNext, LookForLabel, ReadFingerprint, create_edge_measurements,
          authenticate_device_route, ClockTicks, deviceVars
    <2> QED BY <2>1, <2>6
  <1> QED BY <1>1, DevicesInvariant, PTL DEF DevicesSpec

-----------------------------------------------------------------------------
(* Filing.                                                                 *)

(* An upload has a key of its own, in the folder of its subject; what it   *)
(* may record is in the store.                                             *)
Under(u) == u.key \in DOMAIN objects /\ objects[u.key].subject = u.subject
UploadOK(u) ==
    /\ Under(u)
    /\ u.stage = "put" => objects[u.key].content = u.content
    /\ \A i \in DOMAIN filed : filed[i].key # u.key
FilesInv ==
    /\ \A c \in Keepers : upload[c] # Unstarted => UploadOK(upload[c])
    /\ \A c, d \in Keepers :
          upload[c] # Unstarted /\ upload[d] # Unstarted /\ upload[c].key = upload[d].key => c = d
    /\ FilesReadable

(* What the journal tells of a placement, in each status of its row.       *)
Told(i) ==
    /\ \E n : Acts("proposed", i) = {n}
    /\ drawn[i].status = "proposed" => Acts("validated", i) = {} /\ Acts("deleted", i) = {}
    /\ drawn[i].status = "validated" =>
          /\ \E n : Acts("validated", i) = {n} /\ entries[n].by = drawn[i].by
          /\ Acts("deleted", i) = {}
    /\ drawn[i].status = "deleted" =>
          \E n : /\ Acts("deleted", i) = {n}
                 /\ \/ Acts("validated", i) = {}
                    \/ \E m : Acts("validated", i) = {m} /\ m < n

(* A transaction that is open has the row to itself, in a status that its  *)
(* own entry may follow; no entry is about a row that does not exist.      *)
ActOK(c) ==
    /\ act[c].of \in DOMAIN drawn
    /\ act[c].action = "validated" => drawn[act[c].of].status = "proposed"
    /\ act[c].action = "deleted" => drawn[act[c].of].status # "deleted"
JournaledInv ==
    /\ \A i \in DOMAIN drawn : Told(i)
    /\ \A n \in DOMAIN entries : entries[n].action # "uploaded" => entries[n].of \in DOMAIN drawn
    /\ \A c \in Keepers : act[c] # Unstarted => ActOK(c)
    /\ \A c, d \in Keepers :
          act[c] # Unstarted /\ act[d] # Unstarted /\ act[c].of = act[d].of => c = d

FilingInv == FilingTypeOK /\ FilesInv /\ JournaledInv

LEMMA FilingInvInit == FilingInit => FilingInv
  <1> SUFFICES ASSUME FilingInit PROVE FilingInv
    OBVIOUS
  <1> USE FilingAssumption DEF FilingInit
  <1>1. /\ objects \in Seq(StoredObjects) /\ filed \in Seq(FiledRows) /\ drawn \in Seq(DrawnRows)
        /\ entries \in Seq(FilingEntries)
        /\ Len(objects) = 0 /\ Len(filed) = 0 /\ Len(drawn) = 0 /\ Len(entries) = 0
    OBVIOUS
  <1>2. DOMAIN filed = {} /\ DOMAIN drawn = {} /\ DOMAIN entries = {} /\ DOMAIN objects = {}
    OBVIOUS
  <1>3. \A c \in Keepers : act[c] = Unstarted /\ upload[c] = Unstarted
    OBVIOUS
  <1>4. FilingTypeOK
    BY <1>1, <1>2, <1>3 DEF FilingTypeOK
  <1>5. FilesInv
    BY <1>2, <1>3 DEF FilesInv, FilesReadable
  <1>6. JournaledInv
    BY <1>2, <1>3 DEF JournaledInv
  <1> QED BY <1>4, <1>5, <1>6 DEF FilingInv

LEMMA FilingAre ==
  ASSUME FilingTypeOK
  PROVE  /\ Len(objects) \in Nat /\ DOMAIN objects = 1..Len(objects)
         /\ \A i \in 1..Len(objects) : objects[i] \in StoredObjects
         /\ Len(filed) \in Nat /\ DOMAIN filed = 1..Len(filed)
         /\ \A i \in 1..Len(filed) : filed[i] \in FiledRows
         /\ Len(drawn) \in Nat /\ DOMAIN drawn = 1..Len(drawn)
         /\ \A i \in 1..Len(drawn) : drawn[i] \in DrawnRows
         /\ Len(entries) \in Nat /\ DOMAIN entries = 1..Len(entries)
         /\ \A i \in 1..Len(entries) : entries[i] \in FilingEntries
  BY LenProperties, ElementOfSeq DEF FilingTypeOK

LEMMA ToldKept ==
  ASSUME NEW i, Told(i), UNCHANGED <<drawn, entries>>
  PROVE  Told(i)'
  BY DEF Told, Acts

(* A step of an upload leaves what the journal tells of placements.        *)
LEMMA JournaledKept ==
  ASSUME JournaledInv, UNCHANGED <<drawn, act, entries>>
  PROVE  JournaledInv'
  <1>1. ASSUME NEW i \in DOMAIN drawn PROVE Told(i)'
    <2>1. Told(i)
      BY DEF JournaledInv
    <2> QED BY <2>1, ToldKept
  <1>2. ASSUME NEW c \in Keepers, act[c] # Unstarted PROVE ActOK(c)'
    <2>1. ActOK(c)
      BY <1>2 DEF JournaledInv
    <2> QED BY <2>1 DEF ActOK
  <1> QED BY <1>1, <1>2 DEF JournaledInv

LEMMA FilesKept ==
  ASSUME FilesInv, UNCHANGED <<objects, filed, upload>>
  PROVE  FilesInv'
  BY DEF FilesInv, UploadOK, Under, FilesReadable, Folder

-----------------------------------------------------------------------------
(* Uploads.                                                                *)
LEMMA SignedKeeps ==
  ASSUME FilingInv, NEW c \in Keepers, NEW s \in Subjects, NEW k \in Files,
         create_upload_url(c, s, k)
  PROVE  FilingInv'
  <1> USE FilingAssumption
  <1>1. PICK n \in Nat : n = Len(objects)
    BY FilingAre DEF FilingInv
  <1>2. PICK o : o = [subject |-> s, content |-> Missing]
    OBVIOUS
  <1>3. PICK u : u = [stage |-> "signed", key |-> n + 1, subject |-> s, content |-> k]
    OBVIOUS
  <1>4. /\ upload[c] = Unstarted /\ n < MaxKeys
        /\ objects' = Append(objects, o) /\ upload' = [upload EXCEPT ![c] = u]
        /\ UNCHANGED <<filed, drawn, act, entries>>
    BY <1>1, <1>2, <1>3 DEF create_upload_url
  <1>5. o \in StoredObjects /\ o.subject = s
    BY <1>2 DEF StoredObjects
  <1>6. u \in Uploads /\ u.key = n + 1 /\ u.subject = s /\ u.stage = "signed"
    BY <1>1, <1>3, <1>4 DEF Uploads
  <1>7. /\ objects' \in Seq(StoredObjects) /\ Len(objects') = n + 1 /\ DOMAIN objects' = 1..(n + 1)
        /\ DOMAIN objects = 1..n
        /\ \A i \in 1..n : objects'[i] = objects[i]
        /\ objects'[n + 1] = o
    BY <1>1, <1>4, <1>5, AppendIs DEF FilingInv, FilingTypeOK
  <1>8. 1..n \subseteq 1..(n + 1) /\ n + 1 \in 1..(n + 1) /\ n + 1 \notin 1..n /\ n + 1 <= MaxKeys
    BY <1>1, <1>4
  <1>9. \A i \in DOMAIN filed : filed[i].key \in 1..n
    BY <1>7 DEF FilingInv, FilingTypeOK
  <1>10. \A d \in Keepers : upload'[d] = IF d = c THEN u ELSE upload[d]
    BY <1>4 DEF FilingInv, FilingTypeOK
  <1>11. \A d \in Keepers : upload[d] # Unstarted => upload[d].key \in 1..n
    BY <1>7 DEF FilingInv, FilesInv, UploadOK, Under
  <1>12. FilingTypeOK'
    BY <1>4, <1>6, <1>7, <1>8, <1>9 DEF FilingInv, FilingTypeOK
  <1>13. FilesReadable'
    <2>1. FilesReadable
      BY DEF FilingInv, FilesInv
    <2> QED BY <1>4, <1>7, <1>9, <2>1 DEF FilesReadable, Folder
  <1>14. ASSUME NEW d \in Keepers, upload'[d] # Unstarted
         PROVE  UploadOK(upload[d])'
    <2>1. CASE d = c
      BY <1>4, <1>5, <1>6, <1>7, <1>8, <1>9, <1>10, <2>1 DEF UploadOK, Under
    <2>2. CASE d # c
      <3>1. upload'[d] = upload[d] /\ UploadOK(upload[d]) /\ upload[d].key \in 1..n
        BY <1>10, <1>11, <1>14, <2>2 DEF FilingInv, FilesInv
      <3> QED BY <1>4, <1>7, <1>8, <3>1 DEF UploadOK, Under
    <2> QED BY <2>1, <2>2
  <1>15. \A d, e \in Keepers :
            upload'[d] # Unstarted /\ upload'[e] # Unstarted /\ upload'[d].key = upload'[e].key => d = e
    BY <1>6, <1>8, <1>10, <1>11 DEF FilingInv, FilesInv
  <1>16. JournaledInv'
    BY <1>4, JournaledKept DEF FilingInv
  <1> QED BY <1>12, <1>13, <1>14, <1>15, <1>16 DEF FilingInv, FilesInv

LEMMA PutKeeps ==
  ASSUME FilingInv, NEW c \in Keepers, NEW arrives \in BOOLEAN, NEW answered \in BOOLEAN,
         PutObject(c, arrives, answered)
  PROVE  FilingInv'
  <1> USE FilingAssumption
  <1>1. PICK u : u = upload[c]
    OBVIOUS
  <1>2. PICK n \in Nat : n = Len(objects)
    BY FilingAre DEF FilingInv
  <1>3. PICK w : w = [u EXCEPT !.stage = IF answered THEN "put" ELSE "failed"]
    OBVIOUS
  <1>4. /\ u # Unstarted /\ u.stage = "signed" /\ (answered => arrives)
        /\ UNCHANGED <<filed, drawn, act, entries>>
    BY <1>1 DEF PutObject
  <1>5. u \in Uploads /\ u.key \in 1..n /\ DOMAIN objects = 1..n
    BY <1>1, <1>2, <1>4, FilingAre DEF FilingInv, FilingTypeOK, FilesInv, UploadOK, Under
  <1>6. upload' = [upload EXCEPT ![c] = w]
    BY <1>1, <1>3 DEF PutObject, FilingInv, FilingTypeOK
  <1>7. /\ w \in Uploads /\ w.key = u.key /\ w.subject = u.subject /\ w.content = u.content
        /\ w.stage = IF answered THEN "put" ELSE "failed"
    BY <1>3, <1>5 DEF Uploads
  <1>8. PICK o : o = IF arrives THEN [objects[u.key] EXCEPT !.content = u.content] ELSE objects[u.key]
    OBVIOUS
  <1>9. objects[u.key] \in StoredObjects
    BY <1>2, <1>5, FilingAre DEF FilingInv
  <1>10. /\ o \in StoredObjects /\ o.subject = objects[u.key].subject
         /\ arrives => o.content = u.content
    BY <1>5, <1>8, <1>9 DEF StoredObjects, Uploads
  <1>11. /\ objects' \in Seq(StoredObjects) /\ Len(objects') = n /\ DOMAIN objects' = 1..n
         /\ \A i \in 1..n : objects'[i] = IF i = u.key THEN o ELSE objects[i]
    <2>1. CASE arrives
      <3>1. objects' = [objects EXCEPT ![u.key] = o]
        BY <1>1, <1>5, <1>8, <2>1 DEF PutObject
      <3>2. objects \in Seq(StoredObjects)
        BY DEF FilingInv, FilingTypeOK
      <3>3. objects' \in Seq(StoredObjects) /\ Len(objects') = n
        BY <1>2, <1>5, <1>10, <3>1, <3>2, ExceptSeq
      <3> QED BY <1>2, <1>5, <3>1, <3>2, <3>3
    <2>2. CASE ~ arrives
      BY <1>2, <1>5, <1>8, <2>2, FilingAre DEF PutObject, FilingInv, FilingTypeOK
    <2> QED BY <2>1, <2>2
  <1>12. \A i \in DOMAIN filed : filed[i].key # u.key /\ filed[i].key \in 1..n
    BY <1>1, <1>4, <1>5 DEF FilingInv, FilesInv, UploadOK, FilingTypeOK
  <1>13. \A d \in Keepers : upload'[d] = IF d = c THEN w ELSE upload[d]
    BY <1>6 DEF FilingInv, FilingTypeOK
  <1>14. FilingTypeOK'
    BY <1>2, <1>4, <1>5, <1>6, <1>7, <1>11 DEF FilingInv, FilingTypeOK
  <1>15. FilesReadable'
    <2>1. FilesReadable
      BY DEF FilingInv, FilesInv
    <2> QED BY <1>4, <1>11, <1>12, <2>1 DEF FilesReadable, Folder
  <1>16. ASSUME NEW d \in Keepers, upload'[d] # Unstarted
         PROVE  UploadOK(upload[d])'
    <2>1. CASE d = c
      <3>1. Under(u)
        BY <1>1, <1>4 DEF FilingInv, FilesInv, UploadOK
      <3> QED BY <1>4, <1>5, <1>7, <1>10, <1>11, <1>12, <1>13, <2>1, <3>1 DEF UploadOK, Under
    <2>2. CASE d # c
      <3>1. upload'[d] = upload[d] /\ UploadOK(upload[d]) /\ upload[d].key # u.key
        BY <1>1, <1>4, <1>13, <1>16, <2>2 DEF FilingInv, FilesInv
      <3> QED BY <1>4, <1>5, <1>11, <3>1 DEF UploadOK, Under
    <2> QED BY <2>1, <2>2
  <1>17. \A d, e \in Keepers :
            upload'[d] # Unstarted /\ upload'[e] # Unstarted /\ upload'[d].key = upload'[e].key => d = e
    BY <1>1, <1>4, <1>7, <1>13 DEF FilingInv, FilesInv
  <1>18. JournaledInv'
    BY <1>4, JournaledKept DEF FilingInv
  <1> QED BY <1>14, <1>15, <1>16, <1>17, <1>18 DEF FilingInv, FilesInv

(* GiveUp, RecordFails: the upload ends, and its object stays alone.       *)
LEMMA DroppedKeeps ==
  ASSUME FilingInv, NEW c \in Keepers, upload' = [upload EXCEPT ![c] = Unstarted],
         UNCHANGED <<objects, filed, drawn, act, entries>>
  PROVE  FilingInv'
  <1>1. \A d \in Keepers : upload'[d] = IF d = c THEN Unstarted ELSE upload[d]
    BY DEF FilingInv, FilingTypeOK
  <1>2. FilingTypeOK'
    BY DEF FilingInv, FilingTypeOK
  <1>3. FilesInv'
    BY <1>1 DEF FilingInv, FilesInv, UploadOK, Under, FilesReadable, Folder
  <1>4. JournaledInv'
    BY JournaledKept DEF FilingInv
  <1> QED BY <1>2, <1>3, <1>4 DEF FilingInv
-----------------------------------------------------------------------------
(* The journal, when an entry is appended.                                 *)
LEMMA Appended ==
  ASSUME FilingTypeOK, NEW e \in FilingEntries, entries' = Append(entries, e)
  PROVE  /\ entries' \in Seq(FilingEntries) /\ Len(entries) \in Nat
         /\ DOMAIN entries = 1..Len(entries) /\ DOMAIN entries' = 1..(Len(entries) + 1)
         /\ \A n \in DOMAIN entries : entries'[n] = entries[n]
         /\ entries'[Len(entries) + 1] = e
         /\ \A action, i :
               Acts(action, i)' = IF e.action = action /\ e.of = i
                                  THEN Acts(action, i) \cup {Len(entries) + 1} ELSE Acts(action, i)
  <1>1. PICK k \in Nat : k = Len(entries)
    BY FilingAre
  <1>2. /\ entries' \in Seq(FilingEntries) /\ DOMAIN entries = 1..k /\ DOMAIN entries' = 1..(k + 1)
        /\ \A n \in 1..k : entries'[n] = entries[n]
        /\ entries'[k + 1] = e
    BY <1>1, AppendIs DEF FilingTypeOK
  <1>3. 1..(k + 1) = 1..k \cup {k + 1}
    BY <1>1
  <1>4. ASSUME NEW action, NEW i
        PROVE  {n \in DOMAIN entries' : entries'[n].action = action /\ entries'[n].of = i}
               = IF e.action = action /\ e.of = i
                 THEN Acts(action, i) \cup {k + 1} ELSE Acts(action, i)
    BY <1>2, <1>3 DEF Acts
  <1> QED BY <1>1, <1>2, <1>4 DEF Acts

(* An entry about one row, in the status it leaves it in, says nothing of  *)
(* the others.                                                             *)
LEMMA OthersTold ==
  ASSUME FilingTypeOK, NEW e \in FilingEntries, entries' = Append(entries, e),
         NEW i \in DOMAIN drawn, Told(i), i # e.of \/ e.action = "uploaded", drawn'[i] = drawn[i]
  PROVE  Told(i)'
  <1>1. ASSUME NEW action \in {"proposed", "validated", "deleted"}
        PROVE  Acts(action, i)' = Acts(action, i)
    <2>1. Acts(action, i)' = IF e.action = action /\ e.of = i
                              THEN Acts(action, i) \cup {Len(entries) + 1} ELSE Acts(action, i)
      BY Appended
    <2>2. ~ (e.action = action /\ e.of = i)
      OBVIOUS
    <2> QED BY <2>1, <2>2
  <1>2. \A action : Acts(action, i) \subseteq DOMAIN entries
    BY DEF Acts
  <1>3. \A n \in DOMAIN entries : entries'[n] = entries[n]
    BY Appended
  <1>4. /\ Acts("proposed", i)' = Acts("proposed", i) /\ Acts("validated", i)' = Acts("validated", i)
        /\ Acts("deleted", i)' = Acts("deleted", i)
    BY <1>1
  <1>5. \A n : Acts("validated", i) = {n} => entries'[n] = entries[n]
    BY <1>2, <1>3
  <1> QED BY <1>4, <1>5 DEF Told

LEMMA RecordedKeeps ==
  ASSUME FilingInv, NEW c \in Keepers, create_document(c)
  PROVE  FilingInv'
  <1> USE FilingAssumption
  <1>1. PICK u : u = upload[c]
    OBVIOUS
  <1>2. PICK row : row = [subject |-> u.subject, key |-> u.key, sha256 |-> u.content]
    OBVIOUS
  <1>3. PICK e : e = [action |-> "uploaded", of |-> u.key, by |-> c]
    OBVIOUS
  <1>4. /\ u # Unstarted /\ u.stage = "put"
        /\ filed' = Append(filed, row) /\ entries' = Append(entries, e)
        /\ upload' = [upload EXCEPT ![c] = Unstarted]
        /\ UNCHANGED <<objects, drawn, act>>
    BY <1>1, <1>2, <1>3 DEF create_document, append_audit_entry, Entry, MayRecord
  <1>5. u \in Uploads /\ UploadOK(u)
    BY <1>1, <1>4 DEF FilingInv, FilingTypeOK, FilesInv
  <1>6. /\ row \in FiledRows /\ row.key = u.key /\ row.subject = u.subject /\ row.sha256 = u.content
        /\ e \in FilingEntries /\ e.action = "uploaded"
    BY <1>2, <1>3, <1>5 DEF FiledRows, FilingEntries, Uploads
  <1>7. PICK n \in Nat : n = Len(filed)
    BY FilingAre DEF FilingInv
  <1>8. /\ filed' \in Seq(FiledRows) /\ DOMAIN filed' = 1..(n + 1) /\ DOMAIN filed = 1..n
        /\ \A i \in 1..n : filed'[i] = filed[i]
        /\ filed'[n + 1] = row
    BY <1>4, <1>6, <1>7, AppendIs DEF FilingInv, FilingTypeOK
  <1>9. \A i \in 1..(n + 1) : i = n + 1 \/ i \in 1..n
    BY <1>7
  <1>10. entries' \in Seq(FilingEntries)
    BY <1>4, <1>6, Appended DEF FilingInv
  <1>11. \A d \in Keepers : upload'[d] = IF d = c THEN Unstarted ELSE upload[d]
    BY <1>4 DEF FilingInv, FilingTypeOK
  <1>12. FilingTypeOK'
    <2>1. \A i \in 1..(n + 1) : filed'[i].key \in DOMAIN objects
      BY <1>5, <1>6, <1>8, <1>9 DEF FilingInv, FilingTypeOK, UploadOK, Under
    <2> QED BY <1>4, <1>8, <1>10, <2>1 DEF FilingInv, FilingTypeOK
  <1>13. FilesReadable'
    <2>1. /\ \A i \in 1..n : /\ objects[filed[i].key].content = filed[i].sha256
                             /\ objects[filed[i].key].subject = filed[i].subject
          /\ \A i, j \in 1..n : filed[i].key = filed[j].key => i = j
      BY <1>8 DEF FilingInv, FilesInv, FilesReadable, Folder
    <2>2. /\ objects[u.key].content = u.content /\ objects[u.key].subject = u.subject
          /\ \A i \in 1..n : filed[i].key # u.key
      BY <1>4, <1>5, <1>8 DEF UploadOK, Under
    <2>3. /\ \A i \in 1..(n + 1) : /\ objects[filed'[i].key].content = filed'[i].sha256
                                   /\ objects[filed'[i].key].subject = filed'[i].subject
          /\ \A i, j \in 1..(n + 1) : filed'[i].key = filed'[j].key => i = j
      BY <1>6, <1>8, <1>9, <2>1, <2>2, SMTT(30)
    <2> QED BY <1>4, <1>8, <2>3 DEF FilesReadable, Folder
  <1>14. ASSUME NEW d \in Keepers, upload'[d] # Unstarted
         PROVE  UploadOK(upload[d])'
    <2>1. upload'[d] = upload[d] /\ UploadOK(upload[d]) /\ upload[d].key # u.key
      BY <1>1, <1>4, <1>11, <1>14 DEF FilingInv, FilesInv
    <2> QED BY <1>4, <1>6, <1>8, <1>9, <2>1 DEF UploadOK, Under
  <1>15. FilesInv'
    BY <1>11, <1>13, <1>14 DEF FilingInv, FilesInv
  <1>16. JournaledInv'
    <2>1. \A i \in DOMAIN drawn : Told(i)'
      BY <1>4, <1>6, OthersTold DEF FilingInv, JournaledInv
    <2>2. ASSUME NEW m \in DOMAIN entries', entries'[m].action # "uploaded"
          PROVE  entries'[m].of \in DOMAIN drawn
      <3>1. m \in DOMAIN entries /\ entries'[m] = entries[m]
        BY <1>4, <1>6, <2>2, Appended DEF FilingInv
      <3> QED BY <2>2, <3>1 DEF FilingInv, JournaledInv
    <2>3. \A d \in Keepers : act[d] # Unstarted => ActOK(d)'
      BY <1>4 DEF FilingInv, JournaledInv, ActOK
    <2> QED BY <1>4, <2>1, <2>2, <2>3 DEF FilingInv, JournaledInv
  <1> QED BY <1>12, <1>15, <1>16 DEF FilingInv

-----------------------------------------------------------------------------
(* Placements.                                                             *)
LEMMA ProposedKeeps ==
  ASSUME FilingInv, NEW c \in Keepers, NEW t \in Targets, record_placement(c, t)
  PROVE  FilingInv'
  <1> USE FilingAssumption
  <1>1. PICK n \in Nat : n = Len(drawn)
    BY FilingAre DEF FilingInv
  <1>2. PICK row : row = [target |-> t, status |-> "proposed", by |-> NoOne]
    OBVIOUS
  <1>3. PICK e : e = [action |-> "proposed", of |-> n + 1, by |-> c]
    OBVIOUS
  <1>4. /\ n < MaxDrawn /\ drawn' = Append(drawn, row) /\ entries' = Append(entries, e)
        /\ UNCHANGED <<objects, filed, upload, act>>
    BY <1>1, <1>2, <1>3 DEF record_placement, append_audit_entry, Entry
  <1>5. row \in DrawnRows /\ row.status = "proposed"
    BY <1>2 DEF DrawnRows
  <1>6. e \in FilingEntries /\ e.action = "proposed" /\ e.of = n + 1
    BY <1>1, <1>3 DEF FilingEntries
  <1>7. /\ drawn' \in Seq(DrawnRows) /\ Len(drawn') = n + 1 /\ DOMAIN drawn' = 1..(n + 1)
        /\ DOMAIN drawn = 1..n /\ drawn'[n + 1] = row
        /\ \A i \in 1..n : drawn'[i] = drawn[i]
    BY <1>1, <1>4, <1>5, AppendIs DEF FilingInv, FilingTypeOK
  <1>8. /\ \A i \in 1..(n + 1) : i = n + 1 \/ i \in 1..n
        /\ 1..n \subseteq 1..(n + 1) /\ n + 1 \in 1..(n + 1) /\ n + 1 \notin 1..n /\ n + 1 <= MaxDrawn
    BY <1>1, <1>4
  <1>9. PICK k : k = Len(entries) + 1
    OBVIOUS
  <1>10. /\ entries' \in Seq(FilingEntries)
         /\ \A m \in DOMAIN entries' : m \in DOMAIN entries \/ m = k
         /\ \A m \in DOMAIN entries : entries'[m] = entries[m]
         /\ entries'[k] = e
         /\ \A action, i :
               Acts(action, i)' = IF e.action = action /\ e.of = i
                                  THEN Acts(action, i) \cup {k} ELSE Acts(action, i)
    BY <1>4, <1>6, <1>9, Appended DEF FilingInv
  <1>11. \A action \in {"proposed", "validated", "deleted"} : Acts(action, n + 1) = {}
    BY <1>7, <1>8 DEF FilingInv, JournaledInv, Acts
  <1>12. Told(n + 1)'
    <2>1. Acts("proposed", n + 1)' = {k}
      <3>1. Acts("proposed", n + 1)' = Acts("proposed", n + 1) \cup {k}
        BY <1>6, <1>10, Zenon
      <3> QED BY <1>11, <3>1
    <2>2. Acts("validated", n + 1)' = {} /\ Acts("deleted", n + 1)' = {}
      <3>1. Acts("validated", n + 1)' = Acts("validated", n + 1)
            /\ Acts("deleted", n + 1)' = Acts("deleted", n + 1)
        BY <1>6, <1>10
      <3> QED BY <1>11, <3>1
    <2> QED BY <1>5, <1>7, <2>1, <2>2 DEF Told
  <1>13. \A i \in 1..n : Told(i)'
    BY <1>4, <1>6, <1>7, <1>8, OthersTold DEF FilingInv, JournaledInv
  <1>14. \A m \in DOMAIN entries' : entries'[m].action # "uploaded" => entries'[m].of \in 1..(n + 1)
    BY <1>6, <1>7, <1>8, <1>10 DEF FilingInv, JournaledInv
  <1>15. ASSUME NEW d \in Keepers, act[d] # Unstarted
         PROVE  ActOK(d)'
    <2>1. ActOK(d) /\ act'[d] = act[d] /\ act[d].of \in 1..n
      BY <1>4, <1>7, <1>15 DEF FilingInv, JournaledInv, ActOK
    <2> QED BY <1>7, <1>8, <2>1 DEF ActOK
  <1>16. JournaledInv'
    BY <1>4, <1>7, <1>8, <1>12, <1>13, <1>14, <1>15 DEF FilingInv, JournaledInv
  <1>17. FilingTypeOK'
    BY <1>4, <1>7, <1>8, <1>10 DEF FilingInv, FilingTypeOK
  <1>18. FilesInv'
    BY <1>4, FilesKept DEF FilingInv
  <1> QED BY <1>16, <1>17, <1>18 DEF FilingInv

(* A transaction opens on a row that none has locked. *)
LEMMA OpenedKeeps ==
  ASSUME FilingInv, NEW c \in Keepers, NEW i \in DOMAIN drawn, NEW a \in PlacementActs,
         a.of = i, ~ RowLocked(i), act[c] = Unstarted, act' = [act EXCEPT ![c] = a],
         a.action = "validated" => drawn[i].status = "proposed",
         a.action = "deleted" => drawn[i].status # "deleted",
         UNCHANGED <<objects, filed, upload, drawn, entries>>
  PROVE  FilingInv'
  <1> USE FilingAssumption
  <1>1. \A d \in Keepers : act'[d] = IF d = c THEN a ELSE act[d]
    BY DEF FilingInv, FilingTypeOK
  <1>2. \A d \in Keepers : act[d] # Unstarted => act[d].of # i
    BY DEF RowLocked
  <1>3. FilingTypeOK'
    <2>1. act' \in [Keepers -> PlacementActs \cup {Unstarted}]
      BY DEF FilingInv, FilingTypeOK
    <2>2. \A d, e \in Keepers : act'[d] # Unstarted /\ act'[d] = act'[e] => d = e
      BY <1>1, <1>2 DEF FilingInv, FilingTypeOK
    <2> QED BY <2>1, <2>2 DEF FilingInv, FilingTypeOK
  <1>4. FilesInv'
    BY FilesKept DEF FilingInv
  <1>5. \A d \in Keepers : act'[d] # Unstarted => ActOK(d)'
    <2>1. \A d \in Keepers : act[d] # Unstarted => ActOK(d)
      BY DEF FilingInv, JournaledInv
    <2> QED BY <1>1, <2>1 DEF ActOK
  <1>6. \A j \in DOMAIN drawn : Told(j)'
    <2>1. \A j \in DOMAIN drawn : Told(j)
      BY DEF FilingInv, JournaledInv
    <2> QED BY <2>1, ToldKept
  <1>7. \A d, e \in Keepers :
            act'[d] # Unstarted /\ act'[e] # Unstarted /\ act'[d].of = act'[e].of => d = e
    BY <1>1, <1>2 DEF FilingInv, JournaledInv
  <1>8. JournaledInv'
    BY <1>5, <1>6, <1>7 DEF FilingInv, JournaledInv
  <1> QED BY <1>3, <1>4, <1>8 DEF FilingInv

LEMMA OpensKeep ==
  ASSUME FilingInv, NEW c \in Keepers, NEW i \in DOMAIN drawn,
         validate_placement(c, i) \/ delete_placement(c, i)
  PROVE  FilingInv'
  <1> USE FilingAssumption
  <1>1. i \in 1..MaxDrawn
    BY FilingAre DEF FilingInv, FilingTypeOK
  <1>2. CASE validate_placement(c, i)
    <2>1. PICK a : a = [action |-> "validated", of |-> i]
      OBVIOUS
    <2>2. a \in PlacementActs /\ a.of = i /\ a.action = "validated"
      BY <1>1, <2>1 DEF PlacementActs
    <2>3. act' = [act EXCEPT ![c] = a] /\ act[c] = Unstarted /\ ~ RowLocked(i)
          /\ drawn[i].status = "proposed" /\ UNCHANGED <<objects, filed, upload, drawn, entries>>
      BY <1>2, <2>1 DEF validate_placement, MayAct
    <2> QED BY <2>2, <2>3, OpenedKeeps
  <1>3. CASE delete_placement(c, i)
    <2>1. PICK a : a = [action |-> "deleted", of |-> i]
      OBVIOUS
    <2>2. a \in PlacementActs /\ a.of = i /\ a.action = "deleted"
      BY <1>1, <2>1 DEF PlacementActs
    <2>3. act' = [act EXCEPT ![c] = a] /\ act[c] = Unstarted /\ ~ RowLocked(i)
          /\ drawn[i].status # "deleted" /\ UNCHANGED <<objects, filed, upload, drawn, entries>>
      BY <1>3, <2>1 DEF delete_placement, MayAct, Found
    <2> QED BY <2>2, <2>3, OpenedKeeps
  <1> QED BY <1>2, <1>3

LEMMA LostKeeps ==
  ASSUME FilingInv, NEW c \in Keepers, LoseConnection(c)
  PROVE  FilingInv'
  <1>1. act' = [act EXCEPT ![c] = Unstarted] /\ UNCHANGED <<objects, filed, upload, drawn, entries>>
    BY DEF LoseConnection
  <1>2. \A d \in Keepers : act'[d] = IF d = c THEN Unstarted ELSE act[d]
    BY <1>1 DEF FilingInv, FilingTypeOK
  <1>3. FilingTypeOK'
    <2>1. act' \in [Keepers -> PlacementActs \cup {Unstarted}]
      BY <1>1 DEF FilingInv, FilingTypeOK
    <2>2. \A d, e \in Keepers : act'[d] # Unstarted /\ act'[d] = act'[e] => d = e
      BY <1>2 DEF FilingInv, FilingTypeOK
    <2> QED BY <1>1, <2>1, <2>2 DEF FilingInv, FilingTypeOK
  <1>4. FilesInv'
    BY <1>1, FilesKept DEF FilingInv
  <1>5. \A d \in Keepers : act'[d] # Unstarted => ActOK(d)'
    <2>1. \A d \in Keepers : act[d] # Unstarted => ActOK(d)
      BY DEF FilingInv, JournaledInv
    <2> QED BY <1>1, <1>2, <2>1 DEF ActOK
  <1>6. \A j \in DOMAIN drawn : Told(j)'
    <2>1. \A j \in DOMAIN drawn : Told(j)
      BY DEF FilingInv, JournaledInv
    <2> QED BY <1>1, <2>1, ToldKept
  <1>7. JournaledInv'
    BY <1>1, <1>2, <1>5, <1>6 DEF FilingInv, JournaledInv
  <1> QED BY <1>3, <1>4, <1>7 DEF FilingInv
LEMMA CommitActKeeps ==
  ASSUME FilingInv, NEW c \in Keepers, CommitAct(c)
  PROVE  FilingInv'
  <1> USE FilingAssumption
  <1>1. PICK a : a = act[c]
    OBVIOUS
  <1>2. PICK i : i = a.of
    OBVIOUS
  <1>3. PICK row : row = IF a.action = "validated" THEN [drawn[i] EXCEPT !.status = "validated", !.by = c]
                         ELSE [drawn[i] EXCEPT !.status = "deleted"]
    OBVIOUS
  <1>4. PICK e : e = [action |-> a.action, of |-> i, by |-> c]
    OBVIOUS
  <1>5. /\ a # Unstarted /\ entries' = Append(entries, e) /\ act' = [act EXCEPT ![c] = Unstarted]
        /\ UNCHANGED <<objects, filed, upload>>
    BY <1>1, <1>2, <1>4 DEF CommitAct, append_audit_entry, Entry
  <1>6. /\ a \in PlacementActs /\ i \in DOMAIN drawn
        /\ a.action = "validated" => drawn[i].status = "proposed"
        /\ a.action = "deleted" => drawn[i].status # "deleted"
    BY <1>1, <1>2, <1>5 DEF FilingInv, FilingTypeOK, JournaledInv, ActOK
  <1>7. PICK n \in Nat : n = Len(drawn)
    BY FilingAre DEF FilingInv
  <1>8. drawn[i] \in DrawnRows /\ DOMAIN drawn = 1..n /\ drawn \in Seq(DrawnRows)
    BY <1>6, <1>7, FilingAre DEF FilingInv, FilingTypeOK
  <1>9. drawn' = [drawn EXCEPT ![i] = row]
    <2>1. CASE a.action = "validated"
      <3>1. drawn' = [drawn EXCEPT ![i] = [@ EXCEPT !.status = "validated", !.by = c]]
        BY <1>1, <1>2, <2>1 DEF CommitAct
      <3>2. row = [drawn[i] EXCEPT !.status = "validated", !.by = c]
        BY <1>3, <2>1
      <3> QED BY <1>6, <3>1, <3>2
    <2>2. CASE a.action # "validated"
      <3>1. drawn' = [drawn EXCEPT ![i] = [@ EXCEPT !.status = "deleted"]]
        BY <1>1, <1>2, <2>2 DEF CommitAct
      <3>2. row = [drawn[i] EXCEPT !.status = "deleted"]
        BY <1>3, <2>2
      <3> QED BY <1>6, <3>1, <3>2
    <2> QED BY <2>1, <2>2
  <1>10. a.action \in {"validated", "deleted"} /\ i \in Nat
    BY <1>2, <1>6 DEF PlacementActs
  <1>11. /\ row \in DrawnRows
         /\ a.action = "validated" => row.status = "validated" /\ row.by = c
         /\ a.action = "deleted" => row.status = "deleted"
    BY <1>3, <1>8, <1>10 DEF DrawnRows
  <1>12. e \in FilingEntries /\ e.action = a.action /\ e.of = i /\ e.by = c
    BY <1>4, <1>10 DEF FilingEntries
  <1>13. /\ drawn' \in Seq(DrawnRows) /\ Len(drawn') = n /\ DOMAIN drawn' = 1..n
         /\ \A j \in 1..n : drawn'[j] = IF j = i THEN row ELSE drawn[j]
    <2>1. drawn' \in Seq(DrawnRows) /\ Len(drawn') = n
      BY <1>6, <1>7, <1>8, <1>9, <1>11, ExceptSeq
    <2> QED BY <1>6, <1>7, <1>8, <1>9, <2>1
  <1>14. PICK k : k = Len(entries) + 1
    OBVIOUS
  <1>15. /\ entries' \in Seq(FilingEntries)
         /\ \A m \in DOMAIN entries' : m \in DOMAIN entries \/ m = k
         /\ \A m \in DOMAIN entries : entries'[m] = entries[m] /\ m < k
         /\ entries'[k] = e
         /\ \A action, j :
               Acts(action, j)' = IF e.action = action /\ e.of = j
                                  THEN Acts(action, j) \cup {k} ELSE Acts(action, j)
    <2>1. /\ entries' \in Seq(FilingEntries) /\ Len(entries) \in Nat
          /\ DOMAIN entries = 1..Len(entries) /\ DOMAIN entries' = 1..(Len(entries) + 1)
          /\ \A m \in DOMAIN entries : entries'[m] = entries[m]
          /\ entries'[Len(entries) + 1] = e
          /\ \A action, j :
               Acts(action, j)' = IF e.action = action /\ e.of = j
                                  THEN Acts(action, j) \cup {Len(entries) + 1} ELSE Acts(action, j)
      BY <1>5, <1>12, Appended DEF FilingInv
    <2>2. \A m \in 1..(Len(entries) + 1) : m \in 1..Len(entries) \/ m = Len(entries) + 1
      <3>1. PICK l \in Nat : l = Len(entries)
        BY <2>1
      <3> QED BY <3>1
    <2>3. \A m \in 1..Len(entries) : m < Len(entries) + 1
      <3>1. PICK l \in Nat : l = Len(entries)
        BY <2>1
      <3> QED BY <3>1
    <2> QED BY <1>14, <2>1, <2>2, <2>3
  <1>16. Told(i)
    BY <1>6 DEF FilingInv, JournaledInv
  <1>17. \E m : Acts("proposed", i)' = {m}
    <2>1. Acts("proposed", i)' = Acts("proposed", i)
      BY <1>10, <1>12, <1>15
    <2> QED BY <1>16, <2>1 DEF Told
  <1>18. Told(i)'
    <2>1. CASE a.action = "validated"
      <3>1. Acts("validated", i) = {} /\ Acts("deleted", i) = {}
        BY <1>6, <1>16, <2>1 DEF Told
      <3>2. Acts("validated", i)' = Acts("validated", i) \cup {k} /\ Acts("deleted", i)' = Acts("deleted", i)
        BY <1>12, <1>15, <2>1
      <3>3. Acts("validated", i)' = {k} /\ Acts("deleted", i)' = {}
        BY <3>1, <3>2
      <3>4. entries'[k].by = drawn'[i].by /\ drawn'[i].status = "validated"
        BY <1>6, <1>8, <1>11, <1>12, <1>13, <1>15, <2>1
      <3> QED BY <1>17, <3>3, <3>4 DEF Told
    <2>2. CASE a.action = "deleted"
      <3>1. /\ Acts("deleted", i) = {}
            /\ Acts("validated", i) = {} \/ \E m : Acts("validated", i) = {m}
        BY <1>6, <1>8, <1>16, <2>2 DEF Told, DrawnRows
      <3>2. Acts("deleted", i)' = Acts("deleted", i) \cup {k} /\ Acts("validated", i)' = Acts("validated", i)
        BY <1>12, <1>15, <2>2
      <3>3. Acts("deleted", i)' = {k}
        BY <3>1, <3>2
      <3>4. \A m \in Acts("validated", i) : m < k
        BY <1>15 DEF Acts
      <3>5. Acts("validated", i)' = {} \/ \E m : Acts("validated", i)' = {m} /\ m < k
        BY <3>1, <3>2, <3>4
      <3>6. drawn'[i].status = "deleted"
        BY <1>6, <1>8, <1>11, <1>13, <2>2
      <3> QED BY <1>17, <3>3, <3>5, <3>6 DEF Told
    <2> QED BY <1>10, <2>1, <2>2
  <1>19. \A j \in 1..n : Told(j)'
    <2> SUFFICES ASSUME NEW j \in 1..n, j # i PROVE Told(j)'
      BY <1>18
    <2>1. j \in DOMAIN drawn /\ Told(j) /\ drawn'[j] = drawn[j]
      BY <1>8, <1>13 DEF FilingInv, JournaledInv
    <2> QED BY <1>5, <1>12, <2>1, OthersTold DEF FilingInv
  <1>20. \A m \in DOMAIN entries' : entries'[m].action # "uploaded" => entries'[m].of \in 1..n
    BY <1>6, <1>8, <1>12, <1>15 DEF FilingInv, JournaledInv
  <1>21. \A d \in Keepers : act'[d] = IF d = c THEN Unstarted ELSE act[d]
    BY <1>5 DEF FilingInv, FilingTypeOK
  <1>22. ASSUME NEW d \in Keepers, act'[d] # Unstarted
         PROVE  ActOK(d)'
    <2>1. d # c /\ act'[d] = act[d] /\ ActOK(d)
      BY <1>21, <1>22 DEF FilingInv, JournaledInv
    <2>2. act[d].of # i
      BY <1>1, <1>2, <1>5, <1>22, <2>1 DEF FilingInv, JournaledInv
    <2> QED BY <1>8, <1>13, <2>1, <2>2 DEF ActOK
  <1>23. JournaledInv'
    BY <1>13, <1>19, <1>20, <1>21, <1>22 DEF FilingInv, JournaledInv
  <1>24. FilingTypeOK'
    <2>1. act' \in [Keepers -> PlacementActs \cup {Unstarted}]
      BY <1>5 DEF FilingInv, FilingTypeOK
    <2>2. \A d, f \in Keepers : act'[d] # Unstarted /\ act'[d] = act'[f] => d = f
      BY <1>21 DEF FilingInv, FilingTypeOK
    <2> QED BY <1>5, <1>7, <1>13, <1>15, <2>1, <2>2 DEF FilingInv, FilingTypeOK
  <1>25. FilesInv'
    BY <1>5, FilesKept DEF FilingInv
  <1> QED BY <1>23, <1>24, <1>25 DEF FilingInv

LEMMA FilingInvStep == FilingInv /\ [FilingNext]_filingVars => FilingInv'
  <1> SUFFICES ASSUME FilingInv, [FilingNext]_filingVars PROVE FilingInv'
    OBVIOUS
  <1>1. CASE UNCHANGED filingVars
    <2>1. UNCHANGED <<objects, filed, upload, drawn, act, entries>>
      BY <1>1 DEF filingVars
    <2>2. FilingTypeOK'
      BY <2>1 DEF FilingInv, FilingTypeOK
    <2> QED BY <2>1, <2>2, JournaledKept, FilesKept DEF FilingInv
  <1>2. ASSUME NEW c \in Keepers, GiveUp(c) \/ RecordFails(c)
        PROVE  FilingInv'
    BY <1>2, DroppedKeeps DEF GiveUp, RecordFails
  <1>3. CASE FilingNext
    BY <1>2, <1>3, SignedKeeps, PutKeeps, RecordedKeeps, ProposedKeeps, OpensKeep, CommitActKeeps, LostKeeps
    DEF FilingNext
  <1> QED BY <1>1, <1>3

LEMMA FilingInvariant == FilingSpec => []FilingInv
  BY FilingInvInit, FilingInvStep, PTL DEF FilingSpec

(* The store, the rows, the journal and the open transactions: no two of    *)
(* them on one placement.                                                  *)
THEOREM FilingTypeCorrect == FilingSpec => []FilingTypeOK
  <1>1. FilingInv => FilingTypeOK
    BY DEF FilingInv
  <1> QED BY <1>1, FilingInvariant, PTL

LEMMA OneAtMost ==
  ASSUME NEW S, S = {} \/ \E n : S = {n}
  PROVE  Cardinality(S) <= 1
  <1>1. Cardinality({}) = 0 /\ \A x : Cardinality({x}) = 1
    BY FS_EmptySet, FS_Singleton, Zenon
  <1>2. Cardinality(S) = 0 \/ Cardinality(S) = 1
    BY <1>1, Zenon
  <1> QED BY <1>2

(* Whichever of the three calls of an upload is lost, a row leads to its   *)
(* object; whichever of two people is served first, what a plan shows is   *)
(* what the journal tells (app/storage.py, app/plan_placements.py).        *)
THEOREM FilingSoundHolds == FilingSpec => []FilingSound
  <1>1. FilingInv => FilesReadable
    BY DEF FilingInv, FilesInv
  <1>2. FilingInv => PlacementsJournaled
    <2> SUFFICES ASSUME FilingInv PROVE PlacementsJournaled
      OBVIOUS
    <2>1. \A x : Cardinality({x}) = 1
      BY FS_Singleton, Zenon
    <2>2. ASSUME NEW i \in DOMAIN drawn
          PROVE  /\ Cardinality(Acts("proposed", i)) = 1
                 /\ Cardinality(Acts("validated", i)) <= 1 /\ Cardinality(Acts("deleted", i)) <= 1
                 /\ \A n \in Acts("deleted", i), m \in Acts("validated", i) : m < n
                 /\ drawn[i].status = "validated" =>
                       /\ Acts("deleted", i) = {}
                       /\ \E n \in Acts("validated", i) : entries[n].by = drawn[i].by
      <3>1. Told(i) /\ drawn[i].status \in {"proposed", "validated", "deleted"}
        BY FilingAre DEF FilingInv, JournaledInv, DrawnRows
      <3>2. PICK p : Acts("proposed", i) = {p}
        BY <3>1 DEF Told
      <3>3. Acts("validated", i) = {} \/ \E n : Acts("validated", i) = {n}
        BY <3>1 DEF Told
      <3>4. Acts("deleted", i) = {} \/ \E n : Acts("deleted", i) = {n}
        BY <3>1 DEF Told
      <3>5. Cardinality(Acts("proposed", i)) = 1
        BY <2>1, <3>2
      <3>6. Cardinality(Acts("validated", i)) <= 1
        BY <3>3, OneAtMost
      <3>7. Cardinality(Acts("deleted", i)) <= 1
        BY <3>4, OneAtMost
      <3>8. \A n \in Acts("deleted", i), m \in Acts("validated", i) : m < n
        BY <3>1 DEF Told
      <3>9. drawn[i].status = "validated" =>
               /\ Acts("deleted", i) = {}
               /\ \E n \in Acts("validated", i) : entries[n].by = drawn[i].by
        BY <3>1 DEF Told
      <3> QED BY <3>5, <3>6, <3>7, <3>8, <3>9
    <2> QED BY <2>2 DEF PlacementsJournaled, list_live_placements
  <1> QED BY <1>1, <1>2, FilingInvariant, PTL DEF FilingSound
-----------------------------------------------------------------------------
(* The graph of relations, and the walk of the impacts.                    *)
(* Whoever the walk knows of and has done with has its dependents visited. *)
WalkKnown == {Failed} \cup walk.visited
Waiting == walk.frontier \cup walk.next
WalkInv ==
    /\ walk.state = "walking" => throughout \subseteq OpenRows /\ OpenRows \subseteq sometime
    /\ walk.state # "none" =>
          /\ Waiting \subseteq WalkKnown
          /\ walk.visited \subseteq DependOn(sometime, Failed)
          /\ \A i \in throughout :
                relations[i].predicate = "dependsOn" /\ relations[i].object \in WalkKnown \ Waiting
                => relations[i].subject \in walk.visited
    /\ walk.state = "done" => Waiting = {}
GraphInv == GraphTypeOK /\ WalkInv

(* The sets that DependOn is the least of. *)
ClosedSet(rows, n, S) ==
    \A i \in rows : /\ relations[i].predicate = "dependsOn"
                    /\ relations[i].object = n \/ relations[i].object \in S
                    => relations[i].subject \in S

LEMMA DependLeast ==
  ASSUME NEW rows, NEW n
  PROVE  DependOn(rows, n) = {m \in Nodes : \A S \in SUBSET Nodes : ClosedSet(rows, n, S) => m \in S}
  BY DEF DependOn, ClosedSet

(* A row that exists says the same for ever, but for being open.           *)
RowsStay ==
    /\ DOMAIN relations \subseteq DOMAIN relations'
    /\ \A i \in DOMAIN relations :
          /\ relations'[i].subject = relations[i].subject
          /\ relations'[i].predicate = relations[i].predicate
          /\ relations'[i].object = relations[i].object

LEMMA DependGrows ==
  ASSUME RowsStay, NEW rows \in SUBSET DOMAIN relations, NEW more, rows \subseteq more, NEW n
  PROVE  DependOn(rows, n) \subseteq DependOn(more, n)'
  <1>1. \A S \in SUBSET Nodes : ClosedSet(more, n, S)' => ClosedSet(rows, n, S)
    BY DEF RowsStay, ClosedSet
  <1>2. DependOn(more, n)' = {m \in Nodes : \A S \in SUBSET Nodes : ClosedSet(more, n, S)' => m \in S}
    BY DEF DependOn, ClosedSet
  <1> QED BY <1>1, <1>2, DependLeast

(* One row of a sequence put in place of another. *)
LEMMA RowReplaced ==
  ASSUME NEW S, NEW s \in Seq(S), NEW k \in DOMAIN s, NEW row \in S
  PROVE  LET t == [s EXCEPT ![k] = row]
         IN  /\ t \in Seq(S) /\ Len(t) = Len(s) /\ DOMAIN t = DOMAIN s /\ t[k] = row
             /\ \A i \in DOMAIN s : i # k => t[i] = s[i]
  OBVIOUS

LEMMA GraphInitInv == GraphInit => GraphInv
  BY GraphAssumption DEF GraphInit, GraphInv, GraphTypeOK, WalkInv, OpenRows

(* Rows that change while the walk stands still.                           *)
LEMMA RowsChange ==
  ASSUME GraphInv, GraphTypeOK', RowsStay, UNCHANGED walk, Watched(OpenRows')
  PROVE  GraphInv'
  <1>1. throughout \subseteq sometime /\ sometime \subseteq DOMAIN relations
    BY DEF GraphInv, GraphTypeOK
  <1>2. /\ throughout' \subseteq throughout /\ sometime \subseteq sometime'
        /\ walk.state = "walking" => throughout' \subseteq OpenRows' /\ OpenRows' \subseteq sometime'
    BY DEF Watched
  <1>3. PICK more : more = sometime'
    OBVIOUS
  <1>4. DependOn(sometime, Failed) \subseteq DependOn(sometime, Failed)'
    <2>1. DependOn(sometime, Failed) \subseteq DependOn(more, Failed)'
      BY <1>1, <1>2, <1>3, DependGrows
    <2>2. DependOn(more, Failed)' = DependOn(sometime, Failed)'
      BY <1>3 DEF DependOn
    <2> QED BY <2>1, <2>2
  <1>5. ASSUME NEW i \in throughout'
        PROVE  /\ i \in throughout /\ relations'[i].subject = relations[i].subject
               /\ relations'[i].predicate = relations[i].predicate
               /\ relations'[i].object = relations[i].object
    BY <1>1, <1>2 DEF RowsStay
  <1>6. Waiting' = Waiting /\ WalkKnown' = WalkKnown
    BY DEF Waiting, WalkKnown
  <1>7. WalkInv'
    BY <1>2, <1>4, <1>5, <1>6 DEF GraphInv, WalkInv
  <1> QED BY <1>7 DEF GraphInv

LEMMA GraphStep == GraphInv /\ [GraphNext]_graphVars => GraphInv'
  <1> SUFFICES ASSUME GraphInv, [GraphNext]_graphVars PROVE GraphInv'
    OBVIOUS
  <1>0. /\ relations \in Seq(RelationRows) /\ Len(relations) \in Nat /\ Len(relations) <= MaxRelations
        /\ DOMAIN relations = 1..Len(relations) /\ DOMAIN relations \subseteq 1..MaxRelations
        /\ graphCall \in [GraphCalls -> GraphReads \cup {NoRead}]
        /\ OpenRows \subseteq DOMAIN relations
        /\ throughout \subseteq sometime /\ sometime \subseteq DOMAIN relations
    BY GraphAssumption DEF GraphInv, GraphTypeOK, OpenRows
  <1>1. ASSUME UNCHANGED <<relations, walk, throughout, sometime>>,
               graphCall' \in [GraphCalls -> GraphReads \cup {NoRead}],
               \A c \in GraphCalls : graphCall'[c] # NoRead /\ graphCall'[c].id # NoRelation
                                     => graphCall'[c].id \in DOMAIN relations
        PROVE  GraphInv'
    BY <1>1 DEF GraphInv, GraphTypeOK, WalkInv, OpenRows, Waiting, WalkKnown, DependOn
  <1>2. ASSUME NEW c \in GraphCalls, NEW pair \in Pairs, NEW p \in Predicates,
               create_relation(c, pair[1], p, pair[2])
        PROVE  GraphInv'
    <2>1. pair[1] \in Nodes /\ pair[2] \in Nodes
      BY GraphAssumption
    <2>2. PICK q : q = [id |-> NoRelation, subject |-> pair[1], predicate |-> p, object |-> pair[2]]
      OBVIOUS
    <2>3. q \in GraphReads /\ q.id = NoRelation
      BY <2>1, <2>2 DEF GraphReads
    <2>4. graphCall' = [graphCall EXCEPT ![c] = q]
          /\ UNCHANGED <<relations, walk, throughout, sometime>>
      BY <1>2, <2>2 DEF create_relation
    <2> QED BY <1>0, <1>1, <2>3, <2>4 DEF GraphInv, GraphTypeOK
  <1>3. ASSUME NEW c \in GraphCalls, InsertRelation(c) PROVE GraphInv'
    <2>1. PICK q \in GraphReads : q = graphCall[c] /\ q # NoRead /\ q.id = NoRelation
      BY <1>0, <1>3 DEF InsertRelation
    <2>2. q.subject \in Nodes /\ q.predicate \in Predicates /\ q.object \in Nodes
      BY <2>1, GraphAssumption DEF GraphReads
    <2>3. graphCall' = [graphCall EXCEPT ![c] = NoRead] /\ UNCHANGED walk
      BY <1>3 DEF InsertRelation
    <2>4. /\ graphCall' \in [GraphCalls -> GraphReads \cup {NoRead}]
          /\ \A d \in GraphCalls : graphCall'[d] # NoRead /\ graphCall'[d].id # NoRelation
                                   => graphCall'[d].id \in DOMAIN relations
      BY <1>0, <2>3 DEF GraphInv, GraphTypeOK
    <2>5. CASE UNCHANGED <<relations, throughout, sometime>>
      BY <1>1, <2>3, <2>4, <2>5
    <2>6. CASE ~ UNCHANGED <<relations, throughout, sometime>>
      <3>1. PICK row : row = [subject |-> q.subject, predicate |-> q.predicate,
                              object |-> q.object, open |-> TRUE]
        OBVIOUS
      <3>2. /\ uq_relations_open(q.subject, q.predicate, q.object) /\ Len(relations) < MaxRelations
            /\ relations' = Append(relations, row) /\ Watched(OpenRows \cup {Len(relations) + 1})
        BY <1>3, <2>1, <2>6, <3>1 DEF InsertRelation
      <3>3. /\ row \in RelationRows /\ row.subject = q.subject /\ row.predicate = q.predicate
            /\ row.object = q.object /\ row.open = TRUE
        BY <2>2, <3>1 DEF RelationRows
      <3>4. PICK n \in Nat : n = Len(relations)
        BY <1>0
      <3>5. /\ relations' \in Seq(RelationRows) /\ Len(relations') = n + 1
            /\ \A i \in 1..n : relations'[i] = relations[i]
            /\ relations'[n + 1] = row
        BY <1>0, <3>2, <3>3, <3>4, AppendProperties
      <3>6. DOMAIN relations' = 1..(n + 1) /\ DOMAIN relations = 1..n
        BY <1>0, <3>4, <3>5
      <3>7. OpenRows' = OpenRows \cup {n + 1}
        BY <3>3, <3>5, <3>6 DEF OpenRows
      <3>8. RowsStay
        BY <3>5, <3>6 DEF RowsStay
      <3>9. throughout' \subseteq sometime' /\ sometime' \subseteq DOMAIN relations'
        BY <1>0, <3>2, <3>4, <3>6 DEF Watched
      <3>10. \A i, j \in OpenRows' :
               /\ relations'[i].subject = relations'[j].subject
               /\ relations'[i].predicate = relations'[j].predicate
               /\ relations'[i].object = relations'[j].object
               => i = j
        <4>1. \A i \in OpenRows : i \in 1..n /\ relations'[i] = relations[i]
          BY <3>5, <3>6 DEF OpenRows
        <4>2. \A i \in OpenRows : ~ (/\ relations[i].subject = q.subject
                                     /\ relations[i].predicate = q.predicate
                                     /\ relations[i].object = q.object)
          BY <3>2 DEF uq_relations_open, _open_relation_exists
        <4>3. \A i, j \in OpenRows :
               /\ relations[i].subject = relations[j].subject
               /\ relations[i].predicate = relations[j].predicate
               /\ relations[i].object = relations[j].object
               => i = j
          BY DEF GraphInv, GraphTypeOK
        <4> QED BY <3>3, <3>5, <3>7, <4>1, <4>2, <4>3
      <3>11. GraphTypeOK'
        <4>1. Len(relations') <= MaxRelations
          BY <3>2, <3>4, <3>5, GraphAssumption
        <4>2. \A d \in GraphCalls : graphCall'[d] # NoRead /\ graphCall'[d].id # NoRelation
                                    => graphCall'[d].id \in DOMAIN relations'
          BY <2>4, <3>6
        <4>3. walk' \in [state : {"none", "walking", "done"}, frontier : SUBSET Nodes,
                         next : SUBSET Nodes, visited : SUBSET Nodes]
          BY <2>3 DEF GraphInv, GraphTypeOK
        <4> QED BY <2>4, <3>5, <3>9, <3>10, <4>1, <4>2, <4>3 DEF GraphTypeOK
      <3> QED BY <2>3, <3>2, <3>4, <3>7, <3>8, <3>11, RowsChange
    <2> QED BY <2>5, <2>6
  <1>4. ASSUME NEW c \in GraphCalls, CloseRelation(c) PROVE GraphInv'
    <2>1. PICK k \in DOMAIN relations : k = graphCall[c].id
      BY <1>4 DEF CloseRelation, GraphInv, GraphTypeOK
    <2>2. /\ graphCall' = [graphCall EXCEPT ![c] = NoRead] /\ UNCHANGED walk
          /\ relations' = [relations EXCEPT ![k].open = FALSE] /\ Watched(OpenRows \ {k})
      BY <1>4, <2>1 DEF CloseRelation
    <2>3. relations[k] \in RelationRows
      BY <1>0
    <2>4. PICK row : row = [relations[k] EXCEPT !.open = FALSE]
      OBVIOUS
    <2>5. /\ row \in RelationRows /\ row.open = FALSE /\ row.subject = relations[k].subject
          /\ row.predicate = relations[k].predicate /\ row.object = relations[k].object
      BY <2>3, <2>4 DEF RelationRows
    <2>6. /\ relations' \in Seq(RelationRows) /\ Len(relations') = Len(relations)
          /\ DOMAIN relations' = DOMAIN relations /\ relations'[k] = row
          /\ \A i \in DOMAIN relations : i # k => relations'[i] = relations[i]
      <3>1. relations' = [relations EXCEPT ![k] = row]
        BY <2>2, <2>4
      <3> QED BY <1>0, <2>1, <2>5, <3>1, RowReplaced
    <2>7. OpenRows' = OpenRows \ {k}
      BY <2>5, <2>6 DEF OpenRows
    <2>8. RowsStay
      BY <2>5, <2>6 DEF RowsStay
    <2>9. throughout' \subseteq sometime' /\ sometime' \subseteq DOMAIN relations'
      BY <1>0, <2>2, <2>6 DEF Watched
    <2>10. \A i, j \in OpenRows' :
             /\ relations'[i].subject = relations'[j].subject
             /\ relations'[i].predicate = relations'[j].predicate
             /\ relations'[i].object = relations'[j].object
             => i = j
      BY <1>0, <2>6, <2>7 DEF GraphInv, GraphTypeOK
    <2>11. GraphTypeOK'
      <3>1. /\ graphCall' \in [GraphCalls -> GraphReads \cup {NoRead}]
            /\ \A d \in GraphCalls : graphCall'[d] # NoRead /\ graphCall'[d].id # NoRelation
                                     => graphCall'[d].id \in DOMAIN relations'
        BY <1>0, <2>2, <2>6 DEF GraphInv, GraphTypeOK
      <3> QED BY <1>0, <2>2, <2>6, <2>9, <2>10, <3>1 DEF GraphInv, GraphTypeOK
    <2> QED BY <2>2, <2>7, <2>8, <2>11, RowsChange
  <1>5. ASSUME NEW c \in GraphCalls, NEW i \in DOMAIN relations, end_relation(c, i) PROVE GraphInv'
    <2>1. PICK q : q = [id |-> i]
      OBVIOUS
    <2>2. q \in GraphReads /\ q.id = i
      BY <1>0, <2>1 DEF GraphReads
    <2>3. graphCall' = [graphCall EXCEPT ![c] = q]
          /\ UNCHANGED <<relations, walk, throughout, sometime>>
      BY <1>5, <2>1 DEF end_relation
    <2> QED BY <1>0, <1>1, <2>2, <2>3 DEF GraphInv, GraphTypeOK
  <1>6. CASE find_dependents
    <2>1. /\ walk' = [state |-> "walking", frontier |-> {Failed}, next |-> {}, visited |-> {}]
          /\ throughout' = OpenRows /\ sometime' = OpenRows /\ UNCHANGED <<relations, graphCall>>
      BY <1>6 DEF find_dependents
    <2>2. GraphTypeOK'
      BY <1>0, <2>1, GraphAssumption DEF GraphInv, GraphTypeOK, OpenRows
    <2>3. WalkInv'
      BY <2>1 DEF WalkInv, Waiting, WalkKnown, OpenRows
    <2> QED BY <2>2, <2>3 DEF GraphInv
  <1>7. ASSUME NEW n \in Nodes, Visit(n) PROVE GraphInv'
    <2>1. PICK left, next : left = walk.frontier \ {n}
                            /\ next = walk.next \cup (dependents(n) \ walk.visited)
      OBVIOUS
    <2>2. /\ walk.state = "walking" /\ n \in walk.frontier
          /\ walk' = [visited |-> walk.visited \cup dependents(n),
                      frontier |-> IF left = {} THEN next ELSE left,
                      next |-> IF left = {} THEN {} ELSE next,
                      state |-> IF left = {} /\ next = {} THEN "done" ELSE "walking"]
          /\ UNCHANGED <<relations, graphCall, throughout, sometime>>
      BY <1>7, <2>1 DEF Visit
    <2>3. /\ walk'.visited = walk.visited \cup dependents(n) /\ Waiting' = left \cup next
          /\ walk'.state \in {"walking", "done"} /\ (walk'.state = "done" => left \cup next = {})
      BY <2>2 DEF Waiting
    <2>4. dependents(n) \subseteq Nodes
      <3>1. \A i \in DOMAIN relations : relations[i] \in RelationRows
        BY <1>0
      <3> QED BY <1>0, <3>1 DEF dependents, RelationRows
    <2>5. /\ throughout \subseteq OpenRows /\ OpenRows \subseteq sometime
          /\ Waiting \subseteq WalkKnown /\ walk.visited \subseteq DependOn(sometime, Failed)
          /\ \A i \in throughout :
                relations[i].predicate = "dependsOn" /\ relations[i].object \in WalkKnown \ Waiting
                => relations[i].subject \in walk.visited
      BY <2>2 DEF GraphInv, WalkInv
    <2>6. dependents(n) \subseteq DependOn(sometime, Failed)
      <3> SUFFICES ASSUME NEW m \in dependents(n) PROVE m \in DependOn(sometime, Failed)
        OBVIOUS
      <3>1. PICK i \in OpenRows : relations[i].predicate = "dependsOn" /\ relations[i].object = n
                                  /\ m = relations[i].subject
        BY DEF dependents
      <3>2. n = Failed \/ n \in DependOn(sometime, Failed)
        BY <2>2, <2>5 DEF Waiting, WalkKnown
      <3>3. ASSUME NEW S \in SUBSET Nodes, ClosedSet(sometime, Failed, S) PROVE m \in S
        <4>1. n = Failed \/ n \in S
          BY <3>2, <3>3, DependLeast
        <4> QED BY <2>5, <3>1, <3>3, <4>1 DEF ClosedSet
      <3> QED BY <2>4, <3>3, DependLeast
    <2>7. WalkKnown' = WalkKnown \cup dependents(n)
      BY <2>3 DEF WalkKnown
    <2>8. Waiting' \subseteq WalkKnown'
      BY <2>1, <2>3, <2>5, <2>7 DEF Waiting
    <2>9. ASSUME NEW i \in throughout, relations[i].predicate = "dependsOn",
                 relations[i].object \in WalkKnown' \ Waiting'
          PROVE  relations[i].subject \in walk'.visited
      <3>1. PICK o : o = relations[i].object
        OBVIOUS
      <3>2. CASE o = n
        BY <2>3, <2>5, <2>9, <3>1, <3>2 DEF dependents
      <3>3. CASE o # n
        <4>1. o \in WalkKnown \ Waiting
          BY <2>1, <2>3, <2>7, <2>9, <3>1, <3>3 DEF Waiting, WalkKnown
        <4> QED BY <2>3, <2>5, <2>9, <3>1, <4>1
      <3> QED BY <3>2, <3>3
    <2>10. WalkInv'
      <3>1. DependOn(sometime, Failed)' = DependOn(sometime, Failed)
        BY <2>2 DEF DependOn
      <3>2. OpenRows' = OpenRows
        BY <2>2 DEF OpenRows
      <3> QED BY <2>2, <2>3, <2>5, <2>6, <2>8, <2>9, <3>1, <3>2 DEF WalkInv
    <2>11. GraphTypeOK'
      <3>1. walk' \in [state : {"none", "walking", "done"}, frontier : SUBSET Nodes,
                       next : SUBSET Nodes, visited : SUBSET Nodes]
        BY <2>1, <2>2, <2>4 DEF GraphInv, GraphTypeOK
      <3> QED BY <2>2, <3>1 DEF GraphInv, GraphTypeOK, OpenRows
    <2> QED BY <2>10, <2>11 DEF GraphInv
  <1>8. CASE UNCHANGED graphVars
    BY <1>0, <1>1, <1>8 DEF graphVars, GraphInv, GraphTypeOK
  <1> QED BY <1>2, <1>3, <1>4, <1>5, <1>6, <1>7, <1>8 DEF GraphNext

LEMMA GraphInvariant == GraphSpec => []GraphInv
  BY GraphInitInv, GraphStep, PTL DEF GraphSpec

(* The relations, what the requests have read, the walk and its history.   *)
THEOREM GraphTypeCorrect == GraphSpec => []GraphTypeOK
  <1>1. GraphInv => GraphTypeOK
    BY DEF GraphInv
  <1> QED BY <1>1, GraphInvariant, PTL

(* Whatever relations are created and ended while the walk reads one node  *)
(* after the other, it finds all that depended on the node the whole time, *)
(* and nothing that did not at any time (app/impact_analysis.py).          *)
THEOREM WalkFaithfulHolds == GraphSpec => []WalkFaithful
  <1>1. GraphInv => WalkFaithful
    <2> SUFFICES ASSUME GraphInv, walk.state = "done"
                 PROVE  /\ DependOn(throughout, Failed) \subseteq walk.visited
                        /\ walk.visited \subseteq DependOn(sometime, Failed)
      BY DEF WalkFaithful
    <2>1. /\ Waiting = {} /\ walk.visited \subseteq DependOn(sometime, Failed)
          /\ walk.visited \subseteq Nodes
          /\ \A i \in throughout :
                relations[i].predicate = "dependsOn" /\ relations[i].object \in WalkKnown \ Waiting
                => relations[i].subject \in walk.visited
      BY DEF GraphInv, WalkInv, GraphTypeOK
    <2>2. ClosedSet(throughout, Failed, walk.visited)
      BY <2>1 DEF ClosedSet, WalkKnown
    <2> QED BY <2>1, <2>2, DependLeast
  <1> QED BY <1>1, GraphInvariant, PTL

-----------------------------------------------------------------------------
(* The tree of the spaces.                                                 *)

TreeWrites == SpaceWrites \cup Rejections

(* Where a space of a type stands: under the site, or under a row, of a    *)
(* type that may hold it.                                                  *)
ParentFits(type, parent) ==
    IF parent = Site THEN Site \in SPACE_TYPES[type]
    ELSE /\ parent \in SpaceIds /\ spaces[parent] # NoSpace
         /\ spaces[parent].type \in SPACE_TYPES[type]

(* What a request that has read may still rely on when it writes.          *)
PendingSound(r) ==
    /\ r.op = "create" => spaces[r.id] = NoSpace /\ ParentFits(r.type, r.parent)
    /\ r.op = "equip" => located[r.id] = Uncreated
    /\ r.op = "close" => spaces[r.id] # NoSpace /\ (Empty(r.id) \/ r.id \in raced)
    /\ r.op = "move" => located[r.id] # Uncreated /\ (Later(r.id, r.at) \/ r.id \in raced)
    /\ \A s \in Fills(r) \cap SpaceIds : IsOpen(s) \/ s \in raced

SpaceInv ==
    /\ spaces \in [SpaceIds -> SpaceRows \cup {NoSpace}]
    /\ \A s \in SpaceIds : spaces[s] # NoSpace => ParentFits(spaces[s].type, spaces[s].parent)
    /\ located \in [Equipment -> SpaceIds \cup {Nowhere, Uncreated}]
    /\ moves \in [Equipment -> SUBSET PlacesOfEquipment]
    /\ \A e \in Equipment : located[e] = Uncreated => moves[e] = {}
    /\ writing \in [SpaceCalls -> TreeWrites \cup {NoWrite}]
    /\ raced \subseteq SpaceIds \cup Equipment
    /\ \A c \in SpaceCalls : writing[c] # NoWrite => PendingSound(writing[c])
    /\ \A c, d \in SpaceCalls :
          /\ c # d /\ writing[c] # NoWrite /\ writing[d] # NoWrite
          /\ writing[c].op \in {"create", "equip"}
          => writing[c].id # writing[d].id
    /\ SettledSpaces

(* The kinds of what a request writes.                                     *)
LEMMA WriteKinds ==
  ASSUME NEW r \in TreeWrites
  PROVE  /\ r.op \in {"create", "equip", "move", "close", "reject"}
         /\ r.op = "create" => /\ r.id \in SpaceIds /\ r.parent \in SpaceIds \cup {Site}
                               /\ r.type \in DOMAIN SPACE_TYPES /\ r.code \in SpaceCodes
         /\ r.op \in {"equip", "move"} => /\ r.id \in Equipment /\ r.to \in SpaceIds \cup {Nowhere}
                                          /\ r.at \in MoveDates
         /\ r.op = "close" => r.id \in SpaceIds
         /\ r.op = "reject" => r.id \in Candidates
  BY DEF TreeWrites, SpaceWrites, Rejections

LEMMA IdsApart ==
  /\ \A s \in SpaceIds : s \notin Equipment /\ s \notin Candidates
  /\ \A e \in Equipment : e \notin SpaceIds /\ e \notin Candidates
  /\ \A p \in Candidates : p \notin SpaceIds /\ p \notin Equipment
  BY SpaceAssumption, ImportAssumption

LEMMA SpaceInitInv == SpaceInit => SpaceInv
  BY SpaceAssumption DEF SpaceInit, SpaceInv, SettledSpaces

(* The two halves of SettledSpaces.                                        *)
ClosedEmpty(s) == spaces[s] # NoSpace /\ ~spaces[s].open => Empty(s)
LastPlace(ms, place) == ms # {} => \E m \in ms : m.to = place /\ m.at = Max({n.at : n \in ms})

LEMMA SettledIs ==
  /\ SettledSpaces <=> /\ \A s \in SpaceIds \ raced : ClosedEmpty(s)
                       /\ \A e \in Equipment \ raced : LastPlace(moves[e], located[e])
  /\ SettledSpaces' <=> /\ \A s \in SpaceIds \ raced' : ClosedEmpty(s)'
                        /\ \A e \in Equipment \ raced' : LastPlace(moves'[e], located'[e])
  BY DEF SettledSpaces, ClosedEmpty, LastPlace, Empty

(* A request begins, or ends without writing.                              *)
LEMMA WriteBegun ==
  ASSUME SpaceInv, NEW c \in SpaceCalls, NEW r \in TreeWrites, Holds(c, r), PendingSound(r),
         \A d \in SpaceCalls : d # c /\ writing[d] # NoWrite =>
            /\ r.op \in {"create", "equip"} => r.id # writing[d].id
            /\ writing[d].op \in {"create", "equip"} => r.id # writing[d].id
  PROVE  SpaceInv'
  <1>1. /\ writing' = [writing EXCEPT ![c] = r] /\ writing[c] = NoWrite
        /\ UNCHANGED <<spaces, located, moves, raced>>
    BY DEF Holds
  <1>2. writing' \in [SpaceCalls -> TreeWrites \cup {NoWrite}]
    BY <1>1 DEF SpaceInv
  <1>3. SettledSpaces'
    BY <1>1, SettledIs DEF SpaceInv, ClosedEmpty, Empty, OpenChildren, LocatedIn, IsOpen
  <1>4. ASSUME NEW s \in SpaceIds, spaces'[s] # NoSpace
        PROVE  ParentFits(spaces[s].type, spaces[s].parent)'
    BY <1>1, <1>4 DEF SpaceInv, ParentFits
  <1>5. ASSUME NEW d \in SpaceCalls, writing'[d] # NoWrite PROVE PendingSound(writing[d])'
    <2>1. PICK o : o = writing'[d] /\ PendingSound(o)
      BY <1>1, <1>5 DEF SpaceInv
    <2>2. PendingSound(o)'
      BY <1>1, <2>1 DEF PendingSound, ParentFits, Empty, OpenChildren, LocatedIn, IsOpen, Later
    <2> QED BY <2>1, <2>2 DEF PendingSound, ParentFits, Empty, OpenChildren, LocatedIn, IsOpen, Later, Fills
  <1>6. \A d, f \in SpaceCalls :
          /\ d # f /\ writing'[d] # NoWrite /\ writing'[f] # NoWrite
          /\ writing'[d].op \in {"create", "equip"}
          => writing'[d].id # writing'[f].id
    BY <1>1 DEF SpaceInv
  <1> QED BY <1>1, <1>2, <1>3, <1>4, <1>5, <1>6 DEF SpaceInv

LEMMA WriteDropped ==
  ASSUME SpaceInv, NEW c \in SpaceCalls, writing' = [writing EXCEPT ![c] = NoWrite],
         UNCHANGED <<spaces, located, moves, raced>>
  PROVE  SpaceInv'
  <1>2. writing' \in [SpaceCalls -> TreeWrites \cup {NoWrite}]
    BY DEF SpaceInv
  <1>3. SettledSpaces'
    BY SettledIs DEF SpaceInv, ClosedEmpty, Empty, OpenChildren, LocatedIn, IsOpen
  <1>4. ASSUME NEW s \in SpaceIds, spaces'[s] # NoSpace
        PROVE  ParentFits(spaces[s].type, spaces[s].parent)'
    BY <1>4 DEF SpaceInv, ParentFits
  <1>5. ASSUME NEW d \in SpaceCalls, writing'[d] # NoWrite PROVE PendingSound(writing[d])'
    <2>1. writing'[d] = writing[d] /\ PendingSound(writing[d])
      BY <1>5 DEF SpaceInv
    <2> QED BY <2>1 DEF PendingSound, ParentFits, Empty, OpenChildren, LocatedIn, IsOpen, Later, Fills
  <1>6. \A d, f \in SpaceCalls :
          /\ d # f /\ writing'[d] # NoWrite /\ writing'[f] # NoWrite
          /\ writing'[d].op \in {"create", "equip"}
          => writing'[d].id # writing'[f].id
    BY DEF SpaceInv
  <1> QED BY <1>2, <1>3, <1>4, <1>5, <1>6 DEF SpaceInv

(* What a commit says of the requests it overlapped.                       *)
LEMMA WhoRaced ==
  ASSUME SpaceInv, NEW c \in SpaceCalls, SpaceCommit(c)
  PROVE  /\ raced \subseteq raced' /\ raced' \subseteq SpaceIds \cup Equipment
         /\ \A d \in SpaceCalls \ {c} : writing[d] # NoWrite => Shared(writing[c], writing[d]) \subseteq raced'
  <1>1. PICK others : others = {writing[d] : d \in {d \in SpaceCalls \ {c} : writing[d] # NoWrite}}
    OBVIOUS
  <1>2. raced' = raced \cup UNION {Shared(writing[c], o) : o \in others}
    BY <1>1 DEF SpaceCommit
  <1>3. \A r, o \in TreeWrites : Shared(r, o) \subseteq SpaceIds \cup Equipment
    BY WriteKinds DEF Shared, Fills, Closes, Moves
  <1>4. writing[c] \in TreeWrites /\ others \subseteq TreeWrites
    BY <1>1 DEF SpaceInv, SpaceCommit
  <1> QED BY <1>1, <1>2, <1>3, <1>4 DEF SpaceInv

LEMMA RowClosed ==
  ASSUME NEW old \in SpaceRows, NEW row, row = [old EXCEPT !.open = FALSE]
  PROVE  /\ row \in SpaceRows /\ row.parent = old.parent /\ row.type = old.type
         /\ row.code = old.code /\ row.open = FALSE /\ row # NoSpace
  BY SpaceAssumption DEF SpaceRows

(* The three writes: a row, a closing, a place.                            *)
LEMMA RowCreated ==
  ASSUME SpaceInv, NEW c \in SpaceCalls, SpaceCommit(c), writing[c].op = "create"
  PROVE  SpaceInv'
  <1>1. PICK r \in TreeWrites : r = writing[c] /\ r # NoWrite /\ r.op = "create" /\ PendingSound(r)
    BY DEF SpaceInv, SpaceCommit
  <1>2. PICK row : row = [parent |-> r.parent, type |-> r.type, code |-> r.code, open |-> TRUE]
    OBVIOUS
  <1>3. /\ writing' = [writing EXCEPT ![c] = NoWrite] /\ UNCHANGED <<located, moves>>
        /\ spaces' = [spaces EXCEPT ![r.id] = row]
    BY <1>1, <1>2 DEF SpaceCommit
  <1>4. PICK n \in SpaceIds : n = r.id /\ spaces[n] = NoSpace /\ ParentFits(r.type, r.parent)
    BY <1>1, WriteKinds DEF PendingSound
  <1>5. /\ row \in SpaceRows /\ row.parent = r.parent /\ row.type = r.type /\ row.open = TRUE
        /\ row # NoSpace
    <2>1. PICK parent \in SpaceIds \cup {Site}, type \in DOMAIN SPACE_TYPES, code \in SpaceCodes :
             parent = r.parent /\ type = r.type /\ code = r.code
      BY <1>1, WriteKinds
    <2>2. row = [parent |-> parent, type |-> type, code |-> code, open |-> TRUE]
      BY <1>2, <2>1
    <2>3. /\ row \in SpaceRows /\ row.parent = parent /\ row.type = type /\ row.code = code
          /\ row.open = TRUE /\ row # NoSpace
      <3>1. row.parent = parent /\ row.type = type /\ row.code = code
        BY <2>2
      <3>2. row.open = TRUE
        BY <2>2
      <3>3. row \in SpaceRows
        BY <2>2 DEF SpaceRows
      <3> QED BY <3>1, <3>2, <3>3, SpaceAssumption
    <2> QED BY <2>1, <2>3
  <1>6. /\ spaces' \in [SpaceIds -> SpaceRows \cup {NoSpace}] /\ spaces'[n] = row
        /\ \A s \in SpaceIds : s # n => spaces'[s] = spaces[s]
        /\ \A s \in SpaceIds : spaces[s] # NoSpace => s # n /\ spaces'[s] = spaces[s]
    BY <1>3, <1>4, <1>5 DEF SpaceInv
  <1>7. /\ raced \subseteq raced' /\ raced' \subseteq SpaceIds \cup Equipment
        /\ \A d \in SpaceCalls \ {c} : writing[d] # NoWrite => Shared(r, writing[d]) \subseteq raced'
    BY <1>1, WhoRaced
  <1>8. \A type, parent : ParentFits(type, parent) => ParentFits(type, parent)'
    BY <1>6 DEF ParentFits
  <1>9. ASSUME NEW s \in SpaceIds
        PROVE  /\ IsOpen(s) => IsOpen(s)'
               /\ OpenChildren(s)' \subseteq OpenChildren(s) \cup {n}
               /\ s # r.parent => OpenChildren(s)' \subseteq OpenChildren(s)
               /\ LocatedIn(s)' = LocatedIn(s)
    BY <1>3, <1>4, <1>5, <1>6 DEF IsOpen, OpenChildren, LocatedIn
  <1>10. ASSUME NEW s \in SpaceIds, spaces'[s] # NoSpace
         PROVE  ParentFits(spaces[s].type, spaces[s].parent)'
    <2>1. CASE s = n
      <3>1. ParentFits(r.type, r.parent)'
        BY <1>4, <1>8
      <3> QED BY <1>5, <1>6, <2>1, <3>1 DEF ParentFits
    <2>2. CASE s # n
      <3>1. PICK type, parent : type = spaces[s].type /\ parent = spaces[s].parent
        OBVIOUS
      <3>2. ParentFits(type, parent)'
        BY <1>6, <1>8, <1>10, <2>2, <3>1 DEF SpaceInv
      <3> QED BY <1>6, <2>2, <3>1, <3>2 DEF ParentFits
    <2> QED BY <2>1, <2>2
  <1>11. ASSUME NEW d \in SpaceCalls, writing'[d] # NoWrite PROVE PendingSound(writing[d])'
    <2>1. PICK o \in TreeWrites : /\ o = writing[d] /\ o = writing'[d] /\ PendingSound(o) /\ d # c
                              /\ o # NoWrite
      BY <1>3, <1>11 DEF SpaceInv
    <2>2. o.op = "create" => spaces'[o.id] = NoSpace /\ ParentFits(o.type, o.parent)'
      <3>1. o.op = "create" => o.id # n /\ o.id \in SpaceIds
        <4>1. writing[c] # NoWrite /\ writing[c].op \in {"create", "equip"}
          BY <1>1
        <4>2. writing[c].id # writing[d].id
          BY <2>1, <4>1 DEF SpaceInv
        <4> QED BY <1>1, <1>4, <2>1, <4>2, WriteKinds
      <3> QED BY <1>6, <1>8, <2>1, <3>1 DEF PendingSound
    <2>3. o.op = "equip" => located'[o.id] = Uncreated
      BY <1>3, <2>1 DEF PendingSound
    <2>4. o.op = "close" => spaces'[o.id] # NoSpace /\ (Empty(o.id)' \/ o.id \in raced')
      <3> SUFFICES ASSUME o.op = "close"
                   PROVE  spaces'[o.id] # NoSpace /\ (Empty(o.id)' \/ o.id \in raced')
        OBVIOUS
      <3>1. o.id \in SpaceIds /\ spaces[o.id] # NoSpace /\ (Empty(o.id) \/ o.id \in raced)
        BY <2>1, WriteKinds DEF PendingSound
      <3>2. CASE o.id = r.parent
        <4>1. o.id \in Shared(r, o)
          BY <1>1, <3>2 DEF Shared, Fills, Closes
        <4> QED BY <1>6, <1>7, <2>1, <3>1, <4>1
      <3>3. CASE o.id # r.parent
        BY <1>6, <1>7, <1>9, <3>1, <3>3 DEF Empty
      <3> QED BY <3>2, <3>3
    <2>5. o.op = "move" => located'[o.id] # Uncreated /\ (Later(o.id, o.at)' \/ o.id \in raced')
      BY <1>3, <1>7, <2>1 DEF PendingSound, Later
    <2>6. \A s \in Fills(o) \cap SpaceIds : IsOpen(s)' \/ s \in raced'
      BY <1>7, <1>9, <2>1 DEF PendingSound
    <2>7. PendingSound(o)'
      BY <2>2, <2>3, <2>4, <2>5, <2>6 DEF PendingSound, Fills
    <2> QED BY <2>1, <2>7 DEF PendingSound, ParentFits, Empty, OpenChildren, LocatedIn, IsOpen, Later, Fills
  <1>12. SettledSpaces'
    <2>1. ASSUME NEW s \in SpaceIds \ raced' PROVE ClosedEmpty(s)'
      <3>1. ClosedEmpty(s) /\ s \notin raced
        BY <1>7, <2>1, SettledIs DEF SpaceInv
      <3>2. CASE s = n
        BY <1>5, <1>6, <3>2 DEF ClosedEmpty
      <3>3. CASE s # n /\ s = r.parent
        <4>1. IsOpen(s)
          BY <1>1, <3>1, <3>3 DEF PendingSound, Fills
        <4> QED BY <1>9, <4>1 DEF ClosedEmpty, IsOpen
      <3>4. CASE s # n /\ s # r.parent
        BY <1>6, <1>9, <3>1, <3>4 DEF ClosedEmpty, Empty
      <3> QED BY <3>2, <3>3, <3>4
    <2>2. \A e \in Equipment \ raced' : LastPlace(moves'[e], located'[e])
      BY <1>3, <1>7, SettledIs DEF SpaceInv
    <2> QED BY <2>1, <2>2, SettledIs
  <1>13. /\ writing' \in [SpaceCalls -> TreeWrites \cup {NoWrite}]
         /\ \A d, f \in SpaceCalls :
               /\ d # f /\ writing'[d] # NoWrite /\ writing'[f] # NoWrite
               /\ writing'[d].op \in {"create", "equip"}
               => writing'[d].id # writing'[f].id
    BY <1>3 DEF SpaceInv
  <1> QED BY <1>3, <1>6, <1>7, <1>10, <1>11, <1>12, <1>13 DEF SpaceInv

LEMMA SpaceClosed ==
  ASSUME SpaceInv, NEW c \in SpaceCalls, SpaceCommit(c), writing[c].op = "close"
  PROVE  SpaceInv'
  <1>1. PICK r \in TreeWrites : r = writing[c] /\ r # NoWrite /\ r.op = "close" /\ PendingSound(r)
    BY DEF SpaceInv, SpaceCommit
  <1>2. PICK n \in SpaceIds : n = r.id /\ spaces[n] # NoSpace /\ (Empty(n) \/ n \in raced)
    BY <1>1, WriteKinds DEF PendingSound
  <1>3. /\ writing' = [writing EXCEPT ![c] = NoWrite] /\ UNCHANGED <<located, moves>>
        /\ spaces' = [spaces EXCEPT ![n].open = FALSE]
    BY <1>1, <1>2 DEF SpaceCommit
  <1>4. PICK row : row = [spaces[n] EXCEPT !.open = FALSE]
    OBVIOUS
  <1>5. /\ row \in SpaceRows /\ row.parent = spaces[n].parent /\ row.type = spaces[n].type
        /\ row.open = FALSE /\ row # NoSpace
    <2>1. spaces[n] \in SpaceRows
      BY <1>2 DEF SpaceInv
    <2> QED BY <1>4, <2>1, RowClosed
  <1>6. /\ spaces' \in [SpaceIds -> SpaceRows \cup {NoSpace}] /\ spaces'[n] = row
        /\ \A s \in SpaceIds : s # n => spaces'[s] = spaces[s]
        /\ \A s \in SpaceIds : spaces'[s] = NoSpace <=> spaces[s] = NoSpace
        /\ \A s \in SpaceIds : spaces'[s].type = spaces[s].type /\ spaces'[s].parent = spaces[s].parent
    BY <1>2, <1>3, <1>4, <1>5 DEF SpaceInv
  <1>7. /\ raced \subseteq raced' /\ raced' \subseteq SpaceIds \cup Equipment
        /\ \A d \in SpaceCalls \ {c} : writing[d] # NoWrite => Shared(r, writing[d]) \subseteq raced'
    BY <1>1, WhoRaced
  <1>8. \A type, parent : ParentFits(type, parent) => ParentFits(type, parent)'
    BY <1>6 DEF ParentFits
  <1>9. ASSUME NEW s \in SpaceIds
        PROVE  /\ s # n => (IsOpen(s)' <=> IsOpen(s))
               /\ OpenChildren(s)' \subseteq OpenChildren(s)
               /\ LocatedIn(s)' = LocatedIn(s)
    <2>1. \A q \in SpaceIds : IsOpen(q)' => IsOpen(q)
      BY <1>5, <1>6 DEF IsOpen
    <2> QED BY <1>3, <1>6, <2>1 DEF IsOpen, OpenChildren, LocatedIn
  <1>10. ASSUME NEW s \in SpaceIds, spaces'[s] # NoSpace
         PROVE  ParentFits(spaces[s].type, spaces[s].parent)'
    <2>1. PICK type, parent : type = spaces[s].type /\ parent = spaces[s].parent
      OBVIOUS
    <2>2. ParentFits(type, parent)'
      BY <1>6, <1>8, <1>10, <2>1 DEF SpaceInv
    <2> QED BY <1>6, <2>1, <2>2 DEF ParentFits
  <1>11. ASSUME NEW d \in SpaceCalls, writing'[d] # NoWrite PROVE PendingSound(writing[d])'
    <2>1. PICK o \in TreeWrites : /\ o = writing[d] /\ o = writing'[d] /\ PendingSound(o) /\ d # c
                              /\ o # NoWrite
      BY <1>3, <1>11 DEF SpaceInv
    <2>2. o.op = "create" => spaces'[o.id] = NoSpace /\ ParentFits(o.type, o.parent)'
      BY <1>6, <1>8, <2>1, WriteKinds DEF PendingSound
    <2>3. o.op = "equip" => located'[o.id] = Uncreated
      BY <1>3, <2>1 DEF PendingSound
    <2>4. o.op = "close" => spaces'[o.id] # NoSpace /\ (Empty(o.id)' \/ o.id \in raced')
      <3>1. o.op = "close" => /\ o.id \in SpaceIds /\ spaces[o.id] # NoSpace
                              /\ (Empty(o.id) \/ o.id \in raced)
        BY <2>1, WriteKinds DEF PendingSound
      <3> QED BY <1>6, <1>7, <1>9, <3>1 DEF Empty
    <2>5. o.op = "move" => located'[o.id] # Uncreated /\ (Later(o.id, o.at)' \/ o.id \in raced')
      BY <1>3, <1>7, <2>1 DEF PendingSound, Later
    <2>6. ASSUME NEW s \in Fills(o) \cap SpaceIds PROVE IsOpen(s)' \/ s \in raced'
      <3>1. CASE s = n
        <4>1. s \in Shared(r, o)
          BY <1>1, <1>2, <2>6, <3>1 DEF Shared, Closes
        <4> QED BY <1>7, <2>1, <4>1
      <3>2. CASE s # n
        BY <1>7, <1>9, <2>1, <2>6, <3>2 DEF PendingSound
      <3> QED BY <3>1, <3>2
    <2>7. PendingSound(o)'
      BY <2>2, <2>3, <2>4, <2>5, <2>6 DEF PendingSound, Fills
    <2> QED BY <2>1, <2>7 DEF PendingSound, ParentFits, Empty, OpenChildren, LocatedIn, IsOpen, Later, Fills
  <1>12. SettledSpaces'
    <2>1. ASSUME NEW s \in SpaceIds \ raced' PROVE ClosedEmpty(s)'
      <3>1. ClosedEmpty(s) /\ s \notin raced
        BY <1>7, <2>1, SettledIs DEF SpaceInv
      <3>2. CASE s = n
        BY <1>2, <1>9, <3>1, <3>2 DEF ClosedEmpty, Empty
      <3>3. CASE s # n
        BY <1>6, <1>9, <3>1, <3>3 DEF ClosedEmpty, Empty
      <3> QED BY <3>2, <3>3
    <2>2. \A e \in Equipment \ raced' : LastPlace(moves'[e], located'[e])
      BY <1>3, <1>7, SettledIs DEF SpaceInv
    <2> QED BY <2>1, <2>2, SettledIs
  <1>13. /\ writing' \in [SpaceCalls -> TreeWrites \cup {NoWrite}]
         /\ \A d, f \in SpaceCalls :
               /\ d # f /\ writing'[d] # NoWrite /\ writing'[f] # NoWrite
               /\ writing'[d].op \in {"create", "equip"}
               => writing'[d].id # writing'[f].id
    BY <1>3 DEF SpaceInv
  <1> QED BY <1>3, <1>6, <1>7, <1>10, <1>11, <1>12, <1>13 DEF SpaceInv

LEMMA LastIsMax ==
  ASSUME NEW ms \in SUBSET PlacesOfEquipment, NEW at \in MoveDates, NEW to,
         \A m \in ms : m.at < at, NEW new, new = [at |-> at, to |-> to]
  PROVE  LastPlace(ms \cup {new}, to)
  <1>1. PICK S : S = {n.at : n \in ms \cup {new}}
    OBVIOUS
  <1>2. S \subseteq Nat /\ at \in S /\ \A x \in S : x = at \/ x < at
    BY <1>1, SpaceAssumption DEF PlacesOfEquipment
  <1>3. Max(S) = at
    <2>1. \A x \in S : at >= x
      BY <1>2
    <2>2. \A x \in S : (\A y \in S : x >= y) => x = at
      BY <1>2
    <2> QED BY <1>2, <2>1, <2>2 DEF Max
  <1>4. new.to = to /\ new.at = at /\ new \in ms \cup {new}
    OBVIOUS
  <1> QED BY <1>1, <1>3, <1>4 DEF LastPlace

LEMMA EquipmentPlaced ==
  ASSUME SpaceInv, NEW c \in SpaceCalls, SpaceCommit(c), writing[c].op \in {"equip", "move"}
  PROVE  SpaceInv'
  <1>1. PICK r \in TreeWrites : r = writing[c] /\ r # NoWrite /\ r.op \in {"equip", "move"} /\ PendingSound(r)
    BY DEF SpaceInv, SpaceCommit
  <1>2. PICK e \in Equipment, to \in SpaceIds \cup {Nowhere}, at \in MoveDates :
           e = r.id /\ to = r.to /\ at = r.at
    BY <1>1, WriteKinds
  <1>3. PICK new : new = [at |-> at, to |-> to]
    OBVIOUS
  <1>4. /\ writing' = [writing EXCEPT ![c] = NoWrite] /\ UNCHANGED spaces
        /\ located' = [located EXCEPT ![e] = to]
        /\ moves' = IF r.op = "equip" /\ to = Nowhere THEN moves
                    ELSE [moves EXCEPT ![e] = moves[e] \cup {new}]
    BY <1>1, <1>2, <1>3 DEF SpaceCommit, SpaceInv
  <1>5. /\ to # Uncreated /\ new \in PlacesOfEquipment
        /\ located' \in [Equipment -> SpaceIds \cup {Nowhere, Uncreated}]
        /\ located'[e] = to /\ \A f \in Equipment : f # e => located'[f] = located[f]
        /\ moves' \in [Equipment -> SUBSET PlacesOfEquipment]
        /\ \A f \in Equipment : f # e => moves'[f] = moves[f]
    BY <1>2, <1>3, <1>4, SpaceAssumption DEF SpaceInv, PlacesOfEquipment
  <1>6. /\ raced \subseteq raced' /\ raced' \subseteq SpaceIds \cup Equipment
        /\ \A d \in SpaceCalls \ {c} : writing[d] # NoWrite => Shared(r, writing[d]) \subseteq raced'
    BY <1>1, WhoRaced
  <1>7. ASSUME NEW s \in SpaceIds
        PROVE  /\ OpenChildren(s)' = OpenChildren(s) /\ (IsOpen(s)' <=> IsOpen(s))
               /\ s # to => LocatedIn(s)' \subseteq LocatedIn(s)
    BY <1>4, <1>5 DEF OpenChildren, IsOpen, LocatedIn
  <1>8. ASSUME NEW s \in SpaceIds, spaces'[s] # NoSpace
         PROVE  ParentFits(spaces[s].type, spaces[s].parent)'
    BY <1>4, <1>8 DEF SpaceInv, ParentFits
  <1>9. ASSUME NEW d \in SpaceCalls, writing'[d] # NoWrite PROVE PendingSound(writing[d])'
    <2>1. PICK o \in TreeWrites : /\ o = writing[d] /\ o = writing'[d] /\ PendingSound(o) /\ d # c
                              /\ o # NoWrite
      BY <1>4, <1>9 DEF SpaceInv
    <2>2. o.op = "create" => spaces'[o.id] = NoSpace /\ ParentFits(o.type, o.parent)'
      BY <1>4, <2>1 DEF PendingSound, ParentFits
    <2>3. o.op = "equip" => located'[o.id] = Uncreated
      <3> SUFFICES ASSUME o.op = "equip" PROVE located'[o.id] = Uncreated
        OBVIOUS
      <3>1. o.id \in Equipment /\ located[o.id] = Uncreated
        BY <2>1, WriteKinds DEF PendingSound
      <3>2. writing[d].id # writing[c].id
        BY <1>1, <2>1 DEF SpaceInv
      <3> QED BY <1>1, <1>2, <1>5, <2>1, <3>1, <3>2
    <2>4. o.op = "close" => spaces'[o.id] # NoSpace /\ (Empty(o.id)' \/ o.id \in raced')
      <3> SUFFICES ASSUME o.op = "close"
                   PROVE  spaces'[o.id] # NoSpace /\ (Empty(o.id)' \/ o.id \in raced')
        OBVIOUS
      <3>1. o.id \in SpaceIds /\ spaces[o.id] # NoSpace /\ (Empty(o.id) \/ o.id \in raced)
        BY <2>1, WriteKinds DEF PendingSound
      <3>2. CASE o.id = to
        <4>1. o.id \in Shared(r, o)
          BY <1>1, <1>2, <3>2 DEF Shared, Fills, Closes
        <4> QED BY <1>4, <1>6, <2>1, <3>1, <4>1
      <3>3. CASE o.id # to
        BY <1>4, <1>6, <1>7, <3>1, <3>3 DEF Empty
      <3> QED BY <3>2, <3>3
    <2>5. o.op = "move" => located'[o.id] # Uncreated /\ (Later(o.id, o.at)' \/ o.id \in raced')
      <3> SUFFICES ASSUME o.op = "move"
                   PROVE  located'[o.id] # Uncreated /\ (Later(o.id, o.at)' \/ o.id \in raced')
        OBVIOUS
      <3>1. o.id \in Equipment /\ located[o.id] # Uncreated /\ (Later(o.id, o.at) \/ o.id \in raced)
        BY <2>1, WriteKinds DEF PendingSound
      <3>2. CASE o.id = e
        <4>1. r.op = "move"
          <5>1. r.op = "equip" => writing[c].id # writing[d].id
            BY <1>1, <2>1 DEF SpaceInv
          <5> QED BY <1>1, <1>2, <2>1, <3>2, <5>1
        <4>2. o.id \in Shared(r, o)
          BY <1>2, <3>2, <4>1 DEF Shared, Moves
        <4> QED BY <1>5, <1>6, <2>1, <3>2, <4>2
      <3>3. CASE o.id # e
        BY <1>5, <1>6, <3>1, <3>3 DEF Later
      <3> QED BY <3>2, <3>3
    <2>6. \A s \in Fills(o) \cap SpaceIds : IsOpen(s)' \/ s \in raced'
      BY <1>6, <1>7, <2>1 DEF PendingSound
    <2>7. PendingSound(o)'
      BY <2>2, <2>3, <2>4, <2>5, <2>6 DEF PendingSound, Fills
    <2> QED BY <2>1, <2>7 DEF PendingSound, ParentFits, Empty, OpenChildren, LocatedIn, IsOpen, Later, Fills
  <1>10. SettledSpaces'
    <2>1. ASSUME NEW s \in SpaceIds \ raced' PROVE ClosedEmpty(s)'
      <3>1. ClosedEmpty(s) /\ s \notin raced
        BY <1>6, <2>1, SettledIs DEF SpaceInv
      <3>2. CASE s = to
        <4>1. IsOpen(s)
          BY <1>1, <1>2, <3>1, <3>2 DEF PendingSound, Fills
        <4> QED BY <1>4, <4>1 DEF ClosedEmpty, IsOpen
      <3>3. CASE s # to
        BY <1>4, <1>7, <3>1, <3>3 DEF ClosedEmpty, Empty
      <3> QED BY <3>2, <3>3
    <2>2. ASSUME NEW f \in Equipment \ raced' PROVE LastPlace(moves'[f], located'[f])
      <3>1. LastPlace(moves[f], located[f]) /\ f \notin raced
        BY <1>6, <2>2, SettledIs DEF SpaceInv
      <3>2. CASE f # e
        BY <1>5, <3>1, <3>2
      <3>3. CASE f = e /\ r.op = "equip" /\ to = Nowhere
        <4>1. moves'[e] = {}
          BY <1>1, <1>2, <1>4, <3>3 DEF PendingSound, SpaceInv
        <4> QED BY <3>3, <4>1 DEF LastPlace
      <3>4. CASE f = e /\ ~ (r.op = "equip" /\ to = Nowhere)
        <4>1. moves'[e] = moves[e] \cup {new} /\ moves[e] \in SUBSET PlacesOfEquipment
          BY <1>4, <3>4 DEF SpaceInv
        <4>2. \A m \in moves[e] : m.at < at
          BY <1>1, <1>2, <3>1, <3>4 DEF PendingSound, SpaceInv, Later
        <4>3. LastPlace(moves[e] \cup {new}, to)
          BY <1>3, <4>1, <4>2, LastIsMax
        <4> QED BY <1>5, <3>4, <4>1, <4>3
      <3> QED BY <3>2, <3>3, <3>4
    <2> QED BY <2>1, <2>2, SettledIs
  <1>11. /\ writing' \in [SpaceCalls -> TreeWrites \cup {NoWrite}]
         /\ \A d, f \in SpaceCalls :
               /\ d # f /\ writing'[d] # NoWrite /\ writing'[f] # NoWrite
               /\ writing'[d].op \in {"create", "equip"}
               => writing'[d].id # writing'[f].id
    BY <1>4 DEF SpaceInv
  <1>12. \A f \in Equipment : located'[f] = Uncreated => moves'[f] = {}
    BY <1>5 DEF SpaceInv
  <1>13. spaces' \in [SpaceIds -> SpaceRows \cup {NoSpace}]
    BY <1>4 DEF SpaceInv
  <1> QED BY <1>5, <1>6, <1>8, <1>9, <1>10, <1>11, <1>12, <1>13 DEF SpaceInv

LEMMA Committed ==
  ASSUME SpaceInv, NEW c \in SpaceCalls, SpaceCommit(c)
  PROVE  SpaceInv'
  BY RowCreated, SpaceClosed, EquipmentPlaced DEF SpaceCommit

LEMMA SpaceStill == ASSUME SpaceInv, UNCHANGED spaceVars PROVE SpaceInv'
  <1>1. UNCHANGED <<spaces, located, moves, writing, raced>>
    BY DEF spaceVars
  <1>2. SettledSpaces'
    BY <1>1, SettledIs DEF SpaceInv, ClosedEmpty, Empty, OpenChildren, LocatedIn, IsOpen
  <1>3. \A d \in SpaceCalls : writing'[d] # NoWrite => PendingSound(writing[d])'
    BY <1>1 DEF SpaceInv, PendingSound, ParentFits, Empty, OpenChildren, LocatedIn, IsOpen, Later, Fills
  <1>4. \A s \in SpaceIds : spaces'[s] # NoSpace => ParentFits(spaces[s].type, spaces[s].parent)'
    BY <1>1 DEF SpaceInv, ParentFits
  <1> QED BY <1>1, <1>2, <1>3, <1>4 DEF SpaceInv

-----------------------------------------------------------------------------
(* The checks: each leaves what its commit may rely on.                    *)
LEMMA CreateChecked ==
  ASSUME SpaceInv, NEW c \in SpaceCalls, NEW s \in SpaceIds, NEW parent \in SpaceIds \cup {Site},
         NEW type \in DOMAIN SPACE_TYPES, NEW code \in SpaceCodes, create_space(c, s, parent, type, code)
  PROVE  SpaceInv'
  <1>1. PICK r : r = [op |-> "create", id |-> s, parent |-> parent, type |-> type, code |-> code]
    OBVIOUS
  <1>2. /\ r \in TreeWrites /\ r.op = "create" /\ r.id = s /\ r.parent = parent /\ r.type = type
    BY <1>1 DEF TreeWrites, SpaceWrites
  <1>3. Holds(c, r) /\ Unused(s) /\ check_space_placement(type, parent)
    BY <1>1 DEF create_space, New
  <1>4. ParentFits(type, parent)
    BY <1>3 DEF check_space_placement, ParentFits, IsOpen
  <1>5. \A q \in Fills(r) \cap SpaceIds : IsOpen(q)
    BY <1>2, <1>3, SpaceAssumption DEF Fills, check_space_placement
  <1>6. PendingSound(r)
    BY <1>2, <1>3, <1>4, <1>5 DEF PendingSound, Unused
  <1>7. \A d \in SpaceCalls : d # c /\ writing[d] # NoWrite => r.id # writing[d].id
    BY <1>2, <1>3 DEF Unused
  <1> QED BY <1>2, <1>3, <1>6, <1>7, WriteBegun

LEMMA LeastDate == Min(MoveDates) \in MoveDates
  <1>1. PICK x \in MoveDates : \A y \in MoveDates : <<y, x>> \notin OpToRel(<, Nat)
    BY SpaceAssumption, NatLessThanWellFounded, WFMin
  <1>2. \A y \in MoveDates : ~ (y < x)
    BY <1>1, SpaceAssumption DEF OpToRel
  <1>3. \A y \in MoveDates : x =< y
    BY <1>2, SpaceAssumption
  <1> QED BY <1>3 DEF Min

LEMMA LocationChecked ==
  ASSUME SpaceInv, NEW c \in SpaceCalls, NEW e \in Equipment, NEW to \in SpaceIds \cup {Nowhere},
         CreateLocation(c, e, to)
  PROVE  SpaceInv'
  <1>1. PICK r : r = [op |-> "equip", id |-> e, to |-> to, at |-> Min(MoveDates)]
    OBVIOUS
  <1>2. r \in TreeWrites /\ r.op = "equip" /\ r.id = e /\ r.to = to
    BY <1>1, LeastDate DEF TreeWrites, SpaceWrites
  <1>3. Holds(c, r) /\ Unused(e) /\ (to # Nowhere => IsOpen(to))
    BY <1>1 DEF CreateLocation, New
  <1>4. \A q \in Fills(r) \cap SpaceIds : IsOpen(q)
    BY <1>2, <1>3, SpaceAssumption DEF Fills
  <1>5. PendingSound(r)
    BY <1>2, <1>3, <1>4 DEF PendingSound, Unused
  <1>6. \A d \in SpaceCalls : d # c /\ writing[d] # NoWrite => r.id # writing[d].id
    BY <1>2, <1>3 DEF Unused
  <1> QED BY <1>2, <1>3, <1>5, <1>6, WriteBegun

(* An open request that creates has an identifier that no row has.         *)
LEMMA NewIsNoRow ==
  ASSUME SpaceInv, NEW d \in SpaceCalls, writing[d] # NoWrite, writing[d].op \in {"create", "equip"}
  PROVE  /\ writing[d].id \in SpaceIds => spaces[writing[d].id] = NoSpace
         /\ writing[d].id \in Equipment => located[writing[d].id] = Uncreated
         /\ writing[d].id \notin Candidates
  <1>1. writing[d] \in TreeWrites /\ PendingSound(writing[d])
    BY DEF SpaceInv
  <1> QED BY <1>1, WriteKinds, IdsApart DEF PendingSound

LEMMA MoveChecked ==
  ASSUME SpaceInv, NEW c \in SpaceCalls, NEW e \in Equipment, NEW to \in SpaceIds \cup {Nowhere},
         NEW at \in MoveDates, record_location_space(c, e, to, at)
  PROVE  SpaceInv'
  <1>1. PICK r : r = [op |-> "move", id |-> e, to |-> to, at |-> at]
    OBVIOUS
  <1>2. r \in TreeWrites /\ r.op = "move" /\ r.id = e /\ r.to = to /\ r.at = at
    BY <1>1 DEF TreeWrites, SpaceWrites
  <1>3. Holds(c, r) /\ located[e] # Uncreated /\ (to # Nowhere => IsOpen(to)) /\ Later(e, at)
    BY <1>1 DEF record_location_space
  <1>4. \A q \in Fills(r) \cap SpaceIds : IsOpen(q)
    BY <1>2, <1>3, SpaceAssumption DEF Fills
  <1>5. PendingSound(r)
    BY <1>2, <1>3, <1>4 DEF PendingSound
  <1>6. \A d \in SpaceCalls : d # c /\ writing[d] # NoWrite /\ writing[d].op \in {"create", "equip"}
                               => r.id # writing[d].id
    BY <1>2, <1>3, NewIsNoRow
  <1> QED BY <1>2, <1>3, <1>5, <1>6, WriteBegun

LEMMA CloseChecked ==
  ASSUME SpaceInv, NEW c \in SpaceCalls, NEW s \in SpaceIds, close_space(c, s)
  PROVE  SpaceInv'
  <1>1. PICK r : r = [op |-> "close", id |-> s]
    OBVIOUS
  <1>2. r \in TreeWrites /\ r.op = "close" /\ r.id = s
    BY <1>1 DEF TreeWrites, SpaceWrites
  <1>3. Holds(c, r) /\ IsOpen(s) /\ Empty(s)
    BY <1>1 DEF close_space
  <1>4. PendingSound(r)
    BY <1>2, <1>3 DEF PendingSound, Fills, IsOpen
  <1>5. \A d \in SpaceCalls : d # c /\ writing[d] # NoWrite /\ writing[d].op \in {"create", "equip"}
                               => r.id # writing[d].id
    BY <1>2, <1>3, NewIsNoRow DEF IsOpen
  <1> QED BY <1>2, <1>3, <1>4, <1>5, WriteBegun

LEMMA RejectChecked ==
  ASSUME SpaceInv, NEW c \in SpaceCalls, NEW p \in Candidates, Holds(c, [op |-> "reject", id |-> p])
  PROVE  SpaceInv'
  <1>1. PICK r : r = [op |-> "reject", id |-> p]
    OBVIOUS
  <1>2. r \in TreeWrites /\ r.op = "reject" /\ r.id = p
    BY <1>1 DEF TreeWrites, Rejections
  <1>3. PendingSound(r)
    BY <1>2 DEF PendingSound, Fills
  <1>4. \A d \in SpaceCalls : d # c /\ writing[d] # NoWrite /\ writing[d].op \in {"create", "equip"}
                               => r.id # writing[d].id
    BY <1>2, NewIsNoRow
  <1> QED BY <1>1, <1>2, <1>3, <1>4, WriteBegun

LEMMA Checked ==
  ASSUME SpaceInv, NEW c \in SpaceCalls, SpaceCheck(c)
  PROVE  SpaceInv'
  BY SpaceAssumption, CreateChecked, LocationChecked, MoveChecked, CloseChecked DEF SpaceCheck

-----------------------------------------------------------------------------
(* The import: an accepted proposal names the row that has its code, or an *)
(* equipment; a decision that is pending still finds its parent where it   *)
(* was, unless a closing overlapped.                                       *)
NodeSound(p) ==
    imports[p] # NoProposal /\ imports[p].node # NoNode =>
        IF Held[p].type = "equipment" THEN imports[p].node \in Equipment
        ELSE /\ imports[p].node \in SpaceIds /\ spaces[imports[p].node] # NoSpace
             /\ spaces[imports[p].node].code = p

StandsUnder(p, parent) ==
    Held[p].type # "building" =>
        /\ Held[p].within \in Candidates
        /\ parent \in raced \/ (IsOpen(parent) /\ imports[Held[p].within].node = parent)

DecisionSound(c) ==
    /\ deciding[c] # NoNode =>
          /\ writing[c] # NoWrite /\ imports[deciding[c]] # NoProposal
          /\ writing[c].op \in {"create", "equip", "reject"}
          /\ writing[c].op = "create" =>
                /\ Held[deciding[c]].type # "equipment" /\ writing[c].code = deciding[c]
                /\ StandsUnder(deciding[c], writing[c].parent)
          /\ writing[c].op = "equip" => Held[deciding[c]].type = "equipment"
    /\ writing[c] # NoWrite /\ writing[c].op = "reject" => deciding[c] # NoNode

(* What ImportedUnderParent says of one proposal.                          *)
UnderParent(p) ==
    imports[p] # NoProposal /\ imports[p].node \in SpaceIds =>
       LET row == spaces[imports[p].node]
           above == Held[p].within
       IN row.open /\ Held[p].type # "building" /\ row.parent \notin raced =>
             /\ above \in Candidates /\ imports[above] # NoProposal
             /\ row.parent = imports[above].node

ImportInv ==
    /\ SpaceInv
    /\ ifcBatch \in {"none", "ready", "failed"}
    /\ imports \in [Candidates -> ProposalsRead \cup {NoProposal}]
    /\ \A p \in Candidates : imports[p] # NoProposal =>
          (imports[p].status = "accepted") = (imports[p].node # NoNode)
    /\ deciding \in [SpaceCalls -> Candidates \cup {NoNode}]
    /\ \A p \in Candidates : imports[p] = NoProposal <=> ifcBatch # "ready"
    /\ \A p \in Candidates : NodeSound(p)
    /\ \A c \in SpaceCalls : DecisionSound(c)
    /\ \A p \in Candidates : UnderParent(p)

LEMMA ImportInitInv == ImportInit => ImportInv
  <1> SUFFICES ASSUME ImportInit PROVE ImportInv
    OBVIOUS
  <1>1. SpaceInv
    BY SpaceInitInv DEF ImportInit
  <1>2. writing = [c \in SpaceCalls |-> NoWrite]
    BY DEF ImportInit, SpaceInit
  <1> QED BY <1>1, <1>2 DEF ImportInit, ImportInv, NodeSound, DecisionSound, UnderParent

(* A file is sent: nothing was accepted or is being decided yet.           *)
LEMMA FileSent ==
  ASSUME ImportInv, create_ifc_import
  PROVE  ImportInv'
  <1>1. /\ UNCHANGED <<spaces, located, moves, writing, raced, deciding>> /\ ifcBatch # "ready"
        /\ \A p \in Candidates : imports[p] = NoProposal
    BY DEF create_ifc_import, ImportInv
  <1>2. SpaceInv'
    BY <1>1, SpaceStill DEF ImportInv, spaceVars
  <1>3. \A c \in SpaceCalls : deciding[c] = NoNode
    BY <1>1 DEF ImportInv, DecisionSound
  <1>4. \A c \in SpaceCalls : DecisionSound(c)'
    BY <1>1, <1>3 DEF ImportInv, DecisionSound
  <1>5. CASE ifcBatch' = "failed" /\ UNCHANGED imports
    <2>1. \A p \in Candidates : imports'[p] = NoProposal
      BY <1>1, <1>5
    <2>2. \A p \in Candidates : NodeSound(p)' /\ UnderParent(p)'
      BY <2>1 DEF NodeSound, UnderParent
    <2> QED BY <1>1, <1>2, <1>4, <1>5, <2>1, <2>2 DEF ImportInv
  <1>6. CASE /\ ifcBatch' = "ready"
             /\ imports' = [p \in Candidates |-> [status |-> "proposed", node |-> NoNode]]
    <2>1. PICK row : row = [status |-> "proposed", node |-> NoNode]
      OBVIOUS
    <2>2. row \in ProposalsRead /\ row # NoProposal /\ row.node = NoNode /\ row.status = "proposed"
      BY <2>1, ImportAssumption DEF ProposalsRead, Decisions
    <2>3. imports' = [p \in Candidates |-> row]
      BY <1>6, <2>1
    <2>4. \A p \in Candidates : NodeSound(p)' /\ UnderParent(p)'
      BY <2>2, <2>3, ImportAssumption DEF NodeSound, UnderParent
    <2> QED BY <1>1, <1>2, <1>4, <1>6, <2>2, <2>3, <2>4 DEF ImportInv
  <1> QED BY <1>5, <1>6 DEF create_ifc_import

(* A request that holds nothing begins, whether it decides or not.         *)
LEMMA DecisionBegun ==
  ASSUME ImportInv, SpaceInv', NEW c \in SpaceCalls, NEW r \in TreeWrites, Holds(c, r),
         UNCHANGED <<ifcBatch, imports>>,
         NEW q \in Candidates \cup {NoNode}, deciding' = [deciding EXCEPT ![c] = q],
         q # NoNode =>
            /\ imports[q] # NoProposal /\ r.op \in {"create", "equip", "reject"}
            /\ r.op = "create" => /\ Held[q].type # "equipment" /\ r.code = q
                                  /\ StandsUnder(q, r.parent)
            /\ r.op = "equip" => Held[q].type = "equipment",
         r.op = "reject" => q # NoNode
  PROVE  ImportInv'
  <1>1. /\ writing' = [writing EXCEPT ![c] = r] /\ UNCHANGED <<spaces, located, moves, raced>>
        /\ r # NoWrite
    BY SpaceAssumption, ImportAssumption DEF Holds, TreeWrites
  <1>2. \A p \in Candidates : NodeSound(p)' /\ UnderParent(p)'
    BY <1>1 DEF ImportInv, NodeSound, UnderParent
  <1>3. \A p, parent : StandsUnder(p, parent)' <=> StandsUnder(p, parent)
    BY <1>1 DEF StandsUnder, IsOpen
  <1>4. ASSUME NEW d \in SpaceCalls PROVE DecisionSound(d)'
    <2>1. CASE d = c
      <3>1. writing'[d] = r /\ deciding'[d] = q
        BY <1>1, <2>1 DEF ImportInv, SpaceInv
      <3>2. q # NoNode /\ r.op = "create" => StandsUnder(deciding[d], writing[d].parent)'
        <4>1. q # NoNode /\ r.op = "create" => StandsUnder(q, r.parent)'
          BY <1>3
        <4> QED BY <3>1, <4>1 DEF StandsUnder
      <3> QED BY <1>1, <3>1, <3>2 DEF DecisionSound
    <2>2. CASE d # c
      <3>1. writing'[d] = writing[d] /\ deciding'[d] = deciding[d]
        BY <1>1, <2>2 DEF ImportInv, SpaceInv
      <3>2. DecisionSound(d)
        BY DEF ImportInv
      <3> QED BY <1>1, <3>1, <3>2 DEF DecisionSound, StandsUnder, IsOpen
    <2> QED BY <2>1, <2>2
  <1>5. deciding' \in [SpaceCalls -> Candidates \cup {NoNode}]
    BY DEF ImportInv
  <1> QED BY <1>1, <1>2, <1>4, <1>5 DEF ImportInv

LEMMA TypedIn ==
  ASSUME ImportInv, NEW c \in SpaceCalls, SpaceCheck(c), UNCHANGED <<ifcBatch, imports, deciding>>
  PROVE  ImportInv'
  <1>1. SpaceInv'
    BY Checked DEF ImportInv
  <1>2. PICK r : Holds(c, r) /\ r.op # "reject" /\ r \in TreeWrites
    <2>1. ASSUME NEW s \in SpaceIds, NEW parent \in SpaceIds \cup {Site}, NEW type \in TypesUsed,
                 NEW code \in CodesTyped, create_space(c, s, parent, type, code)
          PROVE  \E r : Holds(c, r) /\ r.op # "reject" /\ r \in TreeWrites
      <3>1. PICK r : r = [op |-> "create", id |-> s, parent |-> parent, type |-> type, code |-> code]
        OBVIOUS
      <3>2. r \in TreeWrites /\ r.op = "create"
        BY <3>1, SpaceAssumption DEF TreeWrites, SpaceWrites
      <3> QED BY <2>1, <3>1, <3>2 DEF create_space
    <2>2. ASSUME NEW e \in Equipment, NEW to \in SpaceIds \cup {Nowhere}, CreateLocation(c, e, to)
          PROVE  \E r : Holds(c, r) /\ r.op # "reject" /\ r \in TreeWrites
      <3>1. PICK r : r = [op |-> "equip", id |-> e, to |-> to, at |-> Min(MoveDates)]
        OBVIOUS
      <3>2. r \in TreeWrites /\ r.op = "equip"
        BY <3>1, LeastDate DEF TreeWrites, SpaceWrites
      <3> QED BY <2>2, <3>1, <3>2 DEF CreateLocation
    <2>3. ASSUME NEW e \in Equipment, NEW to \in SpaceIds \cup {Nowhere}, NEW at \in MoveDates,
                 record_location_space(c, e, to, at)
          PROVE  \E r : Holds(c, r) /\ r.op # "reject" /\ r \in TreeWrites
      <3>1. PICK r : r = [op |-> "move", id |-> e, to |-> to, at |-> at]
        OBVIOUS
      <3>2. r \in TreeWrites /\ r.op = "move"
        BY <3>1 DEF TreeWrites, SpaceWrites
      <3> QED BY <2>3, <3>1, <3>2 DEF record_location_space
    <2>4. ASSUME NEW s \in SpaceIds, close_space(c, s)
          PROVE  \E r : Holds(c, r) /\ r.op # "reject" /\ r \in TreeWrites
      <3>1. PICK r : r = [op |-> "close", id |-> s]
        OBVIOUS
      <3>2. r \in TreeWrites /\ r.op = "close"
        BY <3>1 DEF TreeWrites, SpaceWrites
      <3> QED BY <2>4, <3>1, <3>2 DEF close_space
    <2> QED BY <2>1, <2>2, <2>3, <2>4 DEF SpaceCheck
  <1>3. deciding[c] = NoNode
    BY <1>2 DEF Holds, ImportInv, DecisionSound
  <1>4. deciding' = [deciding EXCEPT ![c] = NoNode]
    BY <1>3 DEF ImportInv
  <1> QED BY <1>1, <1>2, <1>4, DecisionBegun

LEMMA ProposalAccepted ==
  ASSUME ImportInv, NEW c \in SpaceCalls, NEW p \in Candidates, accept_ifc_import_proposal(c, p)
  PROVE  ImportInv'
  <1>1. /\ imports[p] # NoProposal /\ deciding' = [deciding EXCEPT ![c] = p]
        /\ UNCHANGED <<ifcBatch, imports>> /\ SpaceInv
    BY DEF accept_ifc_import_proposal, Proposed, ImportInv
  <1>2. \A q \in Candidates : imports[q] # NoProposal /\ NodeSound(q)
    BY <1>1 DEF ImportInv
  <1>3. PICK type, above : type = Held[p].type /\ above = Held[p].within
    OBVIOUS
  <1>4. /\ type \in DOMAIN SPACE_TYPES \cup {"equipment"} /\ above \in Candidates \cup {NoNode}
        /\ above # NoNode => Held[above].type # "equipment"
        /\ type # "equipment" => p \in SpaceCodes
    BY <1>3, ImportAssumption
  <1>5. PICK node : node = NodeOf(above)
    OBVIOUS
  <1>6. node # NoNode => /\ above \in Candidates /\ node = imports[above].node /\ node \in SpaceIds
    BY <1>2, <1>4, <1>5 DEF NodeOf, NodeSound
  <1>7. CASE type = "equipment"
    <2>1. PICK e \in Equipment, to \in SpaceIds \cup {Nowhere} : CreateLocation(c, e, to)
      BY <1>3, <1>5, <1>6, <1>7 DEF accept_ifc_import_proposal, _accept_equipment
    <2>2. SpaceInv'
      BY <1>1, <2>1, LocationChecked
    <2>3. PICK r : r = [op |-> "equip", id |-> e, to |-> to, at |-> Min(MoveDates)]
      OBVIOUS
    <2>4. r \in TreeWrites /\ r.op = "equip" /\ Holds(c, r)
      BY <2>1, <2>3, LeastDate DEF TreeWrites, SpaceWrites, CreateLocation
    <2> QED BY <1>1, <1>3, <1>7, <2>2, <2>4, DecisionBegun
  <1>8. CASE type # "equipment"
    <2>1. PICK parent : parent = IF type = "building" THEN Site ELSE node
      OBVIOUS
    <2>2. parent # NoNode /\ \E s \in SpaceIds : create_space(c, s, parent, type, p)
      BY <1>3, <1>5, <1>8, <2>1 DEF accept_ifc_import_proposal, _accept_space
    <2>3. parent \in SpaceIds \cup {Site} /\ type \in DOMAIN SPACE_TYPES /\ p \in SpaceCodes
      BY <1>4, <1>6, <1>8, <2>1, <2>2
    <2>4. PICK s \in SpaceIds : create_space(c, s, parent, type, p)
      BY <2>2
    <2>5. SpaceInv'
      BY <1>1, <2>3, <2>4, CreateChecked
    <2>6. PICK r : r = [op |-> "create", id |-> s, parent |-> parent, type |-> type, code |-> p]
      OBVIOUS
    <2>7. r \in TreeWrites /\ r.op = "create" /\ Holds(c, r) /\ r.code = p /\ r.parent = parent
      BY <2>3, <2>4, <2>6 DEF TreeWrites, SpaceWrites, create_space
    <2>8. type # "building" => IsOpen(parent)
      BY <1>6, <2>1, <2>2, <2>4, SpaceAssumption DEF create_space, check_space_placement
    <2>9. StandsUnder(p, r.parent)
      BY <1>3, <1>6, <2>1, <2>2, <2>7, <2>8 DEF StandsUnder
    <2> QED BY <1>1, <1>3, <1>8, <2>5, <2>7, <2>9, DecisionBegun
  <1> QED BY <1>7, <1>8

LEMMA ProposalRejected ==
  ASSUME ImportInv, NEW c \in SpaceCalls, NEW p \in Candidates, reject_ifc_import_proposal(c, p)
  PROVE  ImportInv'
  <1>1. /\ imports[p] # NoProposal /\ deciding' = [deciding EXCEPT ![c] = p]
        /\ UNCHANGED <<ifcBatch, imports>> /\ SpaceInv
        /\ Holds(c, [op |-> "reject", id |-> p])
    BY DEF reject_ifc_import_proposal, Proposed, ImportInv
  <1>2. SpaceInv'
    BY <1>1, RejectChecked
  <1>3. PICK r : r = [op |-> "reject", id |-> p]
    OBVIOUS
  <1>4. r \in TreeWrites /\ r.op = "reject" /\ Holds(c, r)
    BY <1>1, <1>3 DEF TreeWrites, Rejections
  <1>5. p # NoNode
    BY ImportAssumption
  <1> QED BY <1>1, <1>2, <1>4, <1>5, DecisionBegun

(* A request ends without a row: it is lost, or its decision is a refusal. *)
LEMMA DecisionEnded ==
  ASSUME ImportInv, NEW c \in SpaceCalls, writing' = [writing EXCEPT ![c] = NoWrite],
         deciding' = [deciding EXCEPT ![c] = NoNode],
         UNCHANGED <<spaces, located, moves, raced, ifcBatch>>,
         imports' \in [Candidates -> ProposalsRead \cup {NoProposal}],
         \A p \in Candidates :
            /\ (imports'[p] = NoProposal) <=> (imports[p] = NoProposal)
            /\ imports[p] # NoProposal => imports'[p].node = imports[p].node
            /\ imports'[p] # NoProposal =>
                  (imports'[p].status = "accepted") = (imports'[p].node # NoNode)
  PROVE  ImportInv'
  <1>1. SpaceInv'
    BY WriteDropped DEF ImportInv
  <1>2. \A p \in Candidates : NodeSound(p)'
    BY DEF ImportInv, NodeSound
  <1>3. ASSUME NEW p \in Candidates PROVE UnderParent(p)'
    <2>1. UnderParent(p)
      BY DEF ImportInv
    <2> QED BY <2>1 DEF UnderParent
  <1>4. ASSUME NEW d \in SpaceCalls PROVE DecisionSound(d)'
    <2>1. CASE d = c
      <3>1. writing'[d] = NoWrite /\ deciding'[d] = NoNode
        BY <2>1 DEF ImportInv, SpaceInv
      <3> QED BY <3>1 DEF DecisionSound
    <2>2. CASE d # c
      <3>1. /\ writing'[d] = writing[d] /\ deciding'[d] = deciding[d]
            /\ deciding[d] \in Candidates \cup {NoNode}
        BY <2>2 DEF ImportInv, SpaceInv
      <3>2. DecisionSound(d) /\ \A p \in Candidates : imports[p] = NoProposal <=> ifcBatch # "ready"
        BY DEF ImportInv
      <3>3. ASSUME deciding[d] # NoNode, StandsUnder(deciding[d], writing[d].parent)
            PROVE  StandsUnder(deciding[d], writing[d].parent)'
        <4>1. \A p \in Candidates : imports[p] # NoProposal
          BY <3>1, <3>2, <3>3 DEF DecisionSound
        <4> QED BY <3>1, <3>3, <4>1 DEF StandsUnder, IsOpen
      <3> QED BY <3>1, <3>2, <3>3 DEF DecisionSound
    <2> QED BY <2>1, <2>2
  <1> QED BY <1>1, <1>2, <1>3, <1>4 DEF ImportInv

LEMMA RejectionCommitted ==
  ASSUME ImportInv, NEW c \in SpaceCalls, RejectCommit(c)
  PROVE  ImportInv'
  <1>1. PICK p \in Candidates : p = deciding[c] /\ imports[p] # NoProposal
    BY DEF RejectCommit, ImportInv, DecisionSound
  <1>2. PICK row \in ProposalsRead : row = imports[p] /\ row.node = NoNode
    BY <1>1 DEF RejectCommit, ImportInv
  <1>3. PICK after : after = [row EXCEPT !.status = "rejected"]
    OBVIOUS
  <1>4. after \in ProposalsRead /\ after.node = NoNode /\ after.status = "rejected" /\ after # NoProposal
    BY <1>2, <1>3, ImportAssumption DEF ProposalsRead, Decisions
  <1>5. imports' = [imports EXCEPT ![p] = after]
    BY <1>1, <1>2, <1>3 DEF RejectCommit, ImportInv
  <1>6. /\ imports' \in [Candidates -> ProposalsRead \cup {NoProposal}]
        /\ \A q \in Candidates :
              /\ (imports'[q] = NoProposal) <=> (imports[q] = NoProposal)
              /\ imports[q] # NoProposal => imports'[q].node = imports[q].node
              /\ imports'[q] # NoProposal =>
                    (imports'[q].status = "accepted") = (imports'[q].node # NoNode)
    BY <1>1, <1>2, <1>4, <1>5 DEF ImportInv
  <1> QED BY <1>6, DecisionEnded DEF RejectCommit

LEMMA RolledBack ==
  ASSUME ImportInv, NEW c \in SpaceCalls, SpaceRollback(c), deciding' = [deciding EXCEPT ![c] = NoNode],
         UNCHANGED <<ifcBatch, imports>>
  PROVE  ImportInv'
  BY DecisionEnded DEF SpaceRollback, ImportInv

(* What a commit does to the rows.                                         *)
LEMMA RowsAfter ==
  ASSUME SpaceInv, NEW c \in SpaceCalls, SpaceCommit(c)
  PROVE  /\ \A s \in SpaceIds : spaces[s] # NoSpace =>
               /\ spaces'[s] # NoSpace /\ spaces'[s].code = spaces[s].code
               /\ spaces'[s].parent = spaces[s].parent
               /\ spaces'[s].open => spaces[s].open
               /\ writing[c].op # "create" \/ s # writing[c].id
         /\ \A s \in SpaceIds : IsOpen(s) =>
               IsOpen(s)' \/ (writing[c].op = "close" /\ s = writing[c].id)
         /\ writing[c].op = "create" =>
               /\ writing[c].id \in SpaceIds
               /\ spaces'[writing[c].id] # NoSpace /\ spaces'[writing[c].id].code = writing[c].code
               /\ spaces'[writing[c].id].parent = writing[c].parent
               /\ \A s \in SpaceIds : IsOpen(s) => spaces[s].code # writing[c].code
  <1>1. PICK r \in TreeWrites : r = writing[c] /\ r # NoWrite /\ PendingSound(r)
    BY DEF SpaceInv, SpaceCommit
  <1>2. CASE r.op = "create"
    <2>1. PICK parent \in SpaceIds \cup {Site}, type \in DOMAIN SPACE_TYPES, code \in SpaceCodes,
               n \in SpaceIds :
             parent = r.parent /\ type = r.type /\ code = r.code /\ n = r.id
      BY <1>1, <1>2, WriteKinds
    <2>2. PICK row : row = [parent |-> parent, type |-> type, code |-> code, open |-> TRUE]
      OBVIOUS
    <2>3. spaces' = [spaces EXCEPT ![n] = row] /\ spaces[n] = NoSpace /\ CodeFree(code)
      BY <1>1, <1>2, <2>1, <2>2 DEF SpaceCommit, PendingSound, UniqueCode
    <2>4. row.parent = parent /\ row.code = code
      BY <2>2
    <2>5. row \in SpaceRows
      BY <2>2 DEF SpaceRows
    <2>6. row # NoSpace
      BY <2>5, SpaceAssumption
    <2>7. spaces'[n] = row /\ \A s \in SpaceIds : s # n => spaces'[s] = spaces[s]
      BY <2>3 DEF SpaceInv
    <2> QED BY <1>1, <1>2, <2>1, <2>3, <2>4, <2>6, <2>7 DEF CodeFree, IsOpen
  <1>3. CASE r.op = "close"
    <2>1. PICK n \in SpaceIds : n = r.id /\ spaces[n] \in SpaceRows
      BY <1>1, <1>3, WriteKinds DEF PendingSound, SpaceInv
    <2>2. PICK row : row = [spaces[n] EXCEPT !.open = FALSE]
      OBVIOUS
    <2>3. /\ row \in SpaceRows /\ row.parent = spaces[n].parent /\ row.code = spaces[n].code
          /\ row.open = FALSE /\ row # NoSpace
      BY <2>1, <2>2, RowClosed
    <2>4. spaces' = [spaces EXCEPT ![n] = row]
      BY <1>1, <1>3, <2>1, <2>2 DEF SpaceCommit, SpaceInv
    <2>5. spaces'[n] = row /\ \A s \in SpaceIds : s # n => spaces'[s] = spaces[s]
      BY <2>4 DEF SpaceInv
    <2> QED BY <1>1, <1>3, <2>1, <2>3, <2>5 DEF IsOpen
  <1>4. CASE r.op \in {"equip", "move"}
    <2>1. UNCHANGED spaces
      BY <1>1, <1>4 DEF SpaceCommit
    <2> QED BY <1>1, <1>4, <2>1 DEF IsOpen
  <1> QED BY <1>1, <1>2, <1>3, <1>4 DEF SpaceCommit

LEMMA AcceptanceCommitted ==
  ASSUME ImportInv, NEW c \in SpaceCalls, AcceptCommit(c)
  PROVE  ImportInv'
  <1>0. /\ SpaceInv /\ SpaceCommit(c) /\ UNCHANGED ifcBatch
        /\ deciding' = [deciding EXCEPT ![c] = NoNode] /\ SpaceInv'
    BY Committed DEF AcceptCommit, ImportInv
  <1>1. PICK r \in TreeWrites : r = writing[c] /\ r # NoWrite /\ r.op # "reject"
    BY <1>0 DEF SpaceInv, SpaceCommit
  <1>2. writing' = [writing EXCEPT ![c] = NoWrite]
    BY <1>0 DEF SpaceCommit
  <1>3. PICK p \in Candidates \cup {NoNode} : p = deciding[c]
    BY DEF ImportInv
  <1>4. /\ raced \subseteq raced'
        /\ \A d \in SpaceCalls \ {c} : writing[d] # NoWrite => Shared(r, writing[d]) \subseteq raced'
    BY <1>0, <1>1, WhoRaced
  <1>5. /\ \A s \in SpaceIds : spaces[s] # NoSpace =>
              /\ spaces'[s] # NoSpace /\ spaces'[s].code = spaces[s].code
              /\ spaces'[s].parent = spaces[s].parent
              /\ spaces'[s].open => spaces[s].open
              /\ r.op # "create" \/ s # r.id
        /\ \A s \in SpaceIds : IsOpen(s) => IsOpen(s)' \/ (r.op = "close" /\ s = r.id)
        /\ r.op = "create" =>
              /\ r.id \in SpaceIds /\ spaces'[r.id] # NoSpace /\ spaces'[r.id].code = r.code
              /\ spaces'[r.id].parent = r.parent
              /\ \A s \in SpaceIds : IsOpen(s) => spaces[s].code # r.code
    BY <1>0, <1>1, RowsAfter
  <1>6. p # NoNode => /\ p \in Candidates /\ imports[p] # NoProposal /\ r.op \in {"create", "equip"}
                      /\ r.op = "create" => /\ Held[p].type # "equipment" /\ r.code = p
                                            /\ StandsUnder(p, r.parent)
                      /\ r.op = "equip" => Held[p].type = "equipment" /\ r.id \in Equipment
    BY <1>1, <1>3, WriteKinds DEF ImportInv, DecisionSound
  <1>7. PICK new : new = [status |-> "accepted", node |-> r.id]
    OBVIOUS
  <1>8. p # NoNode => /\ new \in ProposalsRead /\ new # NoProposal /\ new.node = r.id
                      /\ new.status = "accepted" /\ r.id # NoNode
    BY <1>5, <1>6, <1>7, ImportAssumption DEF ProposalsRead, Decisions
  <1>9. /\ imports' \in [Candidates -> ProposalsRead \cup {NoProposal}]
        /\ p # NoNode => imports'[p] = new
        /\ \A q \in Candidates : q # p => imports'[q] = imports[q]
        /\ \A q \in Candidates : imports'[q] = NoProposal <=> imports[q] = NoProposal
    BY <1>1, <1>3, <1>6, <1>7, <1>8 DEF AcceptCommit, ImportInv
  <1>10. \A q \in Candidates :
            /\ NodeSound(q) /\ UnderParent(q)
            /\ imports[q] # NoProposal => (imports[q].status = "accepted") = (imports[q].node # NoNode)
            /\ Held[q].within \in Candidates => Held[Held[q].within].type # "equipment"
    BY ImportAssumption DEF ImportInv
  <1>11. ASSUME NEW q \in Candidates PROVE NodeSound(q)'
    <2>1. CASE q = p
      BY <1>5, <1>6, <1>8, <1>9, <2>1, ImportAssumption DEF NodeSound
    <2>2. CASE q # p
      BY <1>5, <1>9, <1>10, <2>2 DEF NodeSound
    <2> QED BY <2>1, <2>2
  <1>12. \A q \in Candidates : imports'[q] # NoProposal =>
            (imports'[q].status = "accepted") = (imports'[q].node # NoNode)
    <2> SUFFICES ASSUME NEW q \in Candidates, imports'[q] # NoProposal
                 PROVE  (imports'[q].status = "accepted") = (imports'[q].node # NoNode)
      OBVIOUS
    <2>1. CASE q = p
      <3>1. p # NoNode
        BY <2>1, ImportAssumption
      <3>2. imports'[q].status = "accepted" /\ imports'[q].node # NoNode
        BY <1>8, <1>9, <2>1, <3>1
      <3> QED BY <3>2, Zenon
    <2>2. CASE q # p
      BY <1>9, <1>10, <2>2
    <2> QED BY <2>1, <2>2
  \* A second acceptance of an element finds its former node closed.
  <1>13. ASSUME p # NoNode, r.op = "create", NEW q \in Candidates, Held[q].within = p,
                NEW s \in SpaceIds, s = imports[p].node
         PROVE  ~ IsOpen(s) /\ spaces[s] # NoSpace
    <2>1. Held[p].type # "equipment" /\ imports[p] # NoProposal /\ imports[p].node # NoNode
      BY <1>6, <1>13, ImportAssumption
    <2>2. spaces[s] # NoSpace /\ spaces[s].code = p
      BY <1>6, <1>10, <1>13, <2>1 DEF NodeSound
    <2> QED BY <1>5, <1>6, <1>13, <2>2
  <1>14. ASSUME NEW q \in Candidates PROVE UnderParent(q)'
    <2> SUFFICES ASSUME imports'[q] # NoProposal, imports'[q].node \in SpaceIds,
                        NEW n \in SpaceIds, n = imports'[q].node, spaces'[n].open,
                        Held[q].type # "building", spaces'[n].parent \notin raced'
                 PROVE  /\ Held[q].within \in Candidates /\ imports'[Held[q].within] # NoProposal
                        /\ spaces'[n].parent = imports'[Held[q].within].node
      BY DEF UnderParent
    <2>1. CASE q = p
      <3>1. p # NoNode
        BY <2>1, ImportAssumption
      <3>2. r.op = "create" /\ n = r.id
        BY <1>6, <1>8, <1>9, <2>1, <3>1, IdsApart
      <3>3. /\ Held[q].within \in Candidates /\ IsOpen(r.parent)
            /\ imports[Held[q].within].node = r.parent
        BY <1>4, <1>5, <1>6, <2>1, <3>1, <3>2 DEF StandsUnder
      <3>4. r.parent \in SpaceIds
        <4>1. PICK above \in Candidates : above = Held[q].within
          BY <3>3
        <4>2. Held[above].type # "equipment" /\ NodeSound(above) /\ imports[above] # NoProposal
          BY <1>6, <1>10, <3>1, <4>1 DEF ImportInv
        <4>3. r.parent \in SpaceIds \cup {Site}
          BY <1>1, <3>2, WriteKinds
        <4>4. imports[above].node # NoNode
          BY <3>3, <4>1, <4>3, ImportAssumption
        <4> QED BY <3>3, <4>1, <4>2, <4>4 DEF NodeSound
      <3>5. Held[q].within # p
        BY <1>13, <2>1, <3>1, <3>2, <3>3, <3>4
      <3>6. imports[Held[q].within] # NoProposal
        BY <1>6, <3>1, <3>3 DEF ImportInv
      <3> QED BY <1>5, <1>9, <3>2, <3>3, <3>5, <3>6
    <2>2. CASE q # p
      <3>1. imports'[q] = imports[q] /\ n = imports[q].node
        BY <1>9, <2>2
      <3>2. spaces[n] # NoSpace
        BY <1>10, <3>1, IdsApart, ImportAssumption DEF NodeSound
      <3>3. /\ spaces[n].open /\ spaces'[n].parent = spaces[n].parent
            /\ spaces[n].parent \notin raced
        BY <1>4, <1>5, <3>2
      <3>4. /\ Held[q].within \in Candidates /\ imports[Held[q].within] # NoProposal
            /\ spaces[n].parent = imports[Held[q].within].node
        BY <1>9, <1>10, <3>1, <3>3 DEF UnderParent
      <3>5. CASE Held[q].within # p
        BY <1>9, <3>3, <3>4, <3>5
      <3>6. CASE Held[q].within = p
        <4>1. p # NoNode /\ r.op = "create"
          BY <1>6, <1>10, <3>4, <3>6, ImportAssumption
        <4>2. PICK s : s = spaces[n].parent
          OBVIOUS
        <4>3. s \in SpaceIds
          <5>1. spaces[n] \in SpaceRows
            BY <1>0, <3>2 DEF SpaceInv
          <5>2. s \in SpaceIds \cup {Site}
            BY <4>2, <5>1 DEF SpaceRows
          <5>3. s # Site
            BY <1>9, <3>4, <3>6, <4>1, <4>2, ImportAssumption, SpaceAssumption, <1>10 DEF NodeSound, ImportInv
          <5> QED BY <5>2, <5>3
        <4>4. ~ IsOpen(s) /\ spaces[s] # NoSpace
          BY <1>13, <3>4, <3>6, <4>1, <4>2, <4>3
        <4>5. n \in OpenChildren(s)
          BY <3>2, <3>3, <4>2 DEF OpenChildren, IsOpen
        <4>6. ClosedEmpty(s)
          BY <1>0, <3>3, <4>2, <4>3, SettledIs DEF SpaceInv
        <4> QED BY <4>4, <4>5, <4>6 DEF ClosedEmpty, Empty, IsOpen
      <3> QED BY <3>5, <3>6
    <2> QED BY <2>1, <2>2
  <1>15. ASSUME NEW d \in SpaceCalls PROVE DecisionSound(d)'
    <2>1. CASE d = c
      <3>1. writing'[d] = NoWrite /\ deciding'[d] = NoNode
        BY <1>0, <1>2, <2>1 DEF ImportInv, SpaceInv
      <3> QED BY <3>1 DEF DecisionSound
    <2>2. CASE d # c
      <3>1. PICK o, q : o = writing[d] /\ q = deciding[d]
        OBVIOUS
      <3>2. writing'[d] = o /\ deciding'[d] = q /\ q \in Candidates \cup {NoNode} /\ DecisionSound(d)
        BY <1>0, <1>2, <2>2, <3>1 DEF ImportInv, SpaceInv
      <3>3. ASSUME q # NoNode, o.op = "create", Held[q].type # "building"
            PROVE  /\ Held[q].within \in Candidates
                   /\ o.parent \in raced' \/ (IsOpen(o.parent)' /\ imports'[Held[q].within].node = o.parent)
        <4>1. /\ Held[q].within \in Candidates /\ imports[q] # NoProposal /\ q \in Candidates
              /\ o.parent \in raced \/ (IsOpen(o.parent) /\ imports[Held[q].within].node = o.parent)
              /\ o \in TreeWrites /\ o # NoWrite
          BY <3>1, <3>2, <3>3, <1>0 DEF DecisionSound, StandsUnder, SpaceInv
        <4>2. CASE o.parent \in raced
          BY <1>4, <4>1, <4>2
        <4>3. CASE o.parent \notin raced
          <5>1. o.parent \in SpaceIds
            BY <1>10, <3>3, <4>1, <4>3, WriteKinds, ImportAssumption, SpaceAssumption DEF NodeSound, ImportInv
          <5>2. CASE r.op = "close" /\ o.parent = r.id
            <6>1. o.parent \in Shared(r, o)
              BY <3>3, <5>2 DEF Shared, Fills, Closes
            <6> QED BY <1>4, <2>2, <3>1, <4>1, <6>1
          <5>3. CASE ~ (r.op = "close" /\ o.parent = r.id)
            <6>1. IsOpen(o.parent)'
              BY <1>5, <4>1, <4>3, <5>1, <5>3
            <6>2. Held[q].within # p
              BY <1>6, <1>10, <1>13, <4>1, <4>3, <5>1, ImportAssumption
            <6> QED BY <1>9, <4>1, <4>3, <6>1, <6>2
          <5> QED BY <5>2, <5>3
        <4> QED BY <4>2, <4>3
      <3>4. q # NoNode /\ o.op = "create" => StandsUnder(deciding[d], writing[d].parent)'
        BY <3>2, <3>3 DEF StandsUnder, IsOpen
      <3> QED BY <1>9, <3>1, <3>2, <3>4 DEF DecisionSound
    <2> QED BY <2>1, <2>2
  <1>16. deciding' \in [SpaceCalls -> Candidates \cup {NoNode}]
    BY <1>0 DEF ImportInv
  <1> QED BY <1>0, <1>9, <1>11, <1>12, <1>14, <1>15, <1>16 DEF ImportInv

LEMMA ImportStep == ImportInv /\ [ImportNext]_importVars => ImportInv'
  <1> SUFFICES ASSUME ImportInv, [ImportNext]_importVars PROVE ImportInv'
    OBVIOUS
  <1>1. CASE UNCHANGED importVars
    <2>1. UNCHANGED <<spaces, located, moves, writing, raced, ifcBatch, imports, deciding>>
      BY <1>1 DEF importVars
    <2>2. SpaceInv'
      BY <2>1, SpaceStill DEF ImportInv, spaceVars
    <2>3. \A p \in Candidates : NodeSound(p)' /\ UnderParent(p)'
      BY <2>1 DEF ImportInv, NodeSound, UnderParent
    <2>4. \A d \in SpaceCalls : DecisionSound(d)'
      BY <2>1 DEF ImportInv, DecisionSound, StandsUnder, IsOpen
    <2> QED BY <2>1, <2>2, <2>3, <2>4 DEF ImportInv
  <1> QED BY <1>1, FileSent, TypedIn, ProposalAccepted, ProposalRejected, AcceptanceCommitted, RejectionCommitted,
             RolledBack DEF ImportNext

LEMMA ImportInvariant == ImportSpec => []ImportInv
  BY ImportInitInv, ImportStep, PTL DEF ImportSpec

(* The rows of the spaces, the places and the moves, the proposals of the  *)
(* file and what each open request is about to write.                      *)
THEOREM ImportTypeCorrect == ImportSpec => []ImportTypeOK
  <1>1. ImportInv => ImportTypeOK
    BY DEF ImportInv, SpaceInv, ImportTypeOK, SpaceTypeOK, ParentFits, TreeWrites
  <1> QED BY <1>1, ImportInvariant, PTL

(* Whatever is typed in, imported, moved and closed at the same time, a    *)
(* closed space holds nothing, an equipment is where its last move put it, *)
(* and what was imported stands where the file puts it, but for the work   *)
(* of the requests that overlapped (app/spatial.py, app/ifc_import.py).    *)
THEOREM TreeConsistentHolds == ImportSpec => []TreeConsistent
  <1>1. ImportInv => TreeConsistent
    BY DEF ImportInv, SpaceInv, TreeConsistent, ImportedUnderParent, UnderParent
  <1> QED BY <1>1, ImportInvariant, PTL

-----------------------------------------------------------------------------
(* The migrations: what the rows are between two revisions.                *)

LEMMA RevisionsAre ==
  /\ LastRevision = 10
  /\ PositionOf("points migrate") = 2 /\ PositionOf("findings created") = 4
  /\ PositionOf("life cycle migrate") = 6 /\ PositionOf("life cycle contract") = 7
  /\ PositionOf("axes migrate") = 9
  <1>1. DOMAIN Revisions = 1..10
    BY DEF Revisions
  <1>2. /\ Revisions[1] = "points expand" /\ Revisions[2] = "points migrate"
        /\ Revisions[3] = "points contract" /\ Revisions[4] = "findings created"
        /\ Revisions[5] = "life cycle expand" /\ Revisions[6] = "life cycle migrate"
        /\ Revisions[7] = "life cycle contract" /\ Revisions[8] = "axes expand"
        /\ Revisions[9] = "axes migrate" /\ Revisions[10] = "axes contract"
    BY DEF Revisions
  <1>3. \A i \in 1..10 : i = 1 \/ i = 2 \/ i = 3 \/ i = 4 \/ i = 5 \/ i = 6 \/ i = 7 \/ i = 8
                         \/ i = 9 \/ i = 10
    OBVIOUS
  <1>4. LastRevision = 10
    <2>1. Cardinality(1..10) = 10 - 1 + 1
      BY 1 \in Int, 10 \in Int, ~ (1 > 10), FS_Interval, Zenon
    <2> QED BY <1>1, <2>1 DEF LastRevision
  <1>5. \A k \in 1..10 : PositionOf(Revisions[k]) = k
    <2> SUFFICES ASSUME NEW k \in 1..10 PROVE PositionOf(Revisions[k]) = k
      OBVIOUS
    <2>1. \A i \in 1..10 : Revisions[i] = Revisions[k] => i = k
      BY <1>2, <1>3, ZenonT(40)
    <2> QED BY <1>1, <2>1 DEF PositionOf
  <1>6. 2 \in 1..10 /\ 4 \in 1..10 /\ 6 \in 1..10 /\ 7 \in 1..10 /\ 9 \in 1..10
    OBVIOUS
  <1>7. /\ PositionOf(Revisions[2]) = 2 /\ PositionOf(Revisions[4]) = 4
        /\ PositionOf(Revisions[6]) = 6 /\ PositionOf(Revisions[7]) = 7
        /\ PositionOf(Revisions[9]) = 9
    BY <1>5, <1>6
  <1> QED BY <1>2, <1>4, <1>7

(* Where each revision is applied or undone.                               *)
LEMMA WhereRevisionsAre ==
  ASSUME revision \in 0..LastRevision
  PROVE  /\ (Going("points expand") <=> revision = 0) /\ (Undoing("points expand") <=> revision = 1)
         /\ (Going("points migrate") <=> revision = 1) /\ (Undoing("points migrate") <=> revision = 2)
         /\ (Going("points contract") <=> revision = 2) /\ (Undoing("points contract") <=> revision = 3)
         /\ (Going("findings created") <=> revision = 3) /\ (Undoing("findings created") <=> revision = 4)
         /\ (Going("life cycle expand") <=> revision = 4) /\ (Undoing("life cycle expand") <=> revision = 5)
         /\ (Going("life cycle migrate") <=> revision = 5) /\ (Undoing("life cycle migrate") <=> revision = 6)
         /\ (Going("life cycle contract") <=> revision = 6) /\ (Undoing("life cycle contract") <=> revision = 7)
         /\ (Going("axes expand") <=> revision = 7) /\ (Undoing("axes expand") <=> revision = 8)
         /\ (Going("axes migrate") <=> revision = 8) /\ (Undoing("axes migrate") <=> revision = 9)
         /\ (Going("axes contract") <=> revision = 9) /\ (Undoing("axes contract") <=> revision = 10)
  <1>1. revision \in 0..10 /\ LastRevision = 10
    BY RevisionsAre
  <1>2. PICK R : R = Revisions
    OBVIOUS
  <1>3. /\ R[1] = "points expand" /\ R[2] = "points migrate"
        /\ R[3] = "points contract" /\ R[4] = "findings created"
        /\ R[5] = "life cycle expand" /\ R[6] = "life cycle migrate"
        /\ R[7] = "life cycle contract" /\ R[8] = "axes expand"
        /\ R[9] = "axes migrate" /\ R[10] = "axes contract"
    BY <1>2 DEF Revisions
  <1>4. \A i, j \in 1..10 : R[i] = R[j] => i = j
    <2> SUFFICES ASSUME NEW j \in 1..10 PROVE \A i \in 1..10 : R[i] = R[j] => i = j
      OBVIOUS
    <2>1. \A i \in 1..10 : i = 1 \/ i = 2 \/ i = 3 \/ i = 4 \/ i = 5 \/ i = 6 \/ i = 7 \/ i = 8
                           \/ i = 9 \/ i = 10
      OBVIOUS
    <2> QED BY <1>3, <2>1, ZenonT(40)
  <1>5. /\ revision < 10 => revision + 1 \in 1..10
        /\ revision > 0 => revision \in 1..10
    BY <1>1
  <1>6. \A j \in 1..10 : /\ Going(R[j]) <=> revision = j - 1
                         /\ Undoing(R[j]) <=> revision = j
    BY <1>1, <1>2, <1>4, <1>5 DEF Going, Undoing
  <1>7. /\ \A j \in 1..10 : Undoing(R[j]) <=> revision = j
        /\ (Going(R[1]) <=> revision = 0) /\ (Going(R[2]) <=> revision = 1)
        /\ (Going(R[3]) <=> revision = 2) /\ (Going(R[4]) <=> revision = 3)
        /\ (Going(R[5]) <=> revision = 4) /\ (Going(R[6]) <=> revision = 5)
        /\ (Going(R[7]) <=> revision = 6) /\ (Going(R[8]) <=> revision = 7)
        /\ (Going(R[9]) <=> revision = 8) /\ (Going(R[10]) <=> revision = 9)
    BY <1>1, <1>6
  <1>8. /\ 1 \in 1..10 /\ 2 \in 1..10 /\ 3 \in 1..10 /\ 4 \in 1..10 /\ 5 \in 1..10 /\ 6 \in 1..10
        /\ 7 \in 1..10 /\ 8 \in 1..10 /\ 9 \in 1..10 /\ 10 \in 1..10
    OBVIOUS
  <1> QED BY <1>3, <1>7, <1>8, ZenonT(40)

-----------------------------------------------------------------------------
(* The points and the measures: one point for each code, a code of its own *)
(* for the point a person entered, and, where the former columns are still *)
(* there, the name and the unit of the point of the measure.               *)
Entered == <<"entered", "K">>
PointsInv ==
    /\ measures \in [MeasureIds -> MeasureRows \cup {NotThere}]
    /\ pointRows \subseteq RegisteredRows
    /\ \A p, q \in pointRows : p.code = q.code => p = q
    /\ \A p \in pointRows : p.by = "person" <=> p.code = Entered
    /\ \A m \in KeptMeasures : measures[m].point # NotThere =>
          \E p \in pointRows : p.code = measures[m].point
    /\ revision <= 1 =>
          /\ \A p \in pointRows : p.by = "person"
          /\ \A m \in Orphans : measures[m].name = "temp" /\ measures[m].unit \in LegacyUnits
    /\ revision = 2 => \A m \in KeptMeasures, p \in pointRows :
          p.code = measures[m].point /\ p.by = "migration-f3" =>
             /\ measures[m].name = p.name /\ measures[m].unit \in LegacyUnits
             /\ Ucum(measures[m].unit) = p.unit
    /\ revision >= 2 => PointsRequired

LEMMA CelsiusIsFormer == Celsius # "Cel" /\ Celsius # "K"
  BY DEF Celsius

(* The row of a code, where there is one.                                  *)
LEMMA RowOfCode ==
  ASSUME NEW rows, NEW code, NEW p \in rows, p.code = code, \A q \in rows : q.code = code => q = p
  PROVE  (CHOOSE q \in rows : q.code = code) = p
  OBVIOUS

LEMMA RowOfPointIs ==
  ASSUME PointsInv, NEW p \in pointRows
  PROVE  RowOfPoint(p.code) = p
  <1>1. \A q \in pointRows : q.code = p.code => q = p
    BY DEF PointsInv
  <1> QED BY <1>1, RowOfCode DEF RowOfPoint

LEMMA PointsStill ==
  ASSUME PointsInv, UNCHANGED <<measures, pointRows>>, revision \in Nat, revision' \in Nat,
         (revision <= 1 /\ revision' <= 1) \/ (revision >= 2 /\ revision' >= 3)
            \/ revision' = revision
  PROVE  PointsInv' /\ \A m \in MeasureIds : MeasureTells(m)' = MeasureTells(m)
  <1>1. KeptMeasures' = KeptMeasures /\ Orphans' = Orphans /\ PointsRequired' = PointsRequired
    BY DEF KeptMeasures, Orphans, PointsRequired
  <1>2. PointsInv'
    BY <1>1 DEF PointsInv
  <1>3. \A m \in MeasureIds : MeasureTells(m)' = MeasureTells(m)
    BY DEF MeasureTells, RowOfPoint
  <1> QED BY <1>2, <1>3

LEMMA PointsAttached ==
  ASSUME PointsInv, revision = 1, revision' = 2, AttachMeasurements
  PROVE  PointsInv' /\ \A m \in MeasureIds : MeasureTells(m)' = MeasureTells(m)
  <1>1. /\ \A m \in Orphans : measures[m] \in MeasureRows /\ measures[m].name = "temp"
                             /\ measures[m].unit \in LegacyUnits /\ measures[m].point = NotThere
        /\ \A m \in MeasureIds \ Orphans : measures[m] = NotThere \/
              (m \in KeptMeasures /\ measures[m] \in MeasureRows /\ measures[m].point # NotThere)
        /\ Orphans \subseteq KeptMeasures /\ KeptMeasures \subseteq MeasureIds
        /\ pointRows \subseteq RegisteredRows
        /\ \A p \in pointRows : p.by = "person" /\ p.code = Entered
        /\ \A p, q \in pointRows : p = q
    BY DEF PointsInv, Orphans, KeptMeasures
  <1>2. \A m \in Orphans : /\ LegacyCode(m) = <<"temp", measures[m].unit>>
                           /\ LegacyCode(m) \in LegacyCodes /\ LegacyCode(m) # Entered
                           /\ LegacyCode(m) # NotThere
    BY <1>1, MigrationAssumption DEF LegacyCode, LegacyCodes, Entered
  <1>3. \A p : p \in pointRows' <=>
          \/ p \in pointRows
          \/ \E m \in Orphans :
                p = [code |-> LegacyCode(m), name |-> "temp", unit |-> Ucum(measures[m].unit),
                     by |-> "migration-f3", status |-> "proposed"]
    BY <1>1, <1>2 DEF AttachMeasurements, WithLegacyPoints
  <1>4. \A m \in MeasureIds : measures'[m] =
          IF m \in Orphans
          THEN [measures[m] EXCEPT !.point = LegacyCode(m), !.origin = OriginFrom(measures[m].source)]
          ELSE measures[m]
    BY DEF AttachMeasurements
  <1>5. \A m \in Orphans : /\ measures'[m] \in MeasureRows /\ measures'[m].at = measures[m].at
                           /\ measures'[m].name = "temp" /\ measures'[m].unit = measures[m].unit
                           /\ measures'[m].point = LegacyCode(m) /\ measures'[m] # NotThere
    <2> SUFFICES ASSUME NEW m \in Orphans
                 PROVE  /\ measures'[m] \in MeasureRows /\ measures'[m].at = measures[m].at
                        /\ measures'[m].name = "temp" /\ measures'[m].unit = measures[m].unit
                        /\ measures'[m].point = LegacyCode(m) /\ measures'[m] # NotThere
      OBVIOUS
    <2>1. PICK row \in MeasureRows : row = measures[m]
      BY <1>1
    <2>2. PICK code \in LegacyCodes : code = LegacyCode(m)
      BY <1>2
    <2>6. PICK o \in {"simulated", "measured"} : o = OriginFrom(row.source)
      BY DEF OriginFrom
    <2>3. PICK after : after = [row EXCEPT !.point = code, !.origin = o]
      OBVIOUS
    <2>4. /\ after \in MeasureRows /\ after.at = row.at /\ after.name = row.name
          /\ after.unit = row.unit /\ after.point = code
      BY <2>3 DEF MeasureRows
    <2>5. measures'[m] = after
      BY <1>1, <1>4, <2>1, <2>2, <2>3, <2>6
    <2> QED BY <1>1, <2>1, <2>2, <2>4, <2>5, MigrationAssumption
  <1>6. measures' \in [MeasureIds -> MeasureRows \cup {NotThere}]
    BY <1>4, <1>5 DEF AttachMeasurements, PointsInv
  <1>7. KeptMeasures' = KeptMeasures /\ Orphans' = {}
    <2>1. \A m \in MeasureIds : /\ measures'[m] # NotThere <=> measures[m] # NotThere
                                /\ measures'[m] # NotThere => measures'[m].point # NotThere
      <3> SUFFICES ASSUME NEW m \in MeasureIds
                   PROVE  /\ measures'[m] # NotThere <=> measures[m] # NotThere
                          /\ measures'[m] # NotThere => measures'[m].point # NotThere
        OBVIOUS
      <3>1. CASE m \in Orphans
        BY <1>1, <1>2, <1>5, <3>1 DEF KeptMeasures
      <3>2. CASE m \notin Orphans
        BY <1>1, <1>4, <3>2
      <3> QED BY <3>1, <3>2
    <2> QED BY <2>1 DEF KeptMeasures, Orphans
  <1>8. \A p \in pointRows' : \/ p \in pointRows /\ p.code = Entered /\ p.by = "person"
                             \/ \E m \in Orphans :
                                   /\ p.code = LegacyCode(m) /\ p.name = "temp"
                                   /\ p.unit = Ucum(measures[m].unit) /\ p.by = "migration-f3"
                                   /\ p \in RegisteredRows /\ p.status = "proposed"
    <2> SUFFICES ASSUME NEW p \in pointRows', p \notin pointRows
                 PROVE  \E m \in Orphans :
                           /\ p.code = LegacyCode(m) /\ p.name = "temp"
                           /\ p.unit = Ucum(measures[m].unit) /\ p.by = "migration-f3"
                           /\ p \in RegisteredRows /\ p.status = "proposed"
      BY <1>1
    <2>1. PICK m \in Orphans :
             p = [code |-> LegacyCode(m), name |-> "temp", unit |-> Ucum(measures[m].unit),
                  by |-> "migration-f3", status |-> "proposed"]
      BY <1>3
    <2>2. Ucum(measures[m].unit) \in {"Cel", "K"}
      <3>1. PICK u \in LegacyUnits : u = measures[m].unit
        BY <1>1
      <3>2. Ucum(u) \in {"Cel", "K"}
        BY DEF Ucum, LegacyUnits
      <3> QED BY <3>1, <3>2
    <2> QED BY <1>2, <2>1, <2>2 DEF RegisteredRows
  <1>9. \A m, n \in Orphans : LegacyCode(m) = LegacyCode(n) => measures[m].unit = measures[n].unit
    BY <1>1, <1>2
  <1>10. \A p, q \in pointRows' : p.code = q.code => p = q
    BY <1>1, <1>2, <1>3, <1>8, <1>9
  <1>11. \A m \in KeptMeasures : measures'[m].point # NotThere
                                 /\ \E p \in pointRows' : p.code = measures'[m].point
    <2> SUFFICES ASSUME NEW m \in KeptMeasures
                 PROVE  measures'[m].point # NotThere
                        /\ \E p \in pointRows' : p.code = measures'[m].point
      OBVIOUS
    <2>1. CASE m \in Orphans
      <3>1. PICK p : p = [code |-> LegacyCode(m), name |-> "temp", unit |-> Ucum(measures[m].unit),
                          by |-> "migration-f3", status |-> "proposed"]
        OBVIOUS
      <3>2. p \in pointRows' /\ p.code = LegacyCode(m)
        BY <1>3, <2>1, <3>1
      <3> QED BY <1>2, <1>5, <2>1, <3>2
    <2>2. CASE m \notin Orphans
      BY <1>1, <1>3, <1>4, <2>2, ZenonT(40) DEF PointsInv, KeptMeasures
    <2> QED BY <2>1, <2>2
  <1>12. PointsRequired'
    <2>1. \A m \in KeptMeasures : /\ measures'[m].point = CodeAfter(m)
                                  /\ measures'[m].at = measures[m].at
      BY <1>1, <1>4, <1>5 DEF CodeAfter
    <2>2. ~ Duplicates
      BY DEF AttachMeasurements
    <2> QED BY <1>7, <1>11, <2>1, <2>2 DEF PointsRequired, Duplicates
  <1>13. ASSUME NEW m \in KeptMeasures, NEW p \in pointRows', p.code = measures'[m].point,
                p.by = "migration-f3"
         PROVE  /\ measures'[m].name = p.name /\ measures'[m].unit \in LegacyUnits
                /\ Ucum(measures'[m].unit) = p.unit
    <2>1. PICK n \in Orphans : /\ p.code = LegacyCode(n) /\ p.name = "temp"
                               /\ p.unit = Ucum(measures[n].unit)
      BY <1>8, <1>13
    <2>2. m \in Orphans
      <3> SUFFICES ASSUME m \notin Orphans PROVE FALSE
        OBVIOUS
      <3>1. measures'[m] = measures[m] /\ measures[m].point # NotThere
        BY <1>1, <1>4 DEF KeptMeasures
      <3>2. \E q \in pointRows : q.code = measures[m].point
        BY <3>1 DEF PointsInv
      <3> QED BY <1>1, <1>2, <1>13, <2>1, <3>1, <3>2
    <2>3. measures[m].unit = measures[n].unit
      <3>1. LegacyCode(m) = LegacyCode(n)
        BY <1>5, <1>13, <2>1, <2>2
      <3> QED BY <1>9, <2>2, <3>1
    <2> QED BY <1>1, <1>5, <2>1, <2>2, <2>3
  <1>14. PointsInv'
    <2>1. pointRows' \subseteq RegisteredRows /\ \A p \in pointRows' : p.by = "person" <=> p.code = Entered
      BY <1>1, <1>2, <1>8
    <2> QED BY <1>6, <1>7, <1>10, <1>11, <1>12, <1>13, <2>1 DEF PointsInv
  <1>15. ASSUME NEW m \in MeasureIds PROVE MeasureTells(m)' = MeasureTells(m)
    <2>1. CASE measures[m] = NotThere
      BY <1>1, <1>4, <2>1, <1>7 DEF MeasureTells, KeptMeasures
    <2>2. CASE m \in Orphans
      <3>1. PICK p : p = [code |-> LegacyCode(m), name |-> "temp", unit |-> Ucum(measures[m].unit),
                          by |-> "migration-f3", status |-> "proposed"]
        OBVIOUS
      <3>2. p \in pointRows' /\ p.code = LegacyCode(m)
        BY <1>3, <2>2, <3>1
      <3>3. (CHOOSE q \in pointRows' : q.code = measures'[m].point) = p
        BY <1>5, <1>10, <2>2, <3>2, RowOfCode
      <3>4. MeasureTells(m)' = <<measures'[m].at, p.name, p.unit>>
        BY <1>2, <1>5, <2>2, <3>3 DEF MeasureTells, RowOfPoint
      <3>5. MeasureTells(m) = <<measures[m].at, "temp", Ucum(measures[m].unit)>>
        BY <1>1, <2>2 DEF MeasureTells, KeptMeasures
      <3> QED BY <1>5, <2>2, <3>1, <3>4, <3>5
    <2>3. CASE m \in KeptMeasures \ Orphans
      <3>1. /\ measures[m] # NotThere /\ measures[m].point # NotThere
            /\ measures'[m] = measures[m]
        BY <1>1, <1>4, <2>3 DEF KeptMeasures, Orphans
      <3>2. PICK p \in pointRows : p.code = measures[m].point
        BY <2>3, <3>1 DEF PointsInv
      <3>3. p \in pointRows'
        BY <1>3
      <3>4. (CHOOSE q \in pointRows : q.code = measures[m].point) = p
        BY <1>1, <3>2, RowOfCode
      <3>5. (CHOOSE q \in pointRows' : q.code = measures'[m].point) = p
        BY <1>10, <3>1, <3>2, <3>3, RowOfCode
      <3>6. MeasureTells(m) = <<measures[m].at, p.name, p.unit>>
        BY <3>1, <3>4 DEF MeasureTells, RowOfPoint
      <3>7. MeasureTells(m)' = <<measures'[m].at, p.name, p.unit>>
        BY <3>1, <3>5 DEF MeasureTells, RowOfPoint
      <3> QED BY <3>1, <3>6, <3>7
    <2> QED BY <1>1, <2>1, <2>2, <2>3
  <1> QED BY <1>14, <1>15

LEMMA PointsDetached ==
  ASSUME PointsInv, revision = 2, revision' = 1, DetachMeasurements
  PROVE  PointsInv' /\ \A m \in MeasureIds : MeasureTells(m)' = MeasureTells(m)
  <1>1. PICK ours : ours = {p \in pointRows : p.by = "migration-f3"}
    OBVIOUS
  <1>2. /\ pointRows \subseteq RegisteredRows
        /\ \A p, q \in pointRows : p.code = q.code => p = q
        /\ \A p \in pointRows : p.by = "person" <=> p.code = Entered
        /\ \A p \in pointRows : p \in ours <=> p.by # "person"
        /\ \A m \in MeasureIds : measures[m] \in MeasureRows \cup {NotThere}
        /\ \A m \in KeptMeasures : m \in MeasureIds /\ measures[m] # NotThere
        /\ \A m \in KeptMeasures : measures[m].point # NotThere
        /\ Orphans = {}
    BY <1>1 DEF PointsInv, PointsRequired, RegisteredRows, KeptMeasures, Orphans
  <1>3. pointRows' = pointRows \ ours
    BY <1>1 DEF DetachMeasurements
  <1>13. measures' = [m \in MeasureIds |->
              IF m \in KeptMeasures /\ \E p \in ours : p.code = measures[m].point
              THEN [measures[m] EXCEPT !.point = NotThere, !.origin = NotThere] ELSE measures[m]]
    BY <1>1 DEF DetachMeasurements
  <1>4. ASSUME NEW m \in KeptMeasures, NEW p \in ours, p.code = measures[m].point
        PROVE  /\ measures'[m] \in MeasureRows /\ measures'[m].at = measures[m].at
               /\ measures'[m].name = p.name /\ measures'[m].unit \in LegacyUnits
               /\ Ucum(measures'[m].unit) = p.unit /\ measures'[m].point = NotThere
               /\ measures'[m] # NotThere
    <2>1. PICK row \in MeasureRows : row = measures[m]
      BY <1>2
    <2>2. PICK after : after = [row EXCEPT !.point = NotThere, !.origin = NotThere]
      OBVIOUS
    <2>3. /\ after \in MeasureRows /\ after.at = row.at /\ after.name = row.name
          /\ after.unit = row.unit /\ after.point = NotThere
      BY <2>2 DEF MeasureRows
    <2>4. measures'[m] = after
      BY <1>2, <1>4, <1>13, <2>1, <2>2
    <2>5. row.name = p.name /\ row.unit \in LegacyUnits /\ Ucum(row.unit) = p.unit
      BY <1>1, <1>4, <2>1 DEF PointsInv
    <2> QED BY <2>3, <2>4, <2>1, <2>5, MigrationAssumption
  <1>5. ASSUME NEW m \in MeasureIds, ~ (m \in KeptMeasures /\ \E p \in ours : p.code = measures[m].point)
        PROVE  measures'[m] = measures[m]
    BY <1>5, <1>13
  <1>6. measures' \in [MeasureIds -> MeasureRows \cup {NotThere}]
    BY <1>2, <1>4, <1>5, <1>13
  <1>7. KeptMeasures' = KeptMeasures
    <2>1. \A m \in MeasureIds : measures'[m] # NotThere <=> measures[m] # NotThere
      BY <1>2, <1>4, <1>5
    <2> QED BY <2>1 DEF KeptMeasures
  <1>8. \A m \in KeptMeasures : measures'[m].point # NotThere =>
           measures'[m] = measures[m] /\ ~ \E p \in ours : p.code = measures[m].point
    BY <1>2, <1>4, <1>5
  <1>9. \A m \in KeptMeasures : measures'[m].point # NotThere =>
           \E p \in pointRows' : p.code = measures'[m].point
    BY <1>2, <1>3, <1>8 DEF PointsInv
  <1>10. \A m \in Orphans' : measures'[m].name = "temp" /\ measures'[m].unit \in LegacyUnits
    <2> SUFFICES ASSUME NEW m \in KeptMeasures, measures'[m].point = NotThere
                 PROVE  measures'[m].name = "temp" /\ measures'[m].unit \in LegacyUnits
      BY <1>7 DEF Orphans
    <2>1. PICK p \in ours : p.code = measures[m].point
      BY <1>2, <1>5
    <2>2. p.name = "temp"
      BY <1>1, <1>2 DEF RegisteredRows
    <2> QED BY <1>4, <2>1, <2>2
  <1>11. PointsInv'
    BY <1>2, <1>3, <1>6, <1>7, <1>9, <1>10 DEF PointsInv
  <1>12. ASSUME NEW m \in MeasureIds PROVE MeasureTells(m)' = MeasureTells(m)
    <2>1. CASE m \notin KeptMeasures
      BY <1>5, <2>1 DEF MeasureTells, KeptMeasures
    <2>2. CASE m \in KeptMeasures
      <3>1. PICK p \in pointRows : p.code = measures[m].point
        BY <1>2, <2>2 DEF PointsInv
      <3>2. (CHOOSE q \in pointRows : q.code = measures[m].point) = p
        BY <1>2, <3>1, RowOfCode
      <3>3. MeasureTells(m) = <<measures[m].at, p.name, p.unit>>
        BY <1>2, <2>2, <3>2 DEF MeasureTells, RowOfPoint
      <3>4. CASE p \in ours
        <4>1. MeasureTells(m)' = <<measures'[m].at, measures'[m].name, Ucum(measures'[m].unit)>>
          <5>1. measures'[m] # NotThere /\ measures'[m].point = NotThere
            BY <1>4, <2>2, <3>1, <3>4
          <5> QED BY <5>1 DEF MeasureTells, Ucum
        <4> QED BY <1>4, <2>2, <3>1, <3>3, <3>4, <4>1
      <3>5. CASE p \notin ours
        <4>1. ~ \E q \in ours : q.code = measures[m].point
          BY <1>1, <1>2, <3>1, <3>5
        <4>2. measures'[m] = measures[m] /\ p \in pointRows'
          BY <1>3, <1>5, <3>5, <4>1
        <4>3. (CHOOSE q \in pointRows' : q.code = measures'[m].point) = p
          BY <1>2, <1>3, <3>1, <4>2, RowOfCode
        <4>4. MeasureTells(m)' = <<measures'[m].at, p.name, p.unit>>
          BY <1>2, <2>2, <4>2, <4>3 DEF MeasureTells, RowOfPoint
        <4> QED BY <3>3, <4>2, <4>4
      <3> QED BY <3>4, <3>5
    <2> QED BY <2>1, <2>2
  <1> QED BY <1>11, <1>12

(* The new columns go where there is no point: no measure had one.         *)
LEMMA PointsEmptied ==
  ASSUME PointsInv, revision = 1, revision' = 0, pointRows = {}, DropNewColumns,
         UNCHANGED pointRows
  PROVE  PointsInv' /\ \A m \in MeasureIds : MeasureTells(m)' = MeasureTells(m)
  <1>1. /\ \A m \in KeptMeasures : m \in MeasureIds /\ measures[m] # NotThere
        /\ \A m \in KeptMeasures : measures[m].point = NotThere
        /\ \A m \in KeptMeasures : measures[m].name = "temp" /\ measures[m].unit \in LegacyUnits
    BY DEF PointsInv, KeptMeasures, Orphans
  <1>2. ASSUME NEW m \in KeptMeasures
        PROVE  /\ measures'[m] \in MeasureRows /\ measures'[m].at = measures[m].at
               /\ measures'[m].name = measures[m].name /\ measures'[m].unit = measures[m].unit
               /\ measures'[m].point = NotThere /\ measures'[m] # NotThere
    <2>1. PICK row \in MeasureRows : row = measures[m]
      BY DEF PointsInv, KeptMeasures
    <2>2. PICK after : after = [row EXCEPT !.point = NotThere, !.origin = NotThere, !.flags = "none"]
      OBVIOUS
    <2>3. /\ after \in MeasureRows /\ after.at = row.at /\ after.name = row.name
          /\ after.unit = row.unit /\ after.point = NotThere
      BY <2>2 DEF MeasureRows
    <2>4. measures'[m] = after
      BY <2>1, <2>2 DEF DropNewColumns, KeptMeasures
    <2> QED BY <2>1, <2>3, <2>4, MigrationAssumption
  <1>3. \A m \in MeasureIds : m \notin KeptMeasures => measures'[m] = NotThere
    BY DEF DropNewColumns
  <1>4. measures' \in [MeasureIds -> MeasureRows \cup {NotThere}]
    BY <1>2, <1>3 DEF DropNewColumns
  <1>5. KeptMeasures' = KeptMeasures
    BY <1>1, <1>2, <1>3 DEF KeptMeasures
  <1>6. PointsInv'
    <2>1. \A m \in Orphans' : measures'[m].name = "temp" /\ measures'[m].unit \in LegacyUnits
      BY <1>1, <1>2, <1>5 DEF Orphans
    <2> QED BY <1>2, <1>4, <1>5, <2>1 DEF PointsInv
  <1>7. ASSUME NEW m \in MeasureIds PROVE MeasureTells(m)' = MeasureTells(m)
    <2>1. CASE m \notin KeptMeasures
      BY <1>3, <2>1 DEF MeasureTells, KeptMeasures
    <2>2. CASE m \in KeptMeasures
      <3>1. MeasureTells(m) = <<measures[m].at, measures[m].name, Ucum(measures[m].unit)>>
        BY <1>1, <2>2 DEF MeasureTells
      <3>2. MeasureTells(m)' = <<measures'[m].at, measures'[m].name, Ucum(measures'[m].unit)>>
        BY <1>2, <2>2 DEF MeasureTells, Ucum
      <3> QED BY <1>2, <2>2, <3>1, <3>2
    <2> QED BY <2>1, <2>2
  <1> QED BY <1>6, <1>7

(* The former columns go, and come back: what a point tells stays.         *)
LEMMA PointsRewritten ==
  ASSUME PointsInv, revision \in Nat, revision >= 2, revision' >= 2, revision' \in Nat,
         UNCHANGED pointRows,
         measures' \in [MeasureIds -> MeasureRows \cup {NotThere}],
         \A m \in MeasureIds : (measures'[m] = NotThere) <=> (measures[m] = NotThere),
         \A m \in KeptMeasures : /\ measures'[m].at = measures[m].at
                                 /\ measures'[m].point = measures[m].point,
         revision' = 2 => \A m \in KeptMeasures :
             /\ measures'[m].name = RowOfPoint(measures[m].point).name
             /\ measures'[m].unit = RowOfPoint(measures[m].point).unit
  PROVE  PointsInv' /\ \A m \in MeasureIds : MeasureTells(m)' = MeasureTells(m)
  <1>1. KeptMeasures' = KeptMeasures
    BY DEF KeptMeasures
  <1>2. /\ \A m \in KeptMeasures : m \in MeasureIds /\ measures[m] # NotThere
        /\ \A m \in KeptMeasures : measures[m].point # NotThere
        /\ \A m \in KeptMeasures : \E p \in pointRows : p.code = measures[m].point
    BY DEF PointsInv, PointsRequired, KeptMeasures
  <1>3. PointsRequired'
    BY <1>1 DEF PointsInv, PointsRequired
  <1>4. ASSUME revision' = 2, NEW m \in KeptMeasures, NEW p \in pointRows,
               p.code = measures'[m].point
        PROVE  /\ measures'[m].name = p.name /\ measures'[m].unit \in LegacyUnits
               /\ Ucum(measures'[m].unit) = p.unit
    <2>1. RowOfPoint(measures[m].point) = p
      BY <1>4, RowOfPointIs
    <2>2. PICK u \in {"Cel", "K"} : u = p.unit
      BY DEF PointsInv, RegisteredRows
    <2>3. u \in LegacyUnits /\ Ucum(u) = u
      BY CelsiusIsFormer DEF LegacyUnits, Ucum
    <2> QED BY <1>4, <2>1, <2>2, <2>3
  <1>5. PointsInv'
    BY <1>1, <1>2, <1>3, <1>4 DEF PointsInv
  <1>6. ASSUME NEW m \in MeasureIds PROVE MeasureTells(m)' = MeasureTells(m)
    <2>1. CASE m \notin KeptMeasures
      BY <2>1 DEF MeasureTells, KeptMeasures
    <2>2. CASE m \in KeptMeasures
      <3>1. PICK row : row = RowOfPoint(measures[m].point)
        OBVIOUS
      <3>2. RowOfPoint(measures[m].point)' = row
        BY <2>2, <3>1 DEF RowOfPoint
      <3>3. measures[m] # NotThere /\ measures[m].point # NotThere /\ measures'[m] # NotThere
            /\ measures'[m].point # NotThere /\ measures'[m].at = measures[m].at
        BY <1>2, <2>2
      <3>4. MeasureTells(m) = <<measures[m].at, row.name, row.unit>>
        BY <3>1, <3>3 DEF MeasureTells
      <3>5. MeasureTells(m)' = <<measures'[m].at, row.name, row.unit>>
        BY <3>2, <3>3 DEF MeasureTells
      <3> QED BY <3>3, <3>4, <3>5
    <2> QED BY <2>1, <2>2
  <1> QED BY <1>5, <1>6

LEMMA PointsContracted ==
  ASSUME PointsInv, revision = 2, revision' = 3, DropLegacyColumns, UNCHANGED pointRows
  PROVE  PointsInv' /\ \A m \in MeasureIds : MeasureTells(m)' = MeasureTells(m)
  <1>1. ASSUME NEW m \in KeptMeasures
        PROVE  /\ measures'[m] \in MeasureRows /\ measures'[m].at = measures[m].at
               /\ measures'[m].point = measures[m].point
    <2>1. PICK row \in MeasureRows : row = measures[m]
      BY DEF PointsInv, KeptMeasures
    <2>2. PICK after : after = [row EXCEPT !.name = NotThere, !.unit = NotThere,
                                           !.exemplar = NotThere]
      OBVIOUS
    <2>3. after \in MeasureRows /\ after.at = row.at /\ after.point = row.point
      BY <2>2 DEF MeasureRows
    <2>4. measures'[m] = after
      BY <2>1, <2>2 DEF DropLegacyColumns, KeptMeasures
    <2> QED BY <2>1, <2>3, <2>4
  <1>2. \A m \in MeasureIds : m \notin KeptMeasures => measures'[m] = NotThere
    BY DEF DropLegacyColumns
  <1>3. measures' \in [MeasureIds -> MeasureRows \cup {NotThere}]
    BY <1>1, <1>2 DEF DropLegacyColumns
  <1>4. \A m \in MeasureIds : (measures'[m] = NotThere) <=> (measures[m] = NotThere)
    BY <1>1, <1>2, MigrationAssumption DEF KeptMeasures
  <1> QED BY <1>1, <1>3, <1>4, PointsRewritten

LEMMA PointsRebuilt ==
  ASSUME PointsInv, revision = 3, revision' = 2, RebuildLegacyColumns, UNCHANGED pointRows
  PROVE  PointsInv' /\ \A m \in MeasureIds : MeasureTells(m)' = MeasureTells(m)
  <1>1. ASSUME NEW m \in KeptMeasures
        PROVE  /\ measures'[m] \in MeasureRows /\ measures'[m].at = measures[m].at
               /\ measures'[m].point = measures[m].point
               /\ measures'[m].name = RowOfPoint(measures[m].point).name
               /\ measures'[m].unit = RowOfPoint(measures[m].point).unit
    <2>1. PICK row \in MeasureRows : row = measures[m]
      BY DEF PointsInv, KeptMeasures
    <2>2. PICK p \in pointRows : p.code = measures[m].point
      BY DEF PointsInv, PointsRequired
    <2>3. RowOfPoint(measures[m].point) = p /\ p.name = "temp" /\ p.unit \in LegacyUnits
      BY <2>2, RowOfPointIs DEF PointsInv, RegisteredRows, LegacyUnits
    <2>4. PICK after : after = [row EXCEPT !.name = p.name, !.unit = p.unit]
      OBVIOUS
    <2>5. /\ after \in MeasureRows /\ after.at = row.at /\ after.point = row.point
          /\ after.name = p.name /\ after.unit = p.unit
      BY <2>3, <2>4 DEF MeasureRows
    <2>6. measures'[m] = after
      BY <2>1, <2>3, <2>4 DEF RebuildLegacyColumns, KeptMeasures
    <2> QED BY <2>1, <2>3, <2>5, <2>6
  <1>2. \A m \in MeasureIds : m \notin KeptMeasures => measures'[m] = NotThere
    BY DEF RebuildLegacyColumns
  <1>3. measures' \in [MeasureIds -> MeasureRows \cup {NotThere}]
    BY <1>1, <1>2 DEF RebuildLegacyColumns
  <1>4. \A m \in MeasureIds : (measures'[m] = NotThere) <=> (measures[m] = NotThere)
    BY <1>1, <1>2, MigrationAssumption DEF KeptMeasures
  <1> QED BY <1>1, <1>3, <1>4, PointsRewritten

(* The application writes a point, or a measure of a point.                *)
LEMMA PointsWritten ==
  ASSUME PointsInv, revision = 10, revision' = 10, PointWritten
  PROVE  PointsInv'
  <1>1. UNCHANGED measures
    BY DEF PointWritten
  <1>2. KeptMeasures' = KeptMeasures /\ (PointsRequired' <=> PointsRequired)
    BY <1>1 DEF KeptMeasures, PointsRequired
  <1>3. ASSUME NEW p \in pointRows, NEW u \in {"Cel", "K"}, NEW s \in {"proposed", "validated"},
               pointRows' = (pointRows \ {p}) \cup {[p EXCEPT !.unit = u, !.status = s]}
        PROVE  PointsInv'
    <2>1. PICK after : after = [p EXCEPT !.unit = u, !.status = s]
      OBVIOUS
    <2>2. after \in RegisteredRows /\ after.code = p.code /\ after.by = p.by
      BY <2>1 DEF PointsInv, RegisteredRows
    <2>3. pointRows' = (pointRows \ {p}) \cup {after}
      BY <1>3, <2>1
    <2> QED BY <1>1, <1>2, <2>2, <2>3 DEF PointsInv
  <1>4. ASSUME \A p \in pointRows : p.by # "person",
               pointRows' = pointRows \cup
                 {[code |-> <<"entered", "K">>, name |-> "temp", unit |-> "K", by |-> "person",
                   status |-> "proposed"]}
        PROVE  PointsInv'
    <2>1. PICK new : new = [code |-> Entered, name |-> "temp", unit |-> "K", by |-> "person",
                            status |-> "proposed"]
      OBVIOUS
    <2>2. new \in RegisteredRows /\ new.code = Entered /\ new.by = "person"
      BY <2>1 DEF RegisteredRows, LegacyCodes, Entered
    <2>3. pointRows' = pointRows \cup {new}
      BY <1>4, <2>1 DEF Entered
    <2> QED BY <1>1, <1>2, <1>4, <2>2, <2>3 DEF PointsInv
  <1> QED BY <1>3, <1>4 DEF PointWritten

LEMMA MeasureWritten ==
  ASSUME PointsInv, revision = 10, revision' = 10, NEW m \in MeasureIds, MeasureArrives(m)
  PROVE  PointsInv'
  <1>1. PICK p \in pointRows, t \in MeasureDates,
             o \in {"measured", "manual"}, f \in {"none", "out_of_range"} :
           /\ \A n \in KeptMeasures : measures[n].at = t => measures[n].point # p.code
           /\ measures' = [measures EXCEPT ![m] =
                 [at |-> t, name |-> NotThere, unit |-> NotThere, point |-> p.code,
                  exemplar |-> NotThere, source |-> "edge", origin |-> o, flags |-> f]]
    BY DEF MeasureArrives
  <1>2. PICK row : row = [at |-> t, name |-> NotThere, unit |-> NotThere, point |-> p.code,
                          exemplar |-> NotThere, source |-> "edge", origin |-> o, flags |-> f]
    OBVIOUS
  <1>3. /\ p.code \in LegacyCodes /\ row \in MeasureRows /\ row.at = t /\ row.point = p.code
        /\ row # NotThere /\ p.code # NotThere
    BY <1>2, MigrationAssumption DEF PointsInv, RegisteredRows, MeasureRows
  <1>4. measures[m] = NotThere /\ UNCHANGED pointRows /\ measures' = [measures EXCEPT ![m] = row]
    BY <1>1, <1>2 DEF MeasureArrives
  <1>5. /\ KeptMeasures' = KeptMeasures \cup {m} /\ m \notin KeptMeasures
        /\ measures'[m] = row /\ \A n \in KeptMeasures : measures'[n] = measures[n]
    BY <1>3, <1>4 DEF KeptMeasures, PointsInv
  <1>6. PointsRequired'
    BY <1>1, <1>3, <1>5 DEF PointsInv, PointsRequired
  <1> QED BY <1>3, <1>4, <1>5, <1>6 DEF PointsInv

-----------------------------------------------------------------------------
(* The columns that the migrations lose: a measure has an origin where it  *)
(* has a point, an exemplar before the old columns go, flags after the new *)
(* ones came.                                                              *)
ColumnsInv ==
    \A m \in KeptMeasures :
        /\ measures[m].point = NotThere <=> measures[m].origin = NotThere
        /\ measures[m].exemplar # NotThere => revision <= 2
        /\ measures[m].flags # "none" => revision >= 1

(* The revisions at which something is lost.                               *)
LEMMA LosingRevisions ==
  /\ revision = 1 /\ revision' = 0 => Undone("points expand")
  /\ revision = 1 /\ revision' = 2 => Applied("points migrate")
  /\ revision = 2 /\ revision' = 1 => Undone("points migrate")
  /\ revision = 2 /\ revision' = 3 => Applied("points contract")
  <1>1. CASE revision \in {1, 2}
    <2>3. LastRevision = 10
      BY RevisionsAre
    <2>1. revision \in 0..LastRevision
      BY <1>1, <2>3
    <2>2. /\ revision = 1 => Undoing("points expand") /\ Going("points migrate")
          /\ revision = 2 => Undoing("points migrate") /\ Going("points contract")
      BY <2>1, WhereRevisionsAre, Zenon
    <2>4. /\ revision = 1 /\ revision' = 0 => revision' = revision - 1
          /\ revision = 2 /\ revision' = 1 => revision' = revision - 1
          /\ revision = 1 /\ revision' = 2 => revision' = revision + 1
          /\ revision = 2 /\ revision' = 3 => revision' = revision + 1
      OBVIOUS
    <2> QED BY <2>2, <2>4, Zenon DEF Applied, Undone
  <1>2. CASE revision \notin {1, 2}
    BY <1>2
  <1> QED BY <1>1, <1>2

LEMMA ColumnsStill ==
  ASSUME ColumnsInv, UNCHANGED measures, revision \in Nat, revision' \in Nat,
         revision' >= 1 \/ revision' = revision, revision' >= 3 => revision >= 3
  PROVE  ColumnsInv' /\ \A m \in MeasureIds : LosesOnly(m)
  <1>1. KeptMeasures' = KeptMeasures
    BY DEF KeptMeasures
  <1>2. ColumnsInv'
    BY <1>1 DEF ColumnsInv
  <1>3. \A m \in MeasureIds : LosesOnly(m)
    BY DEF LosesOnly
  <1> QED BY <1>2, <1>3

LEMMA ColumnsAttached ==
  ASSUME PointsInv, ColumnsInv, revision = 1, revision' = 2, AttachMeasurements
  PROVE  ColumnsInv' /\ \A m \in MeasureIds : LosesOnly(m)
  <1>1. ASSUME NEW m \in Orphans
        PROVE  /\ measures[m] # NotThere /\ measures'[m] # NotThere
               /\ measures[m].origin = NotThere /\ measures'[m].point # NotThere
               /\ measures'[m].exemplar = measures[m].exemplar
               /\ measures'[m].flags = measures[m].flags
               /\ measures'[m].origin = OriginFrom(measures[m].source)
               /\ measures'[m].origin # NotThere
    <2>1. /\ m \in MeasureIds /\ m \in KeptMeasures /\ measures[m] # NotThere
          /\ measures[m].point = NotThere /\ measures[m].unit \in LegacyUnits
          /\ measures[m].name = "temp"
      BY DEF Orphans, KeptMeasures, PointsInv
    <2>2. PICK row \in MeasureRows : row = measures[m]
      BY <2>1 DEF PointsInv
    <2>3. PICK code \in LegacyCodes : code = LegacyCode(m)
      BY <2>1 DEF LegacyCode, LegacyCodes
    <2>4. PICK o \in {"simulated", "measured"} : o = OriginFrom(row.source)
      BY DEF OriginFrom
    <2>5. PICK after : after = [row EXCEPT !.point = code, !.origin = o]
      OBVIOUS
    <2>6. /\ after \in MeasureRows /\ after.point = code /\ after.origin = o
          /\ after.exemplar = row.exemplar /\ after.flags = row.flags
      BY <2>5 DEF MeasureRows
    <2>7. measures'[m] = after
      BY <2>1, <2>2, <2>3, <2>4, <2>5 DEF AttachMeasurements
    <2>8. measures[m].origin = NotThere
      BY <2>1 DEF ColumnsInv
    <2> QED BY <2>1, <2>2, <2>3, <2>4, <2>6, <2>7, <2>8, MigrationAssumption
  <1>2. \A m \in MeasureIds \ Orphans : measures'[m] = measures[m]
    BY DEF AttachMeasurements
  <1>3. \A m \in MeasureIds : LosesOnly(m)
    <2>1. ASSUME NEW m \in Orphans PROVE LosesOnly(m)
      BY <1>1, LosingRevisions DEF LosesOnly
    <2>2. ASSUME NEW m \in MeasureIds \ Orphans PROVE LosesOnly(m)
      BY <1>2 DEF LosesOnly
    <2> QED BY <2>1, <2>2
  <1>4. ColumnsInv'
    <2> SUFFICES ASSUME NEW m \in KeptMeasures'
                 PROVE  measures'[m].point = NotThere <=> measures'[m].origin = NotThere
      BY DEF ColumnsInv
    <2>1. CASE m \in Orphans
      BY <1>1, <2>1
    <2>2. CASE m \notin Orphans
      BY <1>2, <2>2 DEF ColumnsInv, KeptMeasures
    <2> QED BY <2>1, <2>2
  <1> QED BY <1>3, <1>4

LEMMA ColumnsDetached ==
  ASSUME PointsInv, ColumnsInv, revision = 2, revision' = 1, DetachMeasurements
  PROVE  ColumnsInv' /\ \A m \in MeasureIds : LosesOnly(m)
  <1>1. PICK gone : gone = {m \in KeptMeasures :
           \E p \in {q \in pointRows : q.by = "migration-f3"} : p.code = measures[m].point}
    OBVIOUS
  <1>2. ASSUME NEW m \in gone
        PROVE  /\ measures'[m].point = NotThere /\ measures'[m].origin = NotThere
               /\ measures'[m].exemplar = measures[m].exemplar
               /\ measures'[m].flags = measures[m].flags
    <2>1. m \in MeasureIds /\ m \in KeptMeasures
      BY <1>1 DEF KeptMeasures
    <2>2. PICK row \in MeasureRows : row = measures[m]
      BY <2>1 DEF PointsInv, KeptMeasures
    <2>3. PICK after : after = [row EXCEPT !.point = NotThere, !.origin = NotThere]
      OBVIOUS
    <2>4. /\ after.point = NotThere /\ after.origin = NotThere
          /\ after.exemplar = row.exemplar /\ after.flags = row.flags
      BY <2>3 DEF MeasureRows
    <2>5. measures'[m] = after
      BY <1>1, <2>1, <2>2, <2>3 DEF DetachMeasurements
    <2> QED BY <2>2, <2>4, <2>5
  <1>3. \A m \in MeasureIds \ gone : measures'[m] = measures[m]
    BY <1>1 DEF DetachMeasurements
  <1>4. \A m \in MeasureIds : LosesOnly(m)
    <2>1. ASSUME NEW m \in gone PROVE LosesOnly(m)
      BY <1>2, LosingRevisions DEF LosesOnly
    <2>2. ASSUME NEW m \in MeasureIds \ gone PROVE LosesOnly(m)
      BY <1>3 DEF LosesOnly
    <2> QED BY <2>1, <2>2
  <1>5. ColumnsInv'
    <2> SUFFICES ASSUME NEW m \in KeptMeasures'
                 PROVE  measures'[m].point = NotThere <=> measures'[m].origin = NotThere
      BY DEF ColumnsInv
    <2>1. CASE m \in gone
      BY <1>2, <2>1
    <2>2. CASE m \notin gone
      BY <1>3, <2>2 DEF ColumnsInv, KeptMeasures
    <2> QED BY <2>1, <2>2
  <1> QED BY <1>4, <1>5

(* A revision that rewrites every measure, each from its own columns.      *)
LEMMA ColumnsRewritten ==
  ASSUME ColumnsInv, revision \in Nat, revision' \in Nat,
         \A m \in MeasureIds : measures'[m] # NotThere => measures[m] # NotThere,
         \A m \in KeptMeasures :
            /\ measures'[m].point = measures[m].point
            /\ measures'[m].origin = measures[m].origin
            /\ measures'[m].flags # measures[m].flags =>
                  revision = 1 /\ revision' = 0 /\ measures'[m].flags = "none"
            /\ measures'[m].exemplar # measures[m].exemplar =>
                  revision = 2 /\ revision' = 3 /\ measures'[m].exemplar = NotThere
            /\ measures'[m].exemplar # NotThere => revision' <= 2
            /\ measures'[m].flags # "none" => revision' >= 1
  PROVE  ColumnsInv' /\ \A m \in MeasureIds : LosesOnly(m)
  <1>1. KeptMeasures' \subseteq KeptMeasures
    BY DEF KeptMeasures
  <1>2. ColumnsInv'
    BY <1>1 DEF ColumnsInv
  <1>3. \A m \in MeasureIds : LosesOnly(m)
    BY LosingRevisions DEF LosesOnly, KeptMeasures
  <1> QED BY <1>2, <1>3

LEMMA ColumnsEmptied ==
  ASSUME PointsInv, ColumnsInv, revision = 1, revision' = 0, pointRows = {}, DropNewColumns
  PROVE  ColumnsInv' /\ \A m \in MeasureIds : LosesOnly(m)
  <1>1. ASSUME NEW m \in KeptMeasures
        PROVE  /\ measures'[m].point = measures[m].point
               /\ measures'[m].origin = measures[m].origin
               /\ measures'[m].exemplar = measures[m].exemplar /\ measures'[m].flags = "none"
    <2>1. PICK row \in MeasureRows : row = measures[m]
      BY DEF PointsInv, KeptMeasures
    <2>2. PICK after : after = [row EXCEPT !.point = NotThere, !.origin = NotThere, !.flags = "none"]
      OBVIOUS
    <2>3. /\ after.point = NotThere /\ after.origin = NotThere
          /\ after.exemplar = row.exemplar /\ after.flags = "none"
      BY <2>2 DEF MeasureRows
    <2>4. measures'[m] = after
      BY <2>1, <2>2 DEF DropNewColumns, KeptMeasures
    <2>5. measures[m].point = NotThere /\ measures[m].origin = NotThere
      BY DEF PointsInv, ColumnsInv
    <2> QED BY <2>1, <2>3, <2>4, <2>5
  <1>2. \A m \in MeasureIds : measures'[m] # NotThere => measures[m] # NotThere
    BY DEF DropNewColumns, KeptMeasures
  <1>3. \A m \in KeptMeasures :
            /\ measures'[m].point = measures[m].point
            /\ measures'[m].origin = measures[m].origin
            /\ measures'[m].flags # measures[m].flags =>
                  revision = 1 /\ revision' = 0 /\ measures'[m].flags = "none"
            /\ measures'[m].exemplar # measures[m].exemplar =>
                  revision = 2 /\ revision' = 3 /\ measures'[m].exemplar = NotThere
            /\ measures'[m].exemplar # NotThere => revision' <= 2
            /\ measures'[m].flags # "none" => revision' >= 1
    BY <1>1 DEF ColumnsInv
  <1> QED BY <1>2, <1>3, ColumnsRewritten

LEMMA ColumnsContracted ==
  ASSUME PointsInv, ColumnsInv, revision = 2, revision' = 3, DropLegacyColumns
  PROVE  ColumnsInv' /\ \A m \in MeasureIds : LosesOnly(m)
  <1>1. ASSUME NEW m \in KeptMeasures
        PROVE  /\ measures'[m].point = measures[m].point
               /\ measures'[m].origin = measures[m].origin
               /\ measures'[m].exemplar = NotThere /\ measures'[m].flags = measures[m].flags
    <2>1. PICK row \in MeasureRows : row = measures[m]
      BY DEF PointsInv, KeptMeasures
    <2>2. PICK after : after = [row EXCEPT !.name = NotThere, !.unit = NotThere,
                                           !.exemplar = NotThere]
      OBVIOUS
    <2>3. /\ after.point = row.point /\ after.origin = row.origin
          /\ after.exemplar = NotThere /\ after.flags = row.flags
      BY <2>2 DEF MeasureRows
    <2>4. measures'[m] = after
      BY <2>1, <2>2 DEF DropLegacyColumns, KeptMeasures
    <2> QED BY <2>1, <2>3, <2>4
  <1>2. \A m \in MeasureIds : measures'[m] # NotThere => measures[m] # NotThere
    BY DEF DropLegacyColumns, KeptMeasures
  <1>3. \A m \in KeptMeasures :
            /\ measures'[m].point = measures[m].point
            /\ measures'[m].origin = measures[m].origin
            /\ measures'[m].flags # measures[m].flags =>
                  revision = 1 /\ revision' = 0 /\ measures'[m].flags = "none"
            /\ measures'[m].exemplar # measures[m].exemplar =>
                  revision = 2 /\ revision' = 3 /\ measures'[m].exemplar = NotThere
            /\ measures'[m].exemplar # NotThere => revision' <= 2
            /\ measures'[m].flags # "none" => revision' >= 1
    BY <1>1 DEF ColumnsInv
  <1> QED BY <1>2, <1>3, ColumnsRewritten

LEMMA ColumnsRebuilt ==
  ASSUME PointsInv, ColumnsInv, revision = 3, revision' = 2, RebuildLegacyColumns
  PROVE  ColumnsInv' /\ \A m \in MeasureIds : LosesOnly(m)
  <1>1. ASSUME NEW m \in KeptMeasures
        PROVE  /\ measures'[m].point = measures[m].point
               /\ measures'[m].origin = measures[m].origin
               /\ measures'[m].exemplar = measures[m].exemplar
               /\ measures'[m].flags = measures[m].flags
    <2>1. PICK row \in MeasureRows : row = measures[m]
      BY DEF PointsInv, KeptMeasures
    <2>2. PICK p : p = RowOfPoint(measures[m].point)
      OBVIOUS
    <2>3. PICK after : after = [row EXCEPT !.name = p.name, !.unit = p.unit]
      OBVIOUS
    <2>4. /\ after.point = row.point /\ after.origin = row.origin
          /\ after.exemplar = row.exemplar /\ after.flags = row.flags
      BY <2>3 DEF MeasureRows
    <2>5. measures'[m] = after
      BY <2>1, <2>2, <2>3 DEF RebuildLegacyColumns, KeptMeasures
    <2> QED BY <2>1, <2>4, <2>5
  <1>2. \A m \in MeasureIds : measures'[m] # NotThere => measures[m] # NotThere
    BY DEF RebuildLegacyColumns, KeptMeasures
  <1>3. \A m \in KeptMeasures :
            /\ measures'[m].point = measures[m].point
            /\ measures'[m].origin = measures[m].origin
            /\ measures'[m].flags # measures[m].flags =>
                  revision = 1 /\ revision' = 0 /\ measures'[m].flags = "none"
            /\ measures'[m].exemplar # measures[m].exemplar =>
                  revision = 2 /\ revision' = 3 /\ measures'[m].exemplar = NotThere
            /\ measures'[m].exemplar # NotThere => revision' <= 2
            /\ measures'[m].flags # "none" => revision' >= 1
    BY <1>1 DEF ColumnsInv
  <1> QED BY <1>2, <1>3, ColumnsRewritten

LEMMA ColumnsWritten ==
  ASSUME PointsInv, ColumnsInv, revision = 10, revision' = 10, NEW m \in MeasureIds,
         MeasureArrives(m)
  PROVE  ColumnsInv'
  <1>1. PICK p \in pointRows, t \in MeasureDates,
             o \in {"measured", "manual"}, f \in {"none", "out_of_range"} :
           /\ \A n \in KeptMeasures : measures[n].at = t => measures[n].point # p.code
           /\ measures' = [measures EXCEPT ![m] =
                 [at |-> t, name |-> NotThere, unit |-> NotThere, point |-> p.code,
                  exemplar |-> NotThere, source |-> "edge", origin |-> o, flags |-> f]]
    BY DEF MeasureArrives
  <1>2. p.code # NotThere /\ o # NotThere
    BY MigrationAssumption DEF PointsInv, RegisteredRows
  <1>3. /\ measures'[m].point = p.code /\ measures'[m].origin = o
        /\ measures'[m].exemplar = NotThere
        /\ \A n \in MeasureIds : n # m => measures'[n] = measures[n]
    BY <1>1 DEF PointsInv
  <1>4. \A n \in KeptMeasures' : n \in KeptMeasures \/ n = m
    BY <1>3 DEF KeptMeasures
  <1> QED BY <1>2, <1>3, <1>4 DEF ColumnsInv, KeptMeasures

-----------------------------------------------------------------------------
(* The unit: its state, once it has one, is what its assignments tell,     *)
(* until the application traces its life cycle.                            *)
UnitInv ==
    /\ unitRow \in [occupies : BOOLEAN, state : UnitStates \cup {NotThere}, traced : BOOLEAN]
    /\ ~ unitRow.traced /\ unitRow.state # NotThere => unitRow.state = StateTold
    /\ revision >= 6 => unitRow.state # NotThere

LEMMA UnitStill ==
  ASSUME UnitInv, UNCHANGED unitRow, revision' >= 6 => revision >= 6 \/ unitRow.state # NotThere
  PROVE  UnitInv' /\ UnitTells' = UnitTells
  BY DEF UnitInv, StateTold, UnitTells

LEMMA UnitBackfilled ==
  ASSUME UnitInv, BackfillLifecycle
  PROVE  UnitInv' /\ UnitTells' = UnitTells
  <1>1. PICK row \in [occupies : BOOLEAN, state : UnitStates \cup {NotThere}, traced : BOOLEAN] :
           row = unitRow
    BY DEF UnitInv
  <1>2. PICK state : state = IF row.state = NotThere THEN StateTold ELSE row.state
    OBVIOUS
  <1>3. state \in UnitStates
    BY <1>1, <1>2 DEF StateTold, UnitStates
  <1>4. unitRow' = [row EXCEPT !.state = state]
    BY <1>1, <1>2 DEF BackfillLifecycle
  <1>5. /\ unitRow'.state = state /\ unitRow'.occupies = row.occupies
        /\ unitRow'.traced = row.traced
        /\ unitRow' \in [occupies : BOOLEAN, state : UnitStates \cup {NotThere}, traced : BOOLEAN]
    BY <1>3, <1>4
  <1>6. StateTold' = StateTold
    BY <1>1, <1>5 DEF StateTold
  <1>7. state # NotThere
    BY <1>3, MigrationAssumption
  <1> QED BY <1>1, <1>2, <1>5, <1>6, <1>7 DEF UnitInv, UnitTells

LEMMA UnitEmptied ==
  ASSUME UnitInv, ~ unitRow.traced, unitRow' = [unitRow EXCEPT !.state = NotThere],
         ~ (revision' >= 6)
  PROVE  UnitInv' /\ UnitTells' = UnitTells
  <1>1. PICK row \in [occupies : BOOLEAN, state : UnitStates \cup {NotThere}, traced : BOOLEAN] :
           row = unitRow
    BY DEF UnitInv
  <1>2. /\ unitRow'.state = NotThere /\ unitRow'.occupies = row.occupies
        /\ unitRow' \in [occupies : BOOLEAN, state : UnitStates \cup {NotThere}, traced : BOOLEAN]
    BY <1>1
  <1>3. StateTold' = StateTold
    BY <1>1, <1>2 DEF StateTold
  <1> QED BY <1>2, <1>3 DEF UnitInv, UnitTells

LEMMA UnitMoved ==
  ASSUME UnitInv, UnitMoves
  PROVE  UnitInv'
  <1>1. PICK installed \in BOOLEAN :
           unitRow' = [occupies |-> installed, traced |-> TRUE,
                       state |-> IF installed THEN "installed" ELSE "removed"]
    BY DEF UnitMoves
  <1>2. PICK state : state = IF installed THEN "installed" ELSE "removed"
    OBVIOUS
  <1>3. state \in UnitStates /\ state # NotThere
    BY <1>2, MigrationAssumption DEF UnitStates
  <1>4. unitRow' = [occupies |-> installed, traced |-> TRUE, state |-> state]
    BY <1>1, <1>2
  <1>5. /\ unitRow' \in [occupies : BOOLEAN, state : UnitStates \cup {NotThere}, traced : BOOLEAN]
        /\ unitRow'.traced = TRUE /\ unitRow'.state = state
    BY <1>3, <1>4
  <1> QED BY <1>3, <1>5 DEF UnitInv

-----------------------------------------------------------------------------
(* The signals: while the status is there it is what the axes tell; and    *)
(* the axes of a row that the application has not changed are those that   *)
(* its status tells.                                                       *)
SignalSound(row, r) ==
    /\ row \in SignalRows
    /\ r = 10 => row.status = NotThere
    /\ r # 10 => row.status \in OldStatuses(row.kind)
    /\ r >= 9 => row.axes # NotThere
    /\ row.axes # NotThere =>
          /\ r # 10 => row.status = StatusOf(row)
          /\ ~ row.traced => row.axes = AxesOf([row EXCEPT !.status = StatusOf(row)])
SignalsInv ==
    /\ signals \in [SignalIds -> SignalRows \cup {NotThere}]
    /\ \A s \in KeptSignals : SignalSound(signals[s], revision)

(* What a signal tells, of its row.                                        *)
SignalTold(row) == <<IF row.axes = NotThere THEN AxesOf(row) ELSE row.axes, row.major, row.confirmed>>

(* What the two conversions read.                                          *)
LEMMA AxesOfReads ==
  ASSUME NEW row, NEW row2, row.status = row2.status
  PROVE  AxesOf(row) = AxesOf(row2)
  BY DEF AxesOf
LEMMA StatusOfReads ==
  ASSUME NEW row, NEW row2, row.axes = row2.axes, row.kind = row2.kind
  PROVE  StatusOf(row) = StatusOf(row2)
  BY DEF StatusOf

LEMMA NoSuchSignal == NotThere \notin SignalRows
  BY MigrationAssumption

LEMMA SignalField ==
  ASSUME NEW row \in SignalRows, NEW word \in OldStatuses("finding") \cup {NotThere},
         NEW axes \in SignalAxes \cup {NotThere}
  PROVE  /\ [row EXCEPT !.status = word] \in SignalRows
         /\ [row EXCEPT !.axes = axes] \in SignalRows
         /\ [row EXCEPT !.axes = axes, !.traced = TRUE] \in SignalRows
         /\ [row EXCEPT !.confirmed = TRUE, !.traced = TRUE] \in SignalRows
  BY DEF SignalRows

LEMMA AxesOfRange ==
  ASSUME NEW row
  PROVE  AxesOf(row) \in SignalAxes
  BY DEF AxesOf, AxesFrom, SignalAxes

LEMMA StatusOfRange ==
  ASSUME NEW row \in SignalRows, row.axes # NotThere
  PROVE  StatusOf(row) \in OldStatuses(row.kind)
  BY DEF StatusOf, OldStatuses, SignalRows, SignalAxes

(* The status that the axes of a status tell is that status.               *)
LEMMA RoundTrip ==
  ASSUME NEW row \in SignalRows, row.status \in OldStatuses(row.kind), row.axes = AxesOf(row)
  PROVE  StatusOf(row) = row.status
  BY DEF StatusOf, OldStatuses, SignalRows, AxesOf, AxesFrom

(* A migration that rewrites each row without changing what it tells.      *)
LEMMA SignalsRewritten ==
  ASSUME SignalsInv, signals' \in [SignalIds -> SignalRows \cup {NotThere}],
         \A s \in SignalIds : signals[s] = NotThere => signals'[s] = NotThere,
         \A s \in KeptSignals : /\ signals'[s] # NotThere
                               /\ SignalSound(signals'[s], revision')
                               /\ SignalTold(signals'[s]) = SignalTold(signals[s])
  PROVE  SignalsInv' /\ \A s \in SignalIds : SignalTells(s)' = SignalTells(s)
  <1>1. KeptSignals' = KeptSignals
    BY DEF KeptSignals
  <1>2. SignalsInv'
    BY <1>1 DEF SignalsInv
  <1>3. ASSUME NEW s \in SignalIds PROVE SignalTells(s)' = SignalTells(s)
    <2>1. CASE s \in KeptSignals
      <3>1. signals[s] # NotThere /\ signals'[s] # NotThere /\ SignalTold(signals'[s]) = SignalTold(signals[s])
        BY <2>1 DEF KeptSignals
      <3>2. SignalTells(s) = SignalTold(signals[s])
        BY <3>1 DEF SignalTells, SignalTold
      <3>3. SignalTells(s)' = SignalTold(signals'[s])
        BY <3>1 DEF SignalTells, SignalTold
      <3> QED BY <3>1, <3>2, <3>3
    <2>2. CASE s \notin KeptSignals
      BY <2>2 DEF SignalTells, KeptSignals
    <2> QED BY <2>1, <2>2
  <1> QED BY <1>2, <1>3

LEMMA SignalsStill ==
  ASSUME SignalsInv, UNCHANGED signals, revision \in Nat, revision' \in Nat,
         (revision' = 10) <=> (revision = 10), revision' >= 9 => revision >= 9
  PROVE  SignalsInv' /\ \A s \in SignalIds : SignalTells(s)' = SignalTells(s)
  <1>1. \A s \in KeptSignals : SignalSound(signals[s], revision')
    BY DEF SignalsInv, SignalSound
  <1>2. signals' = signals /\ \A s \in KeptSignals : signals[s] # NotThere
    BY DEF KeptSignals
  <1> QED BY <1>1, <1>2, SignalsRewritten DEF SignalsInv

LEMMA SignalsFilled ==
  ASSUME SignalsInv, revision = 8, revision' = 9, FillAxes
  PROVE  SignalsInv' /\ \A s \in SignalIds : SignalTells(s)' = SignalTells(s)
  <1>1. ASSUME NEW s \in KeptSignals
        PROVE  /\ signals'[s] \in SignalRows /\ signals'[s] # NotThere
               /\ SignalSound(signals'[s], revision') /\ SignalTold(signals'[s]) = SignalTold(signals[s])
    <2>1. PICK row \in SignalRows : row = signals[s] /\ SignalSound(row, 8) /\ row # NotThere
      BY MigrationAssumption DEF SignalsInv, SignalSound, KeptSignals
    <2>2. CASE row.axes # NotThere
      <3>1. signals'[s] = row
        BY <2>1, <2>2 DEF FillAxes, KeptSignals
      <3> QED BY <2>1, <2>2, <3>1 DEF SignalSound
    <2>3. CASE row.axes = NotThere
      <3>1. PICK axes \in SignalAxes : axes = AxesOf(row)
        BY AxesOfRange
      <3>2. PICK after : after = [row EXCEPT !.axes = axes]
        OBVIOUS
      <3>3. signals'[s] = after
        BY <2>1, <2>3, <3>1, <3>2 DEF FillAxes, KeptSignals
      <3>4. after \in SignalRows
        BY <3>2, SignalField
      <3>5. /\ after.axes = axes /\ after.status = row.status /\ after.kind = row.kind
            /\ after.major = row.major /\ after.confirmed = row.confirmed
        BY <3>2 DEF SignalRows
      <3>6. AxesOf(after) = axes /\ row.status \in OldStatuses(row.kind)
        BY <2>1, <3>1, <3>5, AxesOfReads DEF SignalSound
      <3>7. StatusOf(after) = after.status
        BY <3>4, <3>5, <3>6, RoundTrip
      <3>8. [after EXCEPT !.status = StatusOf(after)].status = after.status
        BY <3>4, <3>7 DEF SignalRows
      <3>9. AxesOf([after EXCEPT !.status = StatusOf(after)]) = axes
        BY <3>6, <3>8, AxesOfReads
      <3>10. axes # NotThere /\ after # NotThere
        BY <3>4, MigrationAssumption
      <3>11. SignalSound(after, 9)
        BY <3>4, <3>5, <3>6, <3>7, <3>9, <3>10 DEF SignalSound
      <3>12. SignalTold(after) = SignalTold(row)
        BY <2>3, <3>1, <3>5, <3>10 DEF SignalTold
      <3> QED BY <2>1, <3>3, <3>4, <3>10, <3>11, <3>12
    <2> QED BY <2>2, <2>3
  <1>2. \A s \in SignalIds : signals[s] = NotThere => signals'[s] = NotThere
    BY DEF FillAxes, KeptSignals
  <1>3. signals' \in [SignalIds -> SignalRows \cup {NotThere}]
    BY <1>1, <1>2 DEF FillAxes, KeptSignals
  <1> QED BY <1>1, <1>2, <1>3, SignalsRewritten

LEMMA SignalsDropped ==
  ASSUME SignalsInv, revision = 9, revision' = 10, DropStatus
  PROVE  SignalsInv' /\ \A s \in SignalIds : SignalTells(s)' = SignalTells(s)
  <1>1. ASSUME NEW s \in KeptSignals
        PROVE  /\ signals'[s] \in SignalRows /\ signals'[s] # NotThere
               /\ SignalSound(signals'[s], revision') /\ SignalTold(signals'[s]) = SignalTold(signals[s])
    <2>1. PICK row \in SignalRows : row = signals[s] /\ SignalSound(row, 9)
      BY DEF SignalsInv, SignalSound, KeptSignals
    <2>2. PICK after : after = [row EXCEPT !.status = NotThere]
      OBVIOUS
    <2>3. signals'[s] = after
      BY <2>1, <2>2 DEF DropStatus, KeptSignals
    <2>4. after \in SignalRows /\ after # NotThere
      BY <2>2, SignalField, NoSuchSignal
    <2>5. /\ after.axes = row.axes /\ after.status = NotThere /\ after.kind = row.kind
          /\ after.major = row.major /\ after.confirmed = row.confirmed
          /\ row.axes # NotThere
      BY <2>1, <2>2 DEF SignalRows, SignalSound
    <2>6. after.traced = row.traced
      BY <2>2 DEF SignalRows
    <2>7. StatusOf(after) = StatusOf(row)
      BY <2>5, StatusOfReads
    <2>8. [after EXCEPT !.status = StatusOf(after)].status = StatusOf(row)
          /\ [row EXCEPT !.status = StatusOf(row)].status = StatusOf(row)
      BY <2>4, <2>7 DEF SignalRows
    <2>9. AxesOf([after EXCEPT !.status = StatusOf(after)]) = AxesOf([row EXCEPT !.status = StatusOf(row)])
      BY <2>8, AxesOfReads
    <2>10. SignalSound(after, 10)
      BY <2>1, <2>4, <2>5, <2>6, <2>9 DEF SignalSound
    <2>11. SignalTold(after) = SignalTold(row)
      BY <2>5 DEF SignalTold
    <2> QED BY <2>1, <2>3, <2>4, <2>10, <2>11
  <1>2. \A s \in SignalIds : signals[s] = NotThere => signals'[s] = NotThere
    BY DEF DropStatus, KeptSignals
  <1>3. signals' \in [SignalIds -> SignalRows \cup {NotThere}]
    BY <1>1, <1>2 DEF DropStatus, KeptSignals
  <1> QED BY <1>1, <1>2, <1>3, SignalsRewritten

LEMMA SignalsRestored ==
  ASSUME SignalsInv, revision = 10, revision' = 9, RestoreStatus
  PROVE  SignalsInv' /\ \A s \in SignalIds : SignalTells(s)' = SignalTells(s)
  <1>1. ASSUME NEW s \in KeptSignals
        PROVE  /\ signals'[s] \in SignalRows /\ signals'[s] # NotThere
               /\ SignalSound(signals'[s], revision') /\ SignalTold(signals'[s]) = SignalTold(signals[s])
    <2>1. PICK row \in SignalRows : row = signals[s] /\ SignalSound(row, 10)
      BY DEF SignalsInv, SignalSound, KeptSignals
    <2>2. PICK word : word = StatusOf(row)
      OBVIOUS
    <2>3. row.axes # NotThere /\ word \in OldStatuses(row.kind)
          /\ word \in OldStatuses("finding") \cup {NotThere}
      BY <2>1, <2>2, StatusOfRange DEF SignalSound, OldStatuses
    <2>4. PICK after : after = [row EXCEPT !.status = word]
      OBVIOUS
    <2>5. signals'[s] = after
      BY <2>1, <2>2, <2>4 DEF RestoreStatus, KeptSignals
    <2>6. after \in SignalRows /\ after # NotThere
      BY <2>3, <2>4, SignalField, MigrationAssumption
    <2>7. /\ after.axes = row.axes /\ after.status = word /\ after.kind = row.kind
          /\ after.major = row.major /\ after.confirmed = row.confirmed
      BY <2>4 DEF SignalRows
    <2>8. after.traced = row.traced
      BY <2>4 DEF SignalRows
    <2>9. StatusOf(after) = word
      BY <2>2, <2>7, StatusOfReads
    <2>10. [after EXCEPT !.status = StatusOf(after)].status = word
           /\ [row EXCEPT !.status = StatusOf(row)].status = word
      BY <2>2, <2>6, <2>9 DEF SignalRows
    <2>11. AxesOf([after EXCEPT !.status = StatusOf(after)]) = AxesOf([row EXCEPT !.status = StatusOf(row)])
      BY <2>10, AxesOfReads
    <2>12. SignalSound(after, 9)
      BY <2>1, <2>3, <2>6, <2>7, <2>8, <2>9, <2>11 DEF SignalSound
    <2>13. SignalTold(after) = SignalTold(row)
      BY <2>3, <2>7 DEF SignalTold
    <2> QED BY <2>1, <2>5, <2>6, <2>12, <2>13
  <1>2. \A s \in SignalIds : signals[s] = NotThere => signals'[s] = NotThere
    BY DEF RestoreStatus, KeptSignals
  <1>3. signals' \in [SignalIds -> SignalRows \cup {NotThere}]
    BY <1>1, <1>2 DEF RestoreStatus, KeptSignals
  <1> QED BY <1>1, <1>2, <1>3, SignalsRewritten

LEMMA SignalsEmptied ==
  ASSUME SignalsInv, revision = 8, revision' = 7, DropAxes
  PROVE  SignalsInv' /\ \A s \in SignalIds : SignalTells(s)' = SignalTells(s)
  <1>1. ASSUME NEW s \in KeptSignals
        PROVE  /\ signals'[s] \in SignalRows /\ signals'[s] # NotThere
               /\ SignalSound(signals'[s], revision') /\ SignalTold(signals'[s]) = SignalTold(signals[s])
    <2>1. PICK row \in SignalRows : row = signals[s] /\ SignalSound(row, 8) /\ ~ row.traced
      BY DEF SignalsInv, SignalSound, KeptSignals, DropAxes, NothingNew
    <2>2. PICK after : after = [row EXCEPT !.axes = NotThere]
      OBVIOUS
    <2>3. signals'[s] = after
      BY <2>1, <2>2 DEF DropAxes, KeptSignals
    <2>4. after \in SignalRows /\ after # NotThere
      BY <2>2, SignalField, NoSuchSignal
    <2>5. /\ after.axes = NotThere /\ after.status = row.status /\ after.kind = row.kind
          /\ after.major = row.major /\ after.confirmed = row.confirmed
      BY <2>2 DEF SignalRows
    <2>6. SignalSound(after, 7)
      BY <2>1, <2>4, <2>5 DEF SignalSound
    <2>7. row.axes # NotThere => AxesOf(row) = row.axes
      <3> SUFFICES ASSUME row.axes # NotThere PROVE AxesOf(row) = row.axes
        OBVIOUS
      <3>1. row.status = StatusOf(row) /\ row.axes = AxesOf([row EXCEPT !.status = StatusOf(row)])
        BY <2>1 DEF SignalSound
      <3>2. [row EXCEPT !.status = StatusOf(row)].status = row.status
        BY <3>1 DEF SignalRows
      <3> QED BY <3>1, <3>2, AxesOfReads
    <2>8. AxesOf(after) = AxesOf(row)
      BY <2>5, AxesOfReads
    <2>9. SignalTold(after) = SignalTold(row)
      BY <2>5, <2>7, <2>8 DEF SignalTold
    <2> QED BY <2>1, <2>3, <2>4, <2>6, <2>9
  <1>2. \A s \in SignalIds : signals[s] = NotThere => signals'[s] = NotThere
    BY DEF DropAxes, KeptSignals
  <1>3. signals' \in [SignalIds -> SignalRows \cup {NotThere}]
    BY <1>1, <1>2 DEF DropAxes, KeptSignals
  <1> QED BY <1>1, <1>2, <1>3, SignalsRewritten

LEMMA SignalWritten ==
  ASSUME SignalsInv, revision = 10, revision' = 10, NEW s \in SignalIds, SignalChanges(s)
  PROVE  SignalsInv'
  <1>1. ASSUME NEW row \in SignalRows, row.status = NotThere, row.axes # NotThere, row.traced = TRUE,
               signals' = [signals EXCEPT ![s] = row]
        PROVE  SignalsInv'
    <2>1. SignalSound(row, 10)
      BY <1>1 DEF SignalSound
    <2> QED BY <1>1, <2>1 DEF SignalsInv, KeptSignals
  <1>2. ASSUME NEW kind \in {"finding", "alarm"}, NEW major \in BOOLEAN, NEW titled \in BOOLEAN,
               signals' = [signals EXCEPT ![s] =
                   [SignalRow(kind, NotThere, AxesFrom("active", "unacknowledged", "open"))
                    EXCEPT !.major = major, !.titled = titled, !.traced = TRUE]]
        PROVE  SignalsInv'
    <2>1. PICK axes \in SignalAxes : axes = AxesFrom("active", "unacknowledged", "open")
      BY DEF SignalAxes, AxesFrom
    <2>2. PICK base : base = SignalRow(kind, NotThere, axes)
      OBVIOUS
    <2>3. base \in SignalRows /\ base.status = NotThere /\ base.axes = axes
      BY <2>2 DEF SignalRow, SignalRows
    <2>4. PICK row : row = [base EXCEPT !.major = major, !.titled = titled, !.traced = TRUE]
      OBVIOUS
    <2>5. row \in SignalRows /\ row.status = NotThere /\ row.axes = axes /\ row.traced = TRUE
      BY <2>3, <2>4 DEF SignalRows
    <2> QED BY <1>1, <1>2, <2>1, <2>2, <2>4, <2>5, MigrationAssumption
  <1>3. ASSUME signals[s] # NotThere, NEW axes \in SignalAxes,
               signals' = [signals EXCEPT ![s].axes = axes, ![s].traced = TRUE]
        PROVE  SignalsInv'
    <2>1. PICK row \in SignalRows : row = signals[s] /\ SignalSound(row, 10)
      BY <1>3 DEF SignalsInv, SignalSound, KeptSignals
    <2>2. PICK after : after = [row EXCEPT !.axes = axes, !.traced = TRUE]
      OBVIOUS
    <2>3. signals' = [signals EXCEPT ![s] = after]
      BY <1>3, <2>1, <2>2 DEF SignalsInv
    <2>4. after \in SignalRows
      BY <2>2, SignalField
    <2>5. after.status = NotThere /\ after.axes = axes /\ after.traced = TRUE
      BY <2>1, <2>2 DEF SignalRows, SignalSound
    <2> QED BY <1>1, <2>3, <2>4, <2>5, MigrationAssumption
  <1>4. ASSUME signals[s] # NotThere,
               signals' = [signals EXCEPT ![s].confirmed = TRUE, ![s].traced = TRUE]
        PROVE  SignalsInv'
    <2>1. PICK row \in SignalRows : row = signals[s] /\ SignalSound(row, 10)
      BY <1>4 DEF SignalsInv, SignalSound, KeptSignals
    <2>2. PICK after : after = [row EXCEPT !.confirmed = TRUE, !.traced = TRUE]
      OBVIOUS
    <2>3. signals' = [signals EXCEPT ![s] = after]
      BY <1>4, <2>1, <2>2 DEF SignalsInv
    <2>4. after \in SignalRows
      BY <2>2, SignalField
    <2>5. after.status = NotThere /\ after.axes # NotThere /\ after.traced = TRUE
      BY <2>1, <2>2 DEF SignalRows, SignalSound
    <2> QED BY <1>1, <2>3, <2>4, <2>5
  <1> QED BY <1>2, <1>3, <1>4 DEF SignalChanges

-----------------------------------------------------------------------------
MigrationInv ==
    /\ revision \in 0..LastRevision /\ appWrites \in 0..MaxWrites
    /\ PointsInv /\ ColumnsInv /\ UnitInv /\ SignalsInv

LEMMA MigrationInitInv == MigrationInit => MigrationInv
  <1> SUFFICES ASSUME MigrationInit PROVE MigrationInv
    OBVIOUS
  <1>1. pointRows = {} /\ appWrites = 0 /\ LastRevision = 10
    BY RevisionsAre DEF MigrationInit
  <1>2. CASE /\ revision = 0 /\ measures \in [MeasureIds -> OldMeasures \cup {NotThere}]
             /\ unitRow = [UnitAtRest EXCEPT !.state = NotThere] /\ signals = NoSignals
    <2>1. OldMeasures \subseteq MeasureRows
      BY DEF OldMeasures, MeasureRows, LegacyUnits
    <2>2. \A m \in KeptMeasures : measures[m] \in OldMeasures
      BY <1>2 DEF KeptMeasures
    <2>3. PointsInv
      BY <1>1, <1>2, <2>1, <2>2 DEF PointsInv, Orphans, KeptMeasures, OldMeasures, LegacyUnits
    <2>4. UnitInv
      <3>1. unitRow = [occupies |-> FALSE, state |-> NotThere, traced |-> FALSE]
        BY <1>2 DEF UnitAtRest
      <3>2. /\ unitRow \in [occupies : BOOLEAN, state : UnitStates \cup {NotThere}, traced : BOOLEAN]
            /\ unitRow.state = NotThere
        BY <3>1
      <3> QED BY <1>2, <3>2 DEF UnitInv
    <2>5. SignalsInv
      BY <1>2 DEF SignalsInv, NoSignals, KeptSignals
    <2>6. ColumnsInv
      BY <1>2, <2>2 DEF ColumnsInv, OldMeasures
    <2> QED BY <1>1, <1>2, <2>3, <2>4, <2>5, <2>6, MigrationAssumption DEF MigrationInv
  <1>3. CASE /\ revision = 4 /\ unitRow \in [occupies : BOOLEAN, state : {NotThere}, traced : {FALSE}]
             /\ measures = NoMeasures /\ signals = NoSignals
    <2>1. PointsInv
      BY <1>1, <1>3 DEF PointsInv, PointsRequired, Orphans, KeptMeasures, NoMeasures
    <2>2. UnitInv
      <3>1. /\ unitRow \in [occupies : BOOLEAN, state : UnitStates \cup {NotThere}, traced : BOOLEAN]
            /\ unitRow.state = NotThere
        BY <1>3
      <3> QED BY <1>3, <3>1 DEF UnitInv
    <2>3. SignalsInv
      BY <1>3 DEF SignalsInv, NoSignals, KeptSignals
    <2>5. ColumnsInv
      BY <1>3 DEF ColumnsInv, KeptMeasures, NoMeasures
    <2> QED BY <1>1, <1>3, <2>1, <2>2, <2>3, <2>5, MigrationAssumption DEF MigrationInv
  <1>4. CASE /\ revision = 7 /\ signals \in [SignalIds -> OldSignals \cup {NotThere}]
             /\ measures = NoMeasures /\ unitRow = UnitAtRest
    <2>1. PointsInv
      BY <1>1, <1>4 DEF PointsInv, PointsRequired, Orphans, KeptMeasures, NoMeasures
    <2>2. UnitInv
      BY <1>4, MigrationAssumption DEF UnitInv, UnitAtRest, StateTold, UnitStates
    <2>3. \A row \in OldSignals : SignalSound(row, 7)
      <3>1. ASSUME NEW kind \in {"finding", "alarm"}, NEW word \in OldStatuses(kind)
            PROVE  SignalSound(SignalRow(kind, word, NotThere), 7)
        BY DEF SignalRow, SignalSound, SignalRows, OldStatuses
      <3> QED BY <3>1 DEF OldSignals
    <2>4. SignalsInv
      BY <1>4, <2>3 DEF SignalsInv, KeptSignals, SignalSound
    <2>5. ColumnsInv
      BY <1>4 DEF ColumnsInv, KeptMeasures, NoMeasures
    <2> QED BY <1>1, <1>4, <2>1, <2>2, <2>4, <2>5, MigrationAssumption DEF MigrationInv
  <1> QED BY <1>2, <1>3, <1>4, RevisionsAre DEF MigrationInit

(* The invariant is kept, and a migration changes nothing of what is told. *)
LEMMA MigrationStep ==
  MigrationInv /\ [MigrationNext]_migrationVars => MigrationInv' /\ MeaningKept
  <1> SUFFICES ASSUME MigrationInv, [MigrationNext]_migrationVars
               PROVE  MigrationInv' /\ MeaningKept
    OBVIOUS
  <1>0. /\ revision \in 0..10 /\ LastRevision = 10 /\ appWrites \in 0..MaxWrites /\ MaxWrites \in Nat
        /\ PointsInv /\ ColumnsInv /\ UnitInv /\ SignalsInv
    BY RevisionsAre, MigrationAssumption DEF MigrationInv
  <1>1. ASSUME revision' \in 0..10, appWrites' \in 0..MaxWrites,
               PointsInv' /\ \A m \in MeasureIds : MeasureTells(m)' = MeasureTells(m),
               ColumnsInv' /\ \A m \in MeasureIds : LosesOnly(m),
               UnitInv' /\ UnitTells' = UnitTells,
               SignalsInv' /\ \A s \in SignalIds : SignalTells(s)' = SignalTells(s)
        PROVE  MigrationInv' /\ MeaningKept
    <2>1. LastRevision' = 10
      BY <1>0 DEF LastRevision, Revisions
    <2> QED BY <1>1, <2>1 DEF MigrationInv, MeaningKept
  <1>2. ASSUME Upgrade PROVE MigrationInv' /\ MeaningKept
    <2>0. revision' = revision + 1 /\ appWrites' = appWrites
      BY <1>2 DEF Upgrade
    <2>1. CASE revision = 1 /\ AttachMeasurements /\ UNCHANGED <<unitRow, signals>>
      BY <1>0, <1>1, <2>0, <2>1, PointsAttached, ColumnsAttached, UnitStill, SignalsStill
    <2>2. CASE revision = 2 /\ DropLegacyColumns /\ UNCHANGED <<pointRows, unitRow, signals>>
      BY <1>0, <1>1, <2>0, <2>2, PointsContracted, ColumnsContracted, UnitStill, SignalsStill
    <2>3. CASE revision = 5 /\ BackfillLifecycle /\ UNCHANGED <<measures, pointRows, signals>>
      BY <1>0, <1>1, <2>0, <2>3, PointsStill, ColumnsStill, UnitBackfilled, SignalsStill
    <2>4. CASE /\ revision = 6 /\ unitRow.state # NotThere
               /\ UNCHANGED <<measures, pointRows, unitRow, signals>>
      BY <1>0, <1>1, <2>0, <2>4, PointsStill, ColumnsStill, UnitStill, SignalsStill
    <2>5. CASE revision = 8 /\ FillAxes /\ UNCHANGED <<measures, pointRows, unitRow>>
      BY <1>0, <1>1, <2>0, <2>5, PointsStill, ColumnsStill, UnitStill, SignalsFilled
    <2>6. CASE revision = 9 /\ DropStatus /\ UNCHANGED <<measures, pointRows, unitRow>>
      BY <1>0, <1>1, <2>0, <2>6, PointsStill, ColumnsStill, UnitStill, SignalsDropped
    <2>7. CASE /\ revision \in {0, 3, 4, 7}
               /\ UNCHANGED <<measures, pointRows, unitRow, signals>>
      BY <1>0, <1>1, <2>0, <2>7, PointsStill, ColumnsStill, UnitStill, SignalsStill
    <2> QED BY <1>0, <1>2, <2>1, <2>2, <2>3, <2>4, <2>5, <2>6, <2>7, WhereRevisionsAre DEF Upgrade
  <1>3. ASSUME Downgrade PROVE MigrationInv' /\ MeaningKept
    <2>0. revision' = revision - 1 /\ appWrites' = appWrites
      BY <1>3 DEF Downgrade
    <2>1. CASE revision = 2 /\ DetachMeasurements /\ UNCHANGED <<unitRow, signals>>
      BY <1>0, <1>1, <2>0, <2>1, PointsDetached, ColumnsDetached, UnitStill, SignalsStill
    <2>2. CASE revision = 3 /\ RebuildLegacyColumns /\ UNCHANGED <<pointRows, unitRow, signals>>
      BY <1>0, <1>1, <2>0, <2>2, PointsRebuilt, ColumnsRebuilt, UnitStill, SignalsStill
    <2>3. CASE /\ revision = 5 /\ ~ unitRow.traced /\ unitRow' = [unitRow EXCEPT !.state = NotThere]
               /\ UNCHANGED <<measures, pointRows, signals>>
      BY <1>0, <1>1, <2>0, <2>3, PointsStill, ColumnsStill, UnitEmptied, SignalsStill
    <2>4. CASE revision = 8 /\ DropAxes /\ UNCHANGED <<measures, pointRows, unitRow>>
      BY <1>0, <1>1, <2>0, <2>4, PointsStill, ColumnsStill, UnitStill, SignalsEmptied
    <2>5. CASE revision = 10 /\ RestoreStatus /\ UNCHANGED <<measures, pointRows, unitRow>>
      BY <1>0, <1>1, <2>0, <2>5, PointsStill, ColumnsStill, UnitStill, SignalsRestored
    <2>7. CASE /\ revision = 1 /\ pointRows = {} /\ DropNewColumns
               /\ UNCHANGED <<pointRows, unitRow, signals>>
      BY <1>0, <1>1, <2>0, <2>7, PointsEmptied, ColumnsEmptied, UnitStill, SignalsStill
    <2>6. CASE /\ revision \in {4, 6, 7, 9}
               /\ UNCHANGED <<measures, pointRows, unitRow, signals>>
      BY <1>0, <1>1, <2>0, <2>6, PointsStill, ColumnsStill, UnitStill, SignalsStill
    <2> QED BY <1>0, <1>3, <2>1, <2>2, <2>3, <2>4, <2>5, <2>6, <2>7, WhereRevisionsAre DEF Downgrade
  <1>4. ASSUME revision = 10, revision' = 10, appWrites' \in 0..MaxWrites,
               PointsInv', ColumnsInv', UnitInv', SignalsInv'
        PROVE  MigrationInv' /\ MeaningKept
    <2>1. LastRevision' = 10
      BY <1>0 DEF LastRevision, Revisions
    <2> QED BY <1>4, <2>1 DEF MigrationInv, MeaningKept
  <1>5. ASSUME NEW rows, Writing(rows)
        PROVE  revision = 10 /\ revision' = 10 /\ appWrites' \in 0..MaxWrites
    BY <1>0, <1>5 DEF Writing
  <1>6. CASE PointWritten
    <2>1. revision = 10 /\ revision' = 10 /\ appWrites' \in 0..MaxWrites
      BY <1>6, <1>5 DEF PointWritten
    <2>2. PointsInv'
      BY <1>0, <1>6, <2>1, PointsWritten DEF PointWritten
    <2>3. UnitInv'
      BY <1>0, <1>6, <2>1, UnitStill DEF PointWritten
    <2>4. SignalsInv'
      BY <1>0, <1>6, <2>1, SignalsStill DEF PointWritten
    <2>5. ColumnsInv'
      BY <1>0, <1>6, <2>1, ColumnsStill DEF PointWritten
    <2> QED BY <1>4, <2>1, <2>2, <2>3, <2>4, <2>5
  <1>7. CASE UnitMoves
    <2>1. revision = 10 /\ revision' = 10 /\ appWrites' \in 0..MaxWrites
      BY <1>7, <1>5 DEF UnitMoves
    <2>2. PointsInv'
      BY <1>0, <1>7, <2>1, PointsStill DEF UnitMoves
    <2>3. UnitInv'
      BY <1>0, <1>7, <2>1, UnitMoved DEF UnitMoves
    <2>4. SignalsInv'
      BY <1>0, <1>7, <2>1, SignalsStill DEF UnitMoves
    <2>5. ColumnsInv'
      BY <1>0, <1>7, <2>1, ColumnsStill DEF UnitMoves
    <2> QED BY <1>4, <2>1, <2>2, <2>3, <2>4, <2>5
  <1>8. CASE OtherRecorded
    <2>1. revision = 10 /\ revision' = 10 /\ appWrites' \in 0..MaxWrites
      BY <1>8, <1>5 DEF OtherRecorded
    <2>2. PointsInv'
      BY <1>0, <1>8, <2>1, PointsStill DEF OtherRecorded
    <2>3. UnitInv'
      BY <1>0, <1>8, <2>1, UnitStill DEF OtherRecorded
    <2>4. SignalsInv'
      BY <1>0, <1>8, <2>1, SignalsStill DEF OtherRecorded
    <2>5. ColumnsInv'
      BY <1>0, <1>8, <2>1, ColumnsStill DEF OtherRecorded
    <2> QED BY <1>4, <2>1, <2>2, <2>3, <2>4, <2>5
  <1>9. ASSUME NEW m \in MeasureIds, MeasureArrives(m) PROVE MigrationInv' /\ MeaningKept
    <2>1. revision = 10 /\ revision' = 10 /\ appWrites' \in 0..MaxWrites
      BY <1>9, <1>5 DEF MeasureArrives
    <2>2. PointsInv'
      BY <1>0, <1>9, <2>1, MeasureWritten DEF MeasureArrives
    <2>3. UnitInv'
      BY <1>0, <1>9, <2>1, UnitStill DEF MeasureArrives
    <2>4. SignalsInv'
      BY <1>0, <1>9, <2>1, SignalsStill DEF MeasureArrives
    <2>5. ColumnsInv'
      BY <1>0, <1>9, <2>1, ColumnsWritten DEF MeasureArrives
    <2> QED BY <1>4, <2>1, <2>2, <2>3, <2>4, <2>5
  <1>10. ASSUME NEW s \in SignalIds, SignalChanges(s) PROVE MigrationInv' /\ MeaningKept
    <2>1. revision = 10 /\ revision' = 10 /\ appWrites' \in 0..MaxWrites
      BY <1>10, <1>5 DEF SignalChanges
    <2>2. PointsInv'
      BY <1>0, <1>10, <2>1, PointsStill DEF SignalChanges
    <2>3. UnitInv'
      BY <1>0, <1>10, <2>1, UnitStill DEF SignalChanges
    <2>4. SignalsInv'
      BY <1>0, <1>10, <2>1, SignalWritten DEF SignalChanges
    <2>5. ColumnsInv'
      BY <1>0, <1>10, <2>1, ColumnsStill DEF SignalChanges
    <2> QED BY <1>4, <2>1, <2>2, <2>3, <2>4, <2>5
  <1>11. CASE UNCHANGED migrationVars
    BY <1>0, <1>1, <1>11, PointsStill, ColumnsStill, UnitStill, SignalsStill DEF migrationVars
  <1> QED BY <1>2, <1>3, <1>6, <1>7, <1>8, <1>9, <1>10, <1>11 DEF MigrationNext

LEMMA MigrationInvariant == MigrationSpec => []MigrationInv
  <1>1. MigrationInv /\ [MigrationNext]_migrationVars => MigrationInv'
    BY MigrationStep
  <1> QED BY <1>1, MigrationInitInv, PTL DEF MigrationSpec

(* The rows have the columns of the revision that is applied.              *)
THEOREM MigrationTypeCorrect == MigrationSpec => []MigrationTypeOK
  <1>1. MigrationInv => MigrationTypeOK
    <2> SUFFICES ASSUME MigrationInv PROVE MigrationTypeOK
      OBVIOUS
    <2>1. /\ revision \in 0..LastRevision /\ appWrites \in 0..MaxWrites /\ LastRevision = 10
          /\ measures \in [MeasureIds -> MeasureRows \cup {NotThere}]
          /\ pointRows \subseteq RegisteredRows
          /\ unitRow \in [occupies : BOOLEAN, state : UnitStates \cup {NotThere}, traced : BOOLEAN]
          /\ signals \in [SignalIds -> SignalRows \cup {NotThere}]
      BY RevisionsAre DEF MigrationInv, PointsInv, UnitInv, SignalsInv
    <2>4. \A m \in KeptMeasures : measures[m].point = NotThere => revision <= 1
      BY <2>1 DEF MigrationInv, PointsInv, PointsRequired
    <2>2. \A m \in KeptMeasures :
             /\ measures[m].point = NotThere => revision <= 1
             /\ measures[m].point = NotThere <=> measures[m].origin = NotThere
             /\ measures[m].exemplar # NotThere => revision <= 2
             /\ measures[m].flags # "none" => revision >= 1
      BY <2>4 DEF MigrationInv, ColumnsInv
    <2>3. \A s \in KeptSignals :
          /\ signals[s].axes \in SignalAxes \/ (signals[s].axes = NotThere /\ revision < 9)
          /\ signals[s].status \in OldStatuses(signals[s].kind)
             \/ (signals[s].status = NotThere /\ revision = LastRevision)
      <3> SUFFICES ASSUME NEW s \in KeptSignals
                   PROVE  /\ signals[s].axes \in SignalAxes \/ (signals[s].axes = NotThere /\ revision < 9)
                          /\ signals[s].status \in OldStatuses(signals[s].kind)
                             \/ (signals[s].status = NotThere /\ revision = LastRevision)
        OBVIOUS
      <3>1. PICK row \in SignalRows : row = signals[s] /\ SignalSound(row, revision)
        BY DEF MigrationInv, SignalsInv, SignalSound
      <3>2. row.axes \in SignalAxes \cup {NotThere}
        BY DEF SignalRows
      <3> QED BY <2>1, <3>1, <3>2 DEF SignalSound
    <2> QED BY <2>1, <2>2, <2>3 DEF MigrationTypeOK
  <1> QED BY <1>1, MigrationInvariant, PTL

(* No migration of the three series, in either direction, rewrites the     *)
(* date, the quantity and the unit of a measure, the state of a unit or    *)
(* the axes of a signal: the ones that could not keep them are refused     *)
(* (migrations/versions/).  The exemplar, the flags and the origin of a    *)
(* measure are lost at one revision each, and at no other.                 *)
THEOREM MeaningKeptHolds == MigrationSpec => [][MeaningKept]_migrationVars
  <1>1. MigrationInv /\ [MigrationNext]_migrationVars => [MeaningKept]_migrationVars
    BY MigrationStep
  <1> QED BY <1>1, MigrationInvariant, PTL DEF MigrationSpec

(* A contract that follows its migration is never refused.                 *)
THEOREM ContractReadyHolds == MigrationSpec => []ContractReady
  <1>1. MigrationInv => ContractReady
    <2> SUFFICES ASSUME MigrationInv PROVE ContractReady
      OBVIOUS
    <2>1. revision = 2 => PointsRequired
      BY DEF MigrationInv, PointsInv
    <2>2. revision = 6 => unitRow.state # NotThere
      BY DEF MigrationInv, UnitInv
    <2>3. ASSUME revision = 9, NEW s \in KeptSignals
          PROVE  /\ signals[s].axes # NotThere
                 /\ signals[s].status \in {"open", "acknowledged"}
                       <=> signals[s].axes.handling \in {"open", "in_progress"}
      <3>1. PICK row \in SignalRows : row = signals[s] /\ SignalSound(row, 9)
        BY <2>3 DEF MigrationInv, SignalsInv, SignalSound
      <3>2. /\ row.axes # NotThere /\ row.status = StatusOf(row)
            /\ row.kind \in {"finding", "alarm"} /\ row.axes \in SignalAxes \cup {NotThere}
        BY <3>1 DEF SignalSound, SignalRows
      <3>3. StatusOf(row) \in {"open", "acknowledged"} <=> row.axes.handling \in {"open", "in_progress"}
        BY <3>2 DEF StatusOf, SignalAxes
      <3> QED BY <3>1, <3>2, <3>3
    <2> QED BY <2>1, <2>2, <2>3, RevisionsAre DEF ContractReady, AxesRequired
  <1> QED BY <1>1, MigrationInvariant, PTL
=============================================================================
