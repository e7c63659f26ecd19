------------------------------- MODULE Archiving -------------------------------
(***************************************************************************)
(* Archiving of a site and of its equipment (app/assets.py and the routes  *)
(* of app/routers/assets.py).                                              *)
(*                                                                         *)
(* A request is a transaction in READ COMMITTED: an UPDATE of the site     *)
(* that finds a row locks it until the commit, one that finds none locks   *)
(* nothing; what a request wrote is visible when it commits, in the step   *)
(* of its last statement.                                                  *)
(***************************************************************************)
EXTENDS Naturals, FiniteSets

CONSTANTS
    Locations,      \* equipment of the site
    ArchiveCalls,   \* requests that may be open at once
    Idle

VARIABLES
    archived,       \* the site is archived
    status,         \* of each equipment
    call,           \* what each open request has done so far
    stray           \* history: equipment put back by a request that had found
                    \* nothing archived (a repeated unarchive)

archVars == <<archived, status, call, stray>>

ArchRequests ==
    [op : {"archive_site", "unarchive_site"}, lock : {"none", "update"}]
    \cup [op : {"keep"}, l : Locations, lock : {"none"}]
    \cup [op : {"look"}, l : Locations, was : BOOLEAN, lock : {"none"}]
    \cup [op : {"restore"}, l : Locations, was : BOOLEAN, lock : {"share"}]
    \cup [op : {"create"}, l : Locations, lock : {"share"}]

ArchTypeOK ==
    /\ archived \in BOOLEAN
    /\ status \in [Locations -> {"none", "active", "by_hand", "with_site"}]
    /\ call \in [ArchiveCalls -> ArchRequests \cup {Idle}]
    /\ \A c, d \in ArchiveCalls :
          c # d /\ call[c] # Idle /\ call[d] # Idle /\ call[c].lock = "update"
             => call[d].lock = "none"
    /\ stray \subseteq Locations

ArchInit ==
    /\ archived = FALSE
    /\ status \in [Locations -> {"none", "active"}]
    /\ call = [c \in ArchiveCalls |-> Idle]
    /\ stray = {}

-----------------------------------------------------------------------------
LocksOfOthers(c) == {call[d].lock : d \in {d \in ArchiveCalls \ {c} : call[d] # Idle}}

CallGoes(c, what) == call' = [call EXCEPT ![c] = what] /\ UNCHANGED <<archived, status, stray>>
Ends(c) == call' = [call EXCEPT ![c] = Idle]

(* SELECT ... FOR SHARE: waits for whoever updates the site. *)
ForShareMissing(c) == TRUE
ForShare(c) == "update" \notin LocksOfOthers(c)

(* UPDATE sites ... WHERE archived_at IS [NOT] NULL: only a row that       *)
(* matches is waited for and locked.                                       *)
UpdateSite(c, op, matches) ==
    /\ call[c] = Idle
    /\ matches => LocksOfOthers(c) \subseteq {"none"}
    /\ CallGoes(c, [op |-> op, lock |-> IF matches THEN "update" ELSE "none"])

-----------------------------------------------------------------------------
(* archive_site: the site, then its equipment that is still active.        *)
archive_site(c) == UpdateSite(c, "archive_site", ~archived)

ArchiveEquipment(c) ==
    /\ call[c].op = "archive_site"
    /\ archived' = (archived \/ call[c].lock = "update")
    /\ status' = [l \in Locations |-> IF status[l] = "active" THEN "with_site" ELSE status[l]]
    /\ stray' = {}
    /\ Ends(c)

(* unarchive_site: the site, then the equipment archived with it.          *)
unarchive_site(c) == UpdateSite(c, "unarchive_site", archived)

RestoreEquipment(c) ==
    LET back == {l \in Locations : status[l] = "with_site"} IN
    /\ call[c].op = "unarchive_site"
    /\ archived' = (archived /\ call[c].lock # "update")
    /\ status' = [l \in Locations |-> IF l \in back THEN "active" ELSE status[l]]
    /\ stray' = IF call[c].lock = "none" THEN stray \cup back ELSE stray
    /\ Ends(c)

(* archive_functional_location: an active equipment, otherwise (a second   *)
(* statement) one that had been archived with its site.                    *)
archive_functional_location(c, l) ==
    /\ call[c] = Idle /\ status[l] # "none"
    /\ IF status[l] = "active"
       THEN /\ status' = [status EXCEPT ![l] = "by_hand"]
            /\ stray' = stray \ {l}
            /\ UNCHANGED <<archived, call>>
       ELSE CallGoes(c, [op |-> "keep", l |-> l, lock |-> "none"])

KeepArchived(c) ==
    /\ call[c].op = "keep"
    /\ status' = [status EXCEPT ![call[c].l] = IF @ = "with_site" THEN "by_hand" ELSE @]
    /\ Ends(c) /\ UNCHANGED <<archived, stray>>

(* unarchive_functional_location: FOR SHARE OF s makes the row of the site *)
(* wait and be read again, the row of the equipment stays the one of the   *)
(* beginning of the statement.                                             *)
unarchive_functional_location(c, l) ==
    /\ call[c] = Idle /\ status[l] # "none"
    /\ CallGoes(c, [op |-> "look", l |-> l, was |-> status[l] # "active", lock |-> "none"])

LockSite(c) ==
    /\ call[c].op = "look" /\ ForShare(c)
    /\ IF call[c].was /\ archived
       THEN Ends(c) /\ UNCHANGED <<archived, status, stray>>     \* SITE_ARCHIVED
       ELSE CallGoes(c, [call[c] EXCEPT !.op = "restore", !.lock = "share"])

RestoreOne(c) ==
    LET l == call[c].l IN
    /\ call[c].op = "restore"
    /\ status' = [status EXCEPT ![l] = "active"]
    /\ stray' = IF status[l] # "active" /\ ~call[c].was THEN stray \cup {l} ELSE stray
    /\ Ends(c) /\ UNCHANGED archived

(* create_functional_location: FOR SHARE, then the new row.                *)
create_functional_location(c, l) ==
    /\ call[c] = Idle /\ status[l] = "none"
    /\ \A d \in ArchiveCalls : call[d] # Idle /\ call[d].op = "create" => call[d].l # l
    /\ ForShare(c) /\ ~archived
    /\ CallGoes(c, [op |-> "create", l |-> l, lock |-> "share"])

InsertLocation(c) ==
    /\ call[c].op = "create"
    /\ status' = [status EXCEPT ![call[c].l] = "active"]
    /\ Ends(c) /\ UNCHANGED <<archived, stray>>

-----------------------------------------------------------------------------
SiteRoutes(c) == archive_site(c) \/ unarchive_site(c)
LocationRoutes(c, l) ==
    \/ archive_functional_location(c, l)
    \/ unarchive_functional_location(c, l)
    \/ create_functional_location(c, l)

ArchNext ==
    \E c \in ArchiveCalls :
        \/ SiteRoutes(c)
        \/ \E l \in Locations : LocationRoutes(c, l)
        \/ /\ call[c] # Idle
           /\ \/ ArchiveEquipment(c)
              \/ RestoreEquipment(c)
              \/ KeepArchived(c)
              \/ LockSite(c)
              \/ RestoreOne(c)
              \/ InsertLocation(c)

ArchSpec == ArchInit /\ [][ArchNext]_archVars

-----------------------------------------------------------------------------
(* No equipment is active on an archived site, unless a repeated unarchive *)
(* put it back: neither a creation nor an unarchive that found something   *)
(* to restore slips past the archiving of the site (assets.py:112-119).    *)
ActiveOnArchivedIsStray ==
    archived => \A l \in Locations : status[l] = "active" => l \in stray

(* Not so: no equipment stays active on an archived site (assets.py:37-38). *)
(* A repeated unarchive puts it back without having locked the site.       *)
NoActiveOnArchived == archived => \A l \in Locations : status[l] # "active"
===============================================================================
