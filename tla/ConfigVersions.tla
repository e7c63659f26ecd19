---------------------------- MODULE ConfigVersions ----------------------------
(***************************************************************************)
(* The versions of one configured element (app/config_versions.py and      *)
(* app/routers/configs.py): drafts, activation by a second person,         *)
(* retirement, restoration, for a config_type that requires a second       *)
(* person (alarm rules, automation rules, control modes).                  *)
(*                                                                         *)
(* Every request is a transaction that reads in several statements, then   *)
(* updates by id; a trigger and two unique indexes judge the rows as they  *)
(* are at the update.                                                      *)
(***************************************************************************)
EXTENDS Naturals, FiniteSets

CONSTANTS
    Requests,       \* requests that may be open at once
    Managers,       \* people
    MaxVersions,    \* bound: versions of the element
    MaxRequests,    \* bound: requests begun
    NoVersion, NoRequest

VARIABLES
    version,        \* [version number -> row or NoVersion]
    request,        \* what each open request has read
    wasActive,      \* history: versions that have been active
    requests        \* requests begun

configVars == <<version, request, wasActive, requests>>

VersionNumbers == 1..MaxVersions
Statuses == {"draft", "active", "superseded", "retired"}
Written(v) == version[v] # NoVersion
ActiveVersions == {v \in VersionNumbers : Written(v) /\ version[v].status = "active"}
LatestVersion == Cardinality({v \in VersionNumbers : Written(v)})

VersionRows ==
    [status : Statuses, author : Managers, by : Managers \cup {NoRequest},
     from : 0..MaxVersions]
ConfigCalls ==
    [op : {"create", "activate", "restore", "retire"}, by : Managers,
     v : VersionNumbers, from : 0..MaxVersions]
    \cup [op : {"replace"}, by : Managers, v : VersionNumbers, from : 0..MaxVersions,
          previous : 0..MaxVersions, new : BOOLEAN]

ASSUME ConfigAssumption ==
    /\ MaxVersions \in Nat /\ MaxRequests \in Nat
    /\ NoVersion \notin VersionRows
    /\ NoRequest \notin Managers \cup ConfigCalls

ConfigTypeOK ==
    /\ version \in [VersionNumbers -> VersionRows \cup {NoVersion}]
    /\ request \in [Requests -> ConfigCalls \cup {NoRequest}]
    /\ wasActive \subseteq VersionNumbers
    /\ \A v \in VersionNumbers : Written(v) =>
          /\ version[v].from \in 0..(v - 1)
          /\ (version[v].by # NoRequest) <=> v \in wasActive
          /\ v > 1 => Written(v - 1)
    /\ requests \in 0..MaxRequests

ConfigInit ==
    /\ version = [v \in VersionNumbers |-> NoVersion]
    /\ request = [q \in Requests |-> NoRequest]
    /\ wasActive = {}
    /\ requests = 0

-----------------------------------------------------------------------------
Begin(q, what) ==
    /\ request[q] = NoRequest /\ requests < MaxRequests
    /\ request' = [request EXCEPT ![q] = what]
    /\ requests' = requests + 1
    /\ UNCHANGED <<version, wasActive>>

Refuse(q) ==
    /\ request' = [request EXCEPT ![q] = NoRequest]
    /\ UNCHANGED <<version, wasActive, requests>>

Draft(author, from) == [status |-> "draft", author |-> author, by |-> NoRequest, from |-> from]

(* create_version: the SELECT of the latest version, then the INSERT; the  *)
(* unique index on the number refuses the second of two.                   *)
create_version(q, m) ==
    /\ LatestVersion < MaxVersions
    /\ Begin(q, [op |-> "create", by |-> m, v |-> LatestVersion + 1, from |-> 0])

InsertVersion(q) ==
    /\ request[q].op = "create"
    /\ IF Written(request[q].v) THEN Refuse(q)
       ELSE /\ version' = [version EXCEPT ![request[q].v] = Draft(request[q].by, 0)]
            /\ request' = [request EXCEPT ![q] = NoRequest]
            /\ UNCHANGED <<wasActive, requests>>

(* activate_version and restore_version, up to _activate.                  *)
SecondPerson(m, v) == m # version[v].author

activate_version(q, m, v) ==
    /\ Written(v) /\ version[v].status = "draft"
    /\ SecondPerson(m, v)
    /\ Begin(q, [op |-> "activate", by |-> m, v |-> v, from |-> 0])

(* The version restored is read whatever its status.                       *)
restore_version(q, m, old) ==
    /\ Written(old) /\ LatestVersion < MaxVersions
    /\ Begin(q, [op |-> "restore", by |-> m, v |-> LatestVersion + 1, from |-> old])

(* _activate reads the active version ...                                  *)
ReadPrevious(q) ==
    /\ request[q].op \in {"activate", "restore"}
    /\ \E previous \in IF ActiveVersions = {} THEN {0} ELSE ActiveVersions :
          request' = [request EXCEPT ![q] =
             [op |-> "replace", by |-> @.by, v |-> @.v, from |-> @.from,
              previous |-> previous, new |-> @.op = "restore"]]
    /\ UNCHANGED <<version, wasActive, requests>>

(* protect_config_version, on the row as it is at the update: the          *)
(* transitions it lets through, and an activation is recorded once.        *)
protect_config_version(v, status, by) ==
    /\ \/ version[v].status = status
       \/ version[v].status = "draft" /\ status \in {"active", "retired"}
       \/ version[v].status = "active" /\ status \in {"superseded", "retired"}
    /\ version[v].by # NoRequest => by = NoRequest

uq_config_versions_one_activeSkipped(v, previous) == TRUE
uq_config_versions_one_active(v, previous) == ActiveVersions \subseteq {v, previous}

(* ... and makes the new one take over, or is refused as a whole.          *)
_activate(q) ==
    LET r == request[q]
        allowed ==
            /\ r.previous # 0 => protect_config_version(r.previous, "superseded", NoRequest)
            /\ IF r.new THEN ~Written(r.v) ELSE protect_config_version(r.v, "active", r.by)
            /\ uq_config_versions_one_active(r.v, r.previous)
    IN  /\ r.op = "replace"
        /\ IF ~allowed THEN Refuse(q)
           ELSE /\ version' = [v \in VersionNumbers |->
                      CASE v = r.v -> [(IF r.new THEN Draft(r.by, r.from) ELSE version[v])
                                         EXCEPT !.status = "active", !.by = r.by]
                        [] v = r.previous /\ v # r.v -> [version[v] EXCEPT !.status = "superseded"]
                        [] OTHER -> version[v]]
                /\ wasActive' = wasActive \cup {r.v}
                /\ request' = [request EXCEPT ![q] = NoRequest]
                /\ UNCHANGED requests

retire_version(q, m, v) ==
    /\ Written(v) /\ version[v].status \in {"draft", "active"}
    /\ Begin(q, [op |-> "retire", by |-> m, v |-> v, from |-> 0])

Retire(q) ==
    /\ request[q].op = "retire"
    /\ IF ~protect_config_version(request[q].v, "retired", NoRequest) THEN Refuse(q)
       ELSE /\ version' = [version EXCEPT ![request[q].v].status = "retired"]
            /\ request' = [request EXCEPT ![q] = NoRequest]
            /\ UNCHANGED <<wasActive, requests>>

(* The content does not validate any more (_activate, 175), or the         *)
(* connection is lost: the request is rolled back.                         *)
Rejected(q) == request[q] # NoRequest /\ Refuse(q)

(* routers/configs.py. *)
ConfigRoutes(q, m) ==
    \/ create_version(q, m)
    \/ \E v \in VersionNumbers :
          activate_version(q, m, v) \/ restore_version(q, m, v) \/ retire_version(q, m, v)

ConfigNext ==
    \E q \in Requests :
        \/ \E m \in Managers : ConfigRoutes(q, m)
        \/ Rejected(q)
        \/ /\ request[q] # NoRequest
           /\ InsertVersion(q) \/ ReadPrevious(q) \/ _activate(q) \/ Retire(q)

ConfigSpec == ConfigInit /\ [][ConfigNext]_configVars

-----------------------------------------------------------------------------
(* The active version is alone and, unless it restores an earlier one, was *)
(* activated by someone else than its author, whatever activations,        *)
(* retirements and restorations overlap (config_versions.py:58-63).        *)
OneActiveApproved ==
    /\ Cardinality(ActiveVersions) <= 1
    /\ \A v \in wasActive : version[v].from = 0 => version[v].by # version[v].author

(* A version is superseded in the very step that activates another one:    *)
(* only a retirement can leave the element without an active version, and  *)
(* a version that was replaced never comes back.                           *)
TakesOver ==
    \A v \in VersionNumbers :
        /\ v \in ActiveVersions /\ v \notin ActiveVersions' /\ version'[v].status # "retired"
              => \E w \in VersionNumbers \ {v} : w \in ActiveVersions' /\ w \notin ActiveVersions
        /\ v \in wasActive /\ v \notin ActiveVersions => v \notin ActiveVersions'

(* Not so: what a restoration activates without a second person had        *)
(* already been active (docstring of restore_version, 219-223).  A draft,  *)
(* or a version retired as a draft, is restored as well.                   *)
RestoredWasActive ==
    \A v \in wasActive : version[v].from # 0 => version[v].from \in wasActive
===============================================================================
