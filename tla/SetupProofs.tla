----------------------------- MODULE SetupProofs -----------------------------
(***************************************************************************)
(* Proofs about what is set up on a site before anything is measured or    *)
(* commanded, for any people, any number of overlapping requests and any   *)
(* bounds: the versions of a configuration, the points that are found and  *)
(* accepted, their units, and the daemon that follows a configuration      *)
(* while it changes.                                                       *)
(***************************************************************************)
EXTENDS ConfigVersions, Commissioning, PointVocabulary, EdgeCycle, FiniteSetTheorems,
        SequenceTheorems, TLAPS

-----------------------------------------------------------------------------
(* The versions of an element.  A request updates by id on what it read in *)
(* earlier statements.  What makes that safe is that some of it can no     *)
(* longer change (the author of a written row, the origin of the request)  *)
(* and that the trigger and the index judge the rest again.                *)

(* The versions are numbered without a gap. *)
NumberedInv == \E n \in 0..MaxVersions : \A v \in VersionNumbers : Written(v) <=> v <= n

(* No version is active twice over, and only an activation makes it so. *)
ActiveInv ==
    /\ \A v, w \in ActiveVersions : v = w
    /\ ActiveVersions \subseteq wasActive
    /\ wasActive \subseteq {v \in VersionNumbers : Written(v)}

(* What an open request has read that stays true until it writes. *)
HasSecondPerson(r) == Written(r.v) /\ r.by # version[r.v].author
NumbersNext(r) == r.v = 1 \/ Written(r.v - 1)
ReadStillTrue(r) ==
    /\ r.op = "create" => NumbersNext(r)
    /\ r.op = "activate" => r.from = 0 /\ HasSecondPerson(r)
    /\ r.op = "restore" => r.from \in 1..(r.v - 1) /\ NumbersNext(r)
    /\ r.op = "retire" => Written(r.v)
    /\ r.op = "replace" =>
          /\ r.previous # 0 => r.previous \in wasActive
          /\ r.new => r.from \in 1..(r.v - 1) /\ NumbersNext(r)
          /\ ~r.new => r.from = 0 /\ HasSecondPerson(r)
RequestInv ==
    \A q \in Requests : request[q] # NoRequest => ReadStillTrue(request[q])

(* Who activated a version: the second conjunct of OneActiveApproved. *)
ApprovedInv ==
    \A v \in wasActive : version[v].from = 0 => version[v].by # version[v].author

ConfigInv == ConfigTypeOK /\ NumberedInv /\ ActiveInv /\ RequestInv /\ ApprovedInv

-----------------------------------------------------------------------------
(* What the requests build is what the tables hold.                        *)
LEMMA DraftTyped ==
  ASSUME NEW m \in Managers, NEW from \in 0..MaxVersions
  PROVE  Draft(m, from) \in VersionRows
  BY DEF Draft, VersionRows, Statuses

(* LatestVersion is the highest number written, as the code that takes the *)
(* next one assumes.                                                       *)
LEMMA LatestIsHighest ==
  ASSUME ConfigTypeOK, NumberedInv
  PROVE  /\ LatestVersion \in 0..MaxVersions
         /\ \A v \in VersionNumbers : Written(v) <=> v <= LatestVersion
  <1>1. PICK n \in 0..MaxVersions : \A v \in VersionNumbers : Written(v) <=> v <= n
    BY DEF NumberedInv
  <1>2. {v \in VersionNumbers : Written(v)} = 1..n
    BY <1>1, ConfigAssumption DEF VersionNumbers
  <1>3. Cardinality(1..n) = n
    BY <1>1, FS_Interval, ConfigAssumption
  <1>4. QED
    BY <1>1, <1>2, <1>3 DEF LatestVersion

(* The next version has the number after the highest one.                  *)
LEMMA NextNumber ==
  ASSUME ConfigTypeOK, NumberedInv, LatestVersion < MaxVersions
  PROVE  /\ LatestVersion + 1 \in VersionNumbers
         /\ LatestVersion + 1 = 1 \/ Written(LatestVersion)
  BY LatestIsHighest, ConfigAssumption DEF VersionNumbers

-----------------------------------------------------------------------------
(* The invariant holds initially.                                          *)
LEMMA ConfigInitInv == ConfigInit => ConfigInv
  BY ConfigAssumption
  DEF ConfigInit, ConfigInv, ConfigTypeOK, NumberedInv, ActiveInv, RequestInv, ApprovedInv,
      ActiveVersions, Written, VersionNumbers

(* The two steps that write more than one column of one row, as functions  *)
(* of the rows before: what _activate leaves behind, when it is let        *)
(* through.                                                                *)
LEMMA ActivateRows ==
  ASSUME ConfigInv, NEW q \in Requests, request[q] # NoRequest, _activate(q),
         version' # version \/ wasActive' # wasActive
  PROVE  LET r == request[q] IN
         /\ r \in ConfigCalls /\ r.op = "replace"
         /\ wasActive' = wasActive \cup {r.v}
         /\ request' = [request EXCEPT ![q] = NoRequest]
         /\ r.new <=> ~Written(r.v)
         /\ ~r.new => version[r.v].status \in {"draft", "active"} /\ r.v \notin wasActive
         /\ version'[r.v] = [status |-> "active", by |-> r.by,
               author |-> IF r.new THEN r.by ELSE version[r.v].author,
               from |-> IF r.new THEN r.from ELSE version[r.v].from]
         /\ \A v \in VersionNumbers \ {r.v} :
               version'[v] = IF v = r.previous THEN [version[v] EXCEPT !.status = "superseded"]
                             ELSE version[v]
         /\ r.previous # 0 => r.previous \in wasActive
         /\ ActiveVersions \subseteq {r.v, r.previous}
         /\ version' = [v \in VersionNumbers |-> version'[v]]
  <1> DEFINE r == request[q]
  <1>1. r \in ConfigCalls /\ r.op = "replace" /\ r.v \in VersionNumbers /\ r.by \in Managers
        /\ r.from \in 0..MaxVersions /\ r.new \in BOOLEAN
    BY DEF ConfigInv, ConfigTypeOK, ConfigCalls, _activate
  <1>2. /\ r.previous # 0 => r.previous \in wasActive
        /\ ~r.new => HasSecondPerson(r)
    BY <1>1 DEF ConfigInv, RequestInv, ReadStillTrue
  <1>3. /\ IF r.new THEN ~Written(r.v) ELSE protect_config_version(r.v, "active", r.by)
        /\ ActiveVersions \subseteq {r.v, r.previous}
        /\ version' = [v \in VersionNumbers |->
                      CASE v = r.v -> [(IF r.new THEN Draft(r.by, r.from) ELSE version[v])
                                         EXCEPT !.status = "active", !.by = r.by]
                        [] v = r.previous /\ v # r.v -> [version[v] EXCEPT !.status = "superseded"]
                        [] OTHER -> version[v]]
        /\ wasActive' = wasActive \cup {r.v}
        /\ request' = [request EXCEPT ![q] = NoRequest]
    BY DEF _activate, Refuse, uq_config_versions_one_active
  <1>4. r.new <=> ~Written(r.v)
    BY <1>2, <1>3 DEF HasSecondPerson
  <1>5. ~r.new => version[r.v].status \in {"draft", "active"} /\ r.v \notin wasActive
    BY <1>1, <1>2, <1>3, ConfigAssumption
    DEF protect_config_version, HasSecondPerson, ConfigInv, ConfigTypeOK
  <1>6. version'[r.v] = [status |-> "active", by |-> r.by,
               author |-> IF r.new THEN r.by ELSE version[r.v].author,
               from |-> IF r.new THEN r.from ELSE version[r.v].from]
    <2>1. version'[r.v] = [(IF r.new THEN Draft(r.by, r.from) ELSE version[r.v])
                              EXCEPT !.status = "active", !.by = r.by]
      BY <1>1, <1>3
    <2>2. CASE r.new
      BY <2>1, <2>2, ZenonT(40) DEF Draft
    <2>3. CASE ~r.new
      <3>1. version[r.v] \in VersionRows
        BY <2>3, <1>1, <1>4 DEF ConfigInv, ConfigTypeOK, Written
      <3>2. QED
        BY <2>1, <2>3, <3>1 DEF VersionRows
    <2>4. QED
      BY <2>2, <2>3
  <1>7. \A v \in VersionNumbers \ {r.v} :
               version'[v] = IF v = r.previous THEN [version[v] EXCEPT !.status = "superseded"]
                             ELSE version[v]
    BY <1>3
  <1>8. QED
    BY <1>1, <1>2, <1>3, <1>4, <1>5, <1>6, <1>7

(* What no request ever undoes: a written row stays, with its author and   *)
(* its origin, and what has been active has been.                          *)
RowKept(v) ==
    Written(v) => /\ Written(v)'
                  /\ version'[v].author = version[v].author
                  /\ version'[v].from = version[v].from

(* A step changes no row, or writes one draft, or activates, or retires.   *)
LEMMA Writes ==
  ASSUME ConfigInv, [ConfigNext]_configVars
  PROVE  \/ version' = version /\ wasActive' = wasActive
         \/ \E q \in Requests : request[q] # NoRequest /\ InsertVersion(q)
         \/ \E q \in Requests : request[q] # NoRequest /\ _activate(q)
                                 /\ (version' # version \/ wasActive' # wasActive)
         \/ \E q \in Requests : request[q] # NoRequest /\ Retire(q)
  <1>1. ASSUME NEW q \in Requests, NEW m \in Managers, ConfigRoutes(q, m)
        PROVE  version' = version /\ wasActive' = wasActive
    BY <1>1 DEF ConfigRoutes, create_version, activate_version, restore_version,
                retire_version, Begin
  <1>2. ASSUME NEW q \in Requests, Rejected(q) \/ ReadPrevious(q)
        PROVE  version' = version /\ wasActive' = wasActive
    BY <1>2 DEF Rejected, Refuse, ReadPrevious
  <1>3. QED
    BY <1>1, <1>2 DEF ConfigNext, configVars

LEMMA RowsKept ==
  ASSUME ConfigInv, [ConfigNext]_configVars
  PROVE  /\ wasActive \subseteq wasActive'
         /\ \A v \in VersionNumbers : RowKept(v)
  <1> USE DEF RowKept
  <1>1. CASE version' = version /\ wasActive' = wasActive
    BY <1>1 DEF Written
  <1>2. ASSUME NEW q \in Requests, request[q] # NoRequest, InsertVersion(q)
        PROVE  wasActive' = wasActive /\ \A v \in VersionNumbers : RowKept(v)
    BY <1>2 DEF InsertVersion, Refuse, Written, ConfigInv, ConfigTypeOK
  <1>3. ASSUME NEW q \in Requests, request[q] # NoRequest, _activate(q),
               version' # version \/ wasActive' # wasActive
        PROVE  wasActive \subseteq wasActive' /\ \A v \in VersionNumbers : RowKept(v)
    <2> DEFINE r == request[q]
    <2>1. wasActive' = wasActive \cup {r.v}
      BY <1>3, ActivateRows
    <2>2. ASSUME NEW v \in VersionNumbers, Written(v) PROVE RowKept(v)
      <3>1. version[v] \in VersionRows
        BY <2>2 DEF ConfigInv, ConfigTypeOK, Written
      <3>2. CASE v = r.v
        <4>1. ~r.new /\ r \in ConfigCalls /\ r.by \in Managers
          BY <1>3, <2>2, <3>2, ActivateRows DEF ConfigCalls
        <4>2. version'[v] = [status |-> "active", by |-> r.by,
                             author |-> version[v].author, from |-> version[v].from]
          BY <1>3, <3>2, <4>1, ActivateRows
        <4>3. version'[v] \in VersionRows
          BY <3>1, <4>1, <4>2 DEF VersionRows, Statuses
        <4>4. QED
          BY <4>2, <4>3, ConfigAssumption DEF Written
      <3>3. CASE v # r.v
        <4>1. version'[v] = IF v = r.previous THEN [version[v] EXCEPT !.status = "superseded"]
                            ELSE version[v]
          <5>1. \A w \in VersionNumbers \ {r.v} :
                  version'[w] = IF w = r.previous THEN [version[w] EXCEPT !.status = "superseded"]
                                ELSE version[w]
            BY <1>3, ActivateRows
          <5>2. QED
            BY <3>3, <5>1
        <4>2. version'[v] \in VersionRows /\ version'[v].author = version[v].author
              /\ version'[v].from = version[v].from
          BY <3>1, <4>1 DEF VersionRows, Statuses
        <4>3. QED
          BY <4>2, ConfigAssumption DEF Written
      <3>4. QED
        BY <3>2, <3>3
    <2>3. QED
      BY <2>1, <2>2
  <1>4. ASSUME NEW q \in Requests, request[q] # NoRequest, Retire(q)
        PROVE  wasActive' = wasActive /\ \A v \in VersionNumbers : RowKept(v)
    <2>1. wasActive' = wasActive
      BY <1>4 DEF Retire, Refuse
    <2>2. ASSUME NEW v \in VersionNumbers, Written(v) PROVE RowKept(v)
      <3>1. version[v] \in VersionRows
        BY <2>2 DEF ConfigInv, ConfigTypeOK, Written
      <3>2. version'[v] \in {version[v], [version[v] EXCEPT !.status = "retired"]}
        BY <1>4, <3>1 DEF Retire, Refuse, ConfigInv, ConfigTypeOK
      <3>3. version'[v] \in VersionRows /\ version'[v].author = version[v].author
            /\ version'[v].from = version[v].from
        BY <3>1, <3>2 DEF VersionRows, Statuses
      <3>4. QED
        BY <3>3, ConfigAssumption DEF Written
    <2>3. QED
      BY <2>1, <2>2
  <1>5. QED
    BY <1>1, <1>2, <1>3, <1>4, Writes

-----------------------------------------------------------------------------
(* The versions stay numbered without a gap: what is inserted late is      *)
(* either next, or refused by the unique index.                            *)
LEMMA InsertedIsNext ==
  ASSUME ConfigInv, NEW v \in VersionNumbers, v = 1 \/ Written(v - 1), ~Written(v)
  PROVE  v = LatestVersion + 1
  BY LatestIsHighest, ConfigAssumption DEF ConfigInv, VersionNumbers

LEMMA NumberedStep == ConfigInv /\ [ConfigNext]_configVars => NumberedInv'
  <1> SUFFICES ASSUME ConfigInv, [ConfigNext]_configVars PROVE NumberedInv'
    OBVIOUS
  <1>1. /\ LatestVersion \in 0..MaxVersions
        /\ \A v \in VersionNumbers : Written(v) <=> v <= LatestVersion
    BY LatestIsHighest DEF ConfigInv
  <1>2. CASE \A v \in VersionNumbers : Written(v)' <=> Written(v)
    BY <1>1, <1>2 DEF NumberedInv
  <1>3. ASSUME NEW w \in VersionNumbers, w = 1 \/ Written(w - 1), ~Written(w),
               \A v \in VersionNumbers : Written(v)' <=> Written(v) \/ v = w
        PROVE  NumberedInv'
    <2>1. w = LatestVersion + 1
      BY <1>3, InsertedIsNext
    <2>2. \A v \in VersionNumbers : Written(v)' <=> v <= w
      BY <1>1, <1>3, <2>1 DEF VersionNumbers
    <2>3. w \in 0..MaxVersions
      BY DEF VersionNumbers
    <2>4. QED
      BY <2>2, <2>3 DEF NumberedInv
  <1>4. CASE version' = version /\ wasActive' = wasActive
    BY <1>2, <1>4 DEF Written
  <1>5. ASSUME NEW q \in Requests, request[q] # NoRequest, InsertVersion(q)
        PROVE  NumberedInv'
    <2> DEFINE r == request[q]
    <2>1. CASE version' = version
      BY <1>2, <2>1 DEF Written
    <2>2. CASE version' # version
      <3>1. r \in ConfigCalls /\ r.op = "create" /\ r.v \in VersionNumbers /\ r.by \in Managers
        BY <1>5 DEF InsertVersion, ConfigInv, ConfigTypeOK, ConfigCalls
      <3>2. /\ ~Written(r.v)
            /\ version' = [version EXCEPT ![r.v] = Draft(r.by, 0)]
            /\ r.v = 1 \/ Written(r.v - 1)
        BY <1>5, <2>2, <3>1 DEF InsertVersion, Refuse, ConfigInv, RequestInv, ReadStillTrue, NumbersNext
      <3>3. Draft(r.by, 0) # NoVersion
        BY <3>1, DraftTyped, ConfigAssumption
      <3>4. \A v \in VersionNumbers : Written(v)' <=> Written(v) \/ v = r.v
        BY <3>2, <3>3 DEF Written, ConfigInv, ConfigTypeOK
      <3>5. QED
        BY <1>3, <3>1, <3>2, <3>4
    <2>3. QED
      BY <2>1, <2>2
  <1>6. ASSUME NEW q \in Requests, request[q] # NoRequest, _activate(q),
               version' # version \/ wasActive' # wasActive
        PROVE  NumberedInv'
    <2> DEFINE r == request[q]
    <2>1. /\ r \in ConfigCalls /\ r.op = "replace" /\ r.v \in VersionNumbers
          /\ r.by \in Managers /\ r.from \in 0..MaxVersions
          /\ r.new <=> ~Written(r.v)
      BY <1>6, ActivateRows DEF ConfigCalls
    <2>2. version'[r.v] = [status |-> "active", by |-> r.by,
               author |-> IF r.new THEN r.by ELSE version[r.v].author,
               from |-> IF r.new THEN r.from ELSE version[r.v].from]
      BY <1>6, ActivateRows
    <2>3. ~r.new => version[r.v] \in VersionRows
      BY <2>1 DEF ConfigInv, ConfigTypeOK, Written
    <2>4. version'[r.v] \in VersionRows
      BY <2>1, <2>2, <2>3 DEF VersionRows, Statuses
    <2>5. version'[r.v] # NoVersion
      BY <2>4, ConfigAssumption DEF Written
    <2>6. ASSUME NEW v \in VersionNumbers, v # r.v PROVE Written(v)' <=> Written(v)
      <3>1. version'[v] = IF v = r.previous THEN [version[v] EXCEPT !.status = "superseded"]
                          ELSE version[v]
        <4>1. \A w \in VersionNumbers \ {r.v} :
                version'[w] = IF w = r.previous THEN [version[w] EXCEPT !.status = "superseded"]
                              ELSE version[w]
          BY <1>6, ActivateRows
        <4>2. QED
          BY <2>6, <4>1
      <3>2. CASE v # r.previous
        BY <3>1, <3>2 DEF Written
      <3>3. CASE v = r.previous
        <4>1. r.previous \in wasActive
          <5>1. r.previous # 0 => r.previous \in wasActive
            BY <1>6, ActivateRows
          <5>2. QED
            BY <3>3, <5>1, ConfigAssumption DEF VersionNumbers
        <4>2. Written(v)
          BY <3>3, <4>1 DEF ConfigInv, ActiveInv
        <4>3. QED
          BY <4>2, RowsKept DEF RowKept
      <3>4. QED
        BY <3>2, <3>3
    <2>7. CASE r.new
      <3>1. r.v = 1 \/ Written(r.v - 1)
        BY <1>6, <2>1, <2>7 DEF ConfigInv, RequestInv, ReadStillTrue, NumbersNext
      <3>2. QED
        BY <1>3, <2>1, <2>5, <2>6, <2>7, <3>1 DEF Written
    <2>8. CASE ~r.new
      BY <1>2, <2>1, <2>5, <2>6, <2>8 DEF Written
    <2>9. QED
      BY <2>7, <2>8
  <1>7. ASSUME NEW q \in Requests, request[q] # NoRequest, Retire(q)
        PROVE  NumberedInv'
    <2> DEFINE r == request[q]
    <2>1. r \in ConfigCalls /\ r.v \in VersionNumbers /\ Written(r.v)
      BY <1>7 DEF Retire, ConfigInv, ConfigTypeOK, ConfigCalls, RequestInv, ReadStillTrue
    <2>2. \A v \in VersionNumbers \ {r.v} : version'[v] = version[v]
      BY <1>7 DEF Retire, Refuse, ConfigInv, ConfigTypeOK
    <2>3. version'[r.v] # NoVersion
      BY <2>1, RowsKept DEF RowKept, Written
    <2>4. \A v \in VersionNumbers : Written(v)' <=> Written(v)
      BY <2>1, <2>2, <2>3 DEF Written
    <2>5. QED
      BY <1>2, <2>4
  <1>8. QED
    BY <1>4, <1>5, <1>6, <1>7, Writes

-----------------------------------------------------------------------------
(* A request ends, or reads what then stays true of the rows.              *)
LEMMA RequestTyped ==
  ASSUME ConfigInv, [ConfigNext]_configVars
  PROVE  request' \in [Requests -> ConfigCalls \cup {NoRequest}]
  <1> USE DEF ConfigInv, ConfigTypeOK, ConfigCalls
  <1>1. ASSUME NEW q \in Requests, NEW m \in Managers, ConfigRoutes(q, m)
        PROVE  request' \in [Requests -> ConfigCalls \cup {NoRequest}]
    <2>1. CASE create_version(q, m)
      BY <2>1, NextNumber, ConfigAssumption DEF create_version, Begin
    <2>2. ASSUME NEW v \in VersionNumbers, activate_version(q, m, v) \/ retire_version(q, m, v)
          PROVE  request' \in [Requests -> ConfigCalls \cup {NoRequest}]
      BY <2>2, ConfigAssumption DEF activate_version, retire_version, Begin
    <2>3. ASSUME NEW v \in VersionNumbers, restore_version(q, m, v)
          PROVE  request' \in [Requests -> ConfigCalls \cup {NoRequest}]
      <3>1. v \in 0..MaxVersions /\ LatestVersion + 1 \in VersionNumbers
        BY <2>3, NextNumber, ConfigAssumption DEF restore_version, VersionNumbers
      <3>2. QED
        BY <2>3, <3>1 DEF restore_version, Begin
    <2>4. QED
      BY <1>1, <2>1, <2>2, <2>3 DEF ConfigRoutes
  <1>2. ASSUME NEW q \in Requests, request[q] # NoRequest, ReadPrevious(q)
        PROVE  request' \in [Requests -> ConfigCalls \cup {NoRequest}]
    <2> DEFINE r == request[q]
    <2>1. /\ r.by \in Managers /\ r.v \in VersionNumbers /\ r.from \in 0..MaxVersions
          /\ r.op \in {"activate", "restore"}
      BY <1>2 DEF ReadPrevious
    <2>2. PICK previous \in IF ActiveVersions = {} THEN {0} ELSE ActiveVersions :
            request' = [request EXCEPT ![q] =
               [op |-> "replace", by |-> @.by, v |-> @.v, from |-> @.from,
                previous |-> previous, new |-> @.op = "restore"]]
      BY <1>2 DEF ReadPrevious
    <2>3. previous \in 0..MaxVersions
      BY <2>2, ConfigAssumption DEF ActiveVersions, VersionNumbers
    <2>4. QED
      BY <2>1, <2>2, <2>3
  <1>3. ASSUME NEW q \in Requests,
               InsertVersion(q) \/ _activate(q) \/ Retire(q) \/ Rejected(q)
        PROVE  request' \in [Requests -> ConfigCalls \cup {NoRequest}]
    BY <1>3 DEF InsertVersion, _activate, Retire, Rejected, Refuse
  <1>4. CASE UNCHANGED configVars
    BY <1>4 DEF configVars
  <1>5. QED
    BY <1>1, <1>2, <1>3, <1>4 DEF ConfigNext

(* What one open request has read is still true after a step, whoever     *)
(* writes rows in it.                                                      *)
LEMMA ReadsKept ==
  ASSUME ConfigInv, [ConfigNext]_configVars, NEW r \in ConfigCalls, ReadStillTrue(r)
  PROVE  ReadStillTrue(r)'
  <1>1. r.v \in VersionNumbers /\ (r.v - 1 \in VersionNumbers \/ r.v = 1)
    BY ConfigAssumption DEF ConfigCalls, VersionNumbers
  <1>2. NumbersNext(r) => NumbersNext(r)'
    BY <1>1, RowsKept DEF NumbersNext, RowKept
  <1>3. HasSecondPerson(r) => HasSecondPerson(r)'
    BY <1>1, RowsKept DEF HasSecondPerson, RowKept
  <1>4. Written(r.v) => Written(r.v)'
    BY <1>1, RowsKept DEF RowKept
  <1>5. wasActive \subseteq wasActive'
    BY RowsKept
  <1>6. QED
    BY <1>2, <1>3, <1>4, <1>5 DEF ReadStillTrue

LEMMA VersionRequestStep == ConfigInv /\ [ConfigNext]_configVars => RequestInv'
  <1> SUFFICES ASSUME ConfigInv, [ConfigNext]_configVars, NEW p \in Requests,
                      NEW r \in ConfigCalls, r = request'[p]
               PROVE  ReadStillTrue(r)'
    BY RequestTyped DEF RequestInv, ReadStillTrue, HasSecondPerson, NumbersNext
  <1> USE DEF ConfigInv, ConfigTypeOK
  <1>1. CASE r = request[p]
    BY <1>1, ReadsKept, ConfigAssumption DEF RequestInv
  <1>2. ASSUME NEW q \in Requests, NEW m \in Managers, ConfigRoutes(q, m), r # request[p]
        PROVE  ReadStillTrue(r)'
    <2>1. CASE create_version(q, m)
      <3>1. r = [op |-> "create", by |-> m, v |-> LatestVersion + 1, from |-> 0]
            /\ version' = version
        BY <1>2, <2>1 DEF create_version, Begin
      <3>2. LatestVersion + 1 = 1 \/ Written(LatestVersion)
        BY <2>1, NextNumber DEF create_version
      <3>3. LatestVersion \in Nat
        BY LatestIsHighest
      <3>4. QED
        BY <3>1, <3>2, <3>3 DEF ReadStillTrue, NumbersNext, Written
    <2>2. ASSUME NEW v \in VersionNumbers, activate_version(q, m, v)
          PROVE  ReadStillTrue(r)'
      BY <1>2, <2>2
      DEF activate_version, SecondPerson, Begin, ReadStillTrue, HasSecondPerson, Written
    <2>3. ASSUME NEW v \in VersionNumbers, retire_version(q, m, v)
          PROVE  ReadStillTrue(r)'
      BY <1>2, <2>3 DEF retire_version, Begin, ReadStillTrue, Written
    <2>4. ASSUME NEW v \in VersionNumbers, restore_version(q, m, v)
          PROVE  ReadStillTrue(r)'
      <3>1. r = [op |-> "restore", by |-> m, v |-> LatestVersion + 1, from |-> v]
            /\ version' = version
        BY <1>2, <2>4 DEF restore_version, Begin
      <3>2. v \in 1..LatestVersion /\ LatestVersion \in Nat
        BY <2>4, LatestIsHighest DEF restore_version, VersionNumbers
      <3>3. LatestVersion + 1 = 1 \/ Written(LatestVersion)
        BY <2>4, NextNumber DEF restore_version
      <3>4. QED
        BY <3>1, <3>2, <3>3 DEF ReadStillTrue, NumbersNext, Written
    <2>5. QED
      BY <1>2, <2>1, <2>2, <2>3, <2>4 DEF ConfigRoutes
  <1>3. ASSUME NEW q \in Requests, request[q] # NoRequest, ReadPrevious(q), r # request[p]
        PROVE  ReadStillTrue(r)'
    <2> DEFINE old == request[q]
    <2>1. PICK previous \in IF ActiveVersions = {} THEN {0} ELSE ActiveVersions :
            request' = [request EXCEPT ![q] =
               [op |-> "replace", by |-> @.by, v |-> @.v, from |-> @.from,
                previous |-> previous, new |-> @.op = "restore"]]
      BY <1>3 DEF ReadPrevious
    <2>2. r = [op |-> "replace", by |-> old.by, v |-> old.v, from |-> old.from,
               previous |-> previous, new |-> old.op = "restore"]
      BY <1>3, <2>1
    <2>3. previous # 0 => previous \in wasActive
      BY <2>1 DEF ActiveInv
    <2>4. old.op \in {"activate", "restore"} /\ ReadStillTrue(old)
      BY <1>3 DEF ReadPrevious, RequestInv
    <2>5. version' = version /\ wasActive' = wasActive
      BY <1>3 DEF ReadPrevious
    <2>6. /\ r.op = "replace" /\ r.v = old.v /\ r.by = old.by /\ r.from = old.from
          /\ r.previous = previous
      BY <2>2
    <2>7. r.new <=> old.op = "restore"
      <3>1. PICK new \in BOOLEAN : new = (old.op = "restore")
        OBVIOUS
      <3>2. r = [op |-> "replace", by |-> old.by, v |-> old.v, from |-> old.from,
                 previous |-> previous, new |-> new]
        BY <2>2, <3>1, Zenon
      <3>3. r.new = new
        BY <3>2
      <3>4. QED
        BY <3>1, <3>3, Zenon
    <2>8. CASE old.op = "restore"
      <3>1. old.from \in 1..(old.v - 1) /\ NumbersNext(old)
        BY <2>4, <2>8 DEF ReadStillTrue
      <3>2. r.op = "replace" /\ r.new /\ r.from = old.from /\ r.v = old.v
            /\ r.previous = previous
        BY <2>8, <2>6, <2>7
      <3>3. QED
        BY <2>3, <2>5, <3>1, <3>2 DEF ReadStillTrue, NumbersNext, Written
    <2>9. CASE old.op = "activate"
      <3>1. old.from = 0 /\ HasSecondPerson(old)
        BY <2>4, <2>9 DEF ReadStillTrue
      <3>2. r.op = "replace" /\ ~r.new /\ r.from = old.from /\ r.v = old.v /\ r.by = old.by
            /\ r.previous = previous
        BY <2>9, <2>6, <2>7
      <3>3. QED
        BY <2>3, <2>5, <3>1, <3>2 DEF ReadStillTrue, HasSecondPerson, Written
    <2>10. QED
      BY <2>4, <2>8, <2>9
  <1>4. ASSUME NEW q \in Requests,
               InsertVersion(q) \/ _activate(q) \/ Retire(q) \/ Rejected(q)
        PROVE  r = request[p]
    BY <1>4, ConfigAssumption DEF InsertVersion, _activate, Retire, Rejected, Refuse
  <1>5. QED
    BY <1>1, <1>2, <1>3, <1>4 DEF ConfigNext, configVars

-----------------------------------------------------------------------------
(* The rows written, the active one, and who activated it.                 *)
LEMMA RowsStep == ConfigInv /\ [ConfigNext]_configVars
    => /\ version' \in [VersionNumbers -> VersionRows \cup {NoVersion}]
       /\ wasActive' \subseteq {v \in VersionNumbers : Written(v)'}
       /\ \A v \in VersionNumbers : Written(v)' =>
             /\ version'[v].from \in 0..(v - 1)
             /\ version'[v].by # NoRequest <=> v \in wasActive'
       /\ ActiveInv'
       /\ ApprovedInv'
  <1> DEFINE Goal ==
        /\ version' \in [VersionNumbers -> VersionRows \cup {NoVersion}]
        /\ wasActive' \subseteq {v \in VersionNumbers : Written(v)'}
        /\ \A v \in VersionNumbers : Written(v)' =>
              /\ version'[v].from \in 0..(v - 1)
              /\ version'[v].by # NoRequest <=> v \in wasActive'
        /\ ActiveInv'
        /\ ApprovedInv'
  <1> SUFFICES ASSUME ConfigInv, [ConfigNext]_configVars PROVE Goal
    OBVIOUS
  <1> USE DEF ConfigInv, ConfigTypeOK
  <1>1. CASE version' = version /\ wasActive' = wasActive
    BY <1>1 DEF ActiveInv, ApprovedInv, ActiveVersions, Written
  <1>2. ASSUME NEW q \in Requests, request[q] # NoRequest, InsertVersion(q)
        PROVE  Goal
    <2> DEFINE r == request[q]
               row == Draft(r.by, 0)
    <2>1. CASE version' = version
      BY <1>1, <1>2, <2>1 DEF InsertVersion, Refuse
    <2>2. CASE version' # version
      <3>1. /\ r.v \in VersionNumbers /\ r.by \in Managers
            /\ ~Written(r.v) /\ wasActive' = wasActive
            /\ version' = [version EXCEPT ![r.v] = row]
        BY <1>2, <2>2 DEF InsertVersion, Refuse, ConfigCalls
      <3>2. row \in VersionRows /\ row.status = "draft" /\ row.by = NoRequest /\ row.from = 0
        BY <3>1, DraftTyped, ConfigAssumption DEF Draft
      <3>3. r.v \notin wasActive
        BY <3>1 DEF ActiveInv
      <3>4. ActiveVersions' = ActiveVersions
        BY <3>1, <3>2, ConfigAssumption DEF ActiveVersions, Written
      <3>5. \A v \in VersionNumbers : v # r.v => version'[v] = version[v]
        BY <3>1
      <3>6. version'[r.v] = row
        BY <3>1
      <3>7. version' \in [VersionNumbers -> VersionRows \cup {NoVersion}]
        BY <3>1, <3>2
      <3>8. \A v \in VersionNumbers : Written(v)' =>
              /\ version'[v].from \in 0..(v - 1)
              /\ version'[v].by # NoRequest <=> v \in wasActive'
        BY <3>1, <3>2, <3>3, <3>5, <3>6 DEF Written, VersionNumbers
      <3>9. ActiveInv' /\ wasActive' \subseteq {v \in VersionNumbers : Written(v)'}
        BY <3>1, <3>3, <3>4, <3>5 DEF ActiveInv, Written
      <3>10. ApprovedInv'
        BY <3>1, <3>3, <3>5 DEF ApprovedInv
      <3>11. QED
        BY <3>7, <3>8, <3>9, <3>10
    <2>3. QED
      BY <2>1, <2>2
  <1>3. ASSUME NEW q \in Requests, request[q] # NoRequest, _activate(q),
               version' # version \/ wasActive' # wasActive
        PROVE  Goal
    <2> DEFINE r == request[q]
    <2>1. /\ r \in ConfigCalls /\ r.op = "replace"
          /\ wasActive' = wasActive \cup {r.v}
          /\ r.new <=> ~Written(r.v)
          /\ ~r.new => version[r.v].status \in {"draft", "active"} /\ r.v \notin wasActive
          /\ version'[r.v] = [status |-> "active", by |-> r.by,
               author |-> IF r.new THEN r.by ELSE version[r.v].author,
               from |-> IF r.new THEN r.from ELSE version[r.v].from]
          /\ \A v \in VersionNumbers \ {r.v} :
               version'[v] = IF v = r.previous THEN [version[v] EXCEPT !.status = "superseded"]
                             ELSE version[v]
          /\ r.previous # 0 => r.previous \in wasActive
          /\ ActiveVersions \subseteq {r.v, r.previous}
          /\ version' = [v \in VersionNumbers |-> version'[v]]
      BY <1>3, ActivateRows
    <2>2. r.v \in VersionNumbers /\ r.by \in Managers /\ r.from \in 0..MaxVersions
          /\ ReadStillTrue(r) /\ r.new \in BOOLEAN
      BY <1>3, <2>1 DEF ConfigCalls, RequestInv
    <2>3. r.v \notin wasActive
      BY <2>1, <2>2 DEF ActiveInv
    <2>4. ~r.new => version[r.v] \in VersionRows
      BY <2>1, <2>2 DEF Written
    <2>5. /\ version'[r.v] \in VersionRows /\ version'[r.v].status = "active"
          /\ version'[r.v].by = r.by
      BY <2>1, <2>2, <2>4 DEF VersionRows, Statuses
    <2>6. version'[r.v].from \in 0..(r.v - 1)
      <3>1. CASE r.new
        BY <2>1, <2>2, <3>1 DEF ReadStillTrue, VersionNumbers
      <3>2. CASE ~r.new
        BY <2>1, <2>2, <3>2 DEF VersionNumbers
      <3>3. QED
        BY <3>1, <3>2
    <2>7. version'[r.v].from = 0 => version'[r.v].by # version'[r.v].author
      <3>1. CASE r.new
        BY <2>1, <2>2, <3>1 DEF ReadStillTrue
      <3>2. CASE ~r.new
        BY <2>1, <2>2, <3>2 DEF ReadStillTrue, HasSecondPerson
      <3>3. QED
        BY <3>1, <3>2
    <2>8. ASSUME NEW v \in VersionNumbers, v # r.v
          PROVE  \/ version'[v] = version[v] /\ v # r.previous
                 \/ /\ v \in wasActive /\ version[v] \in VersionRows
                    /\ version'[v] = [version[v] EXCEPT !.status = "superseded"]
      <3>1. version'[v] = IF v = r.previous THEN [version[v] EXCEPT !.status = "superseded"]
                          ELSE version[v]
        BY <2>1, <2>8
      <3>2. v = r.previous => v \in wasActive
        BY <2>1, ConfigAssumption DEF VersionNumbers
      <3>3. v \in wasActive => version[v] \in VersionRows
        BY DEF ActiveInv, Written
      <3>4. QED
        BY <3>1, <3>2, <3>3
    <2>9. ASSUME NEW v \in VersionNumbers, v # r.v
          PROVE  /\ version'[v] \in VersionRows \cup {NoVersion}
                 /\ Written(v)' <=> Written(v)
                 /\ Written(v)' => /\ version'[v].from = version[v].from
                                  /\ version'[v].by = version[v].by
                                  /\ version'[v].author = version[v].author
                                  /\ version'[v].status # "active"
      <3>1. CASE version'[v] = version[v] /\ v # r.previous
        <4>1. v \notin ActiveVersions
          BY <2>1, <2>9, <3>1
        <4>2. QED
          BY <3>1, <4>1 DEF Written, ActiveVersions
      <3>2. CASE /\ v \in wasActive /\ version[v] \in VersionRows
                 /\ version'[v] = [version[v] EXCEPT !.status = "superseded"]
        BY <3>2, ConfigAssumption DEF Written, VersionRows, Statuses
      <3>3. QED
        BY <2>8, <2>9, <3>1, <3>2
    <2>10. version' \in [VersionNumbers -> VersionRows \cup {NoVersion}]
      BY <2>1, <2>5, <2>9
    <2>11. \A v \in VersionNumbers : Written(v)' =>
              /\ version'[v].from \in 0..(v - 1)
              /\ version'[v].by # NoRequest <=> v \in wasActive'
      BY <2>1, <2>2, <2>5, <2>6, <2>9, ConfigAssumption DEF Written
    <2>12. wasActive' \subseteq {v \in VersionNumbers : Written(v)'}
      BY <2>1, <2>2, <2>5, <2>9, ConfigAssumption DEF ActiveInv, Written
    <2>13. ActiveVersions' = {r.v}
      BY <2>2, <2>5, <2>9, ConfigAssumption DEF ActiveVersions, Written
    <2>14. ActiveInv'
      BY <2>1, <2>12, <2>13 DEF ActiveInv
    <2>15. ApprovedInv'
      BY <2>1, <2>2, <2>7, <2>9 DEF ApprovedInv, ActiveInv
    <2>16. QED
      BY <2>10, <2>11, <2>12, <2>14, <2>15
  <1>4. ASSUME NEW q \in Requests, request[q] # NoRequest, Retire(q)
        PROVE  Goal
    <2> DEFINE r == request[q]
    <2>1. CASE version' = version
      BY <1>1, <1>4, <2>1 DEF Retire, Refuse
    <2>2. CASE version' # version
      <3>1. /\ r.v \in VersionNumbers /\ wasActive' = wasActive /\ Written(r.v)
            /\ version' = [version EXCEPT ![r.v].status = "retired"]
        BY <1>4, <2>2 DEF Retire, Refuse, ConfigCalls, RequestInv, ReadStillTrue
      <3>2. version[r.v] \in VersionRows
        BY <3>1 DEF Written
      <3>3. version'[r.v] = [version[r.v] EXCEPT !.status = "retired"]
        BY <3>1
      <3>4. /\ version'[r.v] \in VersionRows /\ version'[r.v].status = "retired"
            /\ version'[r.v].by = version[r.v].by /\ version'[r.v].from = version[r.v].from
            /\ version'[r.v].author = version[r.v].author
        BY <3>2, <3>3 DEF VersionRows, Statuses
      <3>5. \A v \in VersionNumbers : v # r.v => version'[v] = version[v]
        BY <3>1
      <3>6. version' \in [VersionNumbers -> VersionRows \cup {NoVersion}]
        BY <3>1, <3>4
      <3>7. \A v \in VersionNumbers : Written(v)' <=> Written(v)
        BY <3>1, <3>4, <3>5, ConfigAssumption DEF Written
      <3>8. \A v \in VersionNumbers : Written(v)' =>
              /\ version'[v].from \in 0..(v - 1)
              /\ version'[v].by # NoRequest <=> v \in wasActive'
        BY <3>1, <3>4, <3>5, <3>7
      <3>9. ActiveVersions' \subseteq ActiveVersions
        BY <3>1, <3>4, <3>5 DEF ActiveVersions, Written
      <3>10. ActiveInv' /\ wasActive' \subseteq {v \in VersionNumbers : Written(v)'}
        BY <3>1, <3>7, <3>9 DEF ActiveInv
      <3>11. ApprovedInv'
        BY <3>1, <3>4, <3>5 DEF ApprovedInv
      <3>12. QED
        BY <3>6, <3>8, <3>10, <3>11
    <2>3. QED
      BY <2>1, <2>2
  <1>5. QED
    BY <1>1, <1>2, <1>3, <1>4, Writes

-----------------------------------------------------------------------------
(* The conjunction is inductive.                                           *)
LEMMA ConfigTypeStep == ConfigInv /\ [ConfigNext]_configVars => ConfigTypeOK'
  <1> SUFFICES ASSUME ConfigInv, [ConfigNext]_configVars PROVE ConfigTypeOK'
    OBVIOUS
  <1>1. \A v \in VersionNumbers : Written(v)' /\ v > 1 => Written(v - 1)'
    BY NumberedStep, ConfigAssumption DEF NumberedInv, VersionNumbers
  <1>2. requests' \in 0..MaxRequests
    <2>1. requests \in 0..MaxRequests
      BY DEF ConfigInv, ConfigTypeOK
    <2>2. ASSUME NEW q \in Requests, NEW m \in Managers, ConfigRoutes(q, m)
          PROVE  requests < MaxRequests /\ requests' = requests + 1
      BY <2>2 DEF ConfigRoutes, create_version, activate_version, restore_version,
                  retire_version, Begin
    <2>3. ASSUME NEW q \in Requests,
                 Rejected(q) \/ InsertVersion(q) \/ ReadPrevious(q) \/ _activate(q) \/ Retire(q)
          PROVE  requests' = requests
      BY <2>3 DEF Rejected, InsertVersion, ReadPrevious, _activate, Retire, Refuse
    <2>4. requests' = requests \/ (requests < MaxRequests /\ requests' = requests + 1)
      BY <2>2, <2>3 DEF ConfigNext, configVars
    <2>5. QED
      BY <2>1, <2>4, ConfigAssumption
  <1>3. QED
    BY <1>1, <1>2, RequestTyped, RowsStep DEF ConfigTypeOK

LEMMA ConfigInvariant == ConfigSpec => []ConfigInv
  <1>1. ConfigInv /\ [ConfigNext]_configVars => ConfigInv'
    BY ConfigTypeStep, NumberedStep, VersionRequestStep, RowsStep DEF ConfigInv
  <1>2. QED
    BY <1>1, ConfigInitInv, PTL DEF ConfigSpec

(* Every reachable state of the versions and of the requests is well typed,*)
(* the versions are numbered without a gap, and a row tells who activated  *)
(* it exactly when it has been active (config_versions.py,                 *)
(* protect_config_version).                                                *)
THEOREM ConfigTypeCorrect == ConfigSpec => []ConfigTypeOK
  <1>1. ConfigInv => ConfigTypeOK
    BY DEF ConfigInv
  <1>2. QED
    BY <1>1, ConfigInvariant, PTL

(* Whatever activations, retirements and restorations overlap, one version *)
(* at most is active, and nobody activated a version of their own.         *)
THEOREM OneActiveApprovedHolds == ConfigSpec => []OneActiveApproved
  <1>1. ConfigInv => OneActiveApproved
    <2>1. SUFFICES ASSUME ConfigInv PROVE Cardinality(ActiveVersions) <= 1
      BY DEF ConfigInv, ApprovedInv, OneActiveApproved
    <2>2. CASE ActiveVersions = {}
      BY <2>2, FS_EmptySet
    <2>3. CASE ActiveVersions # {}
      <3>1. PICK v : v \in ActiveVersions
        BY <2>3
      <3>2. ActiveVersions = {v}
        BY <2>1, <3>1 DEF ConfigInv, ActiveInv
      <3>3. Cardinality({v}) = 1
        BY FS_Singleton, Zenon
      <3>4. QED
        BY <3>2, <3>3
    <2>4. QED
      BY <2>2, <2>3
  <1>2. QED
    BY <1>1, ConfigInvariant, PTL

(* A version is superseded in the very step that activates another one,    *)
(* and a version that was replaced never comes back.                       *)
THEOREM TakesOverHolds == ConfigSpec => [][TakesOver]_configVars
  <1>1. ConfigInv /\ [ConfigNext]_configVars => [TakesOver]_configVars
    <2> SUFFICES ASSUME ConfigInv, [ConfigNext]_configVars, NEW v \in VersionNumbers
        PROVE  /\ v \in ActiveVersions /\ v \notin ActiveVersions'
                  /\ version'[v].status # "retired"
                     => \E w \in VersionNumbers \ {v} :
                           w \in ActiveVersions' /\ w \notin ActiveVersions
               /\ v \in wasActive /\ v \notin ActiveVersions => v \notin ActiveVersions'
      BY DEF TakesOver
    <2> USE DEF ConfigInv, ConfigTypeOK
    <2>1. CASE version' = version /\ wasActive' = wasActive
      BY <2>1 DEF ActiveVersions, Written
    <2>2. ASSUME NEW q \in Requests, request[q] # NoRequest, InsertVersion(q)
          PROVE  ActiveVersions' = ActiveVersions
      <3> DEFINE r == request[q]
      <3>1. CASE version' = version
        BY <3>1 DEF ActiveVersions, Written
      <3>2. CASE version' # version
        <4>1. /\ r.v \in VersionNumbers /\ ~Written(r.v)
              /\ version' = [version EXCEPT ![r.v] = Draft(r.by, 0)]
          BY <2>2, <3>2 DEF InsertVersion, Refuse, ConfigCalls
        <4>2. Draft(r.by, 0).status = "draft"
          BY DEF Draft
        <4>3. \A w \in VersionNumbers : w # r.v => version'[w] = version[w]
          BY <4>1
        <4>4. version'[r.v] = Draft(r.by, 0)
          BY <4>1
        <4>5. QED
          BY <4>1, <4>2, <4>3, <4>4 DEF ActiveVersions, Written
      <3>3. QED
        BY <3>1, <3>2
    <2>3. ASSUME NEW q \in Requests, request[q] # NoRequest, _activate(q),
                 version' # version \/ wasActive' # wasActive
          PROVE  LET r == request[q] IN
                 /\ r.v \in ActiveVersions' /\ r.v \notin wasActive
                 /\ ActiveVersions' \subseteq ActiveVersions \cup {r.v}
      <3> DEFINE r == request[q]
      <3>1. /\ r \in ConfigCalls /\ wasActive' = wasActive \cup {r.v}
            /\ r.new <=> ~Written(r.v)
            /\ ~r.new => version[r.v].status \in {"draft", "active"} /\ r.v \notin wasActive
            /\ version'[r.v] = [status |-> "active", by |-> r.by,
                 author |-> IF r.new THEN r.by ELSE version[r.v].author,
                 from |-> IF r.new THEN r.from ELSE version[r.v].from]
            /\ r.op = "replace"
        BY <2>3, ActivateRows
      <3>2. r.v \in VersionNumbers /\ r.v \notin wasActive
        BY <3>1 DEF ConfigCalls, ActiveInv, Written
      <3>3. version'[r.v] # NoVersion
        BY <3>1, <3>2, RowsStep DEF Written
      <3>4. r.v \in ActiveVersions'
        BY <3>1, <3>2, <3>3 DEF ActiveVersions, Written
      <3>5. ActiveVersions' = {r.v}
        BY <3>4, RowsStep DEF ActiveInv
      <3>6. QED
        BY <3>2, <3>4, <3>5
    <2>4. ASSUME NEW q \in Requests, request[q] # NoRequest, Retire(q)
          PROVE  /\ ActiveVersions' \subseteq ActiveVersions
                 /\ v \in ActiveVersions /\ v \notin ActiveVersions'
                       => version'[v].status = "retired"
      <3> DEFINE r == request[q]
      <3>1. CASE version' = version
        BY <3>1 DEF ActiveVersions, Written
      <3>2. CASE version' # version
        <4>1. /\ r.v \in VersionNumbers /\ Written(r.v)
              /\ version' = [version EXCEPT ![r.v].status = "retired"]
          BY <2>4, <3>2 DEF Retire, Refuse, ConfigCalls, RequestInv, ReadStillTrue
        <4>2. version[r.v] \in VersionRows
          BY <4>1 DEF Written
        <4>3. version'[r.v].status = "retired"
          BY <4>1, <4>2 DEF VersionRows
        <4>4. \A w \in VersionNumbers : w # r.v => version'[w] = version[w]
          BY <4>1
        <4>5. QED
          BY <4>1, <4>3, <4>4 DEF ActiveVersions, Written
      <3>3. QED
        BY <3>1, <3>2
    <2>5. QED
      <3>1. ActiveVersions \subseteq wasActive
        BY DEF ActiveInv
      <3>2. CASE \E q \in Requests : request[q] # NoRequest /\ _activate(q)
                              /\ (version' # version \/ wasActive' # wasActive)
        <4>1. PICK w \in VersionNumbers :
                 /\ w \in ActiveVersions' /\ w \notin wasActive
                 /\ ActiveVersions' \subseteq ActiveVersions \cup {w}
          BY <2>3, <3>2 DEF ActiveVersions
        <4>2. QED
          BY <3>1, <4>1
      <3>3. QED
        BY <2>1, <2>2, <2>4, <3>1, <3>2, Writes
  <1>2. QED
    BY <1>1, ConfigInvariant, PTL DEF ConfigSpec

-----------------------------------------------------------------------------
(* The points that are found.  A request writes by id on what it has read; *)
(* a point that exists is never removed, so that it still exists then.     *)

(* What a request about a point has read is that the point exists; who     *)
(* created it is a proposal that is accepted.                              *)
ReadExists == \A t \in Transactions :
    work[t] # NoWork /\ work[t].op \in {"identify", "decide"} => point[work[t].c] # NoPoint
CommInv == CommTypeOK /\ ReadExists /\ PointOfAccepted

LEMMA CommInitInv == CommInit => CommInv
  <1> SUFFICES ASSUME CommInit PROVE CommInv
    OBVIOUS
  <1>1. NoValue \in ProposalRows
    BY DEF NoValue, ProposalRows
  <1> QED BY <1>1, CommAssumption
     DEF CommInit, CommInv, CommTypeOK, ReadExists, PointOfAccepted, NoValue

(* What is open and what it stands for.                                    *)
LEMMA OpenTyped ==
  ASSUME CommInv, NEW t \in Transactions, work[t] # NoWork
  PROVE  /\ work[t] \in WorksOpen
         /\ work[t].op \in {"complete", "judged", "fail", "accept", "reject", "identify", "decide"}
         /\ work[t].op \in {"complete", "judged"} => work[t].b \in Batches /\ work[t].objects \in SUBSET Objects
         /\ work[t].op = "fail" => work[t].b \in Batches
         /\ work[t].op = "accept" => /\ work[t].p \in Proposals /\ work[t].code \in PointCodes
                                     /\ work[t].known \in SUBSET PointFields
         /\ work[t].op = "reject" => work[t].p \in Proposals
         /\ work[t].op = "identify" => work[t].c \in PointCodes /\ work[t].known \in SUBSET PointFields
         /\ work[t].op = "decide" => /\ work[t].c \in PointCodes
                                     /\ work[t].decision \in {"validated", "rejected"}
  <1>1. work[t] \in WorksOpen
    BY DEF CommInv, CommTypeOK
  <1> QED BY <1>1 DEF WorksOpen

(* Requests that begin, and those of the agent.                            *)
LEMMA ReadsKeep ==
  ASSUME CommInv, NEW t \in Transactions, NEW w \in WorksOpen,
         work' = [work EXCEPT ![t] = w],
         w.op \in {"identify", "decide"} => point[w.c] # NoPoint,
         UNCHANGED <<batch, proposal, point>>, todo' \in SUBSET Batches,
         awaited' \in Transactions \cup {NoWork}, losses' \in 0..MaxFaults
  PROVE  CommInv'
  <1>1. work' \in [Transactions -> WorksOpen \cup {NoWork}]
    BY DEF CommInv, CommTypeOK
  <1>2. ReadExists'
    BY DEF CommInv, CommTypeOK, ReadExists
  <1> QED BY <1>1, <1>2 DEF CommInv, CommTypeOK, PointOfAccepted

(* Steps that begin or end no request about a point and write no row.      *)
LEMMA OthersKeep ==
  ASSUME CommInv, UNCHANGED <<proposal, point>>,
         batch' \in [Batches -> {"none", "processing", "ready", "failed"}],
         work' \in [Transactions -> WorksOpen \cup {NoWork}],
         \A t \in Transactions : work'[t] = work[t] \/ work'[t] = NoWork
                                 \/ work'[t].op \notin {"identify", "decide"},
         todo' \in SUBSET Batches, awaited' \in Transactions \cup {NoWork},
         losses' \in 0..MaxFaults
  PROVE  CommInv'
  BY DEF CommInv, CommTypeOK, ReadExists, PointOfAccepted

LEMMA AnsweredTyped ==
  ASSUME CommInv, NEW t \in Transactions, Answered(t)
  PROVE  /\ work' = [work EXCEPT ![t] = NoWork]
         /\ work' \in [Transactions -> WorksOpen \cup {NoWork}]
         /\ \A u \in Transactions : work'[u] = work[u] \/ work'[u] = NoWork
         /\ awaited' \in Transactions \cup {NoWork} /\ UNCHANGED <<todo, losses>>
  BY DEF CommInv, CommTypeOK, Answered

LEMMA CommStep == CommInv /\ [CommNext]_commVars => CommInv'
  <1> SUFFICES ASSUME CommInv, [CommNext]_commVars PROVE CommInv'
    OBVIOUS
  <1>0. /\ batch \in [Batches -> {"none", "processing", "ready", "failed"}]
        /\ proposal \in [Proposals -> ProposalRows]
        /\ \A p \in Proposals : (proposal[p].point # NoPoint) <=> (proposal[p].status = "accepted")
        /\ point \in [PointCodes -> PointRows \cup {NoPoint}]
        /\ work \in [Transactions -> WorksOpen \cup {NoWork}]
        /\ todo \subseteq Batches /\ awaited \in Transactions \cup {NoWork}
        /\ losses \in 0..MaxFaults
        /\ ReadExists /\ PointOfAccepted
    BY DEF CommInv, CommTypeOK
  <1>a. MaxFaults \in Nat /\ NoPoint \notin PointCodes /\ NoPoint \notin PointRows
    BY CommAssumption
  <1>b. losses < MaxFaults => losses + 1 \in 0..MaxFaults
    BY <1>0, <1>a
  <1>1. ASSUME NEW b \in Batches, request_discovery(b) PROVE CommInv'
    BY <1>0, <1>1, OthersKeep DEF request_discovery
  <1>2. ASSUME NEW b \in Batches, ReportLost(b) PROVE CommInv'
    BY <1>0, <1>2, <1>b, OthersKeep DEF ReportLost
  <1>3. CASE AgentPoll
    <2>1. list_pending_batches \subseteq Batches
      BY DEF list_pending_batches
    <2> QED BY <1>0, <1>3, <2>1, OthersKeep DEF AgentPoll
  <1>4. ASSUME NEW b \in Batches, NEW t \in Transactions, _execute_one(b, t) PROVE CommInv'
    <2>1. CASE batch[b] # "processing"
      BY <1>0, <1>4, <2>1, OthersKeep DEF _execute_one
    <2>2. CASE batch[b] = "processing"
      <3>1. PICK w \in {[op |-> "complete", b |-> b, objects |-> seen] :
                           seen \in SUBSET Objects} \cup {[op |-> "fail", b |-> b]} :
               work' = [work EXCEPT ![t] = w]
        BY <1>4, <2>2 DEF _execute_one
      <3>2. w \in WorksOpen /\ w.op \notin {"identify", "decide"}
        BY <3>1 DEF WorksOpen
      <3>3. UNCHANGED <<batch, proposal, point, losses>> /\ awaited' = t /\ todo' = todo \ {b}
        BY <1>4, <2>2 DEF _execute_one
      <3> QED BY <1>0, <3>1, <3>2, <3>3, ReadsKeep
    <2> QED BY <2>1, <2>2
  <1>5. CASE ClientTimeout
    BY <1>0, <1>5, <1>b, OthersKeep DEF ClientTimeout
  <1>6. ASSUME NEW t \in Transactions, work[t] # NoWork, JudgeObjects(t) PROVE CommInv'
    <2> DEFINE w == [op |-> "judged", b |-> work[t].b, objects |-> work[t].objects,
                     known |-> {o \in work[t].objects : _already_accepted(o)}]
    <2>1. work[t].op = "complete" /\ work' = [work EXCEPT ![t] = w]
          /\ UNCHANGED <<batch, proposal, point, todo, awaited, losses>>
      BY <1>6, <1>0 DEF JudgeObjects
    <2>2. work[t].b \in Batches /\ work[t].objects \in SUBSET Objects
      BY <1>6, <2>1, OpenTyped
    <2>3. w \in WorksOpen /\ w.op = "judged"
      BY <2>2 DEF WorksOpen
    <2> HIDE DEF w
    <2> QED BY <1>0, <2>1, <2>3, ReadsKeep
  <1>7. ASSUME NEW t \in Transactions, work[t] # NoWork, complete_discovery(t) PROVE CommInv'
    <2>1. work[t].op = "judged" /\ Answered(t) /\ UNCHANGED point
      BY <1>7 DEF complete_discovery
    <2>2. PICK b \in Batches, os \in SUBSET Objects : b = work[t].b /\ os = work[t].objects
      BY <1>7, <2>1, OpenTyped
    <2>3. CASE ~BatchConstraints(work[t])
      BY <1>0, <1>7, <2>1, <2>3, AnsweredTyped, OthersKeep DEF complete_discovery
    <2>4. CASE BatchConstraints(work[t])
      <3>1. PICK known : known = work[t].known
        OBVIOUS
      <3>2. /\ batch' = [batch EXCEPT ![b] = "ready"]
            /\ proposal' = [p \in Proposals |->
                  IF p[1] = b /\ p[2] \in os
                  THEN [NoValue EXCEPT !.status = IF p[2] \in known THEN "duplicate" ELSE "proposed"]
                  ELSE proposal[p]]
        BY <1>7, <2>2, <2>4, <3>1, Zenon DEF complete_discovery
      <3>2a. batch' \in [Batches -> {"none", "processing", "ready", "failed"}]
        BY <1>0, <3>2
      <3>3. \A p \in Proposals :
               \/ proposal'[p] = proposal[p]
               \/ /\ proposal[p].status = "none"
                  /\ proposal'[p] \in {[status |-> "duplicate", point |-> NoPoint],
                                       [status |-> "proposed", point |-> NoPoint]}
        BY <2>2, <2>4, <3>2 DEF BatchConstraints, NoValue, Proposals
      <3>4. \A p \in Proposals : proposal'[p] \in ProposalRows
        BY <1>0, <3>3 DEF ProposalRows
      <3>5. proposal' \in [Proposals -> ProposalRows]
        BY <3>2, <3>4
      <3>6. \A p \in Proposals : /\ (proposal'[p].point # NoPoint) <=> (proposal'[p].status = "accepted")
                                 /\ proposal[p].status = "accepted" => proposal'[p].status = "accepted"
        BY <1>0, <3>3
      <3>7. PointOfAccepted'
        <4>1. \A c \in PointCodes : point[c] # NoPoint => point[c].from \in Proposals
          BY <1>0 DEF PointRows
        <4> QED BY <1>0, <2>1, <3>6, <4>1 DEF PointOfAccepted
      <3>8. ReadExists'
        BY <1>0, <1>7, <2>1, AnsweredTyped DEF ReadExists
      <3> QED BY <1>0, <1>7, <2>1, <3>2a, <3>5, <3>6, <3>7, <3>8, AnsweredTyped DEF CommInv, CommTypeOK
    <2> QED BY <2>3, <2>4
  <1>8. ASSUME NEW t \in Transactions, work[t] # NoWork, fail_discovery(t) PROVE CommInv'
    BY <1>0, <1>8, AnsweredTyped, OthersKeep DEF fail_discovery
  <1>9. ASSUME NEW t \in Transactions, work[t] # NoWork, accept_proposal(t) PROVE CommInv'
    <2>1. work[t].op = "accept" /\ Answered(t) /\ UNCHANGED batch
      BY <1>9 DEF accept_proposal
    <2>2. PICK q \in Proposals, code \in PointCodes, known \in SUBSET PointFields :
             q = work[t].p /\ code = work[t].code /\ known = work[t].known
      BY <1>9, <2>1, OpenTyped
    <2>3. CASE point[code] # NoPoint
      BY <1>0, <1>9, <2>1, <2>2, <2>3, AnsweredTyped, OthersKeep DEF accept_proposal
    <2>4. CASE point[code] = NoPoint
      <3> DEFINE row == [from |-> q, known |-> known, status |-> "proposed"]
                 val == [status |-> "accepted", point |-> code]
      <3>1. point' = [point EXCEPT ![code] = row] /\ proposal' = [proposal EXCEPT ![q] = val]
        BY <1>9, <2>2, <2>4 DEF accept_proposal, create_point
      <3>2. row \in PointRows /\ val \in ProposalRows /\ row.from = q /\ val.point = code /\ val.status = "accepted"
        BY DEF PointRows, ProposalRows
      <3> HIDE DEF row, val
      <3>3. /\ point' \in [PointCodes -> PointRows \cup {NoPoint}]
            /\ proposal' \in [Proposals -> ProposalRows]
        BY <1>0, <3>1, <3>2
      <3>4. \A p \in Proposals : /\ (proposal'[p].point # NoPoint) <=> (proposal'[p].status = "accepted")
                                 /\ proposal[p].status = "accepted" => proposal'[p].status = "accepted"
        BY <1>0, <1>a, <3>1, <3>2
      <3>5. \A c \in PointCodes : point[c] # NoPoint => point'[c] # NoPoint
        BY <1>0, <1>a, <3>1, <3>2
      <3>6. ReadExists'
        <4> SUFFICES ASSUME NEW u \in Transactions, work'[u] # NoWork, work'[u].op \in {"identify", "decide"}
                     PROVE  point'[work'[u].c] # NoPoint
          BY DEF ReadExists
        <4>1. work'[u] = work[u]
          BY <1>9, <2>1, AnsweredTyped
        <4>2. work[u].c \in PointCodes
          BY <4>1, OpenTyped
        <4> QED BY <1>0, <3>5, <4>1, <4>2 DEF ReadExists
      <3>7. PointOfAccepted'
        <4>1. \A c \in PointCodes : point[c] # NoPoint => point[c].from \in Proposals
          BY <1>0 DEF PointRows
        <4>2. ASSUME NEW c \in PointCodes, point'[c] # NoPoint
              PROVE  proposal'[point'[c].from].status = "accepted"
          <5>1. CASE c = code
            BY <1>0, <3>1, <3>2, <5>1
          <5>2. CASE c # code
            BY <1>0, <3>1, <3>4, <4>1, <4>2, <5>2 DEF PointOfAccepted
          <5> QED BY <5>1, <5>2
        <4> QED BY <4>2 DEF PointOfAccepted
      <3> QED BY <1>0, <1>9, <2>1, <3>3, <3>4, <3>6, <3>7, AnsweredTyped DEF CommInv, CommTypeOK
    <2> QED BY <2>3, <2>4
  <1>10. ASSUME NEW t \in Transactions, work[t] # NoWork, reject_proposal(t) PROVE CommInv'
    <2>1. work[t].op = "reject" /\ Answered(t) /\ UNCHANGED <<batch, point>>
      BY <1>10 DEF reject_proposal
    <2>2. PICK q \in Proposals : q = work[t].p
      BY <1>10, <2>1, OpenTyped
    <2>3. CASE proposal[q].point # NoPoint
      BY <1>0, <1>10, <2>1, <2>2, <2>3, AnsweredTyped, OthersKeep DEF reject_proposal, accepted_point
    <2>4. CASE proposal[q].point = NoPoint
      <3> DEFINE val == [status |-> "rejected", point |-> NoPoint]
      <3>1. proposal' = [proposal EXCEPT ![q] = val]
        BY <1>10, <2>2, <2>4 DEF reject_proposal, accepted_point
      <3>2. val \in ProposalRows /\ val.point = NoPoint /\ val.status = "rejected"
        BY DEF ProposalRows
      <3> HIDE DEF val
      <3>3. proposal' \in [Proposals -> ProposalRows]
        BY <1>0, <3>1, <3>2
      <3>4. \A p \in Proposals : /\ (proposal'[p].point # NoPoint) <=> (proposal'[p].status = "accepted")
                                 /\ proposal[p].status = "accepted" => proposal'[p].status = "accepted"
        BY <1>0, <2>4, <3>1, <3>2
      <3>5. PointOfAccepted'
        <4>1. \A c \in PointCodes : point[c] # NoPoint => point[c].from \in Proposals
          BY <1>0 DEF PointRows
        <4> QED BY <1>0, <2>1, <3>4, <4>1 DEF PointOfAccepted
      <3>6. ReadExists'
        BY <1>0, <1>10, <2>1, AnsweredTyped DEF ReadExists
      <3> QED BY <1>0, <1>10, <2>1, <3>3, <3>4, <3>5, <3>6, AnsweredTyped DEF CommInv, CommTypeOK
    <2> QED BY <2>3, <2>4
  <1>11. ASSUME NEW t \in Transactions, NEW c \in PointCodes, NEW row, UpdatePoint(t, c, row),
                point[c] # NoPoint, row \in PointRows, row.from = point[c].from
         PROVE  CommInv'
    <2>1. Answered(t) /\ UNCHANGED <<batch, proposal>>
          /\ (point' = point \/ point' = [point EXCEPT ![c] = row])
      BY <1>11 DEF UpdatePoint
    <2>2. /\ point' \in [PointCodes -> PointRows \cup {NoPoint}]
          /\ \A d \in PointCodes : /\ (point'[d] # NoPoint) <=> (point[d] # NoPoint)
                                   /\ point[d] # NoPoint => point'[d].from = point[d].from
      BY <1>0, <1>a, <1>11, <2>1
    <2>3. ReadExists'
      <3> SUFFICES ASSUME NEW u \in Transactions, work'[u] # NoWork, work'[u].op \in {"identify", "decide"}
                   PROVE  point'[work'[u].c] # NoPoint
        BY DEF ReadExists
      <3>1. work'[u] = work[u]
        BY <2>1, AnsweredTyped
      <3>2. work[u].c \in PointCodes
        BY <3>1, OpenTyped
      <3> QED BY <1>0, <2>2, <3>1, <3>2 DEF ReadExists
    <2>4. PointOfAccepted'
      BY <1>0, <2>1, <2>2 DEF PointOfAccepted
    <2> QED BY <1>0, <2>1, <2>2, <2>3, <2>4, AnsweredTyped DEF CommInv, CommTypeOK
  <1>12. ASSUME NEW t \in Transactions, work[t] # NoWork, identify_point(t) PROVE CommInv'
    <2>1. work[t].op = "identify"
      BY <1>12 DEF identify_point
    <2>2. PICK c \in PointCodes, known \in SUBSET PointFields : c = work[t].c /\ known = work[t].known
      BY <1>12, <2>1, OpenTyped
    <2>3. point[c] # NoPoint /\ point[c] \in PointRows
      BY <1>0, <1>12, <2>1, <2>2 DEF ReadExists
    <2>4. [point[c] EXCEPT !.known = known] \in PointRows
          /\ [point[c] EXCEPT !.known = known].from = point[c].from
      BY <2>3 DEF PointRows
    <2> QED BY <1>11, <1>12, <2>2, <2>3, <2>4 DEF identify_point
  <1>13. ASSUME NEW t \in Transactions, work[t] # NoWork, decide_point(t) PROVE CommInv'
    <2>1. work[t].op = "decide"
      BY <1>13 DEF decide_point
    <2>2. PICK c \in PointCodes, d \in {"validated", "rejected"} : c = work[t].c /\ d = work[t].decision
      BY <1>13, <2>1, OpenTyped
    <2>3. point[c] # NoPoint /\ point[c] \in PointRows
      BY <1>0, <1>13, <2>1, <2>2 DEF ReadExists
    <2>4. [point[c] EXCEPT !.status = d] \in PointRows
          /\ [point[c] EXCEPT !.status = d].from = point[c].from
      BY <2>3 DEF PointRows
    <2> QED BY <1>11, <1>13, <2>2, <2>3, <2>4 DEF decide_point
  <1>14. ASSUME NEW t \in Transactions, NEW p \in Proposals, NEW c \in PointCodes,
                NEW known \in SUBSET PointFields, ReadProposal(t, "accept", p, c, known)
         PROVE  CommInv'
    <2> DEFINE w == [op |-> "accept", p |-> p, code |-> c, known |-> known]
    <2>1. w \in WorksOpen /\ w.op = "accept"
      BY DEF WorksOpen
    <2>2. work' = [work EXCEPT ![t] = w] /\ UNCHANGED <<batch, proposal, point, todo, awaited, losses>>
      BY <1>14 DEF ReadProposal, Reads
    <2> HIDE DEF w
    <2> QED BY <1>0, <2>1, <2>2, ReadsKeep
  <1>15. ASSUME NEW t \in Transactions, NEW p \in Proposals, ReadProposal(t, "reject", p, NoPoint, {})
         PROVE  CommInv'
    <2> DEFINE w == [op |-> "reject", p |-> p, code |-> NoPoint, known |-> {}]
    <2>1. w \in WorksOpen /\ w.op = "reject"
      BY DEF WorksOpen
    <2>2. work' = [work EXCEPT ![t] = w] /\ UNCHANGED <<batch, proposal, point, todo, awaited, losses>>
      BY <1>15 DEF ReadProposal, Reads
    <2> HIDE DEF w
    <2> QED BY <1>0, <2>1, <2>2, ReadsKeep
  <1>16. ASSUME NEW t \in Transactions, NEW c \in PointCodes, ReadToIdentify(t, c) PROVE CommInv'
    <2>1. point[c] # NoPoint /\ point[c] \in PointRows
      BY <1>0, <1>16 DEF ReadToIdentify, Editable
    <2>2. PICK field \in PointFields : \E merged \in {point[c].known \cup {field}, point[c].known \ {field}} :
             ReadPoint(t, [op |-> "identify", c |-> c, known |-> merged])
      BY <1>16 DEF ReadToIdentify
    <2>3. PICK merged \in {point[c].known \cup {field}, point[c].known \ {field}} :
             ReadPoint(t, [op |-> "identify", c |-> c, known |-> merged])
      BY <2>2
    <2> DEFINE w == [op |-> "identify", c |-> c, known |-> merged]
    <2>4. merged \in SUBSET PointFields
      BY <2>1, <2>3 DEF PointRows
    <2>5. w \in WorksOpen /\ w.c = c
      BY <2>4 DEF WorksOpen
    <2>6. work' = [work EXCEPT ![t] = w] /\ UNCHANGED <<batch, proposal, point, todo, awaited, losses>>
      BY <2>3 DEF ReadPoint, Reads
    <2> HIDE DEF w
    <2> QED BY <1>0, <2>1, <2>5, <2>6, ReadsKeep
  <1>17. ASSUME NEW t \in Transactions, NEW c \in PointCodes, ReadToDecide(t, c) PROVE CommInv'
    <2>1. point[c] # NoPoint
      BY <1>17 DEF ReadToDecide, Editable
    <2>2. PICK d \in {"validated", "rejected"} : ReadPoint(t, [op |-> "decide", c |-> c, decision |-> d])
      BY <1>17 DEF ReadToDecide
    <2> DEFINE w == [op |-> "decide", c |-> c, decision |-> d]
    <2>3. w \in WorksOpen /\ w.c = c
      BY DEF WorksOpen
    <2>4. work' = [work EXCEPT ![t] = w] /\ UNCHANGED <<batch, proposal, point, todo, awaited, losses>>
      BY <2>2 DEF ReadPoint, Reads
    <2> HIDE DEF w
    <2> QED BY <1>0, <2>1, <2>3, <2>4, ReadsKeep
  <1>18. CASE UNCHANGED commVars
    BY <1>0, <1>18, OthersKeep DEF commVars
  <1>19. ASSUME NEW t \in Transactions, Works(t) PROVE CommInv'
    BY <1>19, <1>6, <1>7, <1>8, <1>9, <1>10, <1>12, <1>13 DEF Works
  <1>20. ASSUME NEW t \in Transactions, Person(t) PROVE CommInv'
    BY <1>20, <1>14, <1>15, <1>16, <1>17 DEF Person
  <1> QED BY <1>1, <1>2, <1>3, <1>4, <1>5, <1>18, <1>19, <1>20 DEF CommNext, Agent

LEMMA CommInvariant == CommSpec => []CommInv
  BY CommInitInv, CommStep, PTL DEF CommSpec

(* The rows of the scans, of their proposals and of the points, and what   *)
(* the open requests have read.                                            *)
THEOREM CommTypeCorrect == CommSpec => []CommTypeOK
  <1>1. CommInv => CommTypeOK
    BY DEF CommInv
  <1> QED BY <1>1, CommInvariant, PTL

(* Whoever accepts and rejects a proposal at the same time, a point keeps  *)
(* the accepted proposal it was created from (accept_proposal,             *)
(* reject_proposal, app/bacnet_discovery.py).                              *)
THEOREM PointOfAcceptedHolds == CommSpec => []PointOfAccepted
  <1>1. CommInv => PointOfAccepted
    BY DEF CommInv
  <1> QED BY <1>1, CommInvariant, PTL

-----------------------------------------------------------------------------
(* The unit of a point.  A request writes what it judged on an older row:  *)
(* the trigger accepts a write only while the point is proposed, hence     *)
(* before any reading that is not flagged, and a reading is not flagged    *)
(* only once the point is validated, after which it no longer changes.     *)

(* An unflagged reading is of a point that is validated, in its unit.      *)
InItsUnit(r) ==
    \/ r.flagged
    \/ defined # Unknown /\ defined.status = "validated" /\ r.unit \in {defined.unit, Unknown}
VocInv ==
    /\ VocTypeOK
    /\ found # Unknown => defined = Unknown
    /\ defined = Unknown => vocReadings = {} /\ \A c \in VocCallers : vocCalls[c] = Unknown
    /\ defined # Unknown => Consistent(defined)
    /\ \A c \in VocCallers : vocCalls[c] # Unknown =>
          /\ vocCalls[c].op = "identify" => Consistent(vocCalls[c].row)
          /\ vocCalls[c].op = "record" => InItsUnit(vocCalls[c])
    /\ \A r \in vocReadings : InItsUnit(r)

LEMMA QuantityOfUnit ==
  /\ UnitQuantity["percent"] = "ratio" /\ "percent" \in DOMAIN UnitQuantity
  /\ "percent-relative-humidity" \notin DOMAIN UnitQuantity
  BY DEF UnitQuantity

LEMMA QuantitiesNamed ==
  Unknown \notin {"temperature", "pressure", "concentration", "power", "energy"}
  <1>1. /\ {"Cel", "Pa", "ppm", "W", "kWh"} \subseteq DOMAIN UnitQuantity
        /\ UnitQuantity["Cel"] = "temperature" /\ UnitQuantity["Pa"] = "pressure"
        /\ UnitQuantity["ppm"] = "concentration" /\ UnitQuantity["W"] = "power"
        /\ UnitQuantity["kWh"] = "energy"
    BY DEF UnitQuantity
  <1> QED BY <1>1, VocAssumption

LEMMA QuantityOfClass ==
  /\ DOMAIN NumberClass = {"temperature_sensor", "temperature_setpoint", "pressure_sensor",
                           "humidity_sensor", "co2_sensor", "electric_power_sensor",
                           "energy_meter_reading", "heating_valve_position"}
  /\ NumberClass["temperature_sensor"] = "temperature"
  /\ NumberClass["temperature_setpoint"] = "temperature"
  /\ NumberClass["pressure_sensor"] = "pressure" /\ NumberClass["humidity_sensor"] = "ratio"
  /\ NumberClass["co2_sensor"] = "concentration" /\ NumberClass["electric_power_sensor"] = "power"
  /\ NumberClass["energy_meter_reading"] = "energy"
  BY DEF NumberClass

LEMMA UnitsKnown ==
  ASSUME NEW units
  PROVE  /\ map_bacnet_unit(units) \in DOMAIN UnitQuantity \cup {Unknown}
         /\ units = "percent-relative-humidity" => map_bacnet_unit(units) = "percent"
  BY QuantityOfUnit DEF map_bacnet_unit

LEMMA GuessTyped ==
  ASSUME NEW o
  PROVE  /\ guess_point_class(o).class \in VocClasses /\ guess_point_class(o).unit \in VocUnits
         /\ ValueType(o) \in {"number", "boolean", "multistate"}
  <1>1. ValueType(o) \in {"number", "boolean", "multistate"}
    BY DEF ValueType
  <1>2. NumberGuess(o).class \in VocClasses /\ NumberGuess(o).unit = map_bacnet_unit(o.units)
    BY QuantityOfClass DEF NumberGuess, Guess, TemperatureClass, VocClasses
  <1>3. BooleanGuess(o).class \in VocClasses /\ BooleanGuess(o).unit = Unknown
    BY DEF BooleanGuess, Guess, VocClasses, BooleanClasses
  <1>4. guess_point_class(o) \in {NumberGuess(o), BooleanGuess(o), Guess(Unknown, Unknown, 0)}
    BY <1>1 DEF guess_point_class
  <1> QED BY <1>1, <1>2, <1>3, <1>4, UnitsKnown DEF VocClasses, VocUnits, Guess

LEMMA ConfidentGuess ==
  ASSUME NEW o, guess_point_class(o).confidence >= 80
  PROVE  ReadyForValidation(Definition(guess_point_class(o).class, guess_point_class(o).unit, ValueType(o)))
  <1>1. PICK g : g = guess_point_class(o)
    OBVIOUS
  <1>2. CASE ValueType(o) = "number"
    <2>1. g = NumberGuess(o)
      BY <1>1, <1>2 DEF guess_point_class
    <2>2. PICK unit \in DOMAIN UnitQuantity \cup {Unknown} : unit = map_bacnet_unit(o.units)
      BY UnitsKnown
    <2>3. PICK q : q = IF unit = Unknown THEN Unknown ELSE UnitQuantity[unit]
      OBVIOUS
    <2>4. /\ g.unit = unit
          /\ \/ q = "temperature" /\ g.class \in {"temperature_setpoint", "temperature_sensor"}
             \/ q = "pressure" /\ g.class = "pressure_sensor"
             \/ unit = "percent" /\ g.class = "humidity_sensor"
             \/ q = "concentration" /\ g.class = "co2_sensor"
             \/ q = "power" /\ g.class = "electric_power_sensor"
             \/ q = "energy" /\ g.class = "energy_meter_reading"
             \/ g.confidence \in {0, 50}
      BY <2>1, <2>2, <2>3, UnitsKnown DEF NumberGuess, Guess, TemperatureClass
    <2>5. g.confidence \notin {0, 50}
      BY <1>1
    <2>6. unit # Unknown /\ q = UnitQuantity[unit]
      <3>1. unit = "percent" \/ q \in {"temperature", "pressure", "concentration", "power", "energy"}
        BY <2>4, <2>5
      <3>2. "percent" # Unknown
        BY QuantityOfUnit, VocAssumption
      <3> QED BY <2>3, <3>1, <3>2, QuantitiesNamed
    <2>7. g.class \in DOMAIN NumberClass /\ UnitQuantity[unit] = NumberClass[g.class]
      <3>1. CASE unit = "percent" /\ g.class = "humidity_sensor"
        BY <3>1, QuantityOfUnit, QuantityOfClass
      <3>2. CASE q = "temperature" /\ g.class \in {"temperature_setpoint", "temperature_sensor"}
        BY <3>2, <2>6, QuantityOfClass
      <3> QED BY <2>4, <2>5, <2>6, <3>1, <3>2, QuantityOfClass
    <2>8. unit \in DOMAIN UnitQuantity /\ g.class # Unknown
      BY <2>2, <2>6, <2>7, VocAssumption
    <2> QED BY <1>1, <1>2, <2>4, <2>6, <2>7, <2>8 DEF ReadyForValidation, Consistent, Definition
  <1>3. CASE ValueType(o) = "boolean"
    <2>1. g.class = "fault_status" /\ g.unit = Unknown
      BY <1>1, <1>3 DEF guess_point_class, BooleanGuess, Guess
    <2>2. g.class # Unknown /\ g.class \in BooleanClasses
      BY <2>1, VocAssumption DEF BooleanClasses
    <2> QED BY <1>1, <1>3, <2>1, <2>2 DEF ReadyForValidation, Consistent, Definition
  <1>4. ValueType(o) \in {"number", "boolean"}
    BY DEF guess_point_class, Guess
  <1> QED BY <1>2, <1>3, <1>4

LEMMA VocInitInv == VocInit => VocInv
  BY VocAssumption DEF VocInit, VocInv, VocTypeOK

(* A request that is read: nothing else changes.                           *)
LEMMA ReadKeeps ==
  ASSUME VocInv, NEW c \in VocCallers, NEW q \in VocRequests, ReadDefinition(c, q),
         q.op = "identify" => Consistent(q.row), q.op = "record" => InItsUnit(q)
  PROVE  VocInv'
  <1>1. /\ vocCalls' \in [VocCallers -> VocRequests \cup {Unknown}] /\ vocCalls'[c] = q
        /\ \A d \in VocCallers : d # c => vocCalls'[d] = vocCalls[d]
        /\ vocSteps' \in 0..MaxVocCalls /\ defined # Unknown
        /\ UNCHANGED <<found, defined, vocReadings>>
    BY VocAssumption DEF ReadDefinition, VocInv, VocTypeOK
  <1>2. VocTypeOK'
    BY <1>1 DEF VocInv, VocTypeOK
  <1> QED BY <1>1, <1>2 DEF VocInv, InItsUnit

LEMMA AcceptKeeps == VocInv /\ AcceptFound => VocInv'
  <1> SUFFICES ASSUME VocInv, AcceptFound PROVE VocInv'
    OBVIOUS
  <1>0. PICK class \in ClassesTyped \cup {guess_point_class(found).class},
             unit \in UnitsTyped \cup {guess_point_class(found).unit} :
           LET entered == Definition(class, unit, ValueType(found)) IN
           Consistent(entered) /\ defined' = entered
    BY DEF AcceptFound
  <1>1. PICK row : /\ row = Definition(class, unit, ValueType(found))
                   /\ Consistent(row) /\ defined' = row
    BY <1>0
  <1>2. row \in DefinedRows
    BY <1>0, <1>1, GuessTyped DEF Definition, DefinedRows, VocClasses, VocUnits
  <1>3. found' = Unknown /\ UNCHANGED <<vocCalls, vocReadings, vocSteps>> /\ defined = Unknown
    BY DEF AcceptFound, VocInv
  <1>4. vocReadings' = {} /\ \A c \in VocCallers : vocCalls'[c] = Unknown
    BY <1>3 DEF VocInv
  <1>5. VocTypeOK'
    BY <1>1, <1>2, <1>3 DEF VocInv, VocTypeOK
  <1>6. defined' # Unknown
    BY <1>1, <1>2, VocAssumption
  <1> QED BY <1>1, <1>3, <1>4, <1>5, <1>6 DEF VocInv

(* The definition changes only while it is proposed, hence before any      *)
(* reading that is not flagged.                                            *)
LEMMA UpdateKeeps ==
  ASSUME VocInv, NEW c \in VocCallers, vocCalls[c] # Unknown,
         vocCalls' = [vocCalls EXCEPT ![c] = Unknown],
         UNCHANGED <<found, vocSteps, vocReadings>>,
         NEW row \in DefinedRows, Consistent(row), UpdateDefinition(row)
  PROVE  VocInv'
  <1>1. /\ vocCalls' \in [VocCallers -> VocRequests \cup {Unknown}]
        /\ \A d \in VocCallers : vocCalls'[d] \in {vocCalls[d], Unknown}
        /\ defined # Unknown /\ defined \in DefinedRows
    BY DEF VocInv, VocTypeOK
  <1>2. defined' \in DefinedRows /\ Consistent(defined')
    BY <1>1 DEF UpdateDefinition, VocInv
  <1>3. defined' # Unknown
    BY <1>2, VocAssumption
  <1>4. VocTypeOK'
    BY <1>1, <1>2 DEF VocInv, VocTypeOK
  <1>5. ASSUME NEW r, InItsUnit(r) PROVE InItsUnit(r)'
    BY <1>5 DEF InItsUnit, UpdateDefinition
  <1>6. (\A d \in VocCallers : vocCalls[d] # Unknown =>
           /\ vocCalls[d].op = "identify" => Consistent(vocCalls[d].row)
           /\ vocCalls[d].op = "record" => InItsUnit(vocCalls[d]))'
    <2>1. ASSUME NEW d \in VocCallers, (vocCalls[d] # Unknown)'
          PROVE  (/\ vocCalls[d].op = "identify" => Consistent(vocCalls[d].row)
                  /\ vocCalls[d].op = "record" => InItsUnit(vocCalls[d]))'
      <3>1. PICK q : q = vocCalls[d] /\ q = vocCalls'[d] /\ q # Unknown
        BY <1>1, <2>1
      <3>2. /\ q.op = "identify" => Consistent(q.row)
            /\ q.op = "record" => InItsUnit(q)
        BY <3>1 DEF VocInv
      <3>3. q.op = "record" => InItsUnit(q)'
        BY <1>5, <3>2
      <3> QED BY <3>1, <3>2, <3>3 DEF InItsUnit
    <2> QED BY <2>1
  <1>7. \A r \in vocReadings' : InItsUnit(r)'
    BY <1>5 DEF VocInv
  <1>8. found' # Unknown => defined' = Unknown
    BY <1>1 DEF VocInv
  <1> QED BY <1>2, <1>3, <1>4, <1>6, <1>7, <1>8 DEF VocInv

LEMMA VocStep == VocInv /\ [VocNext]_vocVars => VocInv'
  <1> SUFFICES ASSUME VocInv, [VocNext]_vocVars PROVE VocInv'
    OBVIOUS
  <1>1. ASSUME NEW c \in VocCallers, RequestIdentify(c) PROVE VocInv'
    <2>0. PICK class \in ClassesTyped \cup {defined.class, Unknown},
               unit \in UnitsTyped \cup {defined.unit, Unknown} :
            LET asked == [defined EXCEPT !.class = class, !.unit = unit] IN
            Consistent(asked) /\ ReadDefinition(c, [op |-> "identify", row |-> asked])
      BY <1>1 DEF RequestIdentify
    <2>1. PICK row :
            /\ row = [defined EXCEPT !.class = class, !.unit = unit]
            /\ Consistent(row) /\ ReadDefinition(c, [op |-> "identify", row |-> row])
      BY <2>0
    <2>2. defined \in DefinedRows
      BY <1>1 DEF RequestIdentify, VocInv, VocTypeOK
    <2>3. row \in DefinedRows
      BY <2>0, <2>1, <2>2 DEF DefinedRows, VocClasses, VocUnits
    <2>4. PICK q : q = [op |-> "identify", row |-> row]
      OBVIOUS
    <2>5. q \in VocRequests /\ q.op = "identify" /\ q.row = row
      BY <2>3, <2>4 DEF VocRequests
    <2> QED BY <2>1, <2>4, <2>5, ReadKeeps
  <1>2. ASSUME NEW c \in VocCallers, RequestDecision(c) PROVE VocInv'
    <2>1. PICK decision \in {"validated", "rejected"} :
            ReadDefinition(c, [op |-> "decide", decision |-> decision])
      BY <1>2 DEF RequestDecision
    <2>2. PICK q : q = [op |-> "decide", decision |-> decision]
      OBVIOUS
    <2>3. q \in VocRequests /\ q.op = "decide"
      BY <2>2 DEF VocRequests
    <2> QED BY <2>1, <2>2, <2>3, ReadKeeps
  <1>3. ASSUME NEW c \in VocCallers, RequestReading(c) PROVE VocInv'
    <2>1. PICK unit \in UnitsTyped \cup {Unknown} :
            /\ unit \in {defined.unit, Unknown} /\ defined # Unknown
            /\ defined.status # "rejected"
            /\ ReadDefinition(c, [op |-> "record", unit |-> unit,
                                  flagged |-> defined.status # "validated"])
      BY <1>3 DEF RequestReading
    <2>2. PICK q : q = [op |-> "record", unit |-> unit, flagged |-> defined.status # "validated"]
      OBVIOUS
    <2>3. unit \in VocUnits
      BY <2>1 DEF VocUnits
    <2>4. q \in VocRequests
      BY <2>2, <2>3 DEF VocRequests
    <2>5. q.op = "record" /\ q.unit = unit /\ q.flagged = (defined.status # "validated")
      BY <2>2
    <2>6. InItsUnit(q)
      <3>1. q.flagged \/ defined.status = "validated"
        BY <2>2, Zenon
      <3> QED BY <2>1, <2>5, <3>1, Zenon DEF InItsUnit
    <2> QED BY <2>1, <2>2, <2>4, <2>5, <2>6, ReadKeeps
  <1>4. ASSUME NEW c \in VocCallers, VocWrite(c) PROVE VocInv'
    <2>1. PICK call \in VocRequests : call = vocCalls[c] /\ call # Unknown
      BY <1>4 DEF VocWrite, VocInv, VocTypeOK
    <2>2. /\ vocCalls' = [vocCalls EXCEPT ![c] = Unknown] /\ UNCHANGED <<found, vocSteps>>
          /\ vocCalls[c] # Unknown
      BY <1>4 DEF VocWrite
    <2>3. defined # Unknown /\ defined \in DefinedRows /\ Consistent(defined)
      BY <2>2 DEF VocInv, VocTypeOK
    <2>4. CASE call.op = "identify"
      <3>1. PICK row : row = [call.row EXCEPT !.status = defined.status]
        OBVIOUS
      <3>2. UpdateDefinition(row) /\ UNCHANGED vocReadings
        BY <1>4, <2>1, <2>4, <3>1 DEF VocWrite
      <3>3. call.row \in DefinedRows /\ Consistent(call.row)
        BY <2>1, <2>4 DEF VocRequests, VocInv
      <3>4. row \in DefinedRows
        BY <2>3, <3>1, <3>3 DEF DefinedRows
      <3>5. row.class = call.row.class /\ row.unit = call.row.unit
            /\ row.value_type = call.row.value_type
        BY <3>1, <3>3 DEF DefinedRows
      <3>6. Consistent(row)
        BY <3>3, <3>5 DEF Consistent
      <3> QED BY <2>2, <3>2, <3>4, <3>6, UpdateKeeps
    <2>5. CASE call.op = "decide"
      <3>1. PICK row : row = [defined EXCEPT !.status = call.decision]
        OBVIOUS
      <3>2. UpdateDefinition(row) /\ UNCHANGED vocReadings
        BY <1>4, <2>1, <2>5, <3>1 DEF VocWrite
      <3>3. call.decision \in {"validated", "rejected"}
        BY <2>1, <2>5 DEF VocRequests
      <3>4. row \in DefinedRows
        BY <2>3, <3>1, <3>3 DEF DefinedRows
      <3>5. row.class = defined.class /\ row.unit = defined.unit
            /\ row.value_type = defined.value_type
        BY <2>3, <3>1 DEF DefinedRows
      <3>6. Consistent(row)
        BY <2>3, <3>5 DEF Consistent
      <3> QED BY <2>2, <3>2, <3>4, <3>6, UpdateKeeps
    <2>6. CASE call.op = "record"
      <3>1. PICK r : r = [unit |-> call.unit, flagged |-> call.flagged]
        OBVIOUS
      <3>2. vocReadings' = vocReadings \cup {r} /\ UNCHANGED defined
        BY <1>4, <2>1, <2>6, <3>1 DEF VocWrite
      <3>3. call \in [op : {"record"}, unit : VocUnits, flagged : BOOLEAN]
        BY <2>1, <2>6 DEF VocRequests
      <3>4. r \in [unit : VocUnits, flagged : BOOLEAN] /\ r.unit = call.unit /\ r.flagged = call.flagged
        BY <3>1, <3>3
      <3>5. InItsUnit(r)
        BY <2>1, <2>6, <3>4 DEF VocInv, InItsUnit
      <3>6. VocTypeOK'
        BY <2>2, <3>2, <3>4 DEF VocInv, VocTypeOK
      <3>7. \A d \in VocCallers : vocCalls'[d] \in {vocCalls[d], Unknown}
        BY <2>2 DEF VocInv, VocTypeOK
      <3> QED BY <2>2, <2>3, <3>2, <3>5, <3>6, <3>7 DEF VocInv, InItsUnit
    <2> QED BY <2>1, <2>4, <2>5, <2>6 DEF VocRequests
  <1>5. CASE UNCHANGED vocVars
    BY <1>5 DEF vocVars, VocInv, VocTypeOK, InItsUnit
  <1> QED BY <1>1, <1>2, <1>3, <1>4, <1>5, AcceptKeeps DEF VocNext

LEMMA VocInvariant == VocSpec => []VocInv
  BY VocInitInv, VocStep, PTL DEF VocSpec

(* The point, what the open requests have read of it, and the readings.    *)
THEOREM VocTypeCorrect == VocSpec => []VocTypeOK
  <1>1. VocInv => VocTypeOK
    BY DEF VocInv
  <1> QED BY <1>1, VocInvariant, PTL

(* Whatever is found and whoever identifies, decides and records at the    *)
(* same time, a guess made with confidence can be validated, the point is  *)
(* consistent, and a reading that is not flagged was declared in the unit  *)
(* of the point as it is now (point_vocabulary.py, bacnet_semantics.py,    *)
(* telemetry.record_measurement, the trigger points_protect_definition).   *)
THEOREM UnitsAgreeHolds == VocSpec => []UnitsAgree
  <1>1. VocInv => UnitsAgree
    BY ConfidentGuess DEF VocInv, InItsUnit, UnitsAgree
  <1> QED BY <1>1, VocInvariant, PTL

-----------------------------------------------------------------------------
(* The edge daemon.  The configuration of a round is the last one that the *)
(* API answered (RoundInv), which had passed the checks of its protocol    *)
(* (ActiveSound); a command is sent after both gates, written once by the  *)
(* round that holds it (OrderInv, WriteInv), and what is recorded belongs  *)
(* to a round whose answer is known (RecordedInv).                         *)

(* An active mapping passed the checks of its protocol. *)
Sound(m, p) == ValidMapping(m) /\ m.protocol = p
ActiveSound == \A p \in Protocols : active[p] # NoMapping => Sound(active[p], p)

(* The configuration of a round is the last one known, and that one is     *)
(* what the API answered last.                                             *)
InRound == {"claim", "check", "execute", "read", "post"}
Commanding == {"claim", "check", "execute"}
RoundInv ==
    /\ daemon.phase = "off" => answers = <<>> /\ daemon.round = 0 /\ daemon.last_config = NoMapping
    /\ daemon.phase # "off" => Len(answers) = daemon.round + 1
    /\ daemon.last_config # NoMapping =>
          Sound(daemon.last_config, protocol) /\ Follows(daemon.last_config, daemon.round)
    /\ daemon.phase \in InRound => daemon.config = daemon.last_config /\ daemon.config # NoMapping
    /\ daemon.phase \in Commanding => daemon.config.device_type \in COMMANDABLE_DEVICE_TYPES

(* What is held, recorded or written belongs to a round that is over or    *)
(* under way.                                                              *)
RecordedInv ==
    /\ \A k \in DOMAIN writes : /\ Follows(writes[k].mapping, writes[k].round)
                                /\ writes[k].round + 1 <= Len(answers)
    /\ \A r \in held \cup stored :
          /\ Follows(r.mapping, r.round) /\ r.round + 1 <= Len(answers)
          /\ Sound(r.mapping, protocol) /\ r.point \in PointsIn(r.mapping)

(* A command that was sent went through both gates; those that the daemon  *)
(* has yet to execute have written nothing.                                *)
Gated(o) ==
    /\ o.origin # "dry run"
    /\ o.status \in {"sent", "done"} =>
          /\ _assert_point_is_commandable(o.served, o.point)
          /\ enforce_policy(o.under, o.value, o.role)
Wrote(k, i) == writes[k].order = i
OrderInv ==
    /\ \A i \in DOMAIN ordered : Gated(ordered[i])
    /\ daemon.checked # NoMapping =>
          /\ daemon.checked.order \in DOMAIN ordered
          /\ _assert_point_is_commandable(daemon.checked.mapping, ordered[daemon.checked.order].point)
    /\ daemon.phase = "check" => \A i \in daemon.todo : ordered[i].status \in {"pending", "sent"}
    /\ daemon.phase = "execute" => \A i \in daemon.todo : ordered[i].status = "sent"
    /\ daemon.phase \in {"check", "execute"} =>
          \A i \in daemon.todo, k \in DOMAIN writes : writes[k].order # i
WriteInv ==
    /\ \A k \in DOMAIN writes :
          /\ writes[k].order \in DOMAIN ordered
          /\ ordered[writes[k].order].status \in {"sent", "done"}
          /\ writes[k].mapping.device_type \in SIMULATED_DEVICE_TYPES
          /\ ordered[writes[k].order].point \in PointsIn(writes[k].mapping)
    /\ \A j, k \in DOMAIN writes : writes[j].order = writes[k].order => j = k

CycleInv == CycleTypeOK /\ ActiveSound /\ RoundInv /\ RecordedInv /\ OrderInv /\ WriteInv

LEMMA SoundKinds ==
  ASSUME NEW m, NEW p, Sound(m, p)
  PROVE  /\ PointsIn(m) \subseteq DOMAIN PointUnits
         /\ p = "modbus" => check_declared_unit(m)
  BY DEF Sound, ValidMapping, _validate_modbus_device_mapping, _validate_bacnet_device_mapping,
         _validate_opcua_device_mapping, _validate_mqtt_device_mapping, AllValidated

LEMMA FollowsAppend ==
  ASSUME CycleTypeOK, NEW m, NEW r \in Nat, r + 1 <= Len(answers), Follows(m, r),
         NEW a, answers' = Append(answers, a)
  PROVE  Follows(m, r)'
  <1>1. answers \in Seq(Contents \cup {Unreachable}) /\ Len(answers) \in Nat
    BY DEF CycleTypeOK
  <1>2. \A k \in 1..(r + 1) : answers'[k] = answers[k]
    BY <1>1
  <1> QED BY <1>2 DEF Follows

LEMMA CycleInitInv == CycleInit => CycleInv
  <1> SUFFICES ASSUME CycleInit PROVE CycleInv
    OBVIOUS
  <1>1. daemon \in Daemons /\ daemon.todo = {}
    BY CycleAssumption DEF CycleInit, Daemons, Phases, Contents
  <1>2. CycleTypeOK
    BY <1>1, CycleAssumption DEF CycleInit, CycleTypeOK, Contents
  <1> QED BY <1>2 DEF CycleInit, CycleInv, ActiveSound, RoundInv, RecordedInv, OrderInv,
                      WriteInv, InRound, Commanding

(* Versions that change touch no daemon, no command and no record.         *)
LEMMA VersionsKeep ==
  ASSUME CycleInv, UNCHANGED <<ordered, protocol, daemon, answers, writes, held, stored>>,
         active' \in [Protocols -> Contents], policy' \in Policies \cup {NoPolicy},
         mode' \in {"manual", "automatic"}, calls' \in [Callers -> OrderCalls \cup {NoCaller}],
         changes' \in 0..MaxChanges, outages' \in 0..MaxOutages, ActiveSound'
  PROVE  CycleInv'
  <1>1. CycleTypeOK'
    BY DEF CycleInv, CycleTypeOK
  <1>2. RoundInv'
    BY DEF CycleInv, RoundInv, Follows
  <1>3. RecordedInv'
    BY DEF CycleInv, RecordedInv, Follows
  <1>4. OrderInv' /\ WriteInv'
    BY DEF CycleInv, OrderInv, WriteInv
  <1> QED BY <1>1, <1>2, <1>3, <1>4 DEF CycleInv

LEMMA ChangesKeep == CycleInv /\ ChangeVersions => CycleInv'
  <1> SUFFICES ASSUME CycleInv, ChangeVersions PROVE CycleInv'
    OBVIOUS
  <1>0. /\ active \in [Protocols -> Contents] /\ policy \in Policies \cup {NoPolicy}
        /\ mode \in {"manual", "automatic"} /\ calls \in [Callers -> OrderCalls \cup {NoCaller}]
        /\ changes \in 0..MaxChanges /\ outages \in 0..MaxOutages /\ ActiveSound
    BY DEF CycleInv, CycleTypeOK
  <1>1. Changed => changes' \in 0..MaxChanges
    BY <1>0, CycleAssumption DEF Changed
  <1>2. ASSUME NEW m \in Mappings, ActivateMapping(m) PROVE CycleInv'
    <2>1. active' = [active EXCEPT ![m.protocol] = m] /\ ValidMapping(m) /\ m.protocol \in Protocols
      BY <1>2 DEF ActivateMapping
    <2>2. active' \in [Protocols -> Contents]
      BY <1>0, <2>1 DEF Contents
    <2>3. ActiveSound'
      BY <1>0, <2>1 DEF ActiveSound, Sound
    <2> QED BY <1>0, <1>1, <1>2, <2>2, <2>3, VersionsKeep DEF ActivateMapping
  <1>3. ASSUME NEW p \in Protocols, RetireMapping(p) PROVE CycleInv'
    <2>1. active' \in [Protocols -> Contents]
      BY <1>0, <1>3 DEF RetireMapping, Contents
    <2>2. ActiveSound'
      BY <1>0, <1>3 DEF RetireMapping, ActiveSound
    <2> QED BY <1>0, <1>1, <1>3, <2>1, <2>2, VersionsKeep DEF RetireMapping
  <1>4. ASSUME NEW new \in Policies, ChangePolicy(new) PROVE CycleInv'
    <2>1. ActiveSound'
      BY <1>0, <1>4 DEF ChangePolicy, ActiveSound
    <2> QED BY <1>0, <1>1, <1>4, <2>1, VersionsKeep DEF ChangePolicy
  <1>5. ASSUME NEW new \in {"manual", "automatic"}, ChangeMode(new) PROVE CycleInv'
    <2>1. ActiveSound'
      BY <1>0, <1>5 DEF ChangeMode, ActiveSound
    <2> QED BY <1>0, <1>1, <1>5, <2>1, VersionsKeep DEF ChangeMode
  <1> QED BY <1>2, <1>3, <1>4, <1>5 DEF ChangeVersions

LEMMA AppendedRow ==
  ASSUME NEW S, NEW s \in Seq(S), NEW e \in S
  PROVE  /\ Append(s, e) \in Seq(S) /\ Len(Append(s, e)) = Len(s) + 1
         /\ \A i \in 1..Len(s) : Append(s, e)[i] = s[i]
         /\ Append(s, e)[Len(s) + 1] = e
  BY AppendProperties

(* A command that is created waits; whoever asked for a dry run gets none. *)
LEMMA CreationKeeps == CycleInv /\ CreateCommand => CycleInv'
  <1> SUFFICES ASSUME CycleInv, CreateCommand PROVE CycleInv'
    OBVIOUS
  <1>0. /\ active \in [Protocols -> Contents] /\ policy \in Policies \cup {NoPolicy}
        /\ mode \in {"manual", "automatic"} /\ calls \in [Callers -> OrderCalls \cup {NoCaller}]
        /\ changes \in 0..MaxChanges /\ outages \in 0..MaxOutages /\ ActiveSound
    BY DEF CycleInv, CycleTypeOK
  <1>1. ASSUME NEW c \in Callers, NEW origin \in {"person", "dry run", "rule"}, NEW p \in Commandable,
               NEW v \in Levels, NEW r \in Roles, Ask(c, origin, p, v, r)
        PROVE  CycleInv'
    <2> DEFINE q == [origin |-> origin, point |-> p, value |-> v, role |-> r, step |-> "mapping"]
    <2>1. q \in OrderCalls
      BY DEF OrderCalls
    <2>2. calls' = [calls EXCEPT ![c] = q]
      BY <1>1 DEF Ask
    <2> HIDE DEF q
    <2>3. calls' \in [Callers -> OrderCalls \cup {NoCaller}]
      BY <1>0, <2>1, <2>2
    <2>4. ActiveSound'
      BY <1>0, <1>1 DEF Ask, ActiveSound
    <2> QED BY <1>0, <1>1, <2>3, <2>4, VersionsKeep DEF Ask
  <1>2. ASSUME NEW c \in Callers, ReadMapping(c) PROVE CycleInv'
    <2>1. calls[c] \in OrderCalls
      BY <1>0, <1>2 DEF ReadMapping
    <2>2. [calls[c] EXCEPT !.step = "policy"] \in OrderCalls
      BY <2>1 DEF OrderCalls
    <2>3. calls' \in [Callers -> OrderCalls \cup {NoCaller}]
      BY <1>0, <1>2, <2>2 DEF ReadMapping
    <2>4. ActiveSound'
      BY <1>0, <1>2 DEF ReadMapping, ActiveSound
    <2> QED BY <1>0, <1>2, <2>3, <2>4, VersionsKeep DEF ReadMapping
  <1>3. ASSUME NEW c \in Callers, create_command(c) PROVE CycleInv'
    <2>1. PICK q \in OrderCalls : q = calls[c]
      BY <1>0, <1>3 DEF create_command
    <2>2. calls' \in [Callers -> OrderCalls \cup {NoCaller}]
      BY <1>0, <1>3 DEF create_command
    <2>3. UNCHANGED <<active, policy, mode, protocol, daemon, answers, writes, held, stored, changes,
                      outages>>
      BY <1>3 DEF create_command
    <2>4. CASE ordered' = ordered
      <3>1. ActiveSound'
        BY <1>0, <2>3 DEF ActiveSound
      <3> QED BY <1>0, <2>2, <2>3, <2>4, <3>1, VersionsKeep
    <2>5. CASE ordered' # ordered
      <3>0. PICK o : o = [origin |-> q.origin, point |-> q.point, value |-> q.value,
                          role |-> q.role, status |-> "pending",
                          served |-> NoMapping, under |-> NoPolicy]
        OBVIOUS
      <3>1. q.origin # "dry run" /\ Len(ordered) < MaxOrders /\ ordered' = Append(ordered, o)
        BY <1>3, <2>1, <2>5, <3>0 DEF create_command
      <3>2. o \in OrderRows /\ o.origin # "dry run" /\ o.status = "pending"
        BY <3>0, <3>1 DEF OrderRows, OrderCalls, Contents
      <3>3. ordered \in Seq(OrderRows) /\ Len(ordered) \in Nat /\ DOMAIN ordered = 1..Len(ordered)
        BY DEF CycleInv, CycleTypeOK
      <3>4. /\ ordered' \in Seq(OrderRows) /\ Len(ordered') <= MaxOrders
            /\ DOMAIN ordered \subseteq DOMAIN ordered'
            /\ \A i \in DOMAIN ordered : ordered'[i] = ordered[i]
            /\ \A i \in DOMAIN ordered' : i \in DOMAIN ordered \/ ordered'[i] = o
        <4>1. PICK n \in Nat : n = Len(ordered)
          BY <3>3
        <4>1a. PICK rows \in Seq(OrderRows) : rows = ordered
          BY <3>3
        <4>1b. /\ Append(rows, o) \in Seq(OrderRows) /\ Len(Append(rows, o)) = Len(rows) + 1
               /\ \A i \in 1..Len(rows) : Append(rows, o)[i] = rows[i]
               /\ Append(rows, o)[Len(rows) + 1] = o
          BY <3>2, AppendedRow
        <4>2. /\ ordered' \in Seq(OrderRows) /\ Len(ordered') = n + 1
              /\ \A i \in 1..n : ordered'[i] = ordered[i]
              /\ ordered'[n + 1] = o
          BY <3>1, <4>1, <4>1a, <4>1b
        <4>3. DOMAIN ordered' = 1..(n + 1)
          BY <4>2
        <4>4. n < MaxOrders /\ DOMAIN ordered = 1..n
          BY <3>1, <3>3, <4>1
        <4> QED BY <4>2, <4>3, <4>4, CycleAssumption
      <3>5. CycleTypeOK'
        BY <1>0, <2>2, <2>3, <3>4 DEF CycleInv, CycleTypeOK
      <3>6. ActiveSound' /\ RoundInv' /\ RecordedInv'
        BY <2>3 DEF CycleInv, ActiveSound, RoundInv, RecordedInv, Follows
      <3>7. \A i \in DOMAIN ordered' : Gated(ordered'[i])
        BY <3>2, <3>4 DEF CycleInv, OrderInv, Gated
      <3>8. daemon.todo \subseteq DOMAIN ordered
        BY DEF CycleInv, CycleTypeOK
      <3>9. OrderInv'
        BY <2>3, <3>4, <3>7, <3>8 DEF CycleInv, OrderInv
      <3>10. WriteInv'
        BY <2>3, <3>4 DEF CycleInv, WriteInv
      <3> QED BY <3>5, <3>6, <3>9, <3>10 DEF CycleInv
    <2> QED BY <2>4, <2>5
  <1> QED BY <1>1, <1>2, <1>3 DEF CreateCommand

(* A step within a round: the daemon goes on with the configuration it has. *)
LEMMA RoundKeeps ==
  ASSUME CycleInv, UNCHANGED <<active, policy, mode, calls, protocol, answers, held, stored, changes>>,
         outages' \in 0..MaxOutages, daemon' \in Daemons, daemon.phase # "off", daemon'.phase # "off",
         daemon'.config = daemon.config, daemon'.last_config = daemon.last_config,
         daemon'.round = daemon.round,
         daemon'.phase \in InRound => daemon.phase \in InRound,
         daemon'.phase \in Commanding => daemon.phase \in Commanding,
         ordered' \in Seq(OrderRows), Len(ordered') <= MaxOrders, daemon'.todo \subseteq DOMAIN ordered',
         writes' \in Seq(CoilWrites), RecordedInv', OrderInv', WriteInv'
  PROVE  CycleInv'
  <1>1. CycleTypeOK'
    BY DEF CycleInv, CycleTypeOK
  <1>2. ActiveSound' /\ RoundInv'
    BY DEF CycleInv, ActiveSound, RoundInv, Follows
  <1> QED BY <1>1, <1>2 DEF CycleInv

LEMMA RecordsStay ==
  ASSUME CycleInv, UNCHANGED <<protocol, answers, writes, held, stored>>
  PROVE  RecordedInv'
  BY DEF CycleInv, RecordedInv, Follows

(* A status that changes leaves the rest of the table.                     *)
LEMMA StatusSet ==
  ASSUME CycleInv, NEW i \in DOMAIN ordered, NEW o \in OrderRows, ordered' = [ordered EXCEPT ![i] = o]
  PROVE  /\ ordered' \in Seq(OrderRows) /\ Len(ordered') = Len(ordered)
         /\ DOMAIN ordered' = DOMAIN ordered /\ ordered'[i] = o
         /\ \A j \in DOMAIN ordered : j # i => ordered'[j] = ordered[j]
  <1>1. ordered \in Seq(OrderRows) /\ DOMAIN ordered = 1..Len(ordered) /\ Len(ordered) \in Nat
    BY DEF CycleInv, CycleTypeOK
  <1> QED BY <1>1

LEMMA DaemonFacts ==
  ASSUME CycleInv
  PROVE  /\ daemon \in Daemons /\ daemon.todo \subseteq DOMAIN ordered
         /\ daemon.todo \in SUBSET (1..MaxOrders) /\ daemon.round \in 0..MaxRounds
         /\ daemon.config \in Contents /\ daemon.last_config \in Contents /\ daemon.phase \in Phases
         /\ ordered \in Seq(OrderRows) /\ Len(ordered) <= MaxOrders /\ Len(ordered) \in Nat
         /\ DOMAIN ordered = 1..Len(ordered) /\ DOMAIN ordered \subseteq 1..MaxOrders
         /\ \A i \in DOMAIN ordered : ordered[i] \in OrderRows
         /\ outages \in 0..MaxOutages /\ (Fails => outages' \in 0..MaxOutages)
         /\ (Answers => outages' \in 0..MaxOutages)
         /\ writes \in Seq(CoilWrites)
  BY CycleAssumption DEF CycleInv, CycleTypeOK, Daemons, Fails, Answers

LEMMA PendingKeeps == CycleInv /\ get_pending_commands => CycleInv'
  <1> SUFFICES ASSUME CycleInv, get_pending_commands PROVE CycleInv'
    OBVIOUS
  <1> DEFINE waiting == {i \in DOMAIN ordered : ordered[i].status = "pending"}
  <1>1. /\ daemon.phase = "claim"
        /\ \/ Answers /\ Becomes(IF waiting = {} THEN "read" ELSE "check", [daemon EXCEPT !.todo = waiting])
           \/ Fails /\ Becomes("read", daemon)
        /\ UNCHANGED <<active, policy, mode, calls, ordered, protocol, answers, writes, held,
                       stored, changes>>
    BY DEF get_pending_commands
  <1>2. waiting \subseteq DOMAIN ordered /\ waiting \in SUBSET (1..MaxOrders)
    BY DaemonFacts
  <1>3. /\ daemon' \in Daemons /\ daemon'.phase \in {"read", "check"}
        /\ daemon'.config = daemon.config /\ daemon'.last_config = daemon.last_config
        /\ daemon'.round = daemon.round /\ daemon'.checked = daemon.checked
        /\ daemon'.todo \subseteq DOMAIN ordered
        /\ daemon'.phase = "check" => daemon'.todo = waiting
        /\ outages' \in 0..MaxOutages
    <2> HIDE DEF waiting
    <2> QED BY <1>1, <1>2, DaemonFacts DEF Becomes, Daemons, Phases
  <1>4. \A i \in waiting : ordered[i].status = "pending"
                          /\ \A k \in DOMAIN writes : writes[k].order # i
    BY DEF CycleInv, WriteInv
  <1> HIDE DEF waiting
  <1>5. OrderInv'
    BY <1>1, <1>3, <1>4 DEF CycleInv, OrderInv
  <1>6. WriteInv'
    BY <1>1 DEF CycleInv, WriteInv
  <1> QED BY <1>1, <1>3, <1>5, <1>6, DaemonFacts, RecordsStay, RoundKeeps DEF InRound, Commanding

(* A candidate's status becomes "sent", after both gates, or "failed".     *)
LEMMA CheckedKeeps ==
  ASSUME CycleInv, NEW i, Candidate(i), NEW o \in OrderRows, ordered' = [ordered EXCEPT ![i] = o],
         o.origin = ordered[i].origin, o.point = ordered[i].point, Gated(o),
         o.status \in {"sent", "failed"}, o.status = "failed" => daemon'.todo = daemon.todo \ {i},
         daemon' \in Daemons, daemon'.todo \subseteq daemon.todo, daemon'.phase = "check",
         daemon'.config = daemon.config, daemon'.last_config = daemon.last_config,
         daemon'.round = daemon.round, daemon'.checked \in {daemon.checked, NoMapping},
         UNCHANGED <<active, policy, mode, calls, protocol, answers, writes, held, stored,
                     changes, outages>>
  PROVE  CycleInv'
  <1>1. i \in DOMAIN ordered /\ ordered[i].status = "pending" /\ daemon.phase = "check" /\ i \in daemon.todo
    BY DaemonFacts DEF Candidate
  <1>2. /\ ordered' \in Seq(OrderRows) /\ Len(ordered') = Len(ordered)
        /\ DOMAIN ordered' = DOMAIN ordered /\ ordered'[i] = o
        /\ \A j \in DOMAIN ordered : j # i => ordered'[j] = ordered[j]
    BY <1>1, StatusSet
  <1>3. \A j \in DOMAIN ordered : ordered'[j].point = ordered[j].point
    BY <1>2
  <1>4. OrderInv'
    <2>1. \A j \in DOMAIN ordered' : Gated(ordered'[j])
      BY <1>2 DEF CycleInv, OrderInv
    <2>2. daemon'.checked # NoMapping =>
            /\ daemon'.checked.order \in DOMAIN ordered'
            /\ _assert_point_is_commandable(daemon'.checked.mapping, ordered'[daemon'.checked.order].point)
      BY <1>2, <1>3 DEF CycleInv, OrderInv
    <2>3. \A j \in daemon'.todo : ordered'[j].status \in {"pending", "sent"}
      BY <1>1, <1>2, DaemonFacts DEF CycleInv, OrderInv
    <2> QED BY <1>1, <2>1, <2>2, <2>3 DEF CycleInv, OrderInv
  <1>5. WriteInv'
    <2>1. \A k \in DOMAIN writes : writes[k].order # i
      BY <1>1 DEF CycleInv, OrderInv
    <2> QED BY <1>2, <1>3, <2>1 DEF CycleInv, WriteInv
  <1> QED BY <1>1, <1>2, <1>4, <1>5, DaemonFacts, RecordsStay, RoundKeeps DEF InRound, Commanding

LEMMA MappingCheckKeeps == ASSUME CycleInv, NEW i, CheckMapping(i) PROVE CycleInv'
  <1>1. /\ Candidate(i) /\ i \in DOMAIN ordered /\ ordered[i].status = "pending"
        /\ daemon.checked = NoMapping /\ daemon.phase = "check" /\ i \in daemon.todo
        /\ UNCHANGED <<active, policy, mode, calls, protocol, answers, writes, held, stored,
                       changes, outages>>
    BY DaemonFacts DEF CheckMapping, Candidate
  <1>2. CASE _assert_point_is_commandable(ModbusMapping, ordered[i].point)
    <2>1. PICK m : m = ModbusMapping
      OBVIOUS
    <2>2. m \in Mappings
      BY <1>2, <2>1 DEF CycleInv, CycleTypeOK, _assert_point_is_commandable, ModbusMapping, Contents
    <2>3. PICK c \in [order : 1..MaxOrders, mapping : Mappings] : c = [order |-> i, mapping |-> m]
      BY <1>1, <2>2, DaemonFacts
    <2>4. daemon' = [daemon EXCEPT !.checked = c] /\ UNCHANGED ordered
      BY <1>2, <2>1, <2>3 DEF CheckMapping
    <2>5. /\ daemon' \in Daemons /\ daemon'.checked = c /\ daemon'.phase = "check"
          /\ daemon'.config = daemon.config /\ daemon'.last_config = daemon.last_config
          /\ daemon'.round = daemon.round /\ daemon'.todo = daemon.todo
      BY <1>1, <2>4, DaemonFacts DEF Daemons
    <2>6. OrderInv'
      BY <1>1, <1>2, <2>1, <2>3, <2>4, <2>5 DEF CycleInv, OrderInv
    <2>7. WriteInv'
      BY <1>1, <2>4 DEF CycleInv, WriteInv
    <2> QED BY <1>1, <2>4, <2>5, <2>6, <2>7, DaemonFacts, RecordsStay, RoundKeeps DEF InRound, Commanding
  <1>3. CASE ~_assert_point_is_commandable(ModbusMapping, ordered[i].point)
    <2>1. PICK o : o = [ordered[i] EXCEPT !.status = "failed"]
      OBVIOUS
    <2>2. ordered' = [ordered EXCEPT ![i] = o] /\ daemon' = [daemon EXCEPT !.todo = @ \ {i}]
      BY <1>3, <2>1 DEF CheckMapping
    <2>3. ordered[i] \in OrderRows /\ Gated(ordered[i])
      BY <1>1, DaemonFacts DEF CycleInv, OrderInv
    <2>4. /\ o \in OrderRows /\ o.status = "failed" /\ o.point = ordered[i].point
          /\ o.origin = ordered[i].origin /\ Gated(o)
      BY <2>1, <2>3 DEF OrderRows, Gated
    <2>5. /\ daemon' \in Daemons /\ daemon'.checked = daemon.checked /\ daemon'.phase = "check"
          /\ daemon'.config = daemon.config /\ daemon'.last_config = daemon.last_config
          /\ daemon'.round = daemon.round /\ daemon'.todo = daemon.todo \ {i}
      BY <1>1, <2>2, DaemonFacts DEF Daemons
    <2> QED BY <1>1, <2>2, <2>4, <2>5, CheckedKeeps
  <1> QED BY <1>2, <1>3

LEMMA PolicyCheckKeeps == ASSUME CycleInv, NEW i, CheckPolicy(i) PROVE CycleInv'
  <1>1. /\ Candidate(i) /\ i \in DOMAIN ordered /\ ordered[i].status = "pending"
        /\ daemon.checked # NoMapping /\ daemon.checked.order = i
        /\ daemon.phase = "check" /\ i \in daemon.todo
        /\ UNCHANGED <<active, policy, mode, calls, protocol, answers, writes, held, stored,
                       changes, outages>>
    BY DaemonFacts DEF CheckPolicy, Candidate
  <1>2. PICK m \in Mappings : m = daemon.checked.mapping
    BY <1>1, DaemonFacts DEF Daemons
  <1>3. _assert_point_is_commandable(m, ordered[i].point)
    BY <1>1, <1>2 DEF CycleInv, OrderInv
  <1>4. ordered[i] \in OrderRows /\ Gated(ordered[i])
    BY <1>1, DaemonFacts DEF CycleInv, OrderInv
  <1>5. policy \in Policies \cup {NoPolicy}
    BY DEF CycleInv, CycleTypeOK
  <1>6. CASE enforce_policy(policy, ordered[i].value, ordered[i].role)
    <2>1. PICK o : o = [ordered[i] EXCEPT !.status = "sent", !.under = policy, !.served = m]
      OBVIOUS
    <2>2. ordered' = [ordered EXCEPT ![i] = o] /\ daemon' = [daemon EXCEPT !.checked = NoMapping]
      BY <1>6, <1>1, <1>2, <1>4, <2>1, DaemonFacts DEF CheckPolicy, OrderRows
    <2>3. /\ o \in OrderRows /\ o.status = "sent" /\ o.point = ordered[i].point
          /\ o.origin = ordered[i].origin /\ o.served = m /\ o.under = policy
          /\ o.value = ordered[i].value /\ o.role = ordered[i].role
      BY <1>4, <1>5, <2>1 DEF OrderRows, Contents
    <2>4. Gated(o)
      BY <1>3, <1>4, <1>6, <2>3 DEF Gated
    <2>5. /\ daemon' \in Daemons /\ daemon'.checked = NoMapping /\ daemon'.phase = "check"
          /\ daemon'.config = daemon.config /\ daemon'.last_config = daemon.last_config
          /\ daemon'.round = daemon.round /\ daemon'.todo = daemon.todo
      BY <1>1, <2>2, DaemonFacts DEF Daemons
    <2> QED BY <1>1, <2>2, <2>3, <2>4, <2>5, CheckedKeeps
  <1>7. CASE ~enforce_policy(policy, ordered[i].value, ordered[i].role)
    <2>1. PICK o : o = [ordered[i] EXCEPT !.status = "failed"]
      OBVIOUS
    <2>2. ordered' = [ordered EXCEPT ![i] = o]
          /\ daemon' = [daemon EXCEPT !.checked = NoMapping, !.todo = @ \ {i}]
      BY <1>7, <2>1 DEF CheckPolicy
    <2>3. /\ o \in OrderRows /\ o.status = "failed" /\ o.point = ordered[i].point
          /\ o.origin = ordered[i].origin /\ Gated(o)
      BY <1>4, <2>1 DEF OrderRows, Gated
    <2>4. /\ daemon' \in Daemons /\ daemon'.checked = NoMapping /\ daemon'.phase = "check"
          /\ daemon'.config = daemon.config /\ daemon'.last_config = daemon.last_config
          /\ daemon'.round = daemon.round /\ daemon'.todo = daemon.todo \ {i}
      BY <1>1, <2>2, DaemonFacts DEF Daemons
    <2> QED BY <1>1, <2>2, <2>3, <2>4, CheckedKeeps
  <1> QED BY <1>6, <1>7

LEMMA ClaimKeeps == CycleInv /\ ClaimAnswered => CycleInv'
  <1> SUFFICES ASSUME CycleInv, ClaimAnswered PROVE CycleInv'
    OBVIOUS
  <1>1. /\ daemon.phase = "check" /\ \A i \in daemon.todo : ordered[i].status = "sent"
        /\ UNCHANGED <<active, policy, mode, calls, ordered, protocol, answers, writes, held,
                       stored, changes>>
    BY DEF ClaimAnswered
  <1>2. /\ daemon' \in Daemons /\ daemon'.phase = "execute" /\ daemon'.checked = daemon.checked
        /\ daemon'.config = daemon.config /\ daemon'.last_config = daemon.last_config
        /\ daemon'.round = daemon.round /\ daemon'.todo \subseteq daemon.todo
        /\ outages' \in 0..MaxOutages
    BY DaemonFacts DEF ClaimAnswered, Becomes, Daemons, Phases
  <1>3. OrderInv'
    BY <1>1, <1>2 DEF CycleInv, OrderInv
  <1>4. WriteInv'
    BY <1>1 DEF CycleInv, WriteInv
  <1> QED BY <1>1, <1>2, <1>3, <1>4, DaemonFacts, RecordsStay, RoundKeeps DEF InRound, Commanding

LEMMA ReadPointsKeep == CycleInv /\ ReadPoints => CycleInv'
  <1> SUFFICES ASSUME CycleInv, ReadPoints PROVE CycleInv'
    OBVIOUS
  <1>1. /\ daemon.phase \in {"read", "execute"}
        /\ UNCHANGED <<active, policy, mode, calls, ordered, protocol, answers, writes, held,
                       stored, changes, outages>>
        /\ \E phase \in {"post", "load", "crashed"} : Becomes(phase, daemon)
    BY DEF ReadPoints
  <1>2. /\ daemon' \in Daemons /\ daemon'.phase \in {"post", "load", "crashed"}
        /\ daemon'.checked = daemon.checked
        /\ daemon'.config = daemon.config /\ daemon'.last_config = daemon.last_config
        /\ daemon'.round = daemon.round /\ daemon'.todo = daemon.todo
    BY <1>1, DaemonFacts DEF Becomes, Daemons, Phases
  <1>3. OrderInv'
    BY <1>1, <1>2 DEF CycleInv, OrderInv
  <1>4. WriteInv'
    BY <1>1 DEF CycleInv, WriteInv
  <1> QED BY <1>1, <1>2, <1>3, <1>4, DaemonFacts, RecordsStay, RoundKeeps DEF InRound, Commanding

(* The coil is written, or not, and the command leaves the list.           *)
LEMMA ExecutionKeeps == ASSUME CycleInv, NEW i, _execute_pending_commands(i) PROVE CycleInv'
  <1>1. /\ daemon.phase = "execute" /\ i \in daemon.todo /\ i \in DOMAIN ordered
        /\ daemon' = [daemon EXCEPT !.todo = @ \ {i}]
        /\ UNCHANGED <<active, policy, mode, calls, protocol, answers, held, stored, changes>>
    BY DaemonFacts DEF _execute_pending_commands
  <1>2. /\ daemon' \in Daemons /\ daemon'.phase = "execute" /\ daemon'.checked = daemon.checked
        /\ daemon'.config = daemon.config /\ daemon'.last_config = daemon.last_config
        /\ daemon'.round = daemon.round /\ daemon'.todo = daemon.todo \ {i}
    BY <1>1, DaemonFacts DEF Daemons
  <1>3. ordered[i].status = "sent" /\ ordered[i] \in OrderRows /\ Gated(ordered[i])
        /\ \A k \in DOMAIN writes : writes[k].order # i
    BY <1>1, DaemonFacts DEF CycleInv, OrderInv
  <1>4. PICK o : o = [ordered[i] EXCEPT !.status = "done"]
    OBVIOUS
  <1>5. o \in OrderRows /\ o.status = "done" /\ o.point = ordered[i].point /\ Gated(o)
    BY <1>3, <1>4 DEF OrderRows, Gated
  <1>6. /\ ordered' \in Seq(OrderRows) /\ Len(ordered') = Len(ordered) /\ DOMAIN ordered' = DOMAIN ordered
        /\ ordered'[i].point = ordered[i].point /\ ordered'[i].status \in {"sent", "done"}
        /\ Gated(ordered'[i])
        /\ \A j \in DOMAIN ordered : j # i => ordered'[j] = ordered[j]
        /\ outages' \in 0..MaxOutages
    <2>1. CASE UNCHANGED ordered /\ Fails
      BY <1>3, <2>1, DaemonFacts
    <2>2. CASE ordered' = [ordered EXCEPT ![i] = o] /\ Answers
      BY <1>1, <1>5, <2>2, StatusSet, DaemonFacts
    <2>3. (UNCHANGED ordered /\ Fails) \/ (ordered' = [ordered EXCEPT ![i] = o] /\ Answers)
      BY <1>4 DEF _execute_pending_commands
    <2> QED BY <2>1, <2>2, <2>3
  <1>7. \A j \in DOMAIN ordered : ordered'[j].point = ordered[j].point
                                 /\ (ordered[j].status \in {"sent", "done"} => ordered'[j].status \in {"sent", "done"})
    BY <1>6
  <1>8. PICK w : w = [order |-> i, mapping |-> daemon.config, round |-> daemon.round]
    OBVIOUS
  <1>9. /\ daemon.config = daemon.last_config /\ daemon.config \in Mappings
        /\ daemon.config.device_type \in SIMULATED_DEVICE_TYPES
        /\ Follows(daemon.config, daemon.round) /\ daemon.round + 1 <= Len(answers)
    BY <1>1, DaemonFacts DEF CycleInv, RoundInv, InRound, Commanding, Contents,
       COMMANDABLE_DEVICE_TYPES, SIMULATED_DEVICE_TYPES
  <1>10. w \in CoilWrites /\ w.order = i /\ w.mapping = daemon.config /\ w.round = daemon.round
    BY <1>1, <1>8, <1>9, DaemonFacts DEF CoilWrites
  <1>11. \/ writes' = writes
         \/ writes' = Append(writes, w) /\ ordered[i].point \in PointsIn(w.mapping)
    BY <1>8, <1>10 DEF _execute_pending_commands
  <1>12. PICK n \in Nat : n = Len(writes)
    BY DaemonFacts
  <1>13. /\ writes' \in Seq(CoilWrites)
         /\ \A k \in DOMAIN writes : k \in DOMAIN writes' /\ writes'[k] = writes[k]
         /\ \A k \in DOMAIN writes' :
               \/ k \in DOMAIN writes
               \/ k = n + 1 /\ writes'[k] = w /\ ordered[i].point \in PointsIn(w.mapping)
    <2>1. CASE writes' = writes
      BY <2>1, DaemonFacts
    <2>2. CASE writes' = Append(writes, w) /\ ordered[i].point \in PointsIn(w.mapping)
      <3>1. /\ writes' \in Seq(CoilWrites) /\ Len(writes') = n + 1
            /\ \A k \in 1..n : writes'[k] = writes[k]
            /\ writes'[n + 1] = w
        BY <1>10, <1>12, <2>2, DaemonFacts, AppendedRow
      <3>2. DOMAIN writes = 1..n /\ DOMAIN writes' = 1..(n + 1)
        BY <1>12, <3>1, DaemonFacts
      <3> QED BY <2>2, <3>1, <3>2
    <2> QED BY <1>11, <2>1, <2>2
  <1>14. OrderInv'
    <2>1. \A j \in DOMAIN ordered' : Gated(ordered'[j])
      BY <1>6 DEF CycleInv, OrderInv
    <2>2. daemon'.checked # NoMapping =>
            /\ daemon'.checked.order \in DOMAIN ordered'
            /\ _assert_point_is_commandable(daemon'.checked.mapping, ordered'[daemon'.checked.order].point)
      BY <1>2, <1>6, <1>7 DEF CycleInv, OrderInv
    <2>3. \A j \in daemon'.todo : ordered'[j].status = "sent"
      BY <1>1, <1>2, <1>6, DaemonFacts DEF CycleInv, OrderInv
    <2>4. \A j \in daemon'.todo, k \in DOMAIN writes' : writes'[k].order # j
      BY <1>1, <1>2, <1>10, <1>13 DEF CycleInv, OrderInv
    <2> QED BY <1>2, <2>1, <2>2, <2>3, <2>4 DEF OrderInv
  <1>15. WriteInv'
    <2>1. \A k \in DOMAIN writes' :
            /\ writes'[k].order \in DOMAIN ordered'
            /\ ordered'[writes'[k].order].status \in {"sent", "done"}
            /\ writes'[k].mapping.device_type \in SIMULATED_DEVICE_TYPES
            /\ ordered'[writes'[k].order].point \in PointsIn(writes'[k].mapping)
      BY <1>1, <1>6, <1>7, <1>9, <1>10, <1>13 DEF CycleInv, WriteInv
    <2>2. \A j, k \in DOMAIN writes' : writes'[j].order = writes'[k].order => j = k
      BY <1>3, <1>10, <1>13 DEF CycleInv, WriteInv
    <2> QED BY <2>1, <2>2 DEF WriteInv
  <1>16. RecordedInv'
    <2>1. \A k \in DOMAIN writes' : /\ Follows(writes'[k].mapping, writes'[k].round)
                                    /\ writes'[k].round + 1 <= Len(answers)
      BY <1>9, <1>10, <1>13 DEF CycleInv, RecordedInv
    <2> QED BY <1>1, <2>1 DEF CycleInv, RecordedInv, Follows
  <1> QED BY <1>1, <1>2, <1>6, <1>13, <1>14, <1>15, <1>16, DaemonFacts, RoundKeeps DEF InRound, Commanding

(* A new answer leaves what the earlier rounds followed as it was.         *)
LEMMA AnswersGrow ==
  ASSUME CycleInv, NEW a \in Contents \cup {Unreachable}, answers' = Append(answers, a),
         UNCHANGED <<protocol, writes, held, stored>>
  PROVE  /\ answers' \in Seq(Contents \cup {Unreachable}) /\ Len(answers') = Len(answers) + 1
         /\ \A k \in 1..Len(answers) : answers'[k] = answers[k]
         /\ answers'[Len(answers) + 1] = a
         /\ RecordedInv'
  <1>1. answers \in Seq(Contents \cup {Unreachable}) /\ CycleTypeOK /\ RecordedInv
    BY DEF CycleInv, CycleTypeOK
  <1>2. /\ answers' \in Seq(Contents \cup {Unreachable}) /\ Len(answers') = Len(answers) + 1
        /\ \A k \in 1..Len(answers) : answers'[k] = answers[k]
        /\ answers'[Len(answers) + 1] = a
    <2>1. PICK s \in Seq(Contents \cup {Unreachable}) : s = answers
      BY <1>1
    <2> QED BY <2>1, AppendedRow
  <1>3. PICK n \in Nat : n = Len(answers)
    BY <1>1
  <1>4. ASSUME NEW k \in DOMAIN writes
        PROVE  Follows(writes[k].mapping, writes[k].round)' /\ writes[k].round + 1 <= n
    <2>1. PICK m, r : m = writes[k].mapping /\ r = writes[k].round
      OBVIOUS
    <2>2. r \in Nat /\ Follows(m, r) /\ r + 1 <= n
      <3>1. writes[k] \in CoilWrites
        BY DaemonFacts
      <3> QED BY <1>1, <1>3, <2>1, <3>1 DEF RecordedInv, CoilWrites
    <2>3. Follows(m, r)'
      BY <1>1, <1>3, <2>2, FollowsAppend
    <2> QED BY <2>1, <2>2, <2>3 DEF Follows
  <1>5. ASSUME NEW x \in held \cup stored
        PROVE  Follows(x.mapping, x.round)' /\ x.round + 1 <= n
    <2>1. PICK m, r : m = x.mapping /\ r = x.round
      OBVIOUS
    <2>2. r \in Nat /\ Follows(m, r) /\ r + 1 <= n
      BY <1>1, <1>3, <2>1 DEF RecordedInv, CycleTypeOK
    <2>3. Follows(m, r)'
      BY <1>1, <1>3, <2>2, FollowsAppend
    <2> QED BY <2>1, <2>2, <2>3 DEF Follows
  <1>6. Len(answers') = n + 1
    BY <1>2, <1>3
  <1>7. \A k \in DOMAIN writes' : /\ Follows(writes[k].mapping, writes[k].round)'
                                  /\ writes'[k].round + 1 <= Len(answers')
    <2>1. ASSUME NEW k \in DOMAIN writes PROVE writes[k].round \in Nat
      <3>1. writes[k] \in CoilWrites
        BY DaemonFacts
      <3> QED BY <3>1 DEF CoilWrites
    <2> QED BY <1>4, <1>6, <2>1
  <1>8. \A x \in (held \cup stored)' :
           /\ Follows(x.mapping, x.round)' /\ x.round + 1 <= Len(answers')
           /\ Sound(x.mapping, protocol)' /\ x.point \in PointsIn(x.mapping)
    <2>1. \A x \in held \cup stored : x.round \in Nat
      BY <1>1 DEF CycleTypeOK
    <2> QED BY <1>1, <1>5, <1>6, <2>1 DEF RecordedInv, Sound, ValidMapping
  <1> QED BY <1>2, <1>7, <1>8 DEF RecordedInv

(* A step about the configuration, which leaves commands and coils alone.  *)
LEMMA ConfigStep ==
  ASSUME CycleInv, UNCHANGED <<active, policy, mode, calls, ordered, protocol, writes, held, stored,
                               changes>>,
         outages' \in 0..MaxOutages, daemon' \in Daemons, daemon'.phase \in {"load", "claim", "read"},
         daemon'.todo = daemon.todo, daemon'.checked = daemon.checked,
         NEW a \in Contents \cup {Unreachable}, answers' = Append(answers, a), RoundInv'
  PROVE  CycleInv'
  <1>1. CycleTypeOK'
    BY AnswersGrow DEF CycleInv, CycleTypeOK
  <1>2. ActiveSound' /\ WriteInv'
    BY DEF CycleInv, ActiveSound, WriteInv
  <1>3. OrderInv'
    BY DEF CycleInv, OrderInv
  <1> QED BY <1>1, <1>2, <1>3, AnswersGrow DEF CycleInv

LEMMA StartKeeps == CycleInv /\ StartDaemon => CycleInv'
  <1> SUFFICES ASSUME CycleInv, StartDaemon PROVE CycleInv'
    OBVIOUS
  <1>1. /\ daemon.phase = "off" /\ answers = <<>> /\ daemon.round = 0 /\ daemon.last_config = NoMapping
        /\ UNCHANGED <<active, policy, mode, calls, ordered, protocol, writes, held, stored, changes>>
        /\ protocol \in Protocols /\ active[protocol] \in Contents
    BY DEF StartDaemon, CycleInv, CycleTypeOK, RoundInv
  <1>2. CASE Answers /\ active[protocol] # NoMapping /\ answers' = <<active[protocol]>>
             /\ Becomes("load", [daemon EXCEPT !.last_config = active[protocol]])
    <2>1. PICK m \in Contents : m = active[protocol]
      BY <1>1
    <2>2. answers' = Append(answers, m)
      BY <1>1, <1>2, <2>1
    <2>3. /\ daemon' \in Daemons /\ daemon'.phase = "load" /\ daemon'.last_config = m
          /\ daemon'.round = 0 /\ daemon'.todo = daemon.todo /\ daemon'.checked = daemon.checked
      BY <1>1, <1>2, <2>1, DaemonFacts DEF Becomes, Daemons, Phases
    <2>4. Sound(m, protocol)
      BY <1>1, <1>2, <2>1 DEF CycleInv, ActiveSound
    <2>5. answers'[1] = m /\ Len(answers') = 1
      BY <1>2, <2>1
    <2>6. Follows(m, 0)'
      BY <2>5 DEF Follows
    <2>7. RoundInv'
      <3>1. Sound(daemon.last_config, protocol)' /\ Follows(daemon.last_config, daemon.round)'
        BY <1>1, <2>3, <2>4, <2>6 DEF Sound, ValidMapping, Follows
      <3> QED BY <2>3, <2>5, <3>1 DEF RoundInv, InRound, Commanding, Sound
    <2> QED BY <1>1, <1>2, <2>2, <2>3, <2>7, ConfigStep, DaemonFacts
  <1>3. CASE Fails /\ answers' = <<Unreachable>> /\ Becomes("load", daemon)
    <2>2. answers' = Append(answers, Unreachable) /\ Len(answers') = 1
      BY <1>1, <1>3
    <2>3. /\ daemon' \in Daemons /\ daemon'.phase = "load" /\ daemon'.last_config = NoMapping
          /\ daemon'.round = 0 /\ daemon'.todo = daemon.todo /\ daemon'.checked = daemon.checked
      BY <1>1, <1>3, DaemonFacts DEF Becomes, Daemons, Phases
    <2>7. RoundInv'
      BY <2>2, <2>3 DEF RoundInv, InRound, Commanding
    <2> QED BY <1>1, <1>3, <2>2, <2>3, <2>7, ConfigStep, DaemonFacts
  <1> QED BY <1>1, <1>2, <1>3 DEF StartDaemon

LEMMA LoadKeeps == CycleInv /\ _load_config => CycleInv'
  <1> SUFFICES ASSUME CycleInv, _load_config PROVE CycleInv'
    OBVIOUS
  <1>1. /\ daemon.phase = "load" /\ daemon.round < MaxRounds /\ Len(answers) = daemon.round + 1
        /\ UNCHANGED <<active, policy, mode, calls, ordered, protocol, writes, held, stored, changes>>
        /\ protocol \in Protocols /\ active[protocol] \in Contents /\ daemon.round \in 0..MaxRounds
    BY DaemonFacts DEF _load_config, CycleInv, CycleTypeOK, RoundInv
  <1>2. PICK c \in Contents, a \in Contents \cup {Unreachable} :
           /\ answers' = Append(answers, a)
           /\ WithConfig([daemon EXCEPT !.round = @ + 1, !.config = c, !.last_config = c])
           /\ \/ Answers /\ a = c /\ c = active[protocol]
              \/ Fails /\ a = Unreachable /\ c = daemon.last_config
    <2>1. CASE /\ Answers
               /\ answers' = Append(answers, active[protocol])
               /\ WithConfig([daemon EXCEPT !.round = @ + 1, !.config = active[protocol],
                                            !.last_config = active[protocol]])
      BY <1>1, <2>1
    <2>2. CASE /\ Fails
               /\ answers' = Append(answers, Unreachable)
               /\ WithConfig([daemon EXCEPT !.round = @ + 1, !.config = daemon.last_config])
      <3>1. [daemon EXCEPT !.round = @ + 1, !.config = daemon.last_config]
            = [daemon EXCEPT !.round = @ + 1, !.config = daemon.last_config,
                             !.last_config = daemon.last_config]
        BY DaemonFacts DEF Daemons
      <3> QED BY <2>2, <3>1, DaemonFacts
    <2> QED BY <2>1, <2>2 DEF _load_config
  <1>3. PICK r \in Nat : r = daemon.round
    BY <1>1
  <1>4. /\ daemon' \in Daemons /\ daemon'.phase \in {"load", "claim", "read"}
        /\ daemon'.round = r + 1 /\ daemon'.config = c /\ daemon'.last_config = c
        /\ daemon'.todo = daemon.todo /\ daemon'.checked = daemon.checked
        /\ daemon'.phase \in InRound => c # NoMapping
        /\ daemon'.phase \in Commanding => c.device_type \in COMMANDABLE_DEVICE_TYPES
    <2>1. PICK d : d = [daemon EXCEPT !.round = @ + 1, !.config = c, !.last_config = c]
      OBVIOUS
    <2>2. /\ d \in Daemons /\ d.round = r + 1 /\ d.config = c /\ d.last_config = c
          /\ d.todo = daemon.todo /\ d.checked = daemon.checked
      <3>1. r + 1 \in 0..MaxRounds
        BY <1>1, <1>3, CycleAssumption
      <3>2. d = [daemon EXCEPT !.round = r + 1, !.config = c, !.last_config = c]
        BY <1>3, <2>1, DaemonFacts DEF Daemons
      <3> QED BY <3>1, <3>2, DaemonFacts DEF Daemons
    <2>3. WithConfig(d)
      BY <1>2, <2>1
    <2>4. \/ daemon' = [d EXCEPT !.phase = "load"] /\ c = NoMapping
          \/ daemon' = [d EXCEPT !.phase = "claim"] /\ c # NoMapping
             /\ c.device_type \in COMMANDABLE_DEVICE_TYPES
          \/ daemon' = [d EXCEPT !.phase = "read"] /\ c # NoMapping
      BY <2>2, <2>3 DEF WithConfig, Becomes
    <2> QED BY <2>2, <2>4 DEF Daemons, Phases, InRound, Commanding
  <1>5. /\ answers' \in Seq(Contents \cup {Unreachable}) /\ Len(answers') = Len(answers) + 1
        /\ \A k \in 1..Len(answers) : answers'[k] = answers[k]
        /\ answers'[Len(answers) + 1] = a
    BY <1>1, <1>2, AnswersGrow
  <1>6. Len(answers) = r + 1 /\ Len(answers') = r + 2 /\ answers'[r + 2] = a
        /\ \A k \in 1..(r + 1) : answers'[k] = answers[k]
    BY <1>1, <1>3, <1>5
  <1>7. c # NoMapping => Sound(c, protocol) /\ Follows(c, r + 1)'
    <2> SUFFICES ASSUME c # NoMapping PROVE Sound(c, protocol) /\ Follows(c, r + 1)'
      OBVIOUS
    <2>1. CASE a = c /\ c = active[protocol]
      <3>1. Sound(c, protocol)
        BY <1>1, <2>1 DEF CycleInv, ActiveSound
      <3>2. Follows(c, r + 1)'
        BY <1>6, <2>1 DEF Follows
      <3> QED BY <3>1, <3>2
    <2>2. CASE a = Unreachable /\ c = daemon.last_config
      <3>1. Sound(c, protocol) /\ Follows(c, r)
        BY <1>3, <2>2 DEF CycleInv, RoundInv
      <3>2. PICK k \in 1..(r + 1) : answers[k] = c /\ \A j \in (k + 1)..(r + 1) : answers[j] = Unreachable
        BY <3>1 DEF Follows
      <3>3. k \in 1..(r + 2) /\ answers'[k] = c /\ \A j \in (k + 1)..(r + 2) : answers'[j] = Unreachable
        BY <1>6, <2>2, <3>2
      <3>4. Follows(c, r + 1)'
        BY <3>3 DEF Follows
      <3> QED BY <3>1, <3>4
    <2> QED BY <1>2, <2>1, <2>2
  <1>8. RoundInv'
    <2>1. c # NoMapping => Sound(c, protocol)' /\ Follows(daemon.last_config, daemon.round)'
      BY <1>1, <1>4, <1>7 DEF Sound, ValidMapping, Follows
    <2> QED BY <1>4, <1>6, <2>1 DEF RoundInv, Sound, InRound
  <1> QED BY <1>1, <1>2, <1>4, <1>8, ConfigStep, DaemonFacts

(* The readings of a round: of points of its configuration.                *)
LEMMA PostKeeps == CycleInv /\ post_measurements => CycleInv'
  <1> SUFFICES ASSUME CycleInv, post_measurements PROVE CycleInv'
    OBVIOUS
  <1>0. PICK new : new = {[point |-> p, mapping |-> daemon.config, round |-> daemon.round] :
                              p \in PointsIn(daemon.config)}
    OBVIOUS
  <1>1. /\ daemon.phase = "post" /\ daemon' = [daemon EXCEPT !.phase = "load"]
        /\ held' \cup stored' \subseteq held \cup stored \cup new
        /\ outages' \in 0..MaxOutages
        /\ UNCHANGED <<active, policy, mode, calls, ordered, protocol, answers, writes, changes>>
    BY <1>0, DaemonFacts DEF post_measurements, Becomes
  <1>2. /\ daemon.config # NoMapping /\ daemon.config \in Mappings /\ daemon.round \in 0..MaxRounds
        /\ Sound(daemon.config, protocol) /\ Follows(daemon.config, daemon.round)
        /\ daemon.round + 1 <= Len(answers)
    BY <1>1, DaemonFacts DEF CycleInv, RoundInv, InRound, Contents
  <1>3. \A r \in new : /\ r.mapping = daemon.config /\ r.round = daemon.round
                       /\ r.point \in PointsIn(daemon.config)
    BY <1>0
  <1>4. \A r \in held' \cup stored' :
           /\ r.mapping \in Mappings /\ r.round \in 0..MaxRounds
           /\ Follows(r.mapping, r.round) /\ r.round + 1 <= Len(answers)
           /\ Sound(r.mapping, protocol) /\ r.point \in PointsIn(r.mapping)
    BY <1>1, <1>2, <1>3 DEF CycleInv, CycleTypeOK, RecordedInv
  <1>5. /\ daemon' \in Daemons /\ daemon'.phase = "load" /\ daemon'.checked = daemon.checked
        /\ daemon'.config = daemon.config /\ daemon'.last_config = daemon.last_config
        /\ daemon'.round = daemon.round /\ daemon'.todo = daemon.todo
    BY <1>1, DaemonFacts DEF Daemons, Phases
  <1>6. CycleTypeOK'
    BY <1>1, <1>4, <1>5 DEF CycleInv, CycleTypeOK
  <1>7. ActiveSound' /\ WriteInv'
    BY <1>1 DEF CycleInv, ActiveSound, WriteInv
  <1>8. RoundInv'
    BY <1>1, <1>5 DEF CycleInv, RoundInv, InRound, Commanding, Follows
  <1>9. OrderInv'
    BY <1>1, <1>5 DEF CycleInv, OrderInv
  <1>10. RecordedInv'
    BY <1>1, <1>4 DEF CycleInv, RecordedInv, Follows
  <1> QED BY <1>6, <1>7, <1>8, <1>9, <1>10 DEF CycleInv

LEMMA CycleStep == CycleInv /\ [CycleNext]_cycleVars => CycleInv'
  <1> SUFFICES ASSUME CycleInv, [CycleNext]_cycleVars PROVE CycleInv'
    OBVIOUS
  <1>1. ReadingCycle => CycleInv'
    BY StartKeeps, LoadKeeps, ReadPointsKeep, PostKeeps DEF ReadingCycle
  <1>2. ModbusDaemon => CycleInv'
    BY <1>1, PendingKeeps, ClaimKeeps, MappingCheckKeeps, PolicyCheckKeeps, ExecutionKeeps
       DEF ModbusDaemon
  <1>3. BacnetDaemon \/ OpcuaDaemon \/ MqttDaemon => CycleInv'
    BY <1>1 DEF BacnetDaemon, OpcuaDaemon, MqttDaemon
  <1>4. CASE UNCHANGED cycleVars
    <2>1. /\ UNCHANGED <<ordered, protocol, daemon, answers, writes, held, stored>>
          /\ UNCHANGED <<active, policy, mode, calls, changes, outages>>
      BY <1>4 DEF cycleVars
    <2>2. ActiveSound'
      BY <2>1 DEF CycleInv, ActiveSound
    <2> QED BY <2>1, <2>2, VersionsKeep DEF CycleInv, CycleTypeOK
  <1> QED BY <1>2, <1>3, <1>4, CreationKeeps, ChangesKeep DEF CycleNext

LEMMA CycleInvariant == CycleSpec => []CycleInv
  BY CycleInitInv, CycleStep, PTL DEF CycleSpec

(* The versions, the requests, the commands, the daemon and its records.   *)
THEOREM CycleTypeCorrect == CycleSpec => []CycleTypeOK
  <1>1. CycleInv => CycleTypeOK
    BY DEF CycleInv
  <1> QED BY <1>1, CycleInvariant, PTL

(* Whatever versions take over between the statements of a request and     *)
(* the calls of a round, whichever calls fail: a coil is written once for  *)
(* a command, on a simulated device, after both gates, and what is read or *)
(* written follows the latest answer about the configuration               *)
(* (app/commands.py, app/command_policies.py, scripts/modbus_daemon.py).   *)
THEOREM CycleSafeHolds == CycleSpec => []CycleSafe
  <1>1. CycleInv => CycleSafe
    <2> SUFFICES ASSUME CycleInv PROVE CycleSafe
      OBVIOUS
    <2>1. CommandsReachSimulated
      BY DEF CycleInv, OrderInv, WriteInv, Gated, CommandsReachSimulated
    <2>2. ConfigurationFollowed
      BY SoundKinds DEF CycleInv, RecordedInv, ConfigurationFollowed
    <2> QED BY <2>1, <2>2 DEF CycleSafe
  <1> QED BY <1>1, CycleInvariant, PTL
=============================================================================
