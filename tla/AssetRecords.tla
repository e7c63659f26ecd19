----------------------------- MODULE AssetRecords -----------------------------
(* Four records kept beside an asset, each read by a request and then written *)
(* under a constraint or a trigger of its table: a dated property             *)
(* (app/properties.py), a label (app/tags.py), the plans of a space           *)
(* (app/floor_plans.py) and a declaration of OPERAT (app/regulatory/operat.py)*)
EXTENDS Naturals, Sequences, FiniteSets

CONSTANTS
    Editors,        \* people, each with at most one open request
    Dates,          \* dates of effect that are typed
    MaxPeriods,     \* bound: values of the property
    MaxPlans,       \* bound: plans of the space
    MaxEdits,       \* bound: writes of the declaration
    Nobody,         \* no author yet
    NoEdit          \* no open request

VARIABLES
    periods,        \* values of one property of one unit: [from, to]
    label,          \* one label: [status, by]
    plans,          \* the version of each plan of the space, in order of insertion
    declaration,    \* that of one site and year: [status, filled, by, edits]
    edit            \* what the open request of each person has read

recordVars == <<periods, label, plans, declaration, edit>>

OpenEnded == 0      \* valid_to of the current value; the dates are positive

(* What a request may have read. *)
EditRequests ==
    [kind : {"property"}, current : SUBSET (1..MaxPeriods), from : Dates]
    \cup [kind : {"plan"}, version : 1..MaxPlans]
    \cup [kind : {"update"}, filled : BOOLEAN]
    \cup [kind : {"label", "draft", "ready", "submission"}]

ASSUME RecordAssumption ==
    /\ Dates \subseteq Nat \ {OpenEnded}
    /\ MaxPeriods \in Nat /\ MaxPlans \in Nat /\ MaxEdits \in Nat
    /\ Nobody \notin Editors /\ NoEdit \notin EditRequests

RecordTypeOK ==
    /\ periods \in Seq([from : Dates, to : Dates \cup {OpenEnded}])
    /\ Len(periods) <= MaxPeriods
    /\ label \in [status : {"active", "revoked"}, by : Editors \cup {Nobody}]
    /\ plans \in Seq(1..MaxPlans)
    /\ declaration \in [status : {"none", "draft", "ready", "submitted"},
                        filled : BOOLEAN, by : Editors \cup {Nobody}, edits : 0..MaxEdits]
    /\ declaration.status = "submitted" <=> declaration.by # Nobody
    /\ edit \in [Editors -> EditRequests \cup {NoEdit}]

RecordInit ==
    /\ periods = <<>>
    /\ label = [status |-> "active", by |-> Nobody]
    /\ plans = <<>>
    /\ declaration = [status |-> "none", filled |-> FALSE, by |-> Nobody, edits |-> 0]
    /\ edit = [e \in Editors |-> NoEdit]

(* A request has read the row, and goes on to its write. *)
ReadRow(e, what) ==
    /\ edit[e] = NoEdit
    /\ edit' = [edit EXCEPT ![e] = what]
    /\ UNCHANGED <<periods, label, plans, declaration>>

(* The write ends the request, done or refused by the database. *)
WriteRow(e, kind) ==
    /\ edit[e] # NoEdit
    /\ edit[e].kind = kind
    /\ edit' = [edit EXCEPT ![e] = NoEdit]

-----------------------------------------------------------------------------
(* set_property: the value that is current, which must have begun before. *)
CurrentValue == {i \in DOMAIN periods : periods[i].to = OpenEnded}

set_property(e, from) ==
    /\ \A i \in CurrentValue : from > periods[i].from
    /\ ReadRow(e, [kind |-> "property", current |-> CurrentValue, from |-> from])

(* The trigger of a closed period, and the index of open ones. *)
protect_node_property(i, to) == periods[i].to \in {OpenEnded, to}

uq_node_properties_open(closed) == CurrentValue \subseteq closed

(* The current value is closed at the date the new one begins. *)
WriteProperty(e) ==
    /\ WriteRow(e, "property")
    /\ LET new == edit[e]
           closed == [i \in DOMAIN periods |->
                        IF i \in new.current THEN [periods[i] EXCEPT !.to = new.from]
                        ELSE periods[i]]
       IN  IF /\ \A i \in new.current : protect_node_property(i, new.from)
              /\ uq_node_properties_open(new.current)
           THEN /\ Len(periods) < MaxPeriods
                /\ periods' = Append(closed, [from |-> new.from, to |-> OpenEnded])
           ELSE UNCHANGED periods
    /\ UNCHANGED <<label, plans, declaration>>

-----------------------------------------------------------------------------
(* revoke_tag: read active, then updated by its identifier. *)
revoke_tag(e) ==
    /\ label.status = "active"
    /\ ReadRow(e, [kind |-> "label"])

(* Mutant: a label that is revoked may be revoked again. *)
protect_asset_tagSkipped == TRUE

protect_asset_tag == label.status = "active"

WriteTag(e) ==
    /\ WriteRow(e, "label")
    /\ IF protect_asset_tag THEN label' = [status |-> "revoked", by |-> e]
       ELSE UNCHANGED label
    /\ UNCHANGED <<periods, plans, declaration>>

-----------------------------------------------------------------------------
(* record_floor_plan: one statement, which reads the highest version before   *)
(* it waits for another insertion of the version it has found.                *)
record_floor_plan(e, version) ==
    /\ version = 1 \/ \E i \in DOMAIN plans : plans[i] = version - 1
    /\ \A i \in DOMAIN plans : plans[i] < version
    /\ ReadRow(e, [kind |-> "plan", version |-> version])

uq_floor_plans_version(v) == \A i \in DOMAIN plans : plans[i] # v

InsertPlan(e) ==
    /\ WriteRow(e, "plan")
    /\ plans' = IF uq_floor_plans_version(edit[e].version)
                THEN Append(plans, edit[e].version) ELSE plans
    /\ UNCHANGED <<periods, label, declaration>>

-----------------------------------------------------------------------------
(* create_draft_declaration; a second one of the year is refused.             *)
create_draft_declaration(e) ==
    /\ declaration.status = "none"
    /\ ReadRow(e, [kind |-> "draft"])

(* update_declaration: every field is replaced, by nothing if nothing is sent;*)
(* a declaration that is ready may still be changed, and stays ready.         *)
update_declaration(e, filled) ==
    /\ declaration.status \in {"draft", "ready"}
    /\ ReadRow(e, [kind |-> "update", filled |-> filled])

(* mark_ready: a draft with the essential and a consumption. *)
mark_ready(e) ==
    /\ declaration.status = "draft"
    /\ declaration.filled
    /\ ReadRow(e, [kind |-> "ready"])

record_manual_submission(e) ==
    /\ declaration.status = "ready"
    /\ ReadRow(e, [kind |-> "submission"])

protect_operat_declaration_update == declaration.status # "submitted"

uq_operat_declarations_site_year == declaration.status = "none"

InsertDraft(e) ==
    /\ WriteRow(e, "draft")
    /\ declaration' = IF uq_operat_declarations_site_year
                      THEN [declaration EXCEPT !.status = "draft"] ELSE declaration
    /\ UNCHANGED <<periods, label, plans>>

(* Each update is by identifier and sets what it sets, whatever the row is now.*)
WriteDeclaration(e) ==
    /\ \E kind \in {"update", "ready", "submission"} : WriteRow(e, kind)
    /\ IF ~protect_operat_declaration_update THEN UNCHANGED declaration
       ELSE /\ declaration.edits < MaxEdits
            /\ declaration' =
                 CASE edit[e].kind = "update" ->
                        [declaration EXCEPT !.filled = edit[e].filled, !.edits = @ + 1]
                   [] edit[e].kind = "ready" ->
                        [declaration EXCEPT !.status = "ready", !.edits = @ + 1]
                   [] edit[e].kind = "submission" ->
                        [declaration EXCEPT !.status = "submitted", !.by = e, !.edits = @ + 1]
    /\ UNCHANGED <<periods, label, plans>>

RecordNext ==
    \E e \in Editors :
        \/ \E d \in Dates : set_property(e, d)
        \/ WriteProperty(e)
        \/ revoke_tag(e) \/ WriteTag(e)
        \/ \E v \in 1..MaxPlans : record_floor_plan(e, v)
        \/ InsertPlan(e)
        \/ create_draft_declaration(e) \/ InsertDraft(e)
        \/ \E filled \in BOOLEAN : update_declaration(e, filled)
        \/ mark_ready(e) \/ record_manual_submission(e) \/ WriteDeclaration(e)

RecordSpec == RecordInit /\ [][RecordNext]_recordVars

-----------------------------------------------------------------------------
(* At every date from the first on, the property has exactly one value, and   *)
(* the plans of a space are numbered without a gap or a repeat, although each *)
(* request decides from what it read before the other wrote.                  *)
OneValueAtATime ==
    /\ periods # <<>> => Cardinality(CurrentValue) = 1
    /\ \A i \in 1..Len(periods) - 1 : periods[i].to = periods[i + 1].from
    /\ \A i \in DOMAIN plans : plans[i] = i

(* What is settled stays: a declaration that was submitted, the author of a   *)
(* revocation, the dates of a value that has ended. The requests that had     *)
(* read an earlier status write by identifier; the triggers stop them.        *)
SettledKept ==
    /\ declaration.status = "submitted" => declaration' = declaration
    /\ label.status = "revoked" => label' = label
    /\ \A i \in DOMAIN periods \ CurrentValue : periods'[i] = periods[i]
===============================================================================
