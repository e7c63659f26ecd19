----------------------------- MODULE PendingUpload -----------------------------
(***************************************************************************)
(* Interventions entered off line on the phone (apps/mobile: lib/db.ts,    *)
(* lib/sync.ts) and the replayable routes that receive them                *)
(* (app/maintenance.py, app/closures.py, app/fgas.py and their routes).    *)
(*                                                                         *)
(* An intervention leaves in pieces: itself, its photo (three requests),   *)
(* its closure and its refrigerant form if it has them.  The phone marks   *)
(* each piece once it is acknowledged and deletes its row last.  A request *)
(* the phone has given up on may still be served later, next to its retry. *)
(***************************************************************************)
EXTENDS Naturals, Sequences

CONSTANTS
    Refs,           \* client_ref of the interventions entered on the phone
    Users,          \* people who use the phone
    Drafts,         \* what may be filled in: is there a closure, which form
    MaxFaults,      \* bound: answers lost and applications killed
    Nobody, NoForm

(* A refrigerant form: are the names filled in, what was typed as dates    *)
(* ("iso", "other" text, "blank") and as quantities ("ok", "negative",     *)
(* "text"), which boxes are ticked without their detail, are all leaks     *)
(* located.                                                                *)
FormShape ==
    [names : BOOLEAN, signed_at : {"iso", "other", "blank"},
     checked_on : {"iso", "other", "blank"}, quantity : {"ok", "negative", "text"},
     nature : {"none", "listed", "other without detail"}, wasteDetailed : BOOLEAN,
     leaksLocated : BOOLEAN]

ASSUME UploadAssumption ==
    /\ Drafts \subseteq [closing : BOOLEAN, form : FormShape \cup {NoForm}]
    /\ Nobody \notin Users \cup Refs
    /\ MaxFaults \in Nat

VARIABLES
    held,           \* pending_interventions: "absent", "queued" or "gone"
    closing, form,  \* columns closure and fgas of the row
    acked,          \* columns server_id, photo_uploaded, closure_sent, fgas_sent
    serverId,
    user,           \* who is logged in
    sender, todo, row, objectKey,   \* the synchronization in flight
    net,            \* requests on their way or being served
    faults,
    interventions, photos, closures, fiches,    \* committed tables, rows in order
    stored, nextKey                             \* object storage

localVars == <<held, closing, form, acked, serverId>>
phoneVars == <<user, sender, todo, row, objectKey>>
tableVars == <<interventions, photos, closures, fiches>>
uploadVars == <<localVars, phoneVars, net, faults, tableVars, stored, nextKey>>

Steps == {"create", "url", "put", "photo", "closure", "fgas"}
Requests ==
    [step : Steps, ref : Refs, by : Users, iv : Nat, key : Nat,
     awaited : BOOLEAN, checked : BOOLEAN]

(* The four tables, without the columns that nothing here depends on. *)
InterventionRows == [ref : Refs, by : Users]
PhotoRows == [ref : Refs, iv : Nat, key : Nat]
FormRows == [iv : Nat, by : Users]      \* closures, and refrigerant forms

UploadTypeOK ==
    /\ held \in [Refs -> {"absent", "queued", "gone"}]
    /\ closing \in [Refs -> BOOLEAN]
    /\ form \in [Refs -> FormShape \cup {NoForm}]
    /\ acked \in [Refs -> SUBSET {"create", "photo", "closure", "fgas"}]
    /\ serverId \in [Refs -> Nat]
    /\ user \in Users /\ sender \in Users \cup {Nobody}
    /\ todo \in SUBSET Refs /\ row \in Refs \cup {Nobody}
    /\ objectKey \in Nat /\ nextKey \in Nat /\ faults \in 0..MaxFaults
    /\ net \in SUBSET Requests
    /\ \A m, n \in net : m.awaited /\ n.awaited => m = n
    /\ stored \in SUBSET (1..nextKey)
    /\ interventions \in Seq(InterventionRows) /\ photos \in Seq(PhotoRows)
    /\ closures \in Seq(FormRows) /\ fiches \in Seq(FormRows)

UploadInit ==
    /\ held = [r \in Refs |-> "absent"]
    /\ closing = [r \in Refs |-> FALSE]
    /\ form = [r \in Refs |-> NoForm]
    /\ acked = [r \in Refs |-> {}]
    /\ serverId = [r \in Refs |-> 0]
    /\ user \in Users
    /\ sender = Nobody /\ todo = {} /\ row = Nobody /\ objectKey = 0
    /\ net = {} /\ faults = 0
    /\ interventions = <<>> /\ photos = <<>> /\ closures = <<>> /\ fiches = <<>>
    /\ stored = {} /\ nextKey = 0

-----------------------------------------------------------------------------
validateFgas(f) ==
    /\ f.names /\ f.signed_at # "blank"
    /\ f.quantity = "ok"
    /\ f.nature = "listed"
    /\ f.wasteDetailed /\ f.leaksLocated

(* What the schema parses: the two dates must be dates.                    *)
FgasCreate(f) ==
    /\ f.names /\ f.signed_at = "iso" /\ f.checked_on # "other"
    /\ f.quantity = "ok"
    /\ f.nature # "none"

(* The checks of record_fgas_intervention itself.                          *)
FgasAllowed(f) ==
    /\ f.quantity # "negative"
    /\ f.nature = "listed"
    /\ f.wasteDetailed /\ f.leaksLocated

-----------------------------------------------------------------------------
(* The phone.                                                              *)

(* The form is validated, then the row is inserted with all its columns.   *)
handleSave(r, d) ==
    /\ held[r] = "absent"
    /\ d.form # NoForm => validateFgas(d.form)
    /\ held' = [held EXCEPT ![r] = "queued"]
    /\ closing' = [closing EXCEPT ![r] = d.closing]
    /\ form' = [form EXCEPT ![r] = d.form]
    /\ UNCHANGED <<acked, serverId, phoneVars, net, faults, tableVars, stored, nextKey>>

Login(u) ==
    /\ user # u
    /\ user' = u
    /\ UNCHANGED <<localVars, sender, todo, row, objectKey, net, faults, tableVars,
                   stored, nextKey>>

(* synchronize: one at a time, with the token of the moment.               *)
synchronize ==
    /\ sender = Nobody
    /\ \E r \in Refs : held[r] = "queued"
    /\ sender' = user
    /\ todo' = {r \in Refs : held[r] = "queued"}
    /\ UNCHANGED <<localVars, user, row, objectKey, net, faults, tableVars, stored, nextKey>>

NextRow(r) ==
    /\ row = Nobody
    /\ r \in todo
    /\ row' = r
    /\ todo' = todo \ {r}
    /\ UNCHANGED <<localVars, user, sender, objectKey, net, faults, tableVars, stored, nextKey>>

SyncEnd ==
    /\ sender # Nobody /\ row = Nobody /\ todo = {}
    /\ sender' = Nobody
    /\ UNCHANGED <<localVars, user, todo, row, objectKey, net, faults, tableVars,
                   stored, nextKey>>

Awaiting == \E m \in net : m.awaited

Wanted(r) ==
    {"create", "photo"} \cup {p \in {"closure"} : closing[r]}
                        \cup {p \in {"fgas"} : form[r] # NoForm}

Send(s) ==
    /\ net' = net \cup {[step |-> s, ref |-> row, by |-> sender, iv |-> serverId[row],
                         key |-> objectKey, awaited |-> TRUE, checked |-> FALSE]}
    /\ UNCHANGED <<localVars, phoneVars, faults, tableVars, stored, nextKey>>

ensureInterventionCreated ==
    /\ row # Nobody /\ ~Awaiting
    /\ "create" \notin acked[row]
    /\ Send("create")

(* URL, then the file under that key, then the confirmation: the key is    *)
(* fresh, so its file is stored only once the phone has had the answer.    *)
uploadPhoto ==
    /\ row # Nobody /\ ~Awaiting
    /\ "create" \in acked[row] /\ "photo" \notin acked[row]
    /\ Send(IF objectKey = 0 THEN "url" ELSE IF objectKey \in stored THEN "photo" ELSE "put")

sendClosure ==
    /\ row # Nobody /\ ~Awaiting
    /\ {"create", "photo"} \subseteq acked[row]
    /\ closing[row] /\ "closure" \notin acked[row]
    /\ Send("closure")

sendFgas ==
    /\ row # Nobody /\ ~Awaiting
    /\ Wanted(row) \ acked[row] = {"fgas"}
    /\ Send("fgas")

DeleteOncePictured ==    \* mutant of deletePendingIntervention: the rest is forgotten
    /\ row # Nobody /\ ~Awaiting
    /\ {"create", "photo"} \subseteq acked[row]
    /\ held' = [held EXCEPT ![row] = "gone"]
    /\ row' = Nobody /\ objectKey' = 0
    /\ UNCHANGED <<closing, form, acked, serverId, user, sender, todo, net, faults,
                   tableVars, stored, nextKey>>

deletePendingIntervention ==
    /\ row # Nobody /\ ~Awaiting
    /\ Wanted(row) \subseteq acked[row]
    /\ held' = [held EXCEPT ![row] = "gone"]
    /\ row' = Nobody /\ objectKey' = 0
    /\ UNCHANGED <<closing, form, acked, serverId, user, sender, todo, net, faults,
                   tableVars, stored, nextKey>>

(* The answer is an error: the row waits for the next synchronization.     *)
RowFailed ==
    /\ row' = Nobody /\ objectKey' = 0
    /\ UNCHANGED <<localVars, user, sender, todo>>

(* The connection breaks; the request may be served later or never.        *)
GiveUp(m) ==
    /\ m.awaited /\ faults < MaxFaults
    /\ faults' = faults + 1
    /\ net' = (net \ {m}) \cup {[m EXCEPT !.awaited = FALSE]}
    /\ RowFailed
    /\ UNCHANGED <<tableVars, stored, nextKey>>

Killed ==
    /\ sender # Nobody /\ faults < MaxFaults
    /\ faults' = faults + 1
    /\ net' = {[m EXCEPT !.awaited = FALSE] : m \in net}
    /\ sender' = Nobody /\ todo' = {} /\ row' = Nobody /\ objectKey' = 0
    /\ UNCHANGED <<localVars, user, tableVars, stored, nextKey>>

-----------------------------------------------------------------------------
(* The answer reaches the phone if it still waits for it: an acknowledged  *)
(* piece is marked in the local row.                                       *)
Answer(m, ok, id) ==
    /\ net' = net \ {m}
    /\ IF ~m.awaited THEN UNCHANGED <<localVars, phoneVars>>
       ELSE IF ~ok THEN RowFailed
       ELSE /\ acked' = [acked EXCEPT ![row] = @ \cup ({m.step} \ {"url", "put"})]
            /\ serverId' = IF m.step = "create" THEN [serverId EXCEPT ![row] = id] ELSE serverId
            /\ objectKey' = IF m.step = "url" THEN id ELSE objectKey
            /\ UNCHANGED <<held, closing, form, user, sender, todo, row>>

(* log_intervention_once: INSERT .. ON CONFLICT (client_ref) DO NOTHING,   *)
(* which waits for a concurrent insertion of the same reference.           *)
WithRefAndAuthor(m) ==           \* mutant of WithRef
    {i \in DOMAIN interventions : interventions[i].ref = m.ref /\ interventions[i].by = m.by}
WithRef(m) == {i \in DOMAIN interventions : interventions[i].ref = m.ref}

NeverSame(table, i, m) == FALSE    \* mutant of SameAuthor

(* The author is the one field of a resent body that can differ: it comes  *)
(* from the token of the synchronization.                                  *)
SameAuthor(table, i, m) == table[i].by = m.by

create_intervention(m) ==
    /\ m.step = "create"
    /\ IF WithRef(m) = {}
       THEN /\ interventions' = Append(interventions, [ref |-> m.ref, by |-> m.by])
            /\ Answer(m, TRUE, Len(interventions) + 1)
       ELSE /\ \E i \in WithRef(m) : Answer(m, SameAuthor(interventions, i, m), i)
            /\ UNCHANGED interventions
    /\ UNCHANGED <<faults, photos, closures, fiches, stored, nextKey>>

create_photo_upload_url(m) ==
    /\ m.step = "url"
    /\ nextKey' = nextKey + 1
    /\ Answer(m, m.iv \in DOMAIN interventions, nextKey + 1)
    /\ UNCHANGED <<faults, tableVars, stored>>

PutObject(m) ==
    /\ m.step = "put"
    /\ stored' = stored \cup {m.key}
    /\ Answer(m, TRUE, 0)
    /\ UNCHANGED <<faults, tableVars, nextKey>>

(* record_photo_once: the first photo confirmed is kept.                   *)
create_photo(m) ==
    /\ m.step = "photo"
    /\ LET same == {i \in DOMAIN photos : photos[i].ref = m.ref}
       IN IF same = {}
          THEN /\ photos' = Append(photos, [ref |-> m.ref, iv |-> m.iv, key |-> m.key])
               /\ Answer(m, TRUE, 0)
          ELSE /\ \E i \in same : Answer(m, photos[i].iv = m.iv, 0)
               /\ UNCHANGED photos
    /\ UNCHANGED <<faults, interventions, closures, fiches, stored, nextKey>>

Of(table, iv) == {i \in DOMAIN table : table[i].iv = iv}

(* close_intervention and record_fgas_intervention look for the row of the *)
(* intervention first ...                                                  *)
LookUp(m, table, valid) ==
    /\ ~m.checked
    /\ IF valid /\ m.iv \in DOMAIN interventions /\ Of(table, m.iv) = {}
       THEN /\ net' = (net \ {m}) \cup {[m EXCEPT !.checked = TRUE]}
            /\ UNCHANGED <<localVars, phoneVars>>
       ELSE Answer(m, valid /\ \E i \in Of(table, m.iv) : SameAuthor(table, i, m), 0)
    /\ UNCHANGED <<faults, tableVars, stored, nextKey>>

(* ... and insert it then: uniqueness of intervention_id makes a second    *)
(* insertion an error.                                                     *)

create_closure(m) ==
    /\ m.step = "closure"
    /\ \/ LookUp(m, closures, TRUE)
       \/ /\ m.checked
          /\ closures' = IF Of(closures, m.iv) = {}
                         THEN Append(closures, [iv |-> m.iv, by |-> m.by]) ELSE closures
          /\ Answer(m, Of(closures, m.iv) = {}, 0)
          /\ UNCHANGED <<faults, interventions, photos, fiches, stored, nextKey>>

create_fgas_intervention(m) ==
    /\ m.step = "fgas"
    /\ \/ LookUp(m, fiches, FgasCreate(form[m.ref]) /\ FgasAllowed(form[m.ref]))
       \/ /\ m.checked
          /\ fiches' = IF Of(fiches, m.iv) = {}
                       THEN Append(fiches, [iv |-> m.iv, by |-> m.by]) ELSE fiches
          /\ Answer(m, Of(fiches, m.iv) = {}, 0)
          /\ UNCHANGED <<faults, interventions, photos, closures, stored, nextKey>>

Serve(m) ==
    \/ create_intervention(m)
    \/ create_photo_upload_url(m)
    \/ PutObject(m)
    \/ create_photo(m)
    \/ create_closure(m)
    \/ create_fgas_intervention(m)

-----------------------------------------------------------------------------
PhoneStep ==
    \/ \E r \in Refs : NextRow(r)
    \/ SyncEnd
    \/ ensureInterventionCreated \/ uploadPhoto \/ sendClosure \/ sendFgas
    \/ deletePendingIntervention

UploadNext ==
    \/ \E r \in Refs, d \in Drafts : handleSave(r, d)
    \/ \E u \in Users : Login(u)
    \/ synchronize
    \/ PhoneStep
    \/ Killed
    \/ \E m \in net : GiveUp(m) \/ Serve(m)

UploadSpec == UploadInit /\ [][UploadNext]_uploadVars

(* The application runs, an awaited request is answered unless the link    *)
(* breaks, and everyone who uses the phone logs in again, also while it    *)
(* does not synchronize, and synchronizes then (each opening of the        *)
(* application does).                                                      *)
UploadFairness ==
    /\ WF_uploadVars(PhoneStep)
    /\ WF_uploadVars(\E m \in net : m.awaited /\ Serve(m))
    /\ \A u \in Users :
          /\ SF_uploadVars(sender = Nobody /\ Login(u))
          /\ SF_uploadVars(user = u /\ synchronize)

UploadFairSpec == UploadSpec /\ UploadFairness

-----------------------------------------------------------------------------
(* Properties.                                                             *)

(* However often a piece is sent, and whichever of the sendings are served *)
(* late or at the same time, the server holds it once: one intervention    *)
(* per client_ref, one photo, one closure and one refrigerant form per     *)
(* intervention.                                                           *)
ReceivedOnce ==
    /\ \A i, j \in DOMAIN interventions : interventions[i].ref = interventions[j].ref => i = j
    /\ \A i, j \in DOMAIN photos : photos[i].iv = photos[j].iv => i = j
    /\ \A i, j \in DOMAIN closures : closures[i].iv = closures[j].iv => i = j
    /\ \A i, j \in DOMAIN fiches : fiches[i].iv = fiches[j].iv => i = j

(* The phone deletes its row only when everything it held is on the        *)
(* server, the photo linked to a file that is in the storage.              *)
DeletedOnlyWhenStored ==
    \A r \in Refs : held[r] = "gone" =>
        \E i \in DOMAIN interventions :
            /\ interventions[i].ref = r
            /\ \E k \in Of(photos, i) : photos[k].key \in stored
            /\ closing[r] => Of(closures, i) # {}
            /\ form[r] # NoForm => Of(fiches, i) # {}

(* The rows of the server, each under the reference of its intervention; a *)
(* photo counts once its file is in the storage.                           *)
RefOf(iv) == interventions[iv].ref
Received ==
    {<<RefOf(i), "create", i>> : i \in DOMAIN interventions}
    \cup {<<RefOf(photos[k].iv), "photo", k>> :
             k \in {k \in DOMAIN photos : photos[k].key \in stored}}
    \cup {<<RefOf(closures[k].iv), "closure", k>> : k \in DOMAIN closures}
    \cup {<<RefOf(fiches[k].iv), "fgas", k>> : k \in DOMAIN fiches}

(* What the phone and the server promise together of each intervention.    *)
Handover == INSTANCE InterventionHandover WITH
    wanted <- [r \in Refs |-> Wanted(r)], received <- Received

(* An intervention stays on the phone until all its pieces are on the      *)
(* server; each arrives once, only if it was entered, after those it       *)
(* belongs to, and none disappears (syncPendingInterventions and the       *)
(* replayable routes).                                                     *)
ImplementsHandover == Handover!Spec

(* Whatever answers are lost, an intervention entered on the phone leaves  *)
(* it in the end: no retry is refused for ever.                            *)
PendingLeaves == \A r \in Refs : held[r] = "queued" ~> held[r] = "gone"

(* fgas.ts, validateFgas: "memes regles que l'API, verifiees avant         *)
(* l'enregistrement local": what the phone queues, the server accepts.     *)
QueuedFormsAccepted ==
    \A r \in Refs : form[r] # NoForm => FgasCreate(form[r]) /\ FgasAllowed(form[r])
=============================================================================
