-------------------------------- MODULE Filing --------------------------------
(* What is filed beside the registry: documents of an equipment and plans of   *)
(* a space, sent by the web console in three calls (a signed address, the      *)
(* object, the row), and the placements drawn on a plan, proposed, validated   *)
(* and erased by several people.                                               *)
EXTENDS Naturals, Sequences, FiniteSets

CONSTANTS
    Subjects,       \* equipments and spaces that have a file
    Files,       \* the bytes of a file, told apart by their SHA-256
    Keepers,         \* people who keep the registry
    Targets,        \* spaces, equipments and points that a plan may show
    MaxKeys, MaxDrawn, MaxFilings,     \* bounds
    NoOne, Unstarted

VARIABLES
    objects,        \* the store: what was put at each key, in order of the keys
    filed,          \* rows of documents and floor_plans: [subject, key, sha256]
    upload,         \* where the console is in the upload of each person
    drawn,          \* rows of plan_placements, in order of insertion
    act,            \* the open transaction of each person on a placement
    entries         \* entries of the audit journal, in order

filingVars == <<objects, filed, upload, drawn, act, entries>>

Missing == "missing"
Folder(key) == objects[key].subject

StoredObjects == [subject : Subjects, content : Files \cup {Missing}]
FiledRows == [subject : Subjects, key : 1..MaxKeys, sha256 : Files]
DrawnRows ==
    [target : Targets, status : {"proposed", "validated", "deleted"}, by : Keepers \cup {NoOne}]
FilingEntries ==
    [action : {"uploaded", "proposed", "validated", "deleted"}, of : Nat, by : Keepers]

(* Where an upload of the console is, and what a transaction has written. *)
Uploads ==
    [stage : {"signed", "put", "failed"}, key : 1..MaxKeys, subject : Subjects, content : Files]
PlacementActs == [action : {"validated", "deleted"}, of : 1..MaxDrawn]

ASSUME FilingAssumption ==
    /\ MaxKeys \in Nat /\ MaxDrawn \in Nat
    /\ Unstarted \notin Uploads \cup PlacementActs

FilingTypeOK ==
    /\ objects \in Seq(StoredObjects) /\ Len(objects) <= MaxKeys
    /\ filed \in Seq(FiledRows) /\ \A i \in DOMAIN filed : filed[i].key \in DOMAIN objects
    /\ drawn \in Seq(DrawnRows) /\ Len(drawn) <= MaxDrawn
    /\ entries \in Seq(FilingEntries)
    /\ upload \in [Keepers -> Uploads \cup {Unstarted}]
    /\ act \in [Keepers -> PlacementActs \cup {Unstarted}]
    /\ \A c, d \in Keepers : act[c] # Unstarted /\ act[c] = act[d] => c = d

FilingInit ==
    /\ objects = <<>> /\ filed = <<>> /\ drawn = <<>> /\ entries = <<>>
    /\ upload = [c \in Keepers |-> Unstarted]
    /\ act = [c \in Keepers |-> Unstarted]

Entry(action, of, by) == [action |-> action, of |-> of, by |-> by]
append_audit_entry(entry) == entries' = Append(entries, entry)
StillActing == Len(entries) < MaxFilings

-----------------------------------------------------------------------------
(* The console asks for an address: a key of its own in the folder of the      *)
(* subject, and nothing recorded.                                              *)
create_upload_url(c, subject, content) ==
    /\ upload[c] = Unstarted /\ act[c] = Unstarted /\ StillActing
    /\ Len(objects) < MaxKeys
    /\ objects' = Append(objects, [subject |-> subject, content |-> Missing])
    /\ upload' = [upload EXCEPT ![c] = [stage |-> "signed", key |-> Len(objects) + 1,
                                        subject |-> subject, content |-> content]]
    /\ UNCHANGED <<filed, drawn, act, entries>>

(* The object is put, or not, and the answer is read, or lost.                 *)
PutObject(c, arrives, answered) ==
    /\ upload[c] # Unstarted /\ upload[c].stage = "signed"
    /\ answered => arrives
    /\ objects' = IF arrives
                  THEN [objects EXCEPT ![upload[c].key].content = upload[c].content]
                  ELSE objects
    /\ upload' = [upload EXCEPT ![c] = [@ EXCEPT !.stage = IF answered THEN "put" ELSE "failed"]]
    /\ UNCHANGED <<filed, drawn, act, entries>>

(* Without the answer of the store, the console ends there.                    *)
MayRecord(stage) == stage = "put"

GiveUp(c) ==
    /\ upload[c] # Unstarted /\ ~ MayRecord(upload[c].stage) /\ upload[c].stage # "signed"
    /\ upload' = [upload EXCEPT ![c] = Unstarted]
    /\ UNCHANGED <<objects, filed, drawn, act, entries>>

key_belongs_to(key, subject) == Folder(key) = subject

(* The row and its entry in one transaction; the digest is that of the bytes   *)
(* the console has sent.                                                       *)
create_document(c) ==
    /\ upload[c] # Unstarted /\ MayRecord(upload[c].stage)
    /\ key_belongs_to(upload[c].key, upload[c].subject)
    /\ filed' = Append(filed, [subject |-> upload[c].subject, key |-> upload[c].key,
                               sha256 |-> upload[c].content])
    /\ append_audit_entry(Entry("uploaded", upload[c].key, c))
    /\ upload' = [upload EXCEPT ![c] = Unstarted]
    /\ UNCHANGED <<objects, drawn, act>>

(* The call is lost, or a plan of the same version was recorded meanwhile.     *)
RecordFails(c) ==
    /\ upload[c] # Unstarted /\ MayRecord(upload[c].stage)
    /\ upload' = [upload EXCEPT ![c] = Unstarted]
    /\ UNCHANGED <<objects, filed, drawn, act, entries>>

-----------------------------------------------------------------------------
(* Placements.  A transaction writes its row, which stays locked, and commits  *)
(* with its entry or is lost with its connection.                              *)
RowLocked(i) == \E c \in Keepers : act[c] # Unstarted /\ act[c].of = i
MayAct(c) == upload[c] = Unstarted /\ act[c] = Unstarted /\ StillActing

record_placement(c, target) ==
    /\ MayAct(c) /\ Len(drawn) < MaxDrawn
    /\ drawn' = Append(drawn, [target |-> target, status |-> "proposed", by |-> NoOne])
    /\ append_audit_entry(Entry("proposed", Len(drawn) + 1, c))
    /\ UNCHANGED <<objects, filed, upload, act>>

Found(i) == drawn[i].status # "deleted"

(* The row is updated only from "proposed"; otherwise the answer is 404 or 409 *)
(* and nothing is written.                                                     *)
validate_placement(c, i) ==
    /\ MayAct(c) /\ ~ RowLocked(i)
    /\ drawn[i].status = "proposed"
    /\ act' = [act EXCEPT ![c] = [action |-> "validated", of |-> i]]
    /\ UNCHANGED <<objects, filed, upload, drawn, entries>>

delete_placement(c, i) ==
    /\ MayAct(c) /\ ~ RowLocked(i)
    /\ Found(i)
    /\ act' = [act EXCEPT ![c] = [action |-> "deleted", of |-> i]]
    /\ UNCHANGED <<objects, filed, upload, drawn, entries>>

CommitAct(c) ==
    /\ act[c] # Unstarted
    /\ LET i == act[c].of
       IN drawn' = IF act[c].action = "validated"
                   THEN [drawn EXCEPT ![i] = [@ EXCEPT !.status = "validated", !.by = c]]
                   ELSE [drawn EXCEPT ![i] = [@ EXCEPT !.status = "deleted"]]
    /\ append_audit_entry(Entry(act[c].action, act[c].of, c))
    /\ act' = [act EXCEPT ![c] = Unstarted]
    /\ UNCHANGED <<objects, filed, upload>>

LoseConnection(c) ==
    /\ act[c] # Unstarted
    /\ act' = [act EXCEPT ![c] = Unstarted]
    /\ UNCHANGED <<objects, filed, upload, drawn, entries>>

FilingNext ==
    \E c \in Keepers :
        \/ \E s \in Subjects, k \in Files : create_upload_url(c, s, k)
        \/ \E arrives, answered \in BOOLEAN : PutObject(c, arrives, answered)
        \/ GiveUp(c) \/ create_document(c) \/ RecordFails(c)
        \/ \E t \in Targets : record_placement(c, t)
        \/ \E i \in DOMAIN drawn : validate_placement(c, i) \/ delete_placement(c, i)
        \/ CommitAct(c) \/ LoseConnection(c)

FilingSpec == FilingInit /\ [][FilingNext]_filingVars

-----------------------------------------------------------------------------
(* What list_live_placements shows of a plan. *)
list_live_placements == {i \in DOMAIN drawn : drawn[i].status = "validated"}

(* Every row leads to an object of its own, in the folder of its subject, with *)
(* the digest that the row declares, whichever call was lost on the way.       *)
FilesReadable ==
    /\ \A i \in DOMAIN filed :
          /\ objects[filed[i].key].content = filed[i].sha256
          /\ Folder(filed[i].key) = filed[i].subject
    /\ \A i, j \in DOMAIN filed : filed[i].key = filed[j].key => i = j

Acts(action, i) == {n \in DOMAIN entries : entries[n].action = action /\ entries[n].of = i}

(* What the screen shows of a plan was validated once, by the person the row   *)
(* names, after it was proposed and not erased since, as the journal tells it, *)
(* whichever of two people who validate or erase it is served first.           *)
PlacementsJournaled ==
    /\ \A i \in DOMAIN drawn :
          /\ Cardinality(Acts("proposed", i)) = 1
          /\ Cardinality(Acts("validated", i)) <= 1 /\ Cardinality(Acts("deleted", i)) <= 1
          /\ \A n \in Acts("deleted", i), m \in Acts("validated", i) : m < n
    /\ \A i \in list_live_placements :
          Acts("deleted", i) = {} /\ \E n \in Acts("validated", i) : entries[n].by = drawn[i].by

FilingSound == FilesReadable /\ PlacementsJournaled
===============================================================================
