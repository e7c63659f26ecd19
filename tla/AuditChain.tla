------------------------------ MODULE AuditChain ------------------------------
(***************************************************************************)
(* The hash-chained audit journal of a tenant (app/audit.py), its check    *)
(* and its external anchors (app/audit_anchor.py).                         *)
(*                                                                         *)
(* A request appends its entries inside its own transaction: it takes the  *)
(* advisory lock of the tenant, which it holds until it ends, reads the    *)
(* last hash in READ COMMITTED and inserts; seq comes from a sequence,     *)
(* which a rollback does not give back.  Hashes do not collide: the hash   *)
(* of an entry is its seq, 0 is GENESIS_HASH.                              *)
(***************************************************************************)
EXTENDS Naturals, FiniteSets, FiniteSetsExt

CONSTANTS
    Writers,        \* transactions that append entries
    Free,           \* nobody holds the lock
    Payloads,       \* payloads of entries
    Rewritten,      \* those that JSONB does not give back as they were written
    MaxEntries,     \* bound: values of the sequence
    MaxAppends      \* bound: entries one transaction appends

ASSUME AuditAssumption ==
    /\ Rewritten \subseteq Payloads
    /\ MaxEntries \in Nat
    /\ Free \notin Writers

VARIABLES
    journal,        \* committed entries
    pending,        \* entries of each open transaction
    step,           \* where each writer is
    previous,       \* previous_hash it has read
    lock,           \* pg_advisory_xact_lock of the tenant
    seq,            \* last value of the sequence
    anchor          \* last entry written to the application's logs, and the journal then

auditVars == <<journal, pending, step, previous, lock, seq, anchor>>

Entries == [seq : 1..MaxEntries, previous : 0..MaxEntries, payload : Payloads]
LastSeq(rows) == IF rows = {} THEN 0 ELSE Max({e.seq : e \in rows})

AuditTypeOK ==
    /\ journal \subseteq Entries
    /\ pending \in [Writers -> SUBSET Entries]
    /\ step \in [Writers -> {"open", "waiting", "locked", "read"}]
    /\ previous \in [Writers -> 0..MaxEntries]
    /\ lock \in Writers \cup {Free}
    /\ seq \in 0..MaxEntries
    /\ anchor.seq \in 0..MaxEntries

AuditInit ==
    /\ journal = {}
    /\ pending = [w \in Writers |-> {}]
    /\ step = [w \in Writers |-> "open"]
    /\ previous = [w \in Writers |-> 0]
    /\ lock = Free
    /\ seq = 0
    /\ anchor = [seq |-> 0, journal |-> {}]

WriterGoes(w, from, to) == step[w] = from /\ step' = [step EXCEPT ![w] = to]

-----------------------------------------------------------------------------
(* append_audit_entry, statement by statement.                             *)

CallAppend(w) ==
    /\ Cardinality(pending[w]) < MaxAppends /\ seq < MaxEntries
    /\ WriterGoes(w, "open", "waiting")
    /\ UNCHANGED <<journal, pending, previous, lock, seq, anchor>>

pg_advisory_xact_lockMissing(w) == TRUE
pg_advisory_xact_lock(w) == lock \in {Free, w}

TakeLock(w) ==
    /\ pg_advisory_xact_lock(w)
    /\ lock' = w
    /\ WriterGoes(w, "waiting", "locked")
    /\ UNCHANGED <<journal, pending, previous, seq, anchor>>

(* A statement of READ COMMITTED sees what is committed and its own rows.  *)
ReadPreviousHash(w) ==
    /\ WriterGoes(w, "locked", "read")
    /\ previous' = [previous EXCEPT ![w] = LastSeq(journal \cup pending[w])]
    /\ UNCHANGED <<journal, pending, lock, seq, anchor>>

InsertEntry(w) ==
    /\ seq < MaxEntries
    /\ WriterGoes(w, "read", "open")
    /\ seq' = seq + 1
    /\ \E p \in Payloads :
          pending' = [pending EXCEPT ![w] =
             @ \cup {[seq |-> seq + 1, previous |-> previous[w], payload |-> p]}]
    /\ UNCHANGED <<journal, previous, lock, anchor>>

(* The request ends (COMMIT) or fails, wherever it is (ROLLBACK).          *)
EndRequest(w) ==
    /\ pending' = [pending EXCEPT ![w] = {}]
    /\ step' = [step EXCEPT ![w] = "open"]
    /\ lock' = IF lock = w THEN Free ELSE lock
    /\ UNCHANGED <<previous, seq, anchor>>

Commit(w) == pending[w] # {} /\ step[w] = "open" /\ EndRequest(w) /\ journal' = journal \cup pending[w]
Rollback(w) == (step[w] # "open" \/ pending[w] # {}) /\ EndRequest(w) /\ UNCHANGED journal

-----------------------------------------------------------------------------
_anchor_tenant ==
    /\ journal # {}
    /\ anchor' = [seq |-> LastSeq(journal), journal |-> journal]
    /\ UNCHANGED <<journal, pending, step, previous, lock, seq>>

(* verify_chain_integrity: the first entry, in the order of seq, whose     *)
(* previous hash or whose content does not match, 0 if there is none.      *)
LinkBroken(e) == e.previous # LastSeq({f \in journal : f.seq < e.seq})
ContentBroken(e) == e.payload \in Rewritten
verify_chain_integrity ==
    LET broken == {e \in journal : LinkBroken(e) \/ ContentBroken(e)}
    IN  IF broken = {} THEN 0 ELSE Min({e.seq : e \in broken})

AuditNext ==
    \/ \E w \in Writers :
          \/ CallAppend(w)
          \/ TakeLock(w)
          \/ ReadPreviousHash(w)
          \/ InsertEntry(w)
          \/ Commit(w)
          \/ Rollback(w)
    \/ _anchor_tenant

AuditSpec == AuditInit /\ [][AuditNext]_auditVars

-----------------------------------------------------------------------------
(* Whatever transactions append, wait, commit or roll back, the check of   *)
(* the journal finds no broken link, it reports nothing but an entry whose *)
(* payload JSONB gave back changed (audit.py:36-55, 109-152); and what an  *)
(* anchor covers never changes: no entry is inserted later before the      *)
(* anchored one (audit_anchor.py, _anchor_tenant).                         *)
JournalVerifies ==
    /\ LET broken == verify_chain_integrity
       IN  broken # 0 => \E e \in journal : e.seq = broken /\ ~LinkBroken(e)
    /\ {e \in journal : e.seq <= anchor.seq} = anchor.journal
===============================================================================
