------------------------------ MODULE WatchProofs ------------------------------
(***************************************************************************)
(* Proofs about what the platform writes down of what happens on a site,   *)
(* and what it computes from its measures: the audit journal of a tenant,  *)
(* the firings of its automation rules, its findings and work orders, the  *)
(* histories that are shown; the status of the equipments, the energy of a *)
(* period, the findings of the rules, the field test of a meter; for any   *)
(* number of writers, of rules, of people and any bounds.                  *)
(***************************************************************************)
EXTENDS AuditChain, Automation, Supervision, Timeline, EquipmentStatus, Energy, Diagnostics,
        FieldTest, WellFoundedInduction, FiniteSetTheorems, SequenceTheorems, TLAPS

-----------------------------------------------------------------------------
(* The audit journal.                                                      *)
(*                                                                         *)
(* The chain is a property of the committed entries and of those that one  *)
(* transaction adds to them: what makes it hold is that the advisory lock  *)
(* is kept until the end of the transaction, so that the hash a writer has *)
(* read is still that of the last entry when it inserts, and that numbers  *)
(* are drawn under it, so that they grow in the order of the commits.      *)

(* Only the holder of the lock has read, or has rows to commit. *)
HolderInv ==
    \A w \in Writers : step[w] \in {"locked", "read"} \/ pending[w] # {} => lock = w

(* Numbers are drawn in order, under the lock: the rows of a transaction   *)
(* come after the committed ones, and after the anchored one.              *)
NumbersInv ==
    /\ \A e \in journal : e.seq <= seq
    /\ anchor.seq <= seq
    /\ \A w \in Writers : \A f \in pending[w] :
          /\ f.seq <= seq
          /\ anchor.seq < f.seq
          /\ \A e \in journal : e.seq < f.seq

(* The rows that a writer sees are chained; what it has read last is the   *)
(* hash of the last of them.                                               *)
Chained(entries) == \A e \in entries : e.previous = LastSeq({f \in entries : f.seq < e.seq})
ChainInv ==
    /\ Chained(journal)
    /\ \A w \in Writers :
          /\ Chained(journal \cup pending[w])
          /\ step[w] = "read" => previous[w] = LastSeq(journal \cup pending[w])

(* What an anchor covers is what was committed then. *)
AnchorInv == {e \in journal : e.seq <= anchor.seq} = anchor.journal

AuditInv == AuditTypeOK /\ HolderInv /\ NumbersInv /\ ChainInv /\ AnchorInv

-----------------------------------------------------------------------------
(* A non-empty set of numbers has a least one: that of the entries the     *)
(* check of the journal reports is one of them.                            *)
LEMMA HasLeast ==
  ASSUME NEW S \in SUBSET Nat, S # {}
  PROVE  \E m \in S : \A n \in S : m <= n
  <1>1. PICK m \in S : \A n \in S : <<n, m>> \notin OpToRel(<, Nat)
    BY NatLessThanWellFounded, WFMin
  <1>2. \A n \in S : ~(n < m)
    BY <1>1 DEF OpToRel
  <1>3. QED
    BY <1>2

LEMMA MinIsLeast ==
  ASSUME NEW S \in SUBSET Nat, S # {}
  PROVE  Min(S) \in S
  BY HasLeast DEF Min

(* ... and a greatest one, if it is bounded.                               *)
LEMMA HasGreatest ==
  ASSUME NEW b \in Nat, NEW S \in SUBSET (0..b), S # {}
  PROVE  \E m \in S : \A n \in S : n <= m
  <1> DEFINE T == {b - n : n \in S}
  <1>1. T \in SUBSET Nat /\ T # {}
    <2>1. PICK n : n \in S
      OBVIOUS
    <2>2. b - n \in T
      BY <2>1
    <2>3. \A m \in S : b - m \in Nat
      OBVIOUS
    <2>4. QED
      BY <2>2, <2>3
  <1>2. PICK t \in T : \A u \in T : t <= u
    BY <1>1, HasLeast
  <1>3. PICK m \in S : t = b - m
    BY <1>2
  <1>4. ASSUME NEW n \in S PROVE n <= m
    <2>1. b - m <= b - n
      BY <1>2, <1>3
    <2>2. QED
      BY <2>1
  <1>5. QED
    BY <1>4

(* The hash that a statement reads is that of an entry after which none    *)
(* comes, GENESIS_HASH if there is none.                                   *)
LEMMA LastOfNone == LastSeq({}) = 0
  BY DEF LastSeq

LEMMA LastOfSome ==
  ASSUME NEW entries \in SUBSET Entries, entries # {}
  PROVE  /\ \E e \in entries : LastSeq(entries) = e.seq
         /\ \A e \in entries : e.seq <= LastSeq(entries)
  <1> DEFINE S == {e.seq : e \in entries}
  <1>1. S \in SUBSET (0..MaxEntries) /\ S # {}
    BY AuditAssumption DEF Entries
  <1>2. \E m \in S : \A n \in S : m >= n
    BY <1>1, HasGreatest, AuditAssumption
  <1>3. Max(S) \in S /\ \A n \in S : Max(S) >= n
    BY <1>2 DEF Max
  <1>4. LastSeq(entries) = Max(S)
    BY DEF LastSeq
  <1>5. QED
    BY <1>1, <1>3, <1>4, AuditAssumption

LEMMA LastTyped ==
  ASSUME NEW entries \in SUBSET Entries
  PROVE  LastSeq(entries) \in 0..MaxEntries
  BY LastOfNone, LastOfSome, AuditAssumption DEF Entries

(* An entry that comes after all others and carries the hash of the last   *)
(* of them keeps them chained.                                             *)
LEMMA ChainGrows ==
  ASSUME NEW entries \in SUBSET Entries, Chained(entries), NEW e \in Entries,
         \A f \in entries : f.seq < e.seq, e.previous = LastSeq(entries)
  PROVE  Chained(entries \cup {e})
  <1>1. {f \in entries \cup {e} : f.seq < e.seq} = entries
    BY DEF Entries
  <1>2. ASSUME NEW g \in entries
        PROVE  {f \in entries \cup {e} : f.seq < g.seq} = {f \in entries : f.seq < g.seq}
    BY DEF Entries
  <1>3. QED
    BY <1>1, <1>2 DEF Chained

(* Rows that come later say nothing about the committed ones.              *)
LEMMA ChainOfFirst ==
  ASSUME NEW entries \in SUBSET Entries, NEW more \in SUBSET Entries,
         Chained(entries \cup more), \A e \in entries, f \in more : e.seq < f.seq
  PROVE  Chained(entries)
  <1>1. ASSUME NEW e \in entries
        PROVE  {f \in entries \cup more : f.seq < e.seq} = {f \in entries : f.seq < e.seq}
    BY DEF Entries
  <1>2. QED
    BY <1>1 DEF Chained

-----------------------------------------------------------------------------
(* The invariant holds initially.                                          *)
LEMMA AuditInitInv == AuditInit => AuditInv
  BY AuditAssumption
  DEF AuditInit, AuditInv, AuditTypeOK, HolderInv, NumbersInv, ChainInv, AnchorInv, Chained,
      Entries

(* One step of each writer, and the anchoring.                             *)
LEMMA AuditTypeStep == AuditInv /\ [AuditNext]_auditVars => AuditTypeOK'
  <1> SUFFICES ASSUME AuditInv, [AuditNext]_auditVars PROVE AuditTypeOK'
    OBVIOUS
  <1> USE DEF AuditInv, AuditTypeOK, WriterGoes
  <1>1. ASSUME NEW w \in Writers, CallAppend(w) \/ TakeLock(w) PROVE AuditTypeOK'
    BY <1>1 DEF CallAppend, TakeLock
  <1>2. ASSUME NEW w \in Writers, ReadPreviousHash(w) PROVE AuditTypeOK'
    <2>1. LastSeq(journal \cup pending[w]) \in 0..MaxEntries
      BY LastTyped
    <2>2. QED
      BY <1>2, <2>1 DEF ReadPreviousHash
  <1>3. ASSUME NEW w \in Writers, InsertEntry(w) PROVE AuditTypeOK'
    <2>1. PICK p \in Payloads :
            pending' = [pending EXCEPT ![w] =
               @ \cup {[seq |-> seq + 1, previous |-> previous[w], payload |-> p]}]
      BY <1>3 DEF InsertEntry
    <2>2. [seq |-> seq + 1, previous |-> previous[w], payload |-> p] \in Entries
      BY <1>3, AuditAssumption DEF InsertEntry, Entries
    <2>3. pending' \in [Writers -> SUBSET Entries]
      BY <2>1, <2>2
    <2>4. QED
      BY <1>3, <2>3, AuditAssumption DEF InsertEntry
  <1>4. ASSUME NEW w \in Writers, Commit(w) \/ Rollback(w) PROVE AuditTypeOK'
    BY <1>4 DEF Commit, Rollback, EndRequest
  <1>5. CASE _anchor_tenant
    BY <1>5, LastTyped DEF _anchor_tenant
  <1>6. CASE UNCHANGED auditVars
    BY <1>6 DEF auditVars
  <1>7. QED
    BY <1>1, <1>2, <1>3, <1>4, <1>5, <1>6 DEF AuditNext

LEMMA HolderStep == AuditInv /\ [AuditNext]_auditVars => HolderInv'
  <1> SUFFICES ASSUME AuditInv, [AuditNext]_auditVars PROVE HolderInv'
    OBVIOUS
  <1> USE AuditAssumption DEF AuditInv, AuditTypeOK, HolderInv, WriterGoes
  <1>1. ASSUME NEW w \in Writers, CallAppend(w) \/ ReadPreviousHash(w) PROVE HolderInv'
    BY <1>1 DEF CallAppend, ReadPreviousHash
  <1>2. ASSUME NEW w \in Writers, TakeLock(w) PROVE HolderInv'
    BY <1>2 DEF TakeLock, pg_advisory_xact_lock
  <1>3. ASSUME NEW w \in Writers, InsertEntry(w) PROVE HolderInv'
    BY <1>3 DEF InsertEntry
  <1>4. ASSUME NEW w \in Writers, Commit(w) \/ Rollback(w) PROVE HolderInv'
    BY <1>4 DEF Commit, Rollback, EndRequest
  <1>5. CASE _anchor_tenant
    BY <1>5 DEF _anchor_tenant
  <1>6. CASE UNCHANGED auditVars
    BY <1>6 DEF auditVars
  <1>7. QED
    BY <1>1, <1>2, <1>3, <1>4, <1>5, <1>6 DEF AuditNext

(* The rows of the other writers, while one of them has some.              *)
LEMMA OthersHaveNone ==
  ASSUME AuditInv, NEW w \in Writers, step[w] = "read" \/ pending[w] # {},
         NEW u \in Writers, u # w
  PROVE  pending[u] = {} /\ step[u] \notin {"locked", "read"}
  BY AuditAssumption DEF AuditInv, HolderInv

LEMMA OrderStep == AuditInv /\ [AuditNext]_auditVars => NumbersInv'
  <1> SUFFICES ASSUME AuditInv, [AuditNext]_auditVars PROVE NumbersInv'
    OBVIOUS
  <1> USE AuditAssumption DEF AuditInv, AuditTypeOK, NumbersInv, WriterGoes
  <1>1. ASSUME NEW w \in Writers, CallAppend(w) \/ TakeLock(w) \/ ReadPreviousHash(w)
        PROVE  NumbersInv'
    BY <1>1 DEF CallAppend, TakeLock, ReadPreviousHash
  <1>2. ASSUME NEW w \in Writers, InsertEntry(w) PROVE NumbersInv'
    <2>1. PICK p \in Payloads :
            pending' = [pending EXCEPT ![w] =
               @ \cup {[seq |-> seq + 1, previous |-> previous[w], payload |-> p]}]
      BY <1>2 DEF InsertEntry
    <2>2. seq' = seq + 1 /\ journal' = journal /\ anchor' = anchor
      BY <1>2 DEF InsertEntry
    <2>3. ASSUME NEW u \in Writers, NEW f \in pending'[u]
          PROVE  f \in pending[u] \/ f.seq = seq + 1
      BY <2>1
    <2>4. \A e \in journal : e.seq \in Nat
      BY DEF Entries
    <2>5. \A u \in Writers : \A f \in pending[u] : f.seq \in Nat
      BY DEF Entries
    <2>6. QED
      BY <2>2, <2>3, <2>4, <2>5
  <1>3. ASSUME NEW w \in Writers, Commit(w) PROVE NumbersInv'
    <2>1. \A u \in Writers : pending'[u] = {}
      BY <1>3, OthersHaveNone DEF Commit, EndRequest
    <2>2. journal' = journal \cup pending[w] /\ seq' = seq /\ anchor' = anchor
      BY <1>3 DEF Commit, EndRequest
    <2>3. QED
      BY <2>1, <2>2
  <1>4. ASSUME NEW w \in Writers, Rollback(w) PROVE NumbersInv'
    <2>1. \A u \in Writers : pending'[u] \subseteq pending[u]
      BY <1>4 DEF Rollback, EndRequest
    <2>2. journal' = journal /\ seq' = seq /\ anchor' = anchor
      BY <1>4 DEF Rollback, EndRequest
    <2>3. QED
      BY <2>1, <2>2
  <1>5. CASE _anchor_tenant
    <2>1. PICK e \in journal : LastSeq(journal) = e.seq
      BY <1>5, LastOfSome DEF _anchor_tenant
    <2>2. anchor'.seq = e.seq
      BY <1>5, <2>1 DEF _anchor_tenant
    <2>3. journal' = journal /\ seq' = seq /\ pending' = pending
      BY <1>5 DEF _anchor_tenant
    <2>4. QED
      BY <2>2, <2>3
  <1>6. CASE UNCHANGED auditVars
    BY <1>6 DEF auditVars
  <1>7. QED
    BY <1>1, <1>2, <1>3, <1>4, <1>5, <1>6 DEF AuditNext

(* The hash that was read is still the last one at the insertion, because  *)
(* nobody else has committed meanwhile.                                    *)
LEMMA ChainStep == AuditInv /\ [AuditNext]_auditVars => ChainInv'
  <1> SUFFICES ASSUME AuditInv, [AuditNext]_auditVars PROVE ChainInv'
    OBVIOUS
  <1> USE AuditAssumption DEF AuditInv, AuditTypeOK, ChainInv, WriterGoes
  <1>1. ASSUME NEW w \in Writers, CallAppend(w) \/ TakeLock(w)
        PROVE  ChainInv'
    <2>1. journal' = journal /\ pending' = pending /\ previous' = previous
      BY <1>1 DEF CallAppend, TakeLock
    <2>2. \A u \in Writers : step'[u] = "read" => step[u] = "read"
      BY <1>1 DEF CallAppend, TakeLock
    <2>3. QED
      BY <2>1, <2>2 DEF Chained
  <1>2. ASSUME NEW w \in Writers, ReadPreviousHash(w)
        PROVE  ChainInv'
    <2>1. /\ journal' = journal /\ pending' = pending
          /\ previous' = [previous EXCEPT ![w] = LastSeq(journal \cup pending[w])]
          /\ step' = [step EXCEPT ![w] = "read"]
      BY <1>2 DEF ReadPreviousHash
    <2>2. ASSUME NEW u \in Writers, step'[u] = "read"
          PROVE  previous'[u] = LastSeq(journal \cup pending[u])
      BY <2>1, <2>2
    <2>3. QED
      BY <2>1, <2>2 DEF Chained
  <1>3. ASSUME NEW w \in Writers, InsertEntry(w) PROVE ChainInv'
    <2>1. PICK p \in Payloads :
            pending' = [pending EXCEPT ![w] =
               @ \cup {[seq |-> seq + 1, previous |-> previous[w], payload |-> p]}]
      BY <1>3 DEF InsertEntry
    <2> DEFINE new == [seq |-> seq + 1, previous |-> previous[w], payload |-> p]
               told == journal \cup pending[w]
    <2>2. /\ step[w] = "read" /\ step' = [step EXCEPT ![w] = "open"]
          /\ journal' = journal /\ previous' = previous
          /\ new \in Entries
      BY <1>3 DEF InsertEntry, Entries
    <2>3. told \in SUBSET Entries /\ \A f \in told : f.seq < new.seq
      BY DEF NumbersInv, Entries
    <2>4. new.previous = LastSeq(told) /\ Chained(told)
      BY <2>2
    <2>5. Chained(told \cup {new})
      BY <2>2, <2>3, <2>4, ChainGrows
    <2>6. pending'[w] = pending[w] \cup {new}
      BY <2>1
    <2>7. journal' \cup pending'[w] = told \cup {new}
      BY <2>2, <2>6
    <2>8. \A u \in Writers : u # w => pending'[u] = pending[u] /\ step'[u] = step[u]
      BY <2>1, <2>2
    <2>9. ASSUME NEW u \in Writers
          PROVE  /\ Chained(journal' \cup pending'[u])
                 /\ step'[u] = "read" => previous'[u] = LastSeq(journal' \cup pending'[u])
      <3>1. CASE u = w
        BY <2>2, <2>5, <2>7, <3>1
      <3>2. CASE u # w
        BY <2>2, <2>8, <3>2
      <3>3. QED
        BY <3>1, <3>2
    <2>10. QED
      BY <2>2, <2>9 DEF Chained
  <1>4. ASSUME NEW w \in Writers, Commit(w) PROVE ChainInv'
    <2>1. \A u \in Writers : pending'[u] = {} /\ step'[u] # "read"
      BY <1>4, OthersHaveNone DEF Commit, EndRequest
    <2>2. journal' = journal \cup pending[w]
      BY <1>4 DEF Commit
    <2>3. Chained(journal')
      BY <2>2
    <2>4. \A u \in Writers : journal' \cup pending'[u] = journal'
      BY <2>1
    <2>5. QED
      BY <2>1, <2>3, <2>4 DEF Chained
  <1>5. ASSUME NEW w \in Writers, Rollback(w) PROVE ChainInv'
    <2>1. /\ journal' = journal /\ previous' = previous
          /\ pending' = [pending EXCEPT ![w] = {}] /\ step' = [step EXCEPT ![w] = "open"]
      BY <1>5 DEF Rollback, EndRequest
    <2>2. ASSUME NEW u \in Writers
          PROVE  /\ Chained(journal \cup pending'[u])
                 /\ step'[u] = "read" => previous[u] = LastSeq(journal \cup pending'[u])
      <3>1. CASE u = w
        <4>1. journal \cup pending'[u] = journal /\ step'[u] = "open"
          BY <2>1, <3>1
        <4>2. QED
          BY <4>1
      <3>2. CASE u # w
        BY <2>1, <3>2
      <3>3. QED
        BY <3>1, <3>2
    <2>3. QED
      BY <2>1, <2>2 DEF Chained
  <1>6. CASE _anchor_tenant
    BY <1>6 DEF _anchor_tenant, Chained
  <1>7. CASE UNCHANGED auditVars
    BY <1>7 DEF auditVars, Chained
  <1>8. QED
    BY <1>1, <1>2, <1>3, <1>4, <1>5, <1>6, <1>7 DEF AuditNext

LEMMA AnchorStep == AuditInv /\ [AuditNext]_auditVars => AnchorInv'
  <1> SUFFICES ASSUME AuditInv, [AuditNext]_auditVars PROVE AnchorInv'
    OBVIOUS
  <1> USE AuditAssumption DEF AuditInv, AuditTypeOK, AnchorInv
  <1>1. CASE journal' = journal /\ anchor' = anchor
    BY <1>1
  <1>2. ASSUME NEW w \in Writers, Commit(w) PROVE AnchorInv'
    <2>1. journal' = journal \cup pending[w] /\ anchor' = anchor
      BY <1>2 DEF Commit, EndRequest
    <2>2. \A f \in pending[w] : ~(f.seq <= anchor.seq)
      BY DEF NumbersInv, Entries
    <2>3. QED
      BY <2>1, <2>2
  <1>3. CASE _anchor_tenant
    <2>1. journal' = journal /\ anchor' = [seq |-> LastSeq(journal), journal |-> journal]
      BY <1>3 DEF _anchor_tenant
    <2>2. \A e \in journal : e.seq <= LastSeq(journal)
      BY LastOfSome
    <2>3. QED
      BY <2>1, <2>2
  <1>4. QED
    BY <1>1, <1>2, <1>3
    DEF AuditNext, auditVars, CallAppend, TakeLock, ReadPreviousHash, InsertEntry, Rollback,
        EndRequest

LEMMA AuditInvariant == AuditSpec => []AuditInv
  <1>1. AuditInv /\ [AuditNext]_auditVars => AuditInv'
    BY AuditTypeStep, HolderStep, OrderStep, ChainStep, AnchorStep DEF AuditInv
  <1>2. QED
    BY <1>1, AuditInitInv, PTL DEF AuditSpec

-----------------------------------------------------------------------------
(* Every reachable state of the journal and of its writers is well typed.  *)
THEOREM AuditTypeCorrect == AuditSpec => []AuditTypeOK
  <1>1. AuditInv => AuditTypeOK
    BY DEF AuditInv
  <1>2. QED
    BY <1>1, AuditInvariant, PTL

(* Transactions that append, one entry or several, never work at the same  *)
(* time: one that has read the last hash, or has rows to commit, is alone  *)
(* (audit.py, pg_advisory_xact_lock).                                      *)
THEOREM WritersExcludeEachOther ==
  AuditSpec => [](\A w, u \in Writers :
                    pending[w] # {} /\ (step[u] = "read" \/ pending[u] # {}) => w = u)
  <1>1. AuditInv => \A w, u \in Writers :
          pending[w] # {} /\ (step[u] = "read" \/ pending[u] # {}) => w = u
    BY OthersHaveNone
  <1>2. QED
    BY <1>1, AuditInvariant, PTL

(* Whatever the writers do, the check of the journal reports no broken     *)
(* link, and what an anchor covers never changes.                          *)
THEOREM JournalVerifiesHolds == AuditSpec => []JournalVerifies
  <1>1. AuditInv => JournalVerifies
    <2> SUFFICES ASSUME AuditInv, verify_chain_integrity # 0
                 PROVE  \E e \in journal : e.seq = verify_chain_integrity /\ ~LinkBroken(e)
      BY DEF AuditInv, AnchorInv, JournalVerifies
    <2> DEFINE broken == {e \in journal : LinkBroken(e) \/ ContentBroken(e)}
               S == {e.seq : e \in broken}
    <2>1. broken # {} /\ verify_chain_integrity = Min(S)
      BY DEF verify_chain_integrity
    <2>2. S \in SUBSET Nat /\ S # {}
      BY <2>1 DEF AuditInv, AuditTypeOK, Entries
    <2>3. Min(S) \in S
      BY <2>2, MinIsLeast
    <2>4. PICK e \in broken : e.seq = Min(S)
      BY <2>3
    <2>5. ~LinkBroken(e)
      BY <2>4 DEF AuditInv, ChainInv, Chained, LinkBroken
    <2>6. QED
      BY <2>1, <2>4, <2>5
  <1>2. QED
    BY <1>1, AuditInvariant, PTL

-----------------------------------------------------------------------------
(* The firings of automation rules.                                        *)

(* What is recorded of a rule: its events in the order of their instants,  *)
(* none for as long as the brake lasts after a firing, and as many         *)
(* commands as firings, at their instants.                                 *)
LogOK(log, cmds, last) ==
    /\ \A i \in DOMAIN log : log[i].at <= last
    /\ \A i, j \in DOMAIN log : i <= j => log[i].at <= log[j].at
    /\ \A i, j \in DOMAIN log :
          i < j /\ log[i].type = "FIRED" => log[j].at - log[i].at >= Interval
    /\ FiringsOf(log) = ToSet(cmds)
    /\ \A i, j \in DOMAIN cmds : i < j => cmds[j] - cmds[i] >= Interval

AutoInv ==
    /\ AutoTypeOK
    /\ \A r \in AutoRules : LogOK(events[r], automated[r], time)
    /\ sweep # NoSweep =>
          \A r \in AutoRules : LogOK(sweep.events[r], sweep.automated[r], sweep.at)

LEMMA AppendFacts ==
  ASSUME NEW S, NEW s \in Seq(S), NEW x \in S
  PROVE  /\ Append(s, x) \in Seq(S) /\ Len(s) \in Nat
         /\ DOMAIN s = 1..Len(s) /\ DOMAIN Append(s, x) = 1..(Len(s) + 1)
         /\ \A i \in 1..Len(s) : Append(s, x)[i] = s[i] /\ s[i] \in S
         /\ Append(s, x)[Len(s) + 1] = x
  BY AppendProperties, LenProperties, ElementOfSeq

LEMMA ToSetAppend ==
  ASSUME NEW S, NEW s \in Seq(S), NEW x \in S
  PROVE  ToSet(Append(s, x)) = ToSet(s) \cup {x}
  <1> DEFINE t == Append(s, x)
  <1>1. /\ Len(s) \in Nat /\ DOMAIN s = 1..Len(s) /\ DOMAIN t = 1..(Len(s) + 1)
        /\ \A i \in 1..Len(s) : t[i] = s[i]
        /\ t[Len(s) + 1] = x
    BY AppendFacts
  <1> HIDE DEF t
  <1>2. ToSet(t) = ToSet(s) \cup {x}
    BY <1>1 DEF ToSet
  <1>3. QED
    BY <1>2 DEF t

(* The last entries of a sequence.                                         *)
LEMMA LastEntries ==
  ASSUME NEW S, NEW s \in Seq(S), NEW m \in 1..Len(s)
  PROVE  /\ SubSeq(s, m, Len(s)) \in Seq(S) /\ Len(SubSeq(s, m, Len(s))) = Len(s) - m + 1
         /\ \A k \in 1..(Len(s) - m + 1) : SubSeq(s, m, Len(s))[k] = s[m + k - 1]
  <1>1. PICK n : n = Len(s)
    OBVIOUS
  <1>2. n \in Int /\ m \in Int /\ m <= n /\ \A k \in m..n : s[k] \in S
    BY <1>1, LenProperties, ElementOfSeq
  <1>3. /\ SubSeq(s, m, n) \in Seq(S)
        /\ Len(SubSeq(s, m, n)) = IF m <= n THEN n - m + 1 ELSE 0
        /\ \A k \in 1..(n - m + 1) : SubSeq(s, m, n)[k] = s[m + k - 1]
    BY <1>2, SubSeqProperties
  <1> QED BY <1>1, <1>2, <1>3

(* The brake looks at the last events only, yet stops whatever comes too   *)
(* early after any firing: those that it does not see are older than an    *)
(* event which came after the brake.                                       *)
LEMMA BrakeSeesEnough ==
  ASSUME NEW log \in Seq(RuleEvents), NEW cmds, NEW at \in 0..MaxTime, LogOK(log, cmds, at),
         ~CoolsDown(log, at)
  PROVE  \A i \in DOMAIN log : log[i].type = "FIRED" => at - log[i].at >= Interval
  <1> SUFFICES ASSUME NEW i \in DOMAIN log, log[i].type = "FIRED"
               PROVE  at - log[i].at >= Interval
    OBVIOUS
  <1> DEFINE n == Len(log)
             a == IF n > EventLimit THEN n - EventLimit + 1 ELSE 1
             window == list_events_for_subject(log)
             fired == FiringsOf(window)
  <1>a. n \in Nat /\ DOMAIN log = 1..n /\ \A k \in 1..n : log[k] \in RuleEvents
    BY LenProperties, ElementOfSeq
  <1>b. \A k \in 1..n : log[k].at \in 0..MaxTime
    BY <1>a DEF RuleEvents
  <1>1. /\ n \in Nat /\ DOMAIN log = 1..n /\ \A k \in 1..n : log[k] \in RuleEvents
        /\ \A k \in 1..n : log[k].at \in 0..MaxTime
    BY <1>a, <1>b
  <1>2. Interval \in Nat /\ EventLimit \in Nat \ {0} /\ MaxTime \in Nat
    BY AutomationAssumption
  <1>3. a \in 1..n /\ i \in 1..n
    BY <1>1, <1>2
  <1>4. CASE i < a
    <2>1. n \in DOMAIN log /\ i < n
      BY <1>1, <1>3, <1>4
    <2>2. log[n].at - log[i].at >= Interval /\ log[n].at <= at
      BY <2>1 DEF LogOK
    <2>3. log[n].at \in 0..MaxTime /\ log[i].at \in 0..MaxTime
      BY <1>1, <1>3, <2>1
    <2>4. QED
      BY <1>2, <2>2, <2>3
  <1>5. CASE i >= a
    <2>1. window = SubSeq(log, a, n)
      BY DEF list_events_for_subject
    <2>2. /\ window \in Seq(RuleEvents) /\ Len(window) = n - a + 1
          /\ \A k \in 1..(n - a + 1) : window[k] = log[a + k - 1]
      <3> HIDE DEF window, a
      <3> QED BY <1>3, <2>1, LastEntries
    <2> HIDE DEF window, a
    <2>3. DOMAIN window = 1..(n - a + 1) /\ \A k \in 1..(n - a + 1) : window[k] \in RuleEvents
      BY <2>2, LenProperties, ElementOfSeq
    <2>4. i - a + 1 \in 1..(n - a + 1) /\ a + (i - a + 1) - 1 = i
      BY <1>1, <1>3, <1>5
    <2>5. log[i] \in ToSet(window)
      BY <2>2, <2>3, <2>4 DEF ToSet
    <2>6. log[i].at \in fired
      BY <2>5 DEF FiringsOf
    <2>7. fired \subseteq 0..MaxTime
      BY <2>3 DEF FiringsOf, ToSet, RuleEvents
    <2> HIDE DEF fired
    <2>8. PICK m \in fired : \A x \in fired : x <= m
      BY <1>2, <2>6, <2>7, HasGreatest
    <2>9. Max(fired) \in fired /\ \A x \in fired : Max(fired) >= x
      BY <2>7, <2>8 DEF Max
    <2>10. last_fired_at(log) = {Max(fired)}
      BY <2>6 DEF last_fired_at, fired, window
    <2>11. ~(at - Max(fired) < Interval)
      BY <2>10 DEF CoolsDown
    <2>12. /\ log[i].at \in 0..MaxTime /\ Max(fired) \in 0..MaxTime
           /\ Max(fired) >= log[i].at
      BY <2>6, <2>7, <2>9
    <2>13. QED
      BY <1>2, <2>11, <2>12
  <1>6. QED
    BY <1>1, <1>3, <1>4, <1>5

(* The firings of a journal are those of its last entry and of the rest.   *)
LEMMA FiringsAppend ==
  ASSUME NEW log \in Seq(RuleEvents), NEW e \in RuleEvents
  PROVE  FiringsOf(Append(log, e)) =
            IF e.type = "FIRED" THEN FiringsOf(log) \cup {e.at} ELSE FiringsOf(log)
  <1>1. ToSet(Append(log, e)) = ToSet(log) \cup {e}
    BY ToSetAppend
  <1>2. QED
    BY <1>1 DEF FiringsOf

(* A rule out of its brake may record a refusal, or a firing and its       *)
(* command.                                                                *)
LEMMA LogGrows ==
  ASSUME NEW log \in Seq(RuleEvents), NEW cmds \in Seq(0..MaxTime), NEW at \in 0..MaxTime,
         LogOK(log, cmds, at), ~CoolsDown(log, at), NEW type \in {"FIRED", "BLOCKED"}
  PROVE  LogOK(Append(log, [type |-> type, at |-> at]),
               IF type = "FIRED" THEN Append(cmds, at) ELSE cmds, at)
  <1> DEFINE e == [type |-> type, at |-> at]
             log2 == Append(log, e)
             cmds2 == IF type = "FIRED" THEN Append(cmds, at) ELSE cmds
             n == Len(log)
             k == Len(cmds)
             Times == 0..MaxTime
  <1>a. cmds \in Seq(Times) /\ at \in Times
    OBVIOUS
  <1> HIDE DEF Times
  <1>1. e \in RuleEvents /\ e.type = type /\ e.at = at
    BY DEF RuleEvents
  <1> HIDE DEF e
  <1>2. /\ n \in Nat /\ DOMAIN log = 1..n /\ DOMAIN log2 = 1..(n + 1)
        /\ \A i \in 1..n : log2[i] = log[i] /\ log[i] \in RuleEvents
        /\ log2[n + 1] = e
    BY <1>1, AppendFacts
  <1>3. /\ k \in Nat /\ DOMAIN cmds = 1..k /\ DOMAIN Append(cmds, at) = 1..(k + 1)
        /\ \A i \in 1..k : Append(cmds, at)[i] = cmds[i] /\ cmds[i] \in Times
        /\ Append(cmds, at)[k + 1] = at
    BY <1>a, AppendFacts
  <1>b. \A i \in 1..k : cmds[i] \in 0..MaxTime
    BY <1>3 DEF Times
  <1>4. \A i \in 1..n : log[i].type = "FIRED" => at - log[i].at >= Interval
    BY <1>2, BrakeSeesEnough
  <1>5. \A i \in 1..k : at - cmds[i] >= Interval
    <2> SUFFICES ASSUME NEW i \in 1..k PROVE at - cmds[i] >= Interval
      OBVIOUS
    <2>1. cmds[i] \in ToSet(cmds)
      BY <1>3 DEF ToSet
    <2>2. cmds[i] \in FiringsOf(log)
      BY <2>1 DEF LogOK
    <2>3. PICK x \in ToSet(log) : x.type = "FIRED" /\ x.at = cmds[i]
      BY <2>2 DEF FiringsOf
    <2>4. PICK j \in 1..n : log[j] = x
      BY <1>2, <2>3 DEF ToSet
    <2>5. QED
      BY <1>4, <2>3, <2>4
  <1> HIDE DEF log2, n, k
  <1>6. \A i \in 1..n : log[i].at <= at
    BY <1>2 DEF LogOK
  <1>7. \A i \in DOMAIN log2 : i \in 1..n \/ i = n + 1
    BY <1>2
  <1>8. \A i \in DOMAIN log2 : log2[i].at <= at
    BY <1>1, <1>2, <1>6, <1>7
  <1>9. \A i, j \in DOMAIN log2 : i <= j => log2[i].at <= log2[j].at
    <2> SUFFICES ASSUME NEW i \in DOMAIN log2, NEW j \in DOMAIN log2, i <= j
                 PROVE  log2[i].at <= log2[j].at
      OBVIOUS
    <2>1. CASE j = n + 1
      BY <1>1, <1>2, <1>8, <2>1
    <2>2. CASE j \in 1..n
      <3>1. i \in 1..n
        BY <1>2, <1>7, <2>2
      <3>2. QED
        BY <1>2, <2>2, <3>1 DEF LogOK
    <2>3. QED
      BY <1>7, <2>1, <2>2
  <1>10. \A i, j \in DOMAIN log2 :
            i < j /\ log2[i].type = "FIRED" => log2[j].at - log2[i].at >= Interval
    <2> SUFFICES ASSUME NEW i \in DOMAIN log2, NEW j \in DOMAIN log2, i < j,
                        log2[i].type = "FIRED"
                 PROVE  log2[j].at - log2[i].at >= Interval
      OBVIOUS
    <2>1. i \in 1..n
      BY <1>2, <1>7
    <2>2. CASE j = n + 1
      BY <1>1, <1>2, <1>4, <2>1, <2>2
    <2>3. CASE j \in 1..n
      BY <1>2, <2>1, <2>3 DEF LogOK
    <2>4. QED
      BY <1>7, <2>2, <2>3
  <1>11. FiringsOf(log2) = ToSet(cmds2)
    <2>1. ToSet(Append(cmds, at)) = ToSet(cmds) \cup {at}
      BY <1>a, ToSetAppend
    <2>2. FiringsOf(log2) = IF type = "FIRED" THEN FiringsOf(log) \cup {at} ELSE FiringsOf(log)
      BY <1>1, FiringsAppend DEF log2
    <2>3. FiringsOf(log) = ToSet(cmds)
      BY DEF LogOK
    <2>4. QED
      BY <2>1, <2>2, <2>3
  <1>12. \A i, j \in DOMAIN cmds2 : i < j => cmds2[j] - cmds2[i] >= Interval
    <2>1. \A i, j \in 1..k : i < j => cmds[j] - cmds[i] >= Interval
      BY <1>3 DEF LogOK
    <2>2. CASE type = "FIRED"
      <3> SUFFICES ASSUME NEW i \in 1..(k + 1), NEW j \in 1..(k + 1), i < j
                   PROVE  Append(cmds, at)[j] - Append(cmds, at)[i] >= Interval
        BY <1>3, <2>2
      <3>1. i \in 1..k
        BY <1>3
      <3>2. CASE j \in 1..k
        BY <1>3, <2>1, <3>1, <3>2
      <3>3. CASE j = k + 1
        BY <1>3, <1>5, <1>b, <3>1, <3>3
      <3>4. QED
        BY <1>3, <3>2, <3>3
    <2>3. CASE type # "FIRED"
      BY <1>3, <2>1, <2>3
    <2>4. QED
      BY <2>2, <2>3
  <1>13. LogOK(log2, cmds2, at)
    BY <1>8, <1>9, <1>10, <1>11, <1>12 DEF LogOK
  <1>14. QED
    BY <1>13 DEF log2, e

LEMMA LogKeeps ==
  ASSUME NEW log \in Seq(RuleEvents), NEW cmds, NEW a \in 0..MaxTime, NEW b \in 0..MaxTime,
         a <= b, LogOK(log, cmds, a)
  PROVE  LogOK(log, cmds, b)
  <1>1. DOMAIN log = 1..Len(log) /\ \A i \in 1..Len(log) : log[i] \in RuleEvents
    BY LenProperties, ElementOfSeq
  <1>2. \A i \in DOMAIN log : log[i].at \in 0..MaxTime
    BY <1>1 DEF RuleEvents
  <1>3. \A i \in DOMAIN log : log[i].at <= b
    BY <1>2, AutomationAssumption DEF LogOK
  <1>4. QED
    BY <1>3 DEF LogOK

LEMMA AutoInitInv == AutoInit => AutoInv
  <1> SUFFICES ASSUME AutoInit PROVE AutoInv
    OBVIOUS
  <1>1. <<>> \in Seq(RuleEvents) /\ <<>> \in Seq(0..MaxTime) /\ DOMAIN <<>> = {}
    BY EmptySeq
  <1>2. AutoTypeOK
    BY <1>1, AutomationAssumption DEF AutoInit, AutoTypeOK, EventsOfRules, CommandsOfRules
  <1>3. LogOK(<<>>, <<>>, 0)
    <2>1. ToSet(<<>>) = {}
      BY <1>1 DEF ToSet
    <2>2. FiringsOf(<<>>) = {}
      BY <2>1 DEF FiringsOf
    <2>3. QED
      BY <1>1, <2>1, <2>2 DEF LogOK
  <1>4. \A r \in AutoRules : events[r] = <<>> /\ automated[r] = <<>>
    BY DEF AutoInit
  <1>5. QED
    BY <1>2, <1>3, <1>4 DEF AutoInv, AutoInit

(* What an evaluation makes of the journal that its sweep keeps.           *)
LEMMA EvaluateKeeps ==
  ASSUME AutoInv, NEW r \in AutoRules, Evaluate(r)
  PROVE  /\ sweep' \in [at : 0..MaxTime, todo : SUBSET AutoRules, events : EventsOfRules,
                        automated : CommandsOfRules]
         /\ sweep'.at = sweep.at
         /\ \A q \in AutoRules : LogOK(sweep'.events[q], sweep'.automated[q], sweep.at)
  <1> DEFINE Times == 0..MaxTime
             log == sweep.events[r]
             cmds == sweep.automated[r]
             at == sweep.at
  <1>1. /\ sweep # NoSweep
        /\ sweep \in [at : Times, todo : SUBSET AutoRules, events : EventsOfRules,
                      automated : CommandsOfRules]
        /\ \A q \in AutoRules : LogOK(sweep.events[q], sweep.automated[q], at)
    BY DEF AutoInv, AutoTypeOK, Evaluate
  <1>2. /\ log \in Seq(RuleEvents) /\ cmds \in Seq(Times) /\ at \in Times
        /\ LogOK(log, cmds, at)
    BY <1>1 DEF EventsOfRules, CommandsOfRules
  <1>3. PICK obstacle \in Obstacles :
          LET status == Status(log, at, obstacle) IN
          sweep' = [sweep EXCEPT
              !.todo = @ \ {r},
              !.events[r] = CASE status = "none" -> Records(r, "FIRED")
                              [] status = "refused" -> Records(r, "BLOCKED")
                              [] OTHER -> @,
              !.automated[r] = IF status = "none" THEN Append(@, at) ELSE @]
    BY DEF Evaluate
  <1> DEFINE status == Status(log, at, obstacle)
             log2 == CASE status = "none" -> Records(r, "FIRED")
                       [] status = "refused" -> Records(r, "BLOCKED")
                       [] OTHER -> log
             cmds2 == IF status = "none" THEN Append(cmds, at) ELSE cmds
  <1>4. sweep' = [sweep EXCEPT !.todo = @ \ {r},
                               !.events = [@ EXCEPT ![r] = log2],
                               !.automated = [@ EXCEPT ![r] = cmds2]]
    BY <1>3
  <1>5. log2 \in Seq(RuleEvents) /\ cmds2 \in Seq(Times) /\ LogOK(log2, cmds2, at)
    <2>1. \A type \in {"FIRED", "BLOCKED"} : [type |-> type, at |-> at] \in RuleEvents
      BY <1>2 DEF RuleEvents
    <2>2. \A type \in {"FIRED", "BLOCKED"} : Records(r, type) \in Seq(RuleEvents)
      BY <1>2, <2>1, AppendFacts DEF Records
    <2>3. status \in {"none", "refused"} => ~CoolsDown(log, at)
      BY DEF Status
    <2>4. CASE status = "none"
      <3>1. LogOK(Append(log, [type |-> "FIRED", at |-> at]), Append(cmds, at), at)
        BY <1>2, <2>3, <2>4, LogGrows
      <3>2. log2 = Append(log, [type |-> "FIRED", at |-> at]) /\ cmds2 = Append(cmds, at)
        BY <2>4 DEF Records
      <3> HIDE DEF Times, status
      <3>3. Append(cmds, at) \in Seq(Times)
        BY <1>2, AppendFacts
      <3>4. QED
        BY <2>2, <2>4, <3>1, <3>2, <3>3 DEF Records
    <2>5. CASE status = "refused"
      <3>1. LogOK(Append(log, [type |-> "BLOCKED", at |-> at]), cmds, at)
        BY <1>2, <2>3, <2>5, LogGrows
      <3>2. log2 = Append(log, [type |-> "BLOCKED", at |-> at]) /\ cmds2 = cmds
        BY <2>5 DEF Records
      <3>3. QED
        BY <1>2, <2>2, <3>1, <3>2 DEF Records
    <2>6. CASE status \notin {"none", "refused"}
      BY <1>2, <2>6
    <2>7. QED
      BY <2>4, <2>5, <2>6
  <1> HIDE DEF log2, cmds2, Times
  <1>6. /\ sweep'.at = at /\ sweep'.at \in Times
        /\ sweep'.todo = sweep.todo \ {r}
        /\ sweep'.events = [sweep.events EXCEPT ![r] = log2]
        /\ sweep'.automated = [sweep.automated EXCEPT ![r] = cmds2]
    BY <1>1, <1>4
  <1>7. sweep'.events \in EventsOfRules /\ sweep'.automated \in CommandsOfRules
    BY <1>1, <1>5, <1>6 DEF EventsOfRules, CommandsOfRules, Times
  <1>8. sweep' \in [at : Times, todo : SUBSET AutoRules, events : EventsOfRules,
                    automated : CommandsOfRules]
    BY <1>1, <1>4, <1>6, <1>7
  <1>9. ASSUME NEW q \in AutoRules
        PROVE  LogOK(sweep'.events[q], sweep'.automated[q], at)
    <2>1. CASE q = r
      <3>1. sweep'.events[q] = log2 /\ sweep'.automated[q] = cmds2
        BY <1>1, <1>6, <2>1 DEF EventsOfRules, CommandsOfRules
      <3>2. QED
        BY <1>5, <3>1
    <2>2. CASE q # r
      <3>1. sweep'.events[q] = sweep.events[q] /\ sweep'.automated[q] = sweep.automated[q]
        BY <1>1, <1>6, <2>2 DEF EventsOfRules, CommandsOfRules
      <3>2. QED
        BY <1>1, <3>1
    <2>3. QED
      BY <2>1, <2>2
  <1>10. QED
    BY <1>6, <1>8, <1>9 DEF Times

LEMMA AutoStep == AutoInv /\ [AutoNext]_autoVars => AutoInv'
  <1> SUFFICES ASSUME AutoInv, [AutoNext]_autoVars PROVE AutoInv'
    OBVIOUS
  <1> DEFINE SweepOK(s) == s # NoSweep =>
                 /\ s \in [at : 0..MaxTime, todo : SUBSET AutoRules, events : EventsOfRules,
                           automated : CommandsOfRules]
                 /\ \A r \in AutoRules : LogOK(s.events[r], s.automated[r], s.at)
  <1>1. /\ time \in 0..MaxTime /\ events \in EventsOfRules /\ automated \in CommandsOfRules
        /\ \A r \in AutoRules : LogOK(events[r], automated[r], time)
        /\ SweepOK(sweep) /\ (sweep # NoSweep => sweep.at <= time)
    BY DEF AutoInv, AutoTypeOK
  <1>2. SUFFICES /\ time' \in 0..MaxTime /\ events' \in EventsOfRules
                 /\ automated' \in CommandsOfRules
                 /\ \A r \in AutoRules : LogOK(events'[r], automated'[r], time')
                 /\ SweepOK(sweep') /\ (sweep' # NoSweep => sweep'.at <= time')
    BY DEF AutoInv, AutoTypeOK
  <1>3. \A r \in AutoRules : events[r] \in Seq(RuleEvents)
    BY <1>1 DEF EventsOfRules
  <1>4. CASE Tick
    <2>1. time' \in 0..MaxTime /\ time <= time' /\ time' = time + 1
      BY <1>1, <1>4, AutomationAssumption DEF Tick
    <2>2. events' = events /\ automated' = automated /\ sweep' = sweep
      BY <1>4 DEF Tick
    <2>3. \A r \in AutoRules : LogOK(events[r], automated[r], time')
      BY <1>1, <1>3, <2>1, LogKeeps
    <2>4. sweep # NoSweep => sweep.at <= time'
      <3>1. sweep # NoSweep => sweep.at \in 0..MaxTime
        BY <1>1
      <3>2. QED
        BY <1>1, <2>1, <3>1, AutomationAssumption
    <2> HIDE DEF SweepOK
    <2>5. QED
      BY <1>1, <2>1, <2>2, <2>3, <2>4
  <1>5. CASE sweep_once
    <2>1. /\ sweep' = [at |-> time, todo |-> AutoRules, events |-> events,
                       automated |-> automated]
          /\ time' = time /\ events' = events /\ automated' = automated
      BY <1>5 DEF sweep_once
    <2>2. /\ sweep'.at = time /\ sweep'.events = events /\ sweep'.automated = automated
      BY <2>1
    <2>3. time <= time
      BY <1>1, AutomationAssumption
    <2>4. SweepOK(sweep')
      BY <1>1, <2>1
    <2> HIDE DEF SweepOK
    <2>5. QED
      BY <1>1, <2>1, <2>2, <2>3, <2>4
  <1>6. CASE SweepDone
    <2>1. /\ sweep # NoSweep /\ events' = sweep.events /\ automated' = sweep.automated
          /\ sweep' = NoSweep /\ time' = time
      BY <1>6 DEF SweepDone
    <2>2. /\ sweep.events \in EventsOfRules /\ sweep.automated \in CommandsOfRules
          /\ sweep.at \in 0..MaxTime
      BY <1>1, <2>1
    <2>3. ASSUME NEW r \in AutoRules PROVE LogOK(sweep.events[r], sweep.automated[r], time)
      <3>1. LogOK(sweep.events[r], sweep.automated[r], sweep.at)
        BY <1>1, <2>1
      <3>2. sweep.events[r] \in Seq(RuleEvents)
        BY <2>2 DEF EventsOfRules
      <3> HIDE DEF SweepOK
      <3>3. QED
        BY <1>1, <2>1, <2>2, <3>1, <3>2, LogKeeps
    <2>4. QED
      BY <1>1, <2>1, <2>2, <2>3
  <1>7. CASE SweepRolledBack
    BY <1>1, <1>7 DEF SweepRolledBack
  <1>8. ASSUME NEW r \in AutoRules, Evaluate(r)
        PROVE  /\ time' = time /\ events' = events /\ automated' = automated
               /\ SweepOK(sweep') /\ (sweep' # NoSweep => sweep'.at <= time)
    <2>1. /\ time' = time /\ events' = events /\ automated' = automated
          /\ sweep # NoSweep
      BY <1>8 DEF Evaluate
    <2>2. /\ sweep' \in [at : 0..MaxTime, todo : SUBSET AutoRules, events : EventsOfRules,
                        automated : CommandsOfRules]
         /\ sweep'.at = sweep.at
         /\ \A q \in AutoRules : LogOK(sweep'.events[q], sweep'.automated[q], sweep.at)
      BY <1>8, EvaluateKeeps
    <2>3. QED
      BY <1>1, <2>1, <2>2
  <1>9. CASE UNCHANGED autoVars
    BY <1>1, <1>9 DEF autoVars
  <1>10. QED
    BY <1>1, <1>4, <1>5, <1>6, <1>7, <1>8, <1>9 DEF AutoNext

LEMMA AutoInvariant == AutoSpec => []AutoInv
  BY AutoInitInv, AutoStep, PTL DEF AutoSpec

(* The journals of the rules, those a sweep keeps included, hold events of *)
(* their rule at instants of the clock, and no sweep is ahead of it.       *)
THEOREM AutoTypeCorrect == AutoSpec => []AutoTypeOK
  <1>1. AutoInv => AutoTypeOK
    BY DEF AutoInv
  <1>2. QED
    BY <1>1, AutoInvariant, PTL

(* Two commands of a rule are at least Interval apart, whatever the number *)
(* of events between them that push the firing out of what the brake reads *)
(* (automation_rules.py, _last_fired_at).                                  *)
THEOREM FiredApartHolds == AutoSpec => []FiredApart
  <1>1. AutoInv => FiredApart
    <2> SUFFICES ASSUME AutoInv, NEW r \in AutoRules
                 PROVE  /\ \A i, j \in 1..Len(automated[r]) :
                              i < j => automated[r][j] - automated[r][i] >= Interval
                        /\ FiringsOf(events[r]) = ToSet(automated[r])
      BY DEF FiredApart
    <2>1. automated[r] \in Seq(0..MaxTime)
      BY DEF AutoInv, AutoTypeOK, CommandsOfRules
    <2>2. DOMAIN automated[r] = 1..Len(automated[r])
      BY <2>1, LenProperties
    <2>3. QED
      BY <2>2 DEF AutoInv, LogOK
  <1>2. QED
    BY <1>1, AutoInvariant, PTL

-----------------------------------------------------------------------------
(* The findings of one key and their work orders.                          *)
(*                                                                         *)
(* What the transactions have read may be stale when they write, so the    *)
(* invariant says nothing of it but its shape: it is the index and the     *)
(* guard of the finding, on the rows as they are, that keep them one.      *)

PersonLook(x) ==
    /\ x.s \in Signals /\ Exists(x.s)
    /\ \/ x.op \in {"acknowledge", "normal", "confirm"}
       \/ x.op = "handle" /\ x.value \in Handlings
       \/ x.op = "order" /\ x.s[1] = "finding" /\ x.s[2] \in Numbers

OneOpen == \A m, n \in Numbers : Open(m) /\ Open(n) => m = n
OneOrder == \A n \in Numbers : \A a, b \in orders[n] : a = b

SuperInv ==
    /\ SuperTypeOK
    /\ DOMAIN looked = Watchers \cup Operators
    /\ \A o \in Operators : looked[o] # NoLook => PersonLook(looked[o])
    /\ OneOpen
    /\ OneOrder

(* A change of axis that the vocabulary of the field allows, on a row that *)
(* exists.                                                                 *)
ChangeAllowed(c) ==
    /\ c[1] \in Signals /\ Exists(c[1])
    /\ \/ c[2] = "condition_state" /\ c[3] \in {"active", "cleared"}
       \/ c[2] = "ack_state" /\ c[3] \in {"unacknowledged", "acknowledged"}
       \/ c[2] = "handling_status" /\ c[3] \in Handlings
       \/ c[2] = "certainty" /\ c[3] \in {"detected", "confirmed"}

LEMMA RowIsPresent == Rows \cap {Absent} = {} /\ Raised \in Rows
  <1>1. \A r \in Rows : r.condition_state # "absent"
    BY DEF Rows
  <1>2. Absent.condition_state = "absent"
    BY DEF Absent, Fields
  <1>3. Raised \in Rows
    BY DEF Raised, Rows
  <1>4. QED
    BY <1>1, <1>2, <1>3

(* set_axis keeps what is there, and touches the handling of the rows it   *)
(* is asked to handle only.                                                *)
LEMMA SetAxisKeeps ==
  ASSUME NEW changes, axes \in [Signals -> Rows \cup {Absent}], \A c \in changes : ChangeAllowed(c),
         set_axis(changes)
  PROVE  /\ axes' \in [Signals -> Rows \cup {Absent}]
         /\ \A s \in Signals : axes'[s] = Absent <=> axes[s] = Absent
         /\ \A s \in Signals :
               (\A c \in changes : c[1] = s => c[2] # "handling_status") =>
                  axes'[s]["handling_status"] = axes[s]["handling_status"]
  <1> DEFINE Now(s, f) == IF \E c \in changes : c[1] = s /\ c[2] = f
                          THEN (CHOOSE c \in changes : c[1] = s /\ c[2] = f)[3]
                          ELSE axes[s][f]
  <1>1. axes' = [s \in Signals |-> [f \in Fields |-> Now(s, f)]]
    BY DEF set_axis
  <1>2. ASSUME NEW s \in Signals, NEW f \in Fields
        PROVE  \/ Now(s, f) = axes[s][f] /\ ~\E c \in changes : c[1] = s /\ c[2] = f
               \/ \E c \in changes : c[1] = s /\ c[2] = f /\ Now(s, f) = c[3]
    OBVIOUS
  <1> HIDE DEF Now
  <1>3. ASSUME NEW s \in Signals
        PROVE  /\ axes'[s] \in Rows \cup {Absent}
               /\ axes'[s] = Absent <=> axes[s] = Absent
    <2>1. axes'[s] = [f \in Fields |-> Now(s, f)]
      BY <1>1
    <2>2. CASE axes[s] = Absent
      <3>1. \A c \in changes : c[1] # s
        BY <2>2 DEF ChangeAllowed, Exists
      <3>2. \A f \in Fields : Now(s, f) = axes[s][f]
        BY <1>2, <3>1
      <3>3. \A f \in Fields : Now(s, f) = "absent"
        BY <2>2, <3>2 DEF Absent
      <3>4. QED
        BY <2>1, <2>2, <3>3 DEF Absent
    <2>3. CASE axes[s] # Absent
      <3>1. axes[s] \in Rows
        BY <2>3
      <3>2. /\ axes[s]["condition_state"] \in {"active", "cleared"}
            /\ axes[s]["ack_state"] \in {"unacknowledged", "acknowledged"}
            /\ axes[s]["handling_status"] \in Handlings \cup {"open"}
            /\ axes[s]["certainty"] \in {"detected", "confirmed"}
        BY <3>1 DEF Rows
      <3>3. Now(s, "condition_state") \in {"active", "cleared"}
        BY <1>2, <3>2 DEF ChangeAllowed, Fields
      <3>4. Now(s, "ack_state") \in {"unacknowledged", "acknowledged"}
        BY <1>2, <3>2 DEF ChangeAllowed, Fields
      <3>5. Now(s, "handling_status") \in Handlings \cup {"open"}
        BY <1>2, <3>2 DEF ChangeAllowed, Fields
      <3>6. Now(s, "certainty") \in {"detected", "confirmed"}
        BY <1>2, <3>2 DEF ChangeAllowed, Fields
      <3>7. axes'[s] \in Rows
        BY <2>1, <3>3, <3>4, <3>5, <3>6 DEF Rows, Fields
      <3>8. QED
        BY <2>3, <3>7, RowIsPresent
    <2>4. QED
      BY <2>2, <2>3
  <1>4. ASSUME NEW s \in Signals, \A c \in changes : c[1] = s => c[2] # "handling_status"
        PROVE  axes'[s]["handling_status"] = axes[s]["handling_status"]
    <2>1. "handling_status" \in Fields
      BY DEF Fields
    <2>2. axes'[s]["handling_status"] = Now(s, "handling_status")
      BY <1>1, <2>1
    <2>3. QED
      BY <1>2, <1>4, <2>1, <2>2
  <1>5. axes' \in [Signals -> Rows \cup {Absent}]
    BY <1>1, <1>3
  <1>6. QED
    BY <1>3, <1>4, <1>5

LEMMA SuperInitInv == SuperInit => SuperInv
  <1> SUFFICES ASSUME SuperInit PROVE SuperInv
    OBVIOUS
  <1>1. \A s \in Signals : axes[s] = Absent
    BY DEF SuperInit
  <1>2. \A n \in Numbers : <<"finding", n>> \in Signals /\ <<"alarm", n>> \in Signals
    BY DEF Signals
  <1>3. \A n \in Numbers : ~Open(n)
    BY <1>1, <1>2 DEF Open, Absent, Fields, HANDLING_OPEN
  <1>4. SuperTypeOK
    BY <1>1, <1>2, SuperAssumption DEF SuperInit, SuperTypeOK, Exists
  <1>5. QED
    BY <1>3, <1>4 DEF SuperInit, SuperInv, OneOpen, OneOrder

(* To read, as to fail, changes no row.                                    *)
LEMMA FindingRowsStay ==
  ASSUME SuperInv, UNCHANGED <<key, axes, orders, event>>, looks' \in 0..MaxLooks,
         DOMAIN looked' = DOMAIN looked,
         \A o \in Operators : \/ looked'[o] \in {looked[o], NoLook}
                              \/ PersonLook(looked'[o])
  PROVE  SuperInv'
  <1>1. SuperTypeOK' /\ OneOpen' /\ OneOrder'
    BY DEF SuperInv, SuperTypeOK, OneOpen, OneOrder, Open, Exists
  <1>2. ASSUME NEW o \in Operators, looked'[o] # NoLook
        PROVE  PersonLook(looked[o])'
    <2>1. PersonLook(looked'[o])
      BY <1>2 DEF SuperInv
    <2>2. QED
      BY <2>1 DEF PersonLook, Exists
  <1>3. QED
    BY <1>1, <1>2 DEF SuperInv

LEMMA LookKeeps ==
  ASSUME SuperInv, NEW p, NEW what, p \in Operators => PersonLook(what), Look(p, what)
  PROVE  SuperInv'
  <1>1. /\ looked' = [looked EXCEPT ![p] = what] /\ looks' = looks + 1 /\ looks < MaxLooks
        /\ UNCHANGED <<key, axes, orders, event>>
    BY DEF Look
  <1>2. looks' \in 0..MaxLooks
    BY <1>1, SuperAssumption DEF SuperInv, SuperTypeOK
  <1>3. DOMAIN looked' = DOMAIN looked /\ DOMAIN looked = Watchers \cup Operators
    BY <1>1 DEF SuperInv
  <1>4. \A o \in Operators : looked'[o] = IF o = p THEN what ELSE looked[o]
    BY <1>1, <1>3
  <1>5. \A o \in Operators : \/ looked'[o] \in {looked[o], NoLook}
                            \/ PersonLook(looked'[o])
    BY <1>4
  <1>6. QED
    BY <1>1, <1>2, <1>3, <1>5, FindingRowsStay

LEMMA FailKeeps ==
  ASSUME SuperInv, NEW p, Fail(p)
  PROVE  SuperInv'
  <1>1. /\ looked' = [looked EXCEPT ![p] = NoLook]
        /\ UNCHANGED <<key, axes, orders, event, looks>>
    BY DEF Fail
  <1>2. looks' \in 0..MaxLooks
    BY <1>1 DEF SuperInv, SuperTypeOK
  <1>3. DOMAIN looked' = DOMAIN looked /\ DOMAIN looked = Watchers \cup Operators
    BY <1>1 DEF SuperInv
  <1>4. \A o \in Operators : looked'[o] \in {looked[o], NoLook}
    BY <1>1, <1>3
  <1>5. QED
    BY <1>1, <1>2, <1>3, <1>4, FindingRowsStay

(* What a transaction that commits must leave: rows of the vocabulary,     *)
(* none that disappears, one finding open and one order of each.           *)
LEMMA DoneKeeps ==
  ASSUME SuperInv, NEW p, Done(p),
         axes' \in [Signals -> Rows \cup {Absent}],
         \A s \in Signals : Exists(s) => Exists(s)',
         \A n \in Numbers : Exists(<<"alarm", n>>)' <=> key = "rule" /\ Exists(<<"finding", n>>)',
         orders' \in [Numbers -> SUBSET (Operators \cup {"system"})],
         event' \in {"none", "WENT_OFFLINE", "CAME_ONLINE"},
         OneOpen', OneOrder'
  PROVE  SuperInv'
  <1>1. /\ looked' = [looked EXCEPT ![p] = NoLook] /\ key' = key /\ looks' = looks
    BY DEF Done
  <1>2. DOMAIN looked' = DOMAIN looked /\ DOMAIN looked = Watchers \cup Operators
    BY <1>1 DEF SuperInv
  <1>3. ASSUME NEW o \in Operators, looked'[o] # NoLook
        PROVE  PersonLook(looked[o])'
    <2>1. looked'[o] = looked[o] /\ PersonLook(looked[o])
      BY <1>1, <1>2, <1>3 DEF SuperInv
    <2> DEFINE look == looked[o]
    <2>2. look.s \in Signals /\ Exists(look.s)'
      BY <2>1 DEF PersonLook
    <2>3. QED
      BY <2>1, <2>2 DEF PersonLook, Exists
  <1>4. SuperTypeOK'
    BY <1>1 DEF SuperInv, SuperTypeOK
  <1>5. QED
    BY <1>2, <1>3, <1>4 DEF SuperInv

LEMMA SignalFacts ==
  /\ \A n \in Numbers : <<"finding", n>> \in Signals /\ <<"alarm", n>> \in Signals
  /\ <<"alarm", 0>> \in Signals
  /\ \A m, n : <<"finding", m>> = <<"finding", n>> => m = n
  /\ \A m, n : <<"finding", m>> # <<"alarm", n>>
  /\ \A m, n : <<"alarm", m>> = <<"alarm", n>> => m = n
  /\ 0 \notin Numbers
  BY SuperAssumption DEF Signals, Numbers

(* The changes of a signal's condition, acknowledgement or certainty leave *)
(* the findings that are open as they are.                                 *)
LEMMA OpenStays ==
  ASSUME SuperInv, NEW p, Done(p), NEW changes, \A c \in changes : ChangeAllowed(c), set_axis(changes),
         \A c \in changes, n \in Numbers :
            c[2] = "handling_status" /\ c[1] = <<"finding", n>> /\ c[3] \in HANDLING_OPEN
               => uq_findings_one_open(n),
         \A c, d \in changes : c[2] = "handling_status" /\ d[2] = "handling_status" => c = d,
         orders' = orders, event' \in {"none", "WENT_OFFLINE", "CAME_ONLINE"}
  PROVE  SuperInv'
  <1>1. /\ axes' \in [Signals -> Rows \cup {Absent}]
        /\ \A s \in Signals : axes'[s] = Absent <=> axes[s] = Absent
        /\ \A s \in Signals :
               (\A c \in changes : c[1] = s => c[2] # "handling_status") =>
                  axes'[s]["handling_status"] = axes[s]["handling_status"]
    BY SetAxisKeeps DEF SuperInv, SuperTypeOK
  <1>2. \A s \in Signals : Exists(s)' <=> Exists(s)
    BY <1>1 DEF Exists
  <1>3. \A n \in Numbers : Exists(<<"alarm", n>>)' <=> key = "rule" /\ Exists(<<"finding", n>>)'
    BY <1>2, SignalFacts DEF SuperInv, SuperTypeOK
  <1>4. ASSUME NEW n \in Numbers, Open(n)'
        PROVE  Open(n) \/ \E c \in changes : /\ c[2] = "handling_status"
                                            /\ c[1] = <<"finding", n>>
                                            /\ c[3] \in HANDLING_OPEN
    <2> DEFINE s == <<"finding", n>>
    <2>1. s \in Signals
      BY SignalFacts
    <2> HIDE DEF s
    <2>2. axes'[s]["handling_status"] \in HANDLING_OPEN
      BY <1>4 DEF Open, s
    <2>3. CASE \A c \in changes : c[1] = s => c[2] # "handling_status"
      BY <1>1, <2>1, <2>2, <2>3 DEF Open, s
    <2>4. CASE \E c \in changes : c[1] = s /\ c[2] = "handling_status"
      <3>1. PICK c \in changes : c[1] = s /\ c[2] = "handling_status"
        BY <2>4
      <3>2. \A d \in changes : d[1] = s /\ d[2] = "handling_status" => d = c
        BY <3>1
      <3>3. (CHOOSE d \in changes : d[1] = s /\ d[2] = "handling_status") = c
        BY <3>1, <3>2
      <3>4. axes'[s]["handling_status"] = c[3]
        BY <2>1, <3>1, <3>3 DEF set_axis, Fields
      <3>5. QED
        BY <2>2, <3>1, <3>4 DEF s
    <2>5. QED
      BY <2>3, <2>4
  <1>5. OneOpen'
    <2> SUFFICES ASSUME NEW m \in Numbers, NEW n \in Numbers, Open(m)', Open(n)', m # n
                 PROVE  FALSE
      BY DEF OneOpen
    <2>1. ~(Open(m) /\ Open(n))
      BY DEF SuperInv, OneOpen
    <2>2. CASE ~Open(m)
      <3>1. PICK c \in changes : /\ c[2] = "handling_status" /\ c[1] = <<"finding", m>>
                                /\ c[3] \in HANDLING_OPEN
        BY <1>4, <2>2
      <3>2. ~Open(n)
        BY <3>1 DEF uq_findings_one_open
      <3>3. PICK d \in changes : d[2] = "handling_status" /\ d[1] = <<"finding", n>>
        BY <1>4, <3>2
      <3>4. QED
        BY <3>1, <3>3, SignalFacts
    <2>3. CASE ~Open(n)
      <3>1. PICK c \in changes : /\ c[2] = "handling_status" /\ c[1] = <<"finding", n>>
                                /\ c[3] \in HANDLING_OPEN
        BY <1>4, <2>3
      <3>2. ~Open(m)
        BY <3>1 DEF uq_findings_one_open
      <3>3. PICK d \in changes : d[2] = "handling_status" /\ d[1] = <<"finding", m>>
        BY <1>4, <3>2
      <3>4. QED
        BY <3>1, <3>3, SignalFacts
    <2>4. QED
      BY <2>1, <2>2, <2>3
  <1>6. OneOrder' /\ orders' \in [Numbers -> SUBSET (Operators \cup {"system"})]
    BY DEF SuperInv, SuperTypeOK, OneOrder
  <1>7. QED
    BY <1>1, <1>2, <1>3, <1>5, <1>6, DoneKeeps

LEMMA RaiseKeeps ==
  ASSUME SuperInv, NEW w \in Watchers, raise_finding(w)
  PROVE  SuperInv'
  <1>1. PICK n \in Numbers :
          /\ ~Exists(<<"finding", n>>)
          /\ IF uq_findings_one_open(n)
             THEN /\ Done(w)
                  /\ axes' = [s \in Signals |-> IF s \in Escalated(n) THEN Raised ELSE axes[s]]
                  /\ \E order \in OrderedWith(n) : orders' = [orders EXCEPT ![n] = order]
                  /\ event' = IF key = "status" THEN "WENT_OFFLINE" ELSE event
             ELSE Fail(w)
    BY DEF raise_finding
  <1>2. CASE ~uq_findings_one_open(n)
    BY <1>1, <1>2, FailKeeps
  <1>3. CASE uq_findings_one_open(n)
    <2>1. /\ Done(w)
          /\ axes' = [s \in Signals |-> IF s \in Escalated(n) THEN Raised ELSE axes[s]]
          /\ event' = IF key = "status" THEN "WENT_OFFLINE" ELSE event
      BY <1>1, <1>3
    <2>2. PICK order \in OrderedWith(n) : orders' = [orders EXCEPT ![n] = order]
      BY <1>1, <1>3
    <2>3. axes \in [Signals -> Rows \cup {Absent}]
      BY DEF SuperInv, SuperTypeOK
    <2>4. axes' \in [Signals -> Rows \cup {Absent}]
      BY <2>1, <2>3, RowIsPresent
    <2>5. \A s \in Signals : Exists(s)' <=> s \in Escalated(n) \/ Exists(s)
      BY <2>1, RowIsPresent DEF Exists
    <2>6. ASSUME NEW k \in Numbers
          PROVE  Exists(<<"alarm", k>>)' <=> key = "rule" /\ Exists(<<"finding", k>>)'
      <3>1. <<"finding", k>> \in Escalated(n) <=> k = n
        BY SignalFacts DEF Escalated
      <3>2. <<"alarm", k>> \in Escalated(n) <=> k = n /\ key = "rule"
        BY SignalFacts DEF Escalated
      <3>3. Exists(<<"alarm", k>>) <=> key = "rule" /\ Exists(<<"finding", k>>)
        BY DEF SuperInv, SuperTypeOK
      <3>4. QED
        BY <1>1, <2>5, <3>1, <3>2, <3>3, SignalFacts
    <2>7. \A k \in Numbers \ {n} : Open(k)' <=> Open(k)
      BY <2>1, SignalFacts DEF Open, Escalated
    <2>8. OneOpen'
      BY <1>3, <2>7 DEF OneOpen, uq_findings_one_open
    <2>9. order \in SUBSET {"system"}
      BY DEF OrderedWith
    <2>10. orders' \in [Numbers -> SUBSET (Operators \cup {"system"})] /\ OneOrder'
      BY <2>2, <2>9 DEF SuperInv, SuperTypeOK, OneOrder
    <2>11. event' \in {"none", "WENT_OFFLINE", "CAME_ONLINE"}
      BY <2>1 DEF SuperInv, SuperTypeOK
    <2>12. QED
      BY <2>1, <2>4, <2>5, <2>6, <2>8, <2>10, <2>11, DoneKeeps
  <1>4. QED
    BY <1>2, <1>3

LEMMA RepeatKeeps ==
  ASSUME SuperInv, NEW w \in Watchers, repeat_finding(w)
  PROVE  SuperInv'
  <1> DEFINE changes == IF looked[w].cleared
                        THEN UNION {reactivate(s) : s \in Both(looked[w].n)} ELSE {}
  <1>1. Done(w) /\ set_axis(changes) /\ orders' = orders /\ event' = event
    BY DEF repeat_finding
  <1>2. ASSUME NEW c \in changes
        PROVE  ChangeAllowed(c) /\ c[2] # "handling_status"
    <2>1. PICK s \in Both(looked[w].n) : c \in reactivate(s)
      BY <1>2
    <2>2. s \in Signals /\ Exists(s)
      BY <2>1 DEF Both
    <2>3. QED
      BY <2>1, <2>2 DEF reactivate, ChangeAllowed
  <1>3. event' \in {"none", "WENT_OFFLINE", "CAME_ONLINE"}
    BY <1>1 DEF SuperInv, SuperTypeOK
  <1> HIDE DEF changes
  <1>4. QED
    BY <1>1, <1>2, <1>3, OpenStays

LEMMA ClearKeeps ==
  ASSUME SuperInv, NEW w \in Watchers, clear_finding_by_key(w)
  PROVE  SuperInv'
  <1> DEFINE changes == {<<s, "condition_state", "cleared">> : s \in Both(looked[w].n)}
  <1>1. /\ Done(w) /\ set_axis(changes) /\ orders' = orders
        /\ event' = IF key = "status" THEN "CAME_ONLINE" ELSE event
    BY DEF clear_finding_by_key
  <1>2. \A c \in changes : ChangeAllowed(c) /\ c[2] # "handling_status"
    BY DEF Both, ChangeAllowed
  <1>3. event' \in {"none", "WENT_OFFLINE", "CAME_ONLINE"}
    BY <1>1 DEF SuperInv, SuperTypeOK
  <1> HIDE DEF changes
  <1>4. QED
    BY <1>1, <1>2, <1>3, OpenStays

LEMMA RaiseAlarmKeeps ==
  ASSUME SuperInv, raise_alarm
  PROVE  SuperInv'
  <1>1. /\ axes' = [axes EXCEPT ![<<"alarm", 0>>] = Raised]
        /\ looks < MaxLooks /\ looks' = looks + 1
        /\ UNCHANGED <<key, orders, looked, event>>
    BY DEF raise_alarm
  <1>2. axes \in [Signals -> Rows \cup {Absent}]
    BY DEF SuperInv, SuperTypeOK
  <1>3. axes' \in [Signals -> Rows \cup {Absent}]
    BY <1>1, <1>2, RowIsPresent
  <1>4. \A s \in Signals : s # <<"alarm", 0>> => axes'[s] = axes[s]
    BY <1>1, <1>2
  <1>5. \A n \in Numbers : /\ axes'[<<"finding", n>>] = axes[<<"finding", n>>]
                          /\ axes'[<<"alarm", n>>] = axes[<<"alarm", n>>]
    BY <1>4, SignalFacts
  <1>6. OneOpen' /\ OneOrder'
    BY <1>1, <1>5 DEF SuperInv, OneOpen, OneOrder, Open
  <1>7. looks' \in 0..MaxLooks
    BY <1>1, SuperAssumption DEF SuperInv, SuperTypeOK
  <1>8. SuperTypeOK'
    BY <1>1, <1>3, <1>5, <1>7 DEF SuperInv, SuperTypeOK, Exists
  <1>9. \A s \in Signals : Exists(s) => Exists(s)'
    BY <1>1, <1>2, <1>4, RowIsPresent DEF Exists
  <1>10. ASSUME NEW o \in Operators, looked[o] # NoLook
         PROVE  PersonLook(looked[o])'
    BY <1>1, <1>9, <1>10 DEF SuperInv, PersonLook
  <1>11. QED
    BY <1>1, <1>6, <1>8, <1>10 DEF SuperInv

LEMMA PersonWritesKeeps ==
  ASSUME SuperInv, NEW o \in Operators, PersonWrites(o)
  PROVE  SuperInv'
  <1> DEFINE look == looked[o]
  <1>1. look # NoLook /\ PersonLook(look)
    BY DEF PersonWrites, SuperInv
  <1>2. CASE ~protect_finding(look)
    BY <1>2, FailKeeps DEF PersonWrites
  <1>3. CASE protect_finding(look) /\ look.op = "order"
    <2>1. /\ Done(o) /\ event' = event /\ axes' = axes
          /\ orders' = [orders EXCEPT ![look.s[2]] = @ \cup {o}]
      BY <1>3 DEF PersonWrites
    <2>2. look.s[2] \in Numbers /\ orders[look.s[2]] = {}
      BY <1>1, <1>3 DEF PersonLook, protect_finding
    <2> HIDE DEF look
    <2>3. orders' \in [Numbers -> SUBSET (Operators \cup {"system"})] /\ OneOrder'
      BY <2>1, <2>2 DEF SuperInv, SuperTypeOK, OneOrder
    <2>4. OneOpen' /\ event' \in {"none", "WENT_OFFLINE", "CAME_ONLINE"}
      BY <2>1 DEF SuperInv, SuperTypeOK, OneOpen, Open
    <2>5. \A s \in Signals : Exists(s)' <=> Exists(s)
      BY <2>1 DEF Exists
    <2>6. \A n \in Numbers : Exists(<<"alarm", n>>)' <=> key = "rule" /\ Exists(<<"finding", n>>)'
      BY <2>1 DEF SuperInv, SuperTypeOK, Exists
    <2>7. axes' \in [Signals -> Rows \cup {Absent}]
      BY <2>1 DEF SuperInv, SuperTypeOK
    <2>8. QED
      BY <2>1, <2>3, <2>4, <2>5, <2>6, <2>7, DoneKeeps
  <1>4. CASE protect_finding(look) /\ look.op # "order"
    <2>1. Done(o) /\ event' = event /\ orders' = orders /\ set_axis(Wanted(look))
      BY <1>4 DEF PersonWrites
    <2> DEFINE changes == Wanted(look)
    <2>2. look.s \in Signals /\ Exists(look.s)
      BY <1>1 DEF PersonLook
    <2>3. ASSUME NEW c \in changes
          PROVE  /\ ChangeAllowed(c)
                 /\ c[2] = "handling_status" =>
                      look.op = "handle" /\ c = <<look.s, "handling_status", look.value>>
      <3>1. CASE look.op = "acknowledge"
        BY <2>2, <3>1 DEF Wanted, ChangeAllowed
      <3>2. CASE look.op = "normal"
        BY <2>2, <3>2 DEF Wanted, ChangeAllowed
      <3>3. CASE look.op = "confirm"
        BY <2>2, <3>3 DEF Wanted, ChangeAllowed
      <3>4. CASE look.op = "handle"
        <4>1. look.value \in Handlings
          BY <1>1, <3>4 DEF PersonLook
        <4>2. changes = {<<look.s, "handling_status", look.value>>} \cup
                        IF look.value \in {"closed", "false_positive"}
                        THEN {<<look.s, "ack_state", "acknowledged">>} ELSE {}
          BY <3>4 DEF Wanted
        <4>3. QED
          BY <2>2, <3>4, <4>1, <4>2 DEF ChangeAllowed
      <3>5. QED
        BY <1>1, <1>4, <3>1, <3>2, <3>3, <3>4 DEF PersonLook
    <2>a. \A c \in changes : ChangeAllowed(c)
      BY <2>3
    <2>b. \A c \in changes : c[2] = "handling_status" =>
            look.op = "handle" /\ c = <<look.s, "handling_status", look.value>>
      BY <2>3
    <2>c. set_axis(changes)
      BY <2>1
    <2> HIDE DEF changes
    <2>4. \A c \in changes, n \in Numbers :
            c[2] = "handling_status" /\ c[1] = <<"finding", n>> /\ c[3] \in HANDLING_OPEN
               => uq_findings_one_open(n)
      <3> SUFFICES ASSUME NEW c \in changes, NEW n \in Numbers, c[2] = "handling_status",
                          c[1] = <<"finding", n>>, c[3] \in HANDLING_OPEN
                   PROVE  uq_findings_one_open(n)
        OBVIOUS
      <3>1. look.op = "handle" /\ c = <<look.s, "handling_status", look.value>>
        BY <2>b
      <3>2. look.s[1] = "finding" /\ look.s[2] = n /\ look.value \in HANDLING_OPEN
        BY <3>1
      <3>3. QED
        BY <1>4, <3>1, <3>2 DEF protect_finding
    <2>5. \A c, d \in changes : c[2] = "handling_status" /\ d[2] = "handling_status" => c = d
      BY <2>b
    <2>6. event' \in {"none", "WENT_OFFLINE", "CAME_ONLINE"}
      BY <2>1 DEF SuperInv, SuperTypeOK
    <2>7. QED
      BY <2>1, <2>a, <2>c, <2>4, <2>5, <2>6, OpenStays
  <1>5. QED
    BY <1>2, <1>3, <1>4

LEMMA WatchKeeps ==
  ASSUME SuperInv, NEW w \in Watchers, NEW breach, WatchLook(w, breach)
  PROVE  SuperInv'
  <1>1. \E what : Look(w, what)
    BY DEF WatchLook
  <1>2. w \notin Operators
    BY SuperAssumption
  <1>3. QED
    BY <1>1, <1>2, LookKeeps

LEMMA RoutesKeep ==
  ASSUME SuperInv, NEW o \in Operators,
         FindingRoutes(o) \/ AlarmRoutes(o)
            \/ \E n \in Numbers : create_work_order_from_finding(o, n)
  PROVE  SuperInv'
  <1>1. ASSUME NEW s \in Signals, acknowledge(o, s)
        PROVE  SuperInv'
    <2>1. PersonLook([op |-> "acknowledge", s |-> s])
      BY <1>1 DEF PersonLook, acknowledge
    <2>2. QED
      BY <1>1, <2>1, LookKeeps DEF acknowledge
  <1>2. ASSUME NEW s \in Signals, clear_condition(o, s)
        PROVE  SuperInv'
    <2>1. PersonLook([op |-> "normal", s |-> s])
      BY <1>2 DEF PersonLook, clear_condition
    <2>2. QED
      BY <1>2, <2>1, LookKeeps DEF clear_condition
  <1>3. ASSUME NEW s \in Signals, NEW h \in Handlings, set_handling(o, s, h)
        PROVE  SuperInv'
    <2>1. PersonLook([op |-> "handle", s |-> s, value |-> h])
      BY <1>3 DEF PersonLook, set_handling
    <2>2. QED
      BY <1>3, <2>1, LookKeeps DEF set_handling
  <1>4. ASSUME NEW n \in Numbers, confirm_finding(o, n)
        PROVE  SuperInv'
    <2>1. PersonLook([op |-> "confirm", s |-> <<"finding", n>>])
      BY <1>4, SignalFacts DEF PersonLook, confirm_finding
    <2>2. QED
      BY <1>4, <2>1, LookKeeps DEF confirm_finding
  <1>5. ASSUME NEW n \in Numbers, create_work_order_from_finding(o, n)
        PROVE  SuperInv'
    <2>1. PersonLook([op |-> "order", s |-> <<"finding", n>>])
      BY <1>5, SignalFacts DEF PersonLook, create_work_order_from_finding
    <2>2. QED
      BY <1>5, <2>1, LookKeeps DEF create_work_order_from_finding
  <1>6. ASSUME NEW kind, SignalRoutes(o, kind)
        PROVE  SuperInv'
    BY <1>1, <1>2, <1>3, <1>6 DEF SignalRoutes
  <1>7. QED
    BY <1>4, <1>5, <1>6 DEF FindingRoutes, AlarmRoutes

LEMMA SuperStep == SuperInv /\ [SuperNext]_superVars => SuperInv'
  <1> SUFFICES ASSUME SuperInv, [SuperNext]_superVars PROVE SuperInv'
    OBVIOUS
  <1>1. ASSUME NEW w \in Watchers,
               evaluate_after_measurement(w) \/ evaluate_communication_status(w)
        PROVE  SuperInv'
    BY <1>1, WatchKeeps DEF evaluate_after_measurement, evaluate_communication_status
  <1>2. ASSUME NEW w \in Watchers,
               raise_finding(w) \/ repeat_finding(w) \/ clear_finding_by_key(w)
        PROVE  SuperInv'
    BY <1>2, RaiseKeeps, RepeatKeeps, ClearKeeps
  <1>3. CASE raise_alarm
    BY <1>3, RaiseAlarmKeeps
  <1>4. ASSUME NEW o \in Operators,
               \/ FindingRoutes(o) \/ AlarmRoutes(o)
               \/ \E n \in Numbers : create_work_order_from_finding(o, n)
        PROVE  SuperInv'
    BY <1>4, RoutesKeep
  <1>5. ASSUME NEW o \in Operators, PersonWrites(o)
        PROVE  SuperInv'
    BY <1>5, PersonWritesKeeps
  <1>6. CASE UNCHANGED superVars
    BY <1>6 DEF superVars, SuperInv, SuperTypeOK, OneOpen, OneOrder, Open, Exists, PersonLook
  <1>7. QED
    BY <1>1, <1>2, <1>3, <1>4, <1>5, <1>6 DEF SuperNext

LEMMA SuperInvariant == SuperSpec => []SuperInv
  BY SuperInitInv, SuperStep, PTL DEF SuperSpec

(* Findings and alarms keep to the vocabulary of their axes, and a finding *)
(* has its alarm if its key is that of a rule, and only then.              *)
THEOREM SuperTypeCorrect == SuperSpec => []SuperTypeOK
  <1>1. SuperInv => SuperTypeOK
    BY DEF SuperInv
  <1>2. QED
    BY <1>1, SuperInvariant, PTL

LEMMA AtMostOne ==
  ASSUME NEW S, \A a, b \in S : a = b
  PROVE  Cardinality(S) <= 1
  <1>1. CASE S = {}
    BY <1>1, FS_EmptySet
  <1>2. CASE S # {}
    <2>1. PICK x \in S : TRUE
      BY <1>2
    <2>2. S = {x}
      BY <2>1
    <2>3. Cardinality({x}) = 1
      BY FS_Singleton, Zenon
    <2>4. QED
      BY <2>2, <2>3
  <1>3. QED
    BY <1>1, <1>2

(* One finding of a key is being handled, with one work order, whatever    *)
(* the stale reads of those who raise, repeat, clear and handle it         *)
(* (uq_findings_one_open, protect_finding).                                *)
THEOREM OneFindingOneOrderHolds == SuperSpec => []OneFindingOneOrder
  <1>1. SuperInv => OneFindingOneOrder
    <2> SUFFICES ASSUME SuperInv PROVE OneFindingOneOrder
      OBVIOUS
    <2> DEFINE unsettled == {n \in Numbers : Open(n)}
    <2>1. \A a, b \in unsettled : a = b
      BY DEF SuperInv, OneOpen
    <2> HIDE DEF unsettled
    <2>2. Cardinality(unsettled) <= 1
      BY <2>1, AtMostOne
    <2>3. ASSUME NEW n \in Numbers PROVE Cardinality(orders[n]) <= 1
      <3>1. \A a, b \in orders[n] : a = b
        BY DEF SuperInv, OneOrder
      <3>2. QED
        BY <3>1, AtMostOne
    <2>4. QED
      BY <2>2, <2>3 DEF OneFindingOneOrder, unsettled
  <1>2. QED
    BY <1>1, SuperInvariant, PTL

-----------------------------------------------------------------------------
(* The histories.                                                          *)
(*                                                                         *)
(* A page is made of the latest rows of each source, and the next one ends *)
(* just before its oldest row: what a walk never shows is what a page      *)
(* leaves out at the very instant it ends at, or rows written behind it.   *)

LEMMA Least ==
  ASSUME NEW S \in SUBSET Nat, S # {}
  PROVE  Min(S) \in S /\ \A x \in S : Min(S) <= x
  <1>1. PICK x \in S : \A y \in S : ~ (<<y, x>> \in OpToRel(<, Nat))
    BY NatLessThanWellFounded, WFMin
  <1>2. \A y \in S : x <= y
    <2> SUFFICES ASSUME NEW y \in S PROVE x <= y
      OBVIOUS
    <2>1. ~ (y < x)
      BY <1>1 DEF OpToRel
    <2> QED BY <2>1
  <1> QED BY <1>2 DEF Min

LEMMA Fewer ==
  ASSUME NEW n \in Nat, NEW k \in Nat
  PROVE  Min({n, k}) = IF n <= k THEN n ELSE k
  <1>1. {n, k} \in SUBSET Nat /\ {n, k} # {}
    OBVIOUS
  <1>2. PICK m : m = Min({n, k})
    OBVIOUS
  <1>3. m \in {n, k} /\ \A x \in {n, k} : m <= x
    BY <1>1, <1>2, Least
  <1> QED BY <1>2, <1>3

(* The latest of a finite set: all of it, or as many as were asked for.    *)
LEMMA LatestAre ==
  ASSUME NEW S, IsFiniteSet(S), NEW n \in Nat, NEW t \in Latest(S, n)
  PROVE  /\ t \subseteq S /\ IsFiniteSet(t) /\ Cardinality(t) <= n
         /\ \A a \in t, b \in S \ t : b.at <= a.at
         /\ S \ t # {} => Cardinality(t) = n
  <1>1. Cardinality(S) \in Nat
    BY FS_CardinalityType
  <1>2. t \subseteq S /\ Cardinality(t) = IF n <= Cardinality(S) THEN n ELSE Cardinality(S)
    BY <1>1, Fewer DEF Latest, kSubset
  <1>3. IsFiniteSet(t) /\ (Cardinality(S) = Cardinality(t) => S = t)
    BY <1>2, FS_Subset
  <1> QED BY <1>1, <1>2, <1>3 DEF Latest

LEMMA LatestIf ==
  ASSUME NEW S, IsFiniteSet(S), NEW n \in Nat, NEW t \in SUBSET S,
         Cardinality(t) <= n, S \ t # {} => Cardinality(t) = n,
         \A a \in t, b \in S \ t : b.at <= a.at
  PROVE  t \in Latest(S, n)
  <1>1. Cardinality(S) \in Nat /\ Cardinality(t) \in Nat /\ Cardinality(t) <= Cardinality(S)
    BY FS_CardinalityType, FS_Subset
  <1>2. Cardinality(t) = IF n <= Cardinality(S) THEN n ELSE Cardinality(S)
    <2>1. CASE S \ t = {}
      <3>1. t = S
        BY <2>1
      <3> QED BY <1>1, <3>1
    <2>2. CASE S \ t # {}
      BY <1>1, <2>2
    <2> QED BY <2>1, <2>2
  <1>3. Cardinality(t) = Min({n, Cardinality(S)})
    BY <1>1, <1>2, Fewer
  <1> QED BY <1>3 DEF Latest, kSubset

(* An event of the past that is no longer among those looked at.           *)
CutOff(r) ==
    /\ r.source = "event"
    /\ Cardinality({e \in From("event") : e.at >= r.at}) > EventsShown

(* What the walk has passed without showing it.                            *)
TimelineInv ==
    /\ TimelineTypeOK /\ IsFiniteSet(rows)
    /\ before = 0 => known = {}
    /\ \A r \in known \ seen : r.at < before \/ r.at \in ties \/ CutOff(r)

LEMMA TimelineInitInv == TimelineInit => TimelineInv
  BY FS_EmptySet, TimelineAssumption DEF TimelineInit, TimelineInv, TimelineTypeOK

(* An event that is cut off stays so: entries are only added.              *)
LEMMA CutOffStays ==
  ASSUME IsFiniteSet(rows'), rows \subseteq rows', TimelineTypeOK, NEW r \in rows, CutOff(r)
  PROVE  CutOff(r)'
  <1>1. PICK old : old = {e \in From("event") : e.at >= r.at}
    OBVIOUS
  <1>2. PICK new : new = {e \in From("event")' : e.at >= r.at}
    OBVIOUS
  <1>3. old \subseteq new /\ new \subseteq rows'
    BY <1>1, <1>2 DEF From
  <1>4. IsFiniteSet(new) /\ Cardinality(new) \in Nat /\ Cardinality(old) <= Cardinality(new)
        /\ Cardinality(old) \in Nat
    BY <1>3, FS_Subset, FS_CardinalityType
  <1> QED BY <1>1, <1>2, <1>4, TimelineAssumption DEF CutOff

(* What a page of the node leaves out is before its last entry, or tied    *)
(* with it, or among the events that are not looked at.                    *)
LEMMA PageLeavesOut ==
  ASSUME TimelineTypeOK, IsFiniteSet(rows), NEW p \in node_timeline(before),
         NEW r \in rows \ p, before = 0 \/ r.at < before
  PROVE  /\ CutOff(r) \/ (p # {} /\ \A a \in p : r.at <= a.at)
  <1>1. PICK s \in NodeEntries : p \in Latest({x \in s : before = 0 \/ x.at < before}, Page)
    BY DEF node_timeline
  <1>2. PICK e \in Latest(From("event"), EventsShown) : s = (rows \ From("event")) \cup e
    BY <1>1 DEF NodeEntries
  <1>3. From("event") \subseteq rows /\ IsFiniteSet(From("event"))
    BY FS_Subset DEF From
  <1>4. /\ e \subseteq From("event") /\ IsFiniteSet(e)
        /\ \A a \in e, b \in From("event") \ e : b.at <= a.at
        /\ From("event") \ e # {} => Cardinality(e) = EventsShown
    BY <1>3, LatestAre, TimelineAssumption
  <1>5. CASE r \in s
    <2>1. PICK left : left = {x \in s : before = 0 \/ x.at < before}
      OBVIOUS
    <2>2. left \subseteq rows /\ IsFiniteSet(left) /\ r \in left
      BY <1>2, <1>3, <1>4, <1>5, <2>1, FS_Subset
    <2>3. /\ \A a \in p, b \in left \ p : b.at <= a.at
          /\ left \ p # {} => Cardinality(p) = Page
      BY <1>1, <2>1, <2>2, LatestAre, TimelineAssumption
    <2>4. Cardinality({}) = 0
      BY FS_EmptySet
    <2> QED BY <2>2, <2>3, <2>4, TimelineAssumption
  <1>6. CASE r \notin s
    <2>1. r \in From("event") \ e /\ r.source = "event"
      BY <1>2, <1>6 DEF From
    <2>2. PICK later : later = {x \in From("event") : x.at >= r.at}
      OBVIOUS
    <2>3. e \cup {r} \subseteq later /\ later \subseteq rows
      BY <1>3, <1>4, <2>1, <2>2 DEF TimelineTypeOK, TimelineEntries
    <2>4. Cardinality(e \cup {r}) = EventsShown + 1
      BY <1>4, <2>1, FS_AddElement
    <2>5. Cardinality(later) \in Nat /\ Cardinality(e \cup {r}) <= Cardinality(later)
      BY <2>3, FS_Subset, FS_CardinalityType
    <2> QED BY <2>1, <2>2, <2>4, <2>5, TimelineAssumption DEF CutOff
  <1> QED BY <1>5, <1>6

LEMMA EntriesRecorded ==
  ASSUME TimelineInv, NEW sources \in SUBSET Sources, NEW at \in 1..now, RecordEntries(sources, at)
  PROVE  TimelineInv'
  <1>1. PICK n : n = Cardinality(rows) + 1
    OBVIOUS
  <1>2. PICK new : new = {[source |-> s, at |-> at, n |-> n] : s \in sources}
    OBVIOUS
  <1>3. rows' = rows \cup new
    BY <1>1, <1>2 DEF RecordEntries
  <1>4. IsFiniteSet(sources) /\ Cardinality(sources) \in Nat \ {0} /\ Cardinality(rows) \in Nat
    BY FS_Subset, FS_CardinalityType, FS_EmptySet, TimelineAssumption DEF RecordEntries, TimelineInv
  <1>5. n \in 1..MaxRows /\ at \in 1..MaxInstant
    BY <1>1, <1>4, TimelineAssumption DEF RecordEntries, TimelineInv, TimelineTypeOK
  <1>6. new \subseteq TimelineEntries
    BY <1>2, <1>5 DEF TimelineEntries
  <1>7. IsFiniteSet(new)
    <2>1. PICK f : f = [s \in sources |-> [source |-> s, at |-> at, n |-> n]]
      OBVIOUS
    <2>2. f \in Surjection(sources, new)
      BY <1>2, <2>1 DEF Surjection
    <2> QED BY <1>4, <2>2, FS_Surjection
  <1>8. IsFiniteSet(rows')
    BY <1>3, <1>7, FS_Union DEF TimelineInv
  <1>9. UNCHANGED <<now, before, known, seen, ties>> /\ rows \subseteq rows'
    BY <1>3 DEF RecordEntries
  <1>10. TimelineTypeOK'
    BY <1>3, <1>6, <1>9 DEF TimelineInv, TimelineTypeOK
  <1>11. \A r \in known \ seen : CutOff(r) => CutOff(r)'
    BY <1>8, <1>9, CutOffStays DEF TimelineInv, TimelineTypeOK
  <1> QED BY <1>8, <1>9, <1>10, <1>11 DEF TimelineInv

LEMMA PageRead ==
  ASSUME TimelineInv, ReadPage
  PROVE  TimelineInv'
  <1>1. PICK p \in node_timeline(before) :
           /\ p # {} /\ before' = Min({r.at : r \in p}) /\ ties' = ties \cup {before'}
           /\ known' = (IF before = 0 THEN rows ELSE known)
           /\ seen' = seen \cup p /\ UNCHANGED <<rows, now>>
    BY DEF ReadPage
  <1>2. p \subseteq rows
    <2>1. PICK s \in NodeEntries : p \in Latest({x \in s : before = 0 \/ x.at < before}, Page)
      BY DEF node_timeline
    <2>2. PICK e \in Latest(From("event"), EventsShown) : s = (rows \ From("event")) \cup e
      BY <2>1 DEF NodeEntries
    <2> QED BY <2>1, <2>2 DEF Latest, kSubset, From
  <1>3. PICK ats : ats = {r.at : r \in p}
    OBVIOUS
  <1>4. ats # {} /\ ats \subseteq 1..MaxInstant /\ ats \subseteq Nat
    BY <1>1, <1>2, <1>3 DEF TimelineInv, TimelineTypeOK, TimelineEntries
  <1>5. before' \in ats /\ \A x \in ats : before' <= x
    BY <1>1, <1>3, <1>4, Least
  <1>6. before' \in 1..MaxInstant
    BY <1>4, <1>5
  <1>7. TimelineTypeOK'
    <2>1. known' \subseteq rows /\ seen' \subseteq rows /\ ties' \subseteq 1..MaxInstant
      BY <1>1, <1>2, <1>6 DEF TimelineInv, TimelineTypeOK
    <2> QED BY <1>1, <1>6, <2>1 DEF TimelineInv, TimelineTypeOK
  <1>8. ASSUME NEW r \in known' \ seen'
        PROVE  r.at < before' \/ r.at \in ties' \/ CutOff(r)'
    <2>1. r \in rows \ p /\ r.at \in Nat /\ before \in Nat /\ (CutOff(r) <=> CutOff(r)')
      BY <1>1 DEF TimelineInv, TimelineTypeOK, TimelineEntries, CutOff, From
    <2>2. CASE before = 0 \/ r.at < before
      <3>1. CutOff(r) \/ \A a \in p : r.at <= a.at
        BY <2>1, <2>2, PageLeavesOut DEF TimelineInv
      <3>2. PICK a \in p : a.at = before'
        BY <1>3, <1>5
      <3> QED BY <1>1, <1>6, <2>1, <3>1, <3>2
    <2>3. CASE ~ (before = 0 \/ r.at < before)
      BY <1>1, <2>1, <2>3 DEF TimelineInv
    <2> QED BY <2>2, <2>3
  <1>9. before' # 0
    BY <1>6
  <1> QED BY <1>1, <1>7, <1>8, <1>9 DEF TimelineInv

LEMMA TimelineStep == TimelineInv /\ [TimelineNext]_timeVars => TimelineInv'
  <1> SUFFICES ASSUME TimelineInv, [TimelineNext]_timeVars PROVE TimelineInv'
    OBVIOUS
  <1>1. CASE TimePasses \/ UNCHANGED timeVars
    <2>1. /\ UNCHANGED <<rows, before, known, seen, ties>> /\ now' \in 1..MaxInstant
      BY <1>1, TimelineAssumption DEF TimePasses, timeVars, TimelineInv, TimelineTypeOK
    <2> QED BY <2>1 DEF TimelineInv, TimelineTypeOK, CutOff, From
  <1> QED BY <1>1, EntriesRecorded, PageRead DEF TimelineNext

LEMMA TimelineInvariant == TimelineSpec => []TimelineInv
  BY TimelineInitInv, TimelineStep, PTL DEF TimelineSpec

(* Cutting each source to the page first loses nothing of the page.        *)
LEMMA PortfolioLatest ==
  ASSUME TimelineInv PROVE portfolio_timeline \subseteq Latest(rows, Page)
  <1> SUFFICES ASSUME NEW merged \in PortfolioSources, NEW t \in Latest(merged, Page)
               PROVE  t \in Latest(rows, Page)
    BY DEF portfolio_timeline
  <1>1. merged \subseteq rows /\ IsFiniteSet(merged)
    BY FS_Subset DEF PortfolioSources, TimelineInv
  <1>2. /\ t \subseteq merged /\ IsFiniteSet(t) /\ Cardinality(t) \in Nat /\ Cardinality(t) <= Page
        /\ \A a \in t, b \in merged \ t : b.at <= a.at
        /\ merged \ t # {} => Cardinality(t) = Page
    BY <1>1, LatestAre, FS_CardinalityType, TimelineAssumption
  <1>3. ASSUME NEW b \in rows \ merged
        PROVE  Cardinality(t) = Page /\ \A a \in t : b.at <= a.at
    <2>1. PICK s \in Sources : s = b.source
      BY DEF TimelineInv, TimelineTypeOK, TimelineEntries
    <2>2. PICK c : c = {r \in merged : r.source = s}
      OBVIOUS
    <2>3. c \in Latest(From(s), Page) /\ b \in From(s) \ c
      BY <2>1, <2>2 DEF PortfolioSources, From
    <2>4. IsFiniteSet(From(s))
      BY FS_Subset DEF From, TimelineInv
    <2>5. Cardinality(c) = Page /\ \A x \in c : b.at <= x.at
      BY <2>3, <2>4, LatestAre, TimelineAssumption
    <2>6. c \subseteq merged /\ IsFiniteSet(c)
      BY <1>1, <2>2, FS_Subset
    <2>7. c \subseteq t => Cardinality(c) <= Cardinality(t)
      BY <1>2, FS_Subset
    <2>8. Cardinality(t) = Page
      BY <1>2, <2>5, <2>6, <2>7, TimelineAssumption
    <2>9. ASSUME NEW a \in t, ~ (b.at <= a.at) PROVE FALSE
      <3>1. \A x \in rows : x.at \in Nat
        BY DEF TimelineInv, TimelineTypeOK, TimelineEntries
      <3>2. a.at \in Nat /\ b.at \in Nat /\ a.at < b.at
        BY <1>1, <1>2, <2>9, <3>1
      <3>3. ASSUME NEW x \in c PROVE x \in t /\ x # a
        <4>1. x.at \in Nat /\ b.at <= x.at
          BY <1>1, <2>5, <2>6, <3>1, <3>3
        <4>2. ~ (x.at <= a.at)
          BY <3>2, <4>1
        <4> QED BY <1>2, <2>6, <3>2, <4>2
      <3>4. c \cup {a} \subseteq t /\ a \notin c
        BY <3>3
      <3>5. Cardinality(c \cup {a}) = Page + 1
        BY <2>5, <2>6, <3>4, FS_AddElement
      <3>6. Cardinality(c \cup {a}) <= Cardinality(t)
        BY <1>2, <3>4, FS_Subset
      <3> QED BY <2>8, <3>5, <3>6, TimelineAssumption
    <2> QED BY <2>8, <2>9
  <1>4. rows \ t # {} => Cardinality(t) = Page
    BY <1>2, <1>3
  <1>5. \A a \in t, b \in rows \ t : b.at <= a.at
    BY <1>2, <1>3
  <1> QED BY <1>1, <1>2, <1>4, <1>5, LatestIf, TimelineAssumption DEF TimelineInv

(* The entries, the parameter of the next page and what the walk has shown.*)
THEOREM TimelineTypeCorrect == TimelineSpec => []TimelineTypeOK
  <1>1. TimelineInv => TimelineTypeOK
    BY DEF TimelineInv
  <1> QED BY <1>1, TimelineInvariant, PTL

(* However the histories grow while a person walks back through them, the  *)
(* walk has shown all there was when it began, but for ties and for events *)
(* that are no longer looked at; and the recent activity is the latest     *)
(* entries of all, although each source is merged first (app/timeline.py). *)
THEOREM WalkMissesOnlyTiesHolds == TimelineSpec => []WalkMissesOnlyTies
  <1>1. TimelineInv => WalkMissesOnlyTies
    <2> SUFFICES ASSUME TimelineInv PROVE WalkMissesOnlyTies
      OBVIOUS
    <2>1. ASSUME before # 0, node_timeline(before) = {{}}, NEW r \in known \ seen
          PROVE  r.at \in ties \/ CutOff(r)
      <3>1. {} \in node_timeline(before) /\ r \in rows
        BY <2>1 DEF TimelineInv, TimelineTypeOK
      <3>2. r.at < before => CutOff(r)
        BY <3>1, PageLeavesOut DEF TimelineInv
      <3> QED BY <2>1, <3>2 DEF TimelineInv
    <2> QED BY <2>1, PortfolioLatest DEF WalkMissesOnlyTies, CutOff
  <1> QED BY <1>1, TimelineInvariant, PTL

-----------------------------------------------------------------------------
(* Sums.                                                                   *)
(*                                                                         *)
(* The fold of a set takes the elements of it one by one, in an order that *)
(* nothing is known of: it is the value, on the whole set, of any function *)
(* that satisfies Summed on its subsets, and one does.                     *)
One(s) == CHOOSE x \in s : TRUE
Summed(f, D, g) == [s \in D |-> IF s = {} THEN 0 ELSE g[s \ {One(s)}] + f[One(s)]]
AddUp(f, S) == FoldSet(LAMBDA x, s : s + f[x], 0, S)
AtMost(S, n) == {s \in SUBSET S : Cardinality(s) <= n}

LEMMA AddUpIsSummed ==
  ASSUME NEW f, NEW S
  PROVE  AddUp(f, S) = (CHOOSE g : g = Summed(f, SUBSET S, g))[S]
  BY DEF AddUp, FoldSet, MapThenFoldSet, Summed, One

LEMMA OneLess ==
  ASSUME NEW S, IsFiniteSet(S), NEW s \in SUBSET S, NEW x \in s
  PROVE  /\ s \ {x} \in SUBSET S /\ IsFiniteSet(s)
         /\ Cardinality(s) \in Nat /\ Cardinality(s \ {x}) \in Nat
         /\ Cardinality(s) = Cardinality(s \ {x}) + 1
  <1>1. IsFiniteSet(s) /\ IsFiniteSet(s \ {x})
    BY FS_Subset
  <1>2. Cardinality(s) \in Nat /\ Cardinality(s \ {x}) \in Nat
    BY <1>1, FS_CardinalityType
  <1>3. Cardinality(s \ {x}) = Cardinality(s) - 1
    BY <1>1, FS_RemoveElement
  <1> QED BY <1>1, <1>2, <1>3

(* What fails for some subset of a finite set fails for one that is the    *)
(* smallest: for none that misses one of its elements.                     *)
LEMMA Smallest ==
  ASSUME NEW S, IsFiniteSet(S), NEW Bad \in SUBSET (SUBSET S), Bad # {}
  PROVE  \E s \in Bad : \A x \in s : s \ {x} \notin Bad
  <1>1. PICK sizes : sizes = {Cardinality(s) : s \in Bad}
    OBVIOUS
  <1>2. \A s \in Bad : IsFiniteSet(s) /\ Cardinality(s) \in Nat
    BY FS_Subset, FS_CardinalityType
  <1>3. sizes \in SUBSET Nat /\ sizes # {}
    BY <1>1, <1>2
  <1>4. PICK m \in sizes : \A k \in sizes : m <= k
    BY <1>3, HasLeast
  <1>5. PICK s \in Bad : m = Cardinality(s)
    BY <1>1, <1>4
  <1>6. ASSUME NEW x \in s, s \ {x} \in Bad PROVE FALSE
    <2>1. PICK k : k = Cardinality(s \ {x})
      OBVIOUS
    <2>2. k \in Nat /\ m = k + 1
      <3>1. s \in SUBSET S
        OBVIOUS
      <3> QED BY <1>5, <2>1, <3>1, OneLess
    <2>3. k \in sizes
      BY <1>1, <1>6, <2>1
    <2> QED BY <1>4, <2>2, <2>3
  <1> QED BY <1>6

LEMMA SummedTo ==
  ASSUME NEW f, NEW S, IsFiniteSet(S), NEW n \in Nat
  PROVE  \E g : g = Summed(f, AtMost(S, n), g)
  <1> DEFINE Bad == {k \in Nat : ~ \E g : g = Summed(f, AtMost(S, k), g)}
  <1>1. Bad \in SUBSET Nat
    OBVIOUS
  <1>2. SUFFICES ASSUME Bad # {} PROVE FALSE
    BY DEF Bad
  <1>3. PICK m \in Bad : \A k \in Bad : m <= k
    BY <1>1, <1>2, HasLeast
  <1>4. m \in Nat /\ ~ \E g : g = Summed(f, AtMost(S, m), g)
    BY <1>3
  <1> HIDE DEF Bad
  <1>5. CASE m = 0
    <2>1. PICK g : g = [s \in AtMost(S, m) |-> 0]
      OBVIOUS
    <2>2. ASSUME NEW s \in AtMost(S, m), NEW x \in s PROVE FALSE
      <3>1. s \in SUBSET S /\ Cardinality(s) <= 0
        BY <1>5 DEF AtMost
      <3>2. Cardinality(s \ {x}) \in Nat /\ Cardinality(s) = Cardinality(s \ {x}) + 1
        BY <3>1, OneLess
      <3> QED BY <3>1, <3>2
    <2>3. g = Summed(f, AtMost(S, m), g)
      BY <2>1, <2>2 DEF Summed
    <2> QED BY <1>4, <2>3
  <1>6. CASE m # 0
    <2>1. PICK l \in Nat : l = m - 1
      BY <1>4, <1>6
    <2>2. l \notin Bad
      BY <1>3, <1>4, <2>1
    <2>3. PICK g : g = Summed(f, AtMost(S, l), g)
      BY <2>2 DEF Bad
    <2>4. PICK h : h = Summed(f, AtMost(S, m), g)
      OBVIOUS
    <2>5. ASSUME NEW s \in AtMost(S, m), s # {} PROVE h[s \ {One(s)}] = g[s \ {One(s)}]
      <3>1. PICK t : t = s \ {One(s)}
        OBVIOUS
      <3>2. s \in SUBSET S /\ Cardinality(s) <= m /\ One(s) \in s
        BY <2>5 DEF AtMost, One
      <3>3. /\ t \in SUBSET S /\ Cardinality(t) \in Nat /\ Cardinality(s) = Cardinality(t) + 1
        BY <3>1, <3>2, OneLess
      <3>4. t \in AtMost(S, l) /\ t \in AtMost(S, m)
        BY <1>4, <2>1, <3>2, <3>3 DEF AtMost
      <3>5. g[t] = IF t = {} THEN 0 ELSE g[t \ {One(t)}] + f[One(t)]
        BY <2>3, <3>4 DEF Summed
      <3>6. h[t] = IF t = {} THEN 0 ELSE g[t \ {One(t)}] + f[One(t)]
        BY <2>4, <3>4 DEF Summed
      <3> QED BY <3>1, <3>5, <3>6
    <2>6. Summed(f, AtMost(S, m), h) = Summed(f, AtMost(S, m), g)
      BY <2>5 DEF Summed
    <2> QED BY <1>4, <2>4, <2>6
  <1> QED BY <1>5, <1>6

LEMMA SummedAll ==
  ASSUME NEW f, NEW S, IsFiniteSet(S)
  PROVE  \E g : g = Summed(f, SUBSET S, g)
  <1>1. PICK n \in Nat : n = Cardinality(S)
    BY FS_CardinalityType
  <1>2. AtMost(S, n) = SUBSET S
    BY <1>1, FS_Subset DEF AtMost
  <1> QED BY <1>2, SummedTo

LEMMA AddUpOfSubset ==
  ASSUME NEW f, NEW S, IsFiniteSet(S), NEW g, g = Summed(f, SUBSET S, g), NEW T \in SUBSET S
  PROVE  AddUp(f, T) = g[T]
  <1>1. PICK h : h = Summed(f, SUBSET T, h) /\ AddUp(f, T) = h[T]
    <2>1. IsFiniteSet(T)
      BY FS_Subset
    <2> QED BY <2>1, SummedAll, AddUpIsSummed
  <1> DEFINE Bad == {s \in SUBSET T : h[s] # g[s]}
  <1>2. SUFFICES ASSUME Bad # {} PROVE FALSE
    BY <1>1
  <1>3. IsFiniteSet(T) /\ Bad \in SUBSET (SUBSET T)
    BY FS_Subset
  <1>4. PICK s \in Bad : \A x \in s : s \ {x} \notin Bad
    BY <1>2, <1>3, Smallest
  <1>5. s \in SUBSET T /\ s \in SUBSET S /\ h[s] # g[s]
    BY <1>4
  <1>6. /\ h[s] = IF s = {} THEN 0 ELSE h[s \ {One(s)}] + f[One(s)]
        /\ g[s] = IF s = {} THEN 0 ELSE g[s \ {One(s)}] + f[One(s)]
    BY <1>1, <1>5 DEF Summed
  <1>7. s # {} => One(s) \in s
    BY DEF One
  <1> QED BY <1>4, <1>5, <1>6, <1>7

LEMMA AddUpOfNone == ASSUME NEW f PROVE AddUp(f, {}) = 0
  <1>1. IsFiniteSet({})
    BY FS_EmptySet
  <1>2. PICK g : g = Summed(f, SUBSET {}, g)
    BY <1>1, SummedAll
  <1>3. g[{}] = 0
    BY <1>2 DEF Summed
  <1>4. PICK none : none = {}
    OBVIOUS
  <1>5. IsFiniteSet(none) /\ g = Summed(f, SUBSET none, g) /\ none \in SUBSET none
    BY <1>1, <1>2, <1>4
  <1>6. AddUp(f, none) = g[none]
    BY <1>5, AddUpOfSubset
  <1> QED BY <1>3, <1>4, <1>6

(* A sum of numbers is one, not negative if they are not.                  *)
LEMMA AddUpIsNumber ==
  ASSUME NEW f, NEW S, IsFiniteSet(S), \A x \in S : f[x] \in Int
  PROVE  AddUp(f, S) \in Int /\ ((\A x \in S : f[x] \in Nat) => AddUp(f, S) \in Nat)
  <1>1. PICK g : g = Summed(f, SUBSET S, g)
    BY SummedAll
  <1> DEFINE Bad == {s \in SUBSET S : ~ (g[s] \in Int /\ ((\A x \in S : f[x] \in Nat) => g[s] \in Nat))}
  <1>2. SUFFICES ASSUME Bad # {} PROVE FALSE
    BY <1>1, AddUpOfSubset
  <1>3. PICK s \in Bad : \A x \in s : s \ {x} \notin Bad
    BY <1>2, Smallest
  <1>4. s \in SUBSET S /\ g[s] = IF s = {} THEN 0 ELSE g[s \ {One(s)}] + f[One(s)]
    BY <1>1, <1>3 DEF Summed
  <1>5. s # {} => One(s) \in s /\ s \ {One(s)} \in SUBSET S
    BY <1>4 DEF One
  <1>6. s # {} => /\ g[s \ {One(s)}] \in Int /\ f[One(s)] \in Int
                  /\ (\A x \in S : f[x] \in Nat) => g[s \ {One(s)}] \in Nat /\ f[One(s)] \in Nat
    BY <1>3, <1>4, <1>5
  <1> QED BY <1>3, <1>4, <1>6

(* Any element may be taken out: the order does not matter.                *)
LEMMA AddUpWithout ==
  ASSUME NEW f, NEW S, IsFiniteSet(S), \A x \in S : f[x] \in Int, NEW y \in S
  PROVE  AddUp(f, S) = AddUp(f, S \ {y}) + f[y]
  <1>1. PICK g : g = Summed(f, SUBSET S, g)
    BY SummedAll
  <1>2. \A s \in SUBSET S : g[s] \in Int
    <2>1. ASSUME NEW s \in SUBSET S PROVE g[s] \in Int
      <3>1. IsFiniteSet(s) /\ \A x \in s : f[x] \in Int
        BY FS_Subset
      <3> QED BY <1>1, <3>1, AddUpIsNumber, AddUpOfSubset
    <2> QED BY <2>1
  <1> DEFINE Bad == {s \in SUBSET S : \E x \in s : g[s] # g[s \ {x}] + f[x]}
  <1>3. SUFFICES ASSUME Bad # {} PROVE FALSE
    <2>1. SUFFICES ASSUME g[S] = g[S \ {y}] + f[y] PROVE AddUp(f, S) = AddUp(f, S \ {y}) + f[y]
      OBVIOUS
    <2>2. S \in SUBSET S /\ S \ {y} \in SUBSET S
      OBVIOUS
    <2>3. AddUp(f, S) = g[S] /\ AddUp(f, S \ {y}) = g[S \ {y}]
      BY <1>1, <2>2, AddUpOfSubset
    <2> QED BY <2>1, <2>3
  <1>4. PICK s \in Bad : \A x \in s : s \ {x} \notin Bad
    BY <1>3, Smallest
  <1>5. PICK x \in s : g[s] # g[s \ {x}] + f[x]
    BY <1>4
  <1>6. PICK o : o = One(s)
    OBVIOUS
  <1>7. o \in s /\ s \in SUBSET S /\ g[s] = g[s \ {o}] + f[o]
    BY <1>1, <1>4, <1>5, <1>6 DEF Summed, One
  <1>8. o # x
    BY <1>5, <1>7
  <1>9. g[s \ {o}] = g[(s \ {o}) \ {x}] + f[x]
    BY <1>4, <1>5, <1>7, <1>8
  <1>10. g[s \ {x}] = g[(s \ {x}) \ {o}] + f[o]
    BY <1>4, <1>5, <1>7, <1>8
  <1>11. (s \ {o}) \ {x} = (s \ {x}) \ {o} /\ (s \ {o}) \ {x} \in SUBSET S
    BY <1>7
  <1>12. PICK k \in Int : k = g[(s \ {o}) \ {x}]
    BY <1>2, <1>11
  <1>13. f[x] \in Int /\ f[o] \in Int
    BY <1>5, <1>7
  <1>14. g[s] = (k + f[x]) + f[o] /\ g[s \ {x}] = k + f[o]
    BY <1>7, <1>9, <1>10, <1>11, <1>12
  <1>15. g[s] = g[s \ {x}] + f[x]
    BY <1>12, <1>13, <1>14
  <1> QED BY <1>5, <1>15

-----------------------------------------------------------------------------
(* The squares of numbers add up to at least the square of their sum over  *)
(* their count.                                                            *)
LEMMA SquareIsNatural == ASSUME NEW x \in Int PROVE x * x \in Nat
  OBVIOUS

LEMMA OneSquareMore ==
  ASSUME NEW n \in Nat, NEW t \in Int, NEW q \in Int, NEW w \in Int, n * q >= t * t, n = 0 => q = 0 /\ t = 0
  PROVE  (n + 1) * (q + w * w) >= (t + w) * (t + w)
  <1>1. CASE n = 0
    BY <1>1
  <1>2. CASE n > 0
    <2>1. PICK d \in Int : d = t - n * w
      OBVIOUS
    <2>2. d * d >= 0
      BY SquareIsNatural
    <2>3. d * d = t * t - 2 * (n * (t * w)) + n * (n * (w * w))
      BY <2>1
    <2>4. PICK e \in Int : e = q + n * (w * w) - 2 * (t * w)
      OBVIOUS
    <2>5. n * e = n * q + n * (n * (w * w)) - 2 * (n * (t * w))
      BY <2>4
    <2>6. n * e >= 0
      BY <2>2, <2>3, <2>5
    <2>7. e >= 0
      <3>1. SUFFICES ASSUME e <= -1 PROVE FALSE
        OBVIOUS
      <3>2. n * e <= -n
        BY <3>1
      <3> QED BY <1>2, <2>6, <3>2
    <2>8. (n + 1) * (q + w * w) = n * q + q + n * (w * w) + w * w
      OBVIOUS
    <2>9. (t + w) * (t + w) = t * t + 2 * (t * w) + w * w
      OBVIOUS
    <2> QED BY <2>4, <2>7, <2>8, <2>9
  <1> QED BY <1>1, <1>2

LEMMA SquaresAddUp ==
  ASSUME NEW f, NEW sq, NEW S, IsFiniteSet(S), \A x \in S : f[x] \in Int /\ sq[x] = f[x] * f[x]
  PROVE  Cardinality(S) * AddUp(sq, S) >= AddUp(f, S) * AddUp(f, S)
  <1> DEFINE Bad == {s \in SUBSET S : ~ (Cardinality(s) * AddUp(sq, s) >= AddUp(f, s) * AddUp(f, s))}
  <1>1. SUFFICES ASSUME Bad # {} PROVE FALSE
    OBVIOUS
  <1>2. PICK s \in Bad : \A x \in s : s \ {x} \notin Bad
    BY <1>1, Smallest
  <1>3. s \in SUBSET S /\ IsFiniteSet(s) /\ ~ (Cardinality(s) * AddUp(sq, s) >= AddUp(f, s) * AddUp(f, s))
    BY <1>2, FS_Subset
  <1>4. CASE s = {}
    <2>1. AddUp(sq, s) = 0 /\ AddUp(f, s) = 0 /\ Cardinality(s) = 0
      BY <1>4, AddUpOfNone, FS_EmptySet
    <2> QED BY <1>3, <2>1
  <1>5. ASSUME NEW x \in s PROVE FALSE
    <2>1. PICK r : r = s \ {x} /\ r \in SUBSET S /\ IsFiniteSet(r)
      BY <1>3, FS_Subset
    <2>2. PICK n \in Nat : n = Cardinality(r) /\ Cardinality(s) = n + 1
      BY <1>3, <2>1, OneLess
    <2>3. \A y \in s : f[y] \in Int /\ sq[y] \in Int
      BY <1>3
    <2>4. PICK t \in Int, q \in Int : t = AddUp(f, r) /\ q = AddUp(sq, r)
      BY <2>1, <2>3, AddUpIsNumber
    <2>5. PICK w \in Int : w = f[x] /\ sq[x] = w * w
      BY <1>3
    <2>6. AddUp(f, s) = t + w
      BY <1>3, <2>1, <2>3, <2>4, <2>5, AddUpWithout
    <2>7. AddUp(sq, s) = q + w * w
      BY <1>3, <2>1, <2>3, <2>4, <2>5, AddUpWithout
    <2>8. n * q >= t * t
      BY <1>2, <2>1, <2>2, <2>4
    <2>9. n = 0 => q = 0 /\ t = 0
      BY <2>1, <2>2, <2>4, FS_EmptySet, AddUpOfNone
    <2>10. (n + 1) * (q + w * w) >= (t + w) * (t + w)
      BY <2>8, <2>9, OneSquareMore
    <2> QED BY <1>3, <2>2, <2>6, <2>7, <2>10
  <1> QED BY <1>4, <1>5

(* How far one of n + 1 numbers is from their mean, compared with their    *)
(* spread.                                                                 *)
LEMMA OneApart ==
  ASSUME NEW m \in Nat, NEW t \in Int, NEW q \in Int, NEW y \in Int, m * q >= t * t
  PROVE  LET spread == (m + 1) * (q + y * y) - (t + y) * (t + y)
             apart == y * (m + 1) - (t + y)
         IN  m * spread >= apart * apart
  <1>1. PICK spread \in Int, apart \in Int :
           /\ spread = (m + 1) * (q + y * y) - (t + y) * (t + y)
           /\ apart = y * (m + 1) - (t + y)
    OBVIOUS
  <1>2. spread = m * q + q + m * (y * y) - t * t - 2 * (t * y)
    BY <1>1
  <1>3. m * spread = m * (m * q) + m * q + m * (m * (y * y)) - m * (t * t) - 2 * (m * (t * y))
    BY <1>2
  <1>4. apart = m * y - t
    BY <1>1
  <1>5. apart * apart = m * (m * (y * y)) - 2 * (m * (t * y)) + t * t
    BY <1>4
  <1>6. m * (m * q) >= m * (t * t)
    BY SquareIsNatural
  <1> QED BY <1>1, <1>3, <1>5, <1>6

LEMMA UpToFour == ASSUME NEW m \in Nat, m <= 4 PROVE m = 0 \/ m = 1 \/ m = 2 \/ m = 3 \/ m = 4
  OBVIOUS

(* Among five at most, a number whose distance to the mean is not more     *)
(* than that of one of them is not called apart.                           *)
LEMMA NotBeyond ==
  ASSUME NEW f, NEW sq, NEW S, IsFiniteSet(S), \A z \in S : f[z] \in Int /\ sq[z] = f[z] * f[z],
         Cardinality(S) <= 5, NEW y \in S, NEW x \in Int,
         \/ x * Cardinality(S) - AddUp(f, S) >= 0 /\ f[y] >= x
         \/ x * Cardinality(S) - AddUp(f, S) <= 0 /\ f[y] <= x
  PROVE  LET n == Cardinality(S)
             spread == n * AddUp(sq, S) - AddUp(f, S) * AddUp(f, S)
             apart == x * n - AddUp(f, S)
         IN  ~ ((n - 1) * apart * apart > 4 * n * spread)
  <1>1. PICK r : r = S \ {y} /\ IsFiniteSet(r)
    BY FS_Subset
  <1>2. PICK m \in Nat : m = Cardinality(r) /\ Cardinality(S) = m + 1 /\ m <= 4
    BY <1>1, OneLess
  <1>3. \A z \in S : f[z] \in Int /\ sq[z] \in Int
    OBVIOUS
  <1>4. PICK t \in Int, q \in Int : t = AddUp(f, r) /\ q = AddUp(sq, r)
    BY <1>1, <1>3, AddUpIsNumber
  <1>5. PICK v \in Int : v = f[y] /\ sq[y] = v * v
    OBVIOUS
  <1>6. AddUp(f, S) = t + v
    BY <1>1, <1>3, <1>4, <1>5, AddUpWithout
  <1>7. AddUp(sq, S) = q + v * v
    BY <1>1, <1>3, <1>4, <1>5, AddUpWithout
  <1>8. m * q >= t * t
    BY <1>1, <1>2, <1>4, SquaresAddUp
  <1>9. PICK spread \in Int, apart \in Int, far \in Int :
           /\ spread = (m + 1) * (q + v * v) - (t + v) * (t + v)
           /\ apart = x * (m + 1) - (t + v)
           /\ far = v * (m + 1) - (t + v)
    OBVIOUS
  <1>10. m * spread >= far * far
    BY <1>8, <1>9, OneApart
  <1>11. far * far >= apart * apart
    <2>1. CASE apart >= 0 /\ v >= x
      <3>1. far >= apart
        BY <1>9, <2>1
      <3> QED BY <2>1, <3>1
    <2>2. CASE apart <= 0 /\ v <= x
      <3>1. far <= apart
        BY <1>9, <2>2
      <3> QED BY <2>2, <3>1
    <2> QED BY <1>2, <1>5, <1>6, <1>9, <2>1, <2>2
  <1>12. m * spread >= apart * apart
    BY <1>10, <1>11
  <1>13. ~ (m * (apart * apart) > 4 * ((m + 1) * spread))
    <2>1. PICK a \in Nat : a = apart * apart
      BY SquareIsNatural
    <2>2. m = 0 \/ m = 1 \/ m = 2 \/ m = 3 \/ m = 4
      BY <1>2, UpToFour
    <2>3. m * spread >= a
      BY <1>12, <2>1
    <2>4. CASE m = 0
      <3>1. q = 0 /\ t = 0
        BY <1>1, <1>2, <1>4, <2>4, FS_EmptySet, AddUpOfNone
      <3>2. spread = 0
        BY <1>9, <2>4, <3>1
      <3> QED BY <2>4, <3>2
    <2>5. CASE m # 0
      BY <2>1, <2>2, <2>3, <2>5
    <2> QED BY <2>4, <2>5
  <1> QED BY <1>2, <1>6, <1>7, <1>9, <1>13

-----------------------------------------------------------------------------
(* The status of the equipments.                                           *)
(*                                                                         *)
(* A point has one measure at most at an instant, so that every screen that *)
(* takes the latest usable one takes the same.                             *)

(* One measure at most of a point at an instant.                           *)
StatusInv ==
    /\ samples \subseteq Samples /\ IsFiniteSet(samples) /\ Cardinality(samples) <= MaxSamples
    /\ retired \subseteq Equipments
    /\ \A s, t \in samples : s.point = t.point /\ s.at = t.at => s = t

LEMMA StatusStep == StatusInv /\ [StatusNext]_statusVars => StatusInv'
  <1> SUFFICES ASSUME StatusInv, [StatusNext]_statusVars PROVE StatusInv'
    OBVIOUS
  <1>1. ASSUME NEW new \in Samples, RecordSample(new) PROVE StatusInv'
    <2>1. /\ samples' = samples \cup {new} /\ retired' = retired
          /\ Cardinality(samples) < MaxSamples
          /\ \A s \in samples : s.point # new.point \/ s.at # new.at
      BY <1>1 DEF RecordSample
    <2>2. IsFiniteSet(samples') /\ Cardinality(samples') <= MaxSamples
      <3>1. Cardinality(samples) \in Nat /\ IsFiniteSet(samples)
        BY FS_CardinalityType DEF StatusInv
      <3>2. /\ IsFiniteSet(samples \cup {new})
            /\ Cardinality(samples \cup {new})
                  = IF new \in samples THEN Cardinality(samples) ELSE Cardinality(samples) + 1
        BY <3>1, FS_AddElement
      <3> QED BY <2>1, <3>1, <3>2, StatusAssumption
    <2> QED BY <2>1, <2>2 DEF StatusInv
  <1>2. ASSUME NEW e \in Equipments, Withdraw(e) PROVE StatusInv'
    BY <1>2 DEF Withdraw, StatusInv
  <1>3. CASE UNCHANGED statusVars
    BY <1>3 DEF statusVars, StatusInv
  <1> QED BY <1>1, <1>2, <1>3 DEF StatusNext

LEMMA StatusInvariant == StatusSpec => []StatusInv
  <1>1. StatusInit => StatusInv
    BY FS_EmptySet, StatusAssumption DEF StatusInit, StatusInv
  <1> QED BY <1>1, StatusStep, PTL DEF StatusSpec

(* The measures of the points, one of a point at an instant.              *)
THEOREM StatusTypeCorrect == StatusSpec => []StatusTypeOK
  <1>1. StatusInv => StatusTypeOK
    BY StatusAssumption DEF StatusInv, StatusTypeOK
  <1> QED BY <1>1, StatusInvariant, PTL

(* Of a finite set, one that fewest are above. *)
LEMMA Greatest ==
  ASSUME NEW S, S # {}, IsFiniteSet(S), NEW f \in [S -> Nat]
  PROVE  \E s \in S : \A t \in S : f[t] <= f[s]
  <1>1. PICK after : after = [s \in S |-> {t \in S : f[t] > f[s]}]
    OBVIOUS
  <1>2. \A s \in S : /\ after[s] = {t \in S : f[t] > f[s]} /\ IsFiniteSet(after[s])
                     /\ Cardinality(after[s]) \in Nat
    BY <1>1, FS_Subset, FS_CardinalityType
  <1>3. PICK counts : counts = {Cardinality(after[s]) : s \in S}
    OBVIOUS
  <1>4. counts \subseteq Nat /\ counts # {}
    BY <1>2, <1>3
  <1>5. PICK least \in counts : \A n \in counts : ~ (<<n, least>> \in OpToRel(<, Nat))
    BY <1>4, NatLessThanWellFounded, WFMin
  <1>6. PICK s \in S : Cardinality(after[s]) = least
    BY <1>3
  <1>7. ASSUME NEW t \in S, f[t] > f[s] PROVE FALSE
    <2>1. after[t] \subseteq after[s] /\ t \in after[s] /\ t \notin after[t]
      BY <1>2, <1>7
    <2>2. Cardinality(after[t]) < Cardinality(after[s])
      BY <1>2, <2>1, FS_Subset
    <2>3. Cardinality(after[t]) \in counts /\ Cardinality(after[t]) \in Nat /\ least \in Nat
      BY <1>2, <1>3, <1>4
    <2> QED BY <1>5, <1>6, <2>2, <2>3 DEF OpToRel
  <1> QED BY <1>7

LEMMA LatestIsThere ==
  ASSUME NEW from, from # {}, IsFiniteSet(from), \A s \in from : s.at \in Nat
  PROVE  LatestSample(from) \in from /\ \A t \in from : t.at <= LatestSample(from).at
  <1>1. PICK f : f = [s \in from |-> s.at]
    OBVIOUS
  <1>2. f \in [from -> Nat]
    BY <1>1
  <1>3. \E s \in from : \A t \in from : f[t] <= f[s]
    BY <1>2, Greatest
  <1> QED BY <1>1, <1>3 DEF LatestSample

(* A value of a point is one of its measures, and there is one when there  *)
(* is a measure that can be used.                                          *)
UsableOf(p, at) == {s \in samples : s.point = p /\ s.at <= at /\ ~ s.doubtful}

LEMMA LatestUsable ==
  ASSUME StatusInv, NEW p, NEW at
  PROVE  LET shown == LatestSample(UsableOf(p, at))
         IN  /\ shown = NoSample <=> UsableOf(p, at) = {}
             /\ shown # NoSample => /\ shown \in UsableOf(p, at) /\ shown \in Samples
                                    /\ \A t \in UsableOf(p, at) : t.at <= shown.at
  <1>1. PICK from : from = UsableOf(p, at)
    OBVIOUS
  <1>2. from \subseteq samples /\ IsFiniteSet(from) /\ \A s \in from : s \in Samples /\ s.at \in Nat
    BY <1>1, FS_Subset, StatusAssumption DEF UsableOf, StatusInv
  <1>3. from # {} => LatestSample(from) \in from /\ \A t \in from : t.at <= LatestSample(from).at
    BY <1>2, LatestIsThere
  <1>4. from = {} => LatestSample(from) = NoSample
    BY DEF LatestSample
  <1> QED BY <1>1, <1>2, <1>3, <1>4, StatusAssumption

(* A status is told from the latest values of the points of an equipment   *)
(* alone, whatever else was read with them.                                *)
LEMMA SameValue ==
  ASSUME NEW ps \in SUBSET PointsTold, NEW one, NEW other, NEW class, \A p \in ps : one[p] = other[p]
  PROVE  ClassValue(ps, one, class) = ClassValue(ps, other, class)
  <1>1. PICK told : told = {p \in ps : StatusTable[p].class = class /\ one[p] # NoSample}
    OBVIOUS
  <1>2. told = {p \in ps : StatusTable[p].class = class /\ other[p] # NoSample}
    BY <1>1
  <1>3. CASE told = {}
    BY <1>1, <1>2, <1>3 DEF ClassValue
  <1>4. CASE told # {}
    <2>1. PICK f : f = [p \in told |-> StatusTable[p].order]
      OBVIOUS
    <2>2. IsFiniteSet(told) /\ f \in [told -> Nat]
      BY <1>1, <2>1, FS_Subset, StatusAssumption
    <2>3. \E p \in told : \A q \in told : f[q] <= f[p]
      BY <1>4, <2>2, Greatest
    <2>4. PICK last : last = CHOOSE p \in told : \A q \in told : StatusTable[q].order <= StatusTable[p].order
      OBVIOUS
    <2>5. last \in told
      BY <2>1, <2>3, <2>4
    <2>6. ClassValue(ps, one, class) = one[last].value /\ ClassValue(ps, other, class) = other[last].value
      BY <1>1, <1>2, <1>4, <2>4 DEF ClassValue
    <2> QED BY <1>1, <2>5, <2>6
  <1> QED BY <1>3, <1>4

LEMMA SameStatus ==
  ASSUME NEW ps \in SUBSET PointsTold, NEW one, NEW other, NEW at, \A p \in ps : one[p] = other[p]
  PROVE  _status_from_points(ps, one, at) = _status_from_points(ps, other, at)
  <1>1. {p \in ps : one[p] # NoSample} = {p \in ps : other[p] # NoSample}
    OBVIOUS
  <1>2. _operational(ps, one) = _operational(ps, other)
    <2>1. \A class : ClassValue(ps, one, class) = ClassValue(ps, other, class)
      BY SameValue
    <2> QED BY <2>1 DEF _operational
  <1>3. {one[p].at : p \in {q \in ps : one[q] # NoSample}}
           = {other[p].at : p \in {q \in ps : other[q] # NoSample}}
    BY <1>1
  <1>4. \A p \in {q \in ps : one[q] # NoSample} : Fresh(p, one[p], at) = Fresh(p, other[p], at)
    OBVIOUS
  <1> QED BY <1>1, <1>2, <1>3, <1>4 DEF _status_from_points

LEMMA PointsToldAre == StatusPoints \subseteq Validated /\ Validated \subseteq PointsTold
  BY DEF StatusPoints, Validated

LEMMA OneStatusAlways == ASSUME StatusInv PROVE OneStatus
  <1> SUFFICES ASSUME NEW at \in StatusInstants
               PROVE  LET all == compute_portfolio_equipment_status(at)
                      IN /\ DOMAIN all \cap retired = {}
                         /\ \A e \in Equipments \ retired : all[e] = compute_equipment_status(e, at)
    BY DEF OneStatus
  <1>1. PICK latest : latest = latest_usable_bulk(StatusPoints, at)
    OBVIOUS
  <1>2. ASSUME NEW e \in Equipments \ retired
        PROVE  compute_portfolio_equipment_status(at)[e] = compute_equipment_status(e, at)
    <2>1. PICK ps : ps = {p \in StatusPoints : StatusTable[p].location = e}
      OBVIOUS
    <2>2. PICK alone : alone = latest_usable_bulk(ps, at)
      OBVIOUS
    <2>3. \A p \in ps : alone[p] = latest[p]
      BY <1>1, <2>1, <2>2 DEF latest_usable_bulk
    <2>4. _status_from_points(ps, latest, at) = _status_from_points(ps, alone, at)
      BY <2>1, <2>3, SameStatus, PointsToldAre
    <2> QED BY <1>1, <2>1, <2>2, <2>4 DEF compute_portfolio_equipment_status, compute_equipment_status
  <1> QED BY <1>2 DEF compute_portfolio_equipment_status

LEMMA ValuesAgree == ASSUME StatusInv PROVE StatusAgreesWithValues
  <1> SUFFICES ASSUME NEW at \in StatusInstants, NEW e \in Equipments
               PROVE  LET status == compute_equipment_status(e, at)
                          page == portfolio_telemetry(at)
                          told == {page[p].stale : p \in {q \in StatusPoints : StatusTable[q].location = e}}
                      IN /\ status.current <=> "fresh" \in told
                         /\ status.communication = "offline" <=> "stale" \in told /\ "fresh" \notin told
                         /\ status.communication = "unknown" => status.operational = "unknown" \/ told = {"unknown"}
    BY DEF StatusAgreesWithValues
  <1>1. PICK ps : ps = {p \in StatusPoints : StatusTable[p].location = e}
    OBVIOUS
  <1>2. PICK latest : latest = latest_usable_bulk(ps, at)
    OBVIOUS
  <1>3. PICK page : page = portfolio_telemetry(at)
    OBVIOUS
  <1>4. PICK s : s = _status_from_points(ps, latest, at)
    OBVIOUS
  <1>5. \A p \in ps : page[p].stale = IF latest[p] = NoSample \/ StatusTable[p].interval = 0 THEN "unknown"
                                      ELSE IF Fresh(p, latest[p], at) THEN "fresh" ELSE "stale"
    BY <1>1, <1>2, <1>3, PointsToldAre DEF portfolio_telemetry, latest_usable_bulk
  <1>6. PICK told : told = {p \in ps : latest[p] # NoSample}
    OBVIOUS
  <1>7. PICK dated : dated = {p \in told : StatusTable[p].interval > 0}
    OBVIOUS
  <1>8. \A p \in ps : p \in dated <=> latest[p] # NoSample /\ StatusTable[p].interval # 0
    BY <1>1, <1>6, <1>7, PointsToldAre, StatusAssumption
  <1>9. PICK shown : shown = {page[p].stale : p \in ps}
    OBVIOUS
  <1>10. /\ "fresh" \in shown <=> \E p \in dated : Fresh(p, latest[p], at)
         /\ "stale" \in shown <=> \E p \in dated : ~ Fresh(p, latest[p], at)
         /\ dated = {} => shown \subseteq {"unknown"}
    BY <1>5, <1>6, <1>7, <1>8, <1>9
  <1>11. /\ s.current <=> s.communication = "online"
         /\ s.communication = IF \E p \in dated : Fresh(p, latest[p], at) THEN "online"
                              ELSE IF dated # {} THEN "offline" ELSE "unknown"
         /\ told = {} => s.operational = "unknown"
    <2>1. CASE told = {}
      BY <1>4, <1>6, <1>7, <2>1 DEF _status_from_points
    <2>2. CASE told # {}
      BY <1>4, <1>6, <1>7, <2>2 DEF _status_from_points
    <2> QED BY <2>1, <2>2
  <1>12. told # {} => shown # {}
    BY <1>6, <1>9
  <1>13. /\ s.current <=> "fresh" \in shown
         /\ s.communication = "offline" <=> "stale" \in shown /\ "fresh" \notin shown
         /\ s.communication = "unknown" => s.operational = "unknown" \/ shown = {"unknown"}
    BY <1>10, <1>11, <1>12
  <1> QED BY <1>1, <1>2, <1>3, <1>4, <1>9, <1>13 DEF compute_equipment_status

LEMMA PassportAlways == ASSUME StatusInv PROVE PassportAgrees
  <1> SUFFICES ASSUME NEW p \in Validated, NEW shown, shown = _points(p),
                      shown # NoSample, ~ shown.doubtful, NEW at \in StatusInstants, at >= shown.at
               PROVE  portfolio_telemetry(at)[p].shown = shown
    BY DEF PassportAgrees
  <1>1. PICK from : from = {s \in samples : s.point = p}
    OBVIOUS
  <1>2. IsFiniteSet(from) /\ \A s \in from : s \in samples /\ s.point = p /\ s.at \in Nat
    BY <1>1, FS_Subset, StatusAssumption DEF StatusInv
  <1>3. shown = LatestSample(from) /\ from # {}
    BY <1>1 DEF _points, LatestSample
  <1>4. shown \in from /\ \A t \in from : t.at <= shown.at
    BY <1>2, <1>3, LatestIsThere
  <1>5. shown \in UsableOf(p, at)
    BY <1>2, <1>4 DEF UsableOf
  <1>6. PICK usable : usable = LatestSample(UsableOf(p, at))
    OBVIOUS
  <1>7. usable \in UsableOf(p, at) /\ shown.at <= usable.at
    BY <1>5, <1>6, LatestUsable
  <1>8. usable = shown
    BY <1>1, <1>2, <1>4, <1>7 DEF UsableOf, StatusInv
  <1>9. latest_usable_bulk(Validated, at)[p] = usable
    BY <1>6 DEF latest_usable_bulk, UsableOf
  <1> QED BY <1>8, <1>9 DEF portfolio_telemetry

(* The points of a class that have a value have as many peers each.        *)
LEMMA AlikeAlways == ASSUME StatusInv PROVE ComparedAlike
  <1> SUFFICES ASSUME NEW at \in StatusInstants, NEW p \in Validated, NEW q \in Validated,
                      latest_usable_bulk(Validated, at)[p] # NoSample,
                      latest_usable_bulk(Validated, at)[q] # NoSample,
                      StatusTable[p].class = StatusTable[q].class
               PROVE  compare_point_to_peers(p, at).comparable = compare_point_to_peers(q, at).comparable
    BY DEF ComparedAlike
  <1>1. PICK class : class = {r \in Validated : /\ StatusTable[r].class = StatusTable[p].class
                                                 /\ LatestSample(UsableOf(r, at)) # NoSample}
    OBVIOUS
  <1>2. IsFiniteSet(class) /\ p \in class /\ q \in class
    BY <1>1, FS_Subset, PointsToldAre, StatusAssumption DEF latest_usable_bulk, UsableOf
  <1>3. ASSUME NEW r \in class
        PROVE  compare_point_to_peers(r, at).comparable = ~ (Cardinality(class) - 1 < MIN_PEERS_FOR_COMPARISON)
    <2>1. PICK latest : latest = latest_usable_bulk(Peers(r) \cup {r}, at)
      OBVIOUS
    <2>2. \A t \in Peers(r) \cup {r} : latest[t] = LatestSample(UsableOf(t, at))
      BY <2>1 DEF latest_usable_bulk, UsableOf
    <2>3. {t \in Peers(r) : latest[t] # NoSample} = class \ {r}
      BY <1>1, <2>2 DEF Peers
    <2>4. Cardinality(class \ {r}) = Cardinality(class) - 1
      BY <1>2, FS_RemoveElement
    <2>5. latest[r] # NoSample
      BY <1>1, <2>2
    <2> QED BY <2>1, <2>3, <2>4, <2>5, Zenon DEF compare_point_to_peers
  <1> QED BY <1>2, <1>3

(* What the comparison of a point adds up, of its peers that have a value. *)
ValuesOf(latest, S) == [q \in S |-> latest[q].value]
SquaresOf(latest, S) == [q \in S |-> latest[q].value * latest[q].value]
ValuesAdded(latest, S) == FoldSet(LAMBDA q, s : s + latest[q].value, 0, S)
SquaresAdded(latest, S) == FoldSet(LAMBDA q, s : s + latest[q].value * latest[q].value, 0, S)

LEMMA AddedIsTotal ==
  ASSUME NEW latest, NEW S, IsFiniteSet(S)
  PROVE  ValuesAdded(latest, S) = AddUp(ValuesOf(latest, S), S)
  <1> DEFINE Body(g) == [s \in SUBSET S |-> IF s = {} THEN 0 ELSE g[s \ {One(s)}] + latest[One(s)].value]
  <1>1. ValuesAdded(latest, S) = (CHOOSE g : g = Body(g))[S]
    BY DEF ValuesAdded, FoldSet, MapThenFoldSet, One
  <1>2. ASSUME NEW g PROVE Body(g) = Summed(ValuesOf(latest, S), SUBSET S, g)
    <2>1. \A s \in SUBSET S : s # {} => ValuesOf(latest, S)[One(s)] = latest[One(s)].value
      BY DEF ValuesOf, One
    <2> QED BY <2>1 DEF Summed
  <1> HIDE DEF Body
  <1>3. \E g : g = Body(g)
    BY <1>2, SummedAll
  <1>4. PICK g : g = Body(g) /\ ValuesAdded(latest, S) = g[S]
    BY <1>1, <1>3
  <1>5. g = Summed(ValuesOf(latest, S), SUBSET S, g)
    BY <1>2, <1>4
  <1> QED BY <1>4, <1>5, AddUpOfSubset

LEMMA SquaredIsTotal ==
  ASSUME NEW latest, NEW S, IsFiniteSet(S)
  PROVE  SquaresAdded(latest, S) = AddUp(SquaresOf(latest, S), S)
  <1> DEFINE Body(g) == [s \in SUBSET S |-> IF s = {} THEN 0
                            ELSE g[s \ {One(s)}] + latest[One(s)].value * latest[One(s)].value]
  <1>1. SquaresAdded(latest, S) = (CHOOSE g : g = Body(g))[S]
    BY DEF SquaresAdded, FoldSet, MapThenFoldSet, One
  <1>2. ASSUME NEW g PROVE Body(g) = Summed(SquaresOf(latest, S), SUBSET S, g)
    <2>1. \A s \in SUBSET S :
             s # {} => SquaresOf(latest, S)[One(s)] = latest[One(s)].value * latest[One(s)].value
      BY DEF SquaresOf, One
    <2> QED BY <2>1 DEF Summed
  <1> HIDE DEF Body
  <1>3. \E g : g = Body(g)
    BY <1>2, SummedAll
  <1>4. PICK g : g = Body(g) /\ SquaresAdded(latest, S) = g[S]
    BY <1>1, <1>3
  <1>5. g = Summed(SquaresOf(latest, S), SUBSET S, g)
    BY <1>2, <1>4
  <1> QED BY <1>4, <1>5, AddUpOfSubset

(* A point that is between two of its few peers is not called apart.       *)
LEMMA ApartAlways == ASSUME StatusInv PROVE ApartOfAll
  <1> SUFFICES ASSUME NEW at \in StatusInstants, NEW p \in Validated, NEW latest, NEW told,
                      latest = latest_usable_bulk(Validated, at),
                      told = Peers(p) \cap {q \in Validated : latest[q] # NoSample},
                      latest[p] # NoSample, Cardinality(told) <= FEW_PEERS,
                      compare_point_to_peers(p, at).outlier,
                      NEW over \in told, NEW under \in told,
                      ~ (latest[p].value > latest[over].value),
                      ~ (latest[p].value < latest[under].value)
               PROVE  FALSE
    BY DEF ApartOfAll
  <1>1. \A q \in Validated : latest[q] = LatestSample(UsableOf(q, at))
    BY DEF latest_usable_bulk, UsableOf
  <1>2. \A q \in Validated : latest[q] # NoSample => latest[q].value \in Int
    BY <1>1, LatestUsable, StatusAssumption
  <1>3. told \subseteq Validated /\ IsFiniteSet(told) /\ \A q \in told : latest[q] # NoSample
    BY FS_Subset, PointsToldAre, StatusAssumption DEF Peers
  <1>4. PICK own : own = latest_usable_bulk(Peers(p) \cup {p}, at)
    OBVIOUS
  <1>5. \A q \in Peers(p) \cup {p} : own[q] = latest[q]
    BY <1>1, <1>4 DEF latest_usable_bulk, UsableOf, Peers
  <1>6. told = {q \in Peers(p) : own[q] # NoSample}
    BY <1>5 DEF Peers
  <1>7. PICK n, total, squares :
           n = Cardinality(told) /\ total = ValuesAdded(own, told) /\ squares = SquaresAdded(own, told)
    OBVIOUS
  <1>8. (n - 1) * (own[p].value * n - total) * (own[p].value * n - total)
           > 4 * n * (n * squares - total * total)
    <2>1. LET of == latest_usable_bulk(Peers(p) \cup {p}, at)
              with == {q \in Peers(p) : of[q] # NoSample}
              k == Cardinality(with)
              t == ValuesAdded(of, with)
              sq == SquaresAdded(of, with)
              spread == k * sq - t * t
              apart == of[p].value * k - t
          IN  (k - 1) * apart * apart > 4 * k * spread
      BY Zenon DEF compare_point_to_peers, ValuesAdded, SquaresAdded
    <2> QED BY <1>4, <1>6, <1>7, <2>1, Zenon
  <1>9. PICK f, sq : f = ValuesOf(own, told) /\ sq = SquaresOf(own, told)
    OBVIOUS
  <1>10. total = AddUp(f, told) /\ squares = AddUp(sq, told)
    BY <1>3, <1>7, <1>9, AddedIsTotal, SquaredIsTotal
  <1>11. \A q \in told : own[q] = latest[q] /\ own[q].value \in Int
    BY <1>2, <1>3, <1>5, <1>6
  <1>12. \A q \in told : f[q] \in Int /\ sq[q] = f[q] * f[q] /\ f[q] = latest[q].value
    BY <1>9, <1>11 DEF ValuesOf, SquaresOf
  <1>13. PICK x \in Int : x = own[p].value /\ x = latest[p].value
    BY <1>2, <1>5
  <1>14. n \in Nat /\ total \in Int
    BY <1>3, <1>7, <1>10, <1>12, AddUpIsNumber, FS_CardinalityType
  <1>15. f[over] >= x /\ f[under] <= x
    BY <1>12, <1>13
  <1>16. \/ x * n - total >= 0 /\ f[over] >= x
         \/ x * n - total <= 0 /\ f[under] <= x
    BY <1>13, <1>14, <1>15
  <1>17. n <= 5
    BY <1>7 DEF FEW_PEERS
  <1> QED BY <1>3, <1>7, <1>8, <1>10, <1>12, <1>13, <1>16, <1>17, NotBeyond

(* Whatever measures arrive, late, doubtful or not, an equipment has one   *)
(* status whichever page asks, which the latest values account for; what   *)
(* its passport shows without a flag is what every page shows; all the     *)
(* points of a class are compared, or none, and one that is called apart   *)
(* of few peers is beyond them all (app/equipment_status.py,               *)
(* app/telemetry_overview.py, app/passport.py, app/comparison.py).         *)
THEOREM ScreensAgreeHolds == StatusSpec => []ScreensAgree
  <1>1. StatusInv => ScreensAgree
    BY OneStatusAlways, ValuesAgree, PassportAlways, AlikeAlways, ApartAlways DEF ScreensAgree
  <1> QED BY <1>1, StatusInvariant, PTL

-----------------------------------------------------------------------------
(* The energy of a period.                                                 *)
(*                                                                         *)
(* A register shows what was used but for being put back: what two readings *)
(* of it differ by was used between them, and what the differences of a    *)
(* course add up to is never more than its last reading and its first.     *)

(* A reading that may be counted. *)
Usable(r) == r \in meterRows /\ ~ r.doubtful

EntriesOfWeather ==
    [day : 0..(Days - 1), temperature : Temperatures, id : 1..MaxObserved, existing : SUBSET Int]

WeatherRows == [id : 1..MaxObserved, day : 0..(Days - 1), temperature : Temperatures]

MeterInv ==
    /\ course \in Courses /\ IsFiniteSet(meterRows)
    /\ \A r \in meterRows :
          /\ r.at \in MeterInstants /\ r.doubtful \in BOOLEAN
          /\ ~ r.doubtful => r.value = course.register[r.at]

(* The two readings of a computation are in order, and say what it counts. *)
ReadingsSound(r) ==
    /\ r.step \in {"closing", "weather", "insert"}
    /\ r.start \in 0..(Days - 1) /\ r.end \in 0..(Days - 1) /\ r.start <= r.end
    /\ r.opening = NoRow \/ (Usable(r.opening) /\ r.opening.at < StartOf(r.start))
    /\ r.step # "closing" => /\ Usable(r.opening) /\ Usable(r.closing) /\ r.opening.at <= r.closing.at
                             /\ r.raw = r.closing.value - r.opening.value

EnergyInv ==
    /\ MeterInv
    /\ weather \subseteq WeatherRows
    /\ entering \in [Clerks -> EntriesOfWeather \cup {NoEntry}]
    /\ observed \in 0..MaxObserved
    /\ result # NoResult => ReadingsSound(result)
    /\ \A r \in results : /\ r.status \in {"ok", "no_weather_data", "zero_degree_days"}
                          /\ CountsAtMost(r.opening, r.closing, r.raw)

LEMMA UsableAre ==
  ASSUME MeterInv, NEW r, Usable(r)
  PROVE  /\ r.at \in MeterInstants /\ r.at \in Nat /\ r.value \in Nat
         /\ r.value = course.register[r.at]
  <1>1. MeterInstants \subseteq Nat
    BY EnergyAssumption DEF MeterInstants
  <1> QED BY <1>1, CourseAssumption DEF MeterInv, Usable

(* The latest reading before an instant. *)
LEMMA LatestReading ==
  ASSUME MeterInv, NEW limit \in Int, _latest_usable(limit) # NoRow
  PROVE  /\ Usable(_latest_usable(limit)) /\ _latest_usable(limit).at < limit
         /\ \A r : Usable(r) /\ r.at < limit => r.at <= _latest_usable(limit).at
  <1>1. PICK S : S = {r \in meterRows : r.at < limit /\ ~ r.doubtful}
    OBVIOUS
  <1>2. S # {} /\ IsFiniteSet(S) /\ \A r \in S : Usable(r) /\ r.at \in Nat
    <2>1. S # {}
      BY <1>1 DEF _latest_usable
    <2>2. IsFiniteSet(S) /\ \A r \in S : Usable(r)
      BY <1>1, FS_Subset DEF MeterInv, Usable
    <2> QED BY <2>1, <2>2, UsableAre
  <1>3. PICK f : f = [r \in S |-> r.at]
    OBVIOUS
  <1>4. \E r \in S : \A s \in S : f[s] <= f[r]
    BY <1>2, <1>3, Greatest
  <1>5. PICK latest : latest = CHOOSE r \in S : \A s \in S : s.at <= r.at
    OBVIOUS
  <1>6. latest \in S /\ \A s \in S : s.at <= latest.at
    BY <1>3, <1>4, <1>5
  <1>7. _latest_usable(limit) = latest
    BY <1>1, <1>2, <1>5 DEF _latest_usable
  <1> QED BY <1>1, <1>2, <1>6, <1>7 DEF Usable

LEMMA StartsAre ==
  ASSUME NEW a \in Int, NEW b \in Int, a <= b
  PROVE  StartOf(a) \in Int /\ StartOf(b) \in Int /\ StartOf(a) <= StartOf(b)
  <1>1. PICK n \in Int : n = b - a
    OBVIOUS
  <1>2. n >= 0 /\ b = a + n
    BY <1>1
  <1>3. PerDay \in Int /\ PerDay >= 0
    BY EnergyAssumption
  <1>4. PerDay * n >= 0
    BY <1>2, <1>3
  <1>5. PerDay * b = PerDay * a + PerDay * n
    BY <1>2, <1>3
  <1> QED BY <1>3, <1>4, <1>5 DEF StartOf

LEMMA Counted ==
  ASSUME MeterInv, NEW o, NEW c, Usable(o), Usable(c), o.at <= c.at
  PROVE  CountsAtMost(o, c, c.value - o.value)
  <1>1. /\ o.at \in MeterInstants /\ c.at \in MeterInstants
        /\ o.value = course.register[o.at] /\ c.value = course.register[c.at]
    BY UsableAre
  <1>2. /\ course.register[c.at] \in Nat /\ course.register[o.at] \in Nat
        /\ course.used[c.at] \in Nat /\ course.used[o.at] \in Nat
        /\ course.register[c.at] - course.register[o.at] <= course.used[c.at] - course.used[o.at]
    BY <1>1, CourseAssumption DEF MeterInv
  <1> QED BY <1>1, <1>2 DEF CountsAtMost, UsedBetween, NeverReset

(* The closing of a period, read with the opening or later, does not       *)
(* precede it.                                                             *)
LEMMA ClosingFollows ==
  ASSUME MeterInv, NEW start \in Int, NEW end \in Int, start <= end, NEW o, Usable(o),
         o.at < StartOf(start), Closing(end) # NoRow
  PROVE  Usable(Closing(end)) /\ o.at <= Closing(end).at
  <1>1. StartOf(start) <= StartOf(end + 1) /\ StartOf(start) \in Int /\ StartOf(end + 1) \in Int
    BY StartsAre
  <1>2. o.at \in Nat
    BY UsableAre
  <1>3. o.at < StartOf(end + 1)
    BY <1>1, <1>2
  <1> QED BY <1>1, <1>3, LatestReading DEF Closing

LEMMA PeriodCounted ==
  ASSUME MeterInv, NEW start \in Int, NEW end \in Int, start <= end
  PROVE  CountsAtMost(Opening(start), Closing(end), aggregate_energy_consumption(start, end))
  <1>1. PICK o, c : o = Opening(start) /\ c = Closing(end)
    OBVIOUS
  <1> SUFFICES ASSUME raw_consumption(o, c) # None PROVE CountsAtMost(o, c, raw_consumption(o, c))
    BY <1>1 DEF CountsAtMost, aggregate_energy_consumption
  <1>2. o # NoRow /\ c # NoRow /\ raw_consumption(o, c) = c.value - o.value
    BY DEF raw_consumption
  <1>3. Usable(o) /\ o.at < StartOf(start)
    BY <1>1, <1>2, StartsAre, LatestReading DEF Opening
  <1>4. Usable(c) /\ o.at <= c.at
    BY <1>1, <1>2, <1>3, ClosingFollows
  <1> QED BY <1>2, <1>3, <1>4, Counted

(* The closing of a day is the opening of the next. *)
LEMMA PeriodsJoin ==
  ASSUME MeterInv, NEW start \in Int, NEW mid \in Int, NEW end \in Int,
         aggregate_energy_consumption(start, mid) # None,
         aggregate_energy_consumption(mid + 1, end) # None
  PROVE  /\ aggregate_energy_consumption(start, mid) \in Int
         /\ aggregate_energy_consumption(mid + 1, end) \in Int
         /\ aggregate_energy_consumption(start, end) =
               aggregate_energy_consumption(start, mid) + aggregate_energy_consumption(mid + 1, end)
  <1>1. PICK o, m, c : o = Opening(start) /\ m = Closing(mid) /\ c = Closing(end)
    OBVIOUS
  <1>2. m = Opening(mid + 1)
    BY <1>1 DEF Opening, Closing
  <1>3. /\ o # NoRow /\ m # NoRow /\ c # NoRow
        /\ ~ (m.value < o.value) /\ ~ (c.value < m.value)
        /\ aggregate_energy_consumption(start, mid) = m.value - o.value
        /\ aggregate_energy_consumption(mid + 1, end) = c.value - m.value
    BY <1>1, <1>2 DEF aggregate_energy_consumption, raw_consumption
  <1>4. Usable(o) /\ Usable(m) /\ Usable(c)
    BY <1>1, <1>3, StartsAre, LatestReading DEF Opening, Closing
  <1>5. o.value \in Nat /\ m.value \in Nat /\ c.value \in Nat
    BY <1>4, UsableAre
  <1>6. ~ (c.value < o.value)
    BY <1>3, <1>5
  <1> QED BY <1>1, <1>3, <1>5, <1>6 DEF aggregate_energy_consumption, raw_consumption

-----------------------------------------------------------------------------
LEMMA EnergyInitInv == EnergyInit => EnergyInv
  BY FS_EmptySet, EnergyAssumption DEF EnergyInit, EnergyInv, MeterInv

LEMMA RowReceived ==
  ASSUME EnergyInv, NEW at \in MeterInstants, NEW doubtful \in BOOLEAN, ReceiveMeterRow(at, doubtful)
  PROVE  EnergyInv'
  <1>1. PICK row : row = [at |-> at, value |-> IF doubtful THEN Doubtful ELSE course.register[at],
                          doubtful |-> doubtful]
    OBVIOUS
  <1>2. /\ meterRows' = meterRows \cup {row}
        /\ UNCHANGED <<course, weather, entering, result, results, observed>>
    BY <1>1 DEF ReceiveMeterRow
  <1>3. row.at = at /\ row.doubtful = doubtful /\ (~ doubtful => row.value = course.register[at])
    BY <1>1
  <1>4. IsFiniteSet(meterRows')
    BY <1>2, FS_AddElement DEF EnergyInv, MeterInv
  <1>5. MeterInv'
    BY <1>2, <1>3, <1>4 DEF EnergyInv, MeterInv
  <1>6. \A r : Usable(r) => Usable(r)'
    BY <1>2 DEF Usable
  <1>7. result' # NoResult => ReadingsSound(result)'
    BY <1>2, <1>6 DEF EnergyInv, ReadingsSound, StartOf
  <1>8. \A r \in results' : CountsAtMost(r.opening, r.closing, r.raw)'
    BY <1>2 DEF EnergyInv, CountsAtMost, UsedBetween, NeverReset
  <1> QED BY <1>2, <1>5, <1>7, <1>8 DEF EnergyInv

(* The readings and what was counted, while only the weather is written.   *)
LEMMA ReadingsStand ==
  ASSUME EnergyInv, UNCHANGED <<course, meterRows>>
  PROVE  /\ MeterInv' /\ \A r : ReadingsSound(r) => ReadingsSound(r)'
         /\ \A r \in results : CountsAtMost(r.opening, r.closing, r.raw)'
  BY DEF EnergyInv, MeterInv, ReadingsSound, Usable, StartOf, CountsAtMost, UsedBetween, NeverReset

LEMMA WeatherLookedFor ==
  ASSUME EnergyInv, NEW c \in Clerks, NEW day \in ObservedDays, NEW t \in Temperatures,
         FindObservation(c, day, t)
  PROVE  EnergyInv'
  <1>1. PICK ids : ids = {o.id : o \in {w \in weather : w.day = day}}
    OBVIOUS
  <1>2. ids \in SUBSET Int
    BY <1>1 DEF EnergyInv, WeatherRows
  <1>3. PICK e : e = [day |-> day, temperature |-> t, id |-> observed + 1, existing |-> ids]
    OBVIOUS
  <1>4. /\ entering' = [entering EXCEPT ![c] = e] /\ observed' = observed + 1 /\ observed < MaxObserved
        /\ UNCHANGED <<course, meterRows, weather, result, results>>
    BY <1>1, <1>3 DEF FindObservation
  <1>5. observed' \in 0..MaxObserved /\ observed + 1 \in 1..MaxObserved
    BY <1>4, EnergyAssumption DEF EnergyInv
  <1>6. e \in EntriesOfWeather
    BY <1>2, <1>3, <1>5, EnergyAssumption DEF EntriesOfWeather
  <1>7. entering' \in [Clerks -> EntriesOfWeather \cup {NoEntry}]
    BY <1>4, <1>6 DEF EnergyInv
  <1> QED BY <1>4, <1>5, <1>7, ReadingsStand DEF EnergyInv

LEMMA WeatherRecorded ==
  ASSUME EnergyInv, NEW c \in Clerks, record_weather_observation(c)
  PROVE  EnergyInv'
  <1>1. PICK e \in EntriesOfWeather : e = entering[c]
    BY DEF EnergyInv, record_weather_observation
  <1>2. e.day \in 0..(Days - 1) /\ e.temperature \in Temperatures /\ e.id \in 1..MaxObserved
    BY DEF EntriesOfWeather
  <1>3. UNCHANGED <<course, meterRows, result, results, observed>>
        /\ entering' = [entering EXCEPT ![c] = NoEntry]
    BY DEF record_weather_observation
  <1>4. weather' \subseteq WeatherRows
    <2>1. PICK kept : kept = {IF o.id \in e.existing THEN [o EXCEPT !.temperature = e.temperature] ELSE o :
                                 o \in weather}
      OBVIOUS
    <2>2. PICK new : new = [id |-> e.id, day |-> e.day, temperature |-> e.temperature]
      OBVIOUS
    <2>3. weather' \in {kept, weather \cup {new}, weather}
      BY <1>1, <2>1, <2>2 DEF record_weather_observation
    <2>4. new \in WeatherRows
      BY <1>2, <2>2 DEF WeatherRows
    <2>5. \A o \in WeatherRows : [o EXCEPT !.temperature = e.temperature] \in WeatherRows
      BY <1>2 DEF WeatherRows
    <2>6. kept \subseteq WeatherRows
      BY <2>1, <2>5 DEF EnergyInv
    <2> QED BY <2>3, <2>4, <2>6 DEF EnergyInv
  <1>5. entering' \in [Clerks -> EntriesOfWeather \cup {NoEntry}]
    BY <1>3 DEF EnergyInv
  <1> QED BY <1>3, <1>4, <1>5, ReadingsStand DEF EnergyInv

(* The steps of a computation. *)
LEMMA OpeningRead ==
  ASSUME EnergyInv, NEW p \in Periods, ReadOpening(p[1], p[2])
  PROVE  EnergyInv'
  <1>1. PICK start \in 0..(Days - 1), end \in 0..(Days - 1) : start = p[1] /\ end = p[2] /\ start <= end
    BY EnergyAssumption
  <1>2. PICK r : r = [step |-> "closing", start |-> start, end |-> end, opening |-> Opening(start)]
    OBVIOUS
  <1>3. result' = r /\ UNCHANGED <<course, meterRows, weather, entering, results, observed>>
    BY <1>1, <1>2 DEF ReadOpening
  <1>4. r.step = "closing" /\ r.start = start /\ r.end = end /\ r.opening = Opening(start)
    BY <1>2
  <1>5. Opening(start) # NoRow => Usable(Opening(start)) /\ Opening(start).at < StartOf(start)
    BY StartsAre, LatestReading DEF Opening, EnergyInv
  <1>6. ReadingsSound(r)
    BY <1>1, <1>4, <1>5 DEF ReadingsSound
  <1> QED BY <1>3, <1>6, ReadingsStand DEF EnergyInv

LEMMA ClosingRead ==
  ASSUME EnergyInv, ReadClosing
  PROVE  EnergyInv'
  <1>1. PICK r : r = result /\ ReadingsSound(r) /\ r.step = "closing"
    BY DEF ReadClosing, EnergyInv
  <1>2. PICK closing : closing = Closing(r.end)
    OBVIOUS
  <1>3. PICK raw : raw = raw_consumption(r.opening, closing)
    OBVIOUS
  <1>4. PICK read : read = [step |-> "weather", start |-> r.start, end |-> r.end,
                            opening |-> r.opening, closing |-> closing, raw |-> raw]
    OBVIOUS
  <1>5. /\ result' = (IF raw = None THEN NoResult ELSE read)
        /\ UNCHANGED <<course, meterRows, weather, entering, results, observed>>
    BY <1>1, <1>2, <1>3, <1>4 DEF ReadClosing
  <1>6. ASSUME raw # None PROVE ReadingsSound(read)
    <2>1. r.opening # NoRow /\ closing # NoRow /\ raw = closing.value - r.opening.value
      BY <1>3, <1>6 DEF raw_consumption
    <2>2. /\ r.start \in Int /\ r.end \in Int /\ r.start <= r.end /\ Usable(r.opening)
          /\ r.opening.at < StartOf(r.start)
      BY <1>1, <2>1, EnergyAssumption DEF ReadingsSound
    <2>3. Usable(closing) /\ r.opening.at <= closing.at
      BY <1>2, <2>1, <2>2, ClosingFollows DEF EnergyInv
    <2>4. /\ read.step = "weather" /\ read.start = r.start /\ read.end = r.end
          /\ read.opening = r.opening /\ read.closing = closing /\ read.raw = raw
      BY <1>4
    <2> QED BY <1>1, <2>1, <2>2, <2>3, <2>4 DEF ReadingsSound
  <1> QED BY <1>5, <1>6, ReadingsStand DEF EnergyInv

LEMMA DegreeDaysRead ==
  ASSUME EnergyInv, ReadDegreeDays
  PROVE  EnergyInv'
  <1>1. PICK r : r = result /\ ReadingsSound(r) /\ r.step = "weather"
    BY DEF ReadDegreeDays, EnergyInv
  <1>2. PICK days : days = aggregate_degree_days(r.start, r.end)
    OBVIOUS
  <1>3. PICK read : read = [step |-> "insert", start |-> r.start, end |-> r.end,
                            opening |-> r.opening, closing |-> r.closing, raw |-> r.raw,
                            completeness |-> Completed(r.start, r.end),
                            analyzed |-> days.degrees, missing |-> days.missing]
    OBVIOUS
  <1>4. result' = read /\ UNCHANGED <<course, meterRows, weather, entering, results, observed>>
    BY <1>1, <1>2, <1>3 DEF ReadDegreeDays
  <1>5. /\ read.step = "insert" /\ read.start = r.start /\ read.end = r.end
        /\ read.opening = r.opening /\ read.closing = r.closing /\ read.raw = r.raw
    BY <1>3
  <1>6. ReadingsSound(read)
    BY <1>1, <1>5 DEF ReadingsSound
  <1> QED BY <1>4, <1>6, ReadingsStand DEF EnergyInv

LEMMA ResultStored ==
  ASSUME EnergyInv, compute_normalized_performance
  PROVE  EnergyInv'
  <1>1. PICK r : r = result /\ ReadingsSound(r) /\ r.step = "insert"
    BY DEF compute_normalized_performance, EnergyInv
  <1>2. PICK reference : reference = aggregate_degree_days(ReferenceStart, ReferenceEnd)
    OBVIOUS
  <1>3. PICK new : new = ResultOf(r, reference.degrees)
    OBVIOUS
  <1>4. /\ results' = results \cup {new} /\ result' = NoResult
        /\ UNCHANGED <<course, meterRows, weather, entering, observed>>
    BY <1>1, <1>2, <1>3 DEF compute_normalized_performance
  <1>5. /\ new.opening = r.opening /\ new.closing = r.closing /\ new.raw = r.raw
        /\ new.status = normalization_status(r.analyzed, reference.degrees)
    BY <1>3 DEF ResultOf
  <1>6. CountsAtMost(new.opening, new.closing, new.raw)
    BY <1>1, <1>5, Counted DEF ReadingsSound, EnergyInv
  <1>7. CountsAtMost(new.opening, new.closing, new.raw)'
    BY <1>4, <1>6 DEF CountsAtMost, UsedBetween, NeverReset
  <1>8. new.status \in {"ok", "no_weather_data", "zero_degree_days"}
    BY <1>5 DEF normalization_status
  <1> QED BY <1>4, <1>7, <1>8, ReadingsStand DEF EnergyInv

LEMMA EnergyStep == EnergyInv /\ [EnergyNext]_energyVars => EnergyInv'
  <1> SUFFICES ASSUME EnergyInv, [EnergyNext]_energyVars PROVE EnergyInv'
    OBVIOUS
  <1>1. CASE UNCHANGED energyVars
    BY <1>1, ReadingsStand DEF energyVars, EnergyInv
  <1> QED BY <1>1, RowReceived, WeatherLookedFor, WeatherRecorded, OpeningRead, ClosingRead,
             DegreeDaysRead, ResultStored DEF EnergyNext

LEMMA EnergyInvariant == EnergySpec => []EnergyInv
  BY EnergyInitInv, EnergyStep, PTL DEF EnergySpec

(* The rows of the meter and of the weather, those who enter it, what is   *)
(* being computed and what was stored.                                     *)
THEOREM EnergyTypeCorrect == EnergySpec => []EnergyTypeOK
  <1>1. EnergyInv => EnergyTypeOK
    BY DEF EnergyInv, MeterInv, EnergyTypeOK, EntriesOfWeather, WeatherRows
  <1> QED BY <1>1, EnergyInvariant, PTL

(* Whatever readings are late, doubtful or missing, and whenever the meter *)
(* is replaced, a consumption, shown or stored, is never more than what    *)
(* was used between the two readings it names, and those of two periods    *)
(* that follow one another add up (app/energy/aggregation.py).             *)
THEOREM NothingInvented == EnergySpec => [](NeverOverCounted /\ PeriodsAddUp)
  <1>1. EnergyInv => NeverOverCounted
    BY PeriodCounted, EnergyAssumption DEF EnergyInv, NeverOverCounted
  <1>2. EnergyInv => PeriodsAddUp
    <2> SUFFICES ASSUME EnergyInv PROVE PeriodsAddUp
      OBVIOUS
    <2>1. ASSUME NEW start \in 0..(Days - 1), NEW mid \in start..(Days - 2), NEW end \in (mid + 1)..(Days - 1)
          PROVE  LET first == aggregate_energy_consumption(start, mid)
                     second == aggregate_energy_consumption(mid + 1, end)
                 IN None \notin {first, second} =>
                       aggregate_energy_consumption(start, end) = first + second
      BY PeriodsJoin, EnergyAssumption DEF EnergyInv
    <2>2. ASSUME NEW date \in 1..(Days - 1)
          PROVE  LET day == aggregate_portfolio_daily_energy(date)
                 IN None \notin {day.consumption, day.previous} =>
                       aggregate_energy_consumption(date - 1, date) = day.consumption + day.previous
      <3>1. PICK day : day = aggregate_portfolio_daily_energy(date)
        OBVIOUS
      <3>2. /\ day.consumption = aggregate_energy_consumption(date, date)
            /\ day.previous = aggregate_energy_consumption(date - 1, date - 1)
        BY <3>1 DEF aggregate_portfolio_daily_energy
      <3>3. date - 1 \in 0..(Days - 1) /\ date - 1 \in (date - 1)..(Days - 2)
            /\ date \in ((date - 1) + 1)..(Days - 1) /\ (date - 1) + 1 = date
        BY EnergyAssumption
      <3>4. PICK eve \in Int : eve = date - 1
        BY <3>3
      <3>5. eve + 1 = date
        BY <3>4
      <3>6. None \notin {day.previous, day.consumption} =>
               /\ aggregate_energy_consumption(eve, date) = day.previous + day.consumption
               /\ day.previous \in Int /\ day.consumption \in Int
        BY <3>2, <3>4, <3>5, PeriodsJoin DEF EnergyInv
      <3> QED BY <3>1, <3>4, <3>6
    <2> QED BY <2>1, <2>2 DEF PeriodsAddUp
  <1> QED BY <1>1, <1>2, EnergyInvariant, PTL

(* What ResultsExplained says of the days: none has two observations, so   *)
(* that no result counts more days observed than its period has.           *)
DayOnce == \A o, q \in weather : o.day = q.day => o = q
DaysCounted == \A r \in results : r.missing \in Nat
WeatherInv ==
    /\ DayOnce /\ DaysCounted
    /\ result # NoResult /\ result.step = "insert" => result.missing \in Nat

LEMMA DaysSeen ==
  ASSUME EnergyInv, DayOnce, NEW start \in 0..(Days - 1), NEW end \in 0..(Days - 1), start <= end,
         NEW S, S = {o \in weather : o.day \in start..end}
  PROVE  IsFiniteSet(S) /\ Cardinality(S) <= end - start + 1
  <1>2. PICK f : f = [o \in S |-> o.day]
    OBVIOUS
  <1>3. start \in Int /\ end \in Int /\ \A o \in S : o.day \in start..end
    BY EnergyAssumption
  <1>4. f \in Injection(S, start..end)
    <2>1. f \in [S -> start..end]
      BY <1>2, <1>3
    <2>2. \A o, q \in S : f[o] = f[q] => o = q
      BY <1>2 DEF DayOnce
    <2> QED BY <2>1, <2>2 DEF Injection, IsInjective
  <1>5. IsFiniteSet(start..end) /\ Cardinality(start..end) = end - start + 1
    BY <1>3, FS_Interval
  <1>6. IsFiniteSet(S) /\ Cardinality(S) <= Cardinality(start..end)
    BY <1>4, <1>5, FS_Injection
  <1> QED BY <1>5, <1>6

LEMMA DaysMissing ==
  ASSUME EnergyInv, DayOnce, NEW start \in 0..(Days - 1), NEW end \in 0..(Days - 1), start <= end
  PROVE  aggregate_degree_days(start, end).missing \in Nat
  <1>1. PICK S : S = {o \in weather : o.day \in start..end}
    OBVIOUS
  <1>2. IsFiniteSet(S) /\ Cardinality(S) <= end - start + 1
    BY <1>1, DaysSeen
  <1>3. Cardinality(S) \in Nat
    BY <1>2, FS_CardinalityType
  <1>4. aggregate_degree_days(start, end).missing = end - start + 1 - Cardinality(S)
    BY <1>1 DEF aggregate_degree_days
  <1> QED BY <1>2, <1>3, <1>4, EnergyAssumption

LEMMA DayRecordedOnce ==
  ASSUME EnergyInv, DayOnce, NEW c \in Clerks, record_weather_observation(c)
  PROVE  DayOnce'
  <1>1. PICK e \in EntriesOfWeather : e = entering[c]
    BY DEF EnergyInv, record_weather_observation
  <1>2. PICK new : new = [id |-> e.id, day |-> e.day, temperature |-> e.temperature]
    OBVIOUS
  <1>3. CASE e.existing # {}
    <2>1. \A x \in weather' : \E o \in weather :
             /\ x = IF o.id \in e.existing THEN [o EXCEPT !.temperature = e.temperature] ELSE o
      BY <1>1, <1>3 DEF record_weather_observation
    <2>2. ASSUME NEW o \in weather
          PROVE  (IF o.id \in e.existing THEN [o EXCEPT !.temperature = e.temperature] ELSE o).day = o.day
      BY DEF EnergyInv, WeatherRows
    <2>3. ASSUME NEW x \in weather', NEW y \in weather', x.day = y.day PROVE x = y
      <3>1. PICK o \in weather : x = IF o.id \in e.existing THEN [o EXCEPT !.temperature = e.temperature] ELSE o
        BY <2>1
      <3>2. PICK q \in weather : y = IF q.id \in e.existing THEN [q EXCEPT !.temperature = e.temperature] ELSE q
        BY <2>1
      <3>3. x.day = o.day
        BY <2>2, <3>1
      <3>4. y.day = q.day
        BY <2>2, <3>2
      <3>5. o = q
        BY <2>3, <3>3, <3>4 DEF DayOnce
      <3> QED BY <3>1, <3>2, <3>5
    <2> QED BY <2>3 DEF DayOnce
  <1>4. CASE e.existing = {} /\ uq_weather_observations_site_date(e.day)
    <2>1. weather' = weather \cup {new} /\ new.day = e.day
      BY <1>1, <1>2, <1>4 DEF record_weather_observation
    <2> QED BY <1>4, <2>1 DEF DayOnce, uq_weather_observations_site_date
  <1>5. CASE e.existing = {} /\ ~ uq_weather_observations_site_date(e.day)
    BY <1>1, <1>5 DEF record_weather_observation, DayOnce
  <1> QED BY <1>3, <1>4, <1>5

LEMMA WeatherStep == EnergyInv /\ WeatherInv /\ [EnergyNext]_energyVars => WeatherInv'
  <1> SUFFICES ASSUME EnergyInv, WeatherInv, [EnergyNext]_energyVars PROVE WeatherInv'
    OBVIOUS
  <1>1. CASE UNCHANGED energyVars
    BY <1>1 DEF energyVars, WeatherInv, DayOnce, DaysCounted
  <1>2. ASSUME UNCHANGED <<weather, result, results>> PROVE WeatherInv'
    BY <1>2 DEF WeatherInv, DayOnce, DaysCounted
  <1>3. ASSUME NEW at \in MeterInstants, NEW d \in BOOLEAN, ReceiveMeterRow(at, d) PROVE WeatherInv'
    BY <1>2, <1>3 DEF ReceiveMeterRow
  <1>4. ASSUME NEW c \in Clerks, NEW day \in ObservedDays, NEW t \in Temperatures, FindObservation(c, day, t)
        PROVE  WeatherInv'
    BY <1>2, <1>4 DEF FindObservation
  <1>5. ASSUME NEW c \in Clerks, record_weather_observation(c) PROVE WeatherInv'
    <2>1. DayOnce'
      BY <1>5, DayRecordedOnce DEF WeatherInv
    <2>2. UNCHANGED <<result, results>>
      BY <1>5 DEF record_weather_observation
    <2> QED BY <2>1, <2>2 DEF WeatherInv, DaysCounted
  <1>6. ASSUME UNCHANGED <<weather, results>>, result' # NoResult => result'.step # "insert"
        PROVE  WeatherInv'
    BY <1>6 DEF WeatherInv, DayOnce, DaysCounted
  <1>7. ASSUME NEW p \in Periods, ReadOpening(p[1], p[2]) PROVE WeatherInv'
    BY <1>6, <1>7 DEF ReadOpening
  <1>8. ASSUME ReadClosing PROVE WeatherInv'
    BY <1>6, <1>8 DEF ReadClosing
  <1>9. ASSUME ReadDegreeDays PROVE WeatherInv'
    <2>1. PICK r : r = result /\ ReadingsSound(r)
      BY <1>9 DEF ReadDegreeDays, EnergyInv
    <2>2. PICK missing : missing = aggregate_degree_days(r.start, r.end).missing
      OBVIOUS
    <2>3. missing \in Nat
      BY <2>1, <2>2, DaysMissing DEF WeatherInv, ReadingsSound
    <2>4. result'.missing = missing /\ UNCHANGED <<weather, results>>
      BY <1>9, <2>1, <2>2 DEF ReadDegreeDays
    <2> QED BY <2>3, <2>4 DEF WeatherInv, DayOnce, DaysCounted
  <1>10. ASSUME compute_normalized_performance PROVE WeatherInv'
    <2>1. PICK reference : reference = aggregate_degree_days(ReferenceStart, ReferenceEnd).degrees
      OBVIOUS
    <2>2. PICK new : new = ResultOf(result, reference)
      OBVIOUS
    <2>3. /\ results' = results \cup {new} /\ result' = NoResult /\ weather' = weather
          /\ result # NoResult /\ result.step = "insert"
      BY <1>10, <2>1, <2>2 DEF compute_normalized_performance
    <2>4. new.missing = result.missing
      BY <2>2 DEF ResultOf
    <2> QED BY <2>3, <2>4 DEF WeatherInv, DayOnce, DaysCounted
  <1> QED BY <1>1, <1>3, <1>4, <1>5, <1>7, <1>8, <1>9, <1>10 DEF EnergyNext

(* Whoever enters the weather and whatever is corrected while a result is  *)
(* computed, no day has two observations and no result counts more days    *)
(* observed than its period has (app/energy/weather.py, normalization.py). *)
THEOREM NoDayTwice == EnergySpec => [](DayOnce /\ DaysCounted)
  <1>1. EnergyInit => WeatherInv
    BY DEF EnergyInit, WeatherInv, DayOnce, DaysCounted
  <1>2. WeatherInv => DayOnce /\ DaysCounted
    BY DEF WeatherInv
  <1> QED BY <1>1, <1>2, EnergyInvariant, WeatherStep, PTL DEF EnergySpec

-----------------------------------------------------------------------------
(* A stored result.                                                        *)

LEMMA DegreesNatural ==
  ASSUME NEW o \in WeatherRows
  PROVE  DegreesOf(o) \in Nat
  <1>1. PICK d \in Int : d = IF Kind = "heating" THEN Base - o.temperature ELSE o.temperature - Base
    <2>1. o.temperature \in Int /\ Base \in Int
      BY EnergyAssumption DEF WeatherRows
    <2> QED BY <2>1
  <1>2. DegreesOf(o) = Max({0, d})
    BY <1>1 DEF DegreesOf
  <1>3. \E x \in {0, d} : \A y \in {0, d} : x >= y
    BY <1>1
  <1>4. Max({0, d}) \in {0, d} /\ Max({0, d}) >= 0
    BY <1>3 DEF Max
  <1> QED BY <1>1, <1>2, <1>4

(* The degree days of a set of observations are the sum of their degrees.  *)
DegreesOn(S) == [o \in S |-> DegreesOf(o)]
SumOf(S) == FoldSet(LAMBDA o, s : s + DegreesOf(o), 0, S)
LEMMA SumIsTotal ==
  ASSUME NEW S, IsFiniteSet(S)
  PROVE  SumOf(S) = AddUp(DegreesOn(S), S)
  <1> DEFINE Body(g) == [s \in SUBSET S |-> IF s = {} THEN 0 ELSE g[s \ {One(s)}] + DegreesOf(One(s))]
  <1>1. SumOf(S) = (CHOOSE g : g = Body(g))[S]
    BY DEF SumOf, FoldSet, MapThenFoldSet, One
  <1>2. ASSUME NEW g PROVE Body(g) = Summed(DegreesOn(S), SUBSET S, g)
    <2>1. \A s \in SUBSET S : s # {} => DegreesOn(S)[One(s)] = DegreesOf(One(s))
      BY DEF DegreesOn, One
    <2> QED BY <2>1 DEF Summed
  <1> HIDE DEF Body
  <1>3. \E g : g = Body(g)
    BY <1>2, SummedAll
  <1>4. PICK g : g = Body(g) /\ SumOf(S) = g[S]
    BY <1>1, <1>3
  <1>5. g = Summed(DegreesOn(S), SUBSET S, g)
    BY <1>2, <1>4
  <1> QED BY <1>4, <1>5, AddUpOfSubset

LEMMA SumIsNatural ==
  ASSUME NEW S \in SUBSET WeatherRows, IsFiniteSet(S)
  PROVE  SumOf(S) \in Nat
  <1>1. PICK f : f = DegreesOn(S)
    OBVIOUS
  <1>2. \A o \in S : f[o] \in Nat
    BY <1>1, DegreesNatural DEF DegreesOn
  <1>3. AddUp(f, S) \in Nat
    BY <1>2, AddUpIsNumber
  <1> QED BY <1>1, <1>3, SumIsTotal

(* The degree days of a period are unknown when no day of it is observed,  *)
(* and then only.                                                          *)
DaysKnown(r) ==
    /\ r.analyzed \in Nat \cup {None} /\ r.missing \in Nat
    /\ (r.analyzed = None) <=> (r.missing = r.end - r.start + 1)

LEMMA DaysSummed ==
  ASSUME EnergyInv, DayOnce, NEW start \in 0..(Days - 1), NEW end \in 0..(Days - 1), start <= end
  PROVE  /\ aggregate_degree_days(start, end).degrees \in Nat \cup {None}
         /\ aggregate_degree_days(start, end).missing \in Nat
         /\ aggregate_degree_days(start, end).degrees = None
               <=> aggregate_degree_days(start, end).missing = end - start + 1
  <1>1. PICK S : S = {o \in weather : o.day \in start..end}
    OBVIOUS
  <1>2. /\ aggregate_degree_days(start, end).degrees = IF S = {} THEN None ELSE SumOf(S)
        /\ aggregate_degree_days(start, end).missing = end - start + 1 - Cardinality(S)
    BY <1>1 DEF aggregate_degree_days, SumOf
  <1>3. IsFiniteSet(S) /\ Cardinality(S) <= end - start + 1
    BY <1>1, DaysSeen
  <1>4. Cardinality(S) \in Nat /\ (Cardinality(S) = 0 <=> S = {})
    BY <1>3, FS_CardinalityType, FS_EmptySet
  <1>5. SumOf(S) \in Nat
    BY <1>1, <1>3, SumIsNatural DEF EnergyInv
  <1>6. start \in Int /\ end \in Int
    BY EnergyAssumption
  <1>7. CASE S = {}
    BY <1>2, <1>4, <1>6, <1>7
  <1>8. CASE S # {}
    BY <1>2, <1>3, <1>4, <1>5, <1>6, <1>8 DEF None
  <1> QED BY <1>7, <1>8

(* A result is normalised by what it stores, or not at all.                *)
Normalised(r) ==
    /\ r.raw \in Nat /\ r.reference \in Nat /\ r.analyzed \in Nat \ {0}
    /\ r.normalized = <<r.raw * r.reference, r.analyzed>>
Explained(r) ==
    /\ DaysKnown(r)
    /\ \/ r.status = "ok" /\ Normalised(r)
       \/ r.status # "ok" /\ r.normalized = <<None, 1>>

ExplainedInv ==
    /\ result # NoResult =>
          /\ result.step \in {"weather", "insert"} => result.raw \in Nat
          /\ result.step = "insert" => DaysKnown(result)
    /\ \A r \in results : Explained(r)

LEMMA StoredExplained ==
  ASSUME NEW r, r.raw \in Nat, DaysKnown(r), NEW reference \in Nat \cup {None}
  PROVE  Explained(ResultOf(r, reference))
  <1>1. PICK s : s = ResultOf(r, reference)
    OBVIOUS
  <1>2. /\ s.start = r.start /\ s.end = r.end /\ s.raw = r.raw
        /\ s.analyzed = r.analyzed /\ s.missing = r.missing /\ s.reference = reference
        /\ s.status = normalization_status(r.analyzed, reference)
        /\ s.normalized = IF None \in {r.analyzed, reference} THEN <<None, 1>>
                          ELSE _degree_day_ratio_v1(r.raw, r.analyzed, reference)
    BY <1>1 DEF ResultOf
  <1>3. DaysKnown(s)
    BY <1>2 DEF DaysKnown
  <1>4. CASE None \in {r.analyzed, reference}
    BY <1>1, <1>2, <1>3, <1>4 DEF Explained, normalization_status
  <1>5. ASSUME None \notin {r.analyzed, reference} PROVE r.analyzed \in Nat /\ reference \in Nat
    BY <1>5 DEF DaysKnown
  <1>6. CASE None \notin {r.analyzed, reference} /\ r.analyzed = 0
    BY <1>1, <1>2, <1>3, <1>6 DEF Explained, normalization_status, _degree_day_ratio_v1
  <1>7. CASE None \notin {r.analyzed, reference} /\ r.analyzed # 0
    <2>1. r.analyzed \in Nat \ {0} /\ reference \in Nat /\ ~ (r.analyzed <= 0)
      BY <1>5, <1>7
    <2>2. s.status = "ok" /\ s.normalized = <<r.raw * reference, r.analyzed>>
      BY <1>2, <1>7, <2>1 DEF normalization_status, _degree_day_ratio_v1
    <2>3. Normalised(s)
      BY <1>2, <2>1, <2>2 DEF Normalised
    <2> QED BY <1>1, <1>3, <2>2, <2>3 DEF Explained
  <1> QED BY <1>4, <1>6, <1>7

LEMMA ExplainedStep == EnergyInv /\ WeatherInv /\ ExplainedInv /\ [EnergyNext]_energyVars => ExplainedInv'
  <1> SUFFICES ASSUME EnergyInv, WeatherInv, ExplainedInv, [EnergyNext]_energyVars PROVE ExplainedInv'
    OBVIOUS
  <1>1. ASSUME UNCHANGED <<result, results>> PROVE ExplainedInv'
    BY <1>1 DEF ExplainedInv
  <1>2. CASE UNCHANGED energyVars
    BY <1>1, <1>2 DEF energyVars
  <1>3. ASSUME NEW at \in MeterInstants, NEW d \in BOOLEAN, ReceiveMeterRow(at, d) PROVE ExplainedInv'
    BY <1>1, <1>3 DEF ReceiveMeterRow
  <1>4. ASSUME NEW c \in Clerks, NEW day \in ObservedDays, NEW t \in Temperatures, FindObservation(c, day, t)
        PROVE  ExplainedInv'
    BY <1>1, <1>4 DEF FindObservation
  <1>5. ASSUME NEW c \in Clerks, record_weather_observation(c) PROVE ExplainedInv'
    BY <1>1, <1>5 DEF record_weather_observation
  <1>6. ASSUME NEW p \in Periods, ReadOpening(p[1], p[2]) PROVE ExplainedInv'
    <2>1. result'.step = "closing" /\ results' = results
      BY <1>6 DEF ReadOpening
    <2> QED BY <2>1 DEF ExplainedInv
  <1>7. ASSUME ReadClosing PROVE ExplainedInv'
    <2>1. PICK c, raw : c = Closing(result.end) /\ raw = raw_consumption(result.opening, c)
      OBVIOUS
    <2>2. /\ result # NoResult /\ results' = results
          /\ result' # NoResult => raw # None /\ result'.step = "weather" /\ result'.raw = raw
      BY <1>7, <2>1 DEF ReadClosing
    <2>3. PICK r : r = result /\ ReadingsSound(r)
      BY <2>2 DEF EnergyInv
    <2>4. raw # None => raw \in Nat
      <3>1. SUFFICES ASSUME raw # None PROVE raw \in Nat
        OBVIOUS
      <3>2. /\ r.opening # NoRow /\ c # NoRow
            /\ ~ (c.value < r.opening.value) /\ raw = c.value - r.opening.value
        BY <2>1, <2>3, <3>1 DEF raw_consumption
      <3>3. Usable(r.opening)
        BY <2>3, <3>2 DEF ReadingsSound
      <3>4. Usable(c)
        BY <2>1, <2>3, <3>2, StartsAre, LatestReading DEF Closing, EnergyInv, ReadingsSound
      <3>5. r.opening.value \in Nat /\ c.value \in Nat
        BY <3>3, <3>4, UsableAre DEF EnergyInv
      <3> QED BY <3>2, <3>5
    <2> QED BY <2>2, <2>4 DEF ExplainedInv
  <1>8. ASSUME ReadDegreeDays PROVE ExplainedInv'
    <2>1. PICK r : r = result /\ ReadingsSound(r) /\ r.step = "weather" /\ r.raw \in Nat
      BY <1>8 DEF ReadDegreeDays, EnergyInv, ExplainedInv
    <2>2. PICK days : days = aggregate_degree_days(r.start, r.end)
      OBVIOUS
    <2>3. /\ days.degrees \in Nat \cup {None} /\ days.missing \in Nat
          /\ days.degrees = None <=> days.missing = r.end - r.start + 1
      BY <2>1, <2>2, DaysSummed DEF WeatherInv, ReadingsSound
    <2>4. /\ result'.start = r.start /\ result'.end = r.end /\ result'.raw = r.raw
          /\ result'.analyzed = days.degrees /\ result'.missing = days.missing
          /\ results' = results
      BY <1>8, <2>1, <2>2 DEF ReadDegreeDays
    <2>5. DaysKnown(result')
      BY <2>3, <2>4 DEF DaysKnown
    <2> QED BY <2>1, <2>4, <2>5 DEF ExplainedInv
  <1>9. ASSUME compute_normalized_performance PROVE ExplainedInv'
    <2>1. PICK reference : reference = aggregate_degree_days(ReferenceStart, ReferenceEnd).degrees
      OBVIOUS
    <2>2. reference \in Nat \cup {None}
      BY <2>1, DaysSummed, EnergyAssumption DEF WeatherInv
    <2>3. PICK new : new = ResultOf(result, reference)
      OBVIOUS
    <2>4. /\ results' = results \cup {new} /\ result' = NoResult
          /\ result # NoResult /\ result.step = "insert"
      BY <1>9, <2>1, <2>3 DEF compute_normalized_performance
    <2>5. Explained(new)
      BY <2>2, <2>3, <2>4, StoredExplained DEF ExplainedInv
    <2> QED BY <2>4, <2>5 DEF ExplainedInv
  <1> QED BY <1>2, <1>3, <1>4, <1>5, <1>6, <1>7, <1>8, <1>9 DEF EnergyNext

(* Fractions with the same price keep their order when they are rounded    *)
(* down.                                                                   *)
LEMMA DivIs ==
  ASSUME NEW x \in Nat, NEW d \in Nat \ {0}
  PROVE  x \div d \in Nat /\ d * (x \div d) <= x /\ x < d * (x \div d + 1)
  OBVIOUS

LEMMA TimesGrows ==
  ASSUME NEW x \in Nat, NEW y \in Nat, NEW k \in Nat, x <= y
  PROVE  k * x <= k * y /\ k * x \in Nat /\ k * y \in Nat
  OBVIOUS

LEMMA CheaperIfLess ==
  ASSUME NEW x \in Nat, NEW a \in Nat \ {0}, NEW y \in Nat, NEW b \in Nat \ {0}, NEW price \in Nat,
         x * b < y * a
  PROVE  (x * price) \div a <= (y * price) \div b
  <1>1. PICK p \in Nat, q \in Nat : p = x * price /\ q = y * price
    OBVIOUS
  <1>2. PICK k \in Nat, l \in Nat : k = p \div a /\ l = q \div b
    BY DivIs
  <1>3. a * k <= p /\ q < b * (l + 1)
    BY <1>2, DivIs
  <1>4. p * b <= q * a
    <2>1. PICK u \in Nat, v \in Nat : u = x * b /\ v = y * a
      OBVIOUS
    <2>2. price * u <= price * v
      BY <2>1, TimesGrows
    <2>3. p * b = price * u /\ q * a = price * v
      BY <1>1, <2>1
    <2> QED BY <2>2, <2>3
  <1>5. SUFFICES ASSUME k > l PROVE FALSE
    BY <1>1, <1>2
  <1>6. b * (l + 1) <= b * k
    BY <1>5, TimesGrows
  <1>7. q < b * k
    BY <1>3, <1>6
  <1>8. q * a < (b * k) * a
    BY <1>7
  <1>9. (a * k) * b <= p * b
    BY <1>3
  <1>10. (a * k) * b = (b * k) * a
    OBVIOUS
  <1> QED BY <1>4, <1>8, <1>9, <1>10

LEMMA KnownNormalised ==
  ASSUME NEW r, Explained(r)
  PROVE  /\ (r.status = "ok") <=> Known(r)
         /\ Known(r) => Normalised(r)
  BY DEF Explained, Normalised, Known, None

LEMMA ExplainedResults == ExplainedInv => ResultsExplained /\ ReducedCostsLess
  <1> SUFFICES ASSUME ExplainedInv PROVE ResultsExplained /\ ReducedCostsLess
    OBVIOUS
  <1>1. ASSUME NEW r \in results
        PROVE  /\ r.missing >= 0
               /\ (r.analyzed = None) = (r.missing = r.end - r.start + 1)
               /\ (r.status = "ok") = Known(r)
               /\ Known(r) => r.normalized[1] * r.analyzed = r.raw * r.reference * r.normalized[2]
    <2>1. Explained(r) /\ DaysKnown(r)
      BY DEF ExplainedInv, Explained
    <2>2. (r.status = "ok") <=> Known(r)
      BY <2>1, KnownNormalised
    <2>3. (r.status = "ok") = Known(r)
      BY <2>2 DEF Known
    <2>4. Known(r) => r.normalized[1] * r.analyzed = r.raw * r.reference * r.normalized[2]
      BY <2>1, KnownNormalised DEF Normalised
    <2> QED BY <2>1, <2>3, <2>4 DEF DaysKnown
  <1>2. ASSUME NEW a \in results, NEW b \in results, NEW price \in Prices,
               compare_results(a, b).comparable, compare_results(a, b).reduced
        PROVE  estimate_energy_cost(b, price) <= estimate_energy_cost(a, price)
    <2>1. Known(a) /\ Known(b) /\ Less(b, a)
      BY <1>2 DEF compare_results
    <2>2. Normalised(a) /\ Normalised(b)
      BY <2>1, KnownNormalised DEF ExplainedInv
    <2>3. PICK x \in Nat, d \in Nat \ {0} : x = b.normalized[1] /\ d = b.normalized[2]
      BY <2>2 DEF Normalised
    <2>4. PICK y \in Nat, e \in Nat \ {0} : y = a.normalized[1] /\ e = a.normalized[2]
      BY <2>2 DEF Normalised
    <2>5. x * e < y * d
      BY <2>1, <2>3, <2>4 DEF Less
    <2>6. price \in Nat
      BY EnergyAssumption
    <2>7. (x * price) \div d <= (y * price) \div e
      BY <2>3, <2>4, <2>5, <2>6, CheaperIfLess
    <2> QED BY <2>1, <2>3, <2>4, <2>7 DEF estimate_energy_cost
  <1> QED BY <1>1, <1>2 DEF ResultsExplained, ReducedCostsLess

(* Whatever is received late, corrected or entered while a result is       *)
(* computed, what it counts is never more than what was used, it is        *)
(* explained by the days and the reference that it stores, and a period    *)
(* shown as reduced never costs more (app/energy/normalization.py,         *)
(* methods.py, comparison.py; app/economics.py).                           *)
THEOREM EnergyExplainedHolds == EnergySpec => []EnergyExplained
  <1>1. EnergyInit => WeatherInv /\ ExplainedInv
    BY DEF EnergyInit, WeatherInv, DayOnce, DaysCounted, ExplainedInv
  <1>2. EnergySpec => [](EnergyInv /\ WeatherInv /\ ExplainedInv)
    BY <1>1, EnergyInvariant, WeatherStep, ExplainedStep, PTL DEF EnergySpec
  <1>3. NeverOverCounted /\ PeriodsAddUp /\ ExplainedInv => EnergyExplained
    BY ExplainedResults DEF EnergyExplained
  <1> QED BY <1>2, <1>3, NothingInvented, PTL

-----------------------------------------------------------------------------
(* The findings of the rules.                                              *)
(*                                                                         *)
(* What is open after a reading was judged is what its evaluation found.   *)
(* What remains is that the starts that a cycling counts and the line that a *)
(* projection draws are those of its definition, whatever the order in which *)
(* the readings arrived and whatever is missing between them.              *)

(* A reading that no later one preceded, judged when nothing forbids it,   *)
(* leaves open what its evaluation found.                                  *)
DiagInv ==
    /\ DiagTypeOK /\ IsFiniteSet(readings)
    /\ \A r \in judged :
          r.flag \notin BLOCKING_FLAGS /\ <<r.point, "low_trust">> \notin open =>
             \A k \in RulesOf(r.point) :
                <<"rule", k>> \in open <=> evaluate(Rules[k], r.point, readings, r.value, r.at)

LEMMA ReadingsAre ==
  ASSUME NEW r \in Readings
  PROVE  r.point \in PointIds /\ r.at \in Nat /\ r.value \in Int
  <1>1. PICK p \in PointIds :
           r \in [point : {p}, at : Instants, value : Points[p].values, flag : Flags \cup {"none"}]
    BY DEF Readings
  <1>2. r.point = p /\ r.at \in Instants /\ r.value \in Points[p].values
    BY <1>1
  <1> QED BY <1>2, DiagAssumption DEF PointIds

(* What is open after a reading is a finding of its point or of a rule.    *)
LEMMA KeysOpen ==
  ASSUME open \subseteq Keys, NEW all, NEW r \in Readings
  PROVE  AfterMeasurement(all, r) \subseteq Keys
  <1>1. r.point \in PointIds
    BY ReadingsAre
  <1>2. {<<r.point, r.flag>>} \cap {<<r.point, f>> : f \in BLOCKING_FLAGS} \subseteq Keys
    BY <1>1 DEF Keys
  <1>3. <<r.point, "low_trust">> \in Keys
    BY <1>1 DEF Keys
  <1>4. {<<"rule", k>> : k \in {k \in RulesOf(r.point) : evaluate(Rules[k], r.point, all, r.value, r.at)}}
          \subseteq Keys
    BY DEF Keys, RulesOf
  <1> QED BY <1>2, <1>3, <1>4 DEF AfterMeasurement

LEMMA WhatIsOpen ==
  ASSUME NEW all, NEW r, NEW after, after = AfterMeasurement(all, r),
         r.flag \notin BLOCKING_FLAGS, <<r.point, "low_trust">> \notin after,
         NEW k \in RulesOf(r.point)
  PROVE  <<"rule", k>> \in after <=> evaluate(Rules[k], r.point, all, r.value, r.at)
  <1>1. PICK kept : kept =
           (((open \ {<<r.point, f>> : f \in BLOCKING_FLAGS})
                \cup ({<<r.point, r.flag>>} \cap {<<r.point, f>> : f \in BLOCKING_FLAGS}))
              \ ({<<r.point, "low_trust">>} \cup ({"rule"} \X RulesOf(r.point))))
    OBVIOUS
  <1>2. after = kept \cup {<<"rule", j>> : j \in {j \in RulesOf(r.point) :
                                                    evaluate(Rules[j], r.point, all, r.value, r.at)}}
    BY <1>1 DEF AfterMeasurement
  <1>3. <<"rule", k>> \notin kept
    BY <1>1
  <1> QED BY <1>2, <1>3

LEMMA DiagStep == DiagInv /\ [DiagNext]_diagVars => DiagInv'
  <1> SUFFICES ASSUME DiagInv, [DiagNext]_diagVars PROVE DiagInv'
    OBVIOUS
  <1>1. ASSUME NEW r \in Readings, record_measurement(r) PROVE DiagInv'
    <2>1. /\ readings' = readings \cup {r} /\ judged' = {r}
          /\ \A q \in readings : q.point = r.point => q.at # r.at
      BY <1>1 DEF record_measurement, Of
    <2>2. open' = AfterMeasurement(readings', r)
      BY <1>1 DEF record_measurement
    <2>3. open' \subseteq Keys
      BY <2>2, KeysOpen DEF DiagInv, DiagTypeOK
    <2>4. IsFiniteSet(readings') /\ Cardinality(judged') = 1
      BY <2>1, FS_AddElement, FS_Singleton DEF DiagInv
    <2>5. DiagTypeOK'
      BY <2>1, <2>3, <2>4 DEF DiagInv, DiagTypeOK
    <2>6. ASSUME r.flag \notin BLOCKING_FLAGS, <<r.point, "low_trust">> \notin open', NEW k \in RulesOf(r.point)
          PROVE  <<"rule", k>> \in open' <=> evaluate(Rules[k], r.point, readings', r.value, r.at)
      BY <2>2, <2>6, WhatIsOpen
    <2> QED BY <2>1, <2>4, <2>5, <2>6 DEF DiagInv
  <1>2. CASE UNCHANGED diagVars
    BY <1>2 DEF diagVars, DiagInv, DiagTypeOK
  <1> QED BY <1>1, <1>2 DEF DiagNext

LEMMA DiagInvariant == DiagSpec => []DiagInv
  <1>1. DiagInit => DiagInv
    BY FS_EmptySet DEF DiagInit, DiagInv, DiagTypeOK
  <1> QED BY <1>1, DiagStep, PTL DEF DiagSpec

(* The readings, those that were judged and the findings that are open.    *)
THEOREM DiagTypeCorrect == DiagSpec => []DiagTypeOK
  <1>1. DiagInv => DiagTypeOK
    BY DEF DiagInv
  <1> QED BY <1>1, DiagInvariant, PTL

-----------------------------------------------------------------------------
(* The readings of one point: one at most at an instant.                   *)
OfOnePoint(rs) ==
    /\ IsFiniteSet(rs) /\ \A r \in rs : r.at \in Nat /\ r.value \in Int
    /\ \A q, r \in rs : q.at = r.at => q = r

LEMMA NewestIsThere ==
  ASSUME NEW from, OfOnePoint(from), from # {}
  PROVE  Newest(from) \in from /\ \A t \in from : t.at <= Newest(from).at
  <1>1. LatestSample(from) \in from /\ \A t \in from : t.at <= LatestSample(from).at
    BY LatestIsThere DEF OfOnePoint
  <1> QED BY <1>1 DEF Newest

LEMMA OldestIsThere ==
  ASSUME NEW from, OfOnePoint(from), from # {}
  PROVE  Oldest(from) \in from /\ \A t \in from : t.at >= Oldest(from).at
  <1>1. PICK ats : ats = {r.at : r \in from}
    OBVIOUS
  <1>2. ats \subseteq Nat /\ ats # {}
    BY <1>1 DEF OfOnePoint
  <1>3. PICK least \in ats : \A n \in ats : ~ (<<n, least>> \in OpToRel(<, Nat))
    BY <1>2, NatLessThanWellFounded, WFMin
  <1>4. PICK s \in from : s.at = least
    BY <1>1
  <1>5. \A t \in from : t.at >= s.at
    <2> SUFFICES ASSUME NEW t \in from PROVE t.at >= s.at
      OBVIOUS
    <2>1. t.at \in ats /\ t.at \in Nat /\ s.at \in Nat
      BY <1>1, <1>2
    <2>2. ~ (t.at < s.at)
      BY <1>3, <1>4, <2>1 DEF OpToRel
    <2> QED BY <2>1, <2>2
  <1> QED BY <1>5 DEF Oldest

LEMMA SomeOf ==
  ASSUME NEW rs, OfOnePoint(rs), NEW some \in SUBSET rs
  PROVE  OfOnePoint(some)
  BY FS_Subset DEF OfOnePoint

(* What a rule reads is the end of its window, and all of it when the      *)
(* window holds no more than the limit.                                    *)
LEMMA LatestRead ==
  ASSUME NEW rs, OfOnePoint(rs), NEW from \in Int,
         NEW since, since = Since(rs, from), NEW history, history = list_measurements(rs, from)
  PROVE  /\ OfOnePoint(since) /\ OfOnePoint(history) /\ history \subseteq since
         /\ \A h \in history, q \in since : q.at > h.at => q \in history
         /\ \A r \in since : (\A q \in since : q.at <= r.at) => r \in history
         /\ Cardinality(since) <= HistoryLimit => history = since
  <1> DEFINE Later(r) == {q \in since : q.at > r.at}
  <1>1. OfOnePoint(since) /\ OfOnePoint(history) /\ history \subseteq since
    BY SomeOf DEF Since, list_measurements, NewestFew
  <1>2. \A r \in since : r \in history <=> Cardinality(Later(r)) < HistoryLimit
    BY DEF list_measurements, NewestFew
  <1>3. \A r \in since : /\ IsFiniteSet(Later(r)) /\ Cardinality(Later(r)) \in Nat
                         /\ Cardinality(Later(r)) < Cardinality(since)
    <2> SUFFICES ASSUME NEW r \in since
                 PROVE  /\ IsFiniteSet(Later(r)) /\ Cardinality(Later(r)) \in Nat
                        /\ Cardinality(Later(r)) < Cardinality(since)
      OBVIOUS
    <2>1. Later(r) \in SUBSET since /\ r \notin Later(r) /\ IsFiniteSet(since)
      BY <1>1 DEF OfOnePoint
    <2>2. /\ IsFiniteSet(Later(r)) /\ Cardinality(Later(r)) <= Cardinality(since)
          /\ Cardinality(since) = Cardinality(Later(r)) => since = Later(r)
      BY <2>1, FS_Subset
    <2> QED BY <2>1, <2>2, FS_CardinalityType
  <1>4. HistoryLimit \in Nat /\ HistoryLimit > 0
    BY DiagAssumption
  <1>5. ASSUME NEW h \in history, NEW q \in since, q.at > h.at PROVE q \in history
    <2>1. h \in since /\ h.at \in Nat /\ q.at \in Nat
      BY <1>1 DEF OfOnePoint
    <2>4. Cardinality(Later(h)) < HistoryLimit
      BY <1>2, <2>1
    <2>2. Later(q) \in SUBSET Later(h)
      BY <1>1, <1>5, <2>1 DEF OfOnePoint
    <2>3. Cardinality(Later(q)) <= Cardinality(Later(h))
      BY <1>3, <2>1, <2>2, FS_Subset
    <2>5. Cardinality(Later(q)) \in Nat /\ Cardinality(Later(h)) \in Nat
      BY <1>3, <2>1
    <2>6. Cardinality(Later(q)) < HistoryLimit
      BY <1>4, <2>3, <2>4, <2>5, SMT
    <2> QED BY <1>2, <2>6
  <1>6. ASSUME NEW r \in since, \A q \in since : q.at <= r.at PROVE r \in history
    <2>1. Later(r) = {}
      BY <1>1, <1>6 DEF OfOnePoint
    <2>2. Cardinality(Later(r)) = 0
      BY <2>1, FS_EmptySet
    <2> QED BY <1>2, <1>4, <2>2
  <1>7. ASSUME Cardinality(since) <= HistoryLimit PROVE history = since
    <2>1. Cardinality(since) \in Nat
      BY <1>1, FS_CardinalityType DEF OfOnePoint
    <2>2. ASSUME NEW r \in since PROVE r \in history
      <3>1. Cardinality(Later(r)) < HistoryLimit
        BY <1>3, <1>4, <1>7, <2>1
      <3> QED BY <1>2, <3>1
    <2> QED BY <1>1, <2>2
  <1> QED BY <1>1, <1>5, <1>6, <1>7

(* The queries find the reading just before.                               *)
LEMMA StartsAsDefined ==
  ASSUME NEW rs, OfOnePoint(rs), NEW from \in Int, NEW to \in Int, \A r \in rs : r.at <= to,
         list_measurements(rs, from) = Since(rs, from)
  PROVE  Starts(rs, from) = StartsBetween(rs, from, to)
  <1> SUFFICES ASSUME NEW r \in rs, r.at >= from, r.value = 1
               PROVE  r \in Starts(rs, from) <=> r \in StartsBetween(rs, from, to)
    BY DEF Starts, StartsBetween, Since
  <1>1. PICK preceding : preceding = {q \in rs : q.at < r.at}
    OBVIOUS
  <1>2. PICK earlier : earlier = Between(rs, from, r.at)
    OBVIOUS
  <1>3. PICK older : older = {q \in rs : q.at < from}
    OBVIOUS
  <1>4. preceding = earlier \cup older /\ \A e \in earlier, o \in older : o.at < e.at
    BY <1>1, <1>2, <1>3 DEF Between, OfOnePoint
  <1>5. OfOnePoint(preceding) /\ OfOnePoint(earlier) /\ OfOnePoint(older)
    BY <1>1, <1>2, <1>3, SomeOf DEF Between
  <1>6. r \in Starts(rs, from) <=> IF earlier = {} THEN ~ (older # {} /\ Newest(older).value = 1)
                                   ELSE Newest(earlier).value # 1
    <2>1. {q \in Since(rs, from) : q.at < r.at} = earlier
      BY <1>2 DEF Since, Between
    <2> QED BY <1>3, <2>1 DEF Starts, Since, Seed
  <1>7. r \in StartsBetween(rs, from, to) <=>
           \A q \in preceding : (\A s \in preceding : s.at <= q.at) => q.value # 1
    <2>1. r.at <= to /\ \A s \in rs : ~ (s.at >= r.at) <=> s \in preceding
      BY <1>1 DEF OfOnePoint
    <2> QED BY <1>1, <2>1 DEF StartsBetween
  <1>8. CASE preceding = {}
    BY <1>4, <1>6, <1>7, <1>8
  <1>9. CASE preceding # {}
    <2>1. PICK last : last = IF earlier = {} THEN Newest(older) ELSE Newest(earlier)
      OBVIOUS
    <2>2. last \in preceding /\ \A s \in preceding : s.at <= last.at
      <3>1. CASE earlier = {}
        BY <1>4, <1>5, <1>9, <2>1, <3>1, NewestIsThere
      <3>2. CASE earlier # {}
        <4>1. last \in earlier /\ \A s \in earlier : s.at <= last.at
          BY <1>5, <2>1, <3>2, NewestIsThere
        <4>2. \A s \in older : s.at <= last.at
          BY <1>4, <1>5, <4>1 DEF OfOnePoint
        <4> QED BY <1>4, <4>1, <4>2
      <3> QED BY <3>1, <3>2
    <2>3. \A q \in preceding : (\A s \in preceding : s.at <= q.at) <=> q = last
      <3> SUFFICES ASSUME NEW q \in preceding, \A s \in preceding : s.at <= q.at PROVE q = last
        BY <2>2
      <3>1. q.at <= last.at /\ last.at <= q.at /\ q.at \in Nat /\ last.at \in Nat
        BY <1>5, <2>2 DEF OfOnePoint
      <3> QED BY <1>5, <2>2, <3>1 DEF OfOnePoint
    <2>4. r \in StartsBetween(rs, from, to) <=> last.value # 1
      BY <1>7, <2>2, <2>3
    <2>5. r \in Starts(rs, from) <=> last.value # 1
      BY <1>4, <1>6, <1>9, <2>1
    <2> QED BY <2>4, <2>5
  <1> QED BY <1>8, <1>9

(* A start that is counted where the history was cut off began earlier in  *)
(* the window: no more starts are counted than there are.                  *)
LEMMA StartsNotInvented ==
  ASSUME NEW rs, OfOnePoint(rs), NEW from \in Int, NEW to \in Int, \A r \in rs : r.at <= to
  PROVE  /\ Cardinality(Starts(rs, from)) \in Nat
         /\ Cardinality(StartsBetween(rs, from, to)) \in Nat
         /\ Cardinality(Starts(rs, from)) <= Cardinality(StartsBetween(rs, from, to))
  <1>1. PICK since, history : since = Since(rs, from) /\ history = list_measurements(rs, from)
    OBVIOUS
  <1>2. PICK counted, real : counted = Starts(rs, from) /\ real = StartsBetween(rs, from, to)
    OBVIOUS
  <1>3. /\ OfOnePoint(history) /\ history \subseteq since /\ since \subseteq rs
        /\ \A h \in history, q \in since : q.at > h.at => q \in history
    <2>1. since \subseteq rs
      BY <1>1 DEF Since
    <2> QED BY <1>1, <2>1, LatestRead
  <1>4. /\ \A q \in rs : q.at \in Nat /\ q.at <= to /\ (q \in since <=> q.at >= from)
        /\ \A q, s \in rs : q.at = s.at => q = s
    BY <1>1 DEF OfOnePoint, Since
  <1>5. /\ counted \subseteq history
        /\ \A a \in history : a \in counted <=>
              /\ a.value = 1
              /\ IF {q \in history : q.at < a.at} = {} THEN ~Seed(rs, from)
                 ELSE Newest({q \in history : q.at < a.at}).value # 1
    BY <1>1, <1>2 DEF Starts
  <1>6. \A a \in since : a \in real <=>
           /\ a.value = 1
           /\ \A q \in rs : q.at < a.at /\ (\A s \in rs : s.at <= q.at \/ s.at >= a.at) => q.value # 1
    <2>1. real = {a \in rs : /\ from <= a.at /\ a.at <= to /\ a.value = 1
                             /\ \A q \in rs : q.at < a.at /\ (\A s \in rs : s.at <= q.at \/ s.at >= a.at)
                                                => q.value # 1}
      BY <1>2, Zenon DEF StartsBetween
    <2>2. \A a \in since : a \in rs /\ from <= a.at /\ a.at <= to
      BY <1>3, <1>4
    <2> QED BY <2>1, <2>2
  <1>7. /\ IsFiniteSet(counted) /\ IsFiniteSet(real)
        /\ Cardinality(counted) \in Nat /\ Cardinality(real) \in Nat
    <2>1. real \in SUBSET rs /\ counted \in SUBSET rs /\ IsFiniteSet(rs)
      BY <1>2, <1>3, <1>5 DEF StartsBetween, OfOnePoint
    <2> QED BY <2>1, FS_Subset, FS_CardinalityType
  <1>8. ASSUME NEW a \in counted, {q \in history : q.at < a.at} # {} PROVE a \in real
    <2>1. PICK earlier : earlier = {q \in history : q.at < a.at}
      OBVIOUS
    <2>2. PICK last : last = Newest(earlier)
      OBVIOUS
    <2>3. OfOnePoint(earlier)
      BY <1>3, <2>1, SomeOf
    <2>4. last \in earlier /\ \A t \in earlier : t.at <= last.at
      BY <1>8, <2>1, <2>2, <2>3, NewestIsThere
    <2>5. a \in since /\ a.value = 1 /\ last.value # 1 /\ last \in history /\ last.at < a.at
      BY <1>3, <1>5, <1>8, <2>1, <2>2, <2>4
    <2>6. ASSUME NEW q \in rs, q.at < a.at, \A s \in rs : s.at <= q.at \/ s.at >= a.at
          PROVE  q = last
      <3>1. last \in rs /\ last.at >= from /\ last.at \in Nat /\ q.at \in Nat /\ a.at \in Nat
        BY <1>3, <1>4, <2>5
      <3>2. last.at <= q.at
        BY <2>5, <2>6, <3>1
      <3>3. q.at > last.at => q \in earlier
        BY <1>3, <1>4, <2>1, <2>5, <2>6, <3>1
      <3> QED BY <1>4, <2>4, <3>1, <3>2, <3>3
    <2> QED BY <1>6, <2>5, <2>6
  <1>9. CASE \A a \in counted : {q \in history : q.at < a.at} # {}
    BY <1>2, <1>7, <1>8, <1>9, FS_Subset
  <1>10. CASE \E a \in counted : {q \in history : q.at < a.at} = {}
    <2>1. PICK o \in counted : {q \in history : q.at < o.at} = {}
      BY <1>10
    <2>2. o \in history /\ o \in since /\ o \in rs /\ o.value = 1 /\ ~Seed(rs, from)
      BY <1>3, <1>5, <2>1
    <2>3. \A a \in counted \ {o} : a.at > o.at /\ a \in real
      <3> SUFFICES ASSUME NEW a \in counted \ {o} PROVE a.at > o.at /\ a \in real
        OBVIOUS
      <3>1. a \in history /\ a \in rs /\ ~ (a.at < o.at)
        BY <1>3, <1>5, <2>1
      <3>2. a.at > o.at
        BY <1>4, <2>2, <3>1
      <3> QED BY <1>8, <2>2, <3>2
    <2>4. PICK run : run = {q \in since : /\ q.at <= o.at
                                         /\ \A t \in rs : q.at <= t.at /\ t.at <= o.at => t.value = 1}
      OBVIOUS
    <2>5. o \in run /\ OfOnePoint(run)
      <3>1. \A t \in rs : o.at <= t.at /\ t.at <= o.at => t = o
        BY <1>4, <2>2
      <3>2. o.at <= o.at
        BY <1>4, <2>2
      <3>3. run \in SUBSET rs
        BY <1>3, <2>4
      <3> QED BY <2>2, <2>4, <3>1, <3>2, <3>3, SomeOf
    <2>6. PICK b : b = Oldest(run)
      OBVIOUS
    <2>7. b \in run /\ \A t \in run : t.at >= b.at
      BY <2>5, <2>6, OldestIsThere
    <2>8. /\ b \in since /\ b \in rs /\ b.at \in Nat /\ b.at <= o.at /\ b.at >= from
          /\ \A t \in rs : b.at <= t.at /\ t.at <= o.at => t.value = 1
      BY <1>3, <1>4, <2>4, <2>7
    <2>9. b.value = 1
      BY <2>8
    <2>10. ASSUME NEW q \in rs, q.at < b.at, \A s \in rs : s.at <= q.at \/ s.at >= b.at
           PROVE  q.value # 1
      <3>1. q.at \in Nat /\ o.at \in Nat
        BY <1>4, <2>2
      <3>2. CASE q.at >= from
        <4> SUFFICES ASSUME q.value = 1 PROVE FALSE
          OBVIOUS
        <4>1. \A t \in rs : q.at <= t.at /\ t.at <= o.at => t.value = 1
          <5> SUFFICES ASSUME NEW t \in rs, q.at <= t.at, t.at <= o.at PROVE t.value = 1
            OBVIOUS
          <5>1. t.at = q.at \/ t.at >= b.at
            BY <1>4, <2>10, <3>1
          <5> QED BY <1>4, <2>8, <5>1
        <4>2. q \in run
          BY <1>4, <2>4, <2>8, <2>10, <3>1, <3>2, <4>1
        <4> QED BY <2>7, <2>8, <2>10, <3>1, <4>2
      <3>3. CASE q.at < from
        <4>1. PICK prior : prior = {s \in rs : s.at < from}
          OBVIOUS
        <4>2. OfOnePoint(prior) /\ q \in prior
          BY <3>3, <4>1, SomeOf
        <4>3. Newest(prior) \in prior /\ \A s \in prior : s.at <= Newest(prior).at
          BY <4>2, NewestIsThere
        <4>4. PICK last : last = Newest(prior)
          OBVIOUS
        <4>5. last \in rs /\ last.at < from /\ last.at >= q.at /\ last.at \in Nat
          BY <1>4, <4>1, <4>2, <4>3, <4>4
        <4>6. last.at <= q.at
          BY <2>8, <2>10, <4>5
        <4>7. last = q
          BY <1>4, <3>1, <4>5, <4>6
        <4> QED BY <2>2, <4>1, <4>2, <4>4, <4>7 DEF Seed
      <3> QED BY <3>1, <3>2, <3>3
    <2>11. b \in real
      BY <1>6, <2>8, <2>9, <2>10
    <2>12. b \notin counted \ {o}
      BY <1>4, <2>2, <2>3, <2>8
    <2>13. PICK others : others = counted \ {o}
      OBVIOUS
    <2>14. IsFiniteSet(others) /\ Cardinality(others) = Cardinality(counted) - 1
      BY <1>7, <2>13, FS_RemoveElement
    <2>15. Cardinality(others \cup {b}) = Cardinality(others) + 1
      BY <2>12, <2>13, <2>14, FS_AddElement
    <2>16. others \cup {b} \in SUBSET real
      BY <2>3, <2>11, <2>13
    <2>17. Cardinality(others \cup {b}) <= Cardinality(real)
      BY <1>7, <2>16, FS_Subset
    <2> QED BY <1>2, <1>7, <2>14, <2>15, <2>17
  <1> QED BY <1>9, <1>10

(* The line from the first reading of the window, in integers.             *)
LEMMA LineReaches ==
  ASSUME NEW t \in Int, NEW h \in Int, NEW v \in Int, NEW f \in Int, NEW d \in Int
  PROVE  /\ (t - v) * d <= h * (v - f) <=> v * d + (v - f) * h >= t * d
         /\ (v - t) * d <= h * (f - v) <=> v * d + (v - f) * h <= t * d
  <1>1. (t - v) * d = t * d - v * d
    OBVIOUS
  <1>2. (v - t) * d = v * d - t * d
    OBVIOUS
  <1>3. h * (v - f) = (v - f) * h
    OBVIOUS
  <1>4. h * (f - v) = - ((v - f) * h)
    OBVIOUS
  <1>5. PICK a \in Int, b \in Int, c \in Int : a = t * d /\ b = v * d /\ c = (v - f) * h
    OBVIOUS
  <1> QED BY <1>1, <1>2, <1>3, <1>4, <1>5

LEMMA TrendAsDefined ==
  ASSUME NEW rs, OfOnePoint(rs), NEW r \in rs, \A q \in rs : q.at <= r.at,
         NEW k \in RuleIds, Rules[k].kind = "trend_projection"
  PROVE  /\ trend_projection(Rules[k], rs, r.value, r.at) => Supported(Rules[k], rs, r)
         /\ ReadWhole(Rules[k], rs, r) =>
               (trend_projection(Rules[k], rs, r.value, r.at) <=> Means(Rules[k], rs, r))
  <1>1. PICK rule : rule = Rules[k]
    OBVIOUS
  <1>2. /\ rule.kind = "trend_projection" /\ rule.window \in Nat
        /\ rule.threshold \in Int /\ rule.horizon \in Int
    BY <1>1, DiagAssumption DEF RuleIds
  <1>3. PICK from \in Int : from = r.at - rule.window
    BY <1>2 DEF OfOnePoint
  <1>4. r.at \in Nat /\ r.value \in Int /\ from <= r.at
    BY <1>2, <1>3 DEF OfOnePoint
  <1>5. PICK since : since = Since(rs, from)
    OBVIOUS
  <1>6. PICK between : between = Between(rs, from, r.at)
    OBVIOUS
  <1>7. /\ OfOnePoint(since) /\ since # {} /\ between \subseteq since
        /\ \A q \in since : q \in between <=> q.at < r.at
    BY <1>4, <1>5, <1>6, SomeOf DEF Since, Between
  <1>8. PICK history, first : history = list_measurements(rs, from) /\ first = Oldest(history)
    OBVIOUS
  <1>9. /\ first \in history /\ first \in since /\ first.at \in Nat /\ first.value \in Int
        /\ \A q \in history : q.at >= first.at
        /\ \A q \in since : q.at \in Nat
        /\ ReadWhole(rule, rs, r) => history = since
    <2>1. /\ OfOnePoint(history) /\ history \subseteq since /\ r \in history
          /\ Cardinality(since) <= HistoryLimit => history = since
      <3>1. /\ OfOnePoint(history) /\ history \subseteq since
            /\ (\A q \in since : q.at <= r.at) /\ r \in since => r \in history
            /\ Cardinality(since) <= HistoryLimit => history = since
        BY <1>3, <1>5, <1>8, LatestRead
      <3>2. r \in since /\ \A q \in since : q.at <= r.at
        BY <1>4, <1>5 DEF Since
      <3> QED BY <3>1, <3>2
    <2>2. first \in history /\ \A q \in history : q.at >= first.at
      BY <1>8, <2>1, OldestIsThere
    <2> QED BY <1>3, <1>5, <1>7, <2>1, <2>2 DEF ReadWhole, OfOnePoint
  <1>10. first.at < r.at => (trend_projection(rule, rs, r.value, r.at) <=> Reaches(rule, first, r.value, r.at))
    <2>1. PICK t \in Int, h \in Int, v \in Int, f \in Int, d \in Int :
             t = rule.threshold /\ h = rule.horizon /\ v = r.value /\ f = first.value /\ d = r.at - first.at
      BY <1>2, <1>4, <1>9
    <2>2. CASE rule.operator = ">"
      <3>1. Reaches(rule, first, r.value, r.at) <=> v <= t /\ v > f /\ v * d + (v - f) * h >= t * d
        BY <2>1, <2>2 DEF Reaches
      <3>2. first.at < r.at => (trend_projection(rule, rs, r.value, r.at)
               <=> ~ (v > t) /\ v - f > 0 /\ 0 <= t - v /\ (t - v) * d <= h * (v - f))
        BY <1>3, <1>8, <2>1, <2>2 DEF trend_projection, Beyond
      <3> QED BY <3>1, <3>2, LineReaches
    <2>3. CASE rule.operator # ">"
      <3>1. Reaches(rule, first, r.value, r.at) <=> v >= t /\ v < f /\ v * d + (v - f) * h <= t * d
        BY <2>1, <2>3 DEF Reaches
      <3>2. first.at < r.at => (trend_projection(rule, rs, r.value, r.at)
               <=> ~ (v < t) /\ f - v > 0 /\ 0 <= v - t /\ (v - t) * d <= h * (f - v))
        BY <1>3, <1>8, <2>1, <2>3 DEF trend_projection, Beyond
      <3> QED BY <3>1, <3>2, LineReaches
    <2> QED BY <2>2, <2>3
  <1>11. trend_projection(rule, rs, r.value, r.at) => first.at < r.at
    BY <1>3, <1>8 DEF trend_projection
  <1>12. first.at < r.at => first \in between
    BY <1>7, <1>9
  <1>13. trend_projection(rule, rs, r.value, r.at) => Supported(rule, rs, r)
    BY <1>2, <1>3, <1>6, <1>10, <1>11, <1>12 DEF Supported
  <1>14. ASSUME ReadWhole(rule, rs, r)
         PROVE  trend_projection(rule, rs, r.value, r.at) <=> Means(rule, rs, r)
    <2>1. history = since /\ \A q \in since : q.at >= first.at
      BY <1>9, <1>14
    <2>2. Means(rule, rs, r) <=> \E f \in between : /\ \A q \in between : q.at >= f.at
                                                     /\ Reaches(rule, f, r.value, r.at)
      BY <1>2, <1>3, <1>6 DEF Means
    <2>3. \A f \in between : (\A q \in between : q.at >= f.at) <=> f = first
      <3> SUFFICES ASSUME NEW f \in between
                   PROVE  (\A q \in between : q.at >= f.at) <=> f = first
        OBVIOUS
      <3>1. f.at < r.at /\ f.at >= first.at /\ first \in between /\ f.at \in Nat
        BY <1>4, <1>7, <1>9, <2>1
      <3>2. f.at = first.at => f = first
        BY <1>7, <1>9 DEF OfOnePoint
      <3> QED BY <1>7, <1>9, <2>1, <3>1, <3>2
    <2>4. first \in between <=> first.at < r.at
      BY <1>7, <1>9
    <2> QED BY <1>10, <1>11, <2>2, <2>3, <2>4
  <1> QED BY <1>1, <1>13, <1>14

(* Once the last reading of a point has been judged, a finding of cycling  *)
(* or of a projection that is open is supported by the readings of its     *)
(* window, and it is open exactly when the definition says so while the    *)
(* window holds no more readings than the rule reads of it, for any        *)
(* points, rules, limit and order of arrival (app/rules.py).               *)
THEOREM DiagnosisAsDefinedHolds == DiagSpec => []DiagnosisAsDefined
  <1>1. DiagInv => DiagnosisAsDefined
    <2> SUFFICES ASSUME DiagInv, NEW r \in judged, JudgedLast(r)
                 PROVE  \A k \in RulesOf(r.point) \cap Defined :
                           /\ <<"rule", k>> \in open => Supported(Rules[k], Of(readings, r.point), r)
                           /\ ReadWhole(Rules[k], Of(readings, r.point), r) =>
                                 (<<"rule", k>> \in open <=> Means(Rules[k], Of(readings, r.point), r))
      BY Zenon DEF DiagnosisAsDefined
    <2> TAKE k \in RulesOf(r.point) \cap Defined
    <2>0. /\ \A q \in Of(readings, r.point) : q.at <= r.at
          /\ r.flag \notin BLOCKING_FLAGS
          /\ <<r.point, "low_trust">> \notin open
      BY DEF JudgedLast
    <2>1. <<"rule", k>> \in open <=> evaluate(Rules[k], r.point, readings, r.value, r.at)
      BY <2>0 DEF DiagInv
    <2>2. PICK rs : rs = Of(readings, r.point)
      OBVIOUS
    <2>3. OfOnePoint(rs) /\ r \in rs /\ k \in RuleIds
      <3>1. rs \subseteq readings /\ IsFiniteSet(rs) /\ r \in rs
        BY <2>2, FS_Subset DEF Of, DiagInv, DiagTypeOK
      <3>2. \A q \in rs : q \in Readings /\ q.point = r.point
        BY <2>2, <3>1 DEF Of, DiagInv, DiagTypeOK
      <3>3. \A q, s \in rs : q.at = s.at => q = s
        BY <3>1, <3>2 DEF DiagInv, DiagTypeOK
      <3> QED BY <3>1, <3>2, <3>3, ReadingsAre DEF OfOnePoint, RulesOf
    <2>6. \A q \in rs : q.at <= r.at
      BY <2>0, <2>2
    <2>4. CASE Rules[k].kind = "short_cycling"
      <3>1. Rules[k].window \in Nat /\ Rules[k].max_starts \in Nat /\ r.at \in Nat
        BY <2>3, <2>4, DiagAssumption DEF RuleIds, OfOnePoint
      <3>2. PICK from \in Int : from = r.at - Rules[k].window
        BY <3>1
      <3>3. <<"rule", k>> \in open <=> Cardinality(Starts(rs, from)) > Rules[k].max_starts
        BY <2>1, <2>2, <2>4, <3>2 DEF evaluate, short_cycling
      <3>4. /\ Means(Rules[k], rs, r) <=> Cardinality(StartsBetween(rs, from, r.at)) > Rules[k].max_starts
            /\ Supported(Rules[k], rs, r) <=> Means(Rules[k], rs, r)
        BY <2>4, <3>2 DEF Means, Supported
      <3>5. /\ Cardinality(Starts(rs, from)) \in Nat
            /\ Cardinality(StartsBetween(rs, from, r.at)) \in Nat
            /\ Cardinality(Starts(rs, from)) <= Cardinality(StartsBetween(rs, from, r.at))
        <4>1. PICK to \in Int : to = r.at
          BY <3>1
        <4>2. \A q \in rs : q.at <= to
          BY <2>6, <4>1
        <4>3. /\ Cardinality(Starts(rs, from)) \in Nat
              /\ Cardinality(StartsBetween(rs, from, to)) \in Nat
              /\ Cardinality(Starts(rs, from)) <= Cardinality(StartsBetween(rs, from, to))
          BY <2>3, <4>2, StartsNotInvented
        <4> QED BY <4>1, <4>3
      <3>6. ReadWhole(Rules[k], rs, r) => Starts(rs, from) = StartsBetween(rs, from, r.at)
        <4> SUFFICES ASSUME ReadWhole(Rules[k], rs, r)
                     PROVE  Starts(rs, from) = StartsBetween(rs, from, r.at)
          OBVIOUS
        <4>1. list_measurements(rs, from) = Since(rs, from)
          BY <2>3, <3>2, LatestRead DEF ReadWhole
        <4> QED BY <2>3, <2>6, <3>1, <4>1, StartsAsDefined
      <3>7. /\ <<"rule", k>> \in open => Supported(Rules[k], rs, r)
            /\ ReadWhole(Rules[k], rs, r) => (<<"rule", k>> \in open <=> Means(Rules[k], rs, r))
        BY <3>1, <3>3, <3>4, <3>5, <3>6
      <3> QED BY <2>2, <3>7
    <2>5. CASE Rules[k].kind = "trend_projection"
      <3>1. /\ trend_projection(Rules[k], rs, r.value, r.at) => Supported(Rules[k], rs, r)
            /\ ReadWhole(Rules[k], rs, r) =>
                  (trend_projection(Rules[k], rs, r.value, r.at) <=> Means(Rules[k], rs, r))
        BY <2>6, <2>3, <2>5, TrendAsDefined
      <3> QED BY <2>1, <2>2, <2>5, <3>1 DEF evaluate
    <2>7. Rules[k].kind = "short_cycling" \/ Rules[k].kind = "trend_projection"
      BY DEF Defined
    <2> QED BY <2>4, <2>5, <2>7
  <1> QED BY <1>1, DiagInvariant, PTL

-----------------------------------------------------------------------------
(* The field test of a meter.                                              *)
(*                                                                         *)
(* Only its types: the verdict sorts the readings and folds over them.     *)

(* Nothing is read while the gateway or the daemon is cut, and a cut that  *)
(* may end began an interval ago at least.                                 *)
FieldInv ==
    /\ due \in Nat /\ cycles \in 0..MaxCycles
    /\ \A s \in power \cup energy \cup waiting : s.at \in Nat /\ s.at <= due + 1
    /\ \A w \in cuts : w.start < w.end
    /\ IsFiniteSet(cuts) /\ Cardinality(cuts) <= MaxCuts
    /\ IsFiniteSet(faults) /\ Cardinality(faults) <= MaxFaulty
    /\ cut # NoCut =>
          /\ cut.kind \in {"api"} \cup Silent /\ cut.start \in Int /\ cut.since \in Nat
          /\ Cardinality(cuts) < MaxCuts
          /\ cut.start <= due - Half
          /\ cycles > cut.since =>
                /\ cut.start < due - Half /\ due >= Every
                /\ cut.kind = "daemon" =>
                      \A s \in power \cup energy \cup waiting : s.at <= due - Every + 1
          /\ cut.kind = "daemon" =>
                      \A s \in power \cup energy \cup waiting : s.at <= due + 1

LEMMA Intervals == /\ Every \in Nat /\ Every >= 2 /\ Half \in Nat /\ 2 * Half = Every
                   /\ \A d \in Delays : d \in Nat /\ d <= Half
  <1>1. PICK n \in Nat : n = Every \div 2 /\ Every = 2 * n
    BY FieldAssumption
  <1> QED BY <1>1, FieldAssumption DEF Half

LEMMA FieldInitInv == FieldInit => FieldInv
  BY Intervals, FieldAssumption, FS_EmptySet DEF FieldInit, FieldInv

LEMMA FaultAdded ==
  ASSUME FieldInv, NEW kind, NEW at, Faulty(kind, at)
  PROVE  IsFiniteSet(faults') /\ Cardinality(faults') <= MaxFaulty
  <1>1. PICK f : f = [kind |-> kind, at |-> at]
    OBVIOUS
  <1>2. faults' = faults \cup {f} /\ Cardinality(faults) < MaxFaulty /\ Cardinality(faults) \in Nat
    BY <1>1, FS_CardinalityType DEF Faulty, FieldInv
  <1>3. /\ IsFiniteSet(faults \cup {f})
        /\ Cardinality(faults \cup {f}) = IF f \in faults THEN Cardinality(faults) ELSE Cardinality(faults) + 1
    BY FS_AddElement DEF FieldInv
  <1> QED BY <1>2, <1>3, FieldAssumption

(* A cycle during which something may be read.                             *)
LEMMA CyclePassed ==
  ASSUME FieldInv, Passes, UNCHANGED <<cut, cuts>>, cut = NoCut \/ cut.kind # "daemon",
         \A s \in power' \cup energy' \cup waiting' :
            \/ s.at \in {w.at : w \in power \cup energy \cup waiting}
            \/ s.at \in Nat /\ s.at <= due + Half + 2,
         IsFiniteSet(faults') /\ Cardinality(faults') <= MaxFaulty
  PROVE  FieldInv'
  <1>1. due' = due + Every /\ cycles' \in 0..MaxCycles /\ cycles' = cycles + 1 /\ due' \in Nat
    BY Intervals, FieldAssumption DEF Passes, FieldInv
  <1>2. ASSUME NEW s \in power' \cup energy' \cup waiting' PROVE s.at \in Nat /\ s.at <= due' + 1
    BY <1>1, Intervals DEF FieldInv
  <1> QED BY <1>1, <1>2, Intervals DEF FieldInv

LEMMA ReadMeterStep == ASSUME FieldInv, NEW d \in Delays, ReadMeter(due + d) PROVE FieldInv'
  <1>1. cut' = NoCut /\ cut = NoCut /\ UNCHANGED <<cut, cuts>> /\ Passes /\ faults' = faults
    BY DEF ReadMeter, Fed
  <1>2. \A s \in power' \cup energy' \cup waiting' :
            \/ s.at \in {w.at : w \in power \cup energy \cup waiting}
            \/ s.at \in Nat /\ s.at <= due + Half + 2
    BY Intervals DEF ReadMeter, Recorded, PowerAt, EnergyAt, Reading, FieldInv
  <1> QED BY <1>1, <1>2, CyclePassed DEF FieldInv

LEMMA HoldReadingStep == ASSUME FieldInv, NEW d \in Delays, HoldReading(due + d) PROVE FieldInv'
  <1>1. cut.kind # "daemon" /\ UNCHANGED <<cut, cuts>> /\ Passes /\ faults' = faults
    BY DEF HoldReading, Cut
  <1>2. \A s \in power' \cup energy' \cup waiting' :
            \/ s.at \in {w.at : w \in power \cup energy \cup waiting}
            \/ s.at \in Nat /\ s.at <= due + Half + 2
    BY Intervals DEF HoldReading, FieldInv
  <1> QED BY <1>1, <1>2, CyclePassed DEF FieldInv

LEMMA NothingReadStep == ASSUME FieldInv, NothingRead PROVE FieldInv'
  <1>1. /\ due' = due + Every /\ cycles' \in 0..MaxCycles /\ cycles' = cycles + 1 /\ due' \in Nat
        /\ cycles \in Nat
    BY Intervals, FieldAssumption DEF NothingRead, Passes, FieldInv
  <1>2. UNCHANGED <<power, energy, waiting, cut, cuts, faults>> /\ cut # NoCut
    BY DEF NothingRead
  <1>3. \A s \in power \cup energy \cup waiting : s.at \in Nat /\ s.at <= due + 1
    BY DEF FieldInv
  <1>4. \A s \in power' \cup energy' \cup waiting' : s.at \in Nat /\ s.at <= due' + 1 /\ s.at <= due' - Every + 1
    BY <1>1, <1>2, <1>3, Intervals DEF FieldInv
  <1>5. cut'.start < due' - Half /\ due' >= Every /\ cut'.start <= due' - Half
    BY <1>1, <1>2, Intervals DEF FieldInv
  <1> QED BY <1>1, <1>2, <1>4, <1>5 DEF FieldInv

LEMMA FaultyStep ==
  ASSUME FieldInv, NEW d \in Delays,
         LoseReading(due + d) \/ DoubleReading(due + d) \/ GoBack(due + d)
  PROVE  FieldInv'
  <1>1. cut = NoCut /\ UNCHANGED <<cut, cuts>> /\ Passes /\ \E kind : Faulty(kind, due + d)
    BY DEF LoseReading, DoubleReading, GoBack, Fed
  <1>2. \A s \in power' \cup energy' \cup waiting' :
            \/ s.at \in {w.at : w \in power \cup energy \cup waiting}
            \/ s.at \in Nat /\ s.at <= due + Half + 2
    <2>1. CASE LoseReading(due + d)
      BY <2>1 DEF LoseReading
    <2>2. CASE DoubleReading(due + d)
      BY <2>2, Intervals DEF DoubleReading, PowerAt, EnergyAt, Reading, FieldInv
    <2>3. CASE GoBack(due + d)
      BY <2>3, Intervals DEF GoBack, PowerAt, Reading, FieldInv
    <2> QED BY <2>1, <2>2, <2>3
  <1>3. IsFiniteSet(faults') /\ Cardinality(faults') <= MaxFaulty
    BY <1>1, FaultAdded
  <1> QED BY <1>1, <1>2, <1>3, CyclePassed

LEMMA LoseBufferStep == ASSUME FieldInv, LoseBuffer PROVE FieldInv'
  <1>1. IsFiniteSet(faults') /\ Cardinality(faults') <= MaxFaulty
    BY FaultAdded DEF LoseBuffer
  <1> QED BY <1>1 DEF LoseBuffer, FieldInv

LEMMA BeginCutStep == ASSUME FieldInv, NEW kind \in {"api"} \cup Silent, BeginCut(kind) PROVE FieldInv'
  <1>1. /\ cut' = [kind |-> kind, start |-> due - Half, since |-> cycles]
        /\ UNCHANGED <<due, cycles, power, energy, waiting, cuts, faults>>
        /\ Cardinality(cuts) < MaxCuts
    BY DEF BeginCut
  <1>2. due - Half \in Int /\ cycles \in Nat /\ ~ (cycles > cycles)
    BY Intervals, FieldAssumption DEF FieldInv
  <1> QED BY <1>1, <1>2 DEF FieldInv

LEMMA EndCutStep == ASSUME FieldInv, EndCut PROVE FieldInv'
  <1>1. /\ cut # NoCut /\ cut' = NoCut /\ UNCHANGED <<cycles, power, energy, waiting, faults>>
        /\ cut.start < due - Half /\ due >= Every /\ due \in Nat
        /\ Cardinality(cuts) < MaxCuts
    BY DEF EndCut, FieldInv
  <1>2. PICK w : w = [kind |-> cut.kind, start |-> cut.start, end |-> due - Half]
    OBVIOUS
  <1>3. cuts' = cuts \cup {w} /\ w.start < w.end
    BY <1>1, <1>2 DEF EndCut
  <1>4. /\ IsFiniteSet(cuts \cup {w})
        /\ Cardinality(cuts \cup {w}) = IF w \in cuts THEN Cardinality(cuts) ELSE Cardinality(cuts) + 1
        /\ Cardinality(cuts) \in Nat
    BY FS_AddElement, FS_CardinalityType DEF FieldInv
  <1>5. Cardinality(cuts') <= MaxCuts /\ IsFiniteSet(cuts')
    BY <1>1, <1>3, <1>4, FieldAssumption
  <1>6. /\ due' \in Nat
        /\ cut.kind = "daemon" => due' = due - Half + 1
        /\ cut.kind # "daemon" => due' >= due
    BY <1>1, Intervals DEF EndCut, FieldInv, Silent
  <1>7. \A s \in power' \cup energy' \cup waiting' : s.at \in Nat /\ s.at <= due' + 1
    <2>1. CASE cut.kind = "daemon"
      <3>1. \A s \in power \cup energy \cup waiting : s.at \in Nat /\ s.at <= due - Every + 1
        BY <2>1, <1>1 DEF FieldInv, EndCut
      <3> QED BY <2>1, <3>1, <1>1, <1>6, Intervals
    <2>2. CASE cut.kind # "daemon"
      <3>1. \A s \in power \cup energy \cup waiting : s.at \in Nat /\ s.at <= due + 1
        BY DEF FieldInv
      <3> QED BY <2>2, <3>1, <1>1, <1>6
    <2> QED BY <2>1, <2>2
  <1> QED BY <1>1, <1>3, <1>5, <1>6, <1>7 DEF FieldInv

LEMMA FieldStep == FieldInv /\ [FieldNext]_fieldVars => FieldInv'
  <1> SUFFICES ASSUME FieldInv, [FieldNext]_fieldVars PROVE FieldInv'
    OBVIOUS
  <1>1. CASE UNCHANGED fieldVars
    BY <1>1 DEF fieldVars, FieldInv
  <1> QED BY <1>1, ReadMeterStep, HoldReadingStep, NothingReadStep, FaultyStep, LoseBufferStep,
             BeginCutStep, EndCutStep DEF FieldNext

(* No reading is dated a whole interval after the next one is due, and a   *)
(* cut that ended lasted.                                                  *)
THEOREM FieldTypeCorrect == FieldSpec => []FieldTypeOK
  <1>1. FieldInv => FieldTypeOK
    BY Intervals DEF FieldInv, FieldTypeOK
  <1> QED BY <1>1, FieldInitInv, FieldStep, PTL DEF FieldSpec
===============================================================================
