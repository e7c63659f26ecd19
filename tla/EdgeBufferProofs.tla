--------------------------- MODULE EdgeBufferProofs ---------------------------
(***************************************************************************)
(* Proofs about the daemon, its buffer file and the ingestion, for any     *)
(* number of readings, of requests open at once and of faults.             *)
(***************************************************************************)
EXTENDS EdgeBuffer, SequenceTheorems, FiniteSetTheorems, TLAPS

(* A line that parses holds one reading.                                   *)
WrittenLines == {l \in Lines : l.parses => \E r \in Readings : l.holds = {r}}

(* The readings of the lines that do not parse, and how many more of them  *)
(* the next append may spoil by joining an unended line.                   *)
Spoilt(lines) == UNION {l.holds : l \in Unreadable(lines)}
Risk(lines) == IF AtLineStart(lines) THEN 0 ELSE IF Last(lines).parses THEN 2 ELSE 1

-----------------------------------------------------------------------------
(* Sequences of lines.                                                     *)

LEMMA LeastFailure ==
  ASSUME NEW n \in Nat, NEW S \in SUBSET (0..n), S # {}
  PROVE  \E i \in S : \A j \in S : i <= j
  <1>1. S \subseteq Nat
    OBVIOUS
  <1>2. PICK i \in S : \A j \in S : <<j, i>> \notin OpToRel(<, Nat)
    BY <1>1, NatLessThanWellFounded, WFMin
  <1>3. \A j \in S : ~(j < i)
    BY <1>1, <1>2 DEF OpToRel
  <1>4. QED
    BY <1>1, <1>3

LEMMA ToSetAppend ==
  ASSUME NEW S, NEW s \in Seq(S), NEW x \in S
  PROVE  ToSet(Append(s, x)) = ToSet(s) \cup {x}
  <1> DEFINE t == Append(s, x)
  <1>1. /\ t \in Seq(S) /\ Len(t) = Len(s) + 1 /\ Len(s) \in Nat
        /\ \A i \in 1..Len(s) : t[i] = s[i]
        /\ t[Len(s) + 1] = x
    BY AppendProperties, LenProperties
  <1>2. DOMAIN s = 1..Len(s) /\ DOMAIN t = 1..(Len(s) + 1)
    BY <1>1, LenProperties
  <1> HIDE DEF t
  <1>3. ToSet(t) = ToSet(s) \cup {x}
    BY <1>1, <1>2 DEF ToSet
  <1>4. QED
    BY <1>3 DEF t

(* What the loop of pending() has kept after each line.                    *)
KeptAfter(lines, f, i) ==
    IF i = 0 THEN <<>>
    ELSE IF lines[i].parses THEN Append(f[i - 1], lines[i]) ELSE f[i - 1]

LEMMA KeptExists ==
  ASSUME NEW lines \in Seq(Lines)
  PROVE  \E f : f = [i \in 0..Len(lines) |-> KeptAfter(lines, f, i)]
  <1> DEFINE P(n) == \E f : f = [i \in 0..n |-> KeptAfter(lines, f, i)]
             Bad == {n \in 0..Len(lines) : ~P(n)}
  <1>1. CASE Bad # {}
    <2>1. PICK n \in Bad : \A m \in Bad : n <= m
      BY <1>1, LeastFailure, LenProperties
    <2>2. n # 0
      <3>1. P(0)
        <4> DEFINE f == [i \in 0..0 |-> <<>>]
        <4>1. f = [i \in 0..0 |-> KeptAfter(lines, f, i)]
          BY DEF KeptAfter
        <4>2. QED
          BY <4>1
      <3>2. QED
        BY <2>1, <3>1
    <2>3. n \in Nat /\ n - 1 \in 0..Len(lines) /\ n - 1 < n
      BY <2>1, <2>2, LenProperties
    <2>4. P(n - 1)
      BY <2>1, <2>3
    <2>5. PICK f : f = [i \in 0..(n - 1) |-> KeptAfter(lines, f, i)]
      BY <2>4
    <2> DEFINE g == [i \in 0..n |-> IF i < n THEN f[i] ELSE KeptAfter(lines, f, n)]
    <2>6. \A i \in 0..n : g[i] = KeptAfter(lines, g, i)
      <3> SUFFICES ASSUME NEW i \in 0..n PROVE g[i] = KeptAfter(lines, g, i)
        OBVIOUS
      <3>1. i # 0 => i - 1 \in 0..n /\ i - 1 < n
        BY <2>3
      <3>2. i # 0 => g[i - 1] = f[i - 1]
        BY <3>1
      <3>3. KeptAfter(lines, g, i) = KeptAfter(lines, f, i)
        BY <3>2 DEF KeptAfter
      <3>4. i < n => f[i] = KeptAfter(lines, f, i)
        <4>1. i < n => i \in 0..(n - 1)
          BY <2>3
        <4>2. QED
          BY <2>5, <4>1
      <3>5. ~(i < n) => i = n
        BY <2>3
      <3>6. QED
        BY <3>3, <3>4, <3>5
    <2>7. g = [i \in 0..n |-> KeptAfter(lines, g, i)]
      BY <2>6
    <2>8. P(n)
      BY <2>7
    <2>9. QED
      BY <2>1, <2>8
  <1>2. CASE Bad = {}
    <2>1. Len(lines) \in 0..Len(lines)
      BY LenProperties
    <2>2. QED
      BY <1>2, <2>1
  <1>3. QED
    BY <1>1, <1>2

(* pending() returns the lines that parse.                                 *)
LEMMA ReadableLines ==
  ASSUME NEW lines \in Seq(Lines)
  PROVE  /\ Readable(lines) \in Seq(Lines)
         /\ ToSet(Readable(lines)) = {lines[i] : i \in {i \in 1..Len(lines) : lines[i].parses}}
  <1> DEFINE N == Len(lines)
             IsKept(f) == f = [i \in 0..N |-> KeptAfter(lines, f, i)]
             kept == CHOOSE f : IsKept(f)
             First(n) == {lines[i] : i \in {i \in 1..n : lines[i].parses}}
             Right(n) == kept[n] \in Seq(Lines) /\ ToSet(kept[n]) = First(n)
             Bad == {n \in 0..N : ~Right(n)}
  <1>1. N \in Nat /\ \A i \in 1..N : lines[i] \in Lines
    BY LenProperties, ElementOfSeq
  <1>2. IsKept(kept)
    BY KeptExists
  <1>3. \A n \in 0..N : kept[n] = KeptAfter(lines, kept, n)
    BY <1>2
  <1> HIDE DEF kept, Right
  <1>4. CASE Bad # {}
    <2>1. PICK n \in Bad : \A m \in Bad : n <= m
      BY <1>1, <1>4, LeastFailure
    <2>2. CASE n = 0
      <3>1. kept[0] = <<>>
        BY <1>1, <1>3 DEF KeptAfter
      <3>2. Right(0)
        BY <3>1 DEF ToSet, Right
      <3>3. QED
        BY <2>1, <2>2, <3>2
    <2>3. CASE n # 0
      <3>1. n \in 1..N /\ n - 1 \in 0..N /\ n - 1 < n
        BY <1>1, <2>1, <2>3
      <3>2. Right(n - 1)
        BY <2>1, <3>1
      <3> HIDE DEF Bad
      <3>20. kept[n - 1] \in Seq(Lines) /\ ToSet(kept[n - 1]) = First(n - 1)
        BY <3>2 DEF Right
      <3>3. lines[n] \in Lines
        BY <1>1, <3>1
      <3>4. kept[n] = IF lines[n].parses THEN Append(kept[n - 1], lines[n]) ELSE kept[n - 1]
        BY <1>3, <2>3, <3>1 DEF KeptAfter
      <3>5. First(n) = IF lines[n].parses THEN First(n - 1) \cup {lines[n]} ELSE First(n - 1)
        BY <3>1
      <3>6. CASE lines[n].parses
        <4>1. kept[n] = Append(kept[n - 1], lines[n])
          BY <3>4, <3>6
        <4>2. ToSet(kept[n]) = ToSet(kept[n - 1]) \cup {lines[n]}
          BY <3>20, <3>3, <4>1, ToSetAppend
        <4>3. kept[n] \in Seq(Lines)
          BY <3>20, <3>3, <4>1
        <4>4. Right(n)
          BY <3>20, <3>5, <3>6, <4>2, <4>3 DEF Right
        <4>5. QED
          BY <2>1, <4>4 DEF Bad
      <3>7. CASE ~lines[n].parses
        <4>1. Right(n)
          BY <3>20, <3>4, <3>5, <3>7 DEF Right
        <4>2. QED
          BY <2>1, <4>1 DEF Bad
      <3>8. QED
        BY <3>6, <3>7
    <2>4. QED
      BY <2>2, <2>3
  <1>5. CASE Bad = {}
    <2>1. Right(N)
      BY <1>1, <1>5
    <2>2. Readable(lines) = kept[N]
      BY DEF Readable, kept, KeptAfter
    <2>3. QED
      BY <2>1, <2>2 DEF Right
  <1>6. QED
    BY <1>4, <1>5

LEMMA LinesAsSets ==
  ASSUME NEW lines
  PROVE  /\ Held(lines) = UNION {l.holds : l \in ToSet(lines)}
         /\ Spoilt(lines) = UNION {l.holds : l \in {l \in ToSet(lines) : ~l.parses}}
  BY DEF Held, Spoilt, Unreadable, ToSet

LEMMA AddLine ==
  ASSUME NEW lines \in Seq(WrittenLines), NEW l \in WrittenLines
  PROVE  /\ Append(lines, l) \in Seq(WrittenLines) /\ Append(lines, l) # <<>>
         /\ Held(Append(lines, l)) = Held(lines) \cup l.holds
         /\ Spoilt(Append(lines, l)) = IF l.parses THEN Spoilt(lines)
                                       ELSE Spoilt(lines) \cup l.holds
         /\ Last(Append(lines, l)) = l
         /\ AtLineStart(Append(lines, l)) <=> l.ended
  <1> DEFINE t == Append(lines, l)
  <1>1. /\ t \in Seq(WrittenLines) /\ t # <<>>
        /\ Len(t) = Len(lines) + 1 /\ Len(lines) \in Nat /\ t[Len(t)] = l
        /\ DOMAIN t = 1..Len(t)
    BY AppendProperties, LenProperties
  <1>2. ToSet(t) = ToSet(lines) \cup {l}
    BY ToSetAppend
  <1> HIDE DEF t
  <1>3. Held(t) = Held(lines) \cup l.holds
    BY <1>2, LinesAsSets
  <1>4. Spoilt(t) = IF l.parses THEN Spoilt(lines) ELSE Spoilt(lines) \cup l.holds
    <2>1. Spoilt(t) = UNION {x.holds : x \in {x \in ToSet(lines) \cup {l} : ~x.parses}}
      BY <1>2, LinesAsSets
    <2>2. Spoilt(lines) = UNION {x.holds : x \in {x \in ToSet(lines) : ~x.parses}}
      BY LinesAsSets
    <2>3. CASE l.parses
      <3>1. {x \in ToSet(lines) \cup {l} : ~x.parses} = {x \in ToSet(lines) : ~x.parses}
        BY <2>3
      <3>2. QED
        BY <2>1, <2>2, <2>3, <3>1
    <2>4. CASE ~l.parses
      <3>1. {x \in ToSet(lines) \cup {l} : ~x.parses}
            = {x \in ToSet(lines) : ~x.parses} \cup {l}
        BY <2>4
      <3>2. Spoilt(t) = Spoilt(lines) \cup l.holds
        BY <2>1, <2>2, <3>1
      <3>3. QED
        BY <2>4, <3>2
    <2>5. QED
      BY <2>3, <2>4
  <1>5. Last(t) = l
    BY <1>1 DEF Last
  <1>6. AtLineStart(t) <=> l.ended
    BY <1>1 DEF AtLineStart
  <1>7. QED
    BY <1>1, <1>3, <1>4, <1>5, <1>6 DEF t

LEMMA CutLast ==
  ASSUME NEW lines \in Seq(WrittenLines), lines # <<>>
  PROVE  /\ Front(lines) \in Seq(WrittenLines) /\ Last(lines) \in WrittenLines
         /\ Held(lines) = Held(Front(lines)) \cup Last(lines).holds
         /\ Spoilt(lines) = IF Last(lines).parses THEN Spoilt(Front(lines))
                            ELSE Spoilt(Front(lines)) \cup Last(lines).holds
         /\ AtLineStart(lines) <=> Last(lines).ended
  <1>1. PICK s \in Seq(WrittenLines), l \in WrittenLines : lines = Append(s, l)
    BY SequenceEmptyOrAppend
  <1>2. Last(lines) = l
    BY <1>1, AddLine
  <1>3. Front(lines) = s
    <2>1. /\ Len(lines) = Len(s) + 1 /\ Len(s) \in Nat
          /\ \A i \in 1..Len(s) : lines[i] = s[i] /\ s[i] \in WrittenLines
      BY <1>1, AppendProperties, LenProperties, ElementOfSeq
    <2>2. Front(lines) = SubSeq(lines, 1, Len(s))
      BY <2>1 DEF Front
    <2>3. /\ Front(lines) \in Seq(WrittenLines) /\ Len(Front(lines)) = Len(s)
          /\ \A i \in 1..Len(s) : Front(lines)[i] = lines[i]
      BY <2>1, <2>2, SubSeqProperties
    <2>4. QED
      BY <2>1, <2>3, SeqEqual
  <1>4. QED
    BY <1>1, <1>2, <1>3, AddLine

(* What is written after an unended line is spoilt, and spoils that line.  *)
LEMMA JoinedLine ==
  ASSUME NEW lines \in Seq(WrittenLines), ~AtLineStart(lines),
         NEW rs \in SUBSET Readings, NEW ended \in BOOLEAN
  PROVE  /\ Joined(lines, rs, ended) \in Seq(WrittenLines) /\ Joined(lines, rs, ended) # <<>>
         /\ Held(Joined(lines, rs, ended)) = Held(lines) \cup rs
         /\ Spoilt(Joined(lines, rs, ended)) = Spoilt(lines) \cup Last(lines).holds \cup rs
         /\ AtLineStart(Joined(lines, rs, ended)) <=> ended
         /\ ~Last(Joined(lines, rs, ended)).parses
         /\ Last(lines) \in WrittenLines
         /\ ~Last(lines).parses => Last(lines).holds \subseteq Spoilt(lines)
  <1>1. lines # <<>>
    BY DEF AtLineStart
  <1> DEFINE l == [holds |-> Last(lines).holds \cup rs, parses |-> FALSE, ended |-> ended]
  <1>2. /\ l \in WrittenLines
        /\ l.holds = Last(lines).holds \cup rs /\ ~l.parses /\ l.ended = ended
    BY <1>1, CutLast DEF Lines, WrittenLines
  <1>3. Joined(lines, rs, ended) = Append(Front(lines), l)
    BY DEF Joined
  <1> HIDE DEF l
  <1>4. /\ Append(Front(lines), l) \in Seq(WrittenLines) /\ Append(Front(lines), l) # <<>>
        /\ Held(Append(Front(lines), l)) = Held(Front(lines)) \cup l.holds
        /\ Spoilt(Append(Front(lines), l)) = Spoilt(Front(lines)) \cup l.holds
        /\ Last(Append(Front(lines), l)) = l
        /\ AtLineStart(Append(Front(lines), l)) <=> l.ended
    BY <1>1, <1>2, AddLine, CutLast
  <1>5. /\ Held(lines) = Held(Front(lines)) \cup Last(lines).holds
        /\ Spoilt(lines) = IF Last(lines).parses THEN Spoilt(Front(lines))
                           ELSE Spoilt(Front(lines)) \cup Last(lines).holds
        /\ Last(lines) \in WrittenLines
    BY <1>1, CutLast
  <1> QED BY <1>2, <1>3, <1>4, <1>5

(* append(): one reading more is held; it is spoilt, with the line it      *)
(* joins, if that line was left unended.                                   *)
LEMMA AppendedLine ==
  ASSUME NEW lines \in Seq(WrittenLines), NEW r \in Readings
  PROVE  /\ Appended(lines, r) \in Seq(WrittenLines) /\ Appended(lines, r) # <<>>
         /\ Held(Appended(lines, r)) = Held(lines) \cup {r}
         /\ AtLineStart(Appended(lines, r))
         /\ Spoilt(Appended(lines, r)) =
               IF AtLineStart(lines) THEN Spoilt(lines)
               ELSE Spoilt(lines) \cup Last(lines).holds \cup {r}
  <1>1. CASE AtLineStart(lines)
    <2>1. /\ Line(r) \in WrittenLines
          /\ Line(r).holds = {r} /\ Line(r).parses /\ Line(r).ended
      BY DEF Line, Lines, WrittenLines
    <2>2. QED
      BY <1>1, <2>1, AddLine DEF Appended
  <1>2. CASE ~AtLineStart(lines)
    <2>1. {r} \in SUBSET Readings /\ Appended(lines, r) = Joined(lines, {r}, TRUE)
      BY <1>2 DEF Appended
    <2> QED BY <1>2, <2>1, JoinedLine
  <1>3. QED
    BY <1>1, <1>2

-----------------------------------------------------------------------------
(* The inductive invariants.                                               *)

(* The daemon has nothing in memory when it begins a cycle, and waits for  *)
(* a request as long as it has one.                                        *)
DaemonInv ==
    /\ file \in Seq(WrittenLines)
    /\ pc \in {"stopped", "config", "take"} => fresh = <<>>
    /\ pc = "wait" <=> slot \in Slots
    /\ pc = "wait" => phase[slot] # "free"

(* What was read from the buffer is the buffer, and what was sent is with  *)
(* the request, then answered for.                                         *)
Sent == ToSet(pending) \cup ToSet(fresh)
SentInv ==
    /\ pc \in {"replace", "post", "wait", "clear"} => Held(file) \subseteq ToSet(pending) \cup corrupt
    /\ pc = "wait" /\ phase[slot] = "open" => Sent \subseteq left[slot] \cup judged[slot] \cup Settled
    /\ pc = "wait" /\ phase[slot] = "done" => Sent \subseteq Settled
    /\ pc = "clear" => Sent \subseteq Settled

(* Two transactions that are open never have inserted the same reading,    *)
(* nor one that was already stored.                                        *)
InsertedInv ==
    /\ EvaluatedOnce
    /\ \A q \in Slots : (judged[q] \ Refusable) \cap stored = {}
    /\ \A p, q \in Slots : p # q => judged[p] \cap judged[q] \subseteq Refusable

(* A crash leaves an unended line at most, which may spoil two readings.   *)
CrashInv == Cardinality(corrupt \cup Spoilt(file)) + Risk(file) <= 2 * crashes

Inv == TypeOK /\ DaemonInv /\ SentInv /\ ReadingNeverLost /\ InsertedInv /\ CrashInv

LEMMA EmptyFile ==
  /\ <<>> \in Seq(WrittenLines) /\ ToSet(<<>>) = {}
  /\ Held(<<>>) = {} /\ Spoilt(<<>>) = {} /\ Risk(<<>>) = 0
  BY DEF ToSet, Held, Spoilt, Unreadable, Risk, AtLineStart

LEMMA InitInv == Init => Inv
  <1> SUFFICES ASSUME Init PROVE Inv
    OBVIOUS
  <1> USE DEF Init
  <1>1. TypeOK
    <2>1. /\ next \in 1..(MaxReadings + 1)
          /\ fresh \in Seq(Readings) /\ pending \in Seq(Readings) /\ file \in Seq(Lines)
      BY EdgeBufferAssumption, EmptySeq
    <2>2. {configChanges, faults, crashes} \subseteq Nat
      OBVIOUS
    <2>3. QED
      BY <2>1, <2>2 DEF TypeOK
  <1>2. DaemonInv /\ SentInv
    BY EmptyFile, EdgeBufferAssumption DEF DaemonInv, SentInv
  <1>3. ReadingNeverLost
    BY DEF ReadingNeverLost, Taken
  <1>4. InsertedInv
    BY DEF InsertedInv, EvaluatedOnce
  <1>5. CrashInv
    <2>1. corrupt \cup Spoilt(file) = {} /\ Risk(file) = 0
      BY EmptyFile
    <2>2. Cardinality(corrupt \cup Spoilt(file)) = 0
      BY <2>1, FS_EmptySet, Zenon
    <2>3. QED
      BY <2>1, <2>2 DEF CrashInv
  <1>6. QED
    BY <1>1, <1>2, <1>3, <1>4, <1>5 DEF Inv

LEMMA FilesKeepTypes ==
  ASSUME TypeOK, DaemonInv
  PROVE  /\ ReadBuffer =>
               /\ pending' \in Seq(Readings) /\ corrupt' = corrupt \cup Spoilt(file)
               /\ Held(file) \subseteq ToSet(pending') \cup corrupt'
               /\ ToSet(pending') \subseteq Held(file)
         /\ ReplaceBuffer =>
               /\ file' \in Seq(WrittenLines) /\ Held(file') = ToSet(pending)
               /\ Spoilt(file') = {} /\ AtLineStart(file')
  <1>1. file \in Seq(WrittenLines) /\ WrittenLines \subseteq Lines
    BY DEF DaemonInv, WrittenLines
  <1>2. file \in Seq(Lines) /\ DOMAIN file = 1..Len(file)
    BY <1>1, SeqMonotonic, LenProperties
  <1>3. ASSUME ReadBuffer
        PROVE  /\ pending' \in Seq(Readings) /\ corrupt' = corrupt \cup Spoilt(file)
               /\ Held(file) \subseteq ToSet(pending') \cup corrupt'
               /\ ToSet(pending') \subseteq Held(file)
    <2> DEFINE kept == Readable(file)
    <2>1. /\ kept \in Seq(Lines)
          /\ ToSet(kept) = {file[i] : i \in {i \in 1..Len(file) : file[i].parses}}
      BY <1>2, ReadableLines
    <2>2. pending' = [i \in DOMAIN kept |-> ReadingOf(kept[i])]
      BY <1>3 DEF ReadBuffer
    <2> HIDE DEF kept
    <2>3. Len(kept) \in Nat /\ DOMAIN kept = 1..Len(kept)
      BY <2>1, LenProperties
    <2>4. \A i \in 1..Len(file) : file[i].parses => \E r \in Readings : file[i].holds = {r}
      BY <1>1, ElementOfSeq DEF WrittenLines
    <2>5. \A l \in ToSet(kept) : \E r \in Readings : l.holds = {r}
      BY <2>1, <2>4
    <2>6. \A l \in ToSet(kept) : ReadingOf(l) \in Readings /\ l.holds = {ReadingOf(l)}
      BY <2>5 DEF ReadingOf
    <2>7. \A i \in 1..Len(kept) : ReadingOf(kept[i]) \in Readings
      BY <2>3, <2>6 DEF ToSet
    <2>8. pending' \in Seq(Readings)
      BY <2>2, <2>3, <2>7
    <2>9. ToSet(pending') = {ReadingOf(l) : l \in ToSet(kept)}
      BY <2>2 DEF ToSet
    <2>10. corrupt' = corrupt \cup Spoilt(file)
      BY <1>3 DEF ReadBuffer, Spoilt
    <2>11. ASSUME NEW i \in 1..Len(file)
           PROVE  file[i].holds \subseteq ToSet(pending') \cup corrupt'
      <3>1. CASE file[i].parses
        <4>1. file[i] \in ToSet(kept)
          BY <2>1, <3>1
        <4>2. QED
          BY <2>6, <2>9, <4>1
      <3>2. CASE ~file[i].parses
        <4>1. file[i] \in Unreadable(file)
          BY <1>2, <3>2 DEF Unreadable
        <4>2. QED
          BY <2>10, <4>1 DEF Spoilt
      <3>3. QED
        BY <3>1, <3>2
    <2>12. ToSet(pending') \subseteq Held(file)
      <3>1. ToSet(kept) \subseteq ToSet(file)
        BY <1>2, <2>1 DEF ToSet
      <3>2. QED
        BY <2>6, <2>9, <3>1, LinesAsSets
    <2>13. QED
      BY <1>2, <2>8, <2>10, <2>11, <2>12 DEF Held
  <1>4. ASSUME ReplaceBuffer
        PROVE  /\ file' \in Seq(WrittenLines) /\ Held(file') = ToSet(pending)
               /\ Spoilt(file') = {} /\ AtLineStart(file')
    <2>1. file' = [i \in DOMAIN pending |-> Line(pending[i])]
      BY <1>4 DEF ReplaceBuffer
    <2>2. /\ DOMAIN pending = 1..Len(pending) /\ Len(pending) \in Nat
          /\ \A i \in 1..Len(pending) : pending[i] \in Readings
      BY LenProperties, ElementOfSeq DEF TypeOK
    <2>3. \A r \in Readings : /\ Line(r) \in WrittenLines
                              /\ Line(r).holds = {r} /\ Line(r).parses /\ Line(r).ended
      BY DEF Line, Lines, WrittenLines
    <2>4. file' \in Seq(WrittenLines)
      BY <2>1, <2>2, <2>3
    <2>5. DOMAIN file' = 1..Len(pending) /\ \A i \in 1..Len(pending) : file'[i] = Line(pending[i])
      BY <2>1, <2>2
    <2>6. Held(file') = ToSet(pending)
      BY <2>2, <2>3, <2>5 DEF Held, ToSet
    <2>7. Unreadable(file') = {}
      BY <2>2, <2>3, <2>5 DEF Unreadable
    <2>8. AtLineStart(file')
      BY <2>2, <2>3, <2>5 DEF AtLineStart
    <2>9. QED
      BY <2>4, <2>6, <2>7, <2>8 DEF Spoilt
  <1>5. QED
    BY <1>3, <1>4

LEMMA ReadingsTaken ==
  ASSUME TypeOK, TakeReadings
  PROVE  /\ fresh' \in Seq(Readings) /\ next' \in 1..(MaxReadings + 1)
         /\ Taken' = Taken \cup ToSet(fresh')
  <1>1. /\ TakenNow \in Nat /\ next + TakenNow <= MaxReadings + 1
        /\ next \in 1..(MaxReadings + 1) /\ MaxReadings \in Nat
    BY EdgeBufferAssumption DEF TypeOK, TakenNow
  <1>2. fresh' = [i \in 1..TakenNow |-> next + i - 1] /\ next' = next + TakenNow
    BY DEF TakeReadings
  <1> HIDE DEF TakenNow
  <1>3. \A i \in 1..TakenNow : next + i - 1 \in Readings
    BY <1>1 DEF Readings
  <1>4. fresh' \in Seq(Readings)
    BY <1>1, <1>2, <1>3
  <1>5. ToSet(fresh') = {next + i - 1 : i \in 1..TakenNow}
    BY <1>2 DEF ToSet
  <1>6. {next + i - 1 : i \in 1..TakenNow} = next..(next + TakenNow - 1)
    <2>1. ASSUME NEW r \in next..(next + TakenNow - 1)
          PROVE  r \in {next + i - 1 : i \in 1..TakenNow}
      <3>1. r - next + 1 \in 1..TakenNow /\ r = next + (r - next + 1) - 1
        BY <1>1, <2>1
      <3>2. QED
        BY <3>1
    <2>2. ASSUME NEW i \in 1..TakenNow
          PROVE  next + i - 1 \in next..(next + TakenNow - 1)
      BY <1>1
    <2>3. QED
      BY <2>1, <2>2
  <1>7. 1..(next + TakenNow - 1) = (1..(next - 1)) \cup (next..(next + TakenNow - 1))
    BY <1>1
  <1>8. Taken' = 1..(next + TakenNow - 1)
    <2>1. next' - 1 = next + TakenNow - 1
      BY <1>1, <1>2
    <2>2. QED
      BY <2>1 DEF Taken
  <1>9. Taken' = Taken \cup ToSet(fresh')
    BY <1>5, <1>6, <1>7, <1>8 DEF Taken
  <1>10. next' \in 1..(MaxReadings + 1)
    BY <1>1, <1>2
  <1>11. QED
    BY <1>4, <1>9, <1>10

LEMMA SpoiltReadings == ASSUME NEW lines \in Seq(Lines) PROVE Spoilt(lines) \subseteq Readings
  <1>1. ToSet(lines) \subseteq Lines
    BY LenProperties, ElementOfSeq DEF ToSet
  <1>2. \A l \in ToSet(lines) : l.holds \subseteq Readings
    BY <1>1 DEF Lines
  <1>3. QED
    BY <1>2, LinesAsSets

LEMMA TypeStep == TypeOK /\ DaemonInv /\ [Next]_vars => TypeOK' /\ DaemonInv'
  <1> SUFFICES ASSUME TypeOK, DaemonInv, [Next]_vars PROVE TypeOK' /\ DaemonInv'
    OBVIOUS
  <1> USE DEF TypeOK, DaemonInv
  <1> USE DEF vars, faultVars, configVars, memoryVars, fileVars, requestVars, tableVars
  <1>b. WrittenLines \subseteq Lines /\ NoSlot \notin Slots
    BY EdgeBufferAssumption DEF WrittenLines
  <1>a. configChanges + 1 \in Nat /\ faults + 1 \in Nat /\ crashes + 1 \in Nat
    OBVIOUS
  <1>1. CASE LinkDown \/ LinkUp \/ ChangeConfig
    <2>1. CASE LinkDown
      BY <1>a, <2>1 DEF LinkDown
    <2>2. CASE LinkUp
      BY <2>2 DEF LinkUp
    <2>3. CASE ChangeConfig
      BY <1>a, <2>3 DEF ChangeConfig
    <2>4. QED
      BY <1>1, <2>1, <2>2, <2>3
  <1>2. CASE Start \/ LoadConfig \/ ReadFails
    <2>1. CASE Start
      BY <2>1 DEF Start
    <2>2. CASE LoadConfig
      BY <2>2 DEF LoadConfig
    <2>3. CASE ReadFails
      BY <2>3 DEF ReadFails
    <2>4. QED
      BY <1>2, <2>1, <2>2, <2>3
  <1>3. CASE TakeReadings
    BY <1>3, ReadingsTaken DEF TakeReadings
  <1>4. CASE ReadBuffer
    <2>1. pending' \in Seq(Readings) /\ corrupt' = corrupt \cup Spoilt(file)
      BY <1>4, FilesKeepTypes
    <2>2. Spoilt(file) \subseteq Readings
      BY SpoiltReadings
    <2>3. pc' \in {"post", "replace"}
      BY <1>4 DEF ReadBuffer
    <2>4. UNCHANGED <<up, configured, configChanges, known, next, fresh, slot, file, lost, faults,
                      crashes, phase, left, judged, stored, evaluated, refused>>
          /\ pc = "pending"
      BY <1>4 DEF ReadBuffer
    <2>5. QED
      BY <2>1, <2>2, <2>3, <2>4
  <1>5. CASE ReplaceBuffer
    <2>1. file' \in Seq(WrittenLines) /\ file' \in Seq(Lines)
      BY <1>b, <1>5, FilesKeepTypes, SeqMonotonic
    <2>2. QED
      BY <1>5, <2>1 DEF ReplaceBuffer
  <1>6. ASSUME NEW q \in Slots, Post(q)
        PROVE  TypeOK' /\ DaemonInv'
    <2>1. ToSet(pending) \cup ToSet(fresh) \subseteq Readings
      BY LenProperties, ElementOfSeq DEF ToSet
    <2>2. phase' \in [Slots -> {"free", "open", "done", "error"}] /\ phase'[q] # "free"
      BY <1>6 DEF Post
    <2>3. left' \in [Slots -> SUBSET Readings]
      BY <1>6, <2>1 DEF Post
    <2>4. /\ pc = "post" /\ slot' = q /\ pc' = "wait"
          /\ UNCHANGED <<up, configured, configChanges, known, next, fresh, pending, file, corrupt,
                         lost, faults, crashes, judged, stored, evaluated, refused>>
      BY <1>6 DEF Post
    <2>5. QED
      BY <2>2, <2>3, <2>4
  <1>7. CASE PostFails \/ Answer \/ GiveUp
    BY <1>b, <1>7 DEF PostFails, Answer, Freed, GiveUp
  <1>8. CASE ClearBuffer
    BY <1>8, EmptyFile, EmptySeq DEF ClearBuffer
  <1>9. CASE AppendReading
    <2>1. CASE fresh = <<>>
      BY <1>9, <2>1, EmptySeq DEF AppendReading
    <2>2. CASE fresh # <<>>
      <3>1. Head(fresh) \in Readings /\ Tail(fresh) \in Seq(Readings)
        BY <2>2, HeadTailProperties
      <3>2. Appended(file, Head(fresh)) \in Seq(WrittenLines)
        BY <3>1, AppendedLine
      <3>3. Appended(file, Head(fresh)) \in Seq(Lines)
        BY <1>b, <3>2, SeqMonotonic
      <3>4. QED
        BY <1>9, <2>2, <3>1, <3>2, <3>3 DEF AppendReading
    <2>3. QED
      BY <2>1, <2>2
  <1>10. CASE Crash
    <2>1. file' \in Seq(WrittenLines)
      <3>1. CASE file' = file
        BY <3>1
      <3>2. CASE file' = Append(file, [holds |-> {}, parses |-> FALSE, ended |-> FALSE])
        <4>1. [holds |-> {}, parses |-> FALSE, ended |-> FALSE] \in WrittenLines
          BY DEF WrittenLines, Lines
        <4>2. QED
          BY <3>2, <4>1, AddLine
      <3>3. CASE fresh # <<>> /\ file' = Append(file, [Line(Head(fresh)) EXCEPT !.ended = FALSE])
        <4>1. Head(fresh) \in Readings
          BY <3>3, HeadTailProperties
        <4>2. [Line(Head(fresh)) EXCEPT !.ended = FALSE] \in WrittenLines
          BY <4>1 DEF WrittenLines, Lines, Line
        <4>3. QED
          BY <3>3, <4>2, AddLine
      <3>4. ASSUME NEW written \in SUBSET {Head(fresh)}, fresh # <<>>, ~AtLineStart(file),
                   file' = Joined(file, written, FALSE)
            PROVE  file' \in Seq(WrittenLines)
        <4>1. written \in SUBSET Readings
          BY <3>4, HeadTailProperties
        <4>2. QED
          BY <3>4, <4>1, JoinedLine
      <3>5. QED
        BY <1>10, <3>1, <3>2, <3>3, <3>4 DEF Crash
    <2>2. file' \in Seq(Lines)
      BY <1>b, <2>1, SeqMonotonic
    <2>3. ToSet(fresh) \subseteq Readings
      BY LenProperties, ElementOfSeq DEF ToSet
    <2>4. /\ lost' = lost \cup (ToSet(fresh) \ Held(file'))
          /\ faults' = faults + 1 /\ crashes' = crashes + 1 /\ pc' = "stopped"
          /\ known' = FALSE /\ fresh' = <<>> /\ pending' = <<>> /\ slot' = NoSlot
          /\ UNCHANGED <<up, configured, configChanges, next, corrupt, phase, left, judged, stored,
                         evaluated, refused>>
      BY <1>10 DEF Crash
    <2>5. lost' \subseteq Readings
      BY <2>3, <2>4
    <2>6. QED
      BY <1>b, <1>a, <2>1, <2>2, <2>4, <2>5, EmptySeq
  <1>11. ASSUME NEW q \in Slots, NEW r \in Readings, record_measurement(q, r)
         PROVE  TypeOK' /\ DaemonInv'
    BY <1>11 DEF record_measurement, Judged
  <1>12. ASSUME NEW q \in Slots, CommitBatch(q)
         PROVE  TypeOK' /\ DaemonInv'
    BY <1>12 DEF CommitBatch, Closed
  <1>13. ASSUME NEW q \in Slots, AbortBatch(q)
         PROVE  TypeOK' /\ DaemonInv'
    BY <1>13 DEF AbortBatch, Closed
  <1>14. ASSUME NEW q \in Slots, DropAnswer(q)
         PROVE  TypeOK' /\ DaemonInv'
    BY <1>14 DEF DropAnswer, Freed
  <1>15. CASE UNCHANGED vars
    BY <1>15
  <1>16. QED
    BY <1>1, <1>2, <1>3, <1>4, <1>5, <1>6, <1>7, <1>8, <1>9, <1>10, <1>11, <1>12, <1>13, <1>14,
       <1>15 DEF Next, DaemonStep, ServerStep

LEMMA HeadAndTail ==
  ASSUME NEW S, NEW s \in Seq(S), s # <<>>
  PROVE  ToSet(s) = {Head(s)} \cup ToSet(Tail(s))
  <1>1. /\ Len(s) \in Nat \ {0} /\ DOMAIN s = 1..Len(s)
        /\ DOMAIN Tail(s) = 1..(Len(s) - 1)
        /\ \A i \in 1..(Len(s) - 1) : Tail(s)[i] = s[i + 1]
        /\ Head(s) = s[1]
    BY HeadTailProperties, LenProperties, EmptySeq
  <1>2. ASSUME NEW i \in 1..Len(s)
        PROVE  s[i] \in {Head(s)} \cup ToSet(Tail(s))
    <2>1. CASE i = 1
      BY <1>1, <2>1
    <2>2. CASE i # 1
      <3>1. i - 1 \in 1..(Len(s) - 1) /\ Tail(s)[i - 1] = s[i]
        BY <1>1, <2>2
      <3>2. QED
        BY <1>1, <3>1 DEF ToSet
    <2>3. QED
      BY <2>1, <2>2
  <1>3. ASSUME NEW i \in 1..(Len(s) - 1)
        PROVE  Tail(s)[i] \in ToSet(s)
    <2>1. i + 1 \in 1..Len(s) /\ Tail(s)[i] = s[i + 1]
      BY <1>1
    <2>2. QED
      BY <1>1, <2>1 DEF ToSet
  <1>4. Head(s) \in ToSet(s)
    BY <1>1 DEF ToSet
  <1>5. QED
    BY <1>1, <1>2, <1>3, <1>4 DEF ToSet

(* No step loses a reading: it moves with the daemon's memory to the file  *)
(* or to the request, and from the request to the tables.                  *)
LEMMA NeverLostStep ==
  TypeOK /\ DaemonInv /\ SentInv /\ ReadingNeverLost /\ [Next]_vars
    => SentInv' /\ ReadingNeverLost'
  <1> DEFINE Goal == SentInv' /\ ReadingNeverLost'
  <1> SUFFICES ASSUME TypeOK, DaemonInv, SentInv, ReadingNeverLost, [Next]_vars PROVE Goal
    OBVIOUS
  <1> USE DEF SentInv, ReadingNeverLost, Sent, Settled, Taken
  <1> USE DEF vars, faultVars, configVars, memoryVars, fileVars, requestVars, tableVars
  <1>b. NoSlot \notin Slots /\ ToSet(<<>>) = {}
    BY EdgeBufferAssumption, EmptyFile
  <1>1. CASE LinkDown \/ LinkUp \/ ChangeConfig
    BY <1>1 DEF LinkDown, LinkUp, ChangeConfig
  <1>2. CASE Start \/ LoadConfig \/ ReadFails
    <2>1. /\ pc' \in {"config", "take"}
          /\ UNCHANGED <<next, fresh, file, corrupt, lost, stored, refused>>
      BY <1>2 DEF Start, LoadConfig, ReadFails
    <2>2. QED
      BY <2>1
  <1>3. CASE TakeReadings
    <2>1. /\ pc' = "pending" /\ pc = "take"
          /\ UNCHANGED <<file, corrupt, lost, stored, refused>>
      BY <1>3 DEF TakeReadings
    <2>2. Taken' = Taken \cup ToSet(fresh')
      BY <1>3, ReadingsTaken
    <2>3. ToSet(fresh) = {}
      BY <1>b, <2>1 DEF DaemonInv
    <2> HIDE DEF Taken
    <2>4. QED
      BY <2>1, <2>2, <2>3
  <1>4. CASE ReadBuffer
    <2>1. /\ corrupt' = corrupt \cup Spoilt(file)
          /\ Held(file) \subseteq ToSet(pending') \cup corrupt'
      BY <1>4, FilesKeepTypes
    <2>2. /\ pc' \in {"post", "replace"}
          /\ UNCHANGED <<next, fresh, file, lost, stored, refused>>
      BY <1>4 DEF ReadBuffer
    <2>3. QED
      BY <2>1, <2>2
  <1>5. CASE ReplaceBuffer
    <2>1. Held(file') = ToSet(pending)
      BY <1>5, FilesKeepTypes
    <2>2. /\ pc = "replace" /\ pc' = "post"
          /\ UNCHANGED <<next, fresh, pending, corrupt, lost, stored, refused>>
      BY <1>5 DEF ReplaceBuffer
    <2>3. QED
      BY <2>1, <2>2
  <1>6. ASSUME NEW q \in Slots, Post(q)
        PROVE  Goal
    <2>1. /\ pc = "post" /\ pc' = "wait" /\ slot' = q
          /\ UNCHANGED <<next, fresh, pending, file, corrupt, lost, judged, stored, refused>>
      BY <1>6 DEF Post
    <2>2. \/ phase'[q] = "open" /\ left'[q] = Sent
          \/ phase'[q] = "error"
      BY <1>6 DEF Post, TypeOK
    <2>3. QED
      BY <2>1, <2>2
  <1>7. CASE PostFails \/ Answer \/ GiveUp
    <2>1. /\ UNCHANGED <<next, fresh, pending, file, corrupt, lost, stored, refused>>
          /\ \/ pc' = "append"
             \/ pc' = "clear" /\ pc = "wait" /\ phase[slot] = "done"
      BY <1>7 DEF PostFails, Answer, GiveUp
    <2>2. QED
      BY <2>1
  <1>8. CASE ClearBuffer
    <2>1. /\ pc = "clear" /\ pc' = "config" /\ file' = <<>> /\ fresh' = <<>>
          /\ UNCHANGED <<next, corrupt, lost, stored, refused>>
      BY <1>8 DEF ClearBuffer
    <2>2. Held(file) \cup ToSet(fresh) \subseteq Settled \cup corrupt
      BY <2>1
    <2>3. QED
      BY <2>1, <2>2
  <1>9. CASE AppendReading
    <2>1. UNCHANGED <<next, corrupt, lost, stored, refused>> /\ pc = "append"
      BY <1>9 DEF AppendReading
    <2>2. CASE fresh = <<>>
      <3>1. pc' = "config" /\ UNCHANGED <<fresh, file>>
        BY <1>9, <2>2 DEF AppendReading
      <3>2. QED
        BY <2>1, <3>1
    <2>3. CASE fresh # <<>>
      <3>1. /\ file' = Appended(file, Head(fresh)) /\ fresh' = Tail(fresh) /\ pc' = pc
        BY <1>9, <2>3 DEF AppendReading
      <3>2. Head(fresh) \in Readings /\ ToSet(fresh) = {Head(fresh)} \cup ToSet(Tail(fresh))
        BY <2>3, HeadTailProperties, HeadAndTail DEF TypeOK
      <3>3. Held(file') = Held(file) \cup {Head(fresh)}
        BY <3>1, <3>2, AppendedLine DEF DaemonInv
      <3>4. QED
        BY <2>1, <3>1, <3>2, <3>3
    <2>4. QED
      BY <2>2, <2>3
  <1>10. CASE Crash
    <2>1. /\ pc' = "stopped" /\ fresh' = <<>>
          /\ lost' = lost \cup (ToSet(fresh) \ Held(file'))
          /\ UNCHANGED <<next, corrupt, stored, refused>>
      BY <1>10 DEF Crash
    <2>2. Held(file) \subseteq Held(file')
      <3>1. CASE file' = file
        BY <3>1
      <3>2. CASE file' # file /\ AtLineStart(file)
        <4>1. PICK l : file' = Append(file, l)
          BY <1>10, <3>2 DEF Crash
        <4>2. DOMAIN file = 1..Len(file) /\ Len(file) \in Nat
          BY LenProperties DEF TypeOK
        <4>3. DOMAIN file' = 1..(Len(file) + 1) /\ \A i \in 1..Len(file) : file'[i] = file[i]
          BY <4>1 DEF TypeOK
        <4>4. QED
          BY <4>2, <4>3 DEF Held
      <3>3. CASE file' # file /\ ~AtLineStart(file)
        <4>1. PICK written \in SUBSET {Head(fresh)} :
                 fresh # <<>> /\ file' = Joined(file, written, FALSE)
          BY <1>10, <3>3 DEF Crash
        <4>0. Head(fresh) \in Readings
          BY <4>1, HeadTailProperties DEF TypeOK
        <4>2. written \in SUBSET Readings
          BY <4>0
        <4>3. file \in Seq(WrittenLines) /\ FALSE \in BOOLEAN
          BY DEF DaemonInv
        <4>4. Held(Joined(file, written, FALSE)) = Held(file) \cup written
          BY <3>3, <4>2, <4>3, JoinedLine
        <4>5. QED
          BY <4>1, <4>4
      <3>4. QED
        BY <3>1, <3>2, <3>3
    <2>3. QED
      BY <2>1, <2>2
  <1>11. ASSUME NEW q \in Slots, NEW r \in Readings, record_measurement(q, r)
         PROVE  Goal
    <2>1. UNCHANGED <<next, fresh, pending, file, corrupt, lost, pc, slot, phase, stored, refused>>
      BY <1>11 DEF record_measurement
    <2>2. \A p \in Slots : left[p] \cup judged[p] \cup stored \subseteq left'[p] \cup judged'[p] \cup stored
      BY <1>11 DEF record_measurement, Judged, TypeOK
    <2>3. pc = "wait" => slot \in Slots
      BY DEF DaemonInv
    <2>4. QED
      BY <2>1, <2>2, <2>3
  <1>12. ASSUME NEW q \in Slots, CommitBatch(q)
         PROVE  Goal
    <2>1. UNCHANGED <<next, fresh, pending, file, corrupt, lost, pc, slot>>
      BY <1>12 DEF CommitBatch
    <2>2. Settled' = Settled \cup judged[q] /\ phase[q] = "open" /\ left[q] = {}
      BY <1>12 DEF CommitBatch
    <2>3. \A p \in Slots : p # q => /\ phase'[p] = phase[p] /\ left'[p] = left[p]
                                    /\ judged'[p] = judged[p]
      BY <1>12 DEF CommitBatch, Closed, TypeOK
    <2>4. slot = q => phase'[q] = "done"
      BY <1>12 DEF CommitBatch, Closed, TypeOK
    <2>5. pc = "wait" => slot \in Slots
      BY DEF DaemonInv
    <2> HIDE DEF Settled
    <2>6. QED
      BY <2>1, <2>2, <2>3, <2>4, <2>5
  <1>13. ASSUME NEW q \in Slots, AbortBatch(q) \/ DropAnswer(q)
         PROVE  Goal
    <2>1. UNCHANGED <<next, fresh, pending, file, corrupt, lost, pc, slot, stored, refused>>
      BY <1>13 DEF AbortBatch, DropAnswer
    <2>2. \A p \in Slots : p # q => /\ phase'[p] = phase[p] /\ left'[p] = left[p]
                                    /\ judged'[p] = judged[p]
      BY <1>13 DEF AbortBatch, DropAnswer, Closed, Freed, TypeOK
    <2>3. slot = q => phase'[q] = "error"
      BY <1>13 DEF AbortBatch, DropAnswer, Closed, TypeOK
    <2>4. pc = "wait" => slot \in Slots
      BY DEF DaemonInv
    <2>5. QED
      BY <2>1, <2>2, <2>3, <2>4
  <1>14. CASE UNCHANGED vars
    BY <1>14
  <1>15. QED
    BY <1>1, <1>2, <1>3, <1>4, <1>5, <1>6, <1>7, <1>8, <1>9, <1>10, <1>11, <1>12, <1>13, <1>14
    DEF Next, DaemonStep, ServerStep

(* A reading is inserted by one transaction: another that meets it waits   *)
(* for the first, then finds it stored.                                    *)
LEMMA InsertedStep == TypeOK /\ InsertedInv /\ [Next]_vars => InsertedInv'
  <1> SUFFICES ASSUME TypeOK, InsertedInv, [Next]_vars PROVE InsertedInv'
    OBVIOUS
  <1> USE DEF TypeOK, InsertedInv, EvaluatedOnce
  <1> USE DEF vars, faultVars, configVars, memoryVars, fileVars, requestVars, tableVars
  <1>1. CASE UNCHANGED <<judged, stored, evaluated>>
    BY <1>1
  <1>2. ASSUME NEW q \in Slots, NEW r \in Readings, record_measurement(q, r)
        PROVE  InsertedInv'
    <2>1. /\ judged' = [judged EXCEPT ![q] = @ \cup ({r} \ stored)]
          /\ UNCHANGED <<stored, evaluated>>
      BY <1>2 DEF record_measurement, Judged
    <2>2. \A p \in Slots \ {q} : r \notin judged[p] \ Refusable
      BY <1>2 DEF record_measurement, InsertedElsewhere
    <2>3. QED
      BY <2>1, <2>2
  <1>3. ASSUME NEW q \in Slots, CommitBatch(q)
        PROVE  InsertedInv'
    <2>1. /\ stored' = stored \cup (judged[q] \ Refusable)
          /\ judged' = [judged EXCEPT ![q] = {}]
          /\ \A r \in Readings :
               evaluated'[r] = evaluated[r] + (IF r \in judged[q] \ Refusable THEN 1 ELSE 0)
      BY <1>3 DEF CommitBatch, Closed
    <2>2. EvaluatedOnce'
      <3> SUFFICES ASSUME NEW r \in Readings
                   PROVE  evaluated'[r] = IF r \in stored' THEN 1 ELSE 0
        OBVIOUS
      <3>1. r \in judged[q] \ Refusable => evaluated[r] = 0
        OBVIOUS
      <3>2. QED
        BY <2>1, <3>1
    <2>3. \A p \in Slots : (judged'[p] \ Refusable) \cap stored' = {}
      BY <2>1
    <2>4. \A x, y \in Slots : x # y => judged'[x] \cap judged'[y] \subseteq Refusable
      BY <2>1
    <2>5. QED
      BY <2>2, <2>3, <2>4
  <1>4. ASSUME NEW q \in Slots, AbortBatch(q)
        PROVE  InsertedInv'
    BY <1>4 DEF AbortBatch, Closed
  <1>5. ASSUME NEW q \in Slots, Post(q) \/ DropAnswer(q)
        PROVE  UNCHANGED <<judged, stored, evaluated>>
    BY <1>5 DEF Post, DropAnswer
  <1>6. CASE LinkDown \/ LinkUp \/ ChangeConfig \/ Start \/ ReadFails \/ GiveUp \/ Crash
    BY <1>1, <1>6 DEF LinkDown, LinkUp, ChangeConfig, Start, ReadFails, GiveUp, Crash
  <1>7. CASE LoadConfig \/ TakeReadings \/ ReadBuffer \/ ReplaceBuffer
    BY <1>1, <1>7 DEF LoadConfig, TakeReadings, ReadBuffer, ReplaceBuffer
  <1>8. CASE PostFails \/ Answer \/ ClearBuffer \/ AppendReading
    BY <1>1, <1>8 DEF PostFails, Answer, ClearBuffer, AppendReading
  <1>9. CASE UNCHANGED vars
    BY <1>1, <1>9
  <1>10. QED
    BY <1>1, <1>2, <1>3, <1>4, <1>5, <1>6, <1>7, <1>8, <1>9 DEF Next, DaemonStep, ServerStep

LEMMA ReadingsCounted ==
  /\ \A A \in SUBSET Readings : Cardinality(A) \in Nat
  /\ \A A \in SUBSET Readings : \A B \in SUBSET A : Cardinality(B) <= Cardinality(A)
  /\ \A A \in SUBSET Readings : \A r \in Readings : Cardinality(A \cup {r}) <= Cardinality(A) + 1
  <1>1. IsFiniteSet(Readings)
    BY FS_Interval, EdgeBufferAssumption DEF Readings
  <1>2. \A A \in SUBSET Readings : IsFiniteSet(A)
    BY <1>1, FS_Subset
  <1>3. ASSUME NEW A \in SUBSET Readings
        PROVE  Cardinality(A) \in Nat
    BY <1>2, FS_CardinalityType
  <1>4. ASSUME NEW A \in SUBSET Readings, NEW B \in SUBSET A
        PROVE  Cardinality(B) <= Cardinality(A)
    BY <1>2, FS_Subset
  <1>5. ASSUME NEW A \in SUBSET Readings, NEW r \in Readings
        PROVE  Cardinality(A \cup {r}) <= Cardinality(A) + 1
    <2>1. IsFiniteSet(A) /\ Cardinality(A) \in Nat
      BY <1>2, <1>3
    <2>2. CASE r \in A
      <3>1. A \cup {r} = A
        BY <2>2
      <3>2. QED
        BY <2>1, <3>1
    <2>3. CASE r \notin A
      <3>1. Cardinality(A \cup {r}) = Cardinality(A) + 1
        BY <2>1, <2>3, FS_AddElement
      <3>2. QED
        BY <2>1, <3>1
    <2>4. QED
      BY <2>2, <2>3
  <1>6. QED
    BY <1>3, <1>4, <1>5

(* A crash adds one unended line at most, and only where there was none.   *)
LEMMA CrashStep == TypeOK /\ DaemonInv /\ CrashInv /\ [Next]_vars => CrashInv'
  <1> SUFFICES ASSUME TypeOK, DaemonInv, CrashInv, [Next]_vars PROVE CrashInv'
    OBVIOUS
  <1> USE DEF vars, faultVars, configVars, memoryVars, fileVars, requestVars, tableVars
  <1> DEFINE bad == corrupt \cup Spoilt(file)
  <1>a. /\ bad \in SUBSET Readings /\ Cardinality(bad) \in Nat /\ Risk(file) \in {0, 1, 2}
        /\ crashes \in Nat /\ file \in Seq(WrittenLines)
        /\ Cardinality(bad) + Risk(file) <= 2 * crashes
    BY SpoiltReadings, ReadingsCounted DEF TypeOK, DaemonInv, CrashInv, Risk
  <1>1. CASE UNCHANGED <<corrupt, file, crashes>>
    BY <1>1 DEF CrashInv
  <1>2. CASE ReadBuffer
    <2>1. corrupt' = corrupt \cup Spoilt(file) /\ UNCHANGED <<file, crashes>>
      BY <1>2, FilesKeepTypes DEF ReadBuffer
    <2>2. (corrupt \cup Spoilt(file))' = bad
      BY <2>1
    <2>3. QED
      BY <1>a, <2>1, <2>2 DEF CrashInv
  <1>3. CASE ReplaceBuffer \/ ClearBuffer
    <2>1. /\ Spoilt(file)' = {} /\ Risk(file)' = 0 /\ UNCHANGED <<corrupt, crashes>>
      BY <1>3, FilesKeepTypes, EmptyFile DEF ReplaceBuffer, ClearBuffer, Risk
    <2>2. (corrupt \cup Spoilt(file))' \in SUBSET bad
      BY <2>1
    <2>3. /\ Cardinality((corrupt \cup Spoilt(file))') <= Cardinality(bad)
          /\ Cardinality((corrupt \cup Spoilt(file))') \in Nat
      BY <1>a, <2>2, ReadingsCounted
    <2> HIDE DEF bad
    <2>4. QED
      BY <1>a, <2>1, <2>3 DEF CrashInv
  <1>4. CASE AppendReading
    <2>1. UNCHANGED <<corrupt, crashes>>
      BY <1>4 DEF AppendReading
    <2>2. CASE fresh = <<>>
      BY <1>1, <1>4, <2>1, <2>2 DEF AppendReading
    <2>3. CASE fresh # <<>>
      <3> DEFINE r == Head(fresh)
      <3>1. file' = Appended(file, r) /\ r \in Readings
        BY <1>4, <2>3, HeadTailProperties DEF AppendReading, TypeOK
      <3> HIDE DEF r
      <3>2. Risk(file)' = 0
        BY <1>a, <3>1, AppendedLine DEF Risk
      <3>3. CASE AtLineStart(file)
        <4>1. Spoilt(file') = Spoilt(file)
          BY <1>a, <3>1, <3>3, AppendedLine
        <4>2. (corrupt \cup Spoilt(file))' = bad
          BY <2>1, <4>1
        <4> HIDE DEF bad
        <4>3. Cardinality(bad) + 0 <= 2 * crashes
          BY <1>a
        <4>4. QED
          BY <2>1, <3>2, <4>2, <4>3 DEF CrashInv
      <3>4. CASE ~AtLineStart(file)
        <4>1. (corrupt \cup Spoilt(file))' = (bad \cup Last(file).holds) \cup {r}
          BY <1>a, <2>1, <3>1, <3>4, AppendedLine
        <4>2. Last(file) \in WrittenLines /\ ~Last(file).ended
          <5>1. file # <<>>
            BY <3>4 DEF AtLineStart
          <5>2. QED
            BY <1>a, <3>4, <5>1, CutLast
        <4>3. CASE Last(file).parses
          <5>1. PICK x \in Readings : Last(file).holds = {x}
            BY <4>2, <4>3 DEF WrittenLines
          <5>2. (corrupt \cup Spoilt(file))' = (bad \cup {x}) \cup {r}
            BY <4>1, <5>1
          <5>3. Risk(file) = 2
            BY <3>4, <4>3 DEF Risk
          <5> HIDE DEF bad
          <5>4. /\ bad \cup {x} \in SUBSET Readings
                /\ Cardinality(bad \cup {x}) <= Cardinality(bad) + 1
            BY <1>a, ReadingsCounted
          <5>5. /\ Cardinality((bad \cup {x}) \cup {r}) <= Cardinality(bad \cup {x}) + 1
                /\ Cardinality(bad \cup {x}) \in Nat
                /\ Cardinality((bad \cup {x}) \cup {r}) \in Nat
            BY <3>1, <5>4, ReadingsCounted
          <5>6. Cardinality((bad \cup {x}) \cup {r}) + 0 <= 2 * crashes
            BY <1>a, <5>3, <5>4, <5>5
          <5>7. QED
            BY <2>1, <3>2, <5>2, <5>6 DEF CrashInv
        <4>4. CASE ~Last(file).parses
          <5>1. Last(file).holds \subseteq bad
            BY <1>a, <3>4, <4>4, JoinedLine
          <5>2. (corrupt \cup Spoilt(file))' = bad \cup {r}
            BY <4>1, <5>1
          <5>3. Risk(file) = 1
            BY <3>4, <4>4 DEF Risk
          <5> HIDE DEF bad
          <5>4. /\ Cardinality(bad \cup {r}) <= Cardinality(bad) + 1
                /\ Cardinality(bad \cup {r}) \in Nat
            BY <1>a, <3>1, ReadingsCounted
          <5>5. Cardinality(bad \cup {r}) + 0 <= 2 * crashes
            BY <1>a, <5>3, <5>4
          <5>6. QED
            BY <2>1, <3>2, <5>2, <5>5 DEF CrashInv
        <4>5. QED
          BY <4>3, <4>4
      <3>5. QED
        BY <3>3, <3>4
    <2>4. QED
      BY <2>2, <2>3
  <1>5. CASE Crash
    <2>1. crashes' = crashes + 1 /\ corrupt' = corrupt
      BY <1>5 DEF Crash
    <2>2. CASE ~ \E written \in SUBSET {Head(fresh)} :
                 /\ fresh # <<>> /\ ~AtLineStart(file) /\ file' = Joined(file, written, FALSE)
      <3>1. Spoilt(file)' = Spoilt(file) /\ Risk(file)' <= Risk(file) + 2 /\ Risk(file)' \in {0, 1, 2}
        <4>1. CASE file' = file
          BY <1>a, <4>1
        <4>2. CASE /\ AtLineStart(file)
                   /\ file' = Append(file, [holds |-> {}, parses |-> FALSE, ended |-> FALSE])
          <5> DEFINE l == [holds |-> {}, parses |-> FALSE, ended |-> FALSE]
          <5>1. l \in WrittenLines /\ l.holds = {} /\ file' = Append(file, l)
            BY <4>2 DEF WrittenLines, Lines
          <5> HIDE DEF l
          <5>2. Spoilt(file') = Spoilt(file)
            <6>1. \/ Spoilt(file') = Spoilt(file)
                  \/ Spoilt(file') = Spoilt(file) \cup l.holds
              BY <1>a, <5>1, AddLine
            <6>2. QED
              BY <5>1, <6>1
          <5>3. Risk(file) = 0 /\ Risk(file') \in {0, 1, 2}
            BY <4>2 DEF Risk
          <5>4. QED
            BY <5>2, <5>3
        <4>3. CASE /\ AtLineStart(file) /\ fresh # <<>>
                   /\ file' = Append(file, [Line(Head(fresh)) EXCEPT !.ended = FALSE])
          <5> DEFINE l == [Line(Head(fresh)) EXCEPT !.ended = FALSE]
          <5>1. Head(fresh) \in Readings
            BY <4>3, HeadTailProperties DEF TypeOK
          <5>2. l \in WrittenLines /\ l.parses /\ file' = Append(file, l)
            BY <4>3, <5>1 DEF WrittenLines, Lines, Line
          <5> HIDE DEF l
          <5>3. Spoilt(file') = Spoilt(file)
            BY <1>a, <5>2, AddLine
          <5>4. Risk(file) = 0 /\ Risk(file') \in {0, 1, 2}
            BY <4>3 DEF Risk
          <5>5. QED
            BY <5>3, <5>4
        <4>4. QED
          BY <1>5, <2>2, <4>1, <4>2, <4>3 DEF Crash
      <3>2. (corrupt \cup Spoilt(file))' = bad
        BY <2>1, <3>1
      <3> HIDE DEF bad
      <3>3. Cardinality(bad) + Risk(file)' <= 2 * (crashes + 1)
        BY <1>a, <3>1
      <3>4. QED
        BY <2>1, <3>2, <3>3 DEF CrashInv
    <2>3. ASSUME NEW written \in SUBSET {Head(fresh)}, fresh # <<>>, ~AtLineStart(file),
                 file' = Joined(file, written, FALSE)
          PROVE  CrashInv'
      <3>1. Head(fresh) \in Readings /\ written \in SUBSET Readings
        BY <2>3, HeadTailProperties DEF TypeOK
      <3>2. /\ Spoilt(Joined(file, written, FALSE)) = Spoilt(file) \cup Last(file).holds \cup written
            /\ ~AtLineStart(Joined(file, written, FALSE)) /\ ~Last(Joined(file, written, FALSE)).parses
            /\ Last(file) \in WrittenLines
            /\ ~Last(file).parses => Last(file).holds \subseteq Spoilt(file)
        BY <1>a, <2>3, <3>1, JoinedLine
      <3> DEFINE more == bad \cup Last(file).holds
      <3>3. (corrupt \cup Spoilt(file))' = more \cup written /\ Risk(file)' = 1
        BY <2>1, <2>3, <3>2 DEF Risk
      <3>4. /\ more \in SUBSET Readings /\ Cardinality(more) \in Nat
            /\ Cardinality(more) <= Cardinality(bad) + Risk(file) - 1
        <4>1. CASE Last(file).parses
          <5>1. PICK x \in Readings : Last(file).holds = {x}
            BY <3>2, <4>1 DEF WrittenLines
          <5>2. Risk(file) = 2 /\ more = bad \cup {x}
            BY <2>3, <4>1, <5>1 DEF Risk
          <5> HIDE DEF bad, more
          <5>3. /\ bad \cup {x} \in SUBSET Readings /\ Cardinality(bad \cup {x}) \in Nat
                /\ Cardinality(bad \cup {x}) <= Cardinality(bad) + 1
            BY <1>a, ReadingsCounted
          <5>4. QED
            BY <1>a, <5>2, <5>3
        <4>2. CASE ~Last(file).parses
          <5>1. Risk(file) = 1 /\ more = bad
            BY <2>3, <3>2, <4>2 DEF Risk
          <5> HIDE DEF bad, more
          <5>2. QED
            BY <1>a, <5>1
        <4>3. QED
          BY <4>1, <4>2
      <3> HIDE DEF bad, more
      <3>5. /\ Cardinality(more \cup written) \in Nat
            /\ Cardinality(more \cup written) <= Cardinality(more) + 1
        <4>1. CASE written = {}
          <5>1. more \cup written = more
            BY <4>1
          <5>2. Cardinality(more \cup written) = Cardinality(more)
            BY <5>1
          <5>3. QED
            BY <3>4, <5>2
        <4>2. CASE written = {Head(fresh)}
          <5>1. /\ Cardinality(more \cup {Head(fresh)}) \in Nat
                /\ Cardinality(more \cup {Head(fresh)}) <= Cardinality(more) + 1
            BY <3>1, <3>4, ReadingsCounted
          <5>2. QED
            BY <4>2, <5>1
        <4>3. QED
          BY <4>1, <4>2
      <3>6. Cardinality(more \cup written) + 1 <= 2 * (crashes + 1)
        BY <1>a, <3>4, <3>5
      <3>7. QED
        BY <2>1, <3>3, <3>6 DEF CrashInv
    <2>4. QED
      BY <2>2, <2>3
  <1>6. CASE LinkDown \/ LinkUp \/ ChangeConfig \/ Start \/ ReadFails \/ GiveUp
    BY <1>1, <1>6 DEF LinkDown, LinkUp, ChangeConfig, Start, ReadFails, GiveUp
  <1>7. CASE LoadConfig \/ TakeReadings \/ PostFails \/ Answer
    BY <1>1, <1>7 DEF LoadConfig, TakeReadings, PostFails, Answer
  <1>8. ASSUME NEW q \in Slots,
               Post(q) \/ DropAnswer(q) \/ CommitBatch(q) \/ AbortBatch(q)
        PROVE  UNCHANGED <<corrupt, file, crashes>>
    BY <1>8 DEF Post, DropAnswer, CommitBatch, AbortBatch
  <1>9. ASSUME NEW q \in Slots, NEW r \in Readings, record_measurement(q, r)
        PROVE  UNCHANGED <<corrupt, file, crashes>>
    BY <1>9 DEF record_measurement
  <1>10. CASE UNCHANGED vars
    BY <1>1, <1>10
  <1>11. QED
    BY <1>1, <1>2, <1>3, <1>4, <1>5, <1>6, <1>7, <1>8, <1>9, <1>10
    DEF Next, DaemonStep, ServerStep

LEMMA Invariant == Spec => []Inv
  <1>1. Inv /\ [Next]_vars => Inv'
    BY TypeStep, NeverLostStep, InsertedStep, CrashStep DEF Inv
  <1>2. QED
    BY <1>1, InitInv, PTL DEF Spec

-----------------------------------------------------------------------------
(* The daemon and the requests keep their types: in particular pending()   *)
(* and append() only ever meet lines of readings.                          *)
THEOREM TypeCorrect == Spec => []TypeOK
  <1>1. Inv => TypeOK
    BY DEF Inv
  <1>2. QED
    BY <1>1, Invariant, PTL

(* Lost answers, late commits, rollbacks and restarts lose no reading that *)
(* a crash did not find in memory (modbus_daemon.py, offline_buffer.py).   *)
THEOREM ReadingNeverLostHolds == Spec => []ReadingNeverLost
  <1>1. Inv => ReadingNeverLost
    BY DEF Inv
  <1>2. QED
    BY <1>1, Invariant, PTL

(* Whatever batches carry the same reading, and however many are open at   *)
(* once, it is evaluated once (record_measurement, telemetry.py).          *)
THEOREM EvaluatedOnceHolds == Spec => []EvaluatedOnce
  <1>1. Inv => EvaluatedOnce
    BY DEF Inv, InsertedInv
  <1>2. QED
    BY <1>1, Invariant, PTL

(* A crash costs the readings of two lines at most (OfflineBuffer).        *)
THEOREM CrashQuarantinesLittleHolds == Spec => []CrashQuarantinesLittle
  <1>1. ASSUME Inv
        PROVE  CrashQuarantinesLittle
    <2> DEFINE bad == corrupt \cup Spoilt(file)
    <2>1. /\ bad \in SUBSET Readings /\ corrupt \in SUBSET bad
          /\ crashes \in Nat /\ Risk(file) \in {0, 1, 2}
      BY <1>1, SpoiltReadings DEF Inv, TypeOK, Risk
    <2>2. Cardinality(bad) + Risk(file) <= 2 * crashes
      BY <1>1 DEF Inv, CrashInv
    <2> HIDE DEF bad
    <2>3. /\ Cardinality(corrupt) <= Cardinality(bad)
          /\ Cardinality(corrupt) \in Nat /\ Cardinality(bad) \in Nat
      BY <2>1, ReadingsCounted
    <2>4. QED
      BY <2>1, <2>2, <2>3 DEF CrashQuarantinesLittle
  <1>2. QED
    BY <1>1, Invariant, PTL

(* clear() and the replacement of the file never remove a reading that the *)
(* API has not answered for (modbus_daemon.py, run).                       *)
THEOREM ClearedOnlyWhenSettledHolds == Spec => ClearedOnlyWhenSettled
  <1>1. ASSUME Inv, [Next]_vars, file # <<>>, file' = <<>>
        PROVE  Held(file) \subseteq Settled \cup corrupt
    <2> USE DEF vars, faultVars, configVars, memoryVars, fileVars, requestVars, tableVars
    <2>1. CASE file' = file
      BY <1>1, <2>1
    <2>2. CASE ReplaceBuffer
      <3>1. pc = "replace" /\ Held(file') = ToSet(pending)
        BY <1>1, <2>2, FilesKeepTypes DEF ReplaceBuffer, Inv
      <3>2. ToSet(pending) = {}
        BY <1>1, <3>1, EmptyFile
      <3>3. QED
        BY <1>1, <3>1, <3>2 DEF Inv, SentInv
    <2>3. CASE ClearBuffer
      BY <1>1, <2>3 DEF ClearBuffer, Inv, SentInv, Sent
    <2>4. CASE AppendReading
      <3>1. CASE fresh = <<>>
        BY <1>1, <2>4, <3>1 DEF AppendReading
      <3>2. CASE fresh # <<>>
        <4>1. file' = Appended(file, Head(fresh)) /\ Head(fresh) \in Readings
          BY <1>1, <2>4, <3>2, HeadTailProperties DEF AppendReading, Inv, TypeOK
        <4>2. QED
          BY <1>1, <4>1, AppendedLine DEF Inv, DaemonInv
      <3>3. QED
        BY <3>1, <3>2
    <2>5. CASE Crash
      <3>1. file \in Seq(Lines)
        BY <1>1 DEF Inv, TypeOK
      <3>2. ASSUME NEW l PROVE Append(file, l) # <<>>
        <4>1. file \in Seq(Lines \cup {l}) /\ l \in Lines \cup {l}
          BY <3>1, SeqMonotonic
        <4>2. QED
          BY <4>1, AppendProperties
      <3>3. ASSUME NEW written \in SUBSET {Head(fresh)}, fresh # <<>>, ~AtLineStart(file),
                   file' = Joined(file, written, FALSE)
            PROVE  file' # <<>>
        <4>0. Head(fresh) \in Readings
          BY <1>1, <3>3, HeadTailProperties DEF Inv, TypeOK
        <4>1. written \in SUBSET Readings
          BY <4>0
        <4>2. QED
          BY <1>1, <3>3, <4>1, JoinedLine DEF Inv, DaemonInv
      <3>4. QED
        BY <1>1, <2>5, <3>2, <3>3 DEF Crash
    <2>6. CASE LinkDown \/ LinkUp \/ ChangeConfig \/ Start \/ ReadFails \/ GiveUp
      BY <2>1, <2>6 DEF LinkDown, LinkUp, ChangeConfig, Start, ReadFails, GiveUp
    <2>7. CASE LoadConfig \/ TakeReadings \/ PostFails \/ Answer \/ ReadBuffer
      BY <2>1, <2>7 DEF LoadConfig, TakeReadings, PostFails, Answer, ReadBuffer
    <2>8. ASSUME NEW q \in Slots,
                 Post(q) \/ DropAnswer(q) \/ CommitBatch(q) \/ AbortBatch(q)
          PROVE  file' = file
      BY <2>8 DEF Post, DropAnswer, CommitBatch, AbortBatch
    <2>9. ASSUME NEW q \in Slots, NEW r \in Readings, record_measurement(q, r)
          PROVE  file' = file
      BY <2>9 DEF record_measurement
    <2>10. CASE UNCHANGED vars
      BY <2>1, <2>10
    <2>11. QED
      BY <1>1, <2>1, <2>2, <2>3, <2>4, <2>5, <2>6, <2>7, <2>8, <2>9, <2>10
      DEF Next, DaemonStep, ServerStep
  <1>2. Inv /\ [Next]_vars =>
          [file # <<>> /\ file' = <<>> => Held(file) \subseteq Settled \cup corrupt]_vars
    BY <1>1
  <1>3. QED
    BY <1>2, Invariant, PTL DEF Spec, ClearedOnlyWhenSettled

-----------------------------------------------------------------------------
(* The refinement of ReadingDelivery.                                      *)

(* Further conjuncts that the refinement needs: everything in flight was   *)
(* taken, each new reading is once in memory and not yet in the buffer,    *)
(* and nothing is rewritten in the buffer that was not there.              *)
MemoryInv ==
    /\ \A i, j \in DOMAIN fresh : fresh[i] = fresh[j] => i = j
    /\ ToSet(fresh) \cap Held(file) = {}
    /\ ToSet(fresh) \cup ToSet(pending) \cup Held(file) \subseteq Taken
    /\ \A q \in Slots : left[q] \cup judged[q] \subseteq Taken
    /\ pc = "replace" => ToSet(pending) \subseteq Held(file)

LEMMA HeadNotInTail ==
  ASSUME NEW S, NEW s \in Seq(S), s # <<>>,
         \A i, j \in DOMAIN s : s[i] = s[j] => i = j
  PROVE  /\ ToSet(Tail(s)) = ToSet(s) \ {Head(s)}
         /\ \A i, j \in DOMAIN Tail(s) : Tail(s)[i] = Tail(s)[j] => i = j
  <1>1. /\ Len(s) \in Nat \ {0} /\ DOMAIN s = 1..Len(s)
        /\ DOMAIN Tail(s) = 1..(Len(s) - 1)
        /\ \A i \in 1..(Len(s) - 1) : Tail(s)[i] = s[i + 1]
        /\ Head(s) = s[1]
    BY HeadTailProperties, LenProperties, EmptySeq
  <1>2. ASSUME NEW i \in 1..(Len(s) - 1)
        PROVE  Tail(s)[i] # Head(s)
    <2>1. i + 1 \in DOMAIN s /\ 1 \in DOMAIN s /\ i + 1 # 1
      BY <1>1
    <2>2. QED
      BY <1>1, <2>1
  <1>3. ASSUME NEW i \in 1..(Len(s) - 1), NEW j \in 1..(Len(s) - 1), Tail(s)[i] = Tail(s)[j]
        PROVE  i = j
    <2>1. i + 1 \in DOMAIN s /\ j + 1 \in DOMAIN s /\ s[i + 1] = s[j + 1]
      BY <1>1, <1>3
    <2>2. i + 1 = j + 1
      BY <2>1
    <2>3. QED
      BY <2>2
  <1>4. Head(s) \notin ToSet(Tail(s))
    BY <1>1, <1>2 DEF ToSet
  <1>5. ToSet(s) = {Head(s)} \cup ToSet(Tail(s))
    BY HeadAndTail
  <1>6. ToSet(Tail(s)) = ToSet(s) \ {Head(s)}
    BY <1>4, <1>5
  <1>7. QED
    BY <1>1, <1>3, <1>6

(* A write cut by the crash leaves nothing, or the reading it was for.     *)
LEMMA CrashWrites ==
  ASSUME TypeOK, DaemonInv, Crash
  PROVE  \E written \in SUBSET ToSet(fresh) : Held(file') = Held(file) \cup written
  <1>1. file \in Seq(WrittenLines)
    BY DEF DaemonInv
  <1>2. CASE file' = file
    <2>1. {} \in SUBSET ToSet(fresh) /\ Held(file') = Held(file) \cup {}
      BY <1>2
    <2>2. QED
      BY <2>1
  <1>3. CASE file' = Append(file, [holds |-> {}, parses |-> FALSE, ended |-> FALSE])
    <2> DEFINE l == [holds |-> {}, parses |-> FALSE, ended |-> FALSE]
    <2>1. l \in WrittenLines /\ l.holds = {} /\ file' = Append(file, l)
      BY <1>3 DEF WrittenLines, Lines
    <2> HIDE DEF l
    <2>2. {} \in SUBSET ToSet(fresh) /\ Held(file') = Held(file) \cup {}
      BY <1>1, <2>1, AddLine
    <2>3. QED
      BY <2>2
  <1>4. CASE fresh # <<>> /\ file' = Append(file, [Line(Head(fresh)) EXCEPT !.ended = FALSE])
    <2> DEFINE l == [Line(Head(fresh)) EXCEPT !.ended = FALSE]
    <2>1. Head(fresh) \in Readings /\ Head(fresh) \in ToSet(fresh)
      BY <1>4, HeadTailProperties, HeadAndTail DEF TypeOK
    <2>2. l \in WrittenLines /\ l.holds = {Head(fresh)} /\ file' = Append(file, l)
      BY <1>4, <2>1 DEF WrittenLines, Lines, Line
    <2> HIDE DEF l
    <2>3. {Head(fresh)} \in SUBSET ToSet(fresh) /\ Held(file') = Held(file) \cup {Head(fresh)}
      BY <1>1, <2>1, <2>2, AddLine
    <2>4. QED
      BY <2>3
  <1>5. ASSUME NEW cut \in SUBSET {Head(fresh)}, fresh # <<>>, ~AtLineStart(file),
               file' = Joined(file, cut, FALSE)
        PROVE  \E written \in SUBSET ToSet(fresh) : Held(file') = Held(file) \cup written
    <2>1. Head(fresh) \in Readings /\ Head(fresh) \in ToSet(fresh)
      BY <1>5, HeadTailProperties, HeadAndTail DEF TypeOK
    <2>2. cut \in SUBSET Readings /\ cut \in SUBSET ToSet(fresh)
      BY <2>1
    <2>3. Held(file') = Held(file) \cup cut
      BY <1>1, <1>5, <2>2, JoinedLine
    <2>4. QED
      BY <2>2, <2>3
  <1>6. QED
    BY <1>2, <1>3, <1>4, <1>5 DEF Crash

LEMMA MemoryInit == Init => MemoryInv
  BY EmptyFile DEF Init, MemoryInv, Taken

LEMMA MemoryStep == TypeOK /\ DaemonInv /\ MemoryInv /\ [Next]_vars => MemoryInv'
  <1> SUFFICES ASSUME TypeOK, DaemonInv, MemoryInv, [Next]_vars PROVE MemoryInv'
    OBVIOUS
  <1> USE DEF MemoryInv
  <1> USE DEF vars, faultVars, configVars, memoryVars, fileVars, requestVars, tableVars
  <1>b. ToSet(<<>>) = {} /\ DOMAIN <<>> = {}
    BY EmptyFile
  <1>1. CASE UNCHANGED <<next, fresh, pending, file, left, judged>> /\ pc' # "replace"
    BY <1>1 DEF Taken
  <1>2. CASE TakeReadings
    <2>1. /\ pc' = "pending" /\ UNCHANGED <<pending, file, left, judged>>
          /\ fresh' = [i \in 1..TakenNow |-> next + i - 1]
      BY <1>2 DEF TakeReadings
    <2>2. Taken' = Taken \cup ToSet(fresh')
      BY <1>2, ReadingsTaken
    <2>3. next \in Nat
      BY DEF TypeOK
    <2>4. \A i, j \in DOMAIN fresh' : fresh'[i] = fresh'[j] => i = j
      BY <2>1, <2>3
    <2>5. ToSet(fresh') \cap Taken = {}
      BY <2>1, <2>3 DEF ToSet, Taken
    <2>6. QED
      BY <2>1, <2>2, <2>4, <2>5
  <1>3. CASE ReadBuffer
    <2>1. ToSet(pending') \subseteq Held(file)
      BY <1>3, FilesKeepTypes
    <2>2. UNCHANGED <<next, fresh, file, left, judged>>
      BY <1>3 DEF ReadBuffer
    <2>3. QED
      BY <2>1, <2>2 DEF Taken
  <1>4. CASE ReplaceBuffer
    <2>1. Held(file') = ToSet(pending)
      BY <1>4, FilesKeepTypes
    <2>2. /\ pc = "replace" /\ pc' = "post"
          /\ UNCHANGED <<next, fresh, pending, left, judged>>
      BY <1>4 DEF ReplaceBuffer
    <2>3. ToSet(fresh) \cap Held(file') = {}
      BY <2>1, <2>2
    <2>4. QED
      BY <2>1, <2>2, <2>3 DEF Taken
  <1>5. ASSUME NEW q \in Slots, Post(q)
        PROVE  MemoryInv'
    <2>1. pc' = "wait" /\ UNCHANGED <<next, fresh, pending, file, judged>>
      BY <1>5 DEF Post
    <2>2. \A p \in Slots : left'[p] \subseteq left[p] \cup ToSet(pending) \cup ToSet(fresh)
      <3>1. \/ left' = [left EXCEPT ![q] = ToSet(pending) \cup ToSet(fresh)]
            \/ left' = left
        BY <1>5 DEF Post
      <3>2. QED
        BY <3>1 DEF TypeOK
    <2>3. QED
      BY <2>1, <2>2 DEF Taken
  <1>6. CASE ClearBuffer
    <2>1. /\ pc' = "config" /\ file' = <<>> /\ fresh' = <<>> /\ pending' = <<>>
          /\ UNCHANGED <<next, left, judged>>
      BY <1>6 DEF ClearBuffer
    <2>2. QED
      BY <1>b, <2>1, EmptyFile DEF Taken
  <1>7. CASE AppendReading
    <2>1. UNCHANGED <<next, left, judged>> /\ pc = "append"
      BY <1>7 DEF AppendReading
    <2>2. CASE fresh = <<>>
      <3>1. pc' = "config" /\ pending' = <<>> /\ UNCHANGED <<fresh, file>>
        BY <1>7, <2>2 DEF AppendReading
      <3>2. QED
        BY <1>b, <2>1, <3>1 DEF Taken
    <2>3. CASE fresh # <<>>
      <3>1. /\ file' = Appended(file, Head(fresh)) /\ fresh' = Tail(fresh)
            /\ pc' = pc /\ pending' = pending
        BY <1>7, <2>3 DEF AppendReading
      <3>2. Head(fresh) \in Readings /\ ToSet(fresh) = {Head(fresh)} \cup ToSet(Tail(fresh))
        BY <2>3, HeadTailProperties, HeadAndTail DEF TypeOK
      <3>3. Held(file') = Held(file) \cup {Head(fresh)}
        BY <3>1, <3>2, AppendedLine DEF DaemonInv
      <3>4. \A i, j \in DOMAIN fresh' : fresh'[i] = fresh'[j] => i = j
        BY <2>3, <3>1, HeadNotInTail DEF TypeOK
      <3>5. ToSet(fresh') = ToSet(fresh) \ {Head(fresh)}
        BY <2>3, <3>1, HeadNotInTail DEF TypeOK
      <3>6. /\ ToSet(fresh') \cup Held(file') \subseteq ToSet(fresh) \cup Held(file)
            /\ ToSet(fresh') \cap Held(file') = {}
        BY <3>2, <3>3, <3>5
      <3>7. QED
        BY <2>1, <3>1, <3>4, <3>6 DEF Taken
    <2>4. QED
      BY <2>2, <2>3
  <1>8. CASE Crash
    <2>1. /\ pc' = "stopped" /\ fresh' = <<>> /\ pending' = <<>>
          /\ UNCHANGED <<next, left, judged>>
      BY <1>8 DEF Crash
    <2>2. Held(file') \subseteq Held(file) \cup ToSet(fresh)
      BY <1>8, CrashWrites
    <2>3. QED
      BY <1>b, <2>1, <2>2 DEF Taken
  <1>9. ASSUME NEW q \in Slots, NEW r \in Readings, record_measurement(q, r)
        PROVE  MemoryInv'
    <2>1. UNCHANGED <<next, fresh, pending, file, pc>>
      BY <1>9 DEF record_measurement
    <2>2. \A p \in Slots : left'[p] \cup judged'[p] \subseteq left[p] \cup judged[p]
      BY <1>9 DEF record_measurement, Judged, IsNext, TypeOK
    <2>3. QED
      BY <2>1, <2>2 DEF Taken
  <1>10. ASSUME NEW q \in Slots, CommitBatch(q) \/ AbortBatch(q) \/ DropAnswer(q)
         PROVE  MemoryInv'
    <2>1. UNCHANGED <<next, fresh, pending, file, pc>>
      BY <1>10 DEF CommitBatch, AbortBatch, DropAnswer
    <2>2. \A p \in Slots : left'[p] \cup judged'[p] \subseteq left[p] \cup judged[p]
      BY <1>10 DEF CommitBatch, AbortBatch, DropAnswer, Closed, TypeOK
    <2>3. QED
      BY <2>1, <2>2 DEF Taken
  <1>11. CASE LinkDown \/ LinkUp \/ ChangeConfig \/ UNCHANGED vars
    <2>1. UNCHANGED <<next, fresh, pending, file, left, judged, pc>>
      BY <1>11 DEF LinkDown, LinkUp, ChangeConfig
    <2>2. QED
      BY <2>1 DEF Taken
  <1>12. CASE Start \/ LoadConfig \/ ReadFails \/ PostFails \/ Answer \/ GiveUp
    BY <1>1, <1>12 DEF Start, LoadConfig, ReadFails, PostFails, Answer, GiveUp
  <1>13. QED
    BY <1>2, <1>3, <1>4, <1>5, <1>6, <1>7, <1>8, <1>9, <1>10, <1>11, <1>12
    DEF Next, DaemonStep, ServerStep

LEMMA DeliveryInit == Init => Delivery!Init
  BY EmptyFile DEF Init, Delivery!Init, Taken

(* Every step of the daemon, of the link and of the ingestion is a step of *)
(* ReadingDelivery, or changes nothing that it shows.                      *)
LEMMA DeliveryStep == Inv /\ MemoryInv /\ [Next]_vars => [Delivery!Next]_(Delivery!vars)
  <1> DEFINE shown == <<Taken, ToSet(fresh), Held(file), corrupt, lost, stored, refused, evaluated>>
             Goal == Delivery!Next \/ UNCHANGED shown
  <1>a. Goal => [Delivery!Next]_(Delivery!vars)
    BY DEF Delivery!vars, Delivery!siteVars, Delivery!verdictVars
  <1> SUFFICES ASSUME Inv, MemoryInv, [Next]_vars PROVE Goal
    BY <1>a
  <1>b. TypeOK /\ DaemonInv /\ SentInv /\ InsertedInv
    BY DEF Inv
  <1> USE DEF vars, faultVars, configVars, memoryVars, fileVars, requestVars, tableVars
  <1> USE DEF Delivery!siteVars, Delivery!verdictVars
  <1>1. CASE UNCHANGED <<next, fresh, file, corrupt, lost, stored, refused, evaluated>>
    BY <1>1 DEF Taken
  <1>2. CASE TakeReadings
    <2>1. /\ pc = "take"
          /\ fresh' = [i \in 1..TakenNow |-> next + i - 1]
          /\ UNCHANGED <<file, corrupt, lost, stored, refused, evaluated>>
      BY <1>2 DEF TakeReadings
    <2>2. /\ fresh' \in Seq(Readings) /\ Taken' = Taken \cup ToSet(fresh')
      BY <1>b, <1>2, ReadingsTaken
    <2>3. ToSet(fresh) = {}
      BY <1>b, <2>1, EmptyFile DEF DaemonInv
    <2>4. ToSet(fresh') \in SUBSET (Readings \ Taken)
      <3>1. next \in Nat
        BY <1>b DEF TypeOK
      <3>2. \A i \in 1..TakenNow : next + i - 1 \notin Taken
        BY <3>1 DEF Taken
      <3>3. ToSet(fresh') \subseteq Readings
        BY <2>2, LenProperties, ElementOfSeq DEF ToSet
      <3>4. ToSet(fresh') = {next + i - 1 : i \in 1..TakenNow}
        BY <2>1 DEF ToSet
      <3>5. QED
        BY <3>2, <3>3, <3>4
    <2>5. Delivery!Take
      BY <2>1, <2>2, <2>3, <2>4 DEF Delivery!Take
    <2>6. QED
      BY <2>5 DEF Delivery!Next
  <1>3. CASE ReadBuffer
    <2>1. /\ corrupt' = corrupt \cup Spoilt(file)
          /\ UNCHANGED <<next, fresh, file, lost, stored, refused, evaluated>>
      BY <1>b, <1>3, FilesKeepTypes DEF ReadBuffer
    <2>2. Spoilt(file) \in SUBSET Held(file)
      BY LinesAsSets
    <2>3. Delivery!SetAside
      BY <2>1, <2>2 DEF Delivery!SetAside, Taken
    <2>4. QED
      BY <2>3 DEF Delivery!Next
  <1>4. CASE ReplaceBuffer
    <2>1. /\ Held(file') = ToSet(pending) /\ pc = "replace"
          /\ UNCHANGED <<next, fresh, corrupt, lost, stored, refused, evaluated>>
      BY <1>b, <1>4, FilesKeepTypes DEF ReplaceBuffer
    <2>2. /\ ToSet(pending) \subseteq Held(file)
          /\ Held(file) \subseteq ToSet(pending) \cup corrupt
      BY <1>b, <2>1 DEF MemoryInv, SentInv
    <2> DEFINE done == Held(file) \ ToSet(pending)
    <2>3. done \in SUBSET (stored \cup refused \cup corrupt)
      BY <2>2
    <2>4. ToSet(fresh') = ToSet(fresh) \ done /\ Held(file') = Held(file) \ done
      BY <2>1, <2>2 DEF MemoryInv
    <2> HIDE DEF done
    <2>5. Delivery!Release
      BY <2>1, <2>3, <2>4 DEF Delivery!Release, Taken
    <2>6. QED
      BY <2>5 DEF Delivery!Next
  <1>5. CASE ClearBuffer
    <2>1. /\ pc = "clear" /\ file' = <<>> /\ fresh' = <<>>
          /\ UNCHANGED <<next, corrupt, lost, stored, refused, evaluated>>
      BY <1>5 DEF ClearBuffer
    <2> DEFINE done == ToSet(fresh) \cup Held(file)
    <2>2. done \in SUBSET (stored \cup refused \cup corrupt)
      BY <1>b, <2>1 DEF SentInv, Sent, Settled
    <2>3. ToSet(fresh') = ToSet(fresh) \ done /\ Held(file') = Held(file) \ done
      BY <2>1, EmptyFile
    <2> HIDE DEF done
    <2>4. Delivery!Release
      BY <2>1, <2>2, <2>3 DEF Delivery!Release, Taken
    <2>5. QED
      BY <2>4 DEF Delivery!Next
  <1>6. CASE AppendReading
    <2>1. CASE fresh = <<>>
      BY <1>1, <1>6, <2>1 DEF AppendReading
    <2>2. CASE fresh # <<>>
      <3>1. /\ file' = Appended(file, Head(fresh)) /\ fresh' = Tail(fresh)
            /\ UNCHANGED <<next, corrupt, lost, stored, refused, evaluated>>
        BY <1>6, <2>2 DEF AppendReading
      <3>2. Head(fresh) \in Readings /\ Head(fresh) \in ToSet(fresh)
        BY <1>b, <2>2, HeadTailProperties, HeadAndTail DEF TypeOK
      <3>3. Held(file') = Held(file) \cup {Head(fresh)}
        BY <1>b, <3>1, <3>2, AppendedLine DEF DaemonInv
      <3>4. ToSet(fresh') = ToSet(fresh) \ {Head(fresh)}
        BY <1>b, <2>2, <3>1, HeadNotInTail DEF TypeOK, MemoryInv
      <3>5. Delivery!Save
        BY <3>1, <3>2, <3>3, <3>4 DEF Delivery!Save, Taken
      <3>6. QED
        BY <3>5 DEF Delivery!Next
    <2>3. QED
      BY <2>1, <2>2
  <1>7. CASE Crash
    <2>1. /\ fresh' = <<>> /\ lost' = lost \cup (ToSet(fresh) \ Held(file'))
          /\ UNCHANGED <<next, corrupt, stored, refused, evaluated>>
      BY <1>7 DEF Crash
    <2>2. PICK written \in SUBSET ToSet(fresh) : Held(file') = Held(file) \cup written
      BY <1>b, <1>7, CrashWrites
    <2>3. Delivery!Crash
      BY <2>1, <2>2, EmptyFile DEF Delivery!Crash, Taken
    <2>4. QED
      BY <2>3 DEF Delivery!Next
  <1>8. ASSUME NEW q \in Slots, CommitBatch(q)
        PROVE  Goal
    <2> DEFINE accepted == judged[q] \ Refusable
               rejected == judged[q] \cap Refusable
    <2>1. /\ stored' = stored \cup accepted /\ refused' = refused \cup rejected
          /\ evaluated' = [r \in Readings |->
                             evaluated[r] + (IF r \in accepted THEN 1 ELSE 0)]
          /\ UNCHANGED <<next, fresh, file, corrupt, lost>>
      BY <1>8 DEF CommitBatch
    <2>2. /\ accepted \in SUBSET (Taken \ (stored \cup Refusable))
          /\ rejected \in SUBSET (Taken \cap Refusable)
      BY <1>b DEF MemoryInv, InsertedInv
    <2> HIDE DEF accepted, rejected
    <2>3. Delivery!Judge
      BY <2>1, <2>2 DEF Delivery!Judge, Taken
    <2>4. QED
      BY <2>3 DEF Delivery!Next
  <1>9. ASSUME NEW q \in Slots, Post(q) \/ AbortBatch(q) \/ DropAnswer(q)
        PROVE  Goal
    <2>1. UNCHANGED <<next, fresh, file, corrupt, lost, stored, refused, evaluated>>
      BY <1>9 DEF Post, AbortBatch, DropAnswer
    <2>2. QED
      BY <1>1, <2>1
  <1>10. ASSUME NEW q \in Slots, NEW r \in Readings, record_measurement(q, r)
         PROVE  Goal
    <2>1. UNCHANGED <<next, fresh, file, corrupt, lost, stored, refused, evaluated>>
      BY <1>10 DEF record_measurement
    <2>2. QED
      BY <1>1, <2>1
  <1>11. CASE LinkDown \/ LinkUp \/ ChangeConfig \/ UNCHANGED vars
    BY <1>1, <1>11 DEF LinkDown, LinkUp, ChangeConfig
  <1>12. CASE Start \/ LoadConfig \/ ReadFails \/ PostFails \/ Answer \/ GiveUp
    BY <1>1, <1>12 DEF Start, LoadConfig, ReadFails, PostFails, Answer, GiveUp
  <1>13. QED
    BY <1>2, <1>3, <1>4, <1>5, <1>6, <1>7, <1>8, <1>9, <1>10, <1>11, <1>12
    DEF Next, DaemonStep, ServerStep

(* The daemon, its file and the ingestion implement the promise made of    *)
(* each reading, ReadingDelivery: it leaves the site with a verdict or set *)
(* aside, is lost only with the memory of the daemon, and is accepted and  *)
(* evaluated once (modbus_daemon.py, offline_buffer.py, telemetry.py).     *)
THEOREM DeliveryRefinement == Spec => ImplementsDelivery
  <1>1. Inv /\ MemoryInv /\ [Next]_vars => MemoryInv'
    BY MemoryStep DEF Inv
  <1>2. QED
    BY <1>1, Invariant, MemoryInit, DeliveryInit, DeliveryStep, PTL
    DEF Spec, ImplementsDelivery, Delivery!Spec
=============================================================================
