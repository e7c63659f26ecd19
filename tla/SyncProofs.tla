------------------------------ MODULE SyncProofs ------------------------------
(***************************************************************************)
(* Proofs about the two ways of a synchronization of the phone, for any    *)
(* number of rows, pages, people, interruptions and lost answers: the feed *)
(* that it pulls, and the interventions that it sends; and about the       *)
(* admission of its requests, and all others, by the service.              *)
(***************************************************************************)
EXTENDS SyncFeed, PendingUpload, Admission, FiniteSetTheorems, SequenceTheorems, TLAPS

-----------------------------------------------------------------------------
(* The feed.  No row is left behind the cursor of the phone, as long as a  *)
(* row becomes visible and a walk ends within OVERLAP (WithinOverlap).     *)
(*                                                                         *)
(* NothingBehindCursor says nothing of a walk under way, where late rows   *)
(* do stand behind the cursor: MissingInv says which, those stamped no     *)
(* earlier than MAX_TX before the walk began, and that the end of the walk *)
(* steps back to them.                                                     *)

(* Stamps lie in the past, but for at most MAX_TX while a transaction is   *)
(* open; a walk has lasted at most MAX_SCAN.                               *)
ClockInv ==
    /\ \A i \in Ids :
          /\ at[i] <= now
          /\ writing[i] # -1 => writing[i] <= now /\ now <= writing[i] + MAX_TX
    /\ walking => began <= now /\ now <= began + MAX_SCAN
    /\ pc \in {"read", "answered"} => walking

(* The phone never knows more than the server.                             *)
VersionInv ==
    /\ \A i \in Ids : cache[i] <= version[i] /\ pageVersion[i] <= version[i]
    /\ pc \in {"read", "answered"} => \A i \in page : cache[i] <= pageVersion[i]

(* Cursors that end a walk lie at least OVERLAP in the past.               *)
SteppedBack(c) == c = NoCursor \/ ~Precedes(<<now - OVERLAP, NIL_ID>>, c)

CursorInv ==
    /\ ~walking => SteppedBack(cursor)
    /\ pc = "answered" /\ ~more => SteppedBack(pageCursor)

(* A row that the walk under way may have passed by.                       *)
Late(i) == at[i] >= began - MAX_TX

MissingInv ==
    /\ walking =>
          \A i \in Ids : version[i] # cache[i] => After(cursor, i) \/ Late(i)
    /\ pc \in {"read", "answered"} =>
          /\ \A i \in page : pageVersion[i] = version[i] \/ Late(i)
          /\ \A i \in Ids \ page :
                version[i] # cache[i] =>
                    (more /\ After(pageCursor, i)) \/ Late(i)

IInv ==
    /\ TypeOK
    /\ ClockInv
    /\ VersionInv
    /\ CursorInv
    /\ MissingInv
    /\ PullAdvances
    /\ NothingBehindCursor

-----------------------------------------------------------------------------
(* A row stamped after the instant to which a cursor was stepped back      *)
(* comes after that cursor: NIL_ID precedes every identifier.              *)
LEMMA SteppedBackIsBefore ==
  ASSUME NEW c \in Cursors, NEW n \in Int, ~Precedes(<<n, NIL_ID>>, c),
         NEW i \in Ids, NEW a \in Int, a >= n
  PROVE  Precedes(c, <<a, i>>)
  <1>1. c[1] \in Int /\ c[2] \in Nat
    BY DEF Cursors
  <1>2. i \in Nat /\ NIL_ID < i
    BY SyncFeedAssumption DEF NIL_ID
  <1>3. c[1] < n \/ (c[1] = n /\ c[2] <= NIL_ID)
    BY <1>1 DEF Precedes, NIL_ID
  <1>4. QED
    BY <1>1, <1>2, <1>3 DEF Precedes, NIL_ID

(* What FetchPage does, in the terms of the invariant: a page that is not  *)
(* the end of the feed has rows, its cursor is the key of one of them, and *)
(* the rows it leaves come after that cursor.                              *)
LEMMA FetchedPage ==
  ASSUME TypeOK, FetchPage
  PROVE  /\ page' \subseteq Rows
         /\ more' = (page' # Rows)
         /\ more' => \E i \in Rows : pageCursor' = Key(i)
         /\ more' => \A j \in Rows \ page' : Precedes(pageCursor', Key(j))
         /\ ~more' => pageCursor' = cursor \/ \E i \in Rows : pageCursor' = Key(i)
  <1>1. page' \subseteq Rows /\ FirstRows(page') /\ more' = (page' # Rows)
    BY DEF FetchPage
  <1>2. ASSUME page' = {} PROVE Rows = {}
    <2>1. Rows \subseteq Ids
      BY DEF Rows
    <2>2. IsFiniteSet(Rows)
      BY <2>1, SyncFeedAssumption, FS_Subset
    <2>3. Cardinality(page') = 0
      BY <1>2, FS_EmptySet
    <2>4. Cardinality(Rows) \in Nat
      BY <2>2, FS_CardinalityType
    <2>5. Cardinality(Rows) = 0
      BY <1>1, <2>3, <2>4, SyncFeedAssumption DEF FirstRows
    <2>6. QED
      BY <2>2, <2>5, FS_EmptySet
  <1>3. CASE page' = {}
    BY <1>1, <1>2, <1>3 DEF FetchPage
  <1>4. CASE page' # {}
    <2>1. PICK i \in page' :
             /\ \A j \in page' : j = i \/ Precedes(Key(j), Key(i))
             /\ pageCursor' = Key(i)
      BY <1>4 DEF FetchPage
    <2>2. \A j \in Rows \ page' : Precedes(Key(i), Key(j))
      BY <1>1, <2>1 DEF FirstRows
    <2>3. QED
      BY <1>1, <2>1, <2>2
  <1>5. QED
    BY <1>3, <1>4

-----------------------------------------------------------------------------
(* The invariant holds initially.                                          *)
LEMMA InitInv == Init => IInv
  <1> SUFFICES ASSUME Init PROVE IInv
    OBVIOUS
  <1>1. TypeOK
    <2>1. more \in BOOLEAN /\ walking \in BOOLEAN
      BY DEF Init
    <2>2. QED
      BY <2>1 DEF Init, TypeOK
  <1>2. ClockInv
    BY DEF Init, ClockInv
  <1>3. VersionInv
    BY DEF Init, VersionInv
  <1>4. CursorInv /\ MissingInv /\ PullAdvances /\ NothingBehindCursor
    BY DEF Init, CursorInv, SteppedBack, MissingInv, PullAdvances, NothingBehindCursor
  <1>5. QED
    BY <1>1, <1>2, <1>3, <1>4 DEF IInv

(* Type correctness is inductive. *)
LEMMA TypeStep == TypeOK /\ [Next]_vars => TypeOK'
  <1> SUFFICES ASSUME TypeOK, [Next]_vars PROVE TypeOK'
    OBVIOUS
  <1> USE DEF TypeOK, rowVars, storeVars, pageVars
  <1>1. CASE Tick
    BY <1>1 DEF Tick
  <1>2. ASSUME NEW i \in Ids, WriteBegin(i) PROVE TypeOK'
    BY <1>2 DEF WriteBegin
  <1>3. ASSUME NEW i \in Ids, WriteCommit(i) PROVE TypeOK'
    BY <1>3 DEF WriteCommit
  <1>4. CASE StartPull
    BY <1>4 DEF StartPull
  <1>5. CASE FetchPage
    <2>1. \A i \in Ids : Key(i) \in Cursors
      BY SyncFeedAssumption DEF Key, Cursors
    <2>2. pageCursor' \in Cursors \cup {NoCursor}
      BY <2>1, <1>5, FetchedPage DEF Rows
    <2>3. page' \subseteq Ids
      BY <1>5, FetchedPage DEF Rows
    <2>4. QED
      BY <2>2, <2>3, <1>5 DEF FetchPage
  <1>6. CASE AnswerPage
    <2>1. <<now - OVERLAP, NIL_ID>> \in Cursors
      BY SyncFeedAssumption DEF Cursors, NIL_ID
    <2>2. QED
      BY <2>1, <1>6 DEF AnswerPage, next_cursor
  <1>7. CASE ApplyPage
    <2>1. walking' \in BOOLEAN /\ more' \in BOOLEAN
      BY <1>7 DEF ApplyPage, PageForgotten
    <2>2. QED
      BY <2>1, <1>7 DEF ApplyPage, PageForgotten
  <1>8. CASE Interrupt
    <2>1. walking' \in BOOLEAN /\ more' \in BOOLEAN
      BY <1>8 DEF Interrupt, PageForgotten
    <2>2. QED
      BY <2>1, <1>8 DEF Interrupt, PageForgotten
  <1>9. CASE RejectCursor
    <2>1. walking' \in BOOLEAN /\ more' \in BOOLEAN
      BY <1>9 DEF RejectCursor
    <2>2. QED
      BY <2>1, <1>9 DEF RejectCursor
  <1>10. CASE UNCHANGED vars
    BY <1>10 DEF vars
  <1>11. QED
    BY <1>1, <1>2, <1>3, <1>4, <1>5, <1>6, <1>7, <1>8, <1>9, <1>10 DEF Next, PullStep

(* Open transactions and walks end in time: Tick waits for them. *)
LEMMA ClockStep == TypeOK /\ ClockInv /\ [Next]_vars => ClockInv'
  <1> SUFFICES ASSUME TypeOK, ClockInv, [Next]_vars PROVE ClockInv'
    OBVIOUS
  <1> USE SyncFeedAssumption DEF TypeOK, ClockInv, rowVars, storeVars, pageVars
  <1>1. CASE Tick
    BY <1>1 DEF Tick
  <1>2. ASSUME NEW i \in Ids, WriteBegin(i) PROVE ClockInv'
    BY <1>2 DEF WriteBegin
  <1>3. ASSUME NEW i \in Ids, WriteCommit(i) PROVE ClockInv'
    BY <1>3 DEF WriteCommit
  <1>4. CASE StartPull
    BY <1>4 DEF StartPull
  <1>5. CASE FetchPage
    BY <1>5 DEF FetchPage
  <1>6. CASE AnswerPage
    BY <1>6 DEF AnswerPage
  <1>7. CASE ApplyPage
    BY <1>7 DEF ApplyPage, PageForgotten
  <1>8. CASE Interrupt
    BY <1>8 DEF Interrupt, PageForgotten
  <1>9. CASE RejectCursor
    BY <1>9 DEF RejectCursor
  <1>10. CASE UNCHANGED vars
    BY <1>10 DEF vars
  <1>11. QED
    BY <1>1, <1>2, <1>3, <1>4, <1>5, <1>6, <1>7, <1>8, <1>9, <1>10 DEF Next, PullStep

(* Pages are read and applied one after the other. *)
LEMMA VersionStep == TypeOK /\ VersionInv /\ [Next]_vars => VersionInv'
  <1> SUFFICES ASSUME TypeOK, VersionInv, [Next]_vars PROVE VersionInv'
    OBVIOUS
  <1> USE DEF TypeOK, VersionInv, rowVars, storeVars, pageVars
  <1>1. CASE Tick
    BY <1>1 DEF Tick
  <1>2. ASSUME NEW i \in Ids, WriteBegin(i) PROVE VersionInv'
    BY <1>2 DEF WriteBegin
  <1>3. ASSUME NEW i \in Ids, WriteCommit(i) PROVE VersionInv'
    BY <1>3 DEF WriteCommit
  <1>4. CASE StartPull
    BY <1>4 DEF StartPull
  <1>5. CASE FetchPage
    <2>1. page' \subseteq Ids
      BY <1>5, FetchedPage DEF Rows
    <2>2. QED
      BY <2>1, <1>5 DEF FetchPage
  <1>6. CASE AnswerPage
    BY <1>6 DEF AnswerPage
  <1>7. CASE ApplyPage
    BY <1>7 DEF ApplyPage, PageForgotten
  <1>8. CASE Interrupt
    BY <1>8 DEF Interrupt, PageForgotten
  <1>9. CASE RejectCursor
    BY <1>9 DEF RejectCursor
  <1>10. CASE UNCHANGED vars
    BY <1>10 DEF vars
  <1>11. QED
    BY <1>1, <1>2, <1>3, <1>4, <1>5, <1>6, <1>7, <1>8, <1>9, <1>10 DEF Next, PullStep

(* The cursor of a finished walk lies OVERLAP behind, and time only adds. *)
LEMMA CursorStep == TypeOK /\ ClockInv /\ CursorInv /\ [Next]_vars => CursorInv'
  <1> SUFFICES ASSUME TypeOK, ClockInv, CursorInv, [Next]_vars PROVE CursorInv'
    OBVIOUS
  <1> USE SyncFeedAssumption DEF TypeOK, ClockInv, CursorInv, SteppedBack, rowVars, storeVars, pageVars
  <1>1. CASE Tick
    BY <1>1 DEF Tick, Precedes, Cursors
  <1>2. ASSUME NEW i \in Ids, WriteBegin(i) PROVE CursorInv'
    BY <1>2 DEF WriteBegin
  <1>3. ASSUME NEW i \in Ids, WriteCommit(i) PROVE CursorInv'
    BY <1>3 DEF WriteCommit
  <1>4. CASE StartPull
    BY <1>4 DEF StartPull
  <1>5. CASE FetchPage
    BY <1>5 DEF FetchPage
  <1>6. CASE AnswerPage
    <2> DEFINE back == <<now - OVERLAP, NIL_ID>>
    <2>1. ASSUME ~more PROVE SteppedBack(pageCursor')
      <3>1. ~Precedes(back, back)
        BY DEF Precedes, NIL_ID
      <3>2. pageCursor # NoCursor => pageCursor[1] \in Int /\ pageCursor[2] \in Nat
        BY DEF Cursors
      <3>3. pageCursor # NoCursor /\ Precedes(pageCursor, back)
              => ~Precedes(back, pageCursor)
        BY <3>2 DEF Precedes, NIL_ID
      <3>4. QED
        BY <2>1, <3>1, <3>3, <1>6 DEF AnswerPage, next_cursor
    <2>2. QED
      BY <2>1, <1>6 DEF AnswerPage
  <1>7. CASE ApplyPage
    BY <1>7 DEF ApplyPage, PageForgotten
  <1>8. CASE Interrupt
    BY <1>8 DEF Interrupt, PageForgotten
  <1>9. CASE RejectCursor
    BY <1>9 DEF RejectCursor
  <1>10. CASE UNCHANGED vars
    BY <1>10 DEF vars
  <1>11. QED
    BY <1>1, <1>2, <1>3, <1>4, <1>5, <1>6, <1>7, <1>8, <1>9, <1>10 DEF Next, PullStep

(* What a walk leaves behind its cursor is late. *)
LEMMA MissingStep == TypeOK /\ ClockInv /\ VersionInv /\ MissingInv /\ NothingBehindCursor /\ [Next]_vars => MissingInv'
  <1> SUFFICES ASSUME TypeOK, ClockInv, VersionInv, MissingInv, NothingBehindCursor, [Next]_vars PROVE MissingInv'
    OBVIOUS
  <1> USE DEF MissingInv, rowVars, storeVars, pageVars
  <1>1. CASE Tick
    BY <1>1 DEF Tick, After, Late, Key
  <1>2. ASSUME NEW i \in Ids, WriteBegin(i) PROVE MissingInv'
    BY <1>2 DEF WriteBegin, After, Late, Key
  <1>3. ASSUME NEW i \in Ids, WriteCommit(i) PROVE MissingInv'
    <2>1. walking => at'[i] >= began - MAX_TX
      BY <1>3, SyncFeedAssumption DEF WriteCommit, ClockInv, TypeOK
    <2>2. \A j \in Ids : j # i => at'[j] = at[j] /\ version'[j] = version[j]
      BY <1>3 DEF WriteCommit, TypeOK
    <2>3. UNCHANGED <<cursor, cache, pc, page, pageVersion, more, pageCursor, walking, began>>
      BY <1>3 DEF WriteCommit
    <2>4. walking' => Late(i)'
      BY <2>1, <2>3 DEF Late
    <2>5. \A j \in Ids : j # i =>
             /\ Late(j)' = Late(j)
             /\ After(cursor, j)' = After(cursor, j)
             /\ After(pageCursor, j)' = After(pageCursor, j)
      BY <2>2, <2>3 DEF Late, After, Key
    <2>6. pc' \in {"read", "answered"} => walking'
      BY <2>3 DEF ClockInv
    <2>7. page \subseteq Ids
      BY DEF TypeOK
    <2>8. QED
      BY <2>2, <2>3, <2>4, <2>5, <2>6, <2>7
  <1>4. CASE StartPull
    BY <1>4 DEF StartPull, After, Late, Key
  <1>5. CASE FetchPage
    <2>1. UNCHANGED <<now, at, version, cursor, cache>> /\ pageVersion' = version
      BY <1>5 DEF FetchPage
    <2>2. \A i \in Ids : version[i] # cache[i] => version[i] > 0
      BY DEF VersionInv, TypeOK
    <2>3. \A i \in Ids : version[i] # cache[i] => After(cursor, i) \/ Late(i)'
      <3>1. CASE walking
        BY <3>1, <2>1, <1>5 DEF FetchPage, Late
      <3>2. CASE ~walking
        BY <3>2 DEF NothingBehindCursor
      <3>3. QED
        BY <3>1, <3>2
    <2>4. \A i \in Ids \ page' :
             version[i] # cache[i] => (more' /\ After(pageCursor', i)) \/ Late(i)'
      <3>1. SUFFICES ASSUME NEW i \in Ids \ page', version[i] # cache[i], After(cursor, i)
                     PROVE  more' /\ After(pageCursor', i)
        BY <2>3
      <3>2. i \in Rows \ page'
        BY <3>1, <2>2 DEF Rows
      <3>3. QED
        BY <3>2, <1>5, FetchedPage DEF After
    <2>5. \A i \in Ids : After(cursor, i)' = After(cursor, i)
      BY <2>1 DEF After, Key
    <2>6. \A i \in Ids : After(pageCursor, i)' = After(pageCursor', i)
      BY <2>1 DEF After, Key
    <2>7. page' \subseteq Ids
      BY <1>5, FetchedPage DEF Rows
    <2>8. QED
      BY <2>1, <2>3, <2>4, <2>5, <2>6, <2>7
  <1>6. CASE AnswerPage
    <2>1. UNCHANGED <<at, version, cursor, cache, page, pageVersion, more, walking, began>>
      BY <1>6 DEF AnswerPage
    <2>2. more => pageCursor' = pageCursor
      BY <1>6 DEF AnswerPage, next_cursor
    <2>3. \A i \in Ids : Late(i)' = Late(i) /\ After(cursor, i)' = After(cursor, i)
      BY <2>1 DEF Late, After, Key
    <2>4. more => \A i \in Ids : After(pageCursor, i)' = After(pageCursor, i)
      BY <2>1, <2>2 DEF After, Key
    <2>5. pc \in {"read", "answered"} /\ page \subseteq Ids
      BY <1>6 DEF AnswerPage, TypeOK
    <2>6. QED
      BY <2>1, <2>3, <2>4, <2>5
  <1>7. CASE ApplyPage
    <2>1. UNCHANGED <<at, version, began>> /\ pc' \notin {"read", "answered"}
          /\ cursor' = pageCursor /\ walking' = more
          /\ pc = "answered"
      BY <1>7 DEF ApplyPage
    <2>2. \A i \in Ids : cache'[i] = IF i \in page THEN pageVersion[i] ELSE cache[i]
      BY <1>7 DEF ApplyPage
    <2>3. \A i \in Ids : Late(i)' = Late(i) /\ After(cursor, i)' = After(pageCursor, i)
      BY <2>1 DEF Late, After, Key
    <2>4. QED
      BY <2>1, <2>2, <2>3
  <1>8. CASE Interrupt
    BY <1>8 DEF Interrupt, PageForgotten, After, Late, Key
  <1>9. CASE RejectCursor
    BY <1>9 DEF RejectCursor, After, Late, Key
  <1>10. CASE UNCHANGED vars
    BY <1>10 DEF vars, After, Late, Key
  <1>11. QED
    BY <1>1, <1>2, <1>3, <1>4, <1>5, <1>6, <1>7, <1>8, <1>9, <1>10 DEF Next, PullStep

(* The cursor of a page with more to come is the key of one of its rows. *)
LEMMA PullAdvancesStep == TypeOK /\ PullAdvances /\ [Next]_vars => PullAdvances'
  <1> SUFFICES ASSUME TypeOK, PullAdvances, [Next]_vars PROVE PullAdvances'
    OBVIOUS
  <1> USE DEF PullAdvances, rowVars, storeVars, pageVars
  <1>1. CASE Tick
    BY <1>1 DEF Tick
  <1>2. ASSUME NEW i \in Ids, WriteBegin(i) PROVE PullAdvances'
    BY <1>2 DEF WriteBegin
  <1>3. ASSUME NEW i \in Ids, WriteCommit(i) PROVE PullAdvances'
    BY <1>3 DEF WriteCommit
  <1>4. CASE StartPull
    BY <1>4 DEF StartPull
  <1>5. CASE FetchPage
    <2>1. ASSUME more'
          PROVE  /\ pageCursor' # NoCursor
                 /\ cursor # NoCursor => Precedes(cursor, pageCursor')
      <3>1. PICK i \in Rows : pageCursor' = Key(i)
        BY <2>1, <1>5, FetchedPage
      <3>2. Key(i) \in Int \X Nat
        BY SyncFeedAssumption DEF Key, Rows, TypeOK
      <3>3. QED
        BY <3>1, <3>2, SyncFeedAssumption DEF Rows, After
    <2>2. cursor' = cursor
      BY <1>5 DEF FetchPage
    <2>3. CASE ~more'
      BY <2>3
    <2>4. CASE more'
      <3>1. /\ pageCursor' # NoCursor
            /\ cursor' # NoCursor => Precedes(cursor', pageCursor')
        BY <2>1, <2>2, <2>4
      <3>2. QED
        BY <3>1 DEF Precedes
    <2>5. QED
      BY <2>3, <2>4
  <1>6. CASE AnswerPage
    BY <1>6 DEF AnswerPage, next_cursor
  <1>7. CASE ApplyPage
    BY <1>7 DEF ApplyPage, PageForgotten
  <1>8. CASE Interrupt
    BY <1>8 DEF Interrupt, PageForgotten
  <1>9. CASE RejectCursor
    BY <1>9 DEF RejectCursor
  <1>10. CASE UNCHANGED vars
    BY <1>10 DEF vars
  <1>11. QED
    BY <1>1, <1>2, <1>3, <1>4, <1>5, <1>6, <1>7, <1>8, <1>9, <1>10 DEF Next, PullStep

(* Nothing is left behind at the end of a walk, and what commits later is   *)
(* stamped after the cursor.                                               *)
LEMMA NothingBehindStep == WithinOverlap /\ TypeOK /\ ClockInv /\ CursorInv /\ MissingInv /\ NothingBehindCursor /\ [Next]_vars => NothingBehindCursor'
  <1> SUFFICES ASSUME WithinOverlap, TypeOK, ClockInv, CursorInv, MissingInv, NothingBehindCursor, [Next]_vars PROVE NothingBehindCursor'
    OBVIOUS
  <1> USE DEF NothingBehindCursor, rowVars, storeVars, pageVars
  <1>1. CASE Tick
    BY <1>1 DEF Tick, After, Key
  <1>2. ASSUME NEW i \in Ids, WriteBegin(i) PROVE NothingBehindCursor'
    BY <1>2 DEF WriteBegin, After, Key
  <1>3. ASSUME NEW i \in Ids, WriteCommit(i) PROVE NothingBehindCursor'
    <2>1. UNCHANGED <<now, cursor, cache, walking>>
      BY <1>3 DEF WriteCommit
    <2>2. SUFFICES ASSUME ~walking, NEW j \in Ids, version'[j] # cache[j]
                   PROVE  After(cursor, j)'
      BY <2>1
    <2>3. CASE j # i
      <3>1. at'[j] = at[j] /\ version'[j] = version[j]
        BY <2>3, <1>3 DEF WriteCommit, TypeOK
      <3>2. QED
        BY <3>1, <2>1, <2>2 DEF After, Key
    <2>4. CASE j = i
      <3>1. at'[i] = writing[i] /\ writing[i] \in Nat /\ now \in Nat
        BY <1>3 DEF WriteCommit, TypeOK
      <3>2. writing[i] >= now - OVERLAP
        BY <3>1, <1>3, SyncFeedAssumption DEF WriteCommit, ClockInv, WithinOverlap
      <3>3. cursor = NoCursor \/ Precedes(cursor, <<writing[i], i>>)
        BY <3>1, <3>2, <2>2, SteppedBackIsBefore, SyncFeedAssumption
        DEF CursorInv, SteppedBack, TypeOK
      <3>4. QED
        BY <3>1, <3>3, <2>1, <2>4 DEF After, Key
    <2>5. QED
      BY <2>3, <2>4
  <1>4. CASE StartPull
    BY <1>4 DEF StartPull, After, Key
  <1>5. CASE FetchPage
    BY <1>5 DEF FetchPage
  <1>6. CASE AnswerPage
    BY <1>6 DEF AnswerPage, After, Key
  <1>7. CASE ApplyPage
    <2>1. UNCHANGED <<now, at, version, began>> /\ pc = "answered"
          /\ cursor' = pageCursor /\ walking' = more
      BY <1>7 DEF ApplyPage
    <2>2. \A i \in Ids : cache'[i] = IF i \in page THEN pageVersion[i] ELSE cache[i]
      BY <1>7 DEF ApplyPage
    <2>3. SUFFICES ASSUME ~more, NEW i \in Ids, version[i] # cache'[i]
                   PROVE  After(pageCursor, i)
      BY <2>1 DEF After, Key
    <2>4. Late(i)
      BY <2>1, <2>2, <2>3 DEF MissingInv
    <2>5. walking /\ at[i] \in Nat /\ now \in Nat /\ began \in Nat
      BY <2>1 DEF ClockInv, TypeOK
    <2>6. at[i] >= now - OVERLAP
      BY <2>4, <2>5, SyncFeedAssumption DEF Late, ClockInv, WithinOverlap
    <2>7. pageCursor = NoCursor \/ Precedes(pageCursor, <<at[i], i>>)
      BY <2>1, <2>3, <2>5, <2>6, SteppedBackIsBefore, SyncFeedAssumption
      DEF CursorInv, SteppedBack, TypeOK
    <2>8. QED
      BY <2>7 DEF After, Key
  <1>8. CASE Interrupt
    BY <1>8 DEF Interrupt, PageForgotten, After, Key
  <1>9. CASE RejectCursor
    BY <1>9 DEF RejectCursor, After
  <1>10. CASE UNCHANGED vars
    BY <1>10 DEF vars, After, Key
  <1>11. QED
    BY <1>1, <1>2, <1>3, <1>4, <1>5, <1>6, <1>7, <1>8, <1>9, <1>10 DEF Next, PullStep

-----------------------------------------------------------------------------
(* The conjunction is inductive, and the type invariant alone is too.      *)
LEMMA Invariant ==
  ASSUME WithinOverlap
  PROVE  Spec => []IInv
  <1>1. IInv /\ [Next]_vars => IInv'
    BY TypeStep, ClockStep, VersionStep, CursorStep, MissingStep, PullAdvancesStep,
       NothingBehindStep, WithinOverlap
    DEF IInv
  <1>2. QED
    BY <1>1, InitInv, PTL DEF Spec

(* Every reachable state of the feed and of the phone is well typed.       *)
THEOREM TypeCorrect == Spec => []TypeOK
  <1>1. Init => TypeOK
    BY InitInv DEF IInv
  <1>2. QED
    BY <1>1, TypeStep, PTL DEF Spec

(* Whatever is written, lost or interrupted, the phone that has finished a *)
(* walk misses no row: what it does not have is ahead of its cursor, for   *)
(* any number of rows, any page size, and any transactions and walks that  *)
(* fit together in OVERLAP.                                                *)
THEOREM NothingBehindCursorHolds ==
  ASSUME WithinOverlap
  PROVE  Spec => []NothingBehindCursor
  <1>1. IInv => NothingBehindCursor
    BY DEF IInv
  <1>2. QED
    BY <1>1, Invariant, WithinOverlap, PTL

(* A page that announces more always moves the cursor, so the phone never  *)
(* loops on one page: this needs no bound on transactions or walks.        *)
THEOREM PullAdvancesHolds == Spec => []PullAdvances
  <1>1. Init => TypeOK /\ PullAdvances
    BY InitInv DEF IInv
  <1>2. QED
    BY <1>1, TypeStep, PullAdvancesStep, PTL DEF Spec

(* The content of a row on the phone never goes back, whatever is          *)
(* delivered again.                                                        *)
THEOREM CacheNeverGoesBackHolds == Spec => CacheNeverGoesBack
  <1>1. Init => TypeOK /\ VersionInv
    BY InitInv DEF IInv
  <1>2. TypeOK /\ VersionInv /\ [Next]_vars
          => [\A i \in Ids : cache[i] <= cache'[i]]_vars
    <2>1. SUFFICES ASSUME TypeOK, VersionInv, Next PROVE \A i \in Ids : cache[i] <= cache'[i]
      OBVIOUS
    <2>2. cache \in [Ids -> Nat]
      BY <2>1 DEF TypeOK
    <2>3. CASE ApplyPage
      <3>1. \A i \in page : cache[i] <= pageVersion[i]
        BY <2>1, <2>3 DEF ApplyPage, VersionInv
      <3>2. \A i \in Ids : cache'[i] = IF i \in page THEN pageVersion[i] ELSE cache[i]
        BY <2>3 DEF ApplyPage
      <3>3. QED
        BY <2>2, <3>1, <3>2
    <2>4. CASE UNCHANGED cache
      BY <2>2, <2>4
    <2>5. QED
      BY <2>1, <2>3, <2>4
      DEF Next, PullStep, Tick, WriteBegin, WriteCommit, StartPull, FetchPage, AnswerPage,
          Interrupt, RejectCursor, rowVars, storeVars
  <1>3. QED
    BY <1>1, <1>2, TypeStep, VersionStep, PTL DEF Spec, CacheNeverGoesBack

-----------------------------------------------------------------------------
(* The interventions.  Whatever is sent again, served late or at the same  *)
(* time, the server holds each piece once, and the phone deletes its row   *)
(* only when the server holds it all.                                      *)
(*                                                                         *)
(* What relates the two sides is the number that the server has given to   *)
(* an intervention.  Every request about it, however old, carries that     *)
(* number; what the phone has marked as acknowledged is in the tables      *)
(* under it; and the tables only grow.                                     *)

(* What the tables hold about the intervention of number i. *)
Known(i, r) == i \in DOMAIN interventions /\ interventions[i].ref = r
Pictured(i) == \E k \in DOMAIN photos : photos[k].iv = i /\ photos[k].key \in stored
ClosedFor(i) == \E k \in DOMAIN closures : closures[k].iv = i
FormedFor(i) == \E k \in DOMAIN fiches : fiches[k].iv = i

(* The tables: each piece once, under the number of its reference.         *)
TableInv ==
    /\ ReceivedOnce
    /\ \A k \in DOMAIN photos :
          /\ Known(photos[k].iv, photos[k].ref)
          /\ photos[k].key \in stored

(* A request on its way, awaited or not. *)
MessageOK(m) ==
    /\ m.awaited => row = m.ref
    /\ m.key <= nextKey
    /\ m.step = "put" => m.key # 0
    /\ m.step = "photo" => m.key \in stored
    /\ m.step # "create" => "create" \in acked[m.ref] /\ Known(m.iv, m.ref)

(* What is marked in a row of the phone is in the tables, and a row that   *)
(* is gone had everything marked.                                          *)
RowOK(r) ==
    /\ acked[r] # {} => "create" \in acked[r] /\ Known(serverId[r], r)
    /\ "photo" \in acked[r] => Pictured(serverId[r])
    /\ "closure" \in acked[r] => ClosedFor(serverId[r])
    /\ "fgas" \in acked[r] => FormedFor(serverId[r])
    /\ held[r] = "gone" => Wanted(r) \subseteq acked[r]

PhoneInv ==
    /\ sender = Nobody => todo = {} /\ row = Nobody
    /\ objectKey <= nextKey
    /\ \A m \in net : MessageOK(m)
    /\ \A r \in Refs : RowOK(r)

UploadInv == UploadTypeOK /\ TableInv /\ PhoneInv

-----------------------------------------------------------------------------
LEMMA AppendFacts ==
  ASSUME NEW S, NEW s \in Seq(S), NEW x \in S
  PROVE  /\ Append(s, x) \in Seq(S) /\ Len(s) \in Nat
         /\ DOMAIN s = 1..Len(s) /\ DOMAIN Append(s, x) = 1..(Len(s) + 1)
         /\ \A i \in 1..Len(s) : Append(s, x)[i] = s[i] /\ s[i] \in S
         /\ Append(s, x)[Len(s) + 1] = x
  BY AppendProperties, LenProperties, ElementOfSeq

Extends(t, u) == DOMAIN t \subseteq DOMAIN u /\ \A i \in DOMAIN t : u[i] = t[i]
TablesGrow ==
    /\ Extends(interventions, interventions') /\ Extends(photos, photos')
    /\ Extends(closures, closures') /\ Extends(fiches, fiches')
    /\ stored \subseteq stored' /\ nextKey <= nextKey'

(* What the tables hold, they keep. *)
LEMMA TablesKeep ==
  ASSUME TablesGrow
  PROVE  /\ \A i, r : Known(i, r) => Known(i, r)'
         /\ \A i : Pictured(i) => Pictured(i)'
         /\ \A i : ClosedFor(i) => ClosedFor(i)'
         /\ \A i : FormedFor(i) => FormedFor(i)'
  <1>1. \A i, r : Known(i, r) => Known(i, r)'
    BY DEF TablesGrow, Extends, Known
  <1>2. ASSUME NEW i, Pictured(i) PROVE Pictured(i)'
    <2>1. PICK k \in DOMAIN photos : photos[k].iv = i /\ photos[k].key \in stored
      BY <1>2 DEF Pictured
    <2>2. k \in DOMAIN photos' /\ photos'[k].iv = i /\ photos'[k].key \in stored'
      BY <2>1 DEF TablesGrow, Extends
    <2>3. QED
      BY <2>2 DEF Pictured
  <1>3. \A i : ClosedFor(i) => ClosedFor(i)'
    BY DEF TablesGrow, Extends, ClosedFor
  <1>4. \A i : FormedFor(i) => FormedFor(i)'
    BY DEF TablesGrow, Extends, FormedFor
  <1>5. QED
    BY <1>1, <1>2, <1>3, <1>4

Still == UNCHANGED <<tableVars, stored, nextKey>>

LEMMA StillGrows ==
  ASSUME UploadTypeOK, Still
  PROVE  TablesGrow
  BY DEF UploadTypeOK, Still, tableVars, TablesGrow, Extends

LEMMA StillTables ==
  ASSUME TableInv, Still
  PROVE  TableInv'
  BY DEF TableInv, ReceivedOnce, Known, Still, tableVars

LEMMA UploadInitInv == UploadInit => UploadInv
  <1> SUFFICES ASSUME UploadInit PROVE UploadInv
    OBVIOUS
  <1>1. \A S : <<>> \in Seq(S)
    BY EmptySeq
  <1>2. DOMAIN <<>> = {}
    OBVIOUS
  <1>3. UploadTypeOK
    BY <1>1, UploadAssumption DEF UploadInit, UploadTypeOK
  <1>4. TableInv
    BY <1>2 DEF UploadInit, TableInv, ReceivedOnce
  <1>5. PhoneInv
    BY DEF UploadInit, PhoneInv, RowOK
  <1>6. QED
    BY <1>3, <1>4, <1>5 DEF UploadInv

-----------------------------------------------------------------------------
(* The phone.                                                              *)

(* A row keeps what is marked in it when the phone does something else.    *)
LEMMA RowStays ==
  ASSUME NEW r \in Refs, RowOK(r), acked' = acked, serverId' = serverId, TablesGrow,
         held'[r] = "gone" => Wanted(r)' \subseteq acked[r]
  PROVE  RowOK(r)'
  BY TablesKeep DEF RowOK

LEMMA MessageStays ==
  ASSUME NEW m, MessageOK(m), acked' = acked, TablesGrow, m.awaited => row' = m.ref,
         m.key \in Nat, nextKey \in Nat, nextKey' \in Nat
  PROVE  MessageOK(m)'
  <1>1. m.key <= nextKey'
    BY DEF MessageOK, TablesGrow
  <1>2. QED
    BY <1>1, TablesKeep DEF MessageOK, TablesGrow

LEMMA HandleSaveKeeps ==
  ASSUME UploadInv, NEW r \in Refs, NEW d \in Drafts, handleSave(r, d)
  PROVE  UploadInv'
  <1> USE DEF UploadInv
  <1>1. Still
    BY DEF handleSave, Still
  <1>2. /\ held[r] = "absent" /\ held' = [held EXCEPT ![r] = "queued"]
        /\ closing' = [closing EXCEPT ![r] = d.closing]
        /\ form' = [form EXCEPT ![r] = d.form]
        /\ UNCHANGED <<acked, serverId, user, sender, todo, row, objectKey, net, faults>>
    BY DEF handleSave, phoneVars
  <1>3. d.closing \in BOOLEAN /\ d.form \in FormShape \cup {NoForm}
    BY UploadAssumption
  <1>4. UploadTypeOK'
    BY <1>1, <1>2, <1>3 DEF UploadTypeOK, Still, tableVars
  <1>5. TablesGrow /\ TableInv'
    BY <1>1, StillGrows, StillTables
  <1>6. ASSUME NEW q \in Refs
        PROVE  RowOK(q)'
    <2>1. held'[q] = "gone" => q # r /\ held[q] = "gone"
      BY <1>2 DEF UploadTypeOK
    <2>2. q # r => Wanted(q)' = Wanted(q)
      BY <1>2 DEF Wanted, UploadTypeOK
    <2>3. RowOK(q)
      BY DEF PhoneInv
    <2>4. QED
      BY <1>2, <1>5, <2>1, <2>2, <2>3, RowStays DEF RowOK
  <1>7. \A m \in net : MessageOK(m)'
    BY <1>1, <1>2 DEF PhoneInv, MessageOK, Known, Still, tableVars
  <1>8. PhoneInv'
    BY <1>1, <1>2, <1>6, <1>7 DEF PhoneInv, Still
  <1>9. QED
    BY <1>4, <1>5, <1>8

(* Logging in, starting and ending a synchronization, taking the next row. *)
LEMMA SessionKeeps ==
  ASSUME UploadInv, UNCHANGED <<localVars, objectKey, net, faults>>, Still,
         user' \in Users, sender' \in Users \cup {Nobody},
         todo' \in SUBSET Refs, row' \in Refs \cup {Nobody},
         sender' = Nobody => todo' = {} /\ row' = Nobody,
         row' = row \/ row = Nobody
  PROVE  UploadInv'
  <1> USE DEF UploadInv
  <1>1. UploadTypeOK'
    BY DEF UploadTypeOK, Still, tableVars, localVars
  <1>2. TableInv'
    BY StillTables
  <1>3. ASSUME NEW m \in net PROVE MessageOK(m)'
    <2>1. MessageOK(m) /\ m.ref \in Refs
      BY DEF PhoneInv, UploadTypeOK, Requests
    <2>2. m.awaited => row' = m.ref
      BY <2>1, UploadAssumption DEF MessageOK
    <2>3. QED
      BY <2>1, <2>2 DEF MessageOK, Known, Still, tableVars, localVars
  <1>4. ASSUME NEW r \in Refs PROVE RowOK(r)'
    BY DEF PhoneInv, RowOK, Known, Pictured, ClosedFor, FormedFor, Wanted, Still, tableVars,
           localVars
  <1>5. PhoneInv'
    BY <1>3, <1>4 DEF PhoneInv, Still
  <1>6. QED
    BY <1>1, <1>2, <1>5

LEMMA SessionStep ==
  ASSUME UploadInv,
         \/ \E u \in Users : Login(u)
         \/ synchronize
         \/ \E r \in Refs : NextRow(r)
         \/ SyncEnd
  PROVE  UploadInv'
  <1> USE DEF UploadInv, UploadTypeOK
  <1>1. ASSUME NEW u \in Users, Login(u) PROVE UploadInv'
    BY <1>1, SessionKeeps DEF Login, Still, PhoneInv
  <1>2. CASE synchronize
    <2>1. todo' \in SUBSET Refs /\ sender' \in Users /\ sender' # Nobody
      BY <1>2, UploadAssumption DEF synchronize
    <2>2. QED
      BY <1>2, <2>1, SessionKeeps DEF synchronize, Still
  <1>3. ASSUME NEW r \in Refs, NextRow(r) PROVE UploadInv'
    <2>1. sender # Nobody /\ row' \in Refs /\ todo' \in SUBSET Refs
      BY <1>3 DEF NextRow, PhoneInv
    <2>2. QED
      BY <1>3, <2>1, SessionKeeps DEF NextRow, Still
  <1>4. CASE SyncEnd
    BY <1>4, SessionKeeps DEF SyncEnd, Still
  <1>5. QED
    BY <1>1, <1>2, <1>3, <1>4

(* A request carries what the phone knows when it leaves. *)
LEMMA SendKeeps ==
  ASSUME UploadInv, NEW s \in Steps, row # Nobody, ~Awaiting, Send(s),
         s = "put" => objectKey # 0, s = "photo" => objectKey \in stored,
         s # "create" => "create" \in acked[row]
  PROVE  UploadInv'
  <1> USE DEF UploadInv
  <1>a. PICK m : m = [step |-> s, ref |-> row, by |-> sender, iv |-> serverId[row],
                      key |-> objectKey, awaited |-> TRUE, checked |-> FALSE]
    OBVIOUS
  <1>1. /\ net' = net \cup {m}
        /\ UNCHANGED <<localVars, phoneVars, faults>> /\ Still
    BY <1>a DEF Send, Still
  <1>2. row \in Refs /\ sender \in Users /\ serverId[row] \in Nat /\ objectKey \in Nat
    BY DEF UploadTypeOK, PhoneInv
  <1>3. m \in Requests
    BY <1>a, <1>2 DEF Requests
  <1>4. /\ m.step = s /\ m.ref = row /\ m.iv = serverId[row] /\ m.key = objectKey
        /\ m.awaited
    BY <1>a
  <1>5. \A n \in net : ~n.awaited
    BY DEF Awaiting
  <1>6. UploadTypeOK'
    BY <1>1, <1>3, <1>5 DEF UploadTypeOK, Still, tableVars, localVars, phoneVars
  <1>7. TableInv'
    BY <1>1, StillTables
  <1>8. RowOK(row)
    BY <1>2 DEF PhoneInv
  <1>9. MessageOK(m)'
    <2>1. s # "create" => Known(serverId[row], row)
      BY <1>8 DEF RowOK
    <2>2. QED
      BY <1>1, <1>4, <2>1 DEF MessageOK, PhoneInv, Known, Still, tableVars, localVars, phoneVars
  <1>10. \A n \in net : MessageOK(n)'
    BY <1>1 DEF PhoneInv, MessageOK, Known, Still, tableVars, localVars, phoneVars
  <1>11. ASSUME NEW r \in Refs PROVE RowOK(r)'
    BY <1>1 DEF PhoneInv, RowOK, Known, Pictured, ClosedFor, FormedFor, Wanted, Still,
           tableVars, localVars
  <1>12. PhoneInv'
    BY <1>1, <1>9, <1>10, <1>11 DEF PhoneInv, Still, phoneVars
  <1>13. QED
    BY <1>6, <1>7, <1>12

LEMMA SendStep ==
  ASSUME UploadInv, ensureInterventionCreated \/ uploadPhoto \/ sendClosure \/ sendFgas
  PROVE  UploadInv'
  <1>1. CASE ensureInterventionCreated
    BY <1>1, SendKeeps DEF ensureInterventionCreated, Steps
  <1>2. CASE uploadPhoto
    <2> DEFINE s == IF objectKey = 0 THEN "url" ELSE IF objectKey \in stored THEN "photo" ELSE "put"
    <2>1. s \in Steps /\ s # "create" /\ (s = "put" => objectKey # 0)
          /\ (s = "photo" => objectKey \in stored)
      BY DEF Steps
    <2>2. row # Nobody /\ ~Awaiting /\ "create" \in acked[row] /\ Send(s)
      BY <1>2 DEF uploadPhoto
    <2> HIDE DEF s
    <2>3. QED
      BY <2>1, <2>2, SendKeeps
  <1>3. CASE sendClosure
    BY <1>3, SendKeeps DEF sendClosure, Steps
  <1>4. CASE sendFgas
    <2>1. "create" \in Wanted(row)
      BY DEF Wanted
    <2>2. "create" \in acked[row]
      BY <1>4, <2>1 DEF sendFgas
    <2>3. QED
      BY <1>4, <2>2, SendKeeps DEF sendFgas, Steps
  <1>5. QED
    BY <1>1, <1>2, <1>3, <1>4

LEMMA DeleteKeeps ==
  ASSUME UploadInv, deletePendingIntervention
  PROVE  UploadInv'
  <1> USE DEF UploadInv
  <1>1. /\ row # Nobody /\ ~Awaiting /\ Wanted(row) \subseteq acked[row]
        /\ held' = [held EXCEPT ![row] = "gone"] /\ row' = Nobody /\ objectKey' = 0
        /\ UNCHANGED <<closing, form, acked, serverId, user, sender, todo, net, faults>>
        /\ Still
    BY DEF deletePendingIntervention, Still
  <1>2. UploadTypeOK'
    BY <1>1 DEF UploadTypeOK, Still, tableVars
  <1>3. TablesGrow /\ TableInv'
    BY <1>1, StillGrows, StillTables
  <1>4. ASSUME NEW r \in Refs PROVE RowOK(r)'
    <2>1. RowOK(r) /\ Wanted(r)' = Wanted(r)
      BY <1>1 DEF PhoneInv, Wanted
    <2>2. held'[r] = "gone" => r = row \/ held[r] = "gone"
      BY <1>1 DEF UploadTypeOK
    <2>3. QED
      BY <1>1, <1>3, <2>1, <2>2, RowStays DEF RowOK
  <1>5. \A m \in net : MessageOK(m)'
    BY <1>1 DEF PhoneInv, MessageOK, Known, Awaiting, Still, tableVars
  <1>6. PhoneInv'
    BY <1>1, <1>4, <1>5 DEF PhoneInv, UploadTypeOK, Still
  <1>7. QED
    BY <1>2, <1>3, <1>6

(* The phone stops waiting: for one request, or for all of them.           *)
LEMMA ForsakeKeeps ==
  ASSUME UploadInv, NEW gone \in SUBSET net, \A m \in net : m.awaited => m \in gone,
         net' = (net \ gone) \cup {[m EXCEPT !.awaited = FALSE] : m \in gone},
         UNCHANGED <<localVars, user>>, Still, faults < MaxFaults, faults' = faults + 1,
         row' = Nobody, objectKey' = 0, sender' \in {sender, Nobody}, todo' \in {todo, {}},
         sender' = Nobody => todo' = {}
  PROVE  UploadInv'
  <1> USE DEF UploadInv
  <1>1. ASSUME NEW n \in net'
        PROVE  n \in Requests /\ ~n.awaited /\ MessageOK(n)'
    <2>1. CASE n \in net \ gone
      <3>1. n \in Requests /\ ~n.awaited /\ MessageOK(n)
        BY <2>1 DEF UploadTypeOK, PhoneInv
      <3>2. QED
        BY <3>1 DEF MessageOK, Known, Still, tableVars, localVars
    <2>2. CASE n \in {[m EXCEPT !.awaited = FALSE] : m \in gone}
      <3>1. PICK m \in net : n = [m EXCEPT !.awaited = FALSE]
        BY <2>2
      <3>2. m \in Requests /\ MessageOK(m)
        BY DEF UploadTypeOK, PhoneInv
      <3>3. /\ n \in Requests /\ n.awaited = FALSE /\ n.step = m.step /\ n.ref = m.ref
            /\ n.key = m.key /\ n.iv = m.iv
        BY <3>1, <3>2 DEF Requests
      <3>4. QED
        BY <3>2, <3>3 DEF MessageOK, Known, Still, tableVars, localVars
    <2>3. QED
      BY <2>1, <2>2
  <1>2. faults' \in 0..MaxFaults
    BY UploadAssumption DEF UploadTypeOK
  <1>3. /\ sender' \in Users \cup {Nobody} /\ todo' \in SUBSET Refs /\ objectKey' \in Nat
        /\ row' \in Refs \cup {Nobody}
    BY DEF UploadTypeOK
  <1>4. net' \in SUBSET Requests /\ \A m, n \in net' : m.awaited /\ n.awaited => m = n
    BY <1>1
  <1>5. UploadTypeOK'
    BY <1>2, <1>3, <1>4 DEF UploadTypeOK, Still, tableVars, localVars
  <1>6. TableInv'
    BY StillTables
  <1>7. ASSUME NEW r \in Refs PROVE RowOK(r)'
    BY DEF PhoneInv, RowOK, Known, Pictured, ClosedFor, FormedFor, Wanted, Still, tableVars,
           localVars
  <1>8. PhoneInv'
    BY <1>1, <1>7 DEF PhoneInv, UploadTypeOK, Still
  <1>9. QED
    BY <1>5, <1>6, <1>8

LEMMA ForsakeStep ==
  ASSUME UploadInv, Killed \/ \E m \in net : GiveUp(m)
  PROVE  UploadInv'
  <1>1. CASE Killed
    <2>1. net' = (net \ net) \cup {[m EXCEPT !.awaited = FALSE] : m \in net}
      BY <1>1 DEF Killed
    <2>2. /\ UNCHANGED <<localVars, user>> /\ Still /\ faults < MaxFaults
          /\ faults' = faults + 1 /\ row' = Nobody /\ objectKey' = 0 /\ sender' = Nobody
          /\ todo' = {}
      BY <1>1 DEF Killed, Still
    <2>3. QED
      BY <2>1, <2>2, ForsakeKeeps
  <1>2. ASSUME NEW m \in net, GiveUp(m) PROVE UploadInv'
    <2>1. /\ m.awaited /\ net' = (net \ {m}) \cup {[m EXCEPT !.awaited = FALSE]}
          /\ UNCHANGED <<localVars, user>> /\ Still /\ faults < MaxFaults
          /\ faults' = faults + 1 /\ row' = Nobody /\ objectKey' = 0 /\ sender' = sender
          /\ todo' = todo
      BY <1>2 DEF GiveUp, RowFailed, Still
    <2>2. \A n \in net : n.awaited => n \in {m}
      BY <2>1 DEF UploadInv, UploadTypeOK
    <2>3. {[n EXCEPT !.awaited = FALSE] : n \in {m}} = {[m EXCEPT !.awaited = FALSE]}
      OBVIOUS
    <2>4. row # Nobody => sender # Nobody
      BY DEF UploadInv, PhoneInv
    <2>5. sender = Nobody => todo = {}
      BY DEF UploadInv, PhoneInv
    <2>6. QED
      BY <2>1, <2>2, <2>3, <2>5, ForsakeKeeps
  <1>3. QED
    BY <1>1, <1>2

-----------------------------------------------------------------------------
(* The server.                                                             *)

TablesTypeOK ==
    /\ interventions \in Seq(InterventionRows) /\ photos \in Seq(PhotoRows)
    /\ closures \in Seq(FormRows) /\ fiches \in Seq(FormRows)
    /\ nextKey \in Nat /\ stored \in SUBSET (1..nextKey)

(* What the server holds once it has accepted a request, or has given.     *)
Gained(m, id) ==
    /\ m.step = "create" => Known(id, m.ref)
    /\ m.step = "url" => id <= nextKey
    /\ m.step = "photo" => Pictured(m.iv)
    /\ m.step = "closure" => ClosedFor(m.iv)
    /\ m.step = "fgas" => FormedFor(m.iv)

(* An intervention has one number. *)
LEMMA OneNumber ==
  ASSUME ReceivedOnce, NEW i, NEW j, NEW r, Known(i, r), Known(j, r)
  PROVE  i = j
  BY DEF ReceivedOnce, Known

LEMMA AnswerKeeps ==
  ASSUME UploadInv, NEW m \in net, NEW ok \in BOOLEAN, NEW id \in Nat, Answer(m, ok, id),
         faults' = faults, TablesGrow, TableInv', TablesTypeOK', ok => Gained(m, id)'
  PROVE  UploadInv'
  <1> USE DEF UploadInv
  <1>1. m \in Requests /\ MessageOK(m) /\ net' = net \ {m}
    BY DEF UploadTypeOK, PhoneInv, Answer
  <1>2. m.step \in Steps /\ m.ref \in Refs
    BY <1>1 DEF Requests
  <1>3. nextKey \in Nat /\ nextKey' \in Nat /\ nextKey <= nextKey'
    BY DEF UploadTypeOK, TablesTypeOK, TablesGrow
  <1>4. \A n \in net' : n \in Requests /\ MessageOK(n) /\ n.key \in Nat
    BY <1>1 DEF UploadTypeOK, PhoneInv, Requests
  <1>5. net' \in SUBSET Requests /\ \A n, p \in net' : n.awaited /\ p.awaited => n = p
    BY <1>1 DEF UploadTypeOK
  <1>6. CASE ~m.awaited
    <2>1. UNCHANGED <<localVars, phoneVars>>
      BY <1>6 DEF Answer
    <2>2. UploadTypeOK'
      BY <1>5, <2>1 DEF UploadTypeOK, TablesTypeOK, localVars, phoneVars
    <2>3. ASSUME NEW n \in net' PROVE MessageOK(n)'
      <3>1. n.awaited => row' = n.ref
        BY <1>4, <2>1 DEF MessageOK, phoneVars
      <3>2. QED
        BY <1>3, <1>4, <2>1, <3>1, MessageStays DEF localVars
    <2>4. ASSUME NEW r \in Refs PROVE RowOK(r)'
      <3>1. RowOK(r) /\ Wanted(r)' = Wanted(r)
        BY <2>1 DEF PhoneInv, Wanted, localVars
      <3>2. QED
        BY <2>1, <3>1, RowStays DEF RowOK, localVars
    <2>5. objectKey' <= nextKey'
      BY <1>3, <2>1 DEF PhoneInv, UploadTypeOK, phoneVars
    <2>6. PhoneInv'
      BY <2>1, <2>3, <2>4, <2>5 DEF PhoneInv, phoneVars
    <2>7. QED
      BY <2>2, <2>6
  <1>7. CASE m.awaited /\ ~ok
    <2>1. /\ row' = Nobody /\ objectKey' = 0
          /\ UNCHANGED <<localVars, user, sender, todo>>
      BY <1>7 DEF Answer, RowFailed
    <2>2. UploadTypeOK'
      BY <1>5, <2>1 DEF UploadTypeOK, TablesTypeOK, localVars
    <2>3. \A n \in net' : ~n.awaited
      BY <1>1, <1>7 DEF UploadTypeOK
    <2>4. \A n \in net' : MessageOK(n)'
      BY <1>3, <1>4, <2>1, <2>3, MessageStays DEF localVars
    <2>5. ASSUME NEW r \in Refs PROVE RowOK(r)'
      <3>1. RowOK(r) /\ Wanted(r)' = Wanted(r)
        BY <2>1 DEF PhoneInv, Wanted, localVars
      <3>2. QED
        BY <2>1, <3>1, RowStays DEF RowOK, localVars
    <2>6. PhoneInv'
      BY <1>3, <2>1, <2>4, <2>5 DEF PhoneInv
    <2>7. QED
      BY <2>2, <2>6
  <1>8. CASE m.awaited /\ ok
    <2> DEFINE marks == {m.step} \ {"url", "put"}
    <2>1. /\ acked' = [acked EXCEPT ![row] = @ \cup marks]
          /\ serverId' = IF m.step = "create" THEN [serverId EXCEPT ![row] = id] ELSE serverId
          /\ objectKey' = IF m.step = "url" THEN id ELSE objectKey
          /\ UNCHANGED <<held, closing, form, user, sender, todo, row>>
      BY <1>8 DEF Answer
    <2>2. row = m.ref /\ row \in Refs
      BY <1>1, <1>2, <1>8 DEF MessageOK
    <2>3. marks \subseteq {"create", "photo", "closure", "fgas"}
      BY <1>2 DEF Steps
    <2>4. /\ acked' \in [Refs -> SUBSET {"create", "photo", "closure", "fgas"}]
          /\ serverId' \in [Refs -> Nat]
          /\ acked'[row] = acked[row] \cup marks
          /\ \A r \in Refs : r # row => acked'[r] = acked[r] /\ serverId'[r] = serverId[r]
          /\ \A r \in Refs : acked[r] \subseteq acked'[r]
          /\ serverId'[row] = IF m.step = "create" THEN id ELSE serverId[row]
      BY <2>1, <2>2, <2>3 DEF UploadTypeOK
    <2>5. objectKey' \in Nat /\ objectKey' <= nextKey'
      BY <1>3, <1>8, <2>1 DEF UploadTypeOK, PhoneInv, Gained
    <2>6. UploadTypeOK'
      BY <1>5, <2>1, <2>4, <2>5 DEF UploadTypeOK, TablesTypeOK
    <2>7. ASSUME NEW n \in net' PROVE MessageOK(n)'
      <3>1. n.ref \in Refs /\ ~n.awaited
        BY <1>1, <1>4, <1>8 DEF UploadTypeOK, Requests
      <3>2. acked[n.ref] \subseteq acked'[n.ref]
        BY <2>4, <3>1
      <3>3. n.key <= nextKey'
        BY <1>3, <1>4 DEF MessageOK
      <3>4. QED
        BY <1>4, <3>1, <3>2, <3>3, TablesKeep DEF MessageOK, TablesGrow
    <2>8. ASSUME NEW r \in Refs, r = row PROVE RowOK(r)'
      <3> HIDE DEF marks
      <3>a. PICK old : old = serverId[r]
        OBVIOUS
      <3>b. PICK latest : latest = serverId'[r]
        OBVIOUS
      <3>1. RowOK(r) /\ Wanted(r)' = Wanted(r)
        BY <2>1, <2>8 DEF PhoneInv, Wanted
      <3>2. Gained(m, id)' /\ m.ref = r
        BY <1>8, <2>2, <2>8
      <3>3. "create" \in acked'[r] /\ Known(latest, r)'
        <4>1. CASE m.step = "create"
          BY <2>4, <2>8, <3>b, <3>2, <4>1 DEF Gained, marks
        <4>2. CASE m.step # "create"
          <5>1. "create" \in acked[r]
            BY <1>1, <3>2, <4>2 DEF MessageOK
          <5>2. Known(old, r)
            BY <3>a, <3>1, <5>1 DEF RowOK
          <5>3. latest = old
            BY <2>4, <2>8, <3>a, <3>b, <4>2
          <5>4. QED
            BY <2>4, <5>1, <5>2, <5>3, TablesKeep
        <4>3. QED
          BY <4>1, <4>2
      <3>4. ASSUME acked[r] # {} PROVE latest = old
        <4>1. Known(old, r)
          BY <3>a, <3>1, <3>4 DEF RowOK
        <4>2. Known(old, r)' /\ Known(latest, r)' /\ ReceivedOnce'
          BY <3>3, <4>1, TablesKeep DEF TableInv
        <4>3. QED
          BY <4>2 DEF ReceivedOnce, Known
      <3>5. ASSUME m.step \in {"photo", "closure", "fgas"} PROVE m.iv = latest
        <4>1. Known(m.iv, r) /\ "create" \in acked[r]
          BY <1>1, <3>2, <3>5 DEF MessageOK
        <4>2. Known(old, r)
          BY <3>a, <3>1, <4>1 DEF RowOK
        <4>3. m.iv = old
          BY <4>1, <4>2, OneNumber DEF TableInv
        <4>4. QED
          BY <3>4, <4>1, <4>3
      <3>6. "photo" \in acked'[r] => Pictured(latest)'
        <4>1. CASE m.step = "photo"
          BY <3>2, <3>5, <4>1 DEF Gained
        <4>2. CASE "photo" \in acked[r]
          BY <3>a, <3>1, <3>4, <4>2, TablesKeep DEF RowOK
        <4>3. QED
          BY <2>4, <2>8, <4>1, <4>2 DEF marks
      <3>7. "closure" \in acked'[r] => ClosedFor(latest)'
        <4>1. CASE m.step = "closure"
          BY <3>2, <3>5, <4>1 DEF Gained
        <4>2. CASE "closure" \in acked[r]
          BY <3>a, <3>1, <3>4, <4>2, TablesKeep DEF RowOK
        <4>3. QED
          BY <2>4, <2>8, <4>1, <4>2 DEF marks
      <3>8. "fgas" \in acked'[r] => FormedFor(latest)'
        <4>1. CASE m.step = "fgas"
          BY <3>2, <3>5, <4>1 DEF Gained
        <4>2. CASE "fgas" \in acked[r]
          BY <3>a, <3>1, <3>4, <4>2, TablesKeep DEF RowOK
        <4>3. QED
          BY <2>4, <2>8, <4>1, <4>2 DEF marks
      <3>9. held'[r] = "gone" => Wanted(r)' \subseteq acked'[r]
        BY <2>1, <2>4, <3>1 DEF RowOK
      <3>10. QED
        BY <3>b, <3>3, <3>6, <3>7, <3>8, <3>9 DEF RowOK, Known, Pictured, ClosedFor, FormedFor
    <2>9. ASSUME NEW r \in Refs, r # row PROVE RowOK(r)'
      <3>1. RowOK(r) /\ Wanted(r)' = Wanted(r) /\ acked'[r] = acked[r] /\ serverId'[r] = serverId[r]
        BY <2>1, <2>4, <2>9 DEF PhoneInv, Wanted
      <3>2. PICK i : i = serverId[r]
        OBVIOUS
      <3>3. /\ acked[r] # {} => "create" \in acked[r] /\ Known(i, r)'
            /\ "photo" \in acked[r] => Pictured(i)'
            /\ "closure" \in acked[r] => ClosedFor(i)'
            /\ "fgas" \in acked[r] => FormedFor(i)'
        BY <3>1, <3>2, TablesKeep DEF RowOK
      <3>4. held'[r] = "gone" => Wanted(r)' \subseteq acked'[r]
        BY <2>1, <3>1 DEF RowOK
      <3>5. QED
        BY <3>1, <3>2, <3>3, <3>4 DEF RowOK, Known, Pictured, ClosedFor, FormedFor
    <2>10. \A r \in Refs : RowOK(r)'
      BY <2>8, <2>9
    <2>11. PhoneInv'
      BY <2>1, <2>5, <2>7, <2>10 DEF PhoneInv
    <2>12. QED
      BY <2>6, <2>11
  <1>9. QED
    BY <1>6, <1>7, <1>8

(* A table that has grown by one row extends what it was. *)
LEMMA AppendExtends ==
  ASSUME NEW S, NEW s \in Seq(S), NEW x \in S
  PROVE  Extends(s, Append(s, x))
  <1>1. /\ Len(s) \in Nat /\ DOMAIN s = 1..Len(s) /\ DOMAIN Append(s, x) = 1..(Len(s) + 1)
        /\ \A i \in 1..Len(s) : Append(s, x)[i] = s[i]
    BY AppendFacts
  <1>2. QED
    BY <1>1 DEF Extends

LEMMA StillAnswers ==
  ASSUME UploadInv, NEW m \in net, NEW ok \in BOOLEAN, NEW id \in Nat, Answer(m, ok, id),
         faults' = faults, Still, ok => Gained(m, id)
  PROVE  UploadInv'
  <1> USE DEF UploadInv
  <1>1. TablesGrow /\ TableInv'
    BY StillGrows, StillTables
  <1>2. TablesTypeOK'
    BY DEF UploadTypeOK, TablesTypeOK, Still, tableVars
  <1>3. ok => Gained(m, id)'
    BY DEF Gained, Known, Pictured, ClosedFor, FormedFor, Still, tableVars
  <1>4. QED
    BY <1>1, <1>2, <1>3, AnswerKeeps

(* The reference is new, or its row is there: one that another request     *)
(* inserted, perhaps for the same intervention and an earlier sending.     *)
LEMMA CreateKeeps ==
  ASSUME UploadInv, NEW m \in net, create_intervention(m)
  PROVE  UploadInv'
  <1> USE DEF UploadInv
  <1>1. m \in Requests /\ m.step = "create" /\ faults' = faults
    BY DEF UploadTypeOK, create_intervention
  <1>2. interventions \in Seq(InterventionRows) /\ [ref |-> m.ref, by |-> m.by] \in InterventionRows
    BY <1>1 DEF UploadTypeOK, Requests, InterventionRows
  <1>3. CASE WithRef(m) = {}
    <2> DEFINE x == [ref |-> m.ref, by |-> m.by]
    <2>a. PICK n : n = Len(interventions)
      OBVIOUS
    <2>1. /\ interventions' = Append(interventions, x) /\ Answer(m, TRUE, n + 1)
          /\ UNCHANGED <<photos, closures, fiches, stored, nextKey>>
      BY <1>3, <2>a DEF create_intervention
    <2>2. x.ref = m.ref /\ x \in InterventionRows
      BY <1>2
    <2> HIDE DEF x
    <2>3. /\ n \in Nat /\ DOMAIN interventions = 1..n /\ DOMAIN interventions' = 1..(n + 1)
          /\ \A i \in 1..n : interventions'[i] = interventions[i]
          /\ interventions'[n + 1] = x /\ interventions' \in Seq(InterventionRows)
      BY <1>2, <2>a, <2>1, <2>2, AppendFacts
    <2>4. TablesGrow
      BY <1>2, <2>1, <2>2, AppendExtends DEF TablesGrow, Extends, UploadTypeOK
    <2>5. TablesTypeOK'
      BY <2>1, <2>3 DEF TablesTypeOK, UploadTypeOK
    <2>6. \A i \in 1..n : interventions[i].ref # m.ref
      BY <1>3, <2>3 DEF WithRef
    <2>7. \A i, j \in DOMAIN interventions' : interventions'[i].ref = interventions'[j].ref => i = j
      <3> SUFFICES ASSUME NEW i \in 1..(n + 1), NEW j \in 1..(n + 1),
                          interventions'[i].ref = interventions'[j].ref
                   PROVE  i = j
        BY <2>3
      <3>1. CASE i \in 1..n /\ j \in 1..n
        BY <2>3, <3>1 DEF TableInv, ReceivedOnce
      <3>2. CASE i = n + 1 /\ j \in 1..n
        BY <2>2, <2>3, <2>6, <3>2
      <3>3. CASE i \in 1..n /\ j = n + 1
        BY <2>2, <2>3, <2>6, <3>3
      <3>4. QED
        BY <2>3, <3>1, <3>2, <3>3
    <2>8. ReceivedOnce'
      BY <2>1, <2>7 DEF TableInv, ReceivedOnce
    <2>9. TableInv'
      BY <2>1, <2>4, <2>8, TablesKeep DEF TableInv
    <2>10. Gained(m, n + 1)'
      <3>1. Known(n + 1, m.ref)'
        BY <2>2, <2>3 DEF Known
      <3>2. QED
        BY <1>1, <3>1 DEF Gained
    <2>11. n + 1 \in Nat
      BY <2>3
    <2>12. QED
      BY <1>1, <2>1, <2>4, <2>5, <2>9, <2>10, <2>11, AnswerKeeps, Zenon
  <1>4. CASE WithRef(m) # {}
    <2>1. PICK i \in WithRef(m) : Answer(m, SameAuthor(interventions, i, m), i)
      BY <1>4 DEF create_intervention
    <2>2. Still
      BY <1>4 DEF create_intervention, Still, tableVars
    <2>3. Known(i, m.ref) /\ i \in DOMAIN interventions
      BY DEF WithRef, Known
    <2>4. i \in Nat
      <3>1. DOMAIN interventions = 1..Len(interventions) /\ Len(interventions) \in Nat
        BY <1>2, LenProperties
      <3>2. QED
        BY <2>3, <3>1
    <2>5. Gained(m, i)
      BY <1>1, <2>3 DEF Gained
    <2>6. SameAuthor(interventions, i, m) \in BOOLEAN
      BY DEF SameAuthor
    <2>7. QED
      BY <1>1, <2>1, <2>2, <2>4, <2>5, <2>6, StillAnswers
  <1>5. QED
    BY <1>3, <1>4

LEMMA UrlKeeps ==
  ASSUME UploadInv, NEW m \in net, create_photo_upload_url(m)
  PROVE  UploadInv'
  <1> USE DEF UploadInv
  <1>1. PICK k : k = nextKey
    OBVIOUS
  <1>2. PICK ok \in BOOLEAN : ok <=> m.iv \in DOMAIN interventions
    BY Zenon
  <1>3. /\ m.step = "url" /\ nextKey' = k + 1 /\ k \in Nat
        /\ Answer(m, m.iv \in DOMAIN interventions, k + 1)
        /\ UNCHANGED <<faults, tableVars, stored>>
    BY <1>1 DEF create_photo_upload_url, UploadTypeOK
  <1>4. Answer(m, ok, k + 1) /\ k + 1 \in Nat
    BY <1>2, <1>3 DEF Answer
  <1>5. TablesGrow
    BY <1>1, <1>3 DEF TablesGrow, Extends, tableVars, UploadTypeOK
  <1>6. TableInv'
    BY <1>3 DEF TableInv, ReceivedOnce, Known, tableVars
  <1>7. nextKey' \in Nat /\ stored' \in SUBSET (1..nextKey')
    BY <1>1, <1>3 DEF UploadTypeOK
  <1>8. TablesTypeOK'
    BY <1>3, <1>7 DEF TablesTypeOK, UploadTypeOK, tableVars
  <1>9. Gained(m, k + 1)'
    BY <1>3 DEF Gained
  <1>10. QED
    BY <1>3, <1>4, <1>5, <1>6, <1>8, <1>9, AnswerKeeps

LEMMA PutKeeps ==
  ASSUME UploadInv, NEW m \in net, PutObject(m)
  PROVE  UploadInv'
  <1> USE DEF UploadInv
  <1>1. /\ m.step = "put" /\ stored' = stored \cup {m.key} /\ Answer(m, TRUE, 0)
        /\ UNCHANGED <<faults, tableVars, nextKey>>
    BY DEF PutObject
  <1>2. m.key \in Nat /\ m.key # 0 /\ m.key <= nextKey /\ nextKey \in Nat
    BY <1>1 DEF UploadTypeOK, PhoneInv, MessageOK, Requests
  <1>3. TablesGrow
    BY <1>1, <1>2 DEF TablesGrow, Extends, tableVars
  <1>4. TableInv'
    BY <1>1 DEF TableInv, ReceivedOnce, Known, tableVars
  <1>a. stored \in SUBSET (1..nextKey) /\ m.key \in 1..nextKey /\ nextKey' = nextKey
    BY <1>1, <1>2 DEF UploadTypeOK
  <1>5. stored' \in SUBSET (1..nextKey')
    BY <1>1, <1>a
  <1>6. TablesTypeOK'
    BY <1>1, <1>5 DEF TablesTypeOK, UploadTypeOK, tableVars
  <1>7. Gained(m, 0)'
    BY <1>1 DEF Gained
  <1>8. 0 \in Nat
    OBVIOUS
  <1>9. QED
    BY <1>1, <1>3, <1>4, <1>6, <1>7, <1>8, AnswerKeeps, Zenon

(* The photo that is confirmed first is kept: it is that of the            *)
(* intervention, whose reference it carries.                               *)
LEMMA PhotoKeeps ==
  ASSUME UploadInv, NEW m \in net, create_photo(m)
  PROVE  UploadInv'
  <1> USE DEF UploadInv
  <1> DEFINE same == {i \in DOMAIN photos : photos[i].ref = m.ref}
  <1>1. /\ m \in Requests /\ m.step = "photo" /\ faults' = faults
        /\ UNCHANGED <<interventions, closures, fiches, stored, nextKey>>
    BY DEF UploadTypeOK, create_photo
  <1>2. Known(m.iv, m.ref) /\ m.key \in stored
    BY <1>1 DEF PhoneInv, MessageOK
  <1>3. CASE same = {}
    <2> DEFINE x == [ref |-> m.ref, iv |-> m.iv, key |-> m.key]
    <2>1. photos' = Append(photos, x) /\ Answer(m, TRUE, 0)
      BY <1>3 DEF create_photo
    <2>2. /\ x.ref = m.ref /\ x.iv = m.iv /\ x.key = m.key /\ x \in PhotoRows
          /\ photos \in Seq(PhotoRows)
      BY <1>1 DEF Requests, PhotoRows, UploadTypeOK
    <2> HIDE DEF x
    <2>3. PICK n : n = Len(photos)
      OBVIOUS
    <2>4. /\ n \in Nat /\ DOMAIN photos = 1..n /\ DOMAIN photos' = 1..(n + 1)
          /\ \A i \in 1..n : photos'[i] = photos[i]
          /\ photos'[n + 1] = x /\ photos' \in Seq(PhotoRows)
      BY <2>1, <2>2, <2>3, AppendFacts
    <2>5. TablesGrow
      BY <1>1, <2>1, <2>2, AppendExtends DEF TablesGrow, Extends, UploadTypeOK
    <2>6. TablesTypeOK'
      BY <1>1, <2>4 DEF TablesTypeOK, UploadTypeOK
    <2>7. \A i \in 1..n : photos[i].iv # m.iv
      BY <1>2, <1>3, <2>4 DEF TableInv, Known
    <2>8. \A i, j \in DOMAIN photos' : photos'[i].iv = photos'[j].iv => i = j
      <3> SUFFICES ASSUME NEW i \in 1..(n + 1), NEW j \in 1..(n + 1),
                          photos'[i].iv = photos'[j].iv
                   PROVE  i = j
        BY <2>4
      <3>1. CASE i \in 1..n /\ j \in 1..n
        BY <2>4, <3>1 DEF TableInv, ReceivedOnce
      <3>2. CASE i = n + 1 /\ j \in 1..n
        BY <2>2, <2>4, <2>7, <3>2
      <3>3. CASE i \in 1..n /\ j = n + 1
        BY <2>2, <2>4, <2>7, <3>3
      <3>4. QED
        BY <2>4, <3>1, <3>2, <3>3
    <2>9. ReceivedOnce'
      BY <1>1, <2>8 DEF TableInv, ReceivedOnce
    <2>10. ASSUME NEW k \in DOMAIN photos'
           PROVE  Known(photos[k].iv, photos[k].ref)' /\ photos'[k].key \in stored'
      <3>1. CASE k \in 1..n
        BY <1>1, <2>4, <3>1 DEF TableInv, Known
      <3>2. CASE k = n + 1
        BY <1>1, <1>2, <2>2, <2>4, <3>2 DEF Known
      <3>3. QED
        BY <2>4, <3>1, <3>2
    <2>11. TableInv'
      BY <2>9, <2>10 DEF TableInv
    <2>12. Gained(m, 0)'
      <3>1. Pictured(m.iv)'
        BY <1>1, <1>2, <2>2, <2>4 DEF Pictured
      <3>2. QED
        BY <1>1, <3>1 DEF Gained
    <2>13. 0 \in Nat
      OBVIOUS
    <2>14. QED
      BY <1>1, <2>1, <2>5, <2>6, <2>11, <2>12, <2>13, AnswerKeeps, Zenon
  <1>4. CASE same # {}
    <2>1. PICK i \in same : Answer(m, photos[i].iv = m.iv, 0)
      BY <1>4 DEF create_photo
    <2>2. Still
      BY <1>1, <1>4 DEF create_photo, Still, tableVars
    <2>3. PICK ok \in BOOLEAN : ok = (photos[i].iv = m.iv)
      OBVIOUS
    <2>4. Answer(m, ok, 0)
      BY <2>1, <2>3 DEF Answer
    <2>5. ok => Gained(m, 0)
      <3>1. photos[i].key \in stored
        BY DEF TableInv
      <3>2. ok => Pictured(m.iv)
        BY <2>3, <3>1 DEF Pictured
      <3>3. QED
        BY <1>1, <3>2 DEF Gained
    <2>6. QED
      BY <1>1, <2>2, <2>4, <2>5, StillAnswers
  <1>5. QED
    BY <1>3, <1>4

(* A closure is inserted once: the second insertion is an error. *)
LEMMA ClosureKeeps ==
  ASSUME UploadInv, NEW m \in net, m.step = "closure", m.checked, create_closure(m)
  PROVE  UploadInv'
  <1> USE DEF UploadInv
  <1>1. m \in Requests /\ ~(~m.checked)
    BY DEF UploadTypeOK
  <1>2. PICK ok \in BOOLEAN : ok = (Of(closures, m.iv) = {})
    OBVIOUS
  <1>3. /\ closures' = IF ok THEN Append(closures, [iv |-> m.iv, by |-> m.by]) ELSE closures
        /\ Answer(m, Of(closures, m.iv) = {}, 0)
        /\ UNCHANGED <<faults, interventions, photos, fiches, stored, nextKey>>
    BY <1>1, <1>2 DEF create_closure, LookUp
  <1>4. Answer(m, ok, 0)
    BY <1>2, <1>3 DEF Answer
  <1> DEFINE x == [iv |-> m.iv, by |-> m.by]
  <1>5. x \in FormRows /\ x.iv = m.iv /\ closures \in Seq(FormRows)
    BY <1>1 DEF UploadTypeOK, Requests, FormRows
  <1>6. CASE ok
    <2>1. closures' = Append(closures, x)
      BY <1>3, <1>6
    <2> HIDE DEF x
    <2>2. PICK n : n = Len(closures)
      OBVIOUS
    <2>3. /\ n \in Nat /\ DOMAIN closures = 1..n /\ DOMAIN closures' = 1..(n + 1)
          /\ \A i \in 1..n : closures'[i] = closures[i]
          /\ closures'[n + 1] = x /\ closures' \in Seq(FormRows)
      BY <1>5, <2>1, <2>2, AppendFacts
    <2>4. TablesGrow
      BY <1>3, <1>5, <2>1, AppendExtends DEF TablesGrow, Extends, UploadTypeOK
    <2>5. TablesTypeOK'
      BY <1>3, <2>3 DEF TablesTypeOK, UploadTypeOK
    <2>6. \A i \in 1..n : closures[i].iv # m.iv
      BY <1>2, <1>6, <2>3 DEF Of
    <2>7. \A i, j \in DOMAIN closures' : closures'[i].iv = closures'[j].iv => i = j
      <3> SUFFICES ASSUME NEW i \in 1..(n + 1), NEW j \in 1..(n + 1),
                          closures'[i].iv = closures'[j].iv
                   PROVE  i = j
        BY <2>3
      <3>1. CASE i \in 1..n /\ j \in 1..n
        BY <2>3, <3>1 DEF TableInv, ReceivedOnce
      <3>2. CASE i = n + 1 /\ j \in 1..n
        BY <1>5, <2>3, <2>6, <3>2
      <3>3. CASE i \in 1..n /\ j = n + 1
        BY <1>5, <2>3, <2>6, <3>3
      <3>4. QED
        BY <2>3, <3>1, <3>2, <3>3
    <2>8. ReceivedOnce'
      BY <1>3, <2>7 DEF TableInv, ReceivedOnce
    <2>9. TableInv'
      BY <1>3, <2>4, <2>8, TablesKeep DEF TableInv
    <2>10. Gained(m, 0)'
      <3>1. ClosedFor(m.iv)'
        BY <1>5, <2>3 DEF ClosedFor
      <3>2. QED
        BY <3>1 DEF Gained
    <2>11. QED
      BY <1>3, <1>4, <2>4, <2>5, <2>9, <2>10, AnswerKeeps
  <1>7. CASE ~ok
    <2>1. Still
      BY <1>3, <1>7 DEF Still, tableVars
    <2>2. QED
      BY <1>3, <1>4, <1>7, <2>1, StillAnswers
  <1>8. QED
    BY <1>6, <1>7

(* So is a refrigerant form. *)
LEMMA FgasKeeps ==
  ASSUME UploadInv, NEW m \in net, m.step = "fgas", m.checked, create_fgas_intervention(m)
  PROVE  UploadInv'
  <1> USE DEF UploadInv
  <1>1. m \in Requests /\ ~(~m.checked)
    BY DEF UploadTypeOK
  <1>2. PICK ok \in BOOLEAN : ok = (Of(fiches, m.iv) = {})
    OBVIOUS
  <1>3. /\ fiches' = IF ok THEN Append(fiches, [iv |-> m.iv, by |-> m.by]) ELSE fiches
        /\ Answer(m, Of(fiches, m.iv) = {}, 0)
        /\ UNCHANGED <<faults, interventions, photos, closures, stored, nextKey>>
    BY <1>1, <1>2 DEF create_fgas_intervention, LookUp
  <1>4. Answer(m, ok, 0)
    BY <1>2, <1>3 DEF Answer
  <1> DEFINE x == [iv |-> m.iv, by |-> m.by]
  <1>5. x \in FormRows /\ x.iv = m.iv /\ fiches \in Seq(FormRows)
    BY <1>1 DEF UploadTypeOK, Requests, FormRows
  <1>6. CASE ok
    <2>1. fiches' = Append(fiches, x)
      BY <1>3, <1>6
    <2> HIDE DEF x
    <2>2. PICK n : n = Len(fiches)
      OBVIOUS
    <2>3. /\ n \in Nat /\ DOMAIN fiches = 1..n /\ DOMAIN fiches' = 1..(n + 1)
          /\ \A i \in 1..n : fiches'[i] = fiches[i]
          /\ fiches'[n + 1] = x /\ fiches' \in Seq(FormRows)
      BY <1>5, <2>1, <2>2, AppendFacts
    <2>4. TablesGrow
      BY <1>3, <1>5, <2>1, AppendExtends DEF TablesGrow, Extends, UploadTypeOK
    <2>5. TablesTypeOK'
      BY <1>3, <2>3 DEF TablesTypeOK, UploadTypeOK
    <2>6. \A i \in 1..n : fiches[i].iv # m.iv
      BY <1>2, <1>6, <2>3 DEF Of
    <2>7. \A i, j \in DOMAIN fiches' : fiches'[i].iv = fiches'[j].iv => i = j
      <3> SUFFICES ASSUME NEW i \in 1..(n + 1), NEW j \in 1..(n + 1),
                          fiches'[i].iv = fiches'[j].iv
                   PROVE  i = j
        BY <2>3
      <3>1. CASE i \in 1..n /\ j \in 1..n
        BY <2>3, <3>1 DEF TableInv, ReceivedOnce
      <3>2. CASE i = n + 1 /\ j \in 1..n
        BY <1>5, <2>3, <2>6, <3>2
      <3>3. CASE i \in 1..n /\ j = n + 1
        BY <1>5, <2>3, <2>6, <3>3
      <3>4. QED
        BY <2>3, <3>1, <3>2, <3>3
    <2>8. ReceivedOnce'
      BY <1>3, <2>7 DEF TableInv, ReceivedOnce
    <2>9. TableInv'
      BY <1>3, <2>4, <2>8, TablesKeep DEF TableInv
    <2>10. Gained(m, 0)'
      <3>1. FormedFor(m.iv)'
        BY <1>5, <2>3 DEF FormedFor
      <3>2. QED
        BY <3>1 DEF Gained
    <2>11. QED
      BY <1>3, <1>4, <2>4, <2>5, <2>9, <2>10, AnswerKeeps
  <1>7. CASE ~ok
    <2>1. Still
      BY <1>3, <1>7 DEF Still, tableVars
    <2>2. QED
      BY <1>3, <1>4, <1>7, <2>1, StillAnswers
  <1>8. QED
    BY <1>6, <1>7

(* The row is looked for first: without one, and if the form is accepted,  *)
(* it is inserted in a later step.                                         *)
LEMMA LookUpKeeps ==
  ASSUME UploadInv, NEW m \in net, NEW table, NEW valid \in BOOLEAN, LookUp(m, table, valid),
         \/ m.step = "closure" /\ table = closures
         \/ m.step = "fgas" /\ table = fiches
  PROVE  UploadInv'
  <1> USE DEF UploadInv
  <1>1. Still /\ faults' = faults
    BY DEF LookUp, Still
  <1>2. m \in Requests /\ MessageOK(m)
    BY DEF UploadTypeOK, PhoneInv
  <1>3. CASE valid /\ m.iv \in DOMAIN interventions /\ Of(table, m.iv) = {}
    <2> DEFINE n == [m EXCEPT !.checked = TRUE]
    <2>1. net' = (net \ {m}) \cup {n} /\ UNCHANGED <<localVars, phoneVars>>
      BY <1>3 DEF LookUp
    <2>2. /\ n \in Requests /\ n.step = m.step /\ n.ref = m.ref /\ n.iv = m.iv /\ n.key = m.key
          /\ n.awaited = m.awaited
      BY <1>2 DEF Requests
    <2> HIDE DEF n
    <2>3. \A p \in net : MessageOK(p) /\ p \in Requests
      BY DEF UploadTypeOK, PhoneInv
    <2>4. MessageOK(n)
      BY <1>2, <2>2 DEF MessageOK
    <2>5. \A p \in net' : MessageOK(p)'
      BY <1>1, <2>1, <2>3, <2>4 DEF MessageOK, Known, Still, tableVars, localVars, phoneVars
    <2>6. \A p, q \in net' : p.awaited /\ q.awaited => p = q
      BY <2>1, <2>2 DEF UploadTypeOK
    <2>7. UploadTypeOK'
      BY <1>1, <2>1, <2>2, <2>3, <2>6 DEF UploadTypeOK, Still, tableVars, localVars, phoneVars
    <2>8. TableInv'
      BY <1>1, StillTables
    <2>9. ASSUME NEW r \in Refs PROVE RowOK(r)'
      BY <1>1, <2>1 DEF PhoneInv, RowOK, Known, Pictured, ClosedFor, FormedFor, Wanted, Still,
             tableVars, localVars
    <2>10. PhoneInv'
      BY <1>1, <2>1, <2>5, <2>9 DEF PhoneInv, Still, phoneVars
    <2>11. QED
      BY <2>7, <2>8, <2>10
  <1>4. CASE ~(valid /\ m.iv \in DOMAIN interventions /\ Of(table, m.iv) = {})
    <2>1. Answer(m, valid /\ \E i \in Of(table, m.iv) : SameAuthor(table, i, m), 0)
      BY <1>4 DEF LookUp
    <2>2. PICK ok \in BOOLEAN :
            ok = (valid /\ \E i \in Of(table, m.iv) : SameAuthor(table, i, m))
      OBVIOUS
    <2>3. Answer(m, ok, 0)
      BY <2>1, <2>2 DEF Answer
    <2>4. ok => \E i \in DOMAIN table : table[i].iv = m.iv
      BY <2>2 DEF Of
    <2>5. ok => Gained(m, 0)
      BY <2>4 DEF Gained, ClosedFor, FormedFor
    <2>6. QED
      BY <1>1, <2>3, <2>5, StillAnswers
  <1>5. QED
    BY <1>3, <1>4

LEMMA ServeKeeps ==
  ASSUME UploadInv, NEW m \in net, Serve(m)
  PROVE  UploadInv'
  <1>1. CASE create_intervention(m)
    BY <1>1, CreateKeeps
  <1>2. CASE create_photo_upload_url(m)
    BY <1>2, UrlKeeps
  <1>3. CASE PutObject(m)
    BY <1>3, PutKeeps
  <1>4. CASE create_photo(m)
    BY <1>4, PhotoKeeps
  <1>5. CASE create_closure(m)
    <2>1. m.step = "closure"
      BY <1>5 DEF create_closure
    <2>2. CASE LookUp(m, closures, TRUE)
      <3>1. TRUE \in BOOLEAN
        OBVIOUS
      <3>2. QED
        BY <2>1, <2>2, <3>1, LookUpKeeps, Zenon
    <2>3. CASE m.checked
      BY <1>5, <2>1, <2>3, ClosureKeeps
    <2>4. QED
      BY <1>5, <2>2, <2>3 DEF create_closure
  <1>6. CASE create_fgas_intervention(m)
    <2> DEFINE valid == FgasCreate(form[m.ref]) /\ FgasAllowed(form[m.ref])
    <2>1. m.step = "fgas"
      BY <1>6 DEF create_fgas_intervention
    <2>2. CASE LookUp(m, fiches, valid)
      <3>1. valid \in BOOLEAN
        BY DEF FgasCreate, FgasAllowed
      <3> HIDE DEF valid
      <3>2. QED
        BY <2>1, <2>2, <3>1, LookUpKeeps, Zenon
    <2>3. CASE m.checked
      BY <1>6, <2>1, <2>3, FgasKeeps
    <2>4. QED
      BY <1>6, <2>2, <2>3 DEF create_fgas_intervention
  <1>7. QED
    BY <1>1, <1>2, <1>3, <1>4, <1>5, <1>6 DEF Serve

LEMMA UploadStep == UploadInv /\ [UploadNext]_uploadVars => UploadInv'
  <1> SUFFICES ASSUME UploadInv, [UploadNext]_uploadVars PROVE UploadInv'
    OBVIOUS
  <1>1. ASSUME NEW r \in Refs, NEW d \in Drafts, handleSave(r, d) PROVE UploadInv'
    BY <1>1, HandleSaveKeeps
  <1>2. CASE \E u \in Users : Login(u)
    BY <1>2, SessionStep
  <1>3. CASE synchronize
    BY <1>3, SessionStep
  <1>4. CASE PhoneStep
    BY <1>4, SessionStep, SendStep, DeleteKeeps DEF PhoneStep
  <1>5. CASE Killed
    BY <1>5, ForsakeStep
  <1>6. ASSUME NEW m \in net, GiveUp(m) \/ Serve(m) PROVE UploadInv'
    BY <1>6, ForsakeStep, ServeKeeps
  <1>7. CASE UNCHANGED uploadVars
    <2>1. Still /\ UNCHANGED <<localVars, phoneVars, net, faults>>
      BY <1>7 DEF uploadVars, Still
    <2>2. sender' = Nobody => todo' = {} /\ row' = Nobody
      BY <2>1 DEF phoneVars, UploadInv, PhoneInv
    <2>3. QED
      BY <2>1, <2>2, SessionKeeps DEF phoneVars, UploadInv, UploadTypeOK
  <1>8. QED
    BY <1>1, <1>2, <1>3, <1>4, <1>5, <1>6, <1>7 DEF UploadNext

LEMMA UploadInvariant == UploadSpec => []UploadInv
  BY UploadInitInv, UploadStep, PTL DEF UploadSpec

-----------------------------------------------------------------------------
(* The phone, the requests and the tables are well typed; the phone waits  *)
(* for one request at most.                                                *)
THEOREM UploadTypeCorrect == UploadSpec => []UploadTypeOK
  <1>1. UploadInv => UploadTypeOK
    BY DEF UploadInv
  <1>2. QED
    BY <1>1, UploadInvariant, PTL

(* However often a piece is sent, and in whatever order the sendings are   *)
(* served, the server holds it once (log_intervention_once,                *)
(* record_photo_once, uniqueness of intervention_id).                      *)
THEOREM ReceivedOnceHolds == UploadSpec => []ReceivedOnce
  <1>1. UploadInv => ReceivedOnce
    BY DEF UploadInv, TableInv
  <1>2. QED
    BY <1>1, UploadInvariant, PTL

(* What the phone has deleted is on the server, with its photo in the      *)
(* storage, its closure and its refrigerant form                           *)
(* (deletePendingIntervention, last step of a row).                        *)
THEOREM DeletedOnlyWhenStoredHolds == UploadSpec => []DeletedOnlyWhenStored
  <1>1. UploadInv => DeletedOnlyWhenStored
    <2> SUFFICES ASSUME UploadInv, NEW r \in Refs, held[r] = "gone"
                 PROVE  \E i \in DOMAIN interventions :
                           /\ interventions[i].ref = r
                           /\ \E k \in Of(photos, i) : photos[k].key \in stored
                           /\ closing[r] => Of(closures, i) # {}
                           /\ form[r] # NoForm => Of(fiches, i) # {}
      BY DEF DeletedOnlyWhenStored
    <2> DEFINE i == serverId[r]
    <2>1. RowOK(r) /\ Wanted(r) \subseteq acked[r]
      BY DEF UploadInv, PhoneInv, RowOK
    <2>2. /\ "create" \in acked[r] /\ "photo" \in acked[r]
          /\ closing[r] => "closure" \in acked[r]
          /\ form[r] # NoForm => "fgas" \in acked[r]
      BY <2>1 DEF Wanted
    <2>3. /\ Known(i, r) /\ Pictured(i)
          /\ closing[r] => ClosedFor(i)
          /\ form[r] # NoForm => FormedFor(i)
      BY <2>1, <2>2 DEF RowOK
    <2> HIDE DEF i
    <2>4. QED
      BY <2>3 DEF Known, Pictured, ClosedFor, FormedFor, Of
  <1>2. QED
    BY <1>1, UploadInvariant, PTL

-----------------------------------------------------------------------------
(* The refinement of InterventionHandover.                                 *)

(* Further conjuncts that the refinement needs: what the synchronization   *)
(* in flight has still to send is queued, a request is about a piece that  *)
(* was entered and sent after those it belongs to, and a closure or a form *)
(* is that of an intervention.                                             *)
RequestOK(m) ==
    /\ held[m.ref] # "absent"
    /\ m.step \in {"url", "put"} \cup Wanted(m.ref)
    /\ m.step = "closure" => "photo" \in acked[m.ref]
    /\ m.step = "fgas" => Wanted(m.ref) \ {"fgas"} \subseteq acked[m.ref]

OrderInv ==
    /\ \A r \in todo : held[r] = "queued"
    /\ row # Nobody => held[row] = "queued" /\ row \notin todo
    /\ \A m \in net : RequestOK(m)

FormInv ==
    /\ \A k \in DOMAIN closures : closures[k].iv \in DOMAIN interventions
    /\ \A k \in DOMAIN fiches : fiches[k].iv \in DOMAIN interventions

HandoverInv == OrderInv /\ FormInv

(* What a request asks for was entered once its intervention was saved,    *)
(* and what is marked stays marked.                                        *)
LEMMA RequestStays ==
  ASSUME NEW m, RequestOK(m), held'[m.ref] # "absent", Wanted(m.ref)' = Wanted(m.ref),
         acked[m.ref] \subseteq acked'[m.ref]
  PROVE  RequestOK(m)'
  BY DEF RequestOK

LEMMA WantedStays == ASSUME UNCHANGED <<closing, form>> PROVE \A r : Wanted(r)' = Wanted(r)
  BY DEF Wanted

LEMMA OrderSave ==
  ASSUME UploadInv, OrderInv, NEW r \in Refs, NEW d \in Drafts, handleSave(r, d)
  PROVE  OrderInv'
  <1>1. /\ held[r] = "absent" /\ held' = [held EXCEPT ![r] = "queued"]
        /\ closing' = [closing EXCEPT ![r] = d.closing]
        /\ form' = [form EXCEPT ![r] = d.form]
        /\ UNCHANGED <<acked, todo, row, net>>
    BY DEF handleSave, phoneVars
  <1>2. UploadTypeOK
    BY DEF UploadInv
  <1>3. \A x \in Refs : x # r => held'[x] = held[x] /\ Wanted(x)' = Wanted(x)
    BY <1>1, <1>2 DEF UploadTypeOK, Wanted
  <1>4. ASSUME NEW m \in net PROVE RequestOK(m)'
    <2>1. RequestOK(m) /\ m.ref \in Refs
      BY <1>2 DEF OrderInv, UploadTypeOK, Requests
    <2>2. m.ref # r
      BY <1>1, <2>1 DEF RequestOK
    <2>3. QED
      BY <1>1, <1>3, <2>1, <2>2 DEF RequestOK
  <1>5. \A x \in todo : held'[x] = "queued"
    BY <1>1, <1>2 DEF OrderInv, UploadTypeOK
  <1>6. row # Nobody => held'[row] = "queued"
    BY <1>1, <1>2 DEF OrderInv, UploadTypeOK
  <1>7. QED
    BY <1>1, <1>4, <1>5, <1>6 DEF OrderInv

LEMMA OrderSession ==
  ASSUME UploadInv, OrderInv,
         \/ synchronize \/ SyncEnd
         \/ \E u \in Users : Login(u)
         \/ \E r \in Refs : NextRow(r)
  PROVE  OrderInv'
  <1>1. UNCHANGED <<held, closing, form, acked, net>>
    BY DEF synchronize, SyncEnd, Login, NextRow, localVars
  <1>2. \A m \in net' : RequestOK(m)'
    BY <1>1 DEF OrderInv, RequestOK, Wanted
  <1>3. CASE synchronize
    <2>1. row = Nobody /\ row' = row /\ todo' = {r \in Refs : held[r] = "queued"}
      BY <1>3 DEF synchronize, UploadInv, PhoneInv
    <2>2. QED
      BY <1>1, <1>2, <2>1 DEF OrderInv
  <1>4. CASE SyncEnd \/ \E u \in Users : Login(u)
    <2>1. UNCHANGED <<todo, row>>
      BY <1>4 DEF SyncEnd, Login
    <2>2. QED
      BY <1>1, <1>2, <2>1 DEF OrderInv
  <1>5. ASSUME NEW r \in Refs, NextRow(r) PROVE OrderInv'
    <2>1. r \in todo /\ row' = r /\ todo' = todo \ {r}
      BY <1>5 DEF NextRow
    <2>2. QED
      BY <1>1, <1>2, <2>1 DEF OrderInv
  <1>6. QED
    BY <1>3, <1>4, <1>5

LEMMA OrderSend ==
  ASSUME UploadInv, OrderInv,
         ensureInterventionCreated \/ uploadPhoto \/ sendClosure \/ sendFgas
  PROVE  OrderInv'
  <1>1. PICK s \in Steps :
          /\ row # Nobody /\ Send(s)
          /\ s \in {"url", "put"} \cup Wanted(row)
          /\ s = "closure" => "photo" \in acked[row]
          /\ s = "fgas" => Wanted(row) \ acked[row] = {"fgas"}
    <2>1. CASE ensureInterventionCreated
      BY <2>1 DEF ensureInterventionCreated, Steps, Wanted
    <2>2. CASE uploadPhoto
      BY <2>2 DEF uploadPhoto, Steps, Wanted
    <2>3. CASE sendClosure
      BY <2>3 DEF sendClosure, Steps, Wanted
    <2>4. CASE sendFgas
      BY <2>4 DEF sendFgas, Steps
    <2>5. QED
      BY <2>1, <2>2, <2>3, <2>4
  <1> DEFINE n == [step |-> s, ref |-> row, by |-> sender, iv |-> serverId[row],
                   key |-> objectKey, awaited |-> TRUE, checked |-> FALSE]
  <1>2. /\ net' = net \cup {n} /\ n.step = s /\ n.ref = row
        /\ UNCHANGED <<held, closing, form, acked, todo, row>>
    BY <1>1 DEF Send, localVars, phoneVars
  <1> HIDE DEF n
  <1>3. RequestOK(n)
    BY <1>1, <1>2 DEF OrderInv, RequestOK
  <1>4. \A m \in net' : RequestOK(m)
    BY <1>2, <1>3 DEF OrderInv
  <1>5. \A m \in net' : RequestOK(m)'
    BY <1>2, <1>4 DEF RequestOK, Wanted
  <1>6. QED
    BY <1>2, <1>5 DEF OrderInv

LEMMA OrderDelete ==
  ASSUME UploadInv, OrderInv, deletePendingIntervention
  PROVE  OrderInv'
  <1>1. /\ held' = [held EXCEPT ![row] = "gone"] /\ row' = Nobody
        /\ UNCHANGED <<closing, form, acked, todo, net>> /\ row # Nobody
    BY DEF deletePendingIntervention
  <1>2. UploadTypeOK
    BY DEF UploadInv
  <1>3. ASSUME NEW m \in net PROVE RequestOK(m)'
    <2>1. RequestOK(m) /\ m.ref \in Refs
      BY <1>2 DEF OrderInv, UploadTypeOK, Requests
    <2>2. held'[m.ref] # "absent"
      BY <1>1, <1>2, <2>1 DEF UploadTypeOK, RequestOK
    <2>3. QED
      BY <1>1, <2>1, <2>2, WantedStays, RequestStays
  <1>4. \A r \in todo : held'[r] = "queued"
    BY <1>1, <1>2 DEF OrderInv, UploadTypeOK
  <1>5. QED
    BY <1>1, <1>3, <1>4 DEF OrderInv

(* The phone gives up on what it was sending, or is killed.                *)
LEMMA OrderForsake ==
  ASSUME UploadInv, OrderInv, Killed \/ \E m \in net : GiveUp(m)
  PROVE  OrderInv'
  <1>1. /\ row' = Nobody /\ todo' \subseteq todo
        /\ UNCHANGED <<held, closing, form, acked>>
    BY DEF Killed, GiveUp, RowFailed, localVars
  <1>2. \A n \in net' : \E m \in net : n.step = m.step /\ n.ref = m.ref
    <2>1. net \subseteq Requests
      BY DEF UploadInv, UploadTypeOK
    <2>2. ASSUME NEW m \in net
          PROVE  LET n == [m EXCEPT !.awaited = FALSE] IN n.step = m.step /\ n.ref = m.ref
      BY <2>1 DEF Requests
    <2>3. CASE Killed
      <3>1. net' = {[m EXCEPT !.awaited = FALSE] : m \in net}
        BY <2>3 DEF Killed
      <3>2. QED
        BY <2>2, <3>1
    <2>4. ASSUME NEW m \in net, GiveUp(m)
          PROVE  \A n \in net' : \E p \in net : n.step = p.step /\ n.ref = p.ref
      <3>1. net' = (net \ {m}) \cup {[m EXCEPT !.awaited = FALSE]}
        BY <2>4 DEF GiveUp
      <3>2. QED
        BY <2>2, <3>1
    <2>5. QED
      BY <2>3, <2>4
  <1>3. \A n \in net' : RequestOK(n)'
    BY <1>1, <1>2 DEF OrderInv, RequestOK, Wanted
  <1>4. QED
    BY <1>1, <1>3 DEF OrderInv

(* A request is served: what it asked for may be marked, and it is over,   *)
(* unless it is still to insert its row.                                   *)
LEMMA OrderServe ==
  ASSUME UploadInv, OrderInv, NEW m \in net, Serve(m)
  PROVE  OrderInv'
  <1> DEFINE n == [m EXCEPT !.checked = TRUE]
  <1>1. \/ \E ok, id : Answer(m, ok, id)
        \/ net' = (net \ {m}) \cup {n} /\ UNCHANGED <<localVars, phoneVars>>
    BY DEF Serve, create_intervention, create_photo_upload_url, PutObject, create_photo,
           create_closure, create_fgas_intervention, LookUp
  <1>2. m \in Requests /\ UploadTypeOK /\ MessageOK(m)
    BY DEF UploadInv, UploadTypeOK, PhoneInv
  <1>3. n.step = m.step /\ n.ref = m.ref
    BY <1>2 DEF Requests
  <1> HIDE DEF n
  <1>4. CASE net' = (net \ {m}) \cup {n} /\ UNCHANGED <<localVars, phoneVars>>
    <2>1. UNCHANGED <<held, closing, form, acked, todo, row>>
      BY <1>4 DEF localVars, phoneVars
    <2>2. \A p \in net' : \E x \in net : p.step = x.step /\ p.ref = x.ref
      BY <1>3, <1>4
    <2>3. \A p \in net' : RequestOK(p)'
      BY <2>1, <2>2 DEF OrderInv, RequestOK, Wanted
    <2>4. QED
      BY <2>1, <2>3 DEF OrderInv
  <1>5. ASSUME NEW ok, NEW id, Answer(m, ok, id)
        PROVE  OrderInv'
    <2>1. /\ net' = net \ {m} /\ UNCHANGED <<held, closing, form, todo>>
          /\ row' \in {row, Nobody}
      BY <1>5 DEF Answer, RowFailed, localVars, phoneVars
    <2>2. \A r \in Refs : acked[r] \subseteq acked'[r]
      <3>1. \/ acked' = acked
            \/ acked' = [acked EXCEPT ![row] = @ \cup ({m.step} \ {"url", "put"})]
        BY <1>5 DEF Answer, RowFailed, localVars
      <3>2. DOMAIN acked = Refs
        BY <1>2 DEF UploadTypeOK
      <3>3. ASSUME NEW S, acked' = [acked EXCEPT ![row] = @ \cup S], NEW r \in Refs
            PROVE  acked[r] \subseteq acked'[r]
        <4>1. acked'[r] = IF r = row THEN acked[row] \cup S ELSE acked[r]
          BY <3>2, <3>3, Zenon
        <4>2. QED
          BY <4>1
      <3>4. QED
        BY <3>1, <3>3
    <2>3. ASSUME NEW p \in net' PROVE RequestOK(p)'
      <3>1. RequestOK(p) /\ p.ref \in Refs
        BY <1>2, <2>1 DEF OrderInv, UploadTypeOK, Requests
      <3>2. held'[p.ref] # "absent"
        BY <2>1, <3>1 DEF RequestOK
      <3>3. QED
        BY <2>1, <2>2, <3>1, <3>2, WantedStays, RequestStays
    <2>4. QED
      BY <2>1, <2>3 DEF OrderInv
  <1>6. QED
    BY <1>1, <1>4, <1>5

LEMMA OrderStep == UploadInv /\ OrderInv /\ [UploadNext]_uploadVars => OrderInv'
  <1> SUFFICES ASSUME UploadInv, OrderInv, [UploadNext]_uploadVars PROVE OrderInv'
    OBVIOUS
  <1>1. CASE \E r \in Refs, d \in Drafts : handleSave(r, d)
    BY <1>1, OrderSave
  <1>2. CASE synchronize \/ \E u \in Users : Login(u)
    BY <1>2, OrderSession
  <1>3. CASE PhoneStep
    BY <1>3, OrderSession, OrderSend, OrderDelete DEF PhoneStep
  <1>4. CASE Killed \/ \E m \in net : GiveUp(m)
    BY <1>4, OrderForsake
  <1>5. CASE \E m \in net : Serve(m)
    BY <1>5, OrderServe
  <1>6. CASE UNCHANGED uploadVars
    <2>1. UNCHANGED <<held, closing, form, acked, todo, row, net>>
      BY <1>6 DEF uploadVars, localVars, phoneVars
    <2>2. QED
      BY <2>1 DEF OrderInv, RequestOK, Wanted
  <1>7. QED
    BY <1>1, <1>2, <1>3, <1>4, <1>5, <1>6 DEF UploadNext

(* What a served request inserts, if anything: one row, into its table. *)
LEMMA FormStep == UploadInv /\ FormInv /\ [UploadNext]_uploadVars => FormInv'
  <1> SUFFICES ASSUME UploadInv, FormInv, [UploadNext]_uploadVars PROVE FormInv'
    OBVIOUS
  <1>1. CASE UNCHANGED <<interventions, closures, fiches>>
    BY <1>1 DEF FormInv
  <1>2. ASSUME NEW m \in net, create_intervention(m) PROVE FormInv'
    <2>1. m \in Requests /\ UploadTypeOK
      BY DEF UploadInv, UploadTypeOK
    <2>2. interventions' = interventions
          \/ interventions' = Append(interventions, [ref |-> m.ref, by |-> m.by])
      BY <1>2 DEF create_intervention
    <2>3. [ref |-> m.ref, by |-> m.by] \in InterventionRows
      BY <2>1 DEF Requests, InterventionRows
    <2>4. DOMAIN interventions \subseteq DOMAIN interventions'
      BY <2>1, <2>2, <2>3, AppendExtends DEF Extends, UploadTypeOK
    <2>5. UNCHANGED <<closures, fiches>>
      BY <1>2 DEF create_intervention
    <2>6. QED
      BY <2>4, <2>5 DEF FormInv
  <1>3. ASSUME NEW m \in net, create_closure(m) \/ create_fgas_intervention(m) PROVE FormInv'
    <2>1. /\ m \in Requests /\ m.iv \in DOMAIN interventions /\ interventions' = interventions
          /\ closures \in Seq(FormRows) /\ fiches \in Seq(FormRows)
      BY <1>3 DEF UploadInv, UploadTypeOK, PhoneInv, MessageOK, Known, create_closure,
                  create_fgas_intervention, LookUp, tableVars
    <2>2. PICK x : x = [iv |-> m.iv, by |-> m.by]
      OBVIOUS
    <2>3. x.iv = m.iv /\ x \in FormRows
      BY <2>1, <2>2 DEF Requests, FormRows
    <2>4. /\ closures' \in {closures, Append(closures, x)}
          /\ fiches' \in {fiches, Append(fiches, x)}
      BY <1>3, <2>2 DEF create_closure, create_fgas_intervention, LookUp, tableVars
    <2>5. ASSUME NEW t \in Seq(FormRows), \A k \in DOMAIN t : t[k].iv \in DOMAIN interventions,
                 NEW u \in {t, Append(t, x)}
          PROVE  \A k \in DOMAIN u : u[k].iv \in DOMAIN interventions
      BY <2>1, <2>3, <2>5, AppendFacts
    <2>6. QED
      BY <2>1, <2>4, <2>5 DEF FormInv
  <1>4. QED
    BY <1>1, <1>2, <1>3
    DEF UploadNext, uploadVars, tableVars, handleSave, Login, synchronize, PhoneStep, NextRow,
        SyncEnd, ensureInterventionCreated, uploadPhoto, sendClosure, sendFgas, Send,
        deletePendingIntervention, Killed, GiveUp, Serve, create_photo_upload_url, PutObject,
        create_photo

(* Received, table by table. *)
CreatedRows == {<<RefOf(i), "create", i>> : i \in DOMAIN interventions}
PhotoKept == {k \in DOMAIN photos : photos[k].key \in stored}
PictureRows == {<<RefOf(photos[k].iv), "photo", k>> : k \in PhotoKept}
ClosureRows == {<<RefOf(closures[k].iv), "closure", k>> : k \in DOMAIN closures}
FicheRows == {<<RefOf(fiches[k].iv), "fgas", k>> : k \in DOMAIN fiches}

LEMMA ReceivedIs ==
  /\ Received = CreatedRows \cup PictureRows \cup ClosureRows \cup FicheRows
  /\ Received' = CreatedRows' \cup PictureRows' \cup ClosureRows' \cup FicheRows'
  BY DEF Received, CreatedRows, PictureRows, PhotoKept, ClosureRows, FicheRows

LEMMA ArrivedIs ==
  ASSUME NEW r
  PROVE  /\ Handover!Arrived(r, "create") <=> \E i \in DOMAIN interventions : RefOf(i) = r
         /\ Handover!Arrived(r, "photo") <=> \E k \in PhotoKept : RefOf(photos[k].iv) = r
         /\ Handover!Arrived(r, "closure") <=> \E k \in DOMAIN closures : RefOf(closures[k].iv) = r
         /\ Handover!Arrived(r, "fgas") <=> \E k \in DOMAIN fiches : RefOf(fiches[k].iv) = r
  <1>1. Handover!Arrived(r, "create") <=> \E x \in CreatedRows : x[1] = r
    BY ReceivedIs DEF Handover!Arrived, CreatedRows, PictureRows, ClosureRows, FicheRows
  <1>2. Handover!Arrived(r, "photo") <=> \E x \in PictureRows : x[1] = r
    BY ReceivedIs DEF Handover!Arrived, CreatedRows, PictureRows, ClosureRows, FicheRows
  <1>3. Handover!Arrived(r, "closure") <=> \E x \in ClosureRows : x[1] = r
    BY ReceivedIs DEF Handover!Arrived, CreatedRows, PictureRows, ClosureRows, FicheRows
  <1>4. Handover!Arrived(r, "fgas") <=> \E x \in FicheRows : x[1] = r
    BY ReceivedIs DEF Handover!Arrived, CreatedRows, PictureRows, ClosureRows, FicheRows
  <1>5. (\E x \in CreatedRows : x[1] = r) <=> \E i \in DOMAIN interventions : RefOf(i) = r
    <2>1. ASSUME NEW x \in CreatedRows, x[1] = r PROVE \E i \in DOMAIN interventions : RefOf(i) = r
      <3>1. PICK i \in DOMAIN interventions : x = <<RefOf(i), "create", i>>
        BY DEF CreatedRows
      <3>2. QED
        BY <2>1, <3>1
    <2>2. ASSUME NEW i \in DOMAIN interventions, RefOf(i) = r PROVE \E x \in CreatedRows : x[1] = r
      <3>1. <<RefOf(i), "create", i>> \in CreatedRows
        BY DEF CreatedRows
      <3>2. <<RefOf(i), "create", i>>[1] = r
        BY <2>2
      <3>3. QED
        BY <3>1, <3>2
    <2>3. QED
      BY <2>1, <2>2
  <1>6. (\E x \in PictureRows : x[1] = r) <=> \E k \in PhotoKept : RefOf(photos[k].iv) = r
    <2>1. ASSUME NEW x \in PictureRows, x[1] = r PROVE \E k \in PhotoKept : RefOf(photos[k].iv) = r
      <3>1. PICK k \in PhotoKept : x = <<RefOf(photos[k].iv), "photo", k>>
        BY DEF PictureRows
      <3>2. QED
        BY <2>1, <3>1
    <2>2. ASSUME NEW k \in PhotoKept, RefOf(photos[k].iv) = r PROVE \E x \in PictureRows : x[1] = r
      <3>1. <<RefOf(photos[k].iv), "photo", k>> \in PictureRows
        BY DEF PictureRows
      <3>2. <<RefOf(photos[k].iv), "photo", k>>[1] = r
        BY <2>2
      <3>3. QED
        BY <3>1, <3>2
    <2>3. QED
      BY <2>1, <2>2
  <1>7. (\E x \in ClosureRows : x[1] = r) <=> \E k \in DOMAIN closures : RefOf(closures[k].iv) = r
    <2>1. ASSUME NEW x \in ClosureRows, x[1] = r PROVE \E k \in DOMAIN closures : RefOf(closures[k].iv) = r
      <3>1. PICK k \in DOMAIN closures : x = <<RefOf(closures[k].iv), "closure", k>>
        BY DEF ClosureRows
      <3>2. QED
        BY <2>1, <3>1
    <2>2. ASSUME NEW k \in DOMAIN closures, RefOf(closures[k].iv) = r PROVE \E x \in ClosureRows : x[1] = r
      <3>1. <<RefOf(closures[k].iv), "closure", k>> \in ClosureRows
        BY DEF ClosureRows
      <3>2. <<RefOf(closures[k].iv), "closure", k>>[1] = r
        BY <2>2
      <3>3. QED
        BY <3>1, <3>2
    <2>3. QED
      BY <2>1, <2>2
  <1>8. (\E x \in FicheRows : x[1] = r) <=> \E k \in DOMAIN fiches : RefOf(fiches[k].iv) = r
    <2>1. ASSUME NEW x \in FicheRows, x[1] = r PROVE \E k \in DOMAIN fiches : RefOf(fiches[k].iv) = r
      <3>1. PICK k \in DOMAIN fiches : x = <<RefOf(fiches[k].iv), "fgas", k>>
        BY DEF FicheRows
      <3>2. QED
        BY <2>1, <3>1
    <2>2. ASSUME NEW k \in DOMAIN fiches, RefOf(fiches[k].iv) = r PROVE \E x \in FicheRows : x[1] = r
      <3>1. <<RefOf(fiches[k].iv), "fgas", k>> \in FicheRows
        BY DEF FicheRows
      <3>2. <<RefOf(fiches[k].iv), "fgas", k>>[1] = r
        BY <2>2
      <3>3. QED
        BY <3>1, <3>2
    <2>3. QED
      BY <2>1, <2>2
  <1>9. QED
    BY <1>1, <1>2, <1>3, <1>4, <1>5, <1>6, <1>7, <1>8

(* What is marked has arrived. *)
LEMMA AckedArrived ==
  ASSUME UploadInv, NEW r \in Refs, NEW p \in acked[r]
  PROVE  Handover!Arrived(r, p)
  <1>1. RowOK(r) /\ Known(serverId[r], r)
    BY DEF UploadInv, PhoneInv, RowOK
  <1>2. p \in {"create", "photo", "closure", "fgas"}
    BY DEF UploadInv, UploadTypeOK
  <1>3. CASE p = "create"
    BY <1>1, <1>3, ArrivedIs DEF Known, RefOf
  <1>4. CASE p = "photo"
    BY <1>1, <1>4, ArrivedIs DEF RowOK, Pictured, PhotoKept, Known, RefOf
  <1>5. CASE p = "closure"
    BY <1>1, <1>5, ArrivedIs DEF RowOK, ClosedFor, Known, RefOf
  <1>6. CASE p = "fgas"
    BY <1>1, <1>6, ArrivedIs DEF RowOK, FormedFor, Known, RefOf
  <1>7. QED
    BY <1>2, <1>3, <1>4, <1>5, <1>6

(* Rows of the tables keep their reference while the tables only grow. *)
LEMMA RowsKept ==
  ASSUME UploadInv, FormInv, Extends(interventions, interventions'), stored \subseteq stored'
  PROVE  /\ UNCHANGED interventions => CreatedRows' = CreatedRows
         /\ UNCHANGED photos => PictureRows' = PictureRows
         /\ UNCHANGED closures => ClosureRows' = ClosureRows
         /\ UNCHANGED fiches => FicheRows' = FicheRows
  <1>1. \A i \in DOMAIN interventions : RefOf(i)' = RefOf(i)
    BY DEF Extends, RefOf
  <1>2. UNCHANGED interventions => CreatedRows' = CreatedRows
    BY DEF CreatedRows, RefOf
  <1>3. ASSUME UNCHANGED photos PROVE PictureRows' = PictureRows
    <2>1. \A k \in DOMAIN photos :
             photos[k].key \in stored /\ photos[k].iv \in DOMAIN interventions
      BY DEF UploadInv, TableInv, Known
    <2>2. PhotoKept' = PhotoKept /\ PhotoKept = DOMAIN photos
      BY <1>3, <2>1 DEF PhotoKept
    <2>3. \A k \in PhotoKept : RefOf(photos[k].iv)' = RefOf(photos[k].iv)
      BY <1>1, <1>3, <2>1 DEF PhotoKept, RefOf
    <2>4. QED
      BY <1>3, <2>2, <2>3 DEF PictureRows
  <1>4. ASSUME UNCHANGED closures PROVE ClosureRows' = ClosureRows
    <2>1. \A k \in DOMAIN closures : RefOf(closures[k].iv)' = RefOf(closures[k].iv)
      BY <1>1, <1>4 DEF FormInv, RefOf
    <2>2. QED
      BY <1>4, <2>1 DEF ClosureRows
  <1>5. ASSUME UNCHANGED fiches PROVE FicheRows' = FicheRows
    <2>1. \A k \in DOMAIN fiches : RefOf(fiches[k].iv)' = RefOf(fiches[k].iv)
      BY <1>1, <1>5 DEF FormInv, RefOf
    <2>2. QED
      BY <1>5, <2>1 DEF FicheRows
  <1>6. QED
    BY <1>2, <1>3, <1>4, <1>5

LEMMA NothingReceived ==
  ASSUME UploadInv, FormInv, UNCHANGED tableVars, stored \subseteq stored'
  PROVE  Received' = Received
  <1>1. UNCHANGED <<interventions, photos, closures, fiches>>
    BY DEF tableVars
  <1>2. Extends(interventions, interventions')
    BY <1>1 DEF Extends
  <1>3. /\ CreatedRows' = CreatedRows /\ PictureRows' = PictureRows
        /\ ClosureRows' = ClosureRows /\ FicheRows' = FicheRows
    BY <1>1, <1>2, RowsKept
  <1>5. QED
    BY <1>3, ReceivedIs

(* A piece that is served, and not there yet, is received as it should.    *)
LEMMA PieceReceived ==
  ASSUME UploadInv, OrderInv, NEW m \in net, m.step \in Handover!Pieces,
         UNCHANGED <<held, closing, form>>, ~Handover!Arrived(m.ref, m.step),
         NEW k, Received' = Received \cup {<<m.ref, m.step, k>>}
  PROVE  m.ref \in Refs /\ Handover!Receive(m.ref, m.step)
  <1>1. /\ m \in Requests /\ m.ref \in Refs /\ MessageOK(m) /\ RequestOK(m) /\ RowOK(m.ref)
        /\ held[m.ref] \in {"absent", "queued", "gone"}
    BY DEF UploadInv, UploadTypeOK, PhoneInv, Requests, OrderInv
  <1>2. m.step \in Wanted(m.ref)
    BY <1>1 DEF RequestOK, Handover!Pieces
  <1>3. held[m.ref] = "queued"
    <2>1. held[m.ref] # "gone"
      BY <1>1, <1>2, AckedArrived DEF RowOK
    <2>2. QED
      BY <1>1, <2>1 DEF RequestOK
  <1>4. Handover!Before(m.step, Wanted(m.ref)) \subseteq acked[m.ref]
    BY <1>1 DEF MessageOK, RequestOK, Handover!Before, Handover!Basic, Handover!Pieces
  <1>5. \A b \in Handover!Before(m.step, Wanted(m.ref)) : Handover!Arrived(m.ref, b)
    BY <1>1, <1>4, AckedArrived
  <1>6. [r \in Refs |-> Wanted(r)]' = [r \in Refs |-> Wanted(r)]
    BY WantedStays
  <1>7. \E x \in Received' : /\ x[1] = m.ref /\ x[2] = m.step
                             /\ Received' = Received \cup {x}
    OBVIOUS
  <1>8. QED
    BY <1>1, <1>2, <1>3, <1>5, <1>6, <1>7 DEF Handover!Receive

LEMMA PieceStep ==
  ASSUME NEW m, m.ref \in Refs, m.step \in Handover!Pieces, Handover!Receive(m.ref, m.step)
  PROVE  Handover!Next
  BY DEF Handover!Next

(* The insertions. *)
LEMMA HandoverCreate ==
  ASSUME UploadInv, HandoverInv, NEW m \in net, create_intervention(m)
  PROVE  Handover!Next \/ Received' = Received
  <1> USE DEF HandoverInv
  <1>1. /\ m.step = "create" /\ m.ref \in Refs /\ UNCHANGED <<held, closing, form>>
        /\ UNCHANGED <<photos, closures, fiches, stored>>
        /\ interventions \in Seq(InterventionRows)
        /\ [ref |-> m.ref, by |-> m.by] \in InterventionRows
    BY DEF create_intervention, Answer, RowFailed, localVars, UploadInv, UploadTypeOK, Requests,
           InterventionRows
  <1>2. CASE WithRef(m) = {}
    <2>1. PICK x : x = [ref |-> m.ref, by |-> m.by]
      OBVIOUS
    <2>2. x.ref = m.ref /\ x \in InterventionRows /\ interventions' = Append(interventions, x)
      BY <1>1, <1>2, <2>1 DEF create_intervention
    <2>3. PICK n : n = Len(interventions)
      OBVIOUS
    <2>4. /\ n \in Nat /\ DOMAIN interventions = 1..n /\ DOMAIN interventions' = 1..(n + 1)
          /\ \A i \in 1..n : interventions'[i] = interventions[i]
          /\ interventions'[n + 1] = x
      BY <1>1, <2>2, <2>3, AppendFacts
    <2>5. Extends(interventions, interventions')
      BY <2>4 DEF Extends
    <2>6. CreatedRows' = CreatedRows \cup {<<m.ref, "create", n + 1>>}
      BY <2>2, <2>4 DEF CreatedRows, RefOf
    <2>7. PictureRows' = PictureRows /\ ClosureRows' = ClosureRows /\ FicheRows' = FicheRows
      BY <1>1, <2>5, RowsKept
    <2>9. Received' = Received \cup {<<m.ref, m.step, n + 1>>}
      BY <1>1, <2>6, <2>7, ReceivedIs
    <2>10. ~Handover!Arrived(m.ref, m.step)
      BY <1>1, <1>2, ArrivedIs DEF WithRef, RefOf
    <2>11. m.step \in Handover!Pieces
      BY <1>1 DEF Handover!Pieces
    <2>12. QED
      BY <1>1, <2>9, <2>10, <2>11, PieceReceived, PieceStep
  <1>3. CASE WithRef(m) # {}
    BY <1>1, <1>3, NothingReceived DEF create_intervention, tableVars
  <1>4. QED
    BY <1>2, <1>3

LEMMA HandoverPhoto ==
  ASSUME UploadInv, HandoverInv, NEW m \in net, create_photo(m)
  PROVE  Handover!Next \/ Received' = Received
  <1> USE DEF HandoverInv
  <1>1. /\ m.step = "photo" /\ m \in Requests /\ m.ref \in Refs
        /\ UNCHANGED <<held, closing, form>>
        /\ UNCHANGED <<interventions, closures, fiches, stored>>
        /\ photos \in Seq(PhotoRows)
    BY DEF create_photo, Answer, RowFailed, localVars, UploadInv, UploadTypeOK, Requests
  <1>2. Known(m.iv, m.ref) /\ m.key \in stored
    BY <1>1 DEF UploadInv, PhoneInv, MessageOK
  <1>3. CASE {i \in DOMAIN photos : photos[i].ref = m.ref} = {}
    <2>1. PICK x : x = [ref |-> m.ref, iv |-> m.iv, key |-> m.key]
      OBVIOUS
    <2>2. /\ x.iv = m.iv /\ x.key = m.key /\ x \in PhotoRows
          /\ photos' = Append(photos, x)
      BY <1>1, <1>3, <2>1 DEF create_photo, Requests, PhotoRows
    <2>3. PICK n : n = Len(photos)
      OBVIOUS
    <2>4. /\ n \in Nat /\ DOMAIN photos = 1..n /\ DOMAIN photos' = 1..(n + 1)
          /\ \A i \in 1..n : photos'[i] = photos[i]
          /\ photos'[n + 1] = x
      BY <1>1, <2>2, <2>3, AppendFacts
    <2>5. Extends(interventions, interventions')
      BY <1>1 DEF Extends
    <2>6. PhotoKept' = PhotoKept \cup {n + 1}
      BY <1>1, <1>2, <2>2, <2>4 DEF PhotoKept
    <2>7. PhotoKept \subseteq 1..n
      BY <2>4 DEF PhotoKept
    <2>8. PictureRows' = PictureRows \cup {<<m.ref, "photo", n + 1>>}
      BY <1>1, <1>2, <2>2, <2>4, <2>6, <2>7 DEF PictureRows, RefOf, Known
    <2>9. CreatedRows' = CreatedRows /\ ClosureRows' = ClosureRows /\ FicheRows' = FicheRows
      BY <1>1, <2>5, RowsKept
    <2>11. Received' = Received \cup {<<m.ref, m.step, n + 1>>}
      BY <1>1, <2>8, <2>9, ReceivedIs
    <2>12. ~Handover!Arrived(m.ref, m.step)
      BY <1>1, <1>3, ArrivedIs DEF UploadInv, TableInv, Known, RefOf, PhotoKept
    <2>13. m.step \in Handover!Pieces
      BY <1>1 DEF Handover!Pieces
    <2>14. QED
      BY <1>1, <2>11, <2>12, <2>13, PieceReceived, PieceStep
  <1>4. CASE {i \in DOMAIN photos : photos[i].ref = m.ref} # {}
    BY <1>1, <1>4, NothingReceived DEF create_photo, tableVars
  <1>5. QED
    BY <1>3, <1>4

LEMMA HandoverClosure ==
  ASSUME UploadInv, HandoverInv, NEW m \in net, m.checked, create_closure(m)
  PROVE  Handover!Next \/ Received' = Received
  <1> USE DEF HandoverInv
  <1>1. /\ m.step = "closure" /\ m \in Requests /\ m.ref \in Refs
        /\ UNCHANGED <<held, closing, form>>
        /\ UNCHANGED <<interventions, photos, fiches, stored>>
        /\ closures \in Seq(FormRows)
    BY DEF create_closure, LookUp, Answer, RowFailed, localVars, UploadInv, UploadTypeOK, Requests
  <1>2. Known(m.iv, m.ref)
    BY <1>1 DEF UploadInv, PhoneInv, MessageOK
  <1>3. CASE Of(closures, m.iv) = {}
    <2>1. PICK x : x = [iv |-> m.iv, by |-> m.by]
      OBVIOUS
    <2>2. x.iv = m.iv /\ x \in FormRows /\ closures' = Append(closures, x)
      BY <1>1, <1>3, <2>1 DEF create_closure, LookUp, Requests, FormRows
    <2>3. PICK n : n = Len(closures)
      OBVIOUS
    <2>4. /\ n \in Nat /\ DOMAIN closures = 1..n /\ DOMAIN closures' = 1..(n + 1)
          /\ \A i \in 1..n : closures'[i] = closures[i]
          /\ closures'[n + 1] = x
      BY <1>1, <2>2, <2>3, AppendFacts
    <2>5. Extends(interventions, interventions')
      BY <1>1 DEF Extends
    <2>6. ClosureRows' = ClosureRows \cup {<<m.ref, "closure", n + 1>>}
      BY <1>1, <1>2, <2>2, <2>4 DEF ClosureRows, RefOf, Known
    <2>7. CreatedRows' = CreatedRows /\ PictureRows' = PictureRows /\ FicheRows' = FicheRows
      BY <1>1, <2>5, RowsKept
    <2>9. Received' = Received \cup {<<m.ref, m.step, n + 1>>}
      BY <1>1, <2>6, <2>7, ReceivedIs
    <2>10. ~Handover!Arrived(m.ref, m.step)
      <3>1. ASSUME NEW k \in DOMAIN closures, RefOf(closures[k].iv) = m.ref PROVE FALSE
        <4>1. Known(closures[k].iv, m.ref)
          BY <3>1 DEF FormInv, Known, RefOf
        <4>2. closures[k].iv = m.iv
          BY <1>2, <4>1, OneNumber DEF UploadInv, TableInv
        <4>3. QED
          BY <1>3, <4>2 DEF Of
      <3>2. QED
        BY <1>1, <3>1, ArrivedIs
    <2>11. m.step \in Handover!Pieces
      BY <1>1 DEF Handover!Pieces
    <2>12. QED
      BY <1>1, <2>9, <2>10, <2>11, PieceReceived, PieceStep
  <1>4. CASE Of(closures, m.iv) # {}
    <2>1. UNCHANGED tableVars /\ stored \subseteq stored'
      BY <1>1, <1>4 DEF create_closure, LookUp, tableVars
    <2>2. QED
      BY <2>1, NothingReceived
  <1>5. QED
    BY <1>3, <1>4

LEMMA HandoverFgas ==
  ASSUME UploadInv, HandoverInv, NEW m \in net, m.checked, create_fgas_intervention(m)
  PROVE  Handover!Next \/ Received' = Received
  <1> USE DEF HandoverInv
  <1>1. /\ m.step = "fgas" /\ m \in Requests /\ m.ref \in Refs
        /\ UNCHANGED <<held, closing, form>>
        /\ UNCHANGED <<interventions, photos, closures, stored>>
        /\ fiches \in Seq(FormRows)
    BY DEF create_fgas_intervention, LookUp, Answer, RowFailed, localVars, UploadInv,
           UploadTypeOK, Requests
  <1>2. Known(m.iv, m.ref)
    BY <1>1 DEF UploadInv, PhoneInv, MessageOK
  <1>3. CASE Of(fiches, m.iv) = {}
    <2>1. PICK x : x = [iv |-> m.iv, by |-> m.by]
      OBVIOUS
    <2>2. x.iv = m.iv /\ x \in FormRows /\ fiches' = Append(fiches, x)
      BY <1>1, <1>3, <2>1 DEF create_fgas_intervention, LookUp, Requests, FormRows
    <2>3. PICK n : n = Len(fiches)
      OBVIOUS
    <2>4. /\ n \in Nat /\ DOMAIN fiches = 1..n /\ DOMAIN fiches' = 1..(n + 1)
          /\ \A i \in 1..n : fiches'[i] = fiches[i]
          /\ fiches'[n + 1] = x
      BY <1>1, <2>2, <2>3, AppendFacts
    <2>5. Extends(interventions, interventions')
      BY <1>1 DEF Extends
    <2>6. FicheRows' = FicheRows \cup {<<m.ref, "fgas", n + 1>>}
      BY <1>1, <1>2, <2>2, <2>4 DEF FicheRows, RefOf, Known
    <2>7. CreatedRows' = CreatedRows /\ PictureRows' = PictureRows /\ ClosureRows' = ClosureRows
      BY <1>1, <2>5, RowsKept
    <2>9. Received' = Received \cup {<<m.ref, m.step, n + 1>>}
      BY <1>1, <2>6, <2>7, ReceivedIs
    <2>10. ~Handover!Arrived(m.ref, m.step)
      <3>1. ASSUME NEW k \in DOMAIN fiches, RefOf(fiches[k].iv) = m.ref PROVE FALSE
        <4>1. Known(fiches[k].iv, m.ref)
          BY <3>1 DEF FormInv, Known, RefOf
        <4>2. fiches[k].iv = m.iv
          BY <1>2, <4>1, OneNumber DEF UploadInv, TableInv
        <4>3. QED
          BY <1>3, <4>2 DEF Of
      <3>2. QED
        BY <1>1, <3>1, ArrivedIs
    <2>11. m.step \in Handover!Pieces
      BY <1>1 DEF Handover!Pieces
    <2>12. QED
      BY <1>1, <2>9, <2>10, <2>11, PieceReceived, PieceStep
  <1>4. CASE Of(fiches, m.iv) # {}
    <2>1. UNCHANGED tableVars /\ stored \subseteq stored'
      BY <1>1, <1>4 DEF create_fgas_intervention, LookUp, tableVars
    <2>2. QED
      BY <2>1, NothingReceived
  <1>5. QED
    BY <1>3, <1>4

LEMMA HandoverServe ==
  ASSUME UploadInv, HandoverInv, NEW m \in net, Serve(m)
  PROVE  Handover!Next \/ UNCHANGED Handover!vars
  <1>1. UNCHANGED <<held, closing, form>>
    BY DEF Serve, create_intervention, create_photo_upload_url, PutObject, create_photo,
           create_closure, create_fgas_intervention, LookUp, Answer, RowFailed, localVars
  <1>2. [r \in Refs |-> Wanted(r)]' = [r \in Refs |-> Wanted(r)]
    BY <1>1, WantedStays
  <1>3. CASE UNCHANGED tableVars /\ stored \subseteq stored'
    BY <1>1, <1>2, <1>3, NothingReceived DEF Handover!vars, HandoverInv
  <1>4. Handover!Next \/ Received' = Received \/ (UNCHANGED tableVars /\ stored \subseteq stored')
    <2>1. CASE create_intervention(m) \/ create_photo(m)
      BY <2>1, HandoverCreate, HandoverPhoto
    <2>2. CASE create_closure(m) \/ create_fgas_intervention(m)
      <3>1. m.checked \/ (UNCHANGED tableVars /\ stored' = stored)
        BY <2>2 DEF create_closure, create_fgas_intervention, LookUp
      <3>2. QED
        BY <2>2, <3>1, HandoverClosure, HandoverFgas
    <2>3. CASE create_photo_upload_url(m) \/ PutObject(m)
      BY <2>3 DEF create_photo_upload_url, PutObject
    <2>4. QED
      BY <2>1, <2>2, <2>3 DEF Serve
  <1>5. QED
    BY <1>1, <1>2, <1>3, <1>4 DEF Handover!vars

(* The phone enters an intervention, and lets go of it.                    *)
LEMMA HandoverSave ==
  ASSUME UploadInv, HandoverInv, NEW r \in Refs, NEW d \in Drafts, handleSave(r, d)
  PROVE  Handover!Next
  <1>1. /\ held[r] = "absent" /\ held' = [held EXCEPT ![r] = "queued"]
        /\ closing' = [closing EXCEPT ![r] = d.closing]
        /\ form' = [form EXCEPT ![r] = d.form]
        /\ UNCHANGED tableVars /\ stored' = stored
        /\ closing \in [Refs -> BOOLEAN] /\ form \in [Refs -> FormShape \cup {NoForm}]
    BY DEF handleSave, UploadInv, UploadTypeOK
  <1>2. Received' = Received
    BY <1>1, NothingReceived DEF HandoverInv
  <1>3. PICK others : others = Wanted(r)' \ Handover!Basic
    OBVIOUS
  <1>4. others \in SUBSET Handover!Pieces /\ Wanted(r)' = Handover!Basic \cup others
    BY <1>3 DEF Wanted, Handover!Basic, Handover!Pieces
  <1>5. \A q \in Refs : q # r => Wanted(q)' = Wanted(q)
    BY <1>1 DEF Wanted
  <1>6. [q \in Refs |-> Wanted(q)]'
          = [[q \in Refs |-> Wanted(q)] EXCEPT ![r] = Handover!Basic \cup others]
    BY <1>4, <1>5
  <1>7. Handover!Enter(r)
    BY <1>1, <1>2, <1>4, <1>6 DEF Handover!Enter
  <1>8. QED
    BY <1>7 DEF Handover!Next

LEMMA HandoverDelete ==
  ASSUME UploadInv, HandoverInv, deletePendingIntervention
  PROVE  Handover!Next
  <1>1. /\ row \in Refs /\ held[row] = "queued" /\ held' = [held EXCEPT ![row] = "gone"]
        /\ Wanted(row) \subseteq acked[row]
        /\ UNCHANGED <<closing, form, tableVars, stored>>
    BY DEF deletePendingIntervention, UploadInv, UploadTypeOK, HandoverInv, OrderInv
  <1>2. Received' = Received
    BY <1>1, NothingReceived DEF HandoverInv
  <1>3. [r \in Refs |-> Wanted(r)]' = [r \in Refs |-> Wanted(r)]
    BY <1>1, WantedStays
  <1>4. \A p \in Wanted(row) : Handover!Arrived(row, p)
    BY <1>1, AckedArrived
  <1>5. Handover!Leave(row)
    BY <1>1, <1>2, <1>3, <1>4 DEF Handover!Leave
  <1>6. QED
    BY <1>1, <1>5 DEF Handover!Next

LEMMA HandoverInit == UploadInit => Handover!Init /\ HandoverInv
  <1> SUFFICES ASSUME UploadInit PROVE Handover!Init /\ HandoverInv
    OBVIOUS
  <1>1. DOMAIN <<>> = {}
    OBVIOUS
  <1>2. HandoverInv
    BY <1>1 DEF UploadInit, HandoverInv, OrderInv, FormInv
  <1>3. Received = {}
    BY <1>1 DEF UploadInit, Received
  <1>4. \A r \in Refs : Wanted(r) = Handover!Basic
    BY DEF UploadInit, Wanted, Handover!Basic
  <1>5. QED
    BY <1>2, <1>3, <1>4 DEF UploadInit, Handover!Init

LEMMA HandoverStep ==
  UploadInv /\ HandoverInv /\ [UploadNext]_uploadVars => [Handover!Next]_(Handover!vars)
  <1> SUFFICES ASSUME UploadInv, HandoverInv, [UploadNext]_uploadVars
               PROVE  Handover!Next \/ UNCHANGED Handover!vars
    OBVIOUS
  <1>1. CASE UNCHANGED <<held, closing, form, tableVars, stored>>
    BY <1>1, NothingReceived, WantedStays DEF Handover!vars, HandoverInv
  <1>2. CASE \E r \in Refs, d \in Drafts : handleSave(r, d)
    BY <1>2, HandoverSave
  <1>3. CASE deletePendingIntervention
    BY <1>3, HandoverDelete
  <1>4. CASE \E m \in net : Serve(m)
    BY <1>4, HandoverServe
  <1>5. CASE PhoneStep /\ ~deletePendingIntervention
    BY <1>1, <1>5 DEF PhoneStep, NextRow, SyncEnd, ensureInterventionCreated, uploadPhoto,
                      sendClosure, sendFgas, Send, localVars
  <1>6. QED
    BY <1>1, <1>2, <1>3, <1>4, <1>5
    DEF UploadNext, uploadVars, Login, synchronize, Killed, GiveUp, RowFailed, localVars

(* Seen from outside, an intervention entered off line does what           *)
(* InterventionHandover says, whatever is lost, repeated or served late:   *)
(* the phone holds it until the server has all its pieces, and each is     *)
(* inserted once, if it was entered, after those it belongs to             *)
(* (syncPendingInterventions, deletePendingIntervention and the routes     *)
(* that are sent again).                                                   *)
THEOREM HandoverRefinement == UploadSpec => ImplementsHandover
  <1>1. UploadInv /\ HandoverInv /\ [UploadNext]_uploadVars => HandoverInv'
    BY OrderStep, FormStep DEF HandoverInv
  <1>2. QED
    BY <1>1, HandoverInit, HandoverStep, UploadInvariant, PTL
    DEF UploadSpec, ImplementsHandover, Handover!Spec

-----------------------------------------------------------------------------
(* The admission.  A slot is held by each request that may come to need a  *)
(* connection, and there are no more slots than connections: whoever waits *)
(* for a connection holds a slot that no connection goes with yet.         *)

(* Requests that hold a slot, and those of them that hold a connection.    *)
Slotted == {c \in Clients : route[c] \in {"dependency", "body"} /\ stage[c] \in Places \ {"away", "queued"}}
Connected ==
    {c \in Clients : \/ route[c] = "dependency" /\ stage[c] \in {"ready", "running", "closing"}
                     \/ route[c] = "body" /\ stage[c] = "running"}

(* There are no more slots taken than connections in the pool, and a route *)
(* that needs no connection does not ask for one.                          *)
AdmInv ==
    /\ AdmTypeOK
    /\ SlotsTaken <= pool_capacity
    /\ \A c \in Clients : stage[c] = "connecting" => route[c] \in {"dependency", "body"}

LEMMA SlotsBounded == pool_capacity \in Nat /\ effective_max_in_flight \in Nat
                      /\ effective_max_in_flight <= pool_capacity
  <1>1. pool_capacity \in Nat
    BY AdmissionAssumption DEF pool_capacity
  <1>2. PICK n, k : n = max_in_flight_requests /\ k = pool_capacity
    OBVIOUS
  <1>3. n \in Nat /\ k \in Nat
    BY <1>1, <1>2, AdmissionAssumption
  <1>4. Min({n, k}) = IF n <= k THEN n ELSE k
    <2>1. \E m \in {n, k} : \A x \in {n, k} : m <= x
      BY <1>3
    <2>2. Min({n, k}) \in {n, k} /\ \A x \in {n, k} : Min({n, k}) <= x
      BY <2>1 DEF Min
    <2> QED BY <1>3, <2>2
  <1> QED BY <1>1, <1>2, <1>3, <1>4 DEF effective_max_in_flight

LEMMA SlotsAre ==
  ASSUME AdmTypeOK
  PROVE  SlotsTaken = Cardinality(Slotted) /\ IsFiniteSet(Slotted) /\ SlotsTaken \in Nat
  <1>1. SlotsTaken = Cardinality(Slotted)
    BY DEF SlotsTaken, CountAt, Slotted
  <1>2. IsFiniteSet(Slotted)
    BY AdmissionAssumption, FS_Subset DEF Slotted
  <1> QED BY <1>1, <1>2, FS_CardinalityType

LEMMA ConnectedAre ==
  ASSUME AdmTypeOK
  PROVE  Connections = Cardinality(Connected) /\ IsFiniteSet(Connected) /\ Connected \subseteq Slotted
  <1>1. PICK d, b : /\ d = {c \in Clients : route[c] \in {"dependency"} /\ stage[c] \in {"ready", "running", "closing"}}
                    /\ b = {c \in Clients : route[c] \in {"body"} /\ stage[c] \in {"running"}}
    OBVIOUS
  <1>2. Connections = Cardinality(d) + Cardinality(b)
    BY <1>1 DEF Connections, CountAt
  <1>3. IsFiniteSet(d) /\ IsFiniteSet(b)
    BY <1>1, AdmissionAssumption, FS_Subset
  <1>4. d \cap b = {} /\ d \cup b = Connected
    BY <1>1 DEF Connected
  <1>5. Cardinality(d \cup b) = Cardinality(d) + Cardinality(b)
    <2>1. Cardinality(d \cap b) = 0
      BY <1>4, FS_EmptySet
    <2>2. Cardinality(d) \in Nat /\ Cardinality(b) \in Nat
      BY <1>3, FS_CardinalityType
    <2>3. Cardinality(d \cup b) = Cardinality(d) + Cardinality(b) - Cardinality(d \cap b)
      BY <1>3, FS_Union
    <2> QED BY <2>1, <2>2, <2>3
  <1>6. IsFiniteSet(d \cup b)
    BY <1>3, FS_Union
  <1>7. Connected \subseteq Slotted
    BY DEF Connected, Slotted, Places
  <1> QED BY <1>2, <1>4, <1>5, <1>6, <1>7

(* No slot is taken but by Admit, which leaves room for the pool.          *)
LEMMA SlotsStay ==
  ASSUME AdmInv, AdmTypeOK', Slotted' \subseteq Slotted
  PROVE  SlotsTaken' <= pool_capacity
  <1>1. SlotsTaken = Cardinality(Slotted) /\ IsFiniteSet(Slotted) /\ SlotsTaken \in Nat
    BY SlotsAre DEF AdmInv
  <1>2. SlotsTaken' = Cardinality(Slotted')
    BY SlotsAre DEF SlotsTaken, CountAt, Slotted
  <1>3. Cardinality(Slotted') <= Cardinality(Slotted) /\ Cardinality(Slotted') \in Nat
    BY <1>1, FS_Subset, FS_CardinalityType
  <1> QED BY <1>1, <1>2, <1>3, SlotsBounded DEF AdmInv

LEMMA AdmittedWithin ==
  ASSUME AdmInv, NEW c \in Clients, Admit(c)
  PROVE  SlotsTaken' <= pool_capacity
  <1>1. SlotsTaken = Cardinality(Slotted) /\ IsFiniteSet(Slotted) /\ SlotsTaken \in Nat
    BY SlotsAre DEF AdmInv
  <1>2. SlotsTaken' = Cardinality(Slotted')
    BY DEF SlotsTaken, CountAt, Slotted
  <1>3. Slotted' \subseteq Slotted \cup {c}
    BY DEF Admit, Moves, Slotted, AdmInv, AdmTypeOK
  <1>4. IsFiniteSet(Slotted \cup {c}) /\ Cardinality(Slotted \cup {c}) <= Cardinality(Slotted) + 1
        /\ Cardinality(Slotted \cup {c}) \in Nat
    <2>1. Cardinality(Slotted) \in Nat
      BY <1>1
    <2>2. /\ IsFiniteSet(Slotted \cup {c})
          /\ Cardinality(Slotted \cup {c}) = IF c \in Slotted THEN Cardinality(Slotted) ELSE Cardinality(Slotted) + 1
      BY <1>1, FS_AddElement
    <2> QED BY <2>1, <2>2
  <1>5. Cardinality(Slotted') <= Cardinality(Slotted \cup {c}) /\ Cardinality(Slotted') \in Nat
    BY <1>3, <1>4, FS_Subset, FS_CardinalityType
  <1> QED BY <1>1, <1>2, <1>4, <1>5, SlotsBounded DEF Admit

LEMMA AdmStep == AdmInv /\ [AdmNext]_admVars => AdmInv'
  <1> SUFFICES ASSUME AdmInv, [AdmNext]_admVars PROVE AdmInv'
    OBVIOUS
  <1>1. CASE UNCHANGED admVars
    BY <1>1 DEF admVars, AdmInv, AdmTypeOK, SlotsTaken, CountAt
  <1>2. ASSUME NEW c \in Clients, NEW r \in Routes, Arrive(c, r) PROVE AdmInv'
    <2>1. AdmTypeOK' /\ \A d \in Clients : (stage[d] = "connecting")' => route'[d] \in {"dependency", "body"}
      BY <1>2 DEF Arrive, AdmInv, AdmTypeOK, Places
    <2>2. Slotted' \subseteq Slotted
      BY <1>2 DEF Arrive, Slotted, AdmInv, AdmTypeOK
    <2> QED BY <2>1, <2>2, SlotsStay DEF AdmInv
  <1>3. ASSUME NEW c \in Clients, Admit(c) PROVE AdmInv'
    <2>1. AdmTypeOK' /\ \A d \in Clients : (stage[d] = "connecting")' => route'[d] \in {"dependency", "body"}
      BY <1>3 DEF Admit, Moves, AdmInv, AdmTypeOK, Places
    <2> QED BY <1>3, <2>1, AdmittedWithin DEF AdmInv
  <1>4. ASSUME NEW c \in Clients, NEW from, from # "away" /\ from # "queued", NEW to \in Places, Moves(c, from, to),
               to = "connecting" => route[c] \in {"dependency", "body"}
        PROVE  AdmInv'
    <2>1. AdmTypeOK' /\ \A d \in Clients : (stage[d] = "connecting")' => route'[d] \in {"dependency", "body"}
      BY <1>4 DEF Moves, AdmInv, AdmTypeOK
    <2>2. Slotted' \subseteq Slotted
      BY <1>4 DEF Moves, Slotted, AdmInv, AdmTypeOK
    <2> QED BY <2>1, <2>2, SlotsStay DEF AdmInv
  <1>5. ASSUME NEW c \in Clients, Refuse(c) PROVE AdmInv'
    <2>1. AdmTypeOK' /\ \A d \in Clients : (stage[d] = "connecting")' => route'[d] \in {"dependency", "body"}
      BY <1>5 DEF Refuse, Moves, AdmInv, AdmTypeOK, Places
    <2>2. Slotted' \subseteq Slotted
      BY <1>5 DEF Refuse, Moves, Slotted, AdmInv, AdmTypeOK
    <2> QED BY <2>1, <2>2, SlotsStay DEF AdmInv
  <1>6. ASSUME NEW c \in Clients, TakeThread(c) PROVE AdmInv'
    <2>1. route[c] \in {"dependency", "body", "health"}
      BY AdmissionAssumption DEF AdmInv, AdmTypeOK
    <2>2. CASE Moves(c, "entering", IF route[c] = "health" THEN "running" ELSE "connecting")
      BY <1>4, <2>1, <2>2 DEF Places
    <2>3. CASE Moves(c, "ready", "running")
      BY <1>4, <2>3 DEF Places
    <2> QED BY <1>6, <2>2, <2>3 DEF TakeThread
  <1>7. ASSUME NEW c \in Clients, Connect(c) \/ PoolTimeout(c) \/ Respond(c) \/ CloseConnection(c) \/ End(c)
        PROVE  AdmInv'
    BY <1>4, <1>7 DEF Connect, PoolTimeout, Respond, CloseConnection, End, Places
  <1> QED BY <1>1, <1>2, <1>3, <1>5, <1>6, <1>7 DEF AdmNext, AdmProgress

LEMMA AdmInvariant == AdmSpec => []AdmInv
  <1>1. AdmInit => AdmInv
    <2> SUFFICES ASSUME AdmInit PROVE AdmInv
      OBVIOUS
    <2>1. AdmTypeOK /\ Slotted = {} /\ \A c \in Clients : stage[c] # "connecting"
      BY DEF AdmInit, AdmTypeOK, Places, Slotted
    <2> QED BY <2>1, SlotsAre, SlotsBounded, FS_EmptySet DEF AdmInv
  <1> QED BY <1>1, AdmStep, PTL DEF AdmSpec

(* Where each request is, and what it asked for.                           *)
THEOREM AdmTypeCorrect == AdmSpec => []AdmTypeOK
  <1>1. AdmInv => AdmTypeOK
    BY DEF AdmInv
  <1> QED BY <1>1, AdmInvariant, PTL

(* No request in a thread waits for a connection, for any pool, any number *)
(* of threads and any setting of the limit (app/admission.py:17-18).       *)
THEOREM NoWaitForConnectionHolds == AdmSpec => []NoWaitForConnection
  <1>1. AdmInv => NoWaitForConnection
    <2> SUFFICES ASSUME AdmInv, NEW c \in Clients, stage[c] = "connecting" PROVE Connections < pool_capacity
      BY DEF NoWaitForConnection
    <2>1. SlotsTaken = Cardinality(Slotted) /\ IsFiniteSet(Slotted) /\ SlotsTaken \in Nat
      BY SlotsAre DEF AdmInv
    <2>2. Connections = Cardinality(Connected) /\ IsFiniteSet(Connected) /\ Connected \subseteq Slotted
      BY ConnectedAre DEF AdmInv
    <2>3. c \in Slotted /\ c \notin Connected
      BY DEF AdmInv, Slotted, Connected, Places
    <2>4. Cardinality(Connected \cup {c}) = Cardinality(Connected) + 1 /\ Cardinality(Connected) \in Nat
      BY <2>2, <2>3, FS_AddElement, FS_CardinalityType
    <2>5. Cardinality(Connected \cup {c}) <= Cardinality(Slotted)
      BY <2>1, <2>2, <2>3, FS_Subset
    <2> QED BY <2>1, <2>2, <2>4, <2>5, SlotsBounded DEF AdmInv
  <1> QED BY <1>1, AdmInvariant, PTL
===============================================================================
