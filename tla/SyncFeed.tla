------------------------------- MODULE SyncFeed -------------------------------
(***************************************************************************)
(* The incremental feed of a phone: the server side of one feed            *)
(* (app/sync_feed.py, routers/sync.py) and the phone that pulls it         *)
(* (apps/mobile/src/lib/syncFeed.ts, syncStore.ts, sync.ts).               *)
(*                                                                         *)
(* A row is stamped while its transaction runs and becomes visible when it *)
(* commits, at most MAX_TX later.  The phone reads pages of rows in the    *)
(* order (stamp, id) after its cursor; the cursor that ends a pull is      *)
(* moved OVERLAP back so that the next pull reads late rows again.         *)
(***************************************************************************)
EXTENDS Integers, FiniteSets

CONSTANTS
    Ids,                \* identifiers of the rows, positive integers
    LIMIT,              \* rows in a page
    OVERLAP,            \* what the end of a pull steps back
    MAX_TX,             \* longest transaction that writes a row
    MAX_SCAN,           \* longest walk from a first page to a last one
    MAX_PAGES,          \* pages the phone reads in one synchronization
    MaxTime,            \* bound: last instant of the clock
    MaxWrites,          \* bound: transactions that write a row
    MaxLosses,          \* bound: answers lost, crashes of the application
    MaxRejections,      \* bound: cursors the server does not recognize
    NoCursor

NIL_ID == 0

ASSUME SyncFeedAssumption ==
    /\ IsFiniteSet(Ids) /\ Ids \subseteq Nat \ {NIL_ID}
    /\ LIMIT \in Nat \ {0} /\ MAX_PAGES \in Nat \ {0}
    /\ OVERLAP \in Nat /\ MAX_TX \in Nat /\ MAX_SCAN \in Nat
    /\ MaxTime \in Nat /\ MaxWrites \in Nat
    /\ MaxLosses \in Nat /\ MaxRejections \in {0, 1}
    /\ NoCursor \notin Int \X Nat

(* The limit the design accepts: no transaction outlasts the overlap.      *)
(* Here, and the walk that passes by it.                                   *)
WithinOverlap == MAX_TX + MAX_SCAN <= OVERLAP

VARIABLES
    now,
    at, version,        \* committed rows: stamp, and content (0: no row yet)
    writing,            \* stamp of the open transaction on a row, or -1
    writes,
    cursor, cache,      \* in the phone's database: cursor, content of each row
    pc,                 \* the pull: "idle", "ask", "read" or "answered"
    page, pageVersion, more, pageCursor,   \* the page on its way
    pages,              \* pages applied by this synchronization
    walking, began,     \* a walk is under way since its first page was read
    losses, rejections

rowVars == <<at, version, writing, writes>>
pageVars == <<page, pageVersion, more, pageCursor>>
storeVars == <<cursor, cache>>
vars == <<now, rowVars, storeVars, pc, pageVars, pages, walking, began, losses, rejections>>

Cursors == Int \X Nat

TypeOK ==
    /\ now \in Nat
    /\ at \in [Ids -> Nat] /\ version \in [Ids -> Nat]
    /\ writing \in [Ids -> Nat \cup {-1}]
    /\ writes \in Nat
    /\ cursor \in Cursors \cup {NoCursor}
    /\ cache \in [Ids -> Nat]
    /\ pc \in {"idle", "ask", "read", "answered"}
    /\ page \subseteq Ids /\ pageVersion \in [Ids -> Nat]
    /\ more \in BOOLEAN
    /\ pageCursor \in Cursors \cup {NoCursor}
    /\ pages \in Nat
    /\ walking \in BOOLEAN /\ began \in Nat
    /\ losses \in Nat /\ rejections \in Nat

Init ==
    /\ now = 0
    /\ at = [i \in Ids |-> 0] /\ version = [i \in Ids |-> 0]
    /\ writing = [i \in Ids |-> -1] /\ writes = 0
    /\ cursor = NoCursor /\ cache = [i \in Ids |-> 0]
    /\ pc = "idle"
    /\ page = {} /\ pageVersion = [i \in Ids |-> 0] /\ more = FALSE
    /\ pageCursor = NoCursor
    /\ pages = 0 /\ walking = FALSE /\ began = 0
    /\ losses = 0 /\ rejections = 0

-----------------------------------------------------------------------------
(* Time passes, but not past a transaction or a walk that must end.  A     *)
(* page is read, answered and applied, or lost, within one instant: the    *)
(* phone gives up after 20 s, OVERLAP is 5 min.                            *)
Tick ==
    /\ now < MaxTime
    /\ pc \notin {"read", "answered"}
    /\ \A i \in Ids : writing[i] # -1 => now < writing[i] + MAX_TX
    /\ walking => now < began + MAX_SCAN
    /\ now' = now + 1
    /\ UNCHANGED <<rowVars, storeVars, pc, pageVars, pages, walking, began, losses, rejections>>

-----------------------------------------------------------------------------
(* The server: a row is created, modified, archived.  The stamp comes from *)
(* the clock when the transaction writes it (default of created_at,        *)
(* trigger of updated_at).                                                 *)
WriteBegin(i) ==
    /\ writes < MaxWrites
    /\ writing[i] = -1
    /\ writing' = [writing EXCEPT ![i] = now]
    /\ writes' = writes + 1
    /\ UNCHANGED <<now, at, version, storeVars, pc, pageVars, pages, walking, began,
                   losses, rejections>>

(* Mutant: an update keeps the stamp of the creation (no trigger).         *)
WriteCommitOldStamp(i) ==
    /\ writing[i] # -1
    /\ at' = [at EXCEPT ![i] = IF version[i] > 0 THEN @ ELSE writing[i]]
    /\ version' = [version EXCEPT ![i] = @ + 1]
    /\ writing' = [writing EXCEPT ![i] = -1]
    /\ UNCHANGED <<now, writes, storeVars, pc, pageVars, pages, walking, began, losses,
                   rejections>>

WriteCommit(i) ==
    /\ writing[i] # -1
    /\ at' = [at EXCEPT ![i] = writing[i]]
    /\ version' = [version EXCEPT ![i] = @ + 1]
    /\ writing' = [writing EXCEPT ![i] = -1]
    /\ UNCHANGED <<now, writes, storeVars, pc, pageVars, pages, walking, began, losses,
                   rejections>>

-----------------------------------------------------------------------------
Precedes(c, d) == c[1] < d[1] \/ (c[1] = d[1] /\ c[2] < d[2])
Key(i) == <<at[i], i>>

AfterOrAt(c, i) == c = NoCursor \/ ~Precedes(Key(i), c)     \* mutant of After: >=

(* WHERE (date, id) > (:after_at, :after_id)                               *)
After(c, i) == c = NoCursor \/ Precedes(c, Key(i))

Rows == {i \in Ids : version[i] > 0 /\ After(cursor, i)}

(* pull(): fetchPage(cursor); the server reads a page...                    *)
StartPull ==
    /\ pc = "idle"
    /\ pc' = "ask" /\ pages' = 0
    /\ UNCHANGED <<now, rowVars, storeVars, pageVars, walking, began, losses, rejections>>

(* ... of LIMIT rows in order, LIMIT + 1 being asked for to know if more   *)
(* remain...                                                               *)
FirstRows(P) ==
    /\ Cardinality(P) = IF Cardinality(Rows) < LIMIT THEN Cardinality(Rows) ELSE LIMIT
    /\ \A i \in P, j \in Rows \ P : Precedes(Key(i), Key(j))

FetchPage ==
    /\ pc = "ask"
    /\ page' \in {P \in SUBSET Rows : FirstRows(P)}
    /\ more' = (page' # Rows)
    /\ pageVersion' = version
    /\ \/ page' = {} /\ pageCursor' = cursor
       \/ \E i \in page' :
             /\ \A j \in page' : j = i \/ Precedes(Key(j), Key(i))
             /\ pageCursor' = Key(i)
    /\ walking' = TRUE
    /\ began' = IF walking THEN began ELSE now
    /\ pc' = "read"
    /\ UNCHANGED <<now, rowVars, storeVars, pages, losses, rejections>>

(* Mutants of next_cursor: no step back; the pair in the wrong order.      *)
NextCursorAsIs(position, has_more) == position
NextCursorSwapped(position, has_more) ==
    IF position = NoCursor \/ has_more \/ Precedes(position, <<now - OVERLAP, NIL_ID>>)
    THEN position
    ELSE <<NIL_ID, now - OVERLAP>>

(* ... and stamps the cursor of the answer: next_cursor, with the clock of *)
(* the database read after the page.                                       *)
next_cursor(position, has_more) ==
    IF position = NoCursor \/ has_more \/ Precedes(position, <<now - OVERLAP, NIL_ID>>)
    THEN position
    ELSE <<now - OVERLAP, NIL_ID>>

AnswerPage ==
    /\ pc = "read"
    /\ pageCursor' = next_cursor(pageCursor, more)
    /\ pc' = "answered"
    /\ UNCHANGED <<now, rowVars, storeVars, page, pageVersion, more, pages, walking, began,
                   losses, rejections>>

PageForgotten ==
    /\ page' = {} /\ pageVersion' = [i \in Ids |-> 0]
    /\ more' = FALSE /\ pageCursor' = NoCursor

(* applyPage: rows and cursor in one local transaction.  pull() refuses a  *)
(* page that announces more without moving the cursor: the refusal is the  *)
(* guard, and PullAdvances says that it never stops a pull.                *)
ApplyPage ==
    /\ pc = "answered"
    /\ more => pageCursor # cursor
    /\ cache' = [i \in Ids |-> IF i \in page THEN pageVersion[i] ELSE cache[i]]
    /\ cursor' = pageCursor
    /\ pages' = pages + 1
    /\ pc' = IF more /\ pages + 1 < MAX_PAGES THEN "ask" ELSE "idle"
    /\ walking' = more
    /\ PageForgotten
    /\ UNCHANGED <<now, rowVars, began, losses, rejections>>

(* The answer is lost or too late, or the application is killed: what it   *)
(* had in memory is forgotten, the walk resumes with the next              *)
(* synchronization.                                                        *)
Interrupt ==
    /\ pc # "idle" /\ losses < MaxLosses
    /\ losses' = losses + 1
    /\ pc' = "idle"
    /\ PageForgotten
    /\ UNCHANGED <<now, rowVars, storeVars, pages, walking, began, rejections>>

(* Mutant of RejectCursor: the rows are forgotten with the cursor.         *)
RejectCursorAndRows ==
    /\ pc = "ask" /\ cursor # NoCursor
    /\ rejections < MaxRejections
    /\ rejections' = rejections + 1
    /\ cursor' = NoCursor /\ cache' = [i \in Ids |-> 0]
    /\ pages' = 0
    /\ walking' = FALSE
    /\ UNCHANGED <<now, rowVars, pc, pageVars, began, losses>>

(* SYNC_CURSOR_INVALID: the phone forgets its cursor and starts over.  A   *)
(* second one in the same pull ends it, as Interrupt does.                 *)
RejectCursor ==
    /\ pc = "ask" /\ cursor # NoCursor
    /\ rejections < MaxRejections
    /\ rejections' = rejections + 1
    /\ cursor' = NoCursor
    /\ pages' = 0
    /\ walking' = FALSE
    /\ UNCHANGED <<now, rowVars, cache, pc, pageVars, began, losses>>

-----------------------------------------------------------------------------
PullStep == StartPull \/ FetchPage \/ AnswerPage \/ ApplyPage

Next ==
    \/ Tick
    \/ \E i \in Ids : WriteBegin(i) \/ WriteCommit(i)
    \/ PullStep
    \/ Interrupt
    \/ RejectCursor

Spec == Init /\ [][Next]_vars

(* A technician keeps the application in use, and transactions end.        *)
Fairness == WF_vars(PullStep) /\ \A i \in Ids : WF_vars(WriteCommit(i))

FairSpec == Spec /\ Fairness

-----------------------------------------------------------------------------
(* Properties.                                                             *)

(* "Pour ne jamais la perdre, le curseur remis en fin de parcours est      *)
(* recule" (sync_feed.py): between two walks, every row whose content the  *)
(* phone does not have is still ahead of its cursor, late rows included.   *)
NothingBehindCursor ==
    ~walking => \A i \in Ids : version[i] # cache[i] => After(cursor, i)

(* A page that announces more moves the cursor forward: the pull never     *)
(* stops on "la synchronisation n'avance plus".                            *)
PullAdvances ==
    pc \in {"read", "answered"} /\ more =>
        /\ pageCursor # NoCursor
        /\ cursor # NoCursor => Precedes(cursor, pageCursor)

(* The content on the phone never goes back to an earlier version, though  *)
(* the same rows are delivered again.                                      *)
CacheNeverGoesBack ==
    [][\A i \in Ids : cache[i] <= cache'[i]]_vars

(* Every committed row version reaches the phone.                          *)
PhoneCatchesUp ==
    \A i \in Ids : version[i] # cache[i] ~> version[i] = cache[i]
=============================================================================
