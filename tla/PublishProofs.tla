---------------------------- MODULE PublishProofs ----------------------------
(***************************************************************************)
(* Theorems of PublishAttempts for every value of its constants: a draft   *)
(* has one canonical publication, and the attempts of a Page implement     *)
(* PublishOnce.                                                            *)
(***************************************************************************)
EXTENDS PublishAttempts, TLAPS, FiniteSetTheorems, WellFoundedInduction

-----------------------------------------------------------------------------
(***************************************************************************)
(* Rows.                                                                   *)
(***************************************************************************)
Row == [draft : Drafts \cup {NoDraft}, status : AttemptStatuses, ids : BOOLEAN,
        ext : Evidence, due : BOOLEAN]
PubRow == [ext : Evidence \cup {"none"}, canon : BOOLEAN]
WorkStates == {"none", "waiting", "gated", "running", "sending", "sync", "done"}

\* What Merge returns, column by column.
LEMMA MergeFields ==
  ASSUME NEW row \in Row, NEW read \in Row, NEW new \in Row
  PROVE  Merge(row, read, new)
           = [draft |-> IF new.draft # read.draft THEN new.draft ELSE row.draft,
              status |-> IF new.status # read.status THEN new.status ELSE row.status,
              ids |-> IF new.ids # read.ids THEN new.ids ELSE row.ids,
              ext |-> IF new.ext # read.ext THEN new.ext ELSE row.ext,
              due |-> IF new.due # read.due THEN new.due ELSE row.due]
<1>1. DOMAIN row = {"draft", "status", "ids", "ext", "due"} BY DEF Row
<1> QED BY <1>1 DEF Merge, Row

LEMMA MergeRow ==
  ASSUME NEW row \in Row, NEW read \in Row, NEW new \in Row
  PROVE  /\ Merge(row, read, new) \in Row
         /\ Merge(row, read, new).draft = IF new.draft # read.draft THEN new.draft ELSE row.draft
         /\ Merge(row, read, new).status = IF new.status # read.status THEN new.status ELSE row.status
         /\ Merge(row, read, new).ids = IF new.ids # read.ids THEN new.ids ELSE row.ids
         /\ Merge(row, read, new).ext = IF new.ext # read.ext THEN new.ext ELSE row.ext
         /\ Merge(row, read, new).due = IF new.due # read.due THEN new.due ELSE row.due
<1> DEFINE d == IF new.draft # read.draft THEN new.draft ELSE row.draft
           s == IF new.status # read.status THEN new.status ELSE row.status
           i == IF new.ids # read.ids THEN new.ids ELSE row.ids
           e == IF new.ext # read.ext THEN new.ext ELSE row.ext
           u == IF new.due # read.due THEN new.due ELSE row.due
<1>1. /\ d \in Drafts \cup {NoDraft} /\ s \in AttemptStatuses /\ i \in BOOLEAN
      /\ e \in Evidence /\ u \in BOOLEAN
  BY DEF Row
<1>2. Merge(row, read, new) = [draft |-> d, status |-> s, ids |-> i, ext |-> e, due |-> u]
  BY MergeFields
<1> HIDE DEF d, s, i, e, u
<1>3. [draft |-> d, status |-> s, ids |-> i, ext |-> e, due |-> u] \in Row
  BY <1>1 DEF Row
<1>4. /\ Merge(row, read, new) \in Row
      /\ Merge(row, read, new).draft = d /\ Merge(row, read, new).status = s
      /\ Merge(row, read, new).ids = i /\ Merge(row, read, new).ext = e
      /\ Merge(row, read, new).due = u
  BY <1>2, <1>3
<1> QED BY <1>4 DEF d, s, i, e, u

LEMMA FailRow ==
  ASSUME NEW row \in Row
  PROVE  /\ Fail(row) \in Row
         /\ Fail(row).draft = row.draft /\ Fail(row).ids = row.ids
         /\ Fail(row).ext = row.ext /\ Fail(row).due = row.ids
         /\ Fail(row).status \in {"NEEDS_RECONCILIATION", "FAILED"}
<1>1. PICK status \in AttemptStatuses :
        /\ status = IF row.ids THEN "NEEDS_RECONCILIATION" ELSE "FAILED"
        /\ status \in {"NEEDS_RECONCILIATION", "FAILED"}
  BY DEF AttemptStatuses
<1>2. PICK due \in BOOLEAN : due = row.ids BY DEF Row
<1>3. Fail(row) = [row EXCEPT !.status = status, !.due = due] BY <1>1, <1>2 DEF Fail
<1>4. /\ [row EXCEPT !.status = status, !.due = due] \in Row
      /\ [row EXCEPT !.status = status, !.due = due].draft = row.draft
      /\ [row EXCEPT !.status = status, !.due = due].ids = row.ids
      /\ [row EXCEPT !.status = status, !.due = due].ext = row.ext
      /\ [row EXCEPT !.status = status, !.due = due].due = due
      /\ [row EXCEPT !.status = status, !.due = due].status = status
  BY DEF Row
<1> QED BY <1>1, <1>2, <1>3, <1>4

LEMMA StatusRow ==
  ASSUME NEW row \in Row, NEW status \in AttemptStatuses
  PROVE  /\ [row EXCEPT !.status = status] \in Row
         /\ [row EXCEPT !.status = status].draft = row.draft
         /\ [row EXCEPT !.status = status].status = status
         /\ [row EXCEPT !.status = status].ids = row.ids
         /\ [row EXCEPT !.status = status].ext = row.ext
         /\ [row EXCEPT !.status = status].due = row.due
BY DEF Row

LEMMA NewRow ==
  ASSUME NEW d \in Drafts \cup {NoDraft}, NEW status \in AttemptStatuses
  PROVE  LET new == [NoRow EXCEPT !.draft = d, !.status = status]
         IN /\ new \in Row /\ new.draft = d /\ new.status = status
            /\ ~new.ids /\ new.ext = "OPEN" /\ ~new.due
<1>1. NoRow \in Row /\ ~NoRow.ids /\ NoRow.ext = "OPEN" /\ ~NoRow.due
  BY DEF NoRow, Row, Evidence, AttemptStatuses
<1>2. PICK row \in Row : row = NoRow /\ ~row.ids /\ row.ext = "OPEN" /\ ~row.due
  BY <1>1
<1> QED BY <1>2 DEF Row

-----------------------------------------------------------------------------
(***************************************************************************)
(* Types, and the publications of a draft.                                 *)
(***************************************************************************)
\* A handler acts only on what it has in hand.
HandlerOK(q) == /\ q.pc = "gated" => q.d \in Drafts
                /\ q.pc \in {"mark", "refresh", "call"} => q.a \in Attempts /\ q.row \in Row

Types == /\ att \in [Attempts -> Row]
         /\ pub \in [Attempts -> PubRow]
         /\ post \in [Attempts -> Posts]
         /\ work \in [Attempts -> WorkStates]
         /\ calls \in [Attempts -> Nat]
         /\ old \subseteq Attempts
         /\ DOMAIN req = Handlers
         /\ \A r \in Handlers : HandlerOK(req[r])

\* A step leaves publications and drafts of attempts alone, or works out the
\* publications of one draft anew, the only draft that gets another attempt.
Keeps == \/ /\ pub' = pub
            /\ \A b \in Attempts : att'[b].draft = att[b].draft
         \/ \E d, c :
              /\ pub' = SyncPubs(att', d, c)
              /\ \A b \in Attempts : att'[b].draft # d => att'[b].draft = att[b].draft

LEMMA SyncKeeps ==
  ASSUME Types, NEW d, NEW read, NEW A \in [Attempts -> Row], NEW F, Sync(d, read, A, F),
         \A b \in Attempts : A[b].draft # d => A[b].draft = att[b].draft
  PROVE  att' = A /\ pub' \in [Attempts -> PubRow] /\ Keeps
<1>1. att' = A BY DEF Sync
<1>2. PICK c : pub' = SyncPubs(A, d, c) BY DEF Sync
<1>3. ASSUME NEW a \in Attempts
      PROVE  SyncPubs(A, d, c)[a] \in PubRow
  <2>1. /\ pub[a] \in PubRow /\ A[a].ext \in Evidence /\ (a = c) \in BOOLEAN
        /\ NoPub \in PubRow
    BY DEF Types, PubRow, NoPub, Row
  <2>2. [ext |-> A[a].ext, canon |-> a = c] \in PubRow BY <2>1 DEF PubRow
  <2> QED BY <2>1, <2>2 DEF SyncPubs
<1>4. pub' \in [Attempts -> PubRow] BY <1>2, <1>3 DEF SyncPubs
<1> QED BY <1>1, <1>2, <1>4 DEF Keeps

LEMMA WriteKeeps ==
  ASSUME Types, NEW a \in Attempts, NEW row \in Row, row.draft = att[a].draft, NEW F,
         WriteAttempt(a, row, F)
  PROVE  /\ att' = [att EXCEPT ![a] = row]
         /\ att' \in [Attempts -> Row] /\ pub' \in [Attempts -> PubRow] /\ Keeps
<1>1. [att EXCEPT ![a] = row] \in [Attempts -> Row] BY DEF Types
<1>2. \A b \in Attempts : [att EXCEPT ![a] = row][b].draft = att[b].draft BY DEF Types
<1> QED BY <1>1, <1>2, SyncKeeps DEF WriteAttempt

\* The rest of Types, when the rows are typed.
LEMMA TypesFrom ==
  ASSUME Types, att' \in [Attempts -> Row], pub' \in [Attempts -> PubRow],
         UNCHANGED post \/ \E a \in Attempts, p \in Posts : post' = [post EXCEPT ![a] = p],
         UNCHANGED work \/ \E a \in Attempts, w \in WorkStates : work' = [work EXCEPT ![a] = w],
         UNCHANGED calls \/ \E a \in Attempts : calls' = [calls EXCEPT ![a] = @ + 1],
         old' \subseteq Attempts,
         UNCHANGED req
           \/ \E r \in Handlers : \E q : HandlerOK(q) /\ req' = [req EXCEPT ![r] = q]
  PROVE  Types'
<1>1. post' \in [Attempts -> Posts] /\ work' \in [Attempts -> WorkStates]
  BY DEF Types
<1>2. calls' \in [Attempts -> Nat] BY DEF Types
<1>3. DOMAIN req' = Handlers /\ \A r \in Handlers : HandlerOK(req'[r])
  BY DEF Types
<1>4. \A r \in Handlers : HandlerOK(req[r])' BY <1>3 DEF HandlerOK
<1> QED BY <1>1, <1>2, <1>3, <1>4 DEF Types

LEMMA WorkerTypes ==
  ASSUME Types, NEW a \in Attempts, Worker(a) \/ Receives(a) \/ Processes(a) \/ CancelJob(a)
  PROVE  Types' /\ Keeps
<1> DEFINE row == att[a]
<1>1. /\ row \in Row
      /\ old \subseteq Attempts /\ old \ {a} \subseteq Attempts
      /\ \A r \in Row : Outcome(r) \in WorkStates
  BY DEF Types, WorkStates, Outcome
<1>2. pub \in [Attempts -> PubRow] BY DEF Types
<1>3. ASSUME NEW new \in Row, new.draft = row.draft, NEW F, WriteAttempt(a, new, F)
      PROVE  /\ att' \in [Attempts -> Row]
             /\ pub' \in [Attempts -> PubRow] /\ Keeps
  BY <1>3, WriteKeeps
<1>4. ASSUME NEW status \in AttemptStatuses
      PROVE  [row EXCEPT !.status = status] \in Row
             /\ [row EXCEPT !.status = status].draft = row.draft
  BY <1>1, StatusRow
<1>5. Fail(row) \in Row /\ Fail(row).draft = row.draft BY <1>1, FailRow
<1>6. ASSUME NEW new \in Row, new.draft = row.draft, UNCHANGED pub,
             att' = [att EXCEPT ![a] = new]
      PROVE  att' \in [Attempts -> Row] /\ pub' \in [Attempts -> PubRow] /\ Keeps
  BY <1>2, <1>6 DEF Types, Keeps
<1>7. ASSUME UNCHANGED <<att, pub>>
      PROVE  att' \in [Attempts -> Row] /\ pub' \in [Attempts -> PubRow] /\ Keeps
  BY <1>2, <1>7 DEF Types, Keeps
<1> HIDE DEF row
<1>8. {"RUNNING", "UPLOADING"} \subseteq AttemptStatuses
  BY DEF AttemptStatuses, ActiveStatuses
<1>9. {"waiting", "gated", "running", "sending", "sync", "done"} \subseteq WorkStates
  BY DEF WorkStates
<1>10. CASE ExecResume(a)
  <2>1. PICK new \in Row : /\ new.draft = row.draft
                           /\ \E F : WriteAttempt(a, new, F)
                           /\ work' = [work EXCEPT ![a] = Outcome(new)]
    BY <1>1, <1>5, <1>10 DEF ExecResume, row
  <2> QED BY <1>1, <1>3, <1>10, <2>1, TypesFrom DEF ExecResume
<1>11. CASE ExecRaise(a) BY <1>1, <1>7, <1>9, <1>11, TypesFrom DEF ExecRaise, rows
<1>12. CASE ExecRefuse(a)
  BY <1>1, <1>3, <1>5, <1>9, <1>12, TypesFrom DEF ExecRefuse, row
<1>13. CASE ExecRun(a)
  <2>1. CASE Conflict(a) BY <1>1, <1>7, <1>9, <1>13, <2>1, TypesFrom DEF ExecRun, rows
  <2>2. CASE ~Conflict(a)
    <3>1. PICK new \in Row :
            /\ new = [row EXCEPT !.status = "RUNNING"] /\ new.draft = row.draft
      BY <1>4, <1>8
    <3> DEFINE A == [att EXCEPT ![a] = new]
    <3>2. /\ A \in [Attempts -> Row]
          /\ \A b \in Attempts : A[b].draft # new.draft => A[b].draft = att[b].draft
      BY <3>1 DEF Types, row
    <3>3. Sync(new.draft, seen[a], A, finished) BY <1>13, <2>2, <3>1 DEF ExecRun, row
    <3> HIDE DEF A
    <3>4. att' \in [Attempts -> Row] /\ pub' \in [Attempts -> PubRow] /\ Keeps
      BY <3>2, <3>3, SyncKeeps
    <3>5. /\ UNCHANGED <<post, req, calls>> /\ old' \subseteq Attempts
          /\ work' = [work EXCEPT ![a] = "running"]
      BY <1>1, <1>13, <2>2 DEF ExecRun
    <3> QED BY <1>9, <3>4, <3>5, TypesFrom
  <2> QED BY <2>1, <2>2
<1>14. CASE ExecNoAccount(a)
  <2>1. att' = [att EXCEPT ![a] = Fail(row)] BY <1>14 DEF ExecNoAccount, row
  <2> QED BY <1>1, <1>5, <1>6, <1>9, <1>14, <2>1, TypesFrom DEF ExecNoAccount
<1>15. CASE ExecUpload(a)
  <2>1. CASE Conflict(a) BY <1>1, <1>7, <1>9, <1>15, <2>1, TypesFrom DEF ExecUpload, rows
  <2>2. CASE ~Conflict(a)
    BY <1>1, <1>3, <1>4, <1>8, <1>9, <1>15, <2>2, TypesFrom DEF ExecUpload, row
  <2> QED BY <2>1, <2>2
<1>16. ASSUME NEW new \in Row, new.draft = row.draft, Answered(a, new)
       PROVE  Types' /\ Keeps
  <2> DEFINE read == Uploaded(a)
             after == Merge(row, read, new)
  <2>1. read \in Row /\ read.draft = row.draft
    BY <1>1, <1>8, NewRow DEF Uploaded, Row, row
  <2>2. after \in Row /\ after.draft = row.draft BY <1>1, <1>16, <2>1, MergeRow
  <2>3. att' = [att EXCEPT ![a] = after] BY <1>16 DEF Answered, row
  <2> HIDE DEF read, after
  <2> QED BY <1>1, <1>6, <1>9, <1>16, <2>2, <2>3, TypesFrom DEF Answered
<1>17. /\ Uploaded(a) \in Row /\ Uploaded(a).draft = row.draft
  BY <1>1, <1>8, NewRow DEF Uploaded, Row, row
<1>18. CASE ExecSuccess(a)
  <2>1. PICK up \in Row : up = Uploaded(a) /\ up.draft = row.draft BY <1>17
  <2>2. [up EXCEPT !.status = "SUCCEEDED", !.ids = TRUE, !.ext = "PUBLISHED"] \in Row
        /\ [up EXCEPT !.status = "SUCCEEDED", !.ids = TRUE, !.ext = "PUBLISHED"].draft
             = row.draft
    BY <2>1 DEF Row, AttemptStatuses, Evidence
  <2> QED BY <1>16, <1>18, <2>1, <2>2 DEF ExecSuccess
<1>19. CASE ExecError(a)
  <2>1. PICK up \in Row, ids \in BOOLEAN :
          up = Uploaded(a) /\ up.draft = row.draft /\ ids = (post[a] # "none")
    BY <1>17
  <2>2. [up EXCEPT !.ids = ids] \in Row /\ [up EXCEPT !.ids = ids].draft = row.draft
    BY <2>1 DEF Row
  <2>3. Fail([up EXCEPT !.ids = ids]) \in Row
        /\ Fail([up EXCEPT !.ids = ids]).draft = row.draft
    BY <2>2, FailRow
  <2> QED BY <1>16, <1>19, <2>1, <2>3 DEF ExecError
<1>20. CASE ExecSync(a)
  BY <1>1, <1>3, <1>20, TypesFrom DEF ExecSync, row
<1>21. CASE Crash(a) BY <1>1, <1>7, <1>9, <1>21, TypesFrom DEF Crash, rows
<1>24. CASE ExecGate(a) BY <1>1, <1>7, <1>9, <1>24, TypesFrom DEF ExecGate, rows
<1>25. CASE ExecInvalid(a)
  <2>1. Fail(Uploaded(a)) \in Row /\ Fail(Uploaded(a)).draft = row.draft
    BY <1>17, FailRow
  <2> QED BY <1>16, <1>25, <2>1 DEF ExecInvalid
<1>22. CASE CancelJob(a) BY <1>1, <1>7, <1>9, <1>22, TypesFrom DEF CancelJob, rows
<1>23. CASE Receives(a) \/ Processes(a)
  <2>1. \E p \in Posts : post' = [post EXCEPT ![a] = p]
    BY <1>23 DEF Receives, Processes, Posts
  <2> QED BY <1>1, <1>7, <1>23, <2>1, TypesFrom DEF Receives, Processes, rows
<1> QED BY <1>10, <1>11, <1>12, <1>13, <1>14, <1>15, <1>18, <1>19, <1>20, <1>21, <1>22,
           <1>23, <1>24, <1>25 DEF Worker

LEMMA NextAttemptNat == NextAttempt \in Nat \ {0}
<1>1. IsFiniteSet(Attempts) BY FS_Interval, PublishAssumption DEF Attempts
<1>2. IsFiniteSet(Exists) BY <1>1, FS_Subset DEF Exists
<1> QED BY <1>2, FS_CardinalityType DEF NextAttempt

LEMMA Below == IsWellFoundedOn({p \in Nat \X Nat : p[1] < p[2]}, Nat)
<1>1. OpToRel(<, Nat) = {p \in Nat \X Nat : p[1] < p[2]} BY DEF OpToRel
<1> QED BY <1>1, NatLessThanWellFounded

\* Some attempts have a newest one.
LEMMA NewestIn ==
  ASSUME NEW S \in SUBSET Attempts, S # {}
  PROVE  Newest(S) \in S
<1> DEFINE T == {N - a : a \in S}
<1>1. T \subseteq Nat /\ T # {} BY PublishAssumption DEF Attempts
<1>2. PICK x \in T : \A y \in T : ~(<<y, x>> \in {p \in Nat \X Nat : p[1] < p[2]})
  BY <1>1, Below, WFMin
<1>3. PICK a \in S : x = N - a BY <1>2
<1>4. \A b \in S : b <= a
  <2> TAKE b \in S
  <2>1. N - b \in T OBVIOUS
  <2>2. ~(N - b < x) BY <1>1, <1>2, <2>1
  <2>3. a \in Attempts /\ b \in Attempts OBVIOUS
  <2>4. a \in Int /\ b \in Int /\ N \in Int BY <2>3, PublishAssumption DEF Attempts
  <2> QED BY <1>3, <2>2, <2>4
<1> QED BY <1>3, <1>4 DEF Newest

\* What a handler has in hand after its steps.
LEMMA HandlerStates ==
  /\ HandlerOK(Idle)
  /\ \A d, upto : HandlerOK([Idle EXCEPT !.pc = "loop", !.d = d, !.upto = upto])
  /\ \A d, upto, a : HandlerOK([Idle EXCEPT !.pc = "loop", !.d = d, !.upto = upto, !.a = a])
  /\ \A d, upto : \A a \in Attempts : \A row \in Row : \A pc \in {"mark", "refresh", "call"} :
       HandlerOK([Idle EXCEPT !.pc = pc, !.d = d, !.upto = upto, !.a = a, !.row = row])
  /\ \A d \in Drafts : \A read :
       HandlerOK([Idle EXCEPT !.pc = "gated", !.d = d, !.read = read])
BY DEF HandlerOK, Idle

\* A handler that neither reads nor writes anything of an attempt.
LEMMA RequestTypes ==
  ASSUME Types, NEW r \in Handlers, HandlerDies(r) \/ \E d \in Drafts : EnqueueGate(r, d)
  PROVE  Types' /\ Keeps
<1>1. \E q : HandlerOK(q) /\ req' = [req EXCEPT ![r] = q]
  BY HandlerStates DEF HandlerDies, EnqueueGate
<1>2. UNCHANGED <<rows, post, work, old, calls>> BY DEF HandlerDies, EnqueueGate
<1> QED BY <1>1, <1>2, TypesFrom DEF rows, Types, Keeps

LEMMA CommitTypes ==
  ASSUME Types, NEW r \in Handlers, EnqueueCommit(r)
  PROVE  Types' /\ Keeps
<1> DEFINE a == NextAttempt
           d == req[r].d
           row == [NoRow EXCEPT !.draft = d, !.status = "QUEUED"]
           A == [att EXCEPT ![a] = row]
<1>1. d \in Drafts BY DEF Types, HandlerOK, EnqueueCommit
<1>2. row \in Row /\ row.draft = d
  <2>1. "QUEUED" \in AttemptStatuses /\ d \in Drafts \cup {NoDraft}
    BY <1>1 DEF AttemptStatuses, ActiveStatuses
  <2> QED BY <2>1, NewRow, ZenonT(60)
<1>3. HandlerOK(Idle) BY HandlerStates
<1>4. UNCHANGED <<post, old, calls>> /\ req' = [req EXCEPT ![r] = Idle]
  BY DEF EnqueueCommit
<1>5. CASE UNCHANGED <<rows, work, recent>>
  BY <1>3, <1>4, <1>5, TypesFrom DEF rows, Types, Keeps
<1>6. CASE /\ a <= N /\ ~Conflict(a)
           /\ Sync(d, req[r].read, A, finished)
           /\ work' = [work EXCEPT ![a] = "waiting"]
  <2>1. a \in Attempts BY <1>6, NextAttemptNat, PublishAssumption DEF Attempts
  <2>2. "waiting" \in WorkStates /\ old' \subseteq Attempts
    BY <1>4 DEF WorkStates, Types
  <2> HIDE DEF row, a, d
  <2>3. /\ A \in [Attempts -> Row]
        /\ \A b \in Attempts : A[b].draft # d => A[b].draft = att[b].draft
    BY <1>2, <2>1 DEF Types
  <2>4. att' = A /\ pub' \in [Attempts -> PubRow] /\ Keeps
    BY <1>6, <2>3, SyncKeeps
  <2> HIDE DEF A
  <2> QED BY <1>3, <1>4, <1>6, <2>1, <2>2, <2>3, <2>4, TypesFrom
<1> QED BY <1>5, <1>6 DEF EnqueueCommit

LEMMA StartRefreshTypes ==
  ASSUME Types, NEW r \in Handlers, NEW d, NEW a \in Attempts, StartRefresh(r, d, a)
  PROVE  Types' /\ Keeps
<1>1. PICK row \in Row : row = att[a] BY DEF Types
<1>2. req' = [req EXCEPT ![r] =
        [Idle EXCEPT !.pc = "refresh", !.d = d, !.upto = a - 1, !.a = a, !.row = row]]
  BY <1>1 DEF StartRefresh
<1>3. HandlerOK([Idle EXCEPT !.pc = "refresh", !.d = d, !.upto = a - 1, !.a = a, !.row = row])
  BY HandlerStates
<1>4. UNCHANGED <<rows, post, work, old, calls>> BY DEF StartRefresh
<1> QED BY <1>2, <1>3, <1>4, TypesFrom DEF rows, Types, Keeps

\* What the start of a refresh makes of the row that it has read.
LEMMA Reconciling ==
  ASSUME NEW row \in Row
  PROVE  LET new == [row EXCEPT !.status = "RECONCILING", !.due = TRUE]
         IN /\ new \in Row /\ new.draft = row.draft /\ new.ids = row.ids
            /\ new.ext = row.ext /\ new.status = "RECONCILING"
BY DEF Row, AttemptStatuses, ActiveStatuses

LEMMA RefreshCommitRow ==
  ASSUME Types, NEW r \in Handlers, RefreshCommit(r)
  PROVE  /\ req[r].pc = "refresh" /\ req[r].a \in Attempts
         /\ UNCHANGED <<pub, post, work, old, calls>>
         /\ \/ UNCHANGED att /\ req' = [req EXCEPT ![r] = Idle]
            \/ \E row \in Row :
                 /\ row.draft = att[req[r].a].draft /\ row.ids = att[req[r].a].ids
                 /\ row.ext = att[req[r].a].ext
                 /\ row.status = IF req[r].row.status # "RECONCILING"
                                    THEN "RECONCILING" ELSE att[req[r].a].status
                 /\ att' = [att EXCEPT ![req[r].a] = row]
                 /\ req' = [req EXCEPT ![r] =
                      [Idle EXCEPT !.pc = "call", !.d = req[r].d, !.upto = req[r].upto,
                                   !.a = req[r].a, !.row = row]]
<1>1. /\ req[r].pc = "refresh" /\ req[r].a \in Attempts
      /\ UNCHANGED <<pub, post, work, old, calls>>
  BY DEF RefreshCommit, Types, HandlerOK
<1>2. PICK was \in Row, read \in Row : was = att[req[r].a] /\ read = req[r].row
  BY <1>1 DEF Types, HandlerOK
<1>3. PICK new \in Row :
        /\ new = [read EXCEPT !.status = "RECONCILING", !.due = TRUE]
        /\ new.draft = read.draft /\ new.ids = read.ids
        /\ new.ext = read.ext /\ new.status = "RECONCILING"
  BY Reconciling
<1>4. /\ Merge(was, read, new) \in Row
      /\ Merge(was, read, new).draft = IF new.draft # read.draft THEN new.draft ELSE was.draft
      /\ Merge(was, read, new).ids = IF new.ids # read.ids THEN new.ids ELSE was.ids
      /\ Merge(was, read, new).ext = IF new.ext # read.ext THEN new.ext ELSE was.ext
      /\ Merge(was, read, new).status
           = IF new.status # read.status THEN new.status ELSE was.status
  BY MergeRow
<1>5. PICK row \in Row :
        /\ row = Merge(was, read, new)
        /\ row.draft = was.draft /\ row.ids = was.ids /\ row.ext = was.ext
        /\ row.status = IF read.status # "RECONCILING" THEN "RECONCILING" ELSE was.status
  <2> DEFINE merged == Merge(was, read, new)
  <2>1. /\ merged \in Row /\ merged.draft = was.draft /\ merged.ids = was.ids
        /\ merged.ext = was.ext
        /\ merged.status = IF read.status # "RECONCILING" THEN "RECONCILING" ELSE was.status
    BY <1>3, <1>4
  <2> HIDE DEF merged
  <2>2. \E row \in Row :
          /\ row = merged
          /\ row.draft = was.draft /\ row.ids = was.ids /\ row.ext = was.ext
          /\ row.status = IF read.status # "RECONCILING" THEN "RECONCILING" ELSE was.status
    BY <2>1
  <2> QED BY <2>2 DEF merged
<1>6. \/ UNCHANGED att /\ req' = [req EXCEPT ![r] = Idle]
      \/ /\ att' = [att EXCEPT ![req[r].a] = row]
         /\ req' = [req EXCEPT ![r] =
              [Idle EXCEPT !.pc = "call", !.d = req[r].d, !.upto = req[r].upto,
                           !.a = req[r].a, !.row = row]]
  BY <1>2, <1>3, <1>5 DEF RefreshCommit
<1>7. /\ row.draft = att[req[r].a].draft /\ row.ids = att[req[r].a].ids
      /\ row.ext = att[req[r].a].ext
      /\ row.status = IF req[r].row.status # "RECONCILING"
                        THEN "RECONCILING" ELSE att[req[r].a].status
  BY <1>2, <1>5
<1>8. CASE UNCHANGED att /\ req' = [req EXCEPT ![r] = Idle] BY <1>1, <1>8
<1>9. CASE /\ att' = [att EXCEPT ![req[r].a] = row]
           /\ req' = [req EXCEPT ![r] =
                [Idle EXCEPT !.pc = "call", !.d = req[r].d, !.upto = req[r].upto,
                             !.a = req[r].a, !.row = row]]
  BY <1>1, <1>7, <1>9, Zenon
<1> QED BY <1>6, <1>8, <1>9

LEMMA RefreshCommitTypes ==
  ASSUME Types, NEW r \in Handlers, RefreshCommit(r)
  PROVE  Types' /\ Keeps
<1>1. /\ req[r].pc = "refresh" /\ req[r].a \in Attempts
      /\ UNCHANGED <<pub, post, work, old, calls>>
  BY RefreshCommitRow
<1>2. CASE UNCHANGED att /\ req' = [req EXCEPT ![r] = Idle]
  <2>1. HandlerOK(Idle) BY HandlerStates
  <2> QED BY <1>1, <1>2, <2>1, TypesFrom DEF Types, Keeps
<1>3. ASSUME NEW row \in Row, row.draft = att[req[r].a].draft,
             att' = [att EXCEPT ![req[r].a] = row],
             req' = [req EXCEPT ![r] =
               [Idle EXCEPT !.pc = "call", !.d = req[r].d, !.upto = req[r].upto,
                            !.a = req[r].a, !.row = row]]
      PROVE  Types' /\ Keeps
  <2>1. att' \in [Attempts -> Row] /\ pub' \in [Attempts -> PubRow] /\ Keeps
    BY <1>1, <1>3 DEF Types, Keeps
  <2>2. HandlerOK([Idle EXCEPT !.pc = "call", !.d = req[r].d, !.upto = req[r].upto,
                               !.a = req[r].a, !.row = row])
    BY <1>1, HandlerStates
  <2>3. old' \subseteq Attempts BY <1>1 DEF Types
  <2> QED BY <1>1, <1>3, <2>1, <2>2, <2>3, TypesFrom
<1> QED BY <1>2, <1>3, RefreshCommitRow

\* What an answer makes of the row that was read before the call.
LEMMA Answers ==
  ASSUME NEW row \in Row
  PROVE  /\ \A e \in Evidence :
              /\ MarkReconciled(row, e) \in Row
              /\ MarkReconciled(row, e).draft = row.draft
              /\ MarkReconciled(row, e).ids = row.ids
              /\ MarkReconciled(row, e).ext = e
              /\ MarkReconciled(row, e).status \in {"RECONCILED", "NEEDS_RECONCILIATION"}
         /\ LET new == [row EXCEPT !.status = "NEEDS_RECONCILIATION", !.due = TRUE]
            IN /\ new \in Row /\ new.draft = row.draft /\ new.ids = row.ids
               /\ new.ext = row.ext /\ new.status = "NEEDS_RECONCILIATION"
<1>1. ASSUME NEW e \in Evidence
      PROVE  /\ MarkReconciled(row, e) \in Row
             /\ MarkReconciled(row, e).draft = row.draft
             /\ MarkReconciled(row, e).ids = row.ids
             /\ MarkReconciled(row, e).ext = e
             /\ MarkReconciled(row, e).status \in {"RECONCILED", "NEEDS_RECONCILIATION"}
  <2>1. PICK status \in AttemptStatuses :
          /\ status = IF e \in {"PUBLISHED", "FAILED"} THEN "RECONCILED"
                      ELSE "NEEDS_RECONCILIATION"
          /\ status \in {"RECONCILED", "NEEDS_RECONCILIATION"}
    BY DEF AttemptStatuses
  <2>2. PICK due \in BOOLEAN : due = (e \notin {"PUBLISHED", "FAILED"}) OBVIOUS
  <2>3. MarkReconciled(row, e) = [row EXCEPT !.ext = e, !.status = status, !.due = due]
    BY <2>1, <2>2 DEF MarkReconciled
  <2>4. LET new == [row EXCEPT !.ext = e, !.status = status, !.due = due]
        IN /\ new \in Row /\ new.draft = row.draft /\ new.ids = row.ids
           /\ new.status = status /\ new.ext = e
    BY DEF Row
  <2> QED BY <2>1, <2>3, <2>4
<1>2. LET new == [row EXCEPT !.status = "NEEDS_RECONCILIATION", !.due = TRUE]
      IN /\ new \in Row /\ new.draft = row.draft /\ new.ids = row.ids
         /\ new.ext = row.ext /\ new.status = "NEEDS_RECONCILIATION"
  BY DEF Row, AttemptStatuses
<1> QED BY <1>1, <1>2

LEMMA SaysEvidence == ASSUME NEW p PROVE Says(p) \subseteq Evidence
<1>1. CASE p = "created" BY <1>1 DEF Says, Evidence
<1>2. CASE p = "made" BY <1>2 DEF Says, Evidence
<1>3. CASE p = "live" BY <1>3 DEF Says, Evidence
<1>4. CASE p = "gone" BY <1>4 DEF Says, Evidence
<1>5. CASE p \notin {"created", "made", "live", "gone"} BY <1>5 DEF Says, Evidence
<1> QED BY <1>1, <1>2, <1>3, <1>4, <1>5

\* What a call for an attempt ends with: the row after it.
LEMMA HeardRow ==
  ASSUME Types, NEW r \in Handlers, RefreshAnswer(r) \/ RefreshError(r)
  PROVE  \E new \in Row : \E effect :
           /\ Heard(r, new, effect)
           /\ req[r].pc = "call"
           /\ new.draft = req[r].row.draft /\ new.ids = req[r].row.ids
           /\ new.status \in {"RECONCILED", "NEEDS_RECONCILIATION"}
           /\ new.ext = req[r].row.ext \/ new.ext \in Says(post[req[r].a])
<1>1. req[r].pc = "call" BY DEF RefreshAnswer, RefreshError
<1>2. req[r].row \in Row /\ req[r].a \in Attempts BY <1>1 DEF Types, HandlerOK
<1>3. CASE RefreshAnswer(r)
  <2>1. PICK e \in Says(post[req[r].a]) : Heard(r, MarkReconciled(req[r].row, e), "none")
    BY <1>3 DEF RefreshAnswer
  <2>2. e \in Evidence BY SaysEvidence
  <2>3. PICK new \in Row : /\ new = MarkReconciled(req[r].row, e)
                           /\ new.draft = req[r].row.draft /\ new.ids = req[r].row.ids
                           /\ new.ext = e
                           /\ new.status \in {"RECONCILED", "NEEDS_RECONCILIATION"}
    <3>1. req[r].row \in Row /\ e \in Evidence BY <1>2, <2>2
    <3> QED BY <3>1, Answers
  <2>4. Heard(r, new, "none") BY <2>1, <2>3
  <2> QED BY <1>1, <2>1, <2>3, <2>4
<1>4. CASE RefreshError(r)
  BY <1>1, <1>2, <1>4, Answers DEF RefreshError
<1> QED BY <1>3, <1>4

LEMMA HeardTypes ==
  ASSUME Types, NEW r \in Handlers, RefreshAnswer(r) \/ RefreshError(r)
  PROVE  Types' /\ Keeps
<1>1. PICK new \in Row : \E effect :
        /\ Heard(r, new, effect)
        /\ req[r].pc = "call"
        /\ new.draft = req[r].row.draft
  BY HeardRow
<1> DEFINE q == req[r]
           after == Merge(att[q.a], q.row, new)
           A == [att EXCEPT ![q.a] = after]
<1>2. q.a \in Attempts /\ q.row \in Row /\ att[q.a] \in Row
  BY <1>1 DEF Types, HandlerOK
<1>3. after \in Row /\ after.draft = att[q.a].draft BY <1>1, <1>2, MergeRow
<1>4. /\ A \in [Attempts -> Row]
      /\ \A b \in Attempts : A[b].draft # new.draft => A[b].draft = att[b].draft
  BY <1>2, <1>3 DEF Types
<1>5. Sync(new.draft, draft[new.draft], A, finished) BY <1>1 DEF Heard
<1>6. att' \in [Attempts -> Row] /\ pub' \in [Attempts -> PubRow] /\ Keeps
  BY <1>4, <1>5, SyncKeeps, ZenonT(60)
<1>7. UNCHANGED <<post, work, old, calls>> BY <1>1 DEF Heard
<1>8. \E h : HandlerOK(h) /\ req' = [req EXCEPT ![r] = h]
  <2>1. HandlerOK(Idle) /\ HandlerOK([Idle EXCEPT !.pc = "loop", !.d = q.d, !.upto = q.upto])
    BY HandlerStates
  <2> QED BY <1>1, <2>1 DEF Heard
<1> QED BY <1>6, <1>7, <1>8, TypesFrom DEF Types

\* An attempt that a reconciliation has work for.
LEMMA LeftNewest ==
  ASSUME NEW r, NEW d, Left(r, d) # {}
  PROVE  Newest(Left(r, d)) \in Attempts /\ Newest(Left(r, d)) \in Left(r, d)
BY NewestIn DEF Left, Of

LEMMA FindTypes ==
  ASSUME Types, NEW r \in Handlers, NEW d \in Drafts, FindStale(r, d)
  PROVE  Types' /\ Keeps
<1>1. PICK a \in Attempts : a = Newest(Left(r, d)) BY LeftNewest DEF FindStale
<1>2. PICK row \in Row : row = att[a] BY DEF Types
<1>3. /\ UNCHANGED <<rows, post, work, old, calls>>
      /\ req' = [req EXCEPT ![r] =
           [Idle EXCEPT !.pc = "mark", !.d = d, !.upto = a, !.a = a, !.row = row]]
  BY <1>1, <1>2 DEF FindStale
<1>4. HandlerOK([Idle EXCEPT !.pc = "mark", !.d = d, !.upto = a, !.a = a, !.row = row])
  BY HandlerStates
<1> QED BY <1>3, <1>4, TypesFrom DEF rows, Types, Keeps

\* What the stale mark makes of the row, as it was read and as it is.
LEMMA MarkRow ==
  ASSUME Types, NEW r \in Handlers, MarkStale(r)
  PROVE  /\ req[r].pc = "mark" /\ req[r].a \in Attempts
         /\ UNCHANGED <<pub, post, work, calls>> /\ old' = old \ {req[r].a}
         /\ req' = [req EXCEPT ![r] =
              [Idle EXCEPT !.pc = "loop", !.d = req[r].d, !.upto = req[r].a, !.a = req[r].a]]
         /\ \E row \in Row :
              /\ row.draft = att[req[r].a].draft /\ row.ids = att[req[r].a].ids
              /\ row.ext = att[req[r].a].ext
              /\ row.due => att[req[r].a].due \/ req[r].row.ids
              /\ row.status \in {"FAILED", "NEEDS_RECONCILIATION", att[req[r].a].status}
              /\ att' = [att EXCEPT ![req[r].a] = row]
<1>1. req[r].pc = "mark" /\ req[r].a \in Attempts BY DEF MarkStale, Types, HandlerOK
<1>2. PICK was \in Row, read \in Row : was = att[req[r].a] /\ read = req[r].row
  BY <1>1 DEF Types, HandlerOK
<1>3. PICK new \in Row :
        /\ new = Fail(read)
        /\ new.draft = read.draft /\ new.ids = read.ids
        /\ new.ext = read.ext /\ new.due = read.ids
        /\ new.status \in {"NEEDS_RECONCILIATION", "FAILED"}
  BY FailRow
<1>4. PICK row \in Row :
        /\ row = Merge(was, read, new)
        /\ row.draft = was.draft /\ row.ids = was.ids /\ row.ext = was.ext
        /\ row.due => was.due \/ read.ids
        /\ row.status \in {"FAILED", "NEEDS_RECONCILIATION", was.status}
  BY <1>3, MergeRow
<1>5. att' = [att EXCEPT ![req[r].a] = row]
  BY <1>2, <1>3, <1>4 DEF MarkStale
<1> QED BY <1>1, <1>2, <1>4, <1>5 DEF MarkStale

LEMMA MarkTypes ==
  ASSUME Types, NEW r \in Handlers, MarkStale(r)
  PROVE  Types' /\ Keeps
<1>1. PICK a \in Attempts : a = req[r].a BY MarkRow
<1>2. PICK row \in Row : row.draft = att[a].draft /\ att' = [att EXCEPT ![a] = row]
  BY <1>1, MarkRow
<1>3. /\ UNCHANGED <<pub, post, work, calls>> /\ old' = old \ {a}
      /\ req' = [req EXCEPT ![r] =
           [Idle EXCEPT !.pc = "loop", !.d = req[r].d, !.upto = a, !.a = a]]
  BY <1>1, MarkRow
<1>4. HandlerOK([Idle EXCEPT !.pc = "loop", !.d = req[r].d, !.upto = a, !.a = a])
  BY HandlerStates
<1>5. att' \in [Attempts -> Row] /\ pub' \in [Attempts -> PubRow] /\ Keeps
  BY <1>2, <1>3 DEF Types, Keeps
<1>6. old' \subseteq Attempts BY <1>3 DEF Types
<1> QED BY <1>3, <1>4, <1>5, <1>6, TypesFrom

LEMMA ReconcileTypes ==
  ASSUME Types, NEW r \in Handlers,
         ReconcileSkip(r) \/ \E d \in Drafts : ReconcileEnd(r, d)
  PROVE  Types' /\ Keeps
<1>1. CASE ReconcileSkip(r)
  <2>1. HandlerOK([Idle EXCEPT !.pc = "loop", !.d = req[r].d, !.upto = req[r].upto])
    BY HandlerStates
  <2> QED BY <1>1, <2>1, TypesFrom DEF ReconcileSkip, rows, Types, Keeps
<1>2. ASSUME NEW d \in Drafts, ReconcileEnd(r, d) PROVE Types' /\ Keeps
  <2>1. Sync(d, draft[d], att, finished) /\ req' = [req EXCEPT ![r] = Idle]
        /\ UNCHANGED <<post, work, old, calls>>
    BY <1>2 DEF ReconcileEnd
  <2>2. att \in [Attempts -> Row] BY DEF Types
  <2>3. att' \in [Attempts -> Row] /\ pub' \in [Attempts -> PubRow] /\ Keeps
    BY <2>1, <2>2, SyncKeeps
  <2>4. HandlerOK(Idle) BY HandlerStates
  <2> QED BY <2>1, <2>3, <2>4, TypesFrom DEF Types
<1> QED BY <1>1, <1>2

LEMMA RefresherTypes ==
  ASSUME Types, NEW r \in Refreshers, Refresher(r)
  PROVE  Types' /\ Keeps
<1>1. r \in Handlers BY DEF Handlers
<1>2. ASSUME NEW a \in Attempts, RouteRefresh(r, a) PROVE Types' /\ Keeps
  BY <1>1, <1>2, StartRefreshTypes DEF RouteRefresh
<1>3. ASSUME NEW d \in Drafts, ReconcileRefresh(r, d) PROVE Types' /\ Keeps
  <2>1. Newest(Left(r, d)) \in Attempts BY <1>3, LeftNewest DEF ReconcileRefresh
  <2> QED BY <1>1, <1>3, <2>1, StartRefreshTypes DEF ReconcileRefresh
<1> QED BY <1>1, <1>2, <1>3, FindTypes, MarkTypes, RefreshCommitTypes, HeardTypes,
           ReconcileTypes DEF Refresher

\* Drafts, the Page and time.
LEMMA OtherTypes ==
  ASSUME Types,
         \/ \E d \in Drafts : MarkReady(d) \/ Retract(d)
         \/ PageOpens \/ IntervalPasses \/ StalePasses
         \/ UNCHANGED vars
  PROVE  Types' /\ Keeps
<1>1. UNCHANGED <<att, pub, post, work, req, calls>>
  BY DEF MarkReady, Retract, SetDraft, PageOpens, IntervalPasses, StalePasses, rows, vars
<1>2. old' \subseteq Attempts
  BY DEF MarkReady, Retract, SetDraft, PageOpens, IntervalPasses, StalePasses, vars, Types
<1> QED BY <1>1, <1>2, TypesFrom DEF Types, Keeps

LEMMA StepTypes == ASSUME Types, [Next]_vars PROVE Types' /\ Keeps
<1>1. ASSUME NEW a \in Attempts, Worker(a) \/ Receives(a) \/ Processes(a) \/ CancelJob(a)
      PROVE  Types' /\ Keeps
  BY <1>1, WorkerTypes
<1>2. ASSUME NEW r \in Requests, Request(r) PROVE Types' /\ Keeps
  BY <1>2, RequestTypes, CommitTypes DEF Request, Handlers
<1>3. ASSUME NEW r \in Refreshers, Refresher(r) PROVE Types' /\ Keeps
  BY <1>3, RefresherTypes
<1>4. ASSUME NEW r \in Handlers, HandlerDies(r) PROVE Types' /\ Keeps
  BY <1>4, RequestTypes
<1> QED BY <1>1, <1>2, <1>3, <1>4, OtherTypes DEF Next, Operator

LEMMA InitTypes == Init => Types
<1> SUFFICES ASSUME Init PROVE Types OBVIOUS
<1>1. NoRow \in Row /\ NoPub \in PubRow /\ HandlerOK(Idle)
  BY HandlerStates DEF NoRow, NoPub, Row, PubRow, AttemptStatuses, Evidence
<1> QED BY <1>1 DEF Init, Types, Posts, WorkStates

\* A draft has at most one canonical publication, whichever attempts, syncs
\* from rows read earlier and late answers come together.
THEOREM CanonicalUnique == Spec => []OneCanonical
<1>1. Init => Types /\ OneCanonical
  BY InitTypes DEF Init, OneCanonical, NoPub
<1>2. Types /\ OneCanonical /\ [Next]_vars => Types' /\ OneCanonical'
  <2> SUFFICES ASSUME Types, OneCanonical, [Next]_vars PROVE Types' /\ OneCanonical' OBVIOUS
  <2>1. Types' /\ Keeps BY StepTypes
  <2>2. CASE pub' = pub /\ \A b \in Attempts : att'[b].draft = att[b].draft
    BY <2>1, <2>2 DEF OneCanonical
  <2>3. ASSUME NEW d, NEW c, pub' = SyncPubs(att', d, c),
               \A b \in Attempts : att'[b].draft # d => att'[b].draft = att[b].draft
        PROVE  OneCanonical'
    <3>1. ASSUME NEW a \in Attempts
          PROVE  /\ att'[a].draft # d => pub'[a] = pub[a]
                 /\ att'[a].draft = d /\ pub'[a].canon => a = c
      BY <2>3, <3>1 DEF SyncPubs, NoPub
    <3> QED BY <2>3, <3>1 DEF OneCanonical
  <2> QED BY <2>1, <2>2, <2>3 DEF Keeps
<1> QED BY <1>1, <1>2, PTL DEF Spec

-----------------------------------------------------------------------------
(***************************************************************************)
(* The invariant of a Page: what the row of an attempt says of its job,    *)
(* its call and its post, and what a handler knows of the attempt it has   *)
(* in hand.                                                                *)
(***************************************************************************)
AttemptGood(a) ==
  /\ att[a].status = "none" => work[a] = "none" /\ calls[a] = 0 /\ a \notin old
  /\ att[a].status = "QUEUED" => calls[a] = 0
  /\ work[a] \in {"gated", "running"} => calls[a] = 0
  /\ work[a] = "sending" => calls[a] > 0 /\ ~att[a].ids
  /\ att[a].ids => calls[a] > 0
  /\ ~att[a].ids => ~att[a].due /\ att[a].ext = "OPEN"
  /\ att[a].ext = "PUBLISHED" => a \in Posted

\* A reference, once stored, is never taken away.
HandlerGood(q) ==
  /\ q.pc \in {"refresh", "call"} => att[q.a].ids
  /\ q.pc = "mark" => att[q.a].status # "none" /\ (q.row.ids => att[q.a].ids)

\* Attempts are numbered in the order of their creation.
Numbered == \E k \in 0..N : Exists = 1..k

PageInv == /\ Types /\ Numbered
           /\ \A a \in Attempts : AttemptGood(a)
           /\ \A r \in Handlers : HandlerGood(req[r])

LEMMA InitInv == Init => PageInv
<1> SUFFICES ASSUME Init PROVE PageInv OBVIOUS
<1>1. Exists = 1..0 BY DEF Init, Exists, NoRow
<1>2. Numbered BY <1>1, PublishAssumption DEF Numbered
<1> QED BY <1>2, InitTypes
        DEF Init, PageInv, AttemptGood, HandlerGood, NoRow, Idle

\* The next attempt's number is the first one that is free.
LEMMA NextIsFree ==
  ASSUME Numbered, NextAttempt <= N
  PROVE  /\ NextAttempt \in Attempts
         /\ att[NextAttempt].status = "none"
         /\ Exists \cup {NextAttempt} = 1..NextAttempt
<1>1. PICK k \in 0..N : Exists = 1..k BY DEF Numbered
<1>2. k \in Nat /\ N \in Nat BY PublishAssumption
<1>3. Cardinality(1..k) = k BY <1>2, FS_Interval
<1>4. NextAttempt = k + 1 BY <1>1, <1>3 DEF NextAttempt
<1> QED BY <1>1, <1>2, <1>4 DEF Attempts, Exists

\* A step leaves every attempt but a alone.
OnlyAt(a) == \A b \in Attempts \ {a} :
               /\ att'[b] = att[b] /\ work'[b] = work[b]
               /\ calls'[b] = calls[b] /\ post'[b] = post[b]

\* A step at one attempt keeps the invariant when it keeps the attempt's own
\* part, its reference, and what its handler knows.
LEMMA InvStep ==
  ASSUME PageInv, Types', NEW a \in Attempts, OnlyAt(a), old' \subseteq old,
         att[a].status # "none", att'[a].status # "none", AttemptGood(a)',
         att[a].ids => att'[a].ids,
         \A r \in Handlers : req'[r] = req[r] \/ HandlerGood(req[r])'
  PROVE  PageInv'
<1>1. Exists' = Exists BY DEF Exists, OnlyAt
<1>2. Numbered' BY <1>1 DEF PageInv, Numbered
<1>3. ASSUME NEW b \in Attempts PROVE AttemptGood(b)'
  BY DEF OnlyAt, PageInv, AttemptGood, Posted
<1>4. \A b \in Attempts : /\ att[b].ids => att'[b].ids
                          /\ att[b].status # "none" => att'[b].status # "none"
  BY DEF OnlyAt
<1>5. ASSUME NEW r \in Handlers PROVE HandlerGood(req[r])'
  <2>1. CASE req'[r] = req[r]
    BY <1>4, <2>1 DEF PageInv, HandlerGood, Types, HandlerOK
  <2> QED BY <2>1
<1> QED BY <1>2, <1>3, <1>5 DEF PageInv

-----------------------------------------------------------------------------
(***************************************************************************)
(* Steps of PublishOnce, seen from the rows.                               *)
(***************************************************************************)
Confirmed == {a \in Attempts : att[a].ext = "PUBLISHED"}
OnceStep == [Once!Next]_(Once!vars)

\* What OnlyAt says of the abstract state.
LEMMA OthersStay ==
  ASSUME NEW a \in Attempts, OnlyAt(a)
  PROVE  /\ \A b \in Attempts \ {a} : Stage(b)' = Stage(b)
         /\ Posted' \ {a} = Posted \ {a}
         /\ Confirmed' \ {a} = Confirmed \ {a}
BY DEF OnlyAt, Stage, Posted, Confirmed

\* A step that keeps the stage of its attempt is none of PublishOnce.
LEMMA Quiet ==
  ASSUME NEW a \in Attempts, OnlyAt(a), Stage(a)' = Stage(a),
         a \in Posted' <=> a \in Posted, att'[a].ext = att[a].ext
  PROVE  OnceStep
<1>1. \A b \in Attempts : Stage(b)' = Stage(b) BY OthersStay
<1>2. Posted' = Posted BY OthersStay DEF Posted
<1>3. Confirmed' = Confirmed BY OthersStay DEF Confirmed
<1> QED BY <1>1, <1>2, <1>3 DEF OnceStep, Once!vars, Confirmed

LEMMA Called ==
  ASSUME NEW a \in Attempts, OnlyAt(a), Stage(a) = "waiting", Stage(a)' = "calling",
         \A b \in Attempts : Stage(b) # "calling",
         a \in Posted' <=> a \in Posted, att'[a].ext = att[a].ext
  PROVE  OnceStep
<1>1. Posted' = Posted BY OthersStay DEF Posted
<1>2. Confirmed' = Confirmed BY OthersStay DEF Confirmed
<1>3. Once!Call(a) BY <1>1, <1>2, OthersStay DEF Once!Call, Confirmed
<1> QED BY <1>3 DEF OnceStep, Once!Next

LEMMA Lost ==
  ASSUME NEW a \in Attempts, OnlyAt(a), Stage(a) = "calling", Stage(a)' = "lost",
         a \in Posted' <=> a \in Posted, att'[a].ext = att[a].ext
  PROVE  OnceStep
<1>1. Posted' = Posted BY OthersStay DEF Posted
<1>2. Confirmed' = Confirmed BY OthersStay DEF Confirmed
<1>3. Once!Lose(a) BY <1>1, <1>2, OthersStay DEF Once!Lose, Confirmed
<1> QED BY <1>3 DEF OnceStep, Once!Next

LEMMA Accepted ==
  ASSUME NEW a \in Attempts, OnlyAt(a), Stage(a) \in {"calling", "lost"}, Stage(a)' = Stage(a),
         a \in Posted', att'[a].ext = att[a].ext
  PROVE  OnceStep
<1>1. Posted' = Posted \cup {a} BY OthersStay DEF Posted
<1>2. Confirmed' = Confirmed BY OthersStay DEF Confirmed
<1>3. Once!Accept(a) BY <1>1, <1>2, OthersStay DEF Once!Accept, Confirmed
<1> QED BY <1>3 DEF OnceStep, Once!Next

LEMMA Returned ==
  ASSUME NEW a \in Attempts, OnlyAt(a), Stage(a) \in {"calling", "lost"}, Stage(a)' = "over",
         a \in Posted' <=> a \in Posted,
         \/ att'[a].ext = att[a].ext
         \/ att[a].ext # "PUBLISHED" /\ (att'[a].ext = "PUBLISHED" => a \in Posted)
  PROVE  OnceStep
<1>1. Posted' = Posted BY OthersStay DEF Posted
<1>2. Confirmed' \in {Confirmed, Confirmed \cup ({a} \cap Posted)}
  BY OthersStay DEF Confirmed
<1>3. Once!Return(a) BY <1>1, <1>2, OthersStay DEF Once!Return, Confirmed
<1> QED BY <1>3 DEF OnceStep, Once!Next

LEMMA Learned ==
  ASSUME NEW a \in Attempts, OnlyAt(a), Stage(a) = "over", Stage(a)' = "over",
         a \in Posted' <=> a \in Posted, att'[a].ext = "PUBLISHED" => a \in Posted
  PROVE  OnceStep
<1>1. Posted' = Posted BY OthersStay DEF Posted
<1>2. Confirmed' \in {Confirmed \ {a}, Confirmed \cup ({a} \cap Posted)}
  <2>1. CASE att'[a].ext = "PUBLISHED" BY <2>1, OthersStay DEF Confirmed
  <2>2. CASE att'[a].ext # "PUBLISHED" BY <2>2, OthersStay DEF Confirmed
  <2> QED BY <2>1, <2>2
<1>3. Once!Learn(a) BY <1>1, <1>2, OthersStay DEF Once!Learn, Confirmed
<1> QED BY <1>3 DEF OnceStep, Once!Next

LEMMA Enqueued ==
  ASSUME NEW a \in Attempts, OnlyAt(a), Stage(a) = "none", Stage(a)' = "waiting",
         a \in Posted' <=> a \in Posted, att'[a].ext = "OPEN", att[a].ext = "OPEN"
  PROVE  OnceStep
<1>1. Posted' = Posted BY OthersStay DEF Posted
<1>2. Confirmed' = Confirmed BY OthersStay DEF Confirmed
<1>3. Once!Enqueue(a) BY <1>1, <1>2, OthersStay DEF Once!Enqueue, Confirmed
<1> QED BY <1>3 DEF OnceStep, Once!Next

-----------------------------------------------------------------------------
(***************************************************************************)
(* Every step keeps the invariant and is a step of PublishOnce or none.    *)
(***************************************************************************)
\* A step of a worker that neither begins nor ends a call.
LEMMA QuietWrite ==
  ASSUME PageInv, Types', NEW a \in Attempts, att[a].status # "none", work[a] # "sending",
         NEW row \in Row, att' = [att EXCEPT ![a] = row], row.status # "none",
         row.ids = att[a].ids, row.ext = att[a].ext,
         NEW w \in WorkStates \ {"sending"}, work' = [work EXCEPT ![a] = w],
         UNCHANGED <<calls, post, req>>, old' \subseteq old,
         AttemptGood(a)'
  PROVE  PageInv' /\ OnceStep
<1>1. att \in [Attempts -> Row] /\ work \in [Attempts -> WorkStates]
  BY DEF PageInv, Types
<1>2. att'[a] = row /\ work'[a] = w BY <1>1
<1>3. OnlyAt(a) BY <1>1 DEF OnlyAt
<1>4. PageInv' BY <1>2, <1>3, InvStep
<1>5. Stage(a)' = Stage(a) BY <1>2 DEF Stage
<1>6. OnceStep BY <1>2, <1>3, <1>5, Quiet DEF Posted
<1> QED BY <1>4, <1>6

LEMMA BeforeCall ==
  ASSUME PageInv, NEW a \in Attempts,
         \/ ExecResume(a) \/ ExecRaise(a) \/ ExecRefuse(a) \/ ExecGate(a) \/ ExecRun(a)
         \/ ExecNoAccount(a) \/ (ExecUpload(a) /\ Conflict(a)) \/ ExecSync(a) \/ CancelJob(a)
         \/ Crash(a) /\ work[a] # "sending"
  PROVE  PageInv' /\ OnceStep
<1>1. Types' BY WorkerTypes DEF PageInv, Worker
<1>2. /\ att[a] \in Row /\ AttemptGood(a)
      /\ att \in [Attempts -> Row] /\ work \in [Attempts -> WorkStates]
  BY DEF PageInv, Types
<1>3. att[a].status # "none" /\ work[a] # "sending"
  BY <1>2 DEF AttemptGood, ExecResume, ExecRaise, ExecRefuse, ExecGate, ExecRun,
              ExecNoAccount, ExecUpload, ExecSync, CancelJob, Crash
<1>4. UNCHANGED <<calls, post, req>> /\ old' \in {old, old \ {a}}
  BY DEF ExecResume, ExecRaise, ExecRefuse, ExecGate, ExecRun, ExecNoAccount, ExecUpload,
         ExecSync, CancelJob, Crash, rows
<1>5. /\ Fail(att[a]) \in Row /\ Fail(att[a]).ids = att[a].ids
      /\ Fail(att[a]).ext = att[a].ext /\ Fail(att[a]).due = att[a].ids
      /\ Fail(att[a]).status \in {"NEEDS_RECONCILIATION", "FAILED"}
  BY <1>2, FailRow
\* the attempt fails
<1>6. ASSUME att' = [att EXCEPT ![a] = Fail(att[a])],
             NEW w \in {"waiting", "done", "sync"}, work' = [work EXCEPT ![a] = w]
      PROVE  PageInv' /\ OnceStep
  <2>1. att'[a] = Fail(att[a]) /\ work'[a] = w BY <1>2, <1>6
  <2>2. AttemptGood(a)'
    BY <1>2, <1>4, <1>5, <1>6, <2>1 DEF AttemptGood, Posted
  <2> QED BY <1>1, <1>3, <1>4, <1>5, <1>6, <2>2, QuietWrite DEF WorkStates
\* only the job changes
<1>7. ASSUME att' = att, NEW w \in {"waiting", "done", "gated"},
             w = "gated" => calls[a] = 0, work' = [work EXCEPT ![a] = w]
      PROVE  PageInv' /\ OnceStep
  <2>1. att' = [att EXCEPT ![a] = att[a]] /\ work'[a] = w BY <1>2, <1>7
  <2>2. AttemptGood(a)' BY <1>2, <1>3, <1>4, <1>7, <2>1 DEF AttemptGood, Posted
  <2> QED BY <1>1, <1>2, <1>3, <1>4, <1>7, <2>1, <2>2, QuietWrite DEF WorkStates
<1>8. \A row : Outcome(row) \in {"waiting", "done"} BY DEF Outcome
<1>9. CASE ExecResume(a)
  <2>1. CASE att[a].status \in ActiveStatuses
    BY <1>6, <1>8, <1>9, <2>1 DEF ExecResume, WriteAttempt, Sync
  <2>2. CASE att[a].status \notin ActiveStatuses
    <3>1. att' = att BY <1>2, <1>9, <2>2 DEF ExecResume, WriteAttempt, Sync
    <3> QED BY <1>7, <1>8, <1>9, <2>2, <3>1 DEF ExecResume
  <2> QED BY <2>1, <2>2
<1>10. CASE ExecRaise(a) BY <1>7, <1>10 DEF ExecRaise, rows
<1>11. CASE ExecRefuse(a) BY <1>6, <1>11 DEF ExecRefuse, WriteAttempt, Sync
<1>12. CASE ExecGate(a) BY <1>2, <1>7, <1>12 DEF ExecGate, rows, AttemptGood
<1>13. CASE ExecRun(a)
  <2>1. CASE Conflict(a) BY <1>7, <1>13, <2>1 DEF ExecRun, rows
  <2>2. CASE ~Conflict(a)
    <3> DEFINE row == [att[a] EXCEPT !.status = "RUNNING"]
    <3>1. "RUNNING" \in AttemptStatuses BY DEF AttemptStatuses, ActiveStatuses
    <3>2. /\ row \in Row /\ row.status = "RUNNING" /\ row.ids = att[a].ids
          /\ row.ext = att[a].ext /\ row.due = att[a].due
      BY <1>2, <3>1, StatusRow
    <3>3. /\ work[a] = "gated" /\ att' = [att EXCEPT ![a] = row]
          /\ work' = [work EXCEPT ![a] = "running"]
      BY <1>13, <2>2 DEF ExecRun, Sync
    <3> HIDE DEF row
    <3>4. att'[a] = row /\ work'[a] = "running" BY <1>2, <3>3
    <3>5. AttemptGood(a)' BY <1>2, <1>4, <3>2, <3>3, <3>4 DEF AttemptGood, Posted
    <3> QED BY <1>1, <1>3, <1>4, <3>2, <3>3, <3>5, QuietWrite DEF WorkStates
  <2> QED BY <2>1, <2>2
<1>14. CASE ExecNoAccount(a) BY <1>6, <1>14 DEF ExecNoAccount
<1>15. CASE ExecUpload(a) /\ Conflict(a) BY <1>7, <1>15 DEF ExecUpload, rows
<1>16. CASE ExecSync(a)
  <2>1. att' = att BY <1>2, <1>16 DEF ExecSync, WriteAttempt, Sync
  <2> QED BY <1>7, <1>8, <1>16, <2>1 DEF ExecSync
<1>17. CASE CancelJob(a) BY <1>7, <1>17 DEF CancelJob, rows
<1>18. CASE Crash(a) BY <1>7, <1>18 DEF Crash, rows
<1> QED BY <1>9, <1>10, <1>11, <1>12, <1>13, <1>14, <1>15, <1>16, <1>17, <1>18

\* The call, what the platform makes of it, and its end.
LEMMA TheCall ==
  ASSUME PageInv, NEW a \in Attempts, ExecUpload(a), ~Conflict(a)
  PROVE  PageInv' /\ OnceStep
<1> DEFINE row == [att[a] EXCEPT !.status = "UPLOADING"]
<1>1. Types' BY WorkerTypes DEF PageInv, Worker
<1>2. /\ att[a] \in Row /\ AttemptGood(a) /\ calls[a] \in Nat
      /\ att \in [Attempts -> Row] /\ work \in [Attempts -> WorkStates]
      /\ calls \in [Attempts -> Nat]
  BY DEF PageInv, Types
<1>3. work[a] = "running" /\ att[a].status # "none" /\ calls[a] = 0 /\ ~att[a].ids
  BY <1>2 DEF ExecUpload, AttemptGood
<1>4. /\ row \in Row /\ row.status = "UPLOADING" /\ row.ids = att[a].ids
      /\ row.ext = att[a].ext /\ row.due = att[a].due
  BY <1>2, StatusRow DEF AttemptStatuses, ActiveStatuses
<1>5. /\ att' = [att EXCEPT ![a] = row] /\ work' = [work EXCEPT ![a] = "sending"]
      /\ calls' = [calls EXCEPT ![a] = calls[a] + 1] /\ UNCHANGED <<post, req, old>>
  BY DEF ExecUpload, WriteAttempt, Sync
<1> HIDE DEF row
<1>6. att'[a] = row /\ work'[a] = "sending" /\ calls'[a] = 1 BY <1>2, <1>3, <1>5
<1>7. OnlyAt(a) BY <1>2, <1>5 DEF OnlyAt
<1>8. AttemptGood(a)' BY <1>2, <1>3, <1>4, <1>5, <1>6 DEF AttemptGood, Posted
<1>9. PageInv' BY <1>1, <1>3, <1>4, <1>5, <1>6, <1>7, <1>8, InvStep
<1>10. \A b \in Attempts \ {a} : att[b].status \notin ActiveStatuses
  BY DEF Conflict, Active
<1>11. /\ Stage(a) = "waiting" /\ Stage(a)' = "calling"
       /\ \A b \in Attempts : Stage(b) # "calling"
  BY <1>3, <1>4, <1>6, <1>10 DEF Stage, ActiveStatuses
<1>12. OnceStep BY <1>4, <1>5, <1>6, <1>7, <1>11, Called DEF Posted
<1> QED BY <1>9, <1>12

LEMMA ThePlatform ==
  ASSUME PageInv, NEW a \in Attempts, Receives(a) \/ Processes(a)
  PROVE  PageInv' /\ OnceStep
<1>1. Types' BY WorkerTypes DEF PageInv
<1>2. UNCHANGED <<att, work, calls, req, old>>
  BY DEF Receives, Processes, rows
<1>3. /\ \A b \in Attempts \ {a} : post'[b] = post[b]
      /\ a \in Posted => a \in Posted'
      /\ a \in Posted' => a \in Posted \/ work[a] = "sending"
  BY DEF Receives, Processes, Posted, PageInv, Types
<1>4. OnlyAt(a) BY <1>2, <1>3 DEF OnlyAt
<1>5. \A b \in Attempts : AttemptGood(b)'
  BY <1>2, <1>3 DEF PageInv, AttemptGood, Posted
<1>6. PageInv'
  BY <1>1, <1>2, <1>5 DEF PageInv, Numbered, Exists, HandlerGood
<1>7. \A b \in Attempts : Stage(b)' = Stage(b) BY <1>2 DEF Stage
<1>8. CASE a \in Posted' <=> a \in Posted
  BY <1>2, <1>4, <1>6, <1>7, <1>8, Quiet
<1>9. CASE ~(a \in Posted' <=> a \in Posted)
  <2>1. work[a] = "sending" /\ a \in Posted' BY <1>3, <1>9
  <2>2. att[a].status # "none" BY <2>1 DEF PageInv, AttemptGood
  <2>3. Stage(a) \in {"calling", "lost"} BY <2>1, <2>2 DEF Stage
  <2> QED BY <1>2, <1>4, <1>6, <1>7, <2>1, <2>3, Accepted
<1> QED BY <1>8, <1>9

\* An answer, in which new tells whether the post exists or may exist.
LEMMA TheAnswer ==
  ASSUME PageInv, NEW a \in Attempts, Types', NEW new \in Row, Answered(a, new),
         new.draft = att[a].draft,
         \/ new.status = "SUCCEEDED" /\ new.ids /\ ~new.due /\ a \in Posted
         \/ /\ new.status \in {"FAILED", "NEEDS_RECONCILIATION"}
            /\ new.ext = "OPEN" /\ new.due = new.ids
  PROVE  PageInv' /\ OnceStep
<1> DEFINE read == Uploaded(a)
           row == Merge(att[a], read, new)
<1>1. /\ att[a] \in Row /\ AttemptGood(a)
      /\ att \in [Attempts -> Row] /\ work \in [Attempts -> WorkStates]
  BY DEF PageInv, Types
<1>2. /\ work[a] = "sending" /\ att[a].status # "none" /\ calls[a] > 0
      /\ ~att[a].ids /\ ~att[a].due /\ att[a].ext = "OPEN"
  BY <1>1 DEF Answered, AttemptGood
<1>3. /\ read \in Row /\ read.draft = att[a].draft /\ read.status = "UPLOADING"
      /\ ~read.ids /\ ~read.due /\ read.ext = "OPEN"
  <2>1. att[a].draft \in Drafts \cup {NoDraft} /\ "UPLOADING" \in AttemptStatuses
    BY <1>1 DEF Row, AttemptStatuses, ActiveStatuses
  <2> QED BY <2>1, NewRow DEF Uploaded
<1>4. /\ att' = [att EXCEPT ![a] = row] /\ work' = [work EXCEPT ![a] = "sync"]
      /\ old' = old \ {a} /\ UNCHANGED <<post, req, calls>>
  BY DEF Answered
<1> HIDE DEF read
<1>5. /\ row \in Row
      /\ row.status = IF new.status # read.status THEN new.status ELSE att[a].status
      /\ row.ids = IF new.ids # read.ids THEN new.ids ELSE att[a].ids
      /\ row.ext = IF new.ext # read.ext THEN new.ext ELSE att[a].ext
      /\ row.due = IF new.due # read.due THEN new.due ELSE att[a].due
  BY <1>1, <1>3, MergeRow
<1> HIDE DEF row
<1>6. /\ row.status = new.status /\ row.ext = new.ext
      /\ row.status \in {"SUCCEEDED", "FAILED", "NEEDS_RECONCILIATION"}
  BY <1>2, <1>3, <1>5
<1>7. /\ new.ids \in BOOLEAN /\ new.due \in BOOLEAN /\ read.ids = FALSE /\ read.due = FALSE
      /\ att[a].ids = FALSE /\ att[a].due = FALSE
  BY <1>1, <1>2, <1>3 DEF Row
<1>8. row.ids = new.ids /\ row.due = new.due BY <1>5, <1>7
<1>9. att'[a] = row /\ work'[a] = "sync" BY <1>1, <1>4
<1>10. OnlyAt(a) BY <1>1, <1>4 DEF OnlyAt
<1>11. AttemptGood(a)'
  BY <1>2, <1>4, <1>6, <1>8, <1>9 DEF AttemptGood, Posted
<1>12. PageInv'
  BY <1>2, <1>4, <1>6, <1>9, <1>10, <1>11, InvStep
<1>13. Stage(a) \in {"calling", "lost"} /\ Stage(a)' = "over"
  BY <1>2, <1>4, <1>6, <1>9 DEF Stage
<1>14. OnceStep
  BY <1>2, <1>4, <1>6, <1>9, <1>10, <1>13, Returned DEF Posted
<1> QED BY <1>12, <1>14

LEMMA CallEnds ==
  ASSUME PageInv, NEW a \in Attempts,
         \/ ExecSuccess(a) \/ ExecError(a) \/ ExecInvalid(a)
         \/ Crash(a) /\ work[a] = "sending"
  PROVE  PageInv' /\ OnceStep
<1>1. Types' BY WorkerTypes DEF PageInv, Worker
<1>2. /\ att[a] \in Row /\ AttemptGood(a)
      /\ att \in [Attempts -> Row] /\ work \in [Attempts -> WorkStates]
  BY DEF PageInv, Types
<1>3. PICK up \in Row : /\ up = Uploaded(a)
                        /\ up.draft = att[a].draft /\ up.ext = "OPEN" /\ ~up.due
  <2>1. att[a].draft \in Drafts \cup {NoDraft} /\ "UPLOADING" \in AttemptStatuses
    BY <1>2 DEF Row, AttemptStatuses, ActiveStatuses
  <2> QED BY <2>1, NewRow DEF Uploaded
<1>4. CASE ExecSuccess(a)
  <2>1. LET new == [up EXCEPT !.status = "SUCCEEDED", !.ids = TRUE, !.ext = "PUBLISHED"]
        IN /\ new \in Row /\ new.draft = att[a].draft /\ new.status = "SUCCEEDED"
           /\ new.ids /\ ~new.due
    BY <1>3 DEF Row, AttemptStatuses, Evidence
  <2> QED BY <1>1, <1>3, <1>4, <2>1, TheAnswer DEF ExecSuccess
<1>5. ASSUME NEW with \in Row, with.draft = att[a].draft, with.ext = "OPEN",
             Answered(a, Fail(with))
      PROVE  PageInv' /\ OnceStep
  <2>1. /\ Fail(with) \in Row /\ Fail(with).draft = att[a].draft
        /\ Fail(with).ext = "OPEN" /\ Fail(with).due = Fail(with).ids
        /\ Fail(with).status \in {"NEEDS_RECONCILIATION", "FAILED"}
    BY <1>5, FailRow
  <2> QED BY <1>1, <1>5, <2>1, TheAnswer
<1>6. CASE ExecError(a)
  <2>1. PICK ids \in BOOLEAN : ids = (post[a] # "none") OBVIOUS
  <2>2. /\ [up EXCEPT !.ids = ids] \in Row /\ [up EXCEPT !.ids = ids].draft = up.draft
        /\ [up EXCEPT !.ids = ids].ext = up.ext
    BY DEF Row
  <2>3. PICK with \in Row : with = [up EXCEPT !.ids = ids] /\ with.draft = att[a].draft
                            /\ with.ext = "OPEN"
    BY <1>3, <2>2
  <2>4. Answered(a, Fail(with)) BY <1>3, <1>6, <2>1, <2>3 DEF ExecError
  <2> QED BY <1>5, <2>3, <2>4
<1>7. CASE ExecInvalid(a) BY <1>3, <1>5, <1>7 DEF ExecInvalid
<1>8. CASE Crash(a) /\ work[a] = "sending"
  <2>1. /\ work' = [work EXCEPT ![a] = "waiting"]
        /\ UNCHANGED <<att, post, req, old, calls>>
    BY <1>8 DEF Crash, rows
  <2>2. work'[a] = "waiting" /\ OnlyAt(a) BY <1>2, <2>1 DEF OnlyAt
  <2>3. att[a].status # "none" /\ calls[a] > 0 BY <1>2, <1>8 DEF AttemptGood
  <2>4. AttemptGood(a)' BY <1>2, <2>1, <2>2, <2>3 DEF AttemptGood, Posted
  <2>5. PageInv' BY <1>1, <2>1, <2>2, <2>3, <2>4, InvStep
  <2>6. Stage(a) \in {"calling", "lost"} /\ Stage(a)' = "over"
    BY <1>8, <2>1, <2>2, <2>3 DEF Stage
  <2>7. OnceStep BY <2>1, <2>2, <2>6, Returned DEF Posted
  <2> QED BY <2>5, <2>7
<1> QED BY <1>4, <1>6, <1>7, <1>8

\* A step that shows in no attempt, job or post.
LEMMA NothingShows ==
  ASSUME PageInv, Types', UNCHANGED <<att, work, calls, post>>,
         \A a \in Attempts : a \in old' => a \in old \/ att[a].status # "none",
         \A r \in Handlers : req'[r] = req[r] \/ HandlerGood(req[r])'
  PROVE  PageInv' /\ OnceStep
<1>1. ASSUME NEW a \in Attempts PROVE AttemptGood(a)'
  BY DEF PageInv, AttemptGood, Posted
<1>2. ASSUME NEW r \in Handlers PROVE HandlerGood(req[r])' BY DEF PageInv, HandlerGood
<1>3. PageInv' BY <1>1, <1>2 DEF PageInv, Numbered, Exists
<1>4. /\ \A b \in Attempts : Stage(b)' = Stage(b)
      /\ Posted' = Posted /\ Confirmed' = Confirmed
  BY DEF Stage, Posted, Confirmed
<1>5. OnceStep BY <1>4 DEF OnceStep, Once!vars, Confirmed
<1> QED BY <1>3, <1>5

\* A handler that has no attempt in hand.
Resting(q) == q.pc \notin {"mark", "refresh", "call"}

LEMMA IdleStates ==
  /\ Resting(Idle)
  /\ \A d, upto : Resting([Idle EXCEPT !.pc = "loop", !.d = d, !.upto = upto])
  /\ \A d, upto, a : Resting([Idle EXCEPT !.pc = "loop", !.d = d, !.upto = upto, !.a = a])
  /\ \A d \in Drafts : \A read :
       Resting([Idle EXCEPT !.pc = "gated", !.d = d, !.read = read])
BY DEF Resting, Idle

LEMMA RestingGood ==
  ASSUME Types, NEW r \in Handlers, NEW q, Resting(q), req' = [req EXCEPT ![r] = q]
  PROVE  \A h \in Handlers : req'[h] = req[h] \/ HandlerGood(req[h])'
<1>1. DOMAIN req = Handlers BY DEF Types
<1> QED BY <1>1 DEF HandlerGood, Resting

LEMMA RequestSteps ==
  ASSUME PageInv, NEW r \in Handlers,
         HandlerDies(r) \/ ReconcileSkip(r)
           \/ \E d \in Drafts : EnqueueGate(r, d) \/ ReconcileEnd(r, d)
  PROVE  PageInv' /\ OnceStep
<1>1. Types BY DEF PageInv
<1>2. CASE HandlerDies(r)
  <2>1. Types' BY <1>1, <1>2, RequestTypes
  <2>2. UNCHANGED <<att, work, calls, post, old>> BY <1>2 DEF HandlerDies, rows
  <2> QED BY <1>1, <1>2, <2>1, <2>2, IdleStates, RestingGood, NothingShows DEF HandlerDies
<1>3. CASE ReconcileSkip(r)
  <2>1. Types' BY <1>1, <1>3, ReconcileTypes
  <2>2. UNCHANGED <<att, work, calls, post, old>> BY <1>3 DEF ReconcileSkip, rows
  <2>3. PICK q : Resting(q) /\ req' = [req EXCEPT ![r] = q]
    BY <1>3, IdleStates DEF ReconcileSkip
  <2> QED BY <1>1, <2>1, <2>2, <2>3, RestingGood, NothingShows
<1>4. ASSUME NEW d \in Drafts, EnqueueGate(r, d) PROVE PageInv' /\ OnceStep
  <2>1. Types' BY <1>1, <1>4, RequestTypes
  <2>2. UNCHANGED <<att, work, calls, post, old>> BY <1>4 DEF EnqueueGate, rows
  <2>3. PICK q : Resting(q) /\ req' = [req EXCEPT ![r] = q]
    BY <1>4, IdleStates DEF EnqueueGate
  <2> QED BY <1>1, <2>1, <2>2, <2>3, RestingGood, NothingShows
<1>5. ASSUME NEW d \in Drafts, ReconcileEnd(r, d) PROVE PageInv' /\ OnceStep
  <2>1. Types' BY <1>1, <1>5, ReconcileTypes
  <2>2. Sync(d, draft[d], att, finished) /\ req' = [req EXCEPT ![r] = Idle]
        /\ UNCHANGED <<post, work, old, calls>>
    BY <1>5 DEF ReconcileEnd
  <2>3. att' = att BY <2>2 DEF Sync
  <2> QED BY <1>1, <2>1, <2>2, <2>3, IdleStates, RestingGood, NothingShows
<1> QED BY <1>2, <1>3, <1>4, <1>5

LEMMA CommitStep ==
  ASSUME PageInv, NEW r \in Handlers, EnqueueCommit(r)
  PROVE  PageInv' /\ OnceStep
<1> DEFINE new == [NoRow EXCEPT !.draft = req[r].d, !.status = "QUEUED"]
<1>1. Types' BY CommitTypes DEF PageInv
<1>2. \A h \in Handlers : req'[h] = req[h] \/ (Resting(req[h]))'
  BY IdleStates DEF EnqueueCommit, PageInv, Types, Resting
<1>3. UNCHANGED <<post, old, calls>> BY DEF EnqueueCommit
<1>4. CASE UNCHANGED <<rows, work, recent>>
  BY <1>1, <1>2, <1>3, <1>4, NothingShows DEF rows, HandlerGood, Resting
<1>5. CASE /\ NextAttempt <= N /\ ~Conflict(NextAttempt)
           /\ att' = [att EXCEPT ![NextAttempt] = new]
           /\ work' = [work EXCEPT ![NextAttempt] = "waiting"]
  <2>1. PICK a \in Attempts :
          /\ a = NextAttempt /\ att[a].status = "none" /\ Exists \cup {a} = 1..a
    BY <1>5, NextIsFree DEF PageInv
  <2>2. req[r].d \in Drafts BY DEF PageInv, Types, HandlerOK, EnqueueCommit
  <2>3. PICK row \in Row : /\ row = new /\ row.status = "QUEUED"
                           /\ ~row.ids /\ row.ext = "OPEN" /\ ~row.due
    <3>1. PICK d \in Drafts \cup {NoDraft} : d = req[r].d BY <2>2
    <3>2. "QUEUED" \in AttemptStatuses BY DEF AttemptStatuses, ActiveStatuses
    <3>3. LET row == [NoRow EXCEPT !.draft = d, !.status = "QUEUED"]
          IN /\ row \in Row /\ row.draft = d /\ row.status = "QUEUED"
             /\ ~row.ids /\ row.ext = "OPEN" /\ ~row.due
      BY <3>2, NewRow
    <3>4. PICK row \in Row : /\ row = [NoRow EXCEPT !.draft = d, !.status = "QUEUED"]
                             /\ row.status = "QUEUED"
                             /\ ~row.ids /\ row.ext = "OPEN" /\ ~row.due
      BY <3>3
    <3>5. row = new BY <3>1, <3>4
    <3> HIDE DEF new
    <3> QED BY <3>4, <3>5
  <2>4. att' = [att EXCEPT ![a] = row] /\ work' = [work EXCEPT ![a] = "waiting"]
    BY <1>5, <2>1, <2>3
  <2> HIDE DEF new
  <2>5. /\ att \in [Attempts -> Row] /\ work \in [Attempts -> WorkStates]
        /\ AttemptGood(a)
    BY DEF PageInv, Types
  <2>6. att'[a] = row /\ work'[a] = "waiting" /\ OnlyAt(a)
    BY <1>3, <2>4, <2>5 DEF OnlyAt
  <2>7. Numbered'
    <3>1. Exists' = Exists \cup {a} BY <2>3, <2>6 DEF Exists, OnlyAt
    <3>2. a \in 0..N BY PublishAssumption DEF Attempts
    <3> QED BY <2>1, <3>1, <3>2 DEF Numbered
  <2>8. AttemptGood(a)'
    BY <1>3, <2>1, <2>3, <2>5, <2>6 DEF AttemptGood, Posted
  <2>9. ASSUME NEW b \in Attempts PROVE AttemptGood(b)'
    BY <1>3, <2>6, <2>8 DEF OnlyAt, PageInv, AttemptGood, Posted
  <2>10. ~att[a].ids BY <2>1, <2>5 DEF AttemptGood
  <2>11. \A b \in Attempts : /\ att[b].ids => att'[b].ids
                             /\ att[b].status # "none" => att'[b].status # "none"
    BY <2>1, <2>6, <2>10 DEF OnlyAt
  <2>12. ASSUME NEW h \in Handlers PROVE HandlerGood(req[h])'
    <3>1. CASE req'[h] = req[h]
      BY <2>11, <3>1 DEF PageInv, HandlerGood, Types, HandlerOK
    <3> QED BY <1>2, <3>1 DEF HandlerGood, Resting
  <2>13. PageInv' BY <1>1, <2>7, <2>9, <2>12 DEF PageInv
  <2>14. Stage(a) = "none" /\ Stage(a)' = "waiting"
    BY <1>3, <2>1, <2>3, <2>5, <2>6 DEF Stage, AttemptGood
  <2>15. OnceStep
    BY <1>3, <2>1, <2>3, <2>5, <2>6, <2>10, <2>14, Enqueued DEF Posted, AttemptGood
  <2> QED BY <2>13, <2>15
<1> QED BY <1>4, <1>5 DEF EnqueueCommit, Sync

\* A refresh takes an attempt in hand that has a reference, ...
LEMMA RefreshStep ==
  ASSUME PageInv, NEW r \in Handlers, NEW d, NEW a \in Attempts, StartRefresh(r, d, a)
  PROVE  PageInv' /\ OnceStep
<1>1. Types' BY StartRefreshTypes DEF PageInv
<1>2. UNCHANGED <<att, work, calls, post, old>> /\ att[a].ids BY DEF StartRefresh, rows
<1>3. \A upto, row : LET q == [Idle EXCEPT !.pc = "refresh", !.d = d, !.upto = upto,
                                           !.a = a, !.row = row]
                     IN q.pc = "refresh" /\ q.a = a
  BY DEF Idle
<1>4. PICK q : /\ q.pc = "refresh" /\ q.a = a /\ req' = [req EXCEPT ![r] = q]
  BY <1>3 DEF StartRefresh
<1>5. DOMAIN req = Handlers BY DEF PageInv, Types
<1>6. \A h \in Handlers : req'[h] = req[h] \/ HandlerGood(req[h])'
  BY <1>2, <1>4, <1>5 DEF HandlerGood
<1> QED BY <1>1, <1>2, <1>6, NothingShows

\* ... and asks, once the row is RECONCILING.
LEMMA AskStep ==
  ASSUME PageInv, NEW r \in Handlers, RefreshCommit(r)
  PROVE  PageInv' /\ OnceStep
<1>1. Types' /\ Types BY RefreshCommitTypes DEF PageInv
<1>2. PICK a \in Attempts :
        /\ a = req[r].a /\ req[r].pc = "refresh"
        /\ UNCHANGED <<pub, post, work, old, calls>>
        /\ \/ UNCHANGED att /\ req' = [req EXCEPT ![r] = Idle]
           \/ \E row \in Row :
                /\ row.draft = att[a].draft /\ row.ids = att[a].ids
                /\ row.ext = att[a].ext
                /\ row.status = IF req[r].row.status # "RECONCILING"
                                   THEN "RECONCILING" ELSE att[a].status
                /\ att' = [att EXCEPT ![a] = row]
                /\ req' = [req EXCEPT ![r] =
                     [Idle EXCEPT !.pc = "call", !.d = req[r].d, !.upto = req[r].upto,
                                  !.a = a, !.row = row]]
  BY <1>1, RefreshCommitRow
<1>3. CASE UNCHANGED att /\ req' = [req EXCEPT ![r] = Idle]
  BY <1>1, <1>2, <1>3, IdleStates, RestingGood, NothingShows
<1>4. ASSUME NEW row \in Row, row.ids = att[a].ids, row.ext = att[a].ext,
             row.status = "RECONCILING" \/ row.status = att[a].status,
             att' = [att EXCEPT ![a] = row],
             req' = [req EXCEPT ![r] =
               [Idle EXCEPT !.pc = "call", !.d = req[r].d, !.upto = req[r].upto,
                            !.a = a, !.row = row]]
      PROVE  PageInv' /\ OnceStep
  <2>1. /\ att \in [Attempts -> Row] /\ DOMAIN req = Handlers /\ AttemptGood(a)
        /\ att[a].ids
    BY <1>2 DEF PageInv, Types, HandlerGood
  <2>2. /\ att[a].status # "none" /\ calls[a] > 0 /\ work[a] \notin {"gated", "running", "sending"}
    BY <2>1 DEF AttemptGood, PageInv, Types
  <2>3. att'[a] = row /\ OnlyAt(a) BY <1>2, <1>4, <2>1 DEF OnlyAt
  <2>4. AttemptGood(a)'
    BY <1>2, <1>4, <2>1, <2>2, <2>3 DEF AttemptGood, Posted
  <2>5. LET q == [Idle EXCEPT !.pc = "call", !.d = req[r].d, !.upto = req[r].upto,
                              !.a = a, !.row = row]
        IN q.pc = "call" /\ q.a = a
    BY DEF Idle
  <2>6. PICK q : q.pc = "call" /\ q.a = a /\ req' = [req EXCEPT ![r] = q]
    BY <1>4, <2>5
  <2>7. \A h \in Handlers : req'[h] = req[h] \/ HandlerGood(req[h])'
    BY <1>4, <2>1, <2>3, <2>6 DEF HandlerGood
  <2>8. PageInv'
    <3>1. att'[a].status # "none" /\ att'[a].ids = att[a].ids BY <1>4, <2>2, <2>3
    <3>2. old' \subseteq old BY <1>2
    <3> QED BY <1>1, <2>2, <2>3, <2>4, <2>7, <3>1, <3>2, InvStep
  <2>9. Stage(a)' = Stage(a) BY <1>2, <1>4, <2>2, <2>3 DEF Stage
  <2>10. OnceStep BY <1>2, <1>4, <2>3, <2>9, Quiet DEF Posted
  <2> QED BY <2>8, <2>10
<1> QED BY <1>2, <1>3, <1>4

\* An answer to a refresh, however late, is laid over the row as it is now.
LEMMA HeardStep ==
  ASSUME PageInv, NEW r \in Handlers, RefreshAnswer(r) \/ RefreshError(r)
  PROVE  PageInv' /\ OnceStep
<1>1. Types' /\ Types BY HeardTypes DEF PageInv
<1>2. PICK new \in Row : \E effect :
        /\ Heard(r, new, effect)
        /\ req[r].pc = "call" /\ new.ids = req[r].row.ids
        /\ new.status \in {"RECONCILED", "NEEDS_RECONCILIATION"}
        /\ new.ext = req[r].row.ext \/ new.ext \in Says(post[req[r].a])
  BY HeardRow DEF PageInv
<1>3. PICK a \in Attempts, read \in Row : a = req[r].a /\ read = req[r].row
  BY <1>2 DEF PageInv, Types, HandlerOK
<1>4. /\ att[a] \in Row /\ AttemptGood(a) /\ att[a].ids
      /\ att \in [Attempts -> Row]
  BY <1>2, <1>3 DEF PageInv, Types, HandlerGood
<1>5. PICK row \in Row :
        /\ row = Merge(att[a], read, new)
        /\ row.status \in {"RECONCILED", "NEEDS_RECONCILIATION", att[a].status}
        /\ row.ids
        /\ row.ext = att[a].ext \/ row.ext \in Says(post[a])
  <2>1. PICK was \in Row : was = att[a] BY <1>4
  <2>2. PICK row \in Row :
           /\ row = Merge(att[a], read, new)
           /\ row.status = IF new.status # read.status THEN new.status ELSE att[a].status
           /\ row.ids = IF new.ids # read.ids THEN new.ids ELSE att[a].ids
           /\ row.ext = IF new.ext # read.ext THEN new.ext ELSE att[a].ext
    BY <2>1, MergeRow
  <2>3. row.status \in {"RECONCILED", "NEEDS_RECONCILIATION", att[a].status} /\ row.ids
    BY <1>2, <1>3, <1>4, <2>2
  <2>4. row.ext = att[a].ext \/ row.ext \in Says(post[a]) BY <1>2, <1>3, <2>2
  <2> QED BY <2>2, <2>3, <2>4
<1>6. /\ att' = [att EXCEPT ![a] = row] /\ UNCHANGED <<post, work, old, calls>>
      /\ \E q : Resting(q) /\ req' = [req EXCEPT ![r] = q]
  BY <1>2, <1>3, <1>5, IdleStates DEF Heard, Sync
<1>7. att'[a] = row /\ OnlyAt(a) BY <1>4, <1>6 DEF OnlyAt
<1>8. /\ att[a].status # "none" /\ work[a] \notin {"gated", "running", "sending"}
      /\ calls[a] > 0 /\ (att[a].ext = "PUBLISHED" => a \in Posted)
  BY <1>4 DEF AttemptGood, PageInv, Types
<1>9. row.ext = "PUBLISHED" => a \in Posted
  <2>1. "PUBLISHED" \in Says(post[a]) => post[a] = "live"
    <3>1. post[a] \in Posts BY DEF PageInv, Types
    <3> QED BY <3>1 DEF Says, Posts
  <2> QED BY <1>5, <1>8, <2>1 DEF Posted
<1>10. row.status # "none" /\ (row.status = "QUEUED" => att[a].status = "QUEUED")
  BY <1>5, <1>8
<1>11. AttemptGood(a)'
  BY <1>4, <1>5, <1>6, <1>7, <1>8, <1>9, <1>10 DEF AttemptGood, Posted
<1>12. \A h \in Handlers : req'[h] = req[h] \/ HandlerGood(req[h])'
  BY <1>1, <1>6, RestingGood
<1>13. PageInv' BY <1>1, <1>5, <1>6, <1>7, <1>8, <1>10, <1>11, <1>12, InvStep
<1>14. Stage(a) = "over" /\ Stage(a)' = "over"
  BY <1>6, <1>7, <1>8, <1>10 DEF Stage
<1>15. OnceStep BY <1>6, <1>7, <1>9, <1>14, Learned DEF Posted
<1> QED BY <1>13, <1>15

\* An attempt is found stale, ...
LEMMA FindStep ==
  ASSUME PageInv, NEW r \in Handlers, NEW d \in Drafts, FindStale(r, d)
  PROVE  PageInv' /\ OnceStep
<1>1. Types' BY FindTypes DEF PageInv
<1>2. PICK a \in Attempts :
        /\ MayBeStale(a)
        /\ req' = [req EXCEPT ![r] =
             [Idle EXCEPT !.pc = "mark", !.d = d, !.upto = a, !.a = a, !.row = att[a]]]
        /\ UNCHANGED <<att, work, calls, post, old>>
  BY LeftNewest DEF FindStale, rows
<1>3. att[a].status # "none" BY <1>2 DEF MayBeStale, PageInv, AttemptGood
<1>4. LET q == [Idle EXCEPT !.pc = "mark", !.d = d, !.upto = a, !.a = a, !.row = att[a]]
      IN q.pc = "mark" /\ q.a = a /\ q.row = att[a]
  BY DEF Idle
<1>5. PICK q : /\ q.pc = "mark" /\ q.a = a /\ q.row = att[a]
               /\ req' = [req EXCEPT ![r] = q]
  BY <1>2, <1>4
<1>6. DOMAIN req = Handlers BY DEF PageInv, Types
<1>7. \A h \in Handlers : req'[h] = req[h] \/ HandlerGood(req[h])'
  BY <1>2, <1>3, <1>5, <1>6 DEF HandlerGood
<1> QED BY <1>1, <1>2, <1>7, NothingShows

\* ... and given up, whatever has become of it since.
LEMMA StaleStep ==
  ASSUME PageInv, NEW r \in Handlers, MarkStale(r)
  PROVE  PageInv' /\ OnceStep
<1>1. Types' /\ Types BY MarkTypes DEF PageInv
<1>2. PICK a \in Attempts : a = req[r].a /\ req[r].pc = "mark" BY <1>1, MarkRow
<1>3. PICK row \in Row :
        /\ row.ids = att[a].ids /\ row.ext = att[a].ext
        /\ row.due => att[a].due \/ req[r].row.ids
        /\ row.status \in {"FAILED", "NEEDS_RECONCILIATION", att[a].status}
        /\ att' = [att EXCEPT ![a] = row]
  BY <1>1, <1>2, MarkRow
<1>4. /\ UNCHANGED <<pub, post, work, calls>> /\ old' = old \ {a}
      /\ \E q : Resting(q) /\ req' = [req EXCEPT ![r] = q]
  BY <1>1, <1>2, MarkRow, IdleStates
<1>5. /\ att[a] \in Row /\ AttemptGood(a) /\ att \in [Attempts -> Row]
      /\ att[a].status # "none" /\ (req[r].row.ids => att[a].ids)
  BY <1>2 DEF PageInv, Types, HandlerGood
<1>6. att'[a] = row /\ OnlyAt(a) BY <1>3, <1>4, <1>5 DEF OnlyAt
<1>7. AttemptGood(a)' BY <1>3, <1>4, <1>5, <1>6 DEF AttemptGood, Posted
<1>8. \A h \in Handlers : req'[h] = req[h] \/ HandlerGood(req[h])'
  BY <1>1, <1>4, RestingGood
<1>9. PageInv' BY <1>1, <1>3, <1>4, <1>5, <1>6, <1>7, <1>8, InvStep
<1>10. Stage(a)' = Stage(a) \/ (Stage(a) = "calling" /\ Stage(a)' = "lost")
  BY <1>3, <1>4, <1>5, <1>6 DEF Stage, ActiveStatuses
<1>11. OnceStep BY <1>3, <1>4, <1>6, <1>10, Quiet, Lost DEF Posted
<1> QED BY <1>9, <1>11

\* Drafts, the Page and time.
LEMMA OtherStep ==
  ASSUME PageInv,
         \/ \E d \in Drafts : MarkReady(d) \/ Retract(d)
         \/ PageOpens \/ IntervalPasses \/ StalePasses
         \/ UNCHANGED vars
  PROVE  PageInv' /\ OnceStep
<1>1. Types' BY OtherTypes DEF PageInv
<1>2. UNCHANGED <<att, work, calls, post, req>>
  BY DEF MarkReady, Retract, SetDraft, PageOpens, IntervalPasses, StalePasses, rows, vars
<1>3. ASSUME NEW a \in Attempts, a \in old'
      PROVE  a \in old \/ att[a].status # "none"
  BY <1>3 DEF MarkReady, Retract, SetDraft, PageOpens, IntervalPasses, StalePasses, rows, vars
<1> QED BY <1>1, <1>2, <1>3, NothingShows

LEMMA PageStep ==
  ASSUME PageInv, [Next]_vars
  PROVE  PageInv' /\ OnceStep
<1>1. ASSUME NEW a \in Attempts, Worker(a) \/ Receives(a) \/ Processes(a) \/ CancelJob(a)
      PROVE  PageInv' /\ OnceStep
  BY <1>1, BeforeCall, TheCall, ThePlatform, CallEnds DEF Worker
<1>2. ASSUME NEW r \in Requests, Request(r) PROVE PageInv' /\ OnceStep
  BY <1>2, RequestSteps, CommitStep DEF Request, Handlers
<1>3. ASSUME NEW r \in Refreshers, Refresher(r) PROVE PageInv' /\ OnceStep
  <2>1. r \in Handlers BY DEF Handlers
  <2>2. ASSUME NEW a \in Attempts, RouteRefresh(r, a) PROVE PageInv' /\ OnceStep
    BY <2>1, <2>2, RefreshStep DEF RouteRefresh
  <2>3. ASSUME NEW d \in Drafts, ReconcileRefresh(r, d) PROVE PageInv' /\ OnceStep
    <3>1. Newest(Left(r, d)) \in Attempts BY <2>3, LeftNewest DEF ReconcileRefresh
    <3> QED BY <2>1, <2>3, <3>1, RefreshStep DEF ReconcileRefresh
  <2>4. ASSUME NEW d \in Drafts, FindStale(r, d) \/ ReconcileEnd(r, d)
        PROVE  PageInv' /\ OnceStep
    BY <2>1, <2>4, FindStep, RequestSteps
  <2> QED BY <1>3, <2>1, <2>2, <2>3, <2>4, StaleStep, RequestSteps, AskStep, HeardStep
          DEF Refresher
<1>4. ASSUME NEW r \in Handlers, HandlerDies(r) PROVE PageInv' /\ OnceStep
  BY <1>4, RequestSteps
<1> QED BY <1>1, <1>2, <1>3, <1>4, OtherStep DEF Next, Operator

\* Workers that crash and are retried, late answers, stale marks that land on
\* an upload and concurrent requests only make the steps of PublishOnce.
THEOREM PublishesOnce == Spec => ImplementsPublishOnce
<1>1. Init => PageInv BY InitInv
<1>2. PageInv /\ [Next]_vars => PageInv' /\ [Once!Next]_(Once!vars)
  BY PageStep DEF OnceStep
<1>3. Init => Once!Init
  BY DEF Init, Once!Init, Stage, Posted, NoRow
<1> QED BY <1>1, <1>2, <1>3, PTL DEF Spec, ImplementsPublishOnce, Once!Spec
=============================================================================
