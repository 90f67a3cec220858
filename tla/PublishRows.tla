---------------------------- MODULE PublishRows ----------------------------
(***************************************************************************)
(* The rows of a Page for every value of the constants: what is stored is  *)
(* well formed, a publication is backed by a post the platform knows, and  *)
(* no draft is posted more often than the operator approved it.            *)
(***************************************************************************)
EXTENDS PublishProofs, SequenceTheorems

-----------------------------------------------------------------------------
(***************************************************************************)
(* The order of finished_at.                                               *)
(***************************************************************************)
\* What is left when one element of a sequence of distinct ones is taken out.
LEMMA RemovedAt ==
  ASSUME NEW S, NEW s \in Seq(S), IsInjective(s), NEW i \in DOMAIN s
  PROVE  LET t == RemoveAt(s, i)
         IN /\ t \in Seq(S) /\ IsInjective(t)
            /\ Range(t) = Range(s) \ {s[i]}
<1> DEFINE t == RemoveAt(s, i)
<1>1. /\ Len(s) \in Nat /\ i \in 1..Len(s) /\ DOMAIN s = 1..Len(s)
      /\ \A j \in 1..Len(s) : s[j] \in S
  OBVIOUS
<1>2. /\ t \in Seq(S) /\ Len(t) = Len(s) - 1
      /\ \A j \in 1..Len(t) : t[j] = IF j < i THEN s[j] ELSE s[j + 1]
  <2> DEFINE u == SubSeq(s, 1, i - 1)
             v == SubSeq(s, i + 1, Len(s))
  <2>1. /\ u \in Seq(S) /\ Len(u) = i - 1
        /\ \A j \in 1..Len(u) : u[j] = s[j]
    BY <1>1, SubSeqProperties, SMTT(40)
  <2>2. /\ v \in Seq(S) /\ Len(v) = Len(s) - i
        /\ \A j \in 1..Len(v) : v[j] = s[j + i]
    BY <1>1, SubSeqProperties, SMTT(40)
  <2>3. t = u \o v BY DEF RemoveAt
  <2> HIDE DEF t, u, v
  <2>4. /\ t \in Seq(S) /\ Len(t) = Len(u) + Len(v)
        /\ \A j \in 1..Len(t) : t[j] = IF j <= Len(u) THEN u[j] ELSE v[j - Len(u)]
    <3>1. /\ u \o v \in Seq(S) /\ Len(u \o v) = Len(u) + Len(v)
          /\ \A j \in 1..Len(u) + Len(v) :
               (u \o v)[j] = IF j <= Len(u) THEN u[j] ELSE v[j - Len(u)]
      BY <2>1, <2>2, ConcatProperties
    <3> QED BY <2>3, <3>1
  <2>5. ASSUME NEW j \in 1..Len(t)
        PROVE  t[j] = IF j < i THEN s[j] ELSE s[j + 1]
    <3>1. CASE j < i
      <4>1. j \in 1..Len(u) /\ t[j] = u[j] BY <1>1, <2>1, <2>4, <3>1
      <4> QED BY <2>1, <3>1, <4>1
    <3>2. CASE ~(j < i)
      <4>1. Len(u) = i - 1 /\ Len(v) = Len(s) - i /\ Len(t) = Len(u) + Len(v)
        BY <2>1, <2>2, <2>4
      <4>2. j \in Nat /\ i \in Nat /\ i <= j /\ j <= Len(t) /\ ~(j <= Len(u))
        BY <1>1, <2>5, <3>2, <4>1
      <4>3. j - Len(u) \in 1..Len(v) /\ (j - Len(u)) + i = j + 1 BY <1>1, <4>1, <4>2
      <4>4. t[j] = v[j - Len(u)] BY <2>4, <2>5, <4>2
      <4> QED BY <2>2, <3>2, <4>3, <4>4
    <3> QED BY <3>1, <3>2
  <2> QED BY <1>1, <2>1, <2>2, <2>4, <2>5
<1> HIDE DEF t
<1>3. DOMAIN t = 1..Len(t) BY <1>2
<1>4. IsInjective(t) BY <1>1, <1>2, <1>3 DEF IsInjective
<1>5. ASSUME NEW x \in Range(t) PROVE x \in Range(s) \ {s[i]}
  <2>1. PICK j \in 1..Len(t) : t[j] = x BY <1>3 DEF Range
  <2>2. PICK k \in 1..Len(s) \ {i} : s[k] = x
    <3>1. CASE j < i
      <4>1. j \in 1..Len(s) \ {i} /\ s[j] = x BY <1>1, <1>2, <2>1, <3>1
      <4> QED BY <4>1
    <3>2. CASE ~(j < i)
      <4>1. j + 1 \in 1..Len(s) \ {i} /\ s[j + 1] = x BY <1>1, <1>2, <2>1, <3>2
      <4> QED BY <4>1
    <3> QED BY <3>1, <3>2
  <2> QED BY <1>1, <2>2 DEF IsInjective, Range
<1>6. ASSUME NEW x \in Range(s) \ {s[i]} PROVE x \in Range(t)
  <2>1. PICK j \in 1..Len(s) : s[j] = x BY <1>1 DEF Range
  <2>2. j # i BY <1>6, <2>1
  <2>3. CASE j < i BY <1>1, <1>2, <1>3, <2>1, <2>3 DEF Range
  <2>4. CASE j > i
    <3>1. j - 1 \in 1..Len(t) /\ t[j - 1] = x BY <1>1, <1>2, <2>1, <2>4
    <3> QED BY <1>3, <3>1 DEF Range
  <2> QED BY <1>1, <2>2, <2>3, <2>4
<1> QED BY <1>2, <1>4, <1>5, <1>6 DEF t

\* finished_at is written once more: the attempt moves to the end.
LEMMA FinishedLast ==
  ASSUME finished \in Seq(Attempts), IsInjective(finished), NEW a \in Attempts
  PROVE  /\ FinishLast(a) \in Seq(Attempts) /\ IsInjective(FinishLast(a))
         /\ Range(FinishLast(a)) = Range(finished) \cup {a}
<1> DEFINE i == CHOOSE i \in DOMAIN finished : finished[i] = a
           kept == IF a \in Range(finished) THEN RemoveAt(finished, i) ELSE finished
<1>1. /\ kept \in Seq(Attempts) /\ IsInjective(kept)
      /\ Range(kept) = Range(finished) \ {a}
  <2>1. CASE a \in Range(finished)
    <3>1. i \in DOMAIN finished /\ finished[i] = a BY <2>1 DEF Range
    <3> HIDE DEF i
    <3> QED BY <2>1, <3>1, RemovedAt
  <2>2. CASE a \notin Range(finished) BY <2>2
  <2> QED BY <2>1, <2>2
<1>2. FinishLast(a) = Append(kept, a) BY DEF FinishLast
<1> HIDE DEF kept
<1>3. /\ Append(kept, a) \in Seq(Attempts) /\ Len(kept) \in Nat
      /\ DOMAIN Append(kept, a) = 1..Len(kept) + 1
      /\ DOMAIN kept = 1..Len(kept)
      /\ Append(kept, a)[Len(kept) + 1] = a
      /\ \A j \in 1..Len(kept) : Append(kept, a)[j] = kept[j]
  BY <1>1
<1>4. Range(Append(kept, a)) = Range(kept) \cup {a} BY <1>3 DEF Range
<1>5. IsInjective(Append(kept, a))
  <2> DEFINE new == Append(kept, a)
  <2>1. \A j \in 1..Len(kept) : new[j] # a BY <1>1, <1>3 DEF Range
  <2>2. \A j, k \in 1..Len(kept) : new[j] = new[k] => j = k
    BY <1>1, <1>3 DEF IsInjective
  <2>3. /\ \A j \in DOMAIN new : j \in 1..Len(kept) \/ j = Len(kept) + 1
        /\ new[Len(kept) + 1] = a
    BY <1>3
  <2> HIDE DEF new
  <2>4. IsInjective(new) BY <2>1, <2>2, <2>3 DEF IsInjective
  <2> QED BY <2>4 DEF new
<1> QED BY <1>1, <1>2, <1>3, <1>4, <1>5

-----------------------------------------------------------------------------
(***************************************************************************)
(* Drafts.                                                                 *)
(***************************************************************************)
DraftRow == [status : DraftStatuses, canon : Attempts \cup {NoAttempt}]

LEMMA DraftMerge ==
  ASSUME NEW row \in DraftRow, NEW read \in DraftRow, NEW new \in DraftRow
  PROVE  /\ Merge(row, read, new) \in DraftRow
         /\ Merge(row, read, new).status
              = IF new.status # read.status THEN new.status ELSE row.status
         /\ Merge(row, read, new).canon
              = IF new.canon # read.canon THEN new.canon ELSE row.canon
<1> DEFINE s == IF new.status # read.status THEN new.status ELSE row.status
           c == IF new.canon # read.canon THEN new.canon ELSE row.canon
<1>1. s \in DraftStatuses /\ c \in Attempts \cup {NoAttempt} BY DEF DraftRow
<1>2. DOMAIN row = {"status", "canon"} BY DEF DraftRow
<1>3. Merge(row, read, new) = [status |-> s, canon |-> c] BY <1>2 DEF Merge, DraftRow
<1> HIDE DEF s, c
<1>4. [status |-> s, canon |-> c] \in DraftRow BY <1>1 DEF DraftRow
<1>5. /\ Merge(row, read, new) \in DraftRow
      /\ Merge(row, read, new).status = s /\ Merge(row, read, new).canon = c
  BY <1>3, <1>4
<1> QED BY <1>5 DEF s, c

\* The canonical attempt is one that is held to be published.
LEMMA CanonicalIsPublished ==
  ASSUME NEW A, NEW F, NEW d, Canonical(A, F, d) # NoAttempt
  PROVE  Canonical(A, F, d) \in Of(A, d) /\ A[Canonical(A, F, d)].ext = "PUBLISHED"
BY DEF Canonical

\* There is one as soon as some attempt is published and those that are have
\* finished.
LEMMA SomeCanonical ==
  ASSUME NEW A, NEW F \in Seq(Attempts), NEW d, NEW a \in Of(A, d), A[a].ext = "PUBLISHED",
         \A b \in Of(A, d) : A[b].ext = "PUBLISHED" => b \in Range(F)
  PROVE  Canonical(A, F, d) # NoAttempt
<1> DEFINE S == {b \in Of(A, d) : A[b].ext = "PUBLISHED"}
           T == {Len(F) - j : j \in {j \in DOMAIN F : F[j] \in S}}
           last == {b \in S : \A c \in S \ {b} :
                      \E i, j \in DOMAIN F : F[i] = c /\ F[j] = b /\ i < j}
<1>1. DOMAIN F = 1..Len(F) /\ Len(F) \in Nat OBVIOUS
<1>2. S \subseteq Range(F) /\ a \in S /\ S \subseteq Attempts BY DEF Of
<1>3. T \subseteq Nat /\ T # {} BY <1>1, <1>2 DEF Range
<1>4. PICK x \in T : \A y \in T : ~(<<y, x>> \in {p \in Nat \X Nat : p[1] < p[2]})
  BY <1>3, Below, WFMin
<1>5. PICK j \in DOMAIN F : F[j] \in S /\ x = Len(F) - j BY <1>4
<1>6. F[j] \in last
  <2> SUFFICES ASSUME NEW c \in S \ {F[j]}
               PROVE  \E i, k \in DOMAIN F : F[i] = c /\ F[k] = F[j] /\ i < k
    BY <1>5
  <2>1. PICK i \in DOMAIN F : F[i] = c BY <1>2 DEF Range
  <2>2. Len(F) - i \in T BY <2>1
  <2>3. ~(Len(F) - i < x) BY <1>3, <1>4, <2>2
  <2>4. i <= j /\ i # j BY <1>1, <1>5, <2>1, <2>3
  <2> QED BY <1>1, <2>1, <2>4
<1> HIDE DEF last
<1>7. (CHOOSE b \in last : TRUE) \in last BY <1>6
<1>8. last \subseteq Attempts /\ NoAttempt \notin Attempts
  BY <1>2 DEF last, NoAttempt, Attempts
<1>9. Canonical(A, F, d) = IF last = {} THEN NoAttempt ELSE CHOOSE b \in last : TRUE
  BY DEF Canonical, last
<1> QED BY <1>6, <1>7, <1>8, <1>9

LEMMA SyncedDraft ==
  ASSUME NEW read \in DraftRow, NEW A, NEW F, NEW d
  PROVE  SyncDraft(read, A, F, d) \in DraftRow
<1>1. Canonical(A, F, d) \in Attempts \cup {NoAttempt}
  BY CanonicalIsPublished DEF Of
<1>2. \A row : LatestShows(row) \in DraftStatuses BY DEF LatestShows, DraftStatuses
<1>3. "PUBLISHED" \in DraftStatuses /\ read.status \in DraftStatuses
  BY DEF DraftRow, DraftStatuses
<1> QED BY <1>1, <1>2, <1>3 DEF SyncDraft, DraftRow

\* What the rest of a transaction leaves in the drafts,
LEMMA SyncedRow ==
  ASSUME draft \in [Drafts -> DraftRow], NEW A, NEW F,
         NEW d \in Drafts, NEW read \in DraftRow, Sync(d, read, A, F)
  PROVE  /\ draft' \in [Drafts -> DraftRow]
         /\ \A e \in Drafts \ {d} : draft'[e] = draft[e]
         /\ draft'[d] = Merge(draft[d], read, SyncDraft(read, A, F, d))
<1>1. draft' = [draft EXCEPT ![d] = Merge(draft[d], read, SyncDraft(read, A, F, d))]
  BY DEF Sync
<1>2. SyncDraft(read, A, F, d) \in DraftRow BY SyncedDraft
<1>3. Merge(draft[d], read, SyncDraft(read, A, F, d)) \in DraftRow BY <1>2, DraftMerge
<1> QED BY <1>1, <1>3

LEMMA SyncedStatus ==
  ASSUME draft \in [Drafts -> DraftRow], NEW A, NEW F,
         NEW d \in Drafts, NEW read \in DraftRow, Sync(d, read, A, F)
  PROVE  \/ draft'[d].status = SyncDraft(read, A, F, d).status
         \/ /\ SyncDraft(read, A, F, d).status = read.status
            /\ draft'[d].status = draft[d].status
<1> DEFINE new == SyncDraft(read, A, F, d)
<1>1. new \in DraftRow BY SyncedDraft
<1>2. draft'[d] = Merge(draft[d], read, new) BY SyncedRow
<1> HIDE DEF new
<1>3. \/ draft'[d].status = new.status
      \/ new.status = read.status /\ draft'[d].status = draft[d].status
  BY <1>1, <1>2, DraftMerge
<1> QED BY <1>3 DEF new

LEMMA SyncedCanon ==
  ASSUME draft \in [Drafts -> DraftRow], NEW A, NEW F,
         NEW d \in Drafts, NEW read \in DraftRow, Sync(d, read, A, F)
  PROVE  draft'[d].canon = draft[d].canon \/ draft'[d].canon = Canonical(A, F, d)
<1> DEFINE new == SyncDraft(read, A, F, d)
<1>1. new \in DraftRow /\ new.canon = Canonical(A, F, d)
  BY SyncedDraft DEF SyncDraft
<1>2. draft'[d] = Merge(draft[d], read, new) BY SyncedRow
<1> HIDE DEF new
<1> QED BY <1>1, <1>2, DraftMerge

\* and in the publications.
LEMMA SyncedPubs ==
  ASSUME NEW A \in [Attempts -> Row], NEW F, NEW d, NEW read, Sync(d, read, A, F),
         NEW a \in Attempts
  PROVE  /\ pub[a] # NoPub => pub'[a] # NoPub
         /\ pub'[a] # NoPub => pub[a] # NoPub \/ (A[a].ids /\ A[a].ext = "PUBLISHED")
         /\ A[a].draft = d /\ A[a].ids /\ A[a].ext = "PUBLISHED" => pub'[a] # NoPub
<1>1. PICK c : pub' = SyncPubs(A, d, c) BY DEF Sync
<1>2. A[a].ext # "none" BY DEF Row, Evidence
<1>3. [ext |-> A[a].ext, canon |-> a = c] # NoPub BY <1>2 DEF NoPub
<1> QED BY <1>1, <1>3 DEF SyncPubs

-----------------------------------------------------------------------------
(***************************************************************************)
(* The invariant of the rows: what is stored for an attempt is never taken *)
(* back, and the published ones are backed.                                *)
(***************************************************************************)
RowGood(a) ==
  /\ att[a].status = "none" => att[a].draft = NoDraft /\ post[a] = "none"
  /\ att[a].status # "none" => att[a].draft \in Drafts
  /\ att[a].status = "SUCCEEDED" => att[a].ext = "PUBLISHED"
  /\ att[a].ids => a \in Range(finished)
  /\ pub[a] # NoPub => att[a].ids /\ a \in Posted
  /\ work[a] = "gated" => seen[a] \in DraftRow

\* What a handler has read: past the gate, a READY draft; for a refresh, an
\* attempt that its worker has done with.
ReadGood(q) ==
  /\ q.pc = "gated" => q.read \in DraftRow /\ q.read.status = "READY"
  /\ q.pc = "refresh" /\ q.row.status = "RECONCILING" => att[q.a].status # "SUCCEEDED"
  /\ q.pc = "call" => q.row.draft \in Drafts /\ att[q.a].status # "SUCCEEDED"

RowsInv ==
  /\ PageInv
  /\ draft \in [Drafts -> DraftRow]
  /\ finished \in Seq(Attempts) /\ IsInjective(finished)
  /\ page \in [held : BOOLEAN, cool : BOOLEAN]
  /\ recent \subseteq Exists /\ old \subseteq Exists /\ DOMAIN seen = Attempts
  /\ \A a \in Attempts : RowGood(a)
  /\ \A d \in Drafts : draft[d].canon # NoAttempt => pub[draft[d].canon] # NoPub
  /\ \A r \in Handlers : ReadGood(req[r])

LEMMA RowFacts ==
  ASSUME RowsInv
  PROVE  /\ Types /\ Numbered
         /\ att \in [Attempts -> Row] /\ pub \in [Attempts -> PubRow]
         /\ post \in [Attempts -> Posts] /\ work \in [Attempts -> WorkStates]
         /\ DOMAIN req = Handlers
         /\ \A a \in Attempts : RowGood(a) /\ AttemptGood(a)
         /\ \A a \in Attempts : att[a].ext = "PUBLISHED" => att[a].ids /\ a \in Posted
         /\ \A r \in Handlers : HandlerOK(req[r]) /\ HandlerGood(req[r]) /\ ReadGood(req[r])
<1>1. PageInv /\ Types BY DEF RowsInv, PageInv
<1>2. \A a \in Attempts : AttemptGood(a) /\ RowGood(a) BY <1>1 DEF PageInv, RowsInv
<1>3. ASSUME NEW a \in Attempts, att[a].ext = "PUBLISHED" PROVE att[a].ids /\ a \in Posted
  BY <1>2, <1>3 DEF AttemptGood
<1> QED BY <1>1, <1>2, <1>3 DEF Types, PageInv, RowsInv

(***************************************************************************)
(* What one step may do to the rows.                                       *)
(***************************************************************************)
\* The attempt a, which is there, is written once more.
Rewrites(a) ==
  /\ \A b \in Attempts \ {a} : att'[b] = att[b]
  /\ att[a].status # "none" /\ att'[a].status # "none"
  /\ att'[a].draft = att[a].draft
  /\ att[a].ids => att'[a].ids
  /\ att'[a].status = "SUCCEEDED" =>
       att'[a].ext = "PUBLISHED" /\ (att[a].status = "SUCCEEDED" \/ ~att[a].ids)
  /\ att'[a].ext = "PUBLISHED" => att'[a].ids /\ a \in Posted
  /\ \/ finished' = FinishLast(a)
     \/ finished' = finished /\ (att'[a].ids => att[a].ids)

\* The attempt a is new: a request that has passed the gate commits it while
\* no other is active, and syncs the draft from what it read at the gate.
Creates(a) ==
  /\ \A b \in Attempts \ {a} : att'[b] = att[b]
  /\ Exists \cup {a} = 1..a /\ att[a].status = "none" /\ ~Conflict(a)
  /\ att'[a].status = "QUEUED" /\ att'[a].draft \in Drafts
  /\ ~att'[a].ids /\ att'[a].ext = "OPEN"
  /\ finished' = finished
  /\ \E r \in Requests : req[r].pc = "gated" /\ req[r].d = att'[a].draft
  /\ \E read \in DraftRow : /\ read.status = "READY"
                            /\ Sync(att'[a].draft, read, att', finished')
  /\ UNCHANGED <<approvals, old>>
  /\ \A h \in Handlers : req'[h] = req[h] \/ req'[h] = Idle

AttStep == \/ UNCHANGED <<att, finished>>
           \/ \E a \in Attempts : Rewrites(a) \/ Creates(a)
DraftStep ==
  \/ UNCHANGED <<draft, pub, approvals>>
  \/ \E d \in Drafts, status \in DraftStatuses :
       /\ draft' = [draft EXCEPT ![d].status = status]
       /\ UNCHANGED pub
       /\ \/ status # "READY" /\ UNCHANGED approvals
          \/ approvals' = [approvals EXCEPT ![d] = @ + 1]
  \/ \E d \in Drafts, read \in DraftRow :
       /\ Sync(d, read, att', finished')
       /\ read = draft[d] \/ Of(att', d) # {}
       /\ UNCHANGED approvals
  \/ \E a \in Attempts : Creates(a)
JobStep ==
  /\ \A a \in Attempts : work'[a] # "none" => work[a] # "none" \/ a \in Exists'
  /\ \A a \in Attempts : post'[a] # post[a] => a \in Exists
  /\ Posted \subseteq Posted' /\ DOMAIN seen' = DOMAIN seen
  /\ \A a \in Attempts :
       work'[a] = "gated" => (work[a] = "gated" /\ seen'[a] = seen[a]) \/ seen'[a] \in DraftRow
MarkStep ==
  /\ page' \in [held : BOOLEAN, cool : BOOLEAN]
  /\ recent' \subseteq recent \cup Exists' /\ old' \subseteq old \cup Exists'
HandlerStep ==
  \A r \in Handlers :
    \/ req'[r] = req[r]
    \/ /\ req'[r].pc = "gated" => draft[req'[r].d].status = "READY"
       /\ ReadGood(req[r])'

LEMMA RowsStep ==
  ASSUME RowsInv, PageInv', AttStep, DraftStep, JobStep, MarkStep, HandlerStep
  PROVE  RowsInv'
<1>1. /\ Exists \subseteq Exists'
      /\ \A a \in Attempts : att[a].ids => att'[a].ids
      /\ \A a \in Attempts : att[a].status # "none" => att'[a].draft = att[a].draft
      /\ \A a \in Attempts : att[a].ids /\ att[a].status # "SUCCEEDED" =>
                               att'[a].status # "SUCCEEDED"
  <2>1. CASE UNCHANGED <<att, finished>> BY <2>1 DEF Exists
  <2>2. ASSUME NEW a \in Attempts, Rewrites(a)
        PROVE  /\ Exists' = Exists /\ \A b \in Attempts : att[b].ids => att'[b].ids
               /\ \A b \in Attempts : att[b].ids /\ att[b].status # "SUCCEEDED" =>
                                        att'[b].status # "SUCCEEDED"
    BY <2>2 DEF Rewrites, Exists
  <2>3. ASSUME NEW a \in Attempts, Creates(a)
        PROVE  /\ Exists \subseteq Exists' /\ ~att[a].ids
               /\ \A b \in Attempts : att[b].ids => att'[b].ids
    BY <2>3, RowFacts DEF Creates, Exists, AttemptGood, Types
  <2> QED BY <2>1, <2>2, <2>3 DEF AttStep, Rewrites, Creates
<1>2. /\ finished' \in Seq(Attempts) /\ IsInjective(finished')
      /\ Range(finished) \subseteq Range(finished')
      /\ \A a \in Attempts : att'[a].ids => att[a].ids \/ a \in Range(finished')
  BY FinishedLast DEF AttStep, Rewrites, Creates, RowsInv
<1>3. ASSUME NEW a \in Attempts
      PROVE  att'[a].ext = "PUBLISHED" => att'[a].ids /\ a \in Posted'
  BY DEF PageInv, AttemptGood
<1> DEFINE Backs == \A d \in Drafts :
                      draft'[d].canon # NoAttempt => pub'[draft'[d].canon] # NoPub
           Shows == \A a \in Attempts : pub'[a] # NoPub =>
                      pub[a] # NoPub \/ (att'[a].ids /\ att'[a].ext = "PUBLISHED")
<1>4. draft' \in [Drafts -> DraftRow] /\ Backs /\ Shows
  <2>1. draft \in [Drafts -> DraftRow] BY DEF RowsInv
  <2>2. CASE UNCHANGED <<draft, pub>> BY <2>2 DEF RowsInv
  <2>3. ASSUME NEW d \in Drafts, NEW status \in DraftStatuses,
               draft' = [draft EXCEPT ![d].status = status], UNCHANGED pub
        PROVE  draft' \in [Drafts -> DraftRow] /\ Backs /\ Shows
    <3>1. /\ draft' \in [Drafts -> DraftRow]
          /\ \A e \in Drafts : draft'[e].canon = draft[e].canon
      BY <2>1, <2>3 DEF DraftRow
    <3> QED BY <2>3, <3>1 DEF RowsInv
  <2>4. ASSUME NEW d \in Drafts, NEW read \in DraftRow, Sync(d, read, att', finished')
        PROVE  draft' \in [Drafts -> DraftRow] /\ Backs /\ Shows
    <3>1. att' \in [Attempts -> Row] BY DEF PageInv, Types
    <3>2. /\ draft' \in [Drafts -> DraftRow]
          /\ \A e \in Drafts \ {d} : draft'[e] = draft[e]
          /\ draft'[d].canon = draft[d].canon \/ draft'[d].canon = Canonical(att', finished', d)
      BY <2>1, <2>4, SyncedRow, SyncedCanon
    <3>5. \A a \in Attempts :
            /\ pub[a] # NoPub => pub'[a] # NoPub
            /\ pub'[a] # NoPub => pub[a] # NoPub \/ (att'[a].ids /\ att'[a].ext = "PUBLISHED")
            /\ att'[a].draft = d /\ att'[a].ids /\ att'[a].ext = "PUBLISHED" =>
                 pub'[a] # NoPub
      BY <2>4, <3>1, SyncedPubs
    <3>3. ASSUME Canonical(att', finished', d) # NoAttempt
          PROVE  pub'[Canonical(att', finished', d)] # NoPub
      BY <1>3, <3>3, <3>5, CanonicalIsPublished DEF Of
    <3>4. \A e \in Drafts : draft[e].canon # NoAttempt =>
            draft[e].canon \in Attempts /\ pub[draft[e].canon] # NoPub
      BY <2>1 DEF DraftRow, RowsInv
    <3> QED BY <3>2, <3>3, <3>4, <3>5
  <2>5. CASE \E d \in Drafts, read \in DraftRow : Sync(d, read, att', finished')
    BY <2>4, <2>5
  <2>6. CASE \E a \in Attempts : Creates(a)
    BY <2>4, <2>6 DEF Creates
  <2> QED BY <2>2, <2>3, <2>5, <2>6 DEF DraftStep
<1>5. ASSUME NEW a \in Attempts PROVE RowGood(a)'
  <2>1. /\ RowGood(a)
        /\ att[a].status = "none" => a \notin Exists /\ post[a] = "none"
    BY DEF RowsInv, RowGood, Exists
  <2>2. att'[a].status = "none" => att[a].status = "none" /\ att'[a].draft = att[a].draft
    BY <1>1 DEF Exists, AttStep, Rewrites, Creates
  <2>3. att'[a].status = "none" => post'[a] = "none"
    BY <2>1, <2>2 DEF JobStep, Exists
  <2>4. att'[a].status # "none" => att'[a].draft \in Drafts
    BY <2>1 DEF AttStep, Rewrites, Creates, RowGood
  <2>5. att'[a].status = "SUCCEEDED" => att'[a].ext = "PUBLISHED"
    BY <2>1 DEF AttStep, Rewrites, Creates, RowGood
  <2>6. att'[a].ids => a \in Range(finished')
    BY <1>2, <2>1 DEF RowGood
  <2>7. pub'[a] # NoPub => att'[a].ids /\ a \in Posted'
    BY <1>1, <1>3, <1>4, <2>1 DEF RowGood, JobStep
  <2>8. work'[a] = "gated" => seen'[a] \in DraftRow
    BY <2>1 DEF RowGood, JobStep
  <2> QED BY <2>1, <2>2, <2>3, <2>4, <2>5, <2>6, <2>7, <2>8 DEF RowGood
<1>6. page' \in [held : BOOLEAN, cool : BOOLEAN]
      /\ recent' \subseteq Exists' /\ old' \subseteq Exists' /\ DOMAIN seen' = Attempts
  BY <1>1 DEF MarkStep, JobStep, RowsInv
<1>7. ASSUME NEW r \in Handlers PROVE ReadGood(req[r])'
  <2>1. CASE req'[r] = req[r]
    <3>1. req[r].pc \in {"refresh", "call"} => req[r].a \in Attempts /\ att[req[r].a].ids
      BY RowFacts DEF HandlerOK, HandlerGood
    <3>2. ReadGood(req[r]) BY DEF RowsInv
    <3> QED BY <1>1, <2>1, <3>1, <3>2 DEF ReadGood
  <2> QED BY <2>1 DEF HandlerStep
<1> HIDE DEF Shows
<1> QED BY <1>1, <1>2, <1>4, <1>5, <1>6, <1>7 DEF RowsInv

(***************************************************************************)
(* Every step is such a step.                                              *)
(***************************************************************************)
Step == AttStep /\ DraftStep /\ JobStep /\ MarkStep /\ HandlerStep

LEMMA WriteStep ==
  ASSUME RowsInv, NEW a \in Attempts, att[a].status # "none", NEW row \in Row,
         row.draft = att[a].draft, row.ids = att[a].ids, row.ext = att[a].ext,
         row.status # "none", row.status = "SUCCEEDED" => att[a].status = "SUCCEEDED",
         NEW F \in {finished, FinishLast(a)}, WriteAttempt(a, row, F), UNCHANGED approvals
  PROVE  AttStep /\ DraftStep
<1>1. /\ att \in [Attempts -> Row] /\ RowGood(a) /\ draft \in [Drafts -> DraftRow]
      /\ att[a].ext = "PUBLISHED" => att[a].ids /\ a \in Posted
  BY RowFacts DEF RowsInv
<1>2. Sync(row.draft, draft[row.draft], [att EXCEPT ![a] = row], F) BY DEF WriteAttempt
<1>3. att' = [att EXCEPT ![a] = row] /\ finished' = F BY <1>2 DEF Sync
<1>4. DraftStep
  <2>1. row.draft \in Drafts BY <1>1 DEF RowGood
  <2>2. draft[row.draft] \in DraftRow BY <1>1, <2>1
  <2>3. Sync(row.draft, draft[row.draft], att', finished') BY <1>2, <1>3
  <2> QED BY <2>1, <2>2, <2>3 DEF DraftStep
<1>5. Rewrites(a) BY <1>1, <1>3 DEF Rewrites, RowGood
<1> QED BY <1>4, <1>5 DEF AttStep

\* The row of an attempt alone is written, and not the draft.
LEMMA RowStep ==
  ASSUME RowsInv, NEW a \in Attempts, att[a].status # "none", NEW row \in Row,
         row.draft = att[a].draft, att[a].ids => row.ids,
         row.status # "none",
         row.status = "SUCCEEDED" =>
           row.ext = "PUBLISHED" /\ (att[a].status = "SUCCEEDED" \/ ~att[a].ids),
         row.ext = "PUBLISHED" => row.ids /\ a \in Posted,
         att' = [att EXCEPT ![a] = row], UNCHANGED <<draft, pub, approvals>>,
         finished' = FinishLast(a) \/ (finished' = finished /\ (row.ids => att[a].ids))
  PROVE  AttStep /\ DraftStep
<1>1. att \in [Attempts -> Row] BY RowFacts
<1>2. Rewrites(a) BY <1>1 DEF Rewrites
<1> QED BY <1>2 DEF AttStep, DraftStep

LEMMA UploadedRow ==
  ASSUME NEW a \in Attempts, att[a] \in Row
  PROVE  /\ Uploaded(a) \in Row /\ Uploaded(a).draft = att[a].draft
         /\ Uploaded(a).status = "UPLOADING" /\ ~Uploaded(a).ids /\ Uploaded(a).ext = "OPEN"
<1>1. PICK d \in Drafts \cup {NoDraft} : d = att[a].draft BY DEF Row
<1>2. "UPLOADING" \in AttemptStatuses BY DEF AttemptStatuses, ActiveStatuses
<1>3. LET new == [NoRow EXCEPT !.draft = d, !.status = "UPLOADING"]
      IN /\ new \in Row /\ new.draft = d /\ new.status = "UPLOADING"
         /\ ~new.ids /\ new.ext = "OPEN" /\ ~new.due
  BY <1>2, NewRow
<1> QED BY <1>1, <1>3 DEF Uploaded

LEMMA PageTyped ==
  ASSUME NEW effect
  PROVE  PageAfter(effect) \in [held : BOOLEAN, cool : BOOLEAN]
<1>1. /\ (page.held \/ effect = "hold") \in BOOLEAN
      /\ (page.cool \/ effect = "cool") \in BOOLEAN
  OBVIOUS
<1> QED BY <1>1 DEF PageAfter

LEMMA WorkerStep ==
  ASSUME RowsInv, NEW a \in Attempts, Worker(a) \/ Receives(a) \/ Processes(a) \/ CancelJob(a)
  PROVE  Step
<1>1. /\ att[a] \in Row /\ RowGood(a) /\ AttemptGood(a)
      /\ att \in [Attempts -> Row] /\ work \in [Attempts -> WorkStates]
      /\ post \in [Attempts -> Posts]
      /\ draft \in [Drafts -> DraftRow] /\ DOMAIN seen = Attempts
      /\ att[a].ext = "PUBLISHED" => att[a].ids /\ a \in Posted
  BY RowFacts DEF RowsInv
<1>2. att[a].status # "none" /\ a \in Exists /\ att[a].draft \in Drafts
  <2>1. work[a] # "none" \/ post[a] # "none"
    BY DEF Worker, ExecResume, ExecRaise, ExecRefuse, ExecGate, ExecRun, ExecNoAccount,
           ExecUpload, ExecSuccess, ExecError, ExecInvalid, Answered, ExecSync, Crash,
           Receives, Processes, CancelJob
  <2> QED BY <1>1, <2>1 DEF RowGood, AttemptGood, Exists
<1>3. JobStep
  <2>1. \/ UNCHANGED work
        \/ work[a] # "none" /\ \E w \in WorkStates : work' = [work EXCEPT ![a] = w]
    <3>1. \A row : Outcome(row) \in WorkStates BY DEF Outcome, WorkStates
    <3> QED BY <3>1
       DEF Worker, ExecResume, ExecRaise, ExecRefuse, ExecGate, ExecRun, ExecNoAccount,
           ExecUpload, ExecSuccess, ExecError, ExecInvalid, Answered, ExecSync, Crash,
           Receives, Processes, CancelJob, WorkStates
  <2>2. \/ UNCHANGED post
        \/ \E p \in Posts : /\ post' = [post EXCEPT ![a] = p]
                            /\ a \in Posted => p \in {"made", "live", "gone"}
    BY DEF Worker, ExecResume, ExecRaise, ExecRefuse, ExecGate, ExecRun, ExecNoAccount,
           ExecUpload, ExecSuccess, ExecError, ExecInvalid, Answered, ExecSync, Crash,
           Receives, Processes, CancelJob,
           Posts, Posted
  <2>3. \A b \in Attempts : work'[b] # "none" => work[b] # "none"
    BY <1>1, <2>1
  <2>4. \A b \in Attempts : post'[b] # post[b] => b \in Exists BY <1>1, <1>2, <2>2
  <2>5. Posted \subseteq Posted' BY <1>1, <2>2 DEF Posted
  <2>6. CASE ExecGate(a)
    <3>1. /\ seen' = [seen EXCEPT ![a] = draft[att[a].draft]]
          /\ work' = [work EXCEPT ![a] = "gated"]
      BY <2>6 DEF ExecGate
    <3>2. draft[att[a].draft] \in DraftRow BY <1>1, <1>2
    <3>3. \A b \in Attempts : work'[b] = "gated" =>
            (work[b] = "gated" /\ seen'[b] = seen[b]) \/ seen'[b] \in DraftRow
      BY <1>1, <3>1, <3>2
    <3> QED BY <2>3, <2>4, <2>5, <3>1, <3>3 DEF JobStep
  <2>7. CASE ~ExecGate(a)
    <3>1. \/ UNCHANGED <<seen, work>>
          \/ /\ UNCHANGED seen \/ seen' = [seen EXCEPT ![a] = NoDraftRow]
             /\ \E w \in WorkStates \ {"gated"} : work' = [work EXCEPT ![a] = w]
      <4>1. \A row : Outcome(row) \in WorkStates \ {"gated"} BY DEF Outcome, WorkStates
      <4> QED BY <2>7, <4>1
         DEF Worker, ExecResume, ExecRaise, ExecRefuse, ExecGate, ExecRun, ExecNoAccount,
           ExecUpload, ExecSuccess, ExecError, ExecInvalid, Answered, ExecSync, Crash,
           Receives, Processes, CancelJob, WorkStates
    <3>2. \A b \in Attempts : work'[b] = "gated" => work[b] = "gated" /\ seen'[b] = seen[b]
      BY <1>1, <3>1
    <3>3. DOMAIN seen' = DOMAIN seen BY <3>1
    <3> QED BY <2>3, <2>4, <2>5, <3>2, <3>3 DEF JobStep
  <2> QED BY <2>6, <2>7
<1>4. HandlerStep /\ MarkStep
  <2>1. UNCHANGED req /\ recent' = recent /\ old' \subseteq old
    BY DEF Worker, ExecResume, ExecRaise, ExecRefuse, ExecGate, ExecRun, ExecNoAccount,
           ExecUpload, ExecSuccess, ExecError, ExecInvalid, Answered, ExecSync, Crash,
           Receives, Processes, CancelJob, rows
  <2>2. \E effect : page' = page \/ page' = PageAfter(effect)
    BY DEF Worker, ExecResume, ExecRaise, ExecRefuse, ExecGate, ExecRun, ExecNoAccount,
           ExecUpload, ExecSuccess, ExecError, ExecInvalid, Answered, ExecSync, Crash,
           Receives, Processes, CancelJob, rows
  <2>3. page \in [held : BOOLEAN, cool : BOOLEAN] BY DEF RowsInv
  <2> QED BY <2>1, <2>2, <2>3, PageTyped DEF HandlerStep, MarkStep
<1>5. UNCHANGED approvals
  BY DEF Worker, ExecResume, ExecRaise, ExecRefuse, ExecGate, ExecRun, ExecNoAccount,
           ExecUpload, ExecSuccess, ExecError, ExecInvalid, Answered, ExecSync, Crash,
           Receives, Processes, CancelJob
<1>21. ASSUME UNCHANGED <<att, draft, pub, finished>> PROVE AttStep /\ DraftStep
  BY <1>5, <1>21 DEF AttStep, DraftStep
<1>6. /\ Fail(att[a]) \in Row /\ Fail(att[a]).draft = att[a].draft
      /\ Fail(att[a]).ids = att[a].ids /\ Fail(att[a]).ext = att[a].ext
      /\ Fail(att[a]).status \notin {"none", "SUCCEEDED"}
  BY <1>1, FailRow
<1>7. ASSUME NEW F \in {finished, FinishLast(a)}, WriteAttempt(a, Fail(att[a]), F)
      PROVE  AttStep /\ DraftStep
  BY <1>2, <1>5, <1>6, <1>7, WriteStep
<1>8. ASSUME WriteAttempt(a, att[a], finished) PROVE AttStep /\ DraftStep
  BY <1>1, <1>2, <1>5, <1>8, WriteStep
<1>9. ASSUME NEW status \in {"RUNNING", "UPLOADING"},
             WriteAttempt(a, [att[a] EXCEPT !.status = status], finished)
      PROVE  AttStep /\ DraftStep
  <2>1. status \in AttemptStatuses \ {"none", "SUCCEEDED"}
    BY DEF AttemptStatuses, ActiveStatuses
  <2> DEFINE row == [att[a] EXCEPT !.status = status]
  <2>2. /\ row \in Row /\ row.draft = att[a].draft /\ row.ids = att[a].ids
        /\ row.ext = att[a].ext /\ row.status = status
    BY <1>1, <2>1, StatusRow
  <2>3. WriteAttempt(a, row, finished) BY <1>9
  <2> HIDE DEF row
  <2> QED BY <1>2, <1>5, <1>9, <2>1, <2>2, <2>3, WriteStep
<1>10. ASSUME ExecResume(a) PROVE AttStep /\ DraftStep
  BY <1>7, <1>8, <1>10 DEF ExecResume
<1>11. ASSUME ExecRefuse(a) PROVE AttStep /\ DraftStep
  BY <1>7, <1>11 DEF ExecRefuse
<1>12. ASSUME ExecRun(a) PROVE AttStep /\ DraftStep
  <2>1. CASE Conflict(a) BY <1>12, <1>21, <2>1 DEF ExecRun, rows
  <2>2. CASE ~Conflict(a)
    <3>1. "RUNNING" \in AttemptStatuses BY DEF AttemptStatuses, ActiveStatuses
    <3> DEFINE new == [att[a] EXCEPT !.status = "RUNNING"]
    <3>9. /\ new \in Row /\ new.draft = att[a].draft /\ new.ids = att[a].ids
          /\ new.ext = att[a].ext /\ new.status = "RUNNING"
      BY <1>1, <3>1, StatusRow
    <3> HIDE DEF new
    <3>10. PICK row \in Row :
            /\ row = new /\ row.draft = att[a].draft
            /\ row.ids = att[a].ids /\ row.ext = att[a].ext /\ row.status = "RUNNING"
      BY <3>9
    <3>2. row = [att[a] EXCEPT !.status = "RUNNING"] BY <3>10 DEF new
    <3>3. Sync(row.draft, seen[a], [att EXCEPT ![a] = row], finished)
      BY <1>12, <2>2, <3>2 DEF ExecRun
    <3>4. att' = [att EXCEPT ![a] = row] /\ finished' = finished BY <3>3 DEF Sync
    <3>5. Rewrites(a) BY <1>1, <1>2, <3>10, <3>4 DEF Rewrites
    <3>6. row.draft \in Drafts /\ seen[a] \in DraftRow
      BY <1>1, <1>2, <1>12, <3>10 DEF ExecRun, RowGood
    <3>7. a \in Of(att', row.draft) BY <1>1, <3>4 DEF Of
    <3>8. Sync(row.draft, seen[a], att', finished') BY <3>3, <3>4
    <3> QED BY <1>5, <3>5, <3>6, <3>7, <3>8 DEF AttStep, DraftStep
  <2> QED BY <2>1, <2>2
<1>13. ASSUME ExecUpload(a) PROVE AttStep /\ DraftStep
  <2>1. CASE Conflict(a) BY <1>13, <1>21, <2>1 DEF ExecUpload, rows
  <2>2. CASE ~Conflict(a) BY <1>9, <1>13, <2>2 DEF ExecUpload
  <2> QED BY <2>1, <2>2
<1>14. ASSUME ExecSync(a) PROVE AttStep /\ DraftStep
  BY <1>8, <1>14 DEF ExecSync
<1>15. ASSUME ExecNoAccount(a) PROVE AttStep /\ DraftStep
  BY <1>1, <1>2, <1>5, <1>6, <1>15, RowStep DEF ExecNoAccount
<1>16. ASSUME NEW new \in Row, Answered(a, new), new.draft = att[a].draft,
              \/ new.status = "SUCCEEDED" /\ new.ids /\ new.ext = "PUBLISHED" /\ a \in Posted
              \/ new.status \in {"FAILED", "NEEDS_RECONCILIATION"} /\ new.ext = "OPEN"
       PROVE  AttStep /\ DraftStep
  <2> DEFINE read == Uploaded(a)
             row == Merge(att[a], read, new)
  <2>1. /\ read \in Row /\ read.draft = att[a].draft /\ read.status = "UPLOADING"
        /\ ~read.ids /\ read.ext = "OPEN"
    BY <1>1, UploadedRow
  <2>2. /\ att' = [att EXCEPT ![a] = row] /\ finished' = FinishLast(a)
        /\ UNCHANGED <<draft, pub>>
    BY <1>16 DEF Answered
  <2> HIDE DEF read
  <2>3. /\ row \in Row /\ row.draft = att[a].draft
        /\ row.status = IF new.status # read.status THEN new.status ELSE att[a].status
        /\ row.ids = IF new.ids # read.ids THEN new.ids ELSE att[a].ids
        /\ row.ext = IF new.ext # read.ext THEN new.ext ELSE att[a].ext
    BY <1>1, <1>16, <2>1, MergeRow
  <2> HIDE DEF row
  <2>4. new.ids \in BOOLEAN /\ read.ids \in BOOLEAN BY <1>16, <2>1 DEF Row
  <2>5. row.status = new.status /\ (att[a].ids => row.ids)
    BY <1>16, <2>1, <2>3, <2>4
  <2>6. row.ext = "PUBLISHED" => row.ids /\ a \in Posted
    BY <1>1, <1>16, <2>1, <2>3, <2>4
  <2>7. row.status = "SUCCEEDED" => row.ext = "PUBLISHED" /\ ~att[a].ids
    BY <1>1, <1>16, <2>1, <2>3, <2>5 DEF Answered, AttemptGood
  <2>8. row.status # "none" BY <1>16, <2>5
  <2> QED BY <1>2, <1>5, <2>2, <2>3, <2>5, <2>6, <2>7, <2>8, RowStep
<1>17. PICK up \in Row : up = Uploaded(a) /\ up.draft = att[a].draft /\ up.ext = "OPEN"
  BY <1>1, UploadedRow
<1>18. ASSUME ExecSuccess(a) PROVE AttStep /\ DraftStep
  <2>1. LET new == [up EXCEPT !.status = "SUCCEEDED", !.ids = TRUE, !.ext = "PUBLISHED"]
        IN /\ new \in Row /\ new.draft = att[a].draft /\ new.status = "SUCCEEDED"
           /\ new.ids /\ new.ext = "PUBLISHED"
    BY <1>17 DEF Row, AttemptStatuses, Evidence
  <2> QED BY <1>16, <1>17, <1>18, <2>1 DEF ExecSuccess
<1>19. ASSUME ExecError(a) PROVE AttStep /\ DraftStep
  <2>1. PICK ids \in BOOLEAN : ids = (post[a] # "none") OBVIOUS
  <2>2. /\ [up EXCEPT !.ids = ids] \in Row /\ [up EXCEPT !.ids = ids].draft = up.draft
        /\ [up EXCEPT !.ids = ids].ext = up.ext
    BY DEF Row
  <2>3. PICK with \in Row : with = [up EXCEPT !.ids = ids] /\ with.draft = att[a].draft
                            /\ with.ext = "OPEN"
    BY <1>17, <2>2
  <2>4. /\ Fail(with) \in Row /\ Fail(with).draft = att[a].draft
        /\ Fail(with).ext = "OPEN"
        /\ Fail(with).status \in {"NEEDS_RECONCILIATION", "FAILED"}
    BY <2>3, FailRow
  <2>5. Answered(a, Fail(with)) BY <1>17, <1>19, <2>1, <2>3 DEF ExecError
  <2> QED BY <1>16, <2>4, <2>5
<1>23. ASSUME ExecInvalid(a) PROVE AttStep /\ DraftStep
  <2>1. /\ Fail(up) \in Row /\ Fail(up).draft = att[a].draft /\ Fail(up).ext = "OPEN"
        /\ Fail(up).status \in {"NEEDS_RECONCILIATION", "FAILED"}
    BY <1>17, FailRow
  <2>2. Answered(a, Fail(up)) BY <1>17, <1>23 DEF ExecInvalid
  <2> QED BY <1>16, <2>1, <2>2
<1>20. ASSUME ExecRaise(a) \/ ExecGate(a) \/ Crash(a) \/ CancelJob(a) \/ Receives(a) \/ Processes(a)
       PROVE  AttStep /\ DraftStep
  BY <1>21, <1>20 DEF ExecRaise, ExecGate, Crash, CancelJob, Receives, Processes, rows
<1>22. AttStep /\ DraftStep
  BY <1>10, <1>11, <1>12, <1>13, <1>14, <1>15, <1>18, <1>19, <1>20,
     <1>23 DEF Worker
<1> QED BY <1>3, <1>4, <1>22 DEF Step

\* A step of one handler, after which it has q in hand.
LEMMA OneHandler ==
  ASSUME RowsInv, NEW r \in Handlers, NEW q, req' = [req EXCEPT ![r] = q],
         q.pc = "gated" => /\ draft[q.d].status = "READY"
                           /\ q.read \in DraftRow /\ q.read.status = "READY",
         q.pc = "refresh" /\ q.row.status = "RECONCILING" => att'[q.a].status # "SUCCEEDED",
         q.pc = "call" => q.row.draft \in Drafts /\ att'[q.a].status # "SUCCEEDED"
  PROVE  HandlerStep
<1>1. DOMAIN req = Handlers BY RowFacts
<1>2. req'[r] = q /\ \A h \in Handlers \ {r} : req'[h] = req[h] BY <1>1
<1>3. ReadGood(req[r])' BY <1>2 DEF ReadGood
<1> QED BY <1>2, <1>3 DEF HandlerStep

\* A handler that has nothing to answer for.
LEMMA HandsFree ==
  ASSUME RowsInv, NEW r \in Handlers,
         \/ req' = [req EXCEPT ![r] = Idle]
         \/ \E d, upto : req' = [req EXCEPT ![r] =
                            [Idle EXCEPT !.pc = "loop", !.d = d, !.upto = upto]]
         \/ \E d, upto, a : req' = [req EXCEPT ![r] =
                               [Idle EXCEPT !.pc = "loop", !.d = d, !.upto = upto, !.a = a]]
         \/ \E d, upto, a, row :
              req' = [req EXCEPT ![r] =
                [Idle EXCEPT !.pc = "mark", !.d = d, !.upto = upto, !.a = a, !.row = row]]
  PROVE  HandlerStep
<1>1. ASSUME req' = [req EXCEPT ![r] = Idle] PROVE HandlerStep
  <2> DEFINE q == Idle
  <2>1. q.pc = "idle" /\ req' = [req EXCEPT ![r] = q] BY <1>1 DEF Idle
  <2> HIDE DEF q
  <2> QED BY <2>1, OneHandler
<1>2. ASSUME NEW d, NEW upto,
             req' = [req EXCEPT ![r] =
               [Idle EXCEPT !.pc = "loop", !.d = d, !.upto = upto]]
      PROVE  HandlerStep
  <2> DEFINE q == [Idle EXCEPT !.pc = "loop", !.d = d, !.upto = upto]
  <2>1. q.pc = "loop" /\ req' = [req EXCEPT ![r] = q] BY <1>2 DEF Idle
  <2> HIDE DEF q
  <2> QED BY <2>1, OneHandler
<1>3. ASSUME NEW d, NEW upto, NEW a,
             req' = [req EXCEPT ![r] =
               [Idle EXCEPT !.pc = "loop", !.d = d, !.upto = upto, !.a = a]]
      PROVE  HandlerStep
  <2> DEFINE q == [Idle EXCEPT !.pc = "loop", !.d = d, !.upto = upto, !.a = a]
  <2>1. q.pc = "loop" /\ req' = [req EXCEPT ![r] = q] BY <1>3 DEF Idle
  <2> HIDE DEF q
  <2> QED BY <2>1, OneHandler
<1>4. ASSUME NEW d, NEW upto, NEW a, NEW row,
             req' = [req EXCEPT ![r] =
               [Idle EXCEPT !.pc = "mark", !.d = d, !.upto = upto, !.a = a, !.row = row]]
      PROVE  HandlerStep
  <2> DEFINE q == [Idle EXCEPT !.pc = "mark", !.d = d, !.upto = upto, !.a = a, !.row = row]
  <2>1. q.pc = "mark" /\ req' = [req EXCEPT ![r] = q] BY <1>4 DEF Idle
  <2> HIDE DEF q
  <2> QED BY <2>1, OneHandler
<1>5. ASSUME \E d, upto : req' = [req EXCEPT ![r] =
                              [Idle EXCEPT !.pc = "loop", !.d = d, !.upto = upto]]
      PROVE  HandlerStep
  BY <1>2, <1>5, Zenon
<1>6. ASSUME \E d, upto, a : req' = [req EXCEPT ![r] =
                              [Idle EXCEPT !.pc = "loop", !.d = d, !.upto = upto, !.a = a]]
      PROVE  HandlerStep
  BY <1>3, <1>6, Zenon
<1>7. ASSUME \E d, upto, a, row :
               req' = [req EXCEPT ![r] =
                 [Idle EXCEPT !.pc = "mark", !.d = d, !.upto = upto, !.a = a, !.row = row]]
      PROVE  HandlerStep
  BY <1>4, <1>7, Zenon
<1> QED BY <1>1, <1>5, <1>6, <1>7, Zenon

LEMMA RequestStep ==
  ASSUME RowsInv, NEW r \in Handlers,
         HandlerDies(r) \/ ReconcileSkip(r) \/ (r \in Requests /\ Request(r))
           \/ \E d \in Drafts : FindStale(r, d)
  PROVE  Step
<1>1. /\ att \in [Attempts -> Row] /\ draft \in [Drafts -> DraftRow]
      /\ work \in [Attempts -> WorkStates] /\ page \in [held : BOOLEAN, cool : BOOLEAN]
      /\ DOMAIN req = Handlers
  BY RowFacts DEF RowsInv
<1>2. HandlerStep
  <2>1. CASE HandlerDies(r) \/ EnqueueCommit(r) \/ ReconcileSkip(r) \/ \E d \in Drafts : FindStale(r, d)
    <3>1. CASE HandlerDies(r) BY <3>1, HandsFree DEF HandlerDies
    <3>2. CASE EnqueueCommit(r) BY <3>2, HandsFree DEF EnqueueCommit
    <3>3. CASE ReconcileSkip(r) BY <3>3, HandsFree DEF ReconcileSkip
    <3>4. ASSUME NEW d \in Drafts, FindStale(r, d) PROVE HandlerStep
      BY <3>4, HandsFree DEF FindStale
    <3> QED BY <2>1, <3>1, <3>2, <3>3, <3>4
  <2>2. ASSUME NEW d \in Drafts, EnqueueGate(r, d) PROVE HandlerStep
    <3> DEFINE q == [Idle EXCEPT !.pc = "gated", !.d = d, !.read = draft[d]]
    <3>1. req' = [req EXCEPT ![r] = q] /\ draft[d] \in DraftRow /\ draft[d].status = "READY"
      BY <1>1, <2>2 DEF EnqueueGate, GateOpen
    <3>2. q.pc = "gated" /\ q.d = d /\ q.read = draft[d] BY DEF Idle
    <3> HIDE DEF q
    <3> QED BY <3>1, <3>2, OneHandler
  <2> QED BY <2>1, <2>2 DEF Request
<1>3. ASSUME UNCHANGED <<rows, work, seen, post, page, recent, old, approvals>> PROVE Step
  BY <1>1, <1>2, <1>3
     DEF rows, Step, AttStep, DraftStep, JobStep, MarkStep, Posted
<1>4. CASE HandlerDies(r) \/ ReconcileSkip(r)
             \/ \E d \in Drafts : EnqueueGate(r, d) \/ FindStale(r, d)
  BY <1>3, <1>4 DEF HandlerDies, EnqueueGate, ReconcileSkip, FindStale
<1>5. CASE r \in Requests /\ EnqueueCommit(r)
  <2> DEFINE a == NextAttempt
             d == req[r].d
             read == req[r].read
             row == [NoRow EXCEPT !.draft = d, !.status = "QUEUED"]
  <2>1. UNCHANGED <<post, seen, page, old, approvals>> BY <1>5 DEF EnqueueCommit
  <2>2. CASE UNCHANGED <<rows, work, recent>> BY <1>3, <2>1, <2>2
  <2>3. CASE /\ a <= N /\ ~Conflict(a)
             /\ Sync(d, read, [att EXCEPT ![a] = row], finished)
             /\ work' = [work EXCEPT ![a] = "waiting"] /\ recent' = recent \cup {a}
    <3>1. a \in Attempts /\ att[a].status = "none" /\ Exists \cup {a} = 1..a
      BY <2>3, RowFacts, NextIsFree
    <3>2. /\ req[r].pc = "gated" /\ d \in Drafts
          /\ read \in DraftRow /\ read.status = "READY"
      BY <1>5, RowFacts DEF HandlerOK, ReadGood, EnqueueCommit
    <3>3. PICK new \in Row : /\ new = row /\ new.draft = d /\ new.status = "QUEUED"
                             /\ ~new.ids /\ new.ext = "OPEN"
      <4>1. PICK e \in Drafts \cup {NoDraft} : e = d BY <3>2
      <4>2. "QUEUED" \in AttemptStatuses BY DEF AttemptStatuses, ActiveStatuses
      <4>3. LET made == [NoRow EXCEPT !.draft = e, !.status = "QUEUED"]
            IN /\ made \in Row /\ made.draft = e /\ made.status = "QUEUED"
               /\ ~made.ids /\ made.ext = "OPEN" /\ ~made.due
        BY <4>2, NewRow
      <4> QED BY <4>1, <4>3
    <3> HIDE DEF row, a, d, read
    <3>4. /\ att' = [att EXCEPT ![a] = new] /\ finished' = finished
          /\ Sync(d, read, att', finished')
      BY <2>3, <3>3 DEF Sync
    <3>5. att'[a] = new /\ \A b \in Attempts \ {a} : att'[b] = att[b] BY <1>1, <3>1, <3>4
    <3>6. \E h \in Requests : req[h].pc = "gated" /\ req[h].d = new.draft
      BY <1>5, <3>2, <3>3 DEF d
    <3>11. \A h \in Handlers : req'[h] = req[h] \/ req'[h] = Idle
      BY <1>1, <1>5 DEF EnqueueCommit
    <3>7. Creates(a) BY <2>1, <2>3, <3>1, <3>2, <3>3, <3>4, <3>5, <3>6, <3>11 DEF Creates
    <3>8. a \in Exists' BY <3>1, <3>3, <3>5 DEF Exists
    <3>9. JobStep BY <1>1, <2>1, <2>3, <3>1, <3>8 DEF JobStep, Posted, WorkStates
    <3>10. MarkStep BY <1>1, <2>1, <2>3, <3>8 DEF MarkStep
    <3> QED BY <1>2, <3>1, <3>7, <3>9, <3>10 DEF Step, AttStep, DraftStep
  <2> QED BY <1>5, <2>2, <2>3 DEF EnqueueCommit
<1> QED BY <1>4, <1>5 DEF Request

LEMMA RefreshStarts ==
  ASSUME RowsInv, NEW r \in Handlers, NEW d, NEW a \in Attempts, StartRefresh(r, d, a)
  PROVE  Step
<1> DEFINE q == [Idle EXCEPT !.pc = "refresh", !.d = d, !.upto = a - 1, !.a = a, !.row = att[a]]
<1>1. /\ req' = [req EXCEPT ![r] = q]
      /\ UNCHANGED <<rows, work, seen, post, page, recent, old, approvals>>
  BY DEF StartRefresh
<1>2. q.pc = "refresh" /\ q.a = a /\ q.row = att[a] BY DEF Idle
<1> HIDE DEF q
<1>6. HandlerStep BY <1>1, <1>2, OneHandler DEF rows
<1> QED BY <1>1, <1>6
        DEF rows, Step, AttStep, DraftStep, JobStep, MarkStep, Posted, RowsInv

LEMMA RefreshCommits ==
  ASSUME RowsInv, NEW r \in Handlers, RefreshCommit(r)
  PROVE  Step
<1>1. PICK a \in Attempts : a = req[r].a /\ req[r].pc = "refresh"
  BY RowFacts, RefreshCommitRow
<1>2. /\ UNCHANGED <<post, work, old>>
      /\ \/ UNCHANGED att /\ req' = [req EXCEPT ![r] = Idle]
         \/ \E row \in Row :
              /\ row.draft = att[a].draft /\ row.ids = att[a].ids
              /\ row.ext = att[a].ext
              /\ row.status = IF req[r].row.status # "RECONCILING"
                                 THEN "RECONCILING" ELSE att[a].status
              /\ att' = [att EXCEPT ![a] = row]
              /\ req' = [req EXCEPT ![r] =
                   [Idle EXCEPT !.pc = "call", !.d = req[r].d, !.upto = req[r].upto,
                                !.a = a, !.row = row]]
  BY <1>1, RowFacts, RefreshCommitRow
<1>3. UNCHANGED <<draft, pub, finished, seen, page, recent, approvals>> BY DEF RefreshCommit
<1>4. JobStep /\ MarkStep BY <1>2, <1>3 DEF JobStep, MarkStep, Posted, RowsInv
<1>5. /\ att[a] \in Row /\ att \in [Attempts -> Row] /\ att[a].ids /\ RowGood(a)
      /\ AttemptGood(a) /\ DOMAIN req = Handlers
      /\ att[a].ext = "PUBLISHED" => a \in Posted
      /\ req[r].row.status = "RECONCILING" => att[a].status # "SUCCEEDED"
  BY <1>1, RowFacts DEF HandlerGood, ReadGood
<1>6. att[a].status # "none" BY <1>5 DEF AttemptGood
<1>7. CASE UNCHANGED att /\ req' = [req EXCEPT ![r] = Idle]
  <2>1. HandlerStep BY <1>7, HandsFree
  <2> QED BY <1>3, <1>4, <1>7, <2>1 DEF Step, AttStep, DraftStep
<1>8. ASSUME NEW row \in Row, row.draft = att[a].draft, row.ids = att[a].ids,
             row.ext = att[a].ext,
             row.status = IF req[r].row.status # "RECONCILING"
                            THEN "RECONCILING" ELSE att[a].status,
             att' = [att EXCEPT ![a] = row],
             req' = [req EXCEPT ![r] =
               [Idle EXCEPT !.pc = "call", !.d = req[r].d, !.upto = req[r].upto,
                            !.a = a, !.row = row]]
      PROVE  Step
  <2>1. row.status \notin {"none", "SUCCEEDED"} BY <1>5, <1>6, <1>8
  <2>2. AttStep /\ DraftStep BY <1>3, <1>5, <1>6, <1>8, <2>1, RowStep
  <2> DEFINE q == [Idle EXCEPT !.pc = "call", !.d = req[r].d, !.upto = req[r].upto,
                               !.a = a, !.row = row]
  <2>3. q.pc = "call" /\ q.a = a /\ q.row = row BY DEF Idle
  <2>4. req' = [req EXCEPT ![r] = q] BY <1>8
  <2> HIDE DEF q
  <2>5. att'[a] = row BY <1>5, <1>8
  <2>6. row.draft \in Drafts BY <1>5, <1>6, <1>8 DEF RowGood
  <2>8. HandlerStep BY <2>1, <2>3, <2>4, <2>5, <2>6, OneHandler
  <2> QED BY <1>4, <2>2, <2>8 DEF Step
<1> QED BY <1>2, <1>7, <1>8

LEMMA AnswerHeard ==
  ASSUME RowsInv, NEW r \in Handlers, RefreshAnswer(r) \/ RefreshError(r)
  PROVE  Step
<1>0. PICK new \in Row : \E effect :
        /\ Heard(r, new, effect)
        /\ req[r].pc = "call"
        /\ new.draft = req[r].row.draft /\ new.ids = req[r].row.ids
        /\ new.status \in {"RECONCILED", "NEEDS_RECONCILIATION"}
        /\ new.ext = req[r].row.ext \/ new.ext \in Says(post[req[r].a])
  BY HeardRow, RowFacts
<1>1. PICK effect :
        /\ Heard(r, new, effect)
        /\ req[r].pc = "call"
        /\ new.draft = req[r].row.draft /\ new.ids = req[r].row.ids
        /\ new.status \in {"RECONCILED", "NEEDS_RECONCILIATION"}
        /\ new.ext = req[r].row.ext \/ new.ext \in Says(post[req[r].a])
  BY <1>0
<1>2. PICK a \in Attempts, read \in Row :
        /\ a = req[r].a /\ read = req[r].row /\ read.draft \in Drafts
        /\ att[a].status # "SUCCEEDED" /\ att[a].ids
  BY <1>1, RowFacts DEF HandlerOK, HandlerGood, ReadGood
<1>3. /\ att[a] \in Row /\ RowGood(a) /\ AttemptGood(a) /\ att \in [Attempts -> Row]
      /\ draft \in [Drafts -> DraftRow] /\ post[a] \in Posts
      /\ att[a].ext = "PUBLISHED" => a \in Posted
  BY RowFacts DEF RowsInv
<1>4. PICK row \in Row :
        /\ row = Merge(att[a], read, new) /\ row.draft = att[a].draft /\ row.ids
        /\ row.status \in {"RECONCILED", "NEEDS_RECONCILIATION", att[a].status}
        /\ row.ext = att[a].ext \/ row.ext \in Says(post[a])
  <2>1. PICK was \in Row : was = att[a] BY <1>3
  <2>2. PICK row \in Row :
           /\ row = Merge(was, read, new)
           /\ row.draft = IF new.draft # read.draft THEN new.draft ELSE was.draft
           /\ row.status = IF new.status # read.status THEN new.status ELSE was.status
           /\ row.ids = IF new.ids # read.ids THEN new.ids ELSE was.ids
           /\ row.ext = IF new.ext # read.ext THEN new.ext ELSE was.ext
    BY MergeRow
  <2> QED BY <1>1, <1>2, <1>3, <2>1, <2>2
<1>5. "PUBLISHED" \in Says(post[a]) => a \in Posted
  BY <1>3 DEF Says, Posts, Posted
<1>6. /\ Sync(new.draft, draft[new.draft], [att EXCEPT ![a] = row], finished)
      /\ page' = PageAfter(effect) /\ UNCHANGED <<post, work, seen, recent, old, approvals>>
      /\ req' = [req EXCEPT ![r] = IF req[r].d = NoDraft THEN Idle
                   ELSE [Idle EXCEPT !.pc = "loop", !.d = req[r].d, !.upto = req[r].upto]]
  BY <1>1, <1>2, <1>4 DEF Heard
<1>7. att' = [att EXCEPT ![a] = row] /\ finished' = finished BY <1>6 DEF Sync
<1>8. Rewrites(a) BY <1>2, <1>3, <1>4, <1>5, <1>7 DEF Rewrites, AttemptGood
<1>9. DraftStep
  <2>1. new.draft \in Drafts BY <1>1, <1>2
  <2>2. draft[new.draft] \in DraftRow BY <1>3, <2>1
  <2> QED BY <1>6, <1>7, <2>1, <2>2 DEF DraftStep
<1>10. JobStep BY <1>6 DEF JobStep, Posted
<1>11. MarkStep BY <1>6, PageTyped DEF MarkStep
<1>12. HandlerStep BY <1>6, HandsFree
<1> QED BY <1>8, <1>9, <1>10, <1>11, <1>12 DEF Step, AttStep

LEMMA StaleMarked ==
  ASSUME RowsInv, NEW r \in Handlers, MarkStale(r)
  PROVE  Step
<1>1. PICK a \in Attempts : a = req[r].a /\ req[r].pc = "mark"
  BY RowFacts, MarkRow
<1>2. /\ att[a] \in Row /\ att \in [Attempts -> Row] /\ att[a].status # "none"
      /\ AttemptGood(a) /\ RowGood(a)
      /\ att[a].ext = "PUBLISHED" => att[a].ids /\ a \in Posted
  BY <1>1, RowFacts DEF HandlerGood
<1>3. PICK row \in Row :
        /\ row.draft = att[a].draft /\ row.ids = att[a].ids /\ row.ext = att[a].ext
        /\ row.status \in {"FAILED", "NEEDS_RECONCILIATION", att[a].status}
        /\ att' = [att EXCEPT ![a] = row]
  BY <1>1, RowFacts, MarkRow
<1>4. /\ finished' = finished \/ finished' = FinishLast(a)
      /\ old' = old \ {a} /\ UNCHANGED <<draft, pub, post, work, seen, page, recent, approvals>>
      /\ req' = [req EXCEPT ![r] = [Idle EXCEPT !.pc = "loop", !.d = req[r].d, !.upto = a, !.a = a]]
  BY <1>1 DEF MarkStale
<1>5. AttStep /\ DraftStep
  <2>1. /\ row.status # "none"
        /\ row.status = "SUCCEEDED" => att[a].status = "SUCCEEDED" /\ row.ext = "PUBLISHED"
        /\ row.ext = "PUBLISHED" => row.ids /\ a \in Posted
    BY <1>2, <1>3 DEF RowGood
  <2>2. finished' = FinishLast(a) \/ (finished' = finished /\ (row.ids => att[a].ids))
    BY <1>3, <1>4
  <2>3. UNCHANGED <<draft, pub, approvals>> BY <1>4
  <2> QED BY <1>2, <1>3, <2>1, <2>2, <2>3, RowStep
<1>6. JobStep /\ MarkStep BY <1>4 DEF JobStep, MarkStep, Posted, RowsInv
<1>7. HandlerStep BY <1>4, HandsFree
<1> QED BY <1>5, <1>6, <1>7 DEF Step

LEMMA ReconcileEnds ==
  ASSUME RowsInv, NEW r \in Handlers, NEW d \in Drafts, ReconcileEnd(r, d)
  PROVE  Step
<1>1. /\ Sync(d, draft[d], att, finished) /\ req' = [req EXCEPT ![r] = Idle]
      /\ UNCHANGED <<post, work, seen, page, recent, old, approvals>>
  BY DEF ReconcileEnd
<1>2. att' = att /\ finished' = finished BY <1>1 DEF Sync
<1>3. Sync(d, draft[d], att', finished') BY <1>1, <1>2
<1>4. draft[d] \in DraftRow BY DEF RowsInv
<1>7. AttStep /\ DraftStep BY <1>1, <1>2, <1>3, <1>4 DEF AttStep, DraftStep
<1>5. JobStep /\ MarkStep BY <1>1, <1>2 DEF JobStep, MarkStep, Posted, RowsInv
<1>6. HandlerStep BY <1>1, HandsFree
<1> QED BY <1>5, <1>6, <1>7 DEF Step

LEMMA OutsideStep ==
  ASSUME RowsInv,
         \/ \E d \in Drafts : MarkReady(d) \/ Retract(d)
         \/ PageOpens \/ IntervalPasses \/ StalePasses
         \/ UNCHANGED vars
  PROVE  Step
<1>1. UNCHANGED <<att, pub, finished, post, work, seen, req>>
  BY DEF MarkReady, Retract, SetDraft, PageOpens, IntervalPasses, StalePasses, rows, vars
<1>2. AttStep /\ JobStep /\ HandlerStep
  BY <1>1 DEF AttStep, JobStep, HandlerStep, Posted
<1>3. DraftStep
  BY <1>1 DEF MarkReady, Retract, SetDraft, PageOpens, IntervalPasses, StalePasses, rows, vars,
              DraftStep, DraftStatuses
<1>4. page' \in [held : BOOLEAN, cool : BOOLEAN]
  BY DEF MarkReady, Retract, SetDraft, PageOpens, IntervalPasses, StalePasses, rows, vars, RowsInv
<1>5. recent' \subseteq recent
  BY DEF MarkReady, Retract, SetDraft, PageOpens, IntervalPasses, StalePasses, rows, vars
<1>6. old' \subseteq old \cup Exists'
  BY <1>1 DEF MarkReady, Retract, SetDraft, PageOpens, IntervalPasses, StalePasses, rows, vars,
              Exists
<1> QED BY <1>2, <1>3, <1>4, <1>5, <1>6 DEF Step, MarkStep

LEMMA RowsInitial == Init => RowsInv
<1> SUFFICES ASSUME Init PROVE RowsInv OBVIOUS
<1>1. PageInv BY InitInv
<1>3. draft \in [Drafts -> DraftRow] /\ \A d \in Drafts : draft[d].canon = NoAttempt
  BY DEF Init, DraftRow, DraftStatuses
<1>4. /\ finished \in Seq(Attempts) /\ IsInjective(finished)
      /\ page \in [held : BOOLEAN, cool : BOOLEAN]
      /\ recent \subseteq Exists /\ old \subseteq Exists /\ DOMAIN seen = Attempts
  BY DEF Init, IsInjective
<1>5. ASSUME NEW a \in Attempts PROVE RowGood(a)
  BY DEF Init, RowGood, NoRow
<1>6. ASSUME NEW r \in Handlers PROVE ReadGood(req[r])
  BY DEF Init, ReadGood, Idle
<1> QED BY <1>1, <1>3, <1>4, <1>5, <1>6 DEF RowsInv

LEMMA RowsNext == RowsInv /\ [Next]_vars => RowsInv' /\ Step
<1> SUFFICES ASSUME RowsInv, [Next]_vars PROVE RowsInv' /\ Step OBVIOUS
<1>1. ASSUME NEW r \in Requests, Request(r) PROVE Step
  BY <1>1, RequestStep DEF Handlers
<1>2. ASSUME NEW r \in Refreshers, Refresher(r) PROVE Step
  <2>1. r \in Handlers BY DEF Handlers
  <2>2. ASSUME NEW a \in Attempts, RouteRefresh(r, a) PROVE Step
    BY <2>1, <2>2, RefreshStarts DEF RouteRefresh
  <2>3. ASSUME NEW d \in Drafts, ReconcileRefresh(r, d) PROVE Step
    <3>1. Newest(Left(r, d)) \in Attempts BY <2>3, LeftNewest DEF ReconcileRefresh
    <3> QED BY <2>1, <2>3, <3>1, RefreshStarts DEF ReconcileRefresh
  <2> QED BY <1>2, <2>1, <2>2, <2>3, AnswerHeard, RefreshCommits, StaleMarked, RequestStep,
            ReconcileEnds DEF Refresher
<1>3. ASSUME NEW r \in Handlers, HandlerDies(r) PROVE Step
  BY <1>3, RequestStep
<1>4. Step
  BY <1>1, <1>2, <1>3, WorkerStep, OutsideStep DEF Next, Operator
<1>5. PageInv' BY PageStep DEF RowsInv
<1> QED BY <1>4, <1>5, RowsStep DEF Step

\* The rows stay within their types, finished_at orders distinct attempts, and
\* only attempts that were created are recent or old.
THEOREM RowsTyped == Spec => []TypeOK
<1>1. RowsInv => TypeOK
  BY DEF RowsInv, PageInv, Types, TypeOK, Row, PubRow, DraftRow
<1> QED BY <1>1, RowsInitial, RowsNext, PTL DEF Spec

\* What counts as a publication belongs to an attempt that holds a platform
\* reference and was posted, and a draft's canonical attempt is one of these:
\* no retry, late answer or sync from a row read earlier takes that back.
THEOREM PublishedBacked == Spec => []PublishedIsBacked
<1>1. RowsInv => PublishedIsBacked
  BY DEF RowsInv, RowGood, PublishedIsBacked
<1> QED BY <1>1, RowsInitial, RowsNext, PTL DEF Spec

-----------------------------------------------------------------------------
(***************************************************************************)
(* Approvals.  An attempt that was posted, or may still be, has used up an *)
(* approval of its draft.  One more is held by a draft that is READY, or   *)
(* by the requests that passed the gate with it: until one of them commits *)
(* its attempt, which keeps the others from committing theirs for as long  *)
(* as it is Taken.  It stops being Taken while a request is still past the *)
(* gate only by losing what it could be posted with, and gives back the    *)
(* approval it used.                                                       *)
(***************************************************************************)
Fresh == {"QUEUED", "RUNNING", "UPLOADING"}
MayPost(a) == \/ a \in Posted \/ att[a].status = "QUEUED"
              \/ work[a] \in {"gated", "running", "sending"}
Taken(a) == /\ a \notin Posted /\ MayPost(a)
            /\ att[a].status \in Fresh /\ a \notin old
            /\ \A h \in Handlers : req[h].pc = "mark" => req[h].a # a

Ready(d) == draft[d].status = "READY"
Gated(d) == \E r \in Requests : req[r].pc = "gated" /\ req[r].d = d
Use(d) == {a \in Of(att, d) : MayPost(a)}
Spare(d) == IF Ready(d) \/ (Gated(d) /\ \A a \in Of(att, d) : ~Taken(a)) THEN 1 ELSE 0

ApprovalsInv ==
  /\ approvals \in [Drafts -> Nat]
  /\ \A d \in Drafts : Cardinality(Use(d)) + Spare(d) <= approvals[d]

\* What a step may do with an attempt that is there.
Holds(a) ==
  /\ MayPost(a)' => MayPost(a)
  /\ Taken(a) /\ (\E r \in Requests : req'[r].pc = "gated") => Taken(a)' \/ ~MayPost(a)'

\* It leaves the attempt alone, and a handler takes it in hand only if stale.
Still(a) ==
  /\ att'[a] = att[a] /\ work'[a] = work[a] /\ (a \in Posted' <=> a \in Posted)
  /\ a \in old' => a \in old
  /\ \A h \in Handlers : req'[h].pc = "mark" /\ req'[h].a = a =>
       MayBeStale(a) \/ (req[h].pc = "mark" /\ req[h].a = a)

LEMMA StillHolds == ASSUME NEW a, Still(a) PROVE Holds(a)
<1>1. MayPost(a)' = MayPost(a) BY DEF Still, MayPost
<1>2. Taken(a) => Taken(a)' BY <1>1 DEF Still, Taken, MayBeStale, Fresh
<1> QED BY <1>1, <1>2 DEF Holds

\* Its reference is known: it is posted, or will never be.
LEMMA KnownHolds ==
  ASSUME PageInv, PageInv', NEW a \in Attempts, att[a].ids, att'[a].ids,
         a \in Posted' <=> a \in Posted
  PROVE  Holds(a)
<1>1. att[a].status # "QUEUED" /\ work[a] \notin {"gated", "running", "sending"}
  BY DEF PageInv, AttemptGood, Types
<1>2. att'[a].status # "QUEUED" /\ work'[a] \notin {"gated", "running", "sending"}
  BY DEF PageInv, AttemptGood, Types
<1> QED BY <1>1, <1>2 DEF Holds, MayPost, Taken

\* A worker writes the row of its own attempt, and its job.
LEMMA WorkerHolds ==
  ASSUME PageInv, PageInv', NEW b \in Attempts, NEW a \in Attempts,
         Worker(b) \/ CancelJob(b)
  PROVE  Holds(a)
<1>1. /\ att \in [Attempts -> Row] /\ work \in [Attempts -> WorkStates] /\ Types
  BY DEF PageInv, Types
<1>2. /\ UNCHANGED <<post, req>> /\ old' \subseteq old
      /\ \E row : att' = [att EXCEPT ![b] = row]
      /\ \E w : work' = [work EXCEPT ![b] = w]
  <2>1. UNCHANGED att => att' = [att EXCEPT ![b] = att[b]] BY <1>1
  <2> QED BY <2>1
     DEF Worker, ExecResume, ExecRaise, ExecRefuse, ExecGate, ExecRun, ExecNoAccount,
         ExecUpload, ExecSuccess, ExecError, ExecInvalid, Answered, ExecSync, Crash,
         CancelJob, WriteAttempt, Sync, rows
<1>3. Posted' = Posted BY <1>2 DEF Posted
<1>4. CASE b # a
  <2>1. Still(a) BY <1>1, <1>2, <1>3, <1>4 DEF Still
  <2> QED BY <2>1, StillHolds
<1>5. ASSUME b = a, att'[a].status # "QUEUED", work'[a] \notin {"gated", "running", "sending"}
      PROVE  Holds(a)
  BY <1>3, <1>5 DEF Holds, MayPost, Taken
<1>6. ASSUME b = a, att'[a].status \in Fresh, MayPost(a)
      PROVE  Holds(a)
  BY <1>2, <1>3, <1>6 DEF Holds, MayPost, Taken
<1>7. ASSUME b = a, att' = att, work'[a] \notin {"gated", "running", "sending"}
      PROVE  Holds(a)
  <2>1. CASE att[a].status = "QUEUED" BY <1>6, <1>7, <2>1 DEF MayPost, Fresh
  <2>2. CASE att[a].status # "QUEUED" BY <1>5, <1>7, <2>2
  <2> QED BY <2>1, <2>2
<1>8. \A row : Outcome(row) \notin {"gated", "running", "sending"} BY DEF Outcome
<1>9. Fail(att[a]).status # "QUEUED" BY <1>1, FailRow
<1>10. CASE ExecResume(a) /\ b = a
  <2>1. att' = [att EXCEPT ![a] = IF att[a].status \in ActiveStatuses
                                    THEN Fail(att[a]) ELSE att[a]]
    BY <1>10 DEF ExecResume, WriteAttempt, Sync
  <2>2. att'[a].status # "QUEUED" BY <1>1, <1>9, <1>10, <2>1 DEF ExecResume
  <2>3. work'[a] \notin {"gated", "running", "sending"} BY <1>1, <1>8, <1>10 DEF ExecResume
  <2> QED BY <1>5, <1>10, <2>2, <2>3
<1>11. CASE (ExecRaise(a) \/ Crash(a) \/ CancelJob(a)) /\ b = a
  <2>1. att' = att /\ work'[a] \notin {"gated", "running", "sending"}
    BY <1>1, <1>11 DEF ExecRaise, Crash, CancelJob, rows
  <2> QED BY <1>7, <1>11, <2>1
<1>12. CASE ExecRefuse(a) /\ b = a
  <2>1. att' = [att EXCEPT ![a] = Fail(att[a])] /\ work' = [work EXCEPT ![a] = "waiting"]
    BY <1>12 DEF ExecRefuse, WriteAttempt, Sync
  <2> QED BY <1>1, <1>5, <1>9, <1>12, <2>1
<1>13. CASE ExecGate(a) /\ b = a
  BY <1>6, <1>13 DEF ExecGate, MayPost, Fresh, rows
<1>14. CASE (ExecRun(a) \/ ExecUpload(a)) /\ b = a
  <2>1. MayPost(a) BY <1>14 DEF ExecRun, ExecUpload, MayPost
  <2>2. CASE Conflict(a)
    <3>1. att' = att /\ work'[a] \notin {"gated", "running", "sending"}
      BY <1>1, <1>14, <2>2 DEF ExecRun, ExecUpload, rows
    <3> QED BY <1>7, <1>14, <3>1
  <2>3. CASE ~Conflict(a)
    <3>1. \E status \in {"RUNNING", "UPLOADING"} :
            att' = [att EXCEPT ![a] = [att[a] EXCEPT !.status = status]]
      BY <1>14, <2>3 DEF ExecRun, ExecUpload, WriteAttempt, Sync
    <3>2. att'[a].status \in Fresh BY <1>1, <3>1 DEF Fresh, Row
    <3> QED BY <1>6, <1>14, <2>1, <3>2
  <2> QED BY <2>2, <2>3
<1>15. CASE ExecNoAccount(a) /\ b = a
  <2>1. att' = [att EXCEPT ![a] = Fail(att[a])] /\ work' = [work EXCEPT ![a] = "sync"]
    BY <1>15 DEF ExecNoAccount
  <2> QED BY <1>1, <1>5, <1>9, <1>15, <2>1
<1>16. ASSUME b = a, NEW new \in Row, Answered(a, new), new.status \notin {"QUEUED", "UPLOADING"}
       PROVE  Holds(a)
  <2>1. PICK read \in Row : read = Uploaded(a) /\ read.status = "UPLOADING"
    BY <1>1, UploadedRow
  <2>2. Merge(att[a], read, new).status = new.status BY <1>1, <1>16, <2>1, MergeRow
  <2>3. att' = [att EXCEPT ![a] = Merge(att[a], read, new)] /\ work' = [work EXCEPT ![a] = "sync"]
    BY <1>16, <2>1 DEF Answered
  <2>4. att'[a].status # "QUEUED" /\ work'[a] = "sync" BY <1>1, <1>16, <2>2, <2>3
  <2> QED BY <1>5, <1>16, <2>4
<1>17. PICK up \in Row : up = Uploaded(a) BY <1>1, UploadedRow
<1>18. CASE ExecSuccess(a) /\ b = a
  <2>1. LET new == [up EXCEPT !.status = "SUCCEEDED", !.ids = TRUE, !.ext = "PUBLISHED"]
        IN new \in Row /\ new.status = "SUCCEEDED"
    BY DEF Row, AttemptStatuses, Evidence
  <2> QED BY <1>16, <1>17, <1>18, <2>1 DEF ExecSuccess
<1>19. CASE ExecError(a) /\ b = a
  <2>1. PICK ids \in BOOLEAN : ids = (post[a] # "none") OBVIOUS
  <2>2. [up EXCEPT !.ids = ids] \in Row BY DEF Row
  <2>3. PICK with \in Row : with = [up EXCEPT !.ids = ids] BY <2>2
  <2>4. Fail(with) \in Row /\ Fail(with).status \in {"NEEDS_RECONCILIATION", "FAILED"}
    BY FailRow
  <2>5. Answered(a, Fail(with)) BY <1>17, <1>19, <2>1, <2>3 DEF ExecError
  <2> QED BY <1>16, <1>19, <2>4, <2>5
<1>20. CASE ExecInvalid(a) /\ b = a
  <2>1. Fail(up) \in Row /\ Fail(up).status \in {"NEEDS_RECONCILIATION", "FAILED"}
    BY FailRow
  <2>2. Answered(a, Fail(up)) BY <1>17, <1>20 DEF ExecInvalid
  <2> QED BY <1>16, <1>20, <2>1, <2>2
<1>21. CASE ExecSync(a) /\ b = a
  <2>1. att' = att BY <1>1, <1>21 DEF ExecSync, WriteAttempt, Sync
  <2>2. work'[a] \notin {"gated", "running", "sending"} BY <1>1, <1>8, <1>21 DEF ExecSync
  <2> QED BY <1>7, <1>21, <2>1, <2>2
<1> QED BY <1>4, <1>10, <1>11, <1>12, <1>13, <1>14, <1>15, <1>18, <1>19, <1>20, <1>21 DEF Worker

LEMMA HoldStep ==
  ASSUME PageInv, PageInv', [Next]_vars, NEW a \in Attempts, att[a].status # "none"
  PROVE  Holds(a)
<1>1. /\ att \in [Attempts -> Row] /\ work \in [Attempts -> WorkStates] /\ Types
      /\ post \in [Attempts -> Posts] /\ DOMAIN req = Handlers
      /\ \A r \in Handlers : HandlerOK(req[r]) /\ HandlerGood(req[r])
  BY DEF PageInv, Types
<1>2. ASSUME NEW b \in Attempts, Worker(b) \/ CancelJob(b) PROVE Holds(a)
  BY <1>2, WorkerHolds
<1>3. ASSUME NEW b \in Attempts, Receives(b) PROVE Holds(a)
  <2>1. /\ UNCHANGED <<att, work, req>> /\ \A r \in Requests : req[r] = Idle
        /\ work[b] = "sending" /\ \E p : post' = [post EXCEPT ![b] = p]
    BY <1>3 DEF Receives, rows
  <2>2. a \in Posted' => a \in Posted \/ a = b BY <1>1, <2>1 DEF Posted
  <2>3. \A r \in Requests : req'[r].pc # "gated" BY <2>1 DEF Idle
  <2> QED BY <2>1, <2>2, <2>3 DEF Holds, MayPost
<1>4. ASSUME NEW b \in Attempts, Processes(b) PROVE Holds(a)
  <2>1. UNCHANGED <<att, work, req, old>> BY <1>4 DEF Processes, rows
  <2>2. Posted' = Posted BY <1>1, <1>4 DEF Processes, Posted
  <2> QED BY <2>1, <2>2, StillHolds DEF Still
\* Nothing of an attempt changes, and nobody takes one in hand.
<1>5. ASSUME UNCHANGED <<att, work, post>>, old' \subseteq old,
             \A h \in Handlers : req'[h] = req[h] \/ req'[h].pc # "mark"
      PROVE  Holds(a)
  BY <1>5, StillHolds DEF Still, Posted
<1>6. ASSUME NEW r \in Handlers, NEW d \in Drafts, EnqueueGate(r, d) PROVE Holds(a)
  <2>1. [Idle EXCEPT !.pc = "gated", !.d = d, !.read = draft[d]].pc = "gated" BY DEF Idle
  <2> QED BY <1>1, <1>5, <1>6, <2>1 DEF EnqueueGate, rows
<1>7. ASSUME NEW r \in Handlers, EnqueueCommit(r) PROVE Holds(a)
  <2>1. /\ UNCHANGED <<post, old>> /\ req' = [req EXCEPT ![r] = Idle] /\ Idle.pc # "mark"
    BY <1>7 DEF EnqueueCommit, Idle
  <2>2. att'[a] = att[a] /\ work'[a] = work[a]
    <3>1. CASE UNCHANGED <<rows, work>> BY <3>1 DEF rows
    <3>2. CASE NextAttempt <= N
      <4>1. NextAttempt # a BY <3>2, NextIsFree DEF PageInv
      <4> QED BY <1>1, <1>7, <4>1 DEF EnqueueCommit, Sync, rows
    <3> QED BY <1>7, <3>1, <3>2 DEF EnqueueCommit
  <2> QED BY <1>1, <2>1, <2>2, StillHolds DEF Still, Posted
<1>8. ASSUME NEW r \in Handlers, HandlerDies(r) PROVE Holds(a)
  <2>1. Idle.pc # "mark" BY DEF Idle
  <2> QED BY <1>1, <1>5, <1>8, <2>1 DEF HandlerDies, rows
<1>9. ASSUME NEW r \in Handlers, ReconcileSkip(r) PROVE Holds(a)
  <2>1. \A d, upto : [Idle EXCEPT !.pc = "loop", !.d = d, !.upto = upto].pc = "loop"
    BY DEF Idle
  <2> QED BY <1>1, <1>5, <1>9, <2>1 DEF ReconcileSkip, rows
<1>10. ASSUME NEW r \in Handlers, NEW d, NEW b \in Attempts, StartRefresh(r, d, b) PROVE Holds(a)
  <2>1. [Idle EXCEPT !.pc = "refresh", !.d = d, !.upto = b - 1, !.a = b, !.row = att[b]].pc
          = "refresh"
    BY DEF Idle
  <2> QED BY <1>1, <1>5, <1>10, <2>1 DEF StartRefresh, rows
<1>11. ASSUME NEW r \in Handlers, NEW d \in Drafts, ReconcileEnd(r, d) PROVE Holds(a)
  <2>1. att' = att /\ UNCHANGED <<work, post, old>> /\ req' = [req EXCEPT ![r] = Idle]
        /\ Idle.pc # "mark"
    BY <1>11 DEF ReconcileEnd, Sync, Idle
  <2> QED BY <1>1, <1>5, <2>1
<1>12. ASSUME NEW r \in Handlers, NEW d \in Drafts, FindStale(r, d) PROVE Holds(a)
  <2> DEFINE b == Newest(Left(r, d))
             q == [Idle EXCEPT !.pc = "mark", !.d = d, !.upto = b, !.a = b, !.row = att[b]]
  <2>1. /\ MayBeStale(b) /\ req' = [req EXCEPT ![r] = q]
        /\ UNCHANGED <<att, work, post, old>>
    BY <1>12 DEF FindStale, rows
  <2>2. q.a = b BY DEF Idle
  <2> HIDE DEF q, b
  <2>3. req'[r] = q /\ \A h \in Handlers \ {r} : req'[h] = req[h] BY <1>1, <2>1
  <2>4. Still(a) BY <2>1, <2>2, <2>3 DEF Still, Posted
  <2> QED BY <2>4, StillHolds
<1>13. ASSUME NEW r \in Handlers, MarkStale(r) PROVE Holds(a)
  <2>1. PICK b \in Attempts : b = req[r].a /\ req[r].pc = "mark" BY <1>1, <1>13, MarkRow
  <2>2. /\ UNCHANGED <<post, work>> /\ old' \subseteq old
        /\ req' = [req EXCEPT ![r] =
             [Idle EXCEPT !.pc = "loop", !.d = req[r].d, !.upto = b, !.a = b]]
        /\ \E row \in Row :
             /\ row.status \in {"FAILED", "NEEDS_RECONCILIATION", att[b].status}
             /\ att' = [att EXCEPT ![b] = row]
    BY <1>1, <1>13, <2>1, MarkRow
  <2>3. [Idle EXCEPT !.pc = "loop", !.d = req[r].d, !.upto = b, !.a = b].pc = "loop"
    BY DEF Idle
  <2>4. CASE b # a
    <3>1. \A h \in Handlers : req'[h] = req[h] \/ req'[h].pc # "mark" BY <1>1, <2>2, <2>3
    <3>2. att'[a] = att[a] BY <1>1, <2>2, <2>4
    <3> QED BY <2>2, <3>1, <3>2, StillHolds DEF Still, Posted
  <2>5. CASE b = a
    <3>1. ~Taken(a) BY <2>1, <2>5 DEF Taken
    <3>2. att'[a].status = "QUEUED" => att[a].status = "QUEUED" BY <1>1, <2>2, <2>5
    <3>3. Posted' = Posted BY <2>2 DEF Posted
    <3> QED BY <2>2, <3>1, <3>2, <3>3 DEF Holds, MayPost
  <2> QED BY <2>4, <2>5
\* A refresh writes the row of an attempt whose reference is known.
<1>14. ASSUME NEW b \in Attempts, att[b].ids, \E row \in Row : att' = [att EXCEPT ![b] = row],
              UNCHANGED <<post, work, old>>, att'[b].ids,
              \A h \in Handlers : req'[h] = req[h] \/ req'[h].pc # "mark"
       PROVE  Holds(a)
  <2>1. Posted' = Posted BY <1>14 DEF Posted
  <2>2. CASE b = a BY <1>14, <2>1, <2>2, KnownHolds
  <2>3. CASE b # a BY <1>1, <1>14, <2>1, <2>3, StillHolds DEF Still
  <2> QED BY <2>2, <2>3
<1>15. ASSUME NEW r \in Handlers, RefreshCommit(r) PROVE Holds(a)
  <2>1. PICK b \in Attempts : b = req[r].a /\ req[r].pc = "refresh"
    BY <1>1, <1>15, RefreshCommitRow
  <2>2. att[b].ids BY <1>1, <2>1 DEF HandlerGood
  <2>3. /\ UNCHANGED <<post, work, old>>
        /\ \/ UNCHANGED att /\ req' = [req EXCEPT ![r] = Idle]
           \/ \E row \in Row :
                /\ row.draft = att[b].draft /\ row.ids = att[b].ids
                /\ row.ext = att[b].ext
                /\ row.status = IF req[r].row.status # "RECONCILING"
                                   THEN "RECONCILING" ELSE att[b].status
                /\ att' = [att EXCEPT ![b] = row]
                /\ req' = [req EXCEPT ![r] =
                     [Idle EXCEPT !.pc = "call", !.d = req[r].d, !.upto = req[r].upto,
                                  !.a = b, !.row = row]]
    <3>1. Types BY <1>1
    <3> QED BY <1>15, <2>1, <3>1, RefreshCommitRow
  <2>4. CASE UNCHANGED att /\ req' = [req EXCEPT ![r] = Idle]
    <3>1. Idle.pc # "mark" BY DEF Idle
    <3> QED BY <1>1, <1>5, <2>3, <2>4, <3>1
  <2>5. ASSUME NEW row \in Row, row.ids = att[b].ids, att' = [att EXCEPT ![b] = row],
               req' = [req EXCEPT ![r] =
                 [Idle EXCEPT !.pc = "call", !.d = req[r].d, !.upto = req[r].upto,
                              !.a = b, !.row = row]]
        PROVE  Holds(a)
    <3>1. [Idle EXCEPT !.pc = "call", !.d = req[r].d, !.upto = req[r].upto,
                       !.a = b, !.row = row].pc = "call"
      BY DEF Idle
    <3>2. att'[b].ids /\ \A h \in Handlers : req'[h] = req[h] \/ req'[h].pc # "mark"
      BY <1>1, <2>2, <2>5, <3>1
    <3> QED BY <1>14, <2>2, <2>3, <2>5, <3>2
  <2> QED BY <2>3, <2>4, <2>5
<1>16. ASSUME NEW r \in Handlers, RefreshAnswer(r) \/ RefreshError(r) PROVE Holds(a)
  <2>1. PICK new \in Row : \E effect :
          /\ Heard(r, new, effect)
          /\ req[r].pc = "call" /\ new.ids = req[r].row.ids
    BY <1>1, <1>16, HeardRow
  <2>2. PICK b \in Attempts, read \in Row : b = req[r].a /\ read = req[r].row /\ att[b].ids
    BY <1>1, <2>1 DEF HandlerOK, HandlerGood
  <2>3. PICK row \in Row : row = Merge(att[b], read, new) /\ row.ids
    <3>1. PICK was \in Row : was = att[b] BY <1>1
    <3>2. PICK row \in Row : /\ row = Merge(was, read, new)
                             /\ row.ids = IF new.ids # read.ids THEN new.ids ELSE was.ids
      BY MergeRow
    <3> QED BY <2>1, <2>2, <3>1, <3>2
  <2>4. att' = [att EXCEPT ![b] = row] /\ UNCHANGED <<post, work, old>>
    BY <2>1, <2>2, <2>3 DEF Heard, Sync
  <2>5. PICK q : Resting(q) /\ req' = [req EXCEPT ![r] = q]
    BY <2>1, IdleStates DEF Heard
  <2>6. \A h \in Handlers : req'[h] = req[h] \/ req'[h].pc # "mark"
    BY <1>1, <2>5 DEF Resting
  <2>7. att'[b].ids BY <1>1, <2>3, <2>4
  <2> QED BY <1>14, <2>2, <2>4, <2>6, <2>7
<1>17. CASE StalePasses
  <2>1. UNCHANGED <<att, work, post, req>> /\ \A r \in Handlers : req[r] = Idle
    BY <1>17 DEF StalePasses, Calm, rows
  <2>2. \A r \in Requests : req'[r].pc # "gated" BY <2>1 DEF Idle, Handlers
  <2> QED BY <2>1, <2>2 DEF Holds, MayPost, Posted
<1>18. CASE \/ \E d \in Drafts : MarkReady(d) \/ Retract(d)
            \/ PageOpens \/ IntervalPasses \/ UNCHANGED vars
  <2>1. UNCHANGED <<att, work, post, old, req>>
    BY <1>18 DEF MarkReady, Retract, SetDraft, PageOpens, IntervalPasses, rows, vars
  <2> QED BY <1>5, <2>1
<1>19. ASSUME NEW r \in Requests, Request(r) PROVE Holds(a)
  BY <1>6, <1>7, <1>19 DEF Request, Handlers
<1>20. ASSUME NEW r \in Refreshers, Refresher(r) PROVE Holds(a)
  <2>1. r \in Handlers BY DEF Handlers
  <2>2. ASSUME NEW b \in Attempts, RouteRefresh(r, b) PROVE Holds(a)
    BY <1>10, <2>1, <2>2 DEF RouteRefresh
  <2>3. ASSUME NEW d \in Drafts, ReconcileRefresh(r, d) PROVE Holds(a)
    <3>1. Newest(Left(r, d)) \in Attempts BY <2>3, LeftNewest DEF ReconcileRefresh
    <3> QED BY <1>10, <2>1, <2>3, <3>1 DEF ReconcileRefresh
  <2> QED BY <1>9, <1>11, <1>12, <1>13, <1>15, <1>16, <1>20, <2>1, <2>2, <2>3 DEF Refresher
<1> QED BY <1>2, <1>3, <1>4, <1>8, <1>17, <1>18, <1>19, <1>20 DEF Next, Operator

LEMMA UseFinite == ASSUME NEW d PROVE IsFiniteSet(Use(d)) /\ Cardinality(Use(d)) \in Nat
<1>1. IsFiniteSet(Attempts) BY FS_Interval, PublishAssumption DEF Attempts
<1>2. IsFiniteSet(Use(d)) BY <1>1, FS_Subset DEF Use, Of
<1> QED BY <1>2, FS_CardinalityType

\* A sync never makes a draft READY that has an attempt: the last one is not
\* SUCCEEDED without being published and in the order of finished_at.
LEMMA SyncNotReady ==
  ASSUME RowsInv', NEW d \in Drafts, NEW read, Of(att', d) # {}
  PROVE  SyncDraft(read, att', finished', d).status # "READY"
<1> DEFINE c == Canonical(att', finished', d)
           a == Newest(Of(att', d))
<1>1. /\ finished' \in Seq(Attempts)
      /\ \A b \in Attempts : RowGood(b)' /\ AttemptGood(b)'
  BY DEF RowsInv, PageInv
<1>2. \A b \in Of(att', d) : att'[b].ext = "PUBLISHED" => b \in Range(finished')
  BY <1>1 DEF RowGood, AttemptGood, Of
<1>3. a \in Of(att', d) BY NewestIn DEF Of
<1>4. CASE att'[a].status = "SUCCEEDED"
  <2>1. att'[a].ext = "PUBLISHED" BY <1>1, <1>3, <1>4 DEF RowGood, Of
  <2>2. c # NoAttempt BY <1>1, <1>2, <1>3, <2>1, SomeCanonical
  <2> QED BY <2>2 DEF SyncDraft
<1>5. CASE att'[a].status # "SUCCEEDED"
  <2>1. att'[a] \in Row /\ att'[a].status # "none"
    BY <1>1, <1>3, PublishAssumption DEF RowsInv, PageInv, Types, RowGood, Of
  <2>2. LatestShows(att'[a]) # "READY"
    BY <1>5, <2>1 DEF LatestShows, Row, AttemptStatuses, ActiveStatuses
  <2> QED BY <2>2 DEF SyncDraft
<1> QED BY <1>4, <1>5

\* Creating an attempt takes its draft out of READY, and readies no other.
LEMMA CreatedNotReady ==
  ASSUME RowsInv, RowsInv', NEW a \in Attempts, Creates(a), NEW d \in Drafts, Ready(d)'
  PROVE  Ready(d) /\ d # att'[a].draft
<1>1. draft \in [Drafts -> DraftRow] /\ att' \in [Attempts -> Row]
  BY DEF RowsInv, PageInv, Types
<1>2. PICK read \in DraftRow : read.status = "READY" /\ Sync(att'[a].draft, read, att', finished')
  BY DEF Creates
<1>3. PICK e \in Drafts : e = att'[a].draft BY DEF Creates
<1> DEFINE new == SyncDraft(read, att', finished', e)
<1>4. /\ draft'[e].status = new.status \/ new.status = read.status
      /\ \A f \in Drafts \ {e} : draft'[f] = draft[f]
  BY <1>1, <1>2, <1>3, SyncedRow, SyncedStatus
<1>5. new.status # "READY" BY <1>3, SyncNotReady DEF Of
<1>6. draft'[e].status # "READY" BY <1>2, <1>4, <1>5
<1> QED BY <1>3, <1>4, <1>6 DEF Ready

\* The operator alone makes a draft READY.
LEMMA ReadyApproved ==
  ASSUME RowsInv, RowsInv', Step, NEW d \in Drafts, Ready(d)', approvals \in [Drafts -> Nat]
  PROVE  Ready(d) \/ approvals'[d] = approvals[d] + 1
<1>1. draft \in [Drafts -> DraftRow] /\ att' \in [Attempts -> Row]
  BY DEF RowsInv, PageInv, Types
<1>2. CASE UNCHANGED <<draft, pub, approvals>> BY <1>2 DEF Ready
<1>3. ASSUME NEW e \in Drafts, NEW status \in DraftStatuses,
             draft' = [draft EXCEPT ![e].status = status],
             \/ status # "READY" /\ UNCHANGED approvals
             \/ approvals' = [approvals EXCEPT ![e] = @ + 1]
      PROVE  Ready(d) \/ approvals'[d] = approvals[d] + 1
  <2>1. CASE e = d
    BY <1>1, <1>3, <2>1 DEF Ready, DraftRow
  <2>2. CASE e # d BY <1>1, <1>3, <2>2 DEF Ready
  <2> QED BY <2>1, <2>2
<1>4. ASSUME NEW e \in Drafts, NEW read \in DraftRow, Sync(e, read, att', finished'),
             read = draft[e] \/ Of(att', e) # {}
      PROVE  Ready(d)
  <2> DEFINE new == SyncDraft(read, att', finished', e)
  <2>1. /\ \A f \in Drafts \ {e} : draft'[f] = draft[f]
        /\ \/ draft'[e].status = new.status
           \/ new.status = read.status /\ draft'[e].status = draft[e].status
    BY <1>1, <1>4, SyncedRow, SyncedStatus
  <2>2. CASE e # d BY <2>1, <2>2 DEF Ready
  <2>3. CASE e = d /\ Of(att', e) # {}
    <3>1. new.status # "READY" BY <2>3, SyncNotReady
    <3> HIDE DEF new
    <3> QED BY <2>1, <2>3, <3>1 DEF Ready
  <2>4. CASE e = d /\ Of(att', e) = {}
    <3>1. Canonical(att', finished', e) = NoAttempt BY <2>4, CanonicalIsPublished
    <3>2. new.status = read.status /\ read = draft[e] BY <1>4, <2>4, <3>1 DEF SyncDraft
    <3> HIDE DEF new
    <3> QED BY <2>1, <2>4, <3>2 DEF Ready
  <2> QED BY <2>2, <2>3, <2>4
<1>5. ASSUME NEW a \in Attempts, Creates(a) PROVE Ready(d)
  BY <1>5, CreatedNotReady
<1> QED BY <1>2, <1>3, <1>4, <1>5 DEF Step, DraftStep

\* A request is past the gate only with a draft that was READY.
LEMMA GatedReady ==
  ASSUME Step, NEW d, Gated(d)'
  PROVE  Gated(d) \/ Ready(d)
BY DEF Gated, Ready, Step, HandlerStep, Handlers

LEMMA ApprovalsGrow ==
  ASSUME Step, approvals \in [Drafts -> Nat]
  PROVE  approvals' \in [Drafts -> Nat] /\ \A d \in Drafts : approvals'[d] >= approvals[d]
<1>1. ASSUME UNCHANGED approvals
      PROVE  approvals' \in [Drafts -> Nat] /\ \A d \in Drafts : approvals'[d] >= approvals[d]
  BY <1>1
<1>2. ASSUME NEW d \in Drafts, approvals' = [approvals EXCEPT ![d] = @ + 1]
      PROVE  approvals' \in [Drafts -> Nat] /\ \A e \in Drafts : approvals'[e] >= approvals[e]
  BY <1>2
<1> QED BY <1>1, <1>2 DEF Step, DraftStep, Creates

\* A draft that gets no attempt.
LEMMA Carried ==
  ASSUME PageInv, ApprovalsInv, NEW d \in Drafts, Use(d)' \subseteq Use(d),
         Ready(d)' => Ready(d) \/ approvals'[d] = approvals[d] + 1,
         Gated(d)' => Gated(d) \/ Ready(d),
         \A a \in Of(att, d) : a \in Of(att', d) /\ Holds(a),
         approvals'[d] \in Nat, approvals'[d] >= approvals[d]
  PROVE  Cardinality(Use(d)') + Spare(d)' <= approvals'[d]
<1>1. /\ IsFiniteSet(Use(d)) /\ Cardinality(Use(d)) \in Nat
      /\ Cardinality(Use(d)) + Spare(d) <= approvals[d] /\ approvals[d] \in Nat
  BY UseFinite DEF ApprovalsInv
<1>2. Cardinality(Use(d)') \in Nat /\ Cardinality(Use(d)') <= Cardinality(Use(d))
  BY <1>1, FS_Subset, FS_CardinalityType
<1>3. Spare(d) \in {0, 1} /\ Spare(d)' \in {0, 1} BY DEF Spare
<1>4. CASE Spare(d)' = 0 \/ Spare(d) = 1 BY <1>1, <1>2, <1>3, <1>4
<1>5. CASE approvals'[d] = approvals[d] + 1 BY <1>1, <1>2, <1>3, <1>5
<1>6. CASE Spare(d)' = 1 /\ Spare(d) = 0 /\ approvals'[d] # approvals[d] + 1
  <2>1. ~Ready(d) /\ ~Ready(d)' BY <1>6 DEF Spare
  <2>2. Gated(d)' /\ Gated(d) /\ \A a \in Of(att', d) : ~Taken(a)'
    BY <1>6, <2>1 DEF Spare
  <2>3. PICK a \in Of(att, d) : Taken(a) BY <1>6, <2>1, <2>2 DEF Spare
  <2>4. ~MayPost(a)' BY <2>2, <2>3 DEF Holds, Gated
  <2>5. a \in Use(d) /\ a \notin Use(d)' BY <2>3, <2>4 DEF Use, Taken
  <2>6. Cardinality(Use(d) \ {a}) = Cardinality(Use(d)) - 1 /\ IsFiniteSet(Use(d) \ {a})
    BY <1>1, <2>5, FS_RemoveElement
  <2>7. Cardinality(Use(d)') <= Cardinality(Use(d) \ {a})
    BY <2>5, <2>6, FS_Subset
  <2> QED BY <1>1, <1>2, <1>6, <2>6, <2>7
<1> QED BY <1>3, <1>4, <1>5, <1>6

\* What a step makes of the attempts of a draft.
LEMMA UseStep ==
  ASSUME RowsInv, RowsInv', Step, [Next]_vars, NEW d \in Drafts
  PROVE  /\ \A a \in Of(att, d) : a \in Of(att', d) /\ Holds(a)
         /\ \A b \in Use(d)' \ Use(d) : Creates(b) /\ att'[b].draft = d
<1>1. PageInv /\ PageInv' BY DEF RowsInv
<1>2. ASSUME NEW a \in Of(att, d) PROVE a \in Of(att', d) /\ Holds(a)
  <2>1. a \in Attempts /\ att[a].draft = d BY DEF Of
  <2>2. att[a].status # "none" BY <2>1, PublishAssumption DEF RowsInv, RowGood
  <2>3. att'[a].draft = att[a].draft BY <2>1, <2>2 DEF Step, AttStep, Rewrites, Creates
  <2> QED BY <1>1, <2>1, <2>2, <2>3, HoldStep DEF Of
<1>3. ASSUME NEW b \in Use(d)' \ Use(d) PROVE Creates(b) /\ att'[b].draft = d
  <2>1. b \in Attempts /\ att'[b].draft = d /\ MayPost(b)' BY DEF Use, Of
  <2>2. att'[b].status # "none" BY <2>1, PublishAssumption DEF RowsInv, RowGood
  <2>3. CASE Creates(b) BY <2>1, <2>3
  <2>4. CASE ~Creates(b)
    <3>1. att[b].status # "none" /\ att[b].draft = d
      BY <2>1, <2>2, <2>4 DEF Step, AttStep, Rewrites, Creates
    <3>2. b \in Of(att, d) BY <2>1, <3>1 DEF Of
    <3>3. MayPost(b) BY <1>2, <2>1, <3>2 DEF Holds
    <3> QED BY <3>2, <3>3 DEF Use
  <2> QED BY <2>3, <2>4
<1> QED BY <1>2, <1>3

\* An attempt is created with the approval its request held.
LEMMA CreatedHolds ==
  ASSUME RowsInv, RowsInv', Step, [Next]_vars, ApprovalsInv,
         NEW a \in Attempts, Creates(a), NEW d \in Drafts, d = att'[a].draft
  PROVE  Cardinality(Use(d)') + Spare(d)' <= approvals'[d]
<1>1. /\ IsFiniteSet(Use(d)) /\ Cardinality(Use(d)) \in Nat
      /\ Cardinality(Use(d)) + Spare(d) <= approvals[d] /\ approvals[d] \in Nat
  BY UseFinite DEF ApprovalsInv
<1>2. Spare(d) = 1
  <2>1. Gated(d) BY DEF Creates, Gated
  <2>2. \A b \in Attempts : att[b].status \notin Fresh
    BY DEF Creates, Conflict, Active, ActiveStatuses, Fresh
  <2>3. \A b \in Of(att, d) : ~Taken(b) BY <2>2 DEF Taken, Of
  <2> QED BY <2>1, <2>3 DEF Spare
<1>3. Spare(d)' = 0
  <2>1. ~Ready(d)' BY CreatedNotReady
  <2>2. a \notin Posted'
    <3>1. att[a].status = "none" BY DEF Creates
    <3>2. post[a] = "none" BY <3>1 DEF RowsInv, RowGood
    <3>3. post'[a] = post[a] BY <3>1 DEF Step, JobStep, Exists
    <3> QED BY <3>2, <3>3 DEF Posted
  <2>3. att'[a].status = "QUEUED" /\ a \notin old'
    BY DEF Creates, RowsInv, Exists
  <2>4. ASSUME NEW h \in Handlers, req'[h].pc = "mark" PROVE req'[h].a # a
    <3>1. req'[h] = req[h] BY <2>4 DEF Creates, Idle
    <3>2. att[req[h].a].status # "none" BY <2>4, <3>1, RowFacts DEF HandlerGood
    <3> QED BY <3>1, <3>2 DEF Creates
  <2>5. Taken(a)' BY <2>2, <2>3, <2>4 DEF Taken, MayPost, Fresh
  <2>6. a \in Of(att', d) BY DEF Of
  <2> QED BY <2>1, <2>5, <2>6 DEF Spare
<1>4. Use(d)' \subseteq Use(d) \cup {a}
  <2>1. ASSUME NEW b \in Use(d)' \ Use(d) PROVE b = a
    <3>1. Creates(b) /\ b \in Attempts BY UseStep DEF Use, Of
    <3>2. att[a].status = "none" /\ att'[a].status = "QUEUED" BY DEF Creates
    <3> QED BY <3>1, <3>2 DEF Creates
  <2> QED BY <2>1
<1>5. /\ IsFiniteSet(Use(d) \cup {a})
      /\ Cardinality(Use(d) \cup {a}) <= Cardinality(Use(d)) + 1
      /\ Cardinality(Use(d) \cup {a}) \in Nat
  <2>1. CASE a \in Use(d)
    <3> DEFINE both == Use(d) \cup {a}
               k == Cardinality(Use(d))
    <3>1. both = Use(d) BY <2>1
    <3> HIDE DEF both
    <3>2. IsFiniteSet(both) /\ Cardinality(both) = k BY <1>1, <3>1
    <3>3. k \in Nat BY <1>1
    <3> HIDE DEF k
    <3>4. IsFiniteSet(both) /\ Cardinality(both) <= k + 1 /\ Cardinality(both) \in Nat
      BY <3>2, <3>3
    <3> QED BY <3>4 DEF both, k
  <2>2. CASE a \notin Use(d) BY <1>1, <2>2, FS_AddElement
  <2> QED BY <2>1, <2>2
<1>6. Cardinality(Use(d)') \in Nat /\ Cardinality(Use(d)') <= Cardinality(Use(d) \cup {a})
  BY <1>4, <1>5, FS_Subset, FS_CardinalityType
<1>7. approvals' = approvals BY DEF Creates
<1> QED BY <1>1, <1>2, <1>3, <1>5, <1>6, <1>7

LEMMA ApprovalsStep ==
  ASSUME RowsInv, RowsInv', Step, [Next]_vars, ApprovalsInv
  PROVE  ApprovalsInv'
<1>1. /\ approvals' \in [Drafts -> Nat] /\ approvals \in [Drafts -> Nat]
      /\ \A d \in Drafts : approvals'[d] >= approvals[d]
  BY ApprovalsGrow DEF ApprovalsInv
<1>2. ASSUME NEW d \in Drafts PROVE Cardinality(Use(d)') + Spare(d)' <= approvals'[d]
  <2>1. CASE \E a \in Attempts : Creates(a) /\ att'[a].draft = d
    BY <2>1, CreatedHolds
  <2>2. CASE Use(d)' \subseteq Use(d)
    <3>1. PageInv BY DEF RowsInv
    <3>2. \A a \in Of(att, d) : a \in Of(att', d) /\ Holds(a) BY UseStep
    <3> QED BY <1>1, <2>2, <3>1, <3>2, ReadyApproved, GatedReady, Carried
  <2>3. CASE ~(Use(d)' \subseteq Use(d))
    <3>1. PICK b \in Use(d)' \ Use(d) : TRUE BY <2>3
    <3>2. b \in Attempts BY DEF Use, Of
    <3> QED BY <2>1, <3>2, UseStep
  <2> QED BY <2>2, <2>3
<1> QED BY <1>1, <1>2 DEF ApprovalsInv

LEMMA ApprovalsInitial == Init => ApprovalsInv
<1> SUFFICES ASSUME Init, NEW d \in Drafts PROVE Cardinality(Use(d)) + Spare(d) <= 0
  BY DEF Init, ApprovalsInv
<1>1. Of(att, d) = {} BY PublishAssumption DEF Init, Of, NoRow
<1>2. Cardinality(Use(d)) = 0
  <2>1. Use(d) = {} BY <1>1 DEF Use
  <2> QED BY <2>1, FS_EmptySet
<1>3. ~Ready(d) BY DEF Init, Ready
<1>4. ~Gated(d) BY DEF Init, Gated, Idle, Handlers
<1> QED BY <1>2, <1>3, <1>4 DEF Spare

\* A draft is posted at most as often as the operator approved it, although
\* requests pass the gate with the same draft, workers crash and are retried,
\* stale marks land on uploads, and a failed attempt gives its draft back.
THEOREM PostsApproved == Spec => []OnePostPerApproval
<1>1. Init => RowsInv /\ ApprovalsInv BY RowsInitial, ApprovalsInitial
<1>2. RowsInv /\ ApprovalsInv /\ [Next]_vars => (RowsInv /\ ApprovalsInv)'
  BY RowsNext, ApprovalsStep
<1>3. RowsInv /\ ApprovalsInv => OnePostPerApproval
  <2> SUFFICES ASSUME ApprovalsInv, NEW d \in Drafts
               PROVE  Cardinality(Of(att, d) \cap Posted) <= approvals[d]
    BY DEF OnePostPerApproval
  <2>1. IsFiniteSet(Use(d)) /\ Cardinality(Use(d)) \in Nat BY UseFinite
  <2>2. Of(att, d) \cap Posted \subseteq Use(d) BY DEF Use, MayPost
  <2>3. /\ Cardinality(Of(att, d) \cap Posted) <= Cardinality(Use(d))
        /\ Cardinality(Of(att, d) \cap Posted) \in Nat
    BY <2>1, <2>2, FS_Subset, FS_CardinalityType
  <2>4. Spare(d) \in {0, 1} BY DEF Spare
  <2>5. Cardinality(Use(d)) + Spare(d) <= approvals[d] /\ approvals[d] \in Nat
    BY DEF ApprovalsInv
  <2> QED BY <2>1, <2>3, <2>4, <2>5
<1> QED BY <1>1, <1>2, <1>3, PTL DEF Spec
=============================================================================
