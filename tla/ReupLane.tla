------------------------------ MODULE ReupLane ------------------------------
(***************************************************************************)
(* What holds of the auto lane when its transactions do not overlap: the   *)
(* deployment runs one worker (docker-compose.yml), and a lone transaction *)
(* sees the database as it is and writes what the orchestrator computed.   *)
(* The runs show where each theorem needs this: with two workers whose     *)
(* transactions overlap at will, an older view undoes a later commit.      *)
(***************************************************************************)
EXTENDS ReupProofs, FiniteSetTheorems

\* One actor, or a database that serializes its transactions.
OneAtATime == Overlap = "none" \/ \A a, b \in Actors : a = b

\* The deployed worker at work on the lane while no operator acts.
LoneWorker == Operators = {} /\ \A v, w \in Workers : v = w

\* One transaction is open at most, and the items it read are still those.
SoleOpen == \A a, b \in Actors : pc[a] # "idle" /\ pc[b] # "idle" => a = b
Current == \A a \in Actors : pc[a] = "busy" => \A i \in Items : view[a][i].it = clips[i].it

SerialInv == ReupInv /\ SoleOpen /\ Current

\* Only jobs and dialogues change.
SameItems == \A i \in Items : clips'[i].it = clips[i].it

-----------------------------------------------------------------------------
\* What the invariant says of the database.
LEMMA ClipsAre ==
  ASSUME ReupInv PROVE  clips = [i \in Items |-> clips[i]] /\ \A i \in Items : Fine(clips[i]) /\ Clip(clips[i])
BY DEF ReupInv, Typed, ClipsFine, Fine

\* A transaction that runs alone sees the database as it is.
LEMMA SeenNow ==
  ASSUME SerialInv, NEW a \in Actors, pc[a] # "idle"
  PROVE  Seen(a) = clips /\ \A i \in Items : Read(a)[i].it = clips[i].it
<1>1. pc[a] \in {"busy", "bind"} BY DEF SerialInv, ReupInv, Typed
<1>2. \A i \in Items : Read(a)[i].it = clips[i].it BY <1>1 DEF SerialInv, Current, Read
<1>3. \A i \in Items : Seen(a)[i] = clips[i]
  <2> TAKE i \in Items
  <2>1. clips[i] \in ClipType BY ClipsAre DEF SerialInv, Clip
  <2>2. [clips[i] EXCEPT !.it = clips[i].it] = clips[i] BY <2>1 DEF ClipType
  <2> QED BY <1>2, <2>2 DEF Seen
<1>4. Seen(a) = [i \in Items |-> Seen(a)[i]] BY DEF Seen
<1> QED BY <1>2, <1>3, <1>4, ClipsAre DEF SerialInv

\* and commits what it computed,
LEMMA WriteNow ==
  ASSUME SerialInv, NEW a \in Actors, pc[a] # "idle", NEW db, Write(a, db),
         \A i \in Items : Clip(db[i])
  PROVE  \A i \in Items : clips'[i] = [db[i] EXCEPT !.bind = "no"]
<1> TAKE i \in Items
<1>1. Read(a)[i].it = clips[i].it BY SeenNow
<1>2. clips[i].it \in ItemType /\ db[i].it \in ItemType
  BY ClipsAre, ClipParts DEF SerialInv
<1>3. Flush(db[i].it, Read(a)[i].it, clips[i].it) = db[i].it BY <1>1, <1>2, FlushFine
<1>4. clips'[i] = [db[i] EXCEPT !.it = db[i].it, !.bind = "no"] BY <1>3 DEF Write
<1>5. [db[i] EXCEPT !.it = db[i].it, !.bind = "no"] = [db[i] EXCEPT !.bind = "no"]
  BY DEF Clip, ClipType
<1> QED BY <1>4, <1>5

\* or leaves a clip alone when a preview of another one is to be linked first.
LEMMA CommitNow ==
  ASSUME SerialInv, NEW w \in Workers, pc[w] # "idle", NEW t, NEW db, Commit(w, t, db),
         \A i \in Items : Clip(db[i])
  PROVE  /\ \A i \in Items : clips'[i] = clips[i] \/ clips'[i] = [db[i] EXCEPT !.bind = "no"]
         /\ (\A i \in Items : db[i].bind = "no") => Leave(w) /\ \A i \in Items : clips'[i] = db[i]
<1> DEFINE unlinked == {i \in Items : db[i].bind # "no"}
           i == Min(unlinked)
<1>0. w \in Actors BY ActorsApart
<1>1. CASE unlinked = {}
  <2>1. Write(w, db) /\ Leave(w) BY <1>1 DEF Commit
  <2>2. \A j \in Items : clips'[j] = [db[j] EXCEPT !.bind = "no"] BY <1>0, <2>1, WriteNow
  <2>3. \A j \in Items : db[j] = [db[j] EXCEPT !.bind = "no"]
    <3> TAKE j \in Items
    <3>1. db[j].bind = "no" BY <1>1
    <3> QED BY <3>1 DEF Clip, ClipType
  <2> QED BY <2>1, <2>2, <2>3
<1>2. CASE unlinked # {}
  <2> DEFINE db2 == [j \in Items |-> IF j \in unlinked \ {i} THEN Seen(w)[j] ELSE db[j]]
  <2>1. Write(w, db2) BY <1>2 DEF Commit
  <2>2. \A j \in Items : db2[j] \in {clips[j], db[j]} BY <1>0, SeenNow
  <2>3. \A j \in Items : Clip(db2[j]) BY <2>2, ClipsAre DEF SerialInv
  <2> HIDE DEF db2
  <2>4. \A j \in Items : clips'[j] = [db2[j] EXCEPT !.bind = "no"] BY <1>0, <2>1, <2>3, WriteNow
  <2>5. \A j \in Items : [clips[j] EXCEPT !.bind = "no"] = clips[j]
    BY ClipsAre DEF SerialInv, Fine, Clip, ClipType
  <2>6. \A j \in Items : clips'[j] = clips[j] \/ clips'[j] = [db[j] EXCEPT !.bind = "no"]
    BY <2>2, <2>4, <2>5
  <2> QED BY <1>2, <2>6
<1> QED BY <1>1, <1>2

\* A commit ends the transaction or leaves its second half.
LEMMA CommitMoves ==
  ASSUME NEW w, NEW t, NEW db, Commit(w, t, db)
  PROVE  Leave(w) \/ \E x : Halfway(w, x)
BY DEF Commit

-----------------------------------------------------------------------------
\* Transactions open, go on and end one at a time.
LEMMA SerialEnter ==
  ASSUME OneAtATime, SerialInv, NEW a \in Actors, NEW t, Enter(a, t), clips' = clips
  PROVE  SoleOpen' /\ Current'
<1>1. \A b \in Actors : b # a => pc[b] = "idle" /\ pc'[b] = "idle"
  BY DEF OneAtATime, Enter, SerialInv, ReupInv, Typed
<1>2. view'[a] = clips BY DEF Enter, SerialInv, ReupInv, Typed
<1> QED BY <1>1, <1>2 DEF SoleOpen, Current

LEMMA SerialMove ==
  ASSUME SerialInv, NEW a \in Actors, pc[a] # "idle", Leave(a) \/ \E x : Halfway(a, x)
  PROVE  SoleOpen' /\ Current'
<1>1. \A b \in Actors : b # a => pc[b] = "idle" /\ pc'[b] = "idle"
  BY DEF SerialInv, SoleOpen, Leave, Halfway, ReupInv, Typed
<1>2. pc'[a] # "busy" BY DEF Leave, Halfway, SerialInv, ReupInv, Typed
<1> QED BY <1>1, <1>2 DEF SoleOpen, Current

LEMMA SerialQuiet ==
  ASSUME SerialInv, SameItems, UNCHANGED <<pc, view>>
  PROVE  SoleOpen' /\ Current'
BY DEF SerialInv, SoleOpen, Current, SameItems

\* The items outlive what others do to the jobs of a clip.
LEMMA QuietItems ==
  ASSUME SerialInv, NEW i \in Items, EndSilently(i) \/ Clarify(i)
  PROVE  SameItems /\ UNCHANGED <<pc, view>> /\ \A j \in Items \ {i} : clips'[j] = clips[j]
<1>1. DOMAIN clips = Items /\ \A j \in Items : clips[j] \in ClipType
  BY ClipsAre DEF SerialInv, ReupInv, Typed, Clip
<1>2. CASE EndSilently(i)
  <2>1. PICK n, status : clips' = [clips EXCEPT ![i].jobs[n].status = status]
    BY <1>2 DEF EndSilently
  <2> QED BY <1>1, <1>2, <2>1 DEF EndSilently, SameItems, ClipType
<1>3. CASE Clarify(i)
  BY <1>1, <1>3 DEF Clarify, SameItems, ClipType
<1> QED BY <1>2, <1>3

LEMMA SerialNext ==
  ASSUME OneAtATime, SerialInv, [Next]_vars PROVE SerialInv'
<1>1. ReupInv' BY NextFine DEF SerialInv
<1>2. ASSUME NEW w \in Workers, WorkerStep(w) \/ Die(w) PROVE SoleOpen' /\ Current'
  <2>0. w \in Actors BY ActorsApart
  <2>1. CASE Begin(w)
    <3>1. \E t : Enter(w, t) /\ clips' = clips BY <2>1 DEF Begin
    <3> QED BY <2>0, <3>1, SerialEnter
  <2>2. CASE SettleJob(w)
    <3>1. pc[w] # "idle" /\ \E t, db : Commit(w, t, db) BY <2>2 DEF SettleJob
    <3> QED BY <2>0, <3>1, CommitMoves, SerialMove
  <2>3. CASE LinkPreview(w)
    <3>1. pc[w] # "idle" /\ \E t, db : Commit(w, t, db) BY <2>3 DEF LinkPreview
    <3> QED BY <2>0, <3>1, CommitMoves, SerialMove
  <2>4. CASE Die(w) BY <2>0, <2>4, SerialMove DEF Die
  <2> QED BY <1>2, <2>1, <2>2, <2>3, <2>4 DEF WorkerStep
<1>3. ASSUME NEW o \in Operators, OperatorStep(o) PROVE SoleOpen' /\ Current'
  <2>0. o \in Actors BY OperatorsApart
  <2>1. CASE Ask(o)
    <3>1. \E t : Enter(o, t) /\ clips' = clips BY <2>1 DEF Ask
    <3> QED BY <2>0, <3>1, SerialEnter
  <2>2. CASE Answer(o)
    <3>1. pc[o] # "idle" /\ Leave(o) BY <2>2 DEF Answer
    <3> QED BY <2>0, <3>1, SerialMove
  <2>3. CASE CancelForHold(o)
    <3>1. pc[o] # "idle" /\ \E x : Halfway(o, x) BY <2>3 DEF CancelForHold
    <3> QED BY <2>0, <3>1, SerialMove
  <2>4. CASE MarkHeld(o)
    <3>1. pc[o] # "idle" /\ Leave(o) BY <2>4 DEF MarkHeld
    <3> QED BY <2>0, <3>1, SerialMove
  <2> QED BY <1>3, <2>1, <2>2, <2>3, <2>4 DEF OperatorStep
<1>4. ASSUME NEW i \in Items, EndSilently(i) \/ Clarify(i) PROVE SoleOpen' /\ Current'
  BY <1>4, QuietItems, SerialQuiet
<1>5. SoleOpen' /\ Current'
  <2>1. CASE Next BY <1>2, <1>3, <1>4, <2>1 DEF Next
  <2>2. CASE UNCHANGED vars BY <2>2, SerialQuiet DEF vars, SameItems
  <2> QED BY <2>1, <2>2
<1> QED BY <1>1, <1>5 DEF SerialInv

LEMMA SerialInit == Init \/ LaneInit => SerialInv
<1> SUFFICES ASSUME Init \/ LaneInit PROVE SerialInv OBVIOUS
<1>1. \A a \in Actors : pc[a] = "idle" BY DEF Init, LaneInit, Start
<1> QED BY <1>1, InitFine DEF SerialInv, SoleOpen, Current

LEMMA SerialInvariant == ASSUME OneAtATime PROVE Spec \/ LaneSpec => []SerialInv
<1>1. [][Next]_vars /\ SerialInv => []SerialInv
  <2>1. SerialInv /\ [Next]_vars => SerialInv' BY SerialNext
  <2> QED BY <2>1, PTL
<1> QED BY <1>1, SerialInit, PTL DEF Spec, LaneSpec

-----------------------------------------------------------------------------
\* The recorded progress does not go back.
Progresses(c, d) == IsAuto(c.it) /\ IsAuto(d.it) => Rank(c.it.last) <= Rank(d.it.last)

LEMMA LastKept ==
  ASSUME NEW c, Clip(c), NEW d, d.it.last = c.it.last PROVE Progresses(c, d)
BY ClipParts, ItemParts DEF Progresses

LEMMA ServesProgresses == \A c, d : Serves(c, d) => Progresses(c, d)
BY DEF Serves, Progresses

LEMMA ProgressThrough ==
  ASSUME NEW c, Clip(c), NEW d, Clip(d), NEW e, Clip(e),
         d.it.mode = c.it.mode, Rank(c.it.last) <= Rank(d.it.last), Progresses(d, e)
  PROVE  Progresses(c, e)
<1>1. \A x : Clip(x) => Rank(x.it.last) \in 0..6 BY ClipParts, ItemParts
<1> QED BY <1>1 DEF Progresses, IsAuto

LEMMA CommitProgresses ==
  ASSUME SerialInv, NEW w \in Workers, pc[w] # "idle", NEW t, NEW db, Commit(w, t, db),
         \A i \in Items : Clip(db[i]) /\ Progresses(clips[i], db[i])
  PROVE  \A i \in Items : Progresses(clips[i], clips'[i])
<1> TAKE i \in Items
<1>1. clips'[i] = clips[i] \/ clips'[i] = [db[i] EXCEPT !.bind = "no"] BY CommitNow
<1>2. [db[i] EXCEPT !.bind = "no"].it = db[i].it BY DEF Clip, ClipType
<1>3. Clip(clips[i]) BY ClipsAre DEF SerialInv
<1> QED BY <1>1, <1>2, <1>3, LastKept DEF Progresses

\* What the settlement of a job computes, lane included.
LEMMA SettlementSerial ==
  ASSUME SerialInv, NEW w \in Workers, SettleJob(w)
  PROVE  LET t == task[w]
             db == Settled(clips, t)
         IN /\ pc[w] = "busy" /\ t.item \in Items /\ t.job \in 1..Len(clips[t.item].jobs)
            /\ t.act \in {"completed", "failed"} /\ t.talk \in Talks
            /\ \A i \in Items :
                 /\ Clip(db[i]) /\ Len(clips[i].jobs) <= Len(db[i].jobs)
                 /\ db[i].it.mode = clips[i].it.mode /\ db[i].it.wait = clips[i].it.wait
                 /\ Rank(clips[i].it.last) <= Rank(db[i].it.last)
                 /\ i # t.item => db[i] = clips[i]
            /\ Commit(w, t, IF ~(db[t.item].bind # "no") /\ LaneIsLookedAt(clips, t)
                            THEN Admit(db, t.seat) ELSE db)
<1>0. w \in Actors /\ w \notin Operators BY ActorsApart
<1>1. pc[w] = "busy" BY DEF SettleJob
<1>2. Seen(w) = clips BY <1>0, <1>1, SeenNow
<1> DEFINE t == task[w]
           db == Settled(clips, t)
<1>3. TaskFine(w) BY <1>0 DEF SerialInv, ReupInv
<1>4. /\ t.item \in Items /\ t.job \in 0..Len(clips[t.item].jobs) /\ t.job # 0
      /\ t.act \in {"completed", "failed"} /\ t.talk \in Talks
  BY <1>1, <1>3, <1>0 DEF TaskFine
<1>5. Commit(w, t, IF ~(db[t.item].bind # "no") /\ LaneIsLookedAt(clips, t)
                   THEN Admit(db, t.seat) ELSE db)
  BY <1>2 DEF SettleJob
<1> HIDE DEF t
<1>6. DOMAIN clips = Items /\ \A i \in Items : Fine(clips[i]) BY ClipsAre DEF SerialInv, ReupInv, Typed
<1>7. t.job \in 1..Len(clips[t.item].jobs) BY <1>4
<1>8. \A i \in Items : /\ Clip(db[i]) /\ Len(clips[i].jobs) <= Len(db[i].jobs)
                       /\ db[i].it.mode = clips[i].it.mode /\ db[i].it.wait = clips[i].it.wait
                       /\ Rank(clips[i].it.last) <= Rank(db[i].it.last)
                       /\ i # t.item => db[i] = clips[i]
  BY <1>4, <1>6, <1>7, SettledFine
<1> QED BY <1>1, <1>4, <1>5, <1>7, <1>8 DEF t

LEMMA SettleJobProgresses ==
  ASSUME SerialInv, NEW w \in Workers, SettleJob(w)
  PROVE  \A i \in Items : Progresses(clips[i], clips'[i])
<1> DEFINE t == task[w]
           db == Settled(clips, t)
           db2 == IF ~(db[t.item].bind # "no") /\ LaneIsLookedAt(clips, t) THEN Admit(db, t.seat) ELSE db
<1>1. /\ pc[w] # "idle" /\ Commit(w, t, db2)
      /\ \A i \in Items : /\ Clip(db[i]) /\ db[i].it.mode = clips[i].it.mode
                          /\ Rank(clips[i].it.last) <= Rank(db[i].it.last)
  BY SettlementSerial
<1>2. \A i \in Items : Clip(db2[i]) /\ Progresses(clips[i], db2[i])
  <2> TAKE i \in Items
  <2> HIDE DEF db, t
  <2>1. Clip(clips[i]) BY ClipsAre DEF SerialInv
  <2>2. CASE ~(db[t.item].bind # "no") /\ LaneIsLookedAt(clips, t)
    <3>1. Serves(db[i], Admit(db, t.seat)[i]) BY <1>1, AdmitServes
    <3>2. Clip(Admit(db, t.seat)[i]) BY <3>1 DEF Serves
    <3> QED BY <1>1, <2>1, <2>2, <3>1, <3>2, ServesProgresses, ProgressThrough
  <2>3. CASE ~(~(db[t.item].bind # "no") /\ LaneIsLookedAt(clips, t))
    <3>1. Progresses(clips[i], db[i]) BY <1>1 DEF Progresses
    <3> QED BY <1>1, <2>3, <3>1
  <2> QED BY <2>2, <2>3
<1> HIDE DEF db2, t
<1> QED BY <1>1, <1>2, CommitProgresses

LEMMA LinkPreviewProgresses ==
  ASSUME SerialInv, NEW w \in Workers, LinkPreview(w)
  PROVE  \A i \in Items : Progresses(clips[i], clips'[i])
<1> DEFINE t == task[w]
           linked == [clips EXCEPT ![t.item] = BindPreview(@, t.job, t.act, t.tries)]
           db == Admit(linked, t.seat)
<1>1. pc[w] = "bind" /\ w \in Actors /\ w \notin Operators /\ Commit(w, t, db)
  BY ActorsApart DEF LinkPreview
<1>2. TaskFine(w) BY <1>1 DEF SerialInv, ReupInv
<1>3. /\ t.item \in Items /\ t.job \in 0..Len(clips[t.item].jobs)
      /\ t.act = "residual" => t.tries \in 0..2
  BY <1>1, <1>2 DEF TaskFine
<1> HIDE DEF t
<1>4. \A i \in Items : Fine(clips[i]) /\ Clip(clips[i]) /\ Rank(clips[i].it.last) \in 0..6
  BY ClipsAre, ClipParts, ItemParts DEF SerialInv
<1>5. \A i \in Items : /\ Clip(linked[i]) /\ linked[i].it.mode = clips[i].it.mode
                       /\ linked[i].it.last = clips[i].it.last
  <2>1. LET d == BindPreview(clips[t.item], t.job, t.act, t.tries)
        IN Fine(d) /\ d.it.mode = clips[t.item].it.mode /\ d.it.last = clips[t.item].it.last
    BY <1>3, <1>4, BindPreviewFine
  <2>2. DOMAIN clips = Items BY DEF SerialInv, ReupInv, Typed
  <2>3. \A i \in Items : linked[i] = IF i = t.item THEN BindPreview(clips[t.item], t.job, t.act, t.tries)
                                     ELSE clips[i]
    BY <2>2
  <2> QED BY <1>4, <2>1, <2>3 DEF Fine
<1> HIDE DEF linked
<1>6. \A i \in Items : Clip(db[i]) /\ Progresses(clips[i], db[i])
  <2> TAKE i \in Items
  <2>1. Serves(linked[i], db[i]) BY <1>5, AdmitServes
  <2>2. Clip(db[i]) BY <2>1 DEF Serves
  <2>3. Rank(clips[i].it.last) <= Rank(linked[i].it.last) BY <1>4, <1>5
  <2> HIDE DEF db
  <2> QED BY <1>4, <1>5, <2>1, <2>2, <2>3, ServesProgresses, ProgressThrough
<1> HIDE DEF db
<1> QED BY <1>1, <1>6, CommitProgresses

LEMMA AnswerProgresses ==
  ASSUME SerialInv, NEW o \in Operators, Answer(o)
  PROVE  \A i \in Items : Progresses(clips[i], clips'[i])
<1> DEFINE t == task[o]
           db == IF t.act = "start_auto" THEN StartedAuto(Seen(o), t.item, t.mode, t.ans)
                 ELSE [Seen(o) EXCEPT ![t.item] = Applied(@, t)]
<1>1. pc[o] = "busy" /\ o \in Actors /\ Write(o, db) BY OperatorsApart DEF Answer
<1>2. TaskFine(o) BY <1>1 DEF SerialInv, ReupInv
<1>3. t.item \in Items /\ t.mode \in AutoModes \cup {"manual"} BY <1>1, <1>2 DEF TaskFine
<1> HIDE DEF t
<1>4. Seen(o) = clips BY <1>1, SeenNow
<1>5. DOMAIN clips = Items /\ \A i \in Items : Clip(clips[i]) BY ClipsAre DEF SerialInv, ReupInv, Typed
<1>6. \A i \in Items : Serves(clips[i], db[i])
  <2> TAKE i \in Items
  <2>1. CASE t.act = "start_auto"
    <3>1. db = StartedAuto(clips, t.item, t.mode, t.ans) BY <1>4, <2>1
    <3> QED BY <1>3, <1>5, <3>1, StartedAutoServes
  <2>2. CASE t.act # "start_auto"
    <3>1. db[i] = IF i = t.item THEN Applied(clips[i], t) ELSE clips[i] BY <1>4, <1>5, <2>2
    <3>2. Serves(clips[i], clips[i]) BY <1>5, GrowsReflexive, GrowsServes
    <3> QED BY <1>3, <1>5, <3>1, <3>2, AppliedServes
  <2> QED BY <2>1, <2>2
<1> HIDE DEF db
<1>7. \A i \in Items : Clip(db[i]) BY <1>6 DEF Serves
<1> TAKE i \in Items
<1>8. clips'[i] = [db[i] EXCEPT !.bind = "no"] BY <1>1, <1>7, WriteNow
<1>9. clips'[i].it = db[i].it BY <1>7, <1>8 DEF Clip, ClipType
<1> QED BY <1>6, <1>9, ServesProgresses DEF Progresses

LEMMA HoldProgresses ==
  ASSUME SerialInv, NEW o \in Operators, CancelForHold(o) \/ MarkHeld(o)
  PROVE  \A i \in Items : Progresses(clips[i], clips'[i])
<1>1. DOMAIN clips = Items /\ \A i \in Items : Clip(clips[i]) BY ClipsAre DEF SerialInv, ReupInv, Typed
<1>2. o \in Actors /\ pc[o] # "idle" BY OperatorsApart DEF CancelForHold, MarkHeld
<1>3. task[o].item \in Items BY <1>2 DEF SerialInv, ReupInv, TaskFine
<1>4. CASE CancelForHold(o)
  <2>1. \A i \in Items : clips'[i].it = clips[i].it
    BY <1>1, <1>3, <1>4 DEF CancelForHold, Clip, ClipType
  <2> QED BY <1>1, <2>1, LastKept
<1>5. CASE MarkHeld(o)
  <2>1. \A i \in Items : clips'[i] = clips[i] \/ clips'[i] = Paused(clips[i])
    BY <1>1, <1>3, <1>5 DEF MarkHeld
  <2>2. \A i \in Items : Serves(clips[i], Paused(clips[i])) BY <1>1, PausedGrows, GrowsServes
  <2>3. \A i \in Items : Serves(clips[i], clips[i]) BY <1>1, GrowsReflexive, GrowsServes
  <2> QED BY <2>1, <2>2, <2>3, ServesProgresses
<1> QED BY <1>4, <1>5

LEMMA NextProgresses ==
  ASSUME SerialInv, [Next]_vars
  PROVE  \A i \in Items : Progresses(clips[i], clips'[i])
<1>0. \A i \in Items : Clip(clips[i]) BY ClipsAre DEF SerialInv
<1>1. SameItems => \A i \in Items : Progresses(clips[i], clips'[i])
  BY <1>0, LastKept DEF SameItems
<1>2. ASSUME NEW w \in Workers, WorkerStep(w) \/ Die(w)
      PROVE  \A i \in Items : Progresses(clips[i], clips'[i])
  <2>1. CASE Begin(w) \/ Die(w)
    <3>1. SameItems BY <2>1 DEF Begin, Die, SameItems
    <3> QED BY <1>1, <3>1
  <2> QED BY <1>2, <2>1, SettleJobProgresses, LinkPreviewProgresses DEF WorkerStep
<1>3. ASSUME NEW o \in Operators, OperatorStep(o)
      PROVE  \A i \in Items : Progresses(clips[i], clips'[i])
  <2>1. CASE Ask(o)
    <3>1. SameItems BY <2>1 DEF Ask, SameItems
    <3> QED BY <1>1, <3>1
  <2> QED BY <1>3, <2>1, AnswerProgresses, HoldProgresses DEF OperatorStep
<1>4. ASSUME NEW i \in Items, EndSilently(i) \/ Clarify(i)
      PROVE  \A j \in Items : Progresses(clips[j], clips'[j])
  BY <1>1, <1>4, QuietItems
<1>5. CASE Next BY <1>2, <1>3, <1>4, <1>5 DEF Next
<1>6. CASE UNCHANGED vars BY <1>1, <1>6 DEF vars, SameItems
<1> QED BY <1>5, <1>6

\* _record_completed_step never moves back while a clip stays in the lane of one
\* worker: through every callback, catch-up, repair and admission, whatever stages
\* fail, jobs are lost and wherever the worker dies.
THEOREM ProgressNeverLost == ASSUME LoneWorker PROVE LaneSpec => ProgressKept
<1>0. OneAtATime BY DEF LoneWorker, OneAtATime, Actors
<1> DEFINE Act == \A i \in Items : IsAuto(clips[i].it) /\ IsAuto(clips[i].it)'
                    => Rank(clips[i].it.last') >= Rank(clips[i].it.last)
<1>1. ASSUME SerialInv, [Next]_vars PROVE [Act]_vars
  <2> SUFFICES ASSUME NEW i \in Items, IsAuto(clips[i].it), IsAuto(clips'[i].it)
               PROVE  Rank(clips'[i].it.last) >= Rank(clips[i].it.last)
    BY DEF IsAuto
  <2>1. Progresses(clips[i], clips'[i]) BY <1>1, NextProgresses
  <2>2. Rank(clips[i].it.last) \in 0..6 /\ Rank(clips'[i].it.last) \in 0..6
    <3>1. ReupInv /\ ReupInv' BY <1>1, NextFine DEF SerialInv
    <3>2. Clip(clips[i]) /\ Clip(clips'[i]) BY <3>1 DEF ReupInv, ClipsFine, Fine
    <3> QED BY <3>2, ClipParts, ItemParts
  <2> QED BY <2>1, <2>2 DEF Progresses
<1> HIDE DEF Act
<1>2. []SerialInv /\ [][Next]_vars => [][Act]_vars BY <1>1, PTL
<1>3. Spec \/ LaneSpec => []SerialInv BY <1>0, SerialInvariant
<1>4. LaneSpec => [][Act]_vars BY <1>2, <1>3, PTL DEF LaneSpec
<1> QED BY <1>4 DEF ProgressKept, Act

-----------------------------------------------------------------------------
(***************************************************************************)
(* The bounded lane.  A clip of auto_to_tts that left the lane stays out;  *)
(* one of auto_to_render comes back from its preview without an admission, *)
(* and an operator may start one over the limit: TLC refutes the bound for *)
(* both, so they are excluded here.                                        *)
(***************************************************************************)
TtsLane == OneAtATime /\ Operators = {} /\ Modes \subseteq {"auto_to_tts"}

\* A parked clip has not begun.
Parked(c) == c.it.wait => c.jobs = <<>> /\ c.it.step = "none"
TtsInv ==
  /\ SerialInv
  /\ \A i \in Items : clips[i].it.mode = "auto_to_tts" /\ Parked(clips[i])
  /\ \A a \in Actors : pc[a] # "bind"
  /\ LaneBudget

\* A callback never brings a clip into the lane.
LEMMA SettledFlight ==
  ASSUME NEW c, Clip(c), c.bind = "no", c.it.mode = "auto_to_tts", c.it.status \in Active,
         NEW n \in 1..Len(c.jobs), NEW out \in {"completed", "failed"}, NEW ans
  PROVE  InFlight(Advanced(c, n, out, ans).it) => InFlight(c.it)
<1> DEFINE kind == c.jobs[n].kind
           noted == IF out = "completed" THEN Recorded(c, kind) ELSE c
           d == Advanced(c, n, out, ans)
<1>1. Grows(c, noted) /\ Clip(noted) BY RecordedGrows, GrowsReflexive DEF Grows
<1>2. noted.jobs = c.jobs /\ noted.it.step = c.it.step /\ noted.it.status = c.it.status
  <2>1. /\ Recorded(c, kind).jobs = c.jobs /\ Recorded(c, kind).it.step = c.it.step
        /\ Recorded(c, kind).it.status = c.it.status
    BY DEF Recorded, Clip, ClipType, ItemType
  <2> QED BY <2>1
<1>3. FailedStep(kind) \in Steps \cup {"render_preview"}
  <2>1. kind \in JobKinds BY JobKnown
  <2> QED BY <2>1 DEF FailedStep, JobKinds, Steps
<1> HIDE DEF kind
<1>4. \/ d = noted \/ d = Attention(noted, FailedStep(kind))
      \/ d = AfterPreview(noted, ans) \/ d = AdvanceAfterSuccess(noted, n, ans)
  <2>1. noted.it.mode = "auto_to_tts" BY <1>1 DEF Grows
  <2> QED BY <2>1 DEF Advanced, FailedPreviewHeals, kind
<1>5. noted.it.mode = c.it.mode /\ noted.it.wait = c.it.wait BY <1>1 DEF Grows
<1> HIDE DEF noted, d
<1>6. CASE d = noted BY <1>2, <1>5, <1>6 DEF InFlight, IsAuto, d
<1>7. CASE d = Attention(noted, FailedStep(kind))
  <2>1. d.it.status = "FAILED" BY <1>1, <1>3, <1>7, AttentionGrows
  <2> QED BY <2>1 DEF InFlight, Active, d
<1>8. CASE d = AfterPreview(noted, ans)
  <2>1. d = ParkForQuality(noted) BY <1>5, <1>8 DEF AfterPreview
  <2>2. d.it.step = "quality_review" BY <1>1, <2>1 DEF ParkForQuality, Clip, ClipType, ItemType
  <2> QED BY <2>2 DEF InFlight, ParkedSteps, d
<1>9. CASE d = AdvanceAfterSuccess(noted, n, ans)
  <2>1. Grows(noted, d) /\ (d = noted \/ noted.it.step \in Stages) BY <1>1, <1>2, <1>9, AdvanceGrows
  <2>2. CASE d = noted BY <1>6, <2>2
  <2>3. CASE noted.it.step \in Stages
    <3>1. d.it.wait = c.it.wait /\ d.it.mode = c.it.mode BY <1>5, <2>1 DEF Grows
    <3> QED BY <1>2, <2>3, <3>1, StageSet DEF InFlight, IsAuto, ParkedSteps, d
  <2> QED BY <2>1, <2>2, <2>3
<1> QED BY <1>4, <1>6, <1>7, <1>8, <1>9 DEF d

\* Settling a job gives no clip a slot.
LEMMA SettledKeepsFlight ==
  ASSUME NEW t, t.item \in Items, t.act \in {"completed", "failed"}, t.talk \in Talks,
         NEW db, DOMAIN db = Items, \A i \in Items : Fine(db[i]),
         t.job \in 1..Len(db[t.item].jobs), db[t.item].it.mode = "auto_to_tts"
  PROVE  InFlight(Settled(db, t)[t.item].it) => InFlight(db[t.item].it)
<1> DEFINE c == db[t.item]
           talk == IF t.act = "completed" THEN t.talk ELSE c.talk
           ended == Ended(c, t.job, t.act, talk)
           synced == SyncDownload(ended, t.job, t.act)
           e == IF FoundFor(synced, t.job) THEN Advanced(synced, t.job, t.act, t.ans) ELSE synced
<1>1. Fine(c) /\ c.talk \in Talks /\ t.act \in JobStates
  BY ClipParts DEF Fine, JobStates
<1>2. talk \in Talks BY <1>1
<1>3. Settled(db, t)[t.item] = e BY DEF Settled, Ended
<1> HIDE DEF talk, c
<1>4. Fine(ended) /\ Len(ended.jobs) = Len(c.jobs) /\ ended.it = c.it /\ ended.bind = "no"
  <2>1. t.job \in 1..Len(c.jobs) BY DEF c
  <2> QED BY <1>1, <1>2, <2>1, EndedFine DEF Fine
<1> HIDE DEF ended
<1>5. /\ Grows(ended, synced) /\ Clip(synced) /\ synced.bind = "no" /\ synced.jobs = ended.jobs
      /\ synced.it.step = ended.it.step /\ synced.it.status \in {ended.it.status, "FAILED"}
  BY <1>4, SyncDownloadGrows DEF Fine, Grows
<1>6. synced.it.mode = c.it.mode /\ synced.it.wait = c.it.wait BY <1>4, <1>5 DEF Grows
<1> HIDE DEF synced
<1>7. InFlight(synced.it) => InFlight(c.it) BY <1>4, <1>5, <1>6 DEF InFlight, IsAuto, Active
<1>8. t.job \in 1..Len(synced.jobs) BY <1>4, <1>5 DEF c
<1>9. FoundFor(synced, t.job) => synced.it.status \in Active BY DEF FoundFor
<1>10. synced.it.mode = "auto_to_tts" BY <1>6 DEF c
<1>11. InFlight(e.it) => InFlight(synced.it) BY <1>5, <1>8, <1>9, <1>10, SettledFlight
<1> HIDE DEF e
<1> QED BY <1>3, <1>7, <1>11 DEF c

LEMMA ReconciledFlight ==
  ASSUME NEW c, Clip(c), NEW ans
  PROVE  /\ InFlight(Reconciled(c, ans).it) => InFlight(c.it)
         /\ c.it.wait => Reconciled(c, ans) = c
BY ReconciledGrows DEF InFlight

\* Counting clips.
LEMMA ItemsFinite ==
  /\ IsFiniteSet(Items)
  /\ \A S \in SUBSET Items : IsFiniteSet(S) /\ Cardinality(S) \in Nat
  /\ \A S \in SUBSET Items, T \in SUBSET Items : S \subseteq T => Cardinality(S) <= Cardinality(T)
  /\ \A S \in SUBSET Items, T \in SUBSET Items : Cardinality(S \cup T) <= Cardinality(S) + Cardinality(T)
<1>1. IsFiniteSet(Items) BY FS_Interval, ReupAssumption DEF Items
<1>2. \A S \in SUBSET Items : IsFiniteSet(S) /\ Cardinality(S) \in Nat
  BY <1>1, FS_Subset, FS_CardinalityType
<1>3. \A S \in SUBSET Items, T \in SUBSET Items : S \subseteq T => Cardinality(S) <= Cardinality(T)
  BY <1>2, FS_Subset
<1>4. ASSUME NEW S \in SUBSET Items, NEW T \in SUBSET Items
      PROVE  Cardinality(S \cup T) <= Cardinality(S) + Cardinality(T)
  <2>1. Cardinality(S \cup T) = Cardinality(S) + Cardinality(T) - Cardinality(S \cap T)
    BY <1>2, FS_Union
  <2>2. S \cap T \in SUBSET Items OBVIOUS
  <2>3. Cardinality(S \cap T) \in Nat /\ Cardinality(S) \in Nat /\ Cardinality(T) \in Nat BY <1>2, <2>2
  <2> QED BY <2>1, <2>3
<1> QED BY <1>1, <1>2, <1>3, <1>4

\* admission_plan never takes more clips than there are free slots.
LEMMA PlanFits ==
  ASSUME NEW db
  PROVE  /\ AdmissionPlan(db) \subseteq Items
         /\ AdmissionPlan(db) = {} \/ Cardinality(AdmissionPlan(db)) <= Limit - CountInFlight(db, Items)
<1> DEFINE free == Limit - CountInFlight(db, Items)
           parked == {i \in Items : db[i].it.status \in Active /\ db[i].it.wait}
           plan == {i \in parked : Cardinality({j \in parked : j <= i}) <= free}
<1>1. AdmissionPlan(db) = plan BY DEF AdmissionPlan
<1>2. ASSUME plan # {} PROVE Cardinality(plan) <= free
  <2>1. plan \subseteq 1..N /\ N \in Nat BY ReupAssumption DEF Items
  <2>2. Max(plan) \in plan /\ \A i \in plan : i <= Max(plan) 
    <3> HIDE DEF plan
    <3> QED BY <1>2, <2>1, MaxIn
  <2> DEFINE upto == {j \in parked : j <= Max(plan)}
  <2>3. Cardinality(upto) <= free BY <2>2
  <2>4. plan \subseteq upto BY <2>2
  <2>5. plan \in SUBSET Items /\ upto \in SUBSET Items OBVIOUS
  <2>6. CountInFlight(db, Items) \in Nat
    <3>1. {i \in Items : InFlight(db[i].it)} \in SUBSET Items OBVIOUS
    <3> QED BY <3>1, ItemsFinite DEF CountInFlight
  <2> HIDE DEF plan, upto
  <2>7. Cardinality(plan) \in Nat /\ Cardinality(upto) \in Nat BY <2>5, ItemsFinite
  <2>9. free \in Int BY <2>6, ReupAssumption
  <2> HIDE DEF free
  <2>8. Cardinality(plan) <= Cardinality(upto) BY <2>4, <2>5, ItemsFinite
  <2> QED BY <2>3, <2>7, <2>8, <2>9
<1> QED BY <1>1, <1>2

LEMMA AdmitParts ==
  ASSUME NEW db, \A i \in Items : Clip(db[i]), NEW seat, NEW i \in Items
  PROVE  LET fresh == Reconcile(db, Items, seat)
         IN /\ fresh[i] = Reconciled(db[i], seat) /\ Clip(fresh[i]) /\ Grows(db[i], fresh[i])
            /\ i \notin AdmissionPlan(fresh) => Admit(db, seat)[i] = fresh[i]
            /\ i \in AdmissionPlan(fresh) =>
                 /\ fresh[i].it.wait
                 /\ Admit(db, seat)[i] = SetAutomation(Seated(fresh[i]), fresh[i].it.mode, seat)
                 /\ Grows(Seated(fresh[i]), Admit(db, seat)[i])
<1> DEFINE fresh == Reconcile(db, Items, seat)
           plan == AdmissionPlan(fresh)
           at == Seated(fresh[i])
<1>1. fresh[i] = Reconciled(db[i], seat) BY DEF Reconcile
<1>2. Grows(db[i], fresh[i]) /\ Clip(fresh[i]) BY ReconcileGrows DEF Grows
<1>3. Admit(db, seat)[i] = IF i \in plan THEN SetAutomation(at, fresh[i].it.mode, seat) ELSE fresh[i]
  BY DEF Admit, Seated
<1>4. i \in plan => fresh[i].it.wait BY DEF AdmissionPlan
<1> HIDE DEF fresh, plan
<1>5. Clip(at) /\ at.it.mode = fresh[i].it.mode BY <1>2, SeatedServes
<1>6. fresh[i].it.mode \in AutoModes \cup {"manual"} BY <1>2, ClipParts, ItemParts
<1> HIDE DEF at
<1>7. Switched(at, fresh[i].it.mode) = at BY <1>5, <1>6, SwitchedServes
<1>8. Grows(at, SetAutomation(at, fresh[i].it.mode, seat)) BY <1>5, <1>6, <1>7, SetAutomationGrows
<1> QED BY <1>1, <1>2, <1>3, <1>4, <1>8 DEF fresh, plan, at

\* Looking at the lane fills it at most.
LEMMA AdmitFits ==
  ASSUME NEW db, \A i \in Items : Clip(db[i]), NEW seat,
         Cardinality({i \in Items : InFlight(db[i].it)}) <= Limit
  PROVE  Cardinality({i \in Items : InFlight(Admit(db, seat)[i].it)}) <= Limit
<1> DEFINE fresh == Reconcile(db, Items, seat)
           plan == AdmissionPlan(fresh)
           F(f) == {i \in Items : InFlight(f[i].it)}
           after == Admit(db, seat)
<1>1. \A i \in Items : InFlight(fresh[i].it) => InFlight(db[i].it)
  BY AdmitParts, ReconciledFlight
<1>2. \A i \in Items : i \notin plan => after[i] = fresh[i] BY AdmitParts
<1>3. plan \in SUBSET Items /\ (plan = {} \/ Cardinality(plan) <= Limit - Cardinality(F(fresh)))
  BY PlanFits DEF CountInFlight
<1> HIDE DEF fresh, plan, after
<1>4. F(fresh) \subseteq F(db) /\ F(after) \subseteq F(fresh) \cup plan BY <1>1, <1>2
<1>5. F(fresh) \in SUBSET Items /\ F(db) \in SUBSET Items /\ F(after) \in SUBSET Items OBVIOUS
<1>6. /\ Cardinality(F(fresh)) \in Nat /\ Cardinality(F(db)) \in Nat /\ Cardinality(F(after)) \in Nat
      /\ Cardinality(plan) \in Nat /\ Cardinality(F(fresh) \cup plan) \in Nat
  <2>1. F(fresh) \cup plan \in SUBSET Items BY <1>3, <1>5
  <2> QED BY <1>3, <1>5, <2>1, ItemsFinite
<1>7. Cardinality(F(fresh)) <= Cardinality(F(db)) BY <1>4, <1>5, ItemsFinite
<1>8. Cardinality(F(after)) <= Cardinality(F(fresh) \cup plan) BY <1>3, <1>4, <1>5, ItemsFinite
<1>9. Cardinality(F(fresh) \cup plan) <= Cardinality(F(fresh)) + Cardinality(plan)
  BY <1>3, <1>5, ItemsFinite
<1>10. Limit \in Nat /\ Cardinality(F(db)) <= Limit BY ReupAssumption
<1>11. CASE plan = {}
  <2>1. F(after) \subseteq F(db) BY <1>4, <1>11
  <2>2. Cardinality(F(after)) <= Cardinality(F(db)) BY <1>5, <2>1, ItemsFinite
  <2> HIDE DEF F
  <2>3. Cardinality(F(after)) <= Limit BY <1>6, <1>10, <2>2
  <2> QED BY <2>3 DEF F, after
<1>12. CASE Cardinality(plan) <= Limit - Cardinality(F(fresh))
  <2> HIDE DEF F
  <2>1. Cardinality(F(after)) <= Limit BY <1>6, <1>8, <1>9, <1>10, <1>12
  <2> QED BY <2>1 DEF F, after
<1> QED BY <1>3, <1>11, <1>12

\* The settlement of a job: its callback, and the look at the lane that follows.
LEMMA TtsSettle ==
  ASSUME TtsInv, NEW w \in Workers, SettleJob(w)
  PROVE  /\ Leave(w) /\ Cardinality({i \in Items : InFlight(clips'[i].it)}) <= Limit
         /\ \A i \in Items : clips'[i].it.mode = "auto_to_tts" /\ Parked(clips'[i])
<1> DEFINE t == task[w]
           db == Settled(clips, t)
           db2 == IF ~(db[t.item].bind # "no") /\ LaneIsLookedAt(clips, t) THEN Admit(db, t.seat) ELSE db
<1>0. SerialInv /\ \A i \in Items : Fine(clips[i]) /\ Clip(clips[i])
  BY ClipsAre DEF TtsInv, SerialInv
<1>1. /\ pc[w] # "idle" /\ Commit(w, t, db2)
      /\ t.item \in Items /\ t.job \in 1..Len(clips[t.item].jobs)
      /\ t.act \in {"completed", "failed"} /\ t.talk \in Talks
      /\ \A i \in Items : /\ Clip(db[i]) /\ db[i].it.mode = clips[i].it.mode
                          /\ db[i].it.wait = clips[i].it.wait /\ (i # t.item => db[i] = clips[i])
  BY <1>0, SettlementSerial
<1> HIDE DEF t
<1>2. DOMAIN clips = Items BY <1>0, ClipsAre DEF SerialInv, ReupInv, Typed
<1>3. \A i \in Items : clips[i].it.mode = "auto_to_tts" /\ Parked(clips[i]) BY DEF TtsInv
<1>4. \A i \in Items : db[i].bind = "no" BY <1>0, <1>1, <1>2, <1>3, SettledFine
<1>5. InFlight(db[t.item].it) => InFlight(clips[t.item].it)
  BY <1>0, <1>1, <1>2, <1>3, SettledKeepsFlight
<1> HIDE DEF db
<1>6. Cardinality({i \in Items : InFlight(db[i].it)}) <= Limit
  <2>1. {i \in Items : InFlight(db[i].it)} \subseteq {i \in Items : InFlight(clips[i].it)}
    BY <1>1, <1>5
  <2>2. Cardinality({i \in Items : InFlight(clips[i].it)}) <= Limit BY DEF TtsInv, LaneBudget
  <2>3. /\ {i \in Items : InFlight(db[i].it)} \in SUBSET Items
        /\ {i \in Items : InFlight(clips[i].it)} \in SUBSET Items
    OBVIOUS
  <2>4. /\ Cardinality({i \in Items : InFlight(db[i].it)}) <= Cardinality({i \in Items : InFlight(clips[i].it)})
        /\ Cardinality({i \in Items : InFlight(db[i].it)}) \in Nat
        /\ Cardinality({i \in Items : InFlight(clips[i].it)}) \in Nat
    BY <2>1, <2>3, ItemsFinite
  <2> QED BY <2>2, <2>4, ReupAssumption
<1>7. \A i \in Items : Parked(db[i])
  <2> TAKE i \in Items
  <2>1. CASE i = t.item
    <3>1. clips[i].jobs # <<>> /\ ~clips[i].it.wait
      <4>1. clips[i].jobs = <<>> => Len(clips[i].jobs) = 0 OBVIOUS
      <4> QED BY <1>1, <1>3, <2>1, <4>1 DEF Parked
    <3> QED BY <1>1, <3>1 DEF Parked
  <2>2. CASE i # t.item BY <1>1, <1>3, <2>2 DEF Parked
  <2> QED BY <2>1, <2>2
<1>8. \A i \in Items : /\ Clip(Admit(db, t.seat)[i]) /\ Admit(db, t.seat)[i].it.mode = "auto_to_tts"
                       /\ Parked(Admit(db, t.seat)[i]) /\ Admit(db, t.seat)[i].bind = "no"
  <2> TAKE i \in Items
  <2> DEFINE fresh == Reconcile(db, Items, t.seat)
  <2>1. /\ fresh[i] = Reconciled(db[i], t.seat) /\ Clip(fresh[i]) /\ Grows(db[i], fresh[i])
        /\ i \notin AdmissionPlan(fresh) => Admit(db, t.seat)[i] = fresh[i]
        /\ i \in AdmissionPlan(fresh) => Grows(Seated(fresh[i]), Admit(db, t.seat)[i])
    BY <1>1, AdmitParts
  <2> HIDE DEF fresh
  <2>2. /\ fresh[i].it.mode = "auto_to_tts" /\ fresh[i].bind = "no" /\ fresh[i].it.wait = db[i].it.wait
    BY <1>1, <1>3, <1>4, <2>1 DEF Grows
  <2>3. Parked(fresh[i])
    <3>1. db[i].it.wait => fresh[i] = db[i] BY <1>1, <2>1, ReconciledFlight
    <3> QED BY <1>7, <2>2, <3>1 DEF Parked
  <2>4. /\ Seated(fresh[i]).it.mode = "auto_to_tts" /\ Seated(fresh[i]).bind = "no"
        /\ Seated(fresh[i]).it.wait = FALSE
    BY <2>1, <2>2 DEF Seated, Clip, ClipType, ItemType
  <2>5. CASE i \in AdmissionPlan(fresh)
    <3>1. Grows(Seated(fresh[i]), Admit(db, t.seat)[i]) BY <2>1, <2>5
    <3> HIDE DEF db
    <3>2. /\ Clip(Admit(db, t.seat)[i]) /\ Admit(db, t.seat)[i].it.mode = "auto_to_tts"
          /\ Admit(db, t.seat)[i].bind = "no" /\ Admit(db, t.seat)[i].it.wait = FALSE
      BY <2>4, <3>1 DEF Grows
    <3> QED BY <3>2 DEF Parked
  <2>6. CASE i \notin AdmissionPlan(fresh) BY <2>1, <2>2, <2>3, <2>6
  <2> QED BY <2>5, <2>6
<1>9. Cardinality({i \in Items : InFlight(Admit(db, t.seat)[i].it)}) <= Limit
  BY <1>1, <1>6, AdmitFits
<1>10. /\ \A i \in Items : /\ Clip(db2[i]) /\ db2[i].it.mode = "auto_to_tts"
                           /\ Parked(db2[i]) /\ db2[i].bind = "no"
       /\ Cardinality({i \in Items : InFlight(db2[i].it)}) <= Limit
  BY <1>1, <1>3, <1>4, <1>6, <1>7, <1>8, <1>9
<1> HIDE DEF db2
<1>11. Leave(w) /\ \A i \in Items : clips'[i] = db2[i] BY <1>0, <1>1, <1>10, CommitNow
<1>12. {i \in Items : InFlight(clips'[i].it)} = {i \in Items : InFlight(db2[i].it)} BY <1>11
<1> QED BY <1>10, <1>11, <1>12

LEMMA TtsKept ==
  ASSUME TtsInv, SerialInv', \A a \in Actors : pc'[a] # "bind", SameItems,
         \A i \in Items : clips[i].jobs = <<>> => clips'[i].jobs = <<>>
  PROVE  TtsInv'
<1>1. {i \in Items : InFlight(clips'[i].it)} = {i \in Items : InFlight(clips[i].it)} BY DEF SameItems
<1>2. LaneBudget' BY <1>1 DEF TtsInv, LaneBudget
<1> QED BY <1>2 DEF TtsInv, SameItems, Parked

LEMMA TtsNext ==
  ASSUME TtsLane, TtsInv, [Next]_vars PROVE TtsInv'
<1>0. SerialInv' BY SerialNext DEF TtsLane, TtsInv
<1>1. ASSUME NEW w \in Workers, Begin(w) \/ Die(w) PROVE TtsInv'
  <2>1. SameItems /\ clips' = clips BY <1>1 DEF Begin, Die, SameItems
  <2>2. \A a \in Actors : pc'[a] # "bind"
    <3>1. /\ pc \in [Actors -> {"idle", "busy", "bind"}] /\ \A a \in Actors : pc[a] # "bind"
      BY DEF TtsInv, SerialInv, ReupInv, Typed
    <3>2. Begin(w) => pc' = [pc EXCEPT ![w] = "busy"] BY DEF Begin, Enter
    <3>3. Die(w) => pc' = [pc EXCEPT ![w] = "idle"] BY DEF Die, Leave
    <3> QED BY <1>1, <3>1, <3>2, <3>3
  <2> QED BY <1>0, <2>1, <2>2, TtsKept
<1>2. ASSUME NEW w \in Workers, SettleJob(w) PROVE TtsInv'
  <2>1. /\ Leave(w) /\ Cardinality({i \in Items : InFlight(clips'[i].it)}) <= Limit
        /\ \A i \in Items : clips'[i].it.mode = "auto_to_tts" /\ Parked(clips'[i])
    BY <1>2, TtsSettle
  <2>2. \A a \in Actors : pc'[a] # "bind"
    BY <2>1 DEF Leave, TtsInv, SerialInv, ReupInv, Typed
  <2>3. LaneBudget' BY <2>1 DEF LaneBudget
  <2> QED BY <1>0, <2>1, <2>2, <2>3 DEF TtsInv, Parked
<1>3. ASSUME NEW w \in Workers, LinkPreview(w) PROVE TtsInv'
  BY <1>3, ActorsApart DEF LinkPreview, TtsInv
<1>4. ASSUME NEW i \in Items, EndSilently(i) \/ Clarify(i) PROVE TtsInv'
  <2>1. SameItems /\ UNCHANGED pc BY <1>4, QuietItems DEF TtsInv
  <2>2. \A j \in Items : clips[j].jobs = <<>> => clips'[j].jobs = <<>>
    <3>1. CASE Clarify(i) BY <1>4, <3>1 DEF Clarify, TtsLane
    <3>2. CASE EndSilently(i)
      <4>1. PICK n \in DOMAIN clips[i].jobs : TRUE BY <3>2 DEF EndSilently
      <4>2. clips[i].jobs # <<>> BY <4>1
      <4>3. \A j \in Items \ {i} : clips'[j] = clips[j] BY <3>2, QuietItems DEF TtsInv
      <4> QED BY <4>2, <4>3
    <3> QED BY <1>4, <3>1, <3>2
  <2>3. \A a \in Actors : pc'[a] # "bind" BY <2>1 DEF TtsInv
  <2> QED BY <1>0, <2>1, <2>2, <2>3, TtsKept
<1>5. CASE Next BY <1>1, <1>2, <1>3, <1>4, <1>5 DEF Next, WorkerStep, TtsLane
<1>6. CASE UNCHANGED vars
  <2>1. SameItems /\ clips' = clips /\ pc' = pc BY <1>6 DEF vars, SameItems
  <2>2. \A a \in Actors : pc'[a] # "bind" BY <2>1 DEF TtsInv
  <2> QED BY <1>0, <2>1, <2>2, TtsKept
<1> QED BY <1>5, <1>6

LEMMA TtsInit == ASSUME TtsLane, LaneInit PROVE TtsInv
<1>1. PICK mode \in Modes \cap AutoModes : Start(Handed(mode)) BY DEF LaneInit
<1>2. mode \in AutoModes /\ mode = "auto_to_tts" BY DEF TtsLane
<1>3. \A i \in Items : clips[i] = Handed(mode)[i] BY <1>1 DEF Start
<1>4. \A i \in Items : clips[i].it.mode = "auto_to_tts" /\ Parked(clips[i]) /\ (~(i <= Limit) => clips[i].it.wait)
  BY <1>2, <1>3, HandedFine DEF Parked
<1>5. LaneBudget
  <2> DEFINE F == {i \in Items : InFlight(clips[i].it)}
  <2>1. Limit \in Nat /\ N \in Nat BY ReupAssumption
  <2>2. F \subseteq 1..Limit BY <1>4, <2>1 DEF InFlight, Items
  <2>3. IsFiniteSet(1..Limit) /\ Cardinality(1..Limit) = Limit BY <2>1, FS_Interval
  <2>4. Cardinality(F) <= Limit BY <2>2, <2>3, FS_Subset
  <2> QED BY <2>4 DEF LaneBudget
<1>6. \A a \in Actors : pc[a] # "bind" BY <1>1 DEF Start
<1> QED BY <1>4, <1>5, <1>6, SerialInit DEF TtsInv

LEMMA TtsInvariant == ASSUME TtsLane PROVE LaneSpec => []TtsInv
<1>1. TtsInv /\ [Next]_vars => TtsInv' BY TtsNext
<1>2. LaneInit => TtsInv BY TtsInit
<1> QED BY <1>1, <1>2, PTL DEF LaneSpec

\* admission_plan fills the free slots and no more, so that the lane never holds
\* more clips than reup_max_items_in_flight, whatever fails or is cancelled.
THEOREM LaneBounded == ASSUME TtsLane PROVE LaneSpec => []LaneBudget
<1>1. TtsInv => LaneBudget BY DEF TtsInv
<1> QED BY <1>1, TtsInvariant, PTL

\* Nor is there ever work going on for more clips than that.
THEOREM LaneLoadBounded == ASSUME TtsLane PROVE LaneSpec => []LaneLoad
<1>1. TtsInv => LaneLoad
  <2> SUFFICES ASSUME TtsInv PROVE LaneLoad OBVIOUS
  <2> DEFINE L == {i \in Items : /\ IsAuto(clips[i].it) /\ clips[i].it.status \in Active
                                 /\ clips[i].it.step \in Stages
                                 /\ \E n \in DOMAIN clips[i].jobs : clips[i].jobs[n].status = "live"}
             F == {i \in Items : InFlight(clips[i].it)}
  <2>1. L \subseteq F
    <3> SUFFICES ASSUME NEW i \in L PROVE InFlight(clips[i].it) OBVIOUS
    <3>1. PICK n \in DOMAIN clips[i].jobs : TRUE OBVIOUS
    <3>2. clips[i].jobs # <<>> BY <3>1
    <3>3. ~clips[i].it.wait
      <4>1. clips[i] \in ClipType BY ClipsAre DEF TtsInv, SerialInv, Clip
      <4> QED BY <3>2, <4>1 DEF TtsInv, Parked
    <3> QED BY <3>3, StageSet DEF InFlight, ParkedSteps
  <2>2. L \in SUBSET Items /\ F \in SUBSET Items OBVIOUS
  <2>3. Cardinality(F) <= Limit BY DEF TtsInv, LaneBudget
  <2> HIDE DEF L, F
  <2>4. Cardinality(L) <= Limit
    <3>1. Cardinality(L) <= Cardinality(F) /\ Cardinality(L) \in Nat /\ Cardinality(F) \in Nat
      BY <2>1, <2>2, ItemsFinite
    <3> QED BY <2>3, <3>1, ReupAssumption
  <2> QED BY <2>4 DEF LaneLoad, L
<1> QED BY <1>1, TtsInvariant, PTL
-----------------------------------------------------------------------------
(***************************************************************************)
(* The clips of the lane, job by job, without operators.  What a callback  *)
(* may do with a clip is put in three forms, whatever its stage and mode:  *)
(* the next stage is opened, the clip comes to rest, or a preview is       *)
(* queued that is linked in a second step.  Each keeps the clip good, in   *)
(* the sense of Good below, and from this follow the four theorems at the  *)
(* end of the module.                                                      *)
(***************************************************************************)
\* A job of the kind has completed for the clip.
Has(c, kind) == \E n \in DOMAIN c.jobs : c.jobs[n].kind = kind /\ c.jobs[n].status = "completed"

\* The results a stage reads are there.
Ready(c, kind) ==
  /\ kind = "analyze_audio" => Has(c, "download")
  /\ kind = "translate" => Has(c, "analyze_audio")
  /\ kind = "tts" => Has(c, "translate")
  /\ kind = "ocr" => Has(c, "analyze_audio") /\ (c.talk = "speech" => Has(c, "tts"))
  /\ kind \in {"render", "preview"} => Has(c, "ocr")

\* Every job there is had its inputs: results are not taken back.
AllReady(c) == \A n \in DOMAIN c.jobs : Ready(c, c.jobs[n].kind)

\* No stage is at work; a preview may be.
Over(c) == \A n \in DOMAIN c.jobs : c.jobs[n].kind \in Stages => c.jobs[n].status # "live"
Quiet(c) == \A n \in DOMAIN c.jobs : c.jobs[n].status # "live"
\* No job ends without its callback (cancelled from the Ops page, or failed by the stale
\* sweep), and no worker dies in a transaction.
NoLoss == LossBound = 0

\* The clip has come no further than the stage.
Upto(c, k) == \A n \in DOMAIN c.jobs : c.jobs[n].kind \in Stages => Rank(c.jobs[n].kind) <= Rank(k)
\* A stage is linked to a job of its kind.
LinksTyped(c) == \A s \in Stages : c.it.link[s] # 0 => c.jobs[c.it.link[s]].kind = s

\* The stage the clip is at is bound to its job, and nothing is ahead of it.
Bound(c) ==
  c.it.step \in Stages => c.it.job # 0 /\ c.it.link[c.it.step] = c.it.job /\ Upto(c, c.it.step)

\* A live stage is the one the item is at, and its job is the item's: so there is one.
OneStage(c) ==
  \A n \in DOMAIN c.jobs : c.jobs[n].kind \in Stages /\ c.jobs[n].status = "live"
    => c.it.job = n /\ c.it.step = c.jobs[n].kind

\* A clip waits for a slot exactly while it has not begun, and has nothing then.
Waits(c) ==
  /\ (c.it.step = "none") = c.it.wait
  /\ c.it.wait => c.jobs = <<>> /\ c.it.last = "none" /\ c.it.job = 0

\* What holds of every clip between two transactions, losses or not.
Good(c) ==
  /\ AllReady(c) /\ LinksTyped(c) /\ IsAuto(c.it) /\ OneStage(c) /\ Bound(c) /\ Waits(c)
  /\ IsHeld(c.it) => c.it.status \notin Active

\* Where an item is while a job of the kind is at work.
StepOf(kind) == IF kind = "preview" THEN "quality_review" ELSE kind

\* Every live job is awaited, and a clip that is active is at work.  This is lost
\* with a callback: the clip then stays where it is, until a repair finds it.
Served(c) ==
  /\ \A n \in DOMAIN c.jobs : c.jobs[n].status = "live"
       => c.it.job = n /\ c.it.step = StepOf(c.jobs[n].kind)
  /\ c.it.status \in Active /\ c.it.step \in Stages => c.jobs[c.it.job].status = "live"

\* A preview was queued last, and is still to be linked.
Linkable(c) ==
  /\ c.jobs # <<>> /\ c.jobs[Len(c.jobs)].kind = "preview"
  /\ Over(c) /\ ~IsHeld(c.it) /\ ~c.it.wait
  /\ NoLoss => \A n \in DOMAIN c.jobs : c.jobs[n].status = "live" => n = Len(c.jobs)

\* What a transaction may leave behind: a good clip, or one with a preview to link.
Landed(c) ==
  /\ Clip(c) /\ Good(c)
  /\ c.bind = "no" => (NoLoss => Served(c))
  /\ c.bind # "no" => Linkable(c)

\* A clip that can go on: nothing is at work on it.
Free(c) ==
  /\ Clip(c) /\ c.bind = "no" /\ Over(c) /\ (NoLoss => Quiet(c))
  /\ AllReady(c) /\ LinksTyped(c) /\ IsAuto(c.it) /\ ~c.it.wait /\ ~IsHeld(c.it)

-----------------------------------------------------------------------------
\* Two clips that differ in columns and keys nothing here depends on.
Same(c, d) ==
  /\ Clip(d) /\ d.jobs = c.jobs /\ d.talk = c.talk /\ d.bind = c.bind
  /\ d.it.job = c.it.job /\ d.it.link = c.it.link /\ d.it.mode = c.it.mode
  /\ d.it.wait = c.it.wait /\ d.it.held = c.it.held /\ d.it.hold = c.it.hold

\* The progress may be recorded as well, and nothing else is.
Noted(c, d) == Same(c, d) /\ d.it.step = c.it.step /\ d.it.status = c.it.status

\* One live job more, and the rest of the jobs as they were.
Longer(c, d, kind) ==
  /\ Clip(d) /\ Len(d.jobs) = Len(c.jobs) + 1
  /\ \A m \in 1..Len(c.jobs) : d.jobs[m] = c.jobs[m]
  /\ d.jobs[Len(c.jobs) + 1].kind = kind /\ d.jobs[Len(c.jobs) + 1].status = "live"
  /\ d.talk = c.talk

\* A new job, bound to the item.
Added(c, d, kind) ==
  /\ Longer(c, d, kind) /\ d.bind = c.bind /\ d.it.job = Len(c.jobs) + 1
  /\ d.it.mode = c.it.mode /\ d.it.wait = c.it.wait /\ d.it.held = c.it.held /\ d.it.hold = c.it.hold

\* and its stage entered,
Opened(c, d, kind) ==
  /\ Added(c, d, kind) /\ d.it.step = kind
  /\ d.it.link = [c.it.link EXCEPT ![kind] = Len(c.jobs) + 1]

\* or a resting place reached,
Stopped(c, d) ==
  /\ Clip(d) /\ d.jobs = c.jobs /\ d.talk = c.talk /\ d.bind = c.bind
  /\ d.it.job \in {c.it.job, 0} \cup DOMAIN c.jobs /\ d.it.link = c.it.link /\ d.it.mode = c.it.mode
  /\ d.it.wait = c.it.wait /\ d.it.step \in ParkedSteps
  /\ IsHeld(d.it) => d.it.status \notin Active

\* or a preview queued that is still to be linked.
Queued(c, d) ==
  /\ Longer(c, d, "preview") /\ d.bind \in {"preview", "residual"}
  /\ d.it.job = c.it.job /\ d.it.link = c.it.link /\ d.it.mode = c.it.mode
  /\ d.it.wait = c.it.wait /\ d.it.held = c.it.held /\ d.it.hold = c.it.hold
  /\ d.it.step = c.it.step /\ d.it.status = c.it.status

\* The stage is opened or, where its creation is refused, the clip rests.
Starts(c, d, k) == Opened(c, d, k) \/ Stopped(c, d)

\* What a callback makes of a clip that is free to go on.
Moved(c, d) ==
  \/ \E k \in Stages : Opened(c, d, k) /\ Ready(c, k) /\ Upto(c, k)
  \/ Stopped(c, d)
  \/ Queued(c, d) /\ Ready(c, "preview")

LEMMA JobsDomain ==
  ASSUME NEW c, Clip(c)
  PROVE  Len(c.jobs) \in Nat /\ DOMAIN c.jobs = 1..Len(c.jobs)
BY ClipParts, LenProperties

LEMMA OtherIt ==
  ASSUME NEW c, Clip(c), NEW it
  PROVE  /\ [c EXCEPT !.it = it].it = it /\ [c EXCEPT !.it = it].jobs = c.jobs
         /\ [c EXCEPT !.it = it].talk = c.talk /\ [c EXCEPT !.it = it].bind = c.bind
BY DEF Clip, ClipType

LEMMA SameThenStarts ==
  ASSUME NEW b, NEW c, NEW d, NEW k, Same(b, c), Starts(c, d, k) PROVE Starts(b, d, k)
<1>1. Opened(c, d, k) => Opened(b, d, k) BY DEF Same, Opened, Added, Longer
<1>2. Stopped(c, d) => Stopped(b, d) BY DEF Same, Stopped
<1> QED BY <1>1, <1>2 DEF Starts

LEMMA NotedThenMoved ==
  ASSUME NEW b, NEW c, NEW d, Noted(b, c), Moved(c, d) PROVE Moved(b, d)
<1>1. ASSUME NEW k \in Stages, Opened(c, d, k), Ready(c, k), Upto(c, k)
      PROVE  Opened(b, d, k) /\ Ready(b, k) /\ Upto(b, k)
  BY <1>1 DEF Noted, Same, Opened, Added, Longer, Ready, Has, Upto
<1>2. Stopped(c, d) => Stopped(b, d) BY DEF Noted, Same, Stopped
<1>3. Queued(c, d) => Queued(b, d) BY DEF Noted, Same, Queued, Longer
<1>4. Ready(c, "preview") => Ready(b, "preview") BY DEF Noted, Same, Ready, Has
<1> QED BY <1>1, <1>2, <1>3, <1>4 DEF Moved

LEMMA NoneLive ==
  ASSUME NEW c, Over(c), NEW k \in Stages PROVE LiveJobs(c, k) = {}
BY DEF Over, LiveJobs

\* A job created and used, then linked as the stage's.
LEMMA UseNewAdds ==
  ASSUME NEW c, Clip(c), NEW kind \in Stages, NEW key \in BOOLEAN,
         NEW variant \in {"plain", "auto", "approve"}
  PROVE  /\ Added(c, UseNew(c, kind, key, variant), kind)
         /\ UseNew(c, kind, key, variant).it.link = c.it.link
<1> DEFINE job == [kind |-> kind, status |-> "live", key |-> key, variant |-> variant]
           it == [c.it EXCEPT !.job = Len(c.jobs) + 1]
           d == UseNew(c, kind, key, variant)
<1>0. kind \in JobKinds BY DEF JobKinds
<1>1. Clip(d) BY <1>0, UseNewGrows DEF Grows
<1>2. job \in JobType /\ job.kind = kind /\ job.status = "live" BY <1>0 DEF JobType, JobStates
<1>3. d.jobs = Append(c.jobs, job) /\ d.it = it /\ d.talk = c.talk /\ d.bind = c.bind
  BY DEF UseNew, Clip, ClipType
<1>4. c.it \in ItemType BY ClipParts
<1>5. /\ it.job = Len(c.jobs) + 1 /\ it.mode = c.it.mode /\ it.wait = c.it.wait
      /\ it.held = c.it.held /\ it.hold = c.it.hold /\ it.link = c.it.link
  BY <1>4 DEF ItemType
<1> HIDE DEF job, it, d
<1>6. /\ Len(d.jobs) = Len(c.jobs) + 1 /\ d.jobs[Len(c.jobs) + 1] = job
      /\ \A m \in 1..Len(c.jobs) : d.jobs[m] = c.jobs[m]
  BY <1>2, <1>3, ClipParts, AppendProperties
<1>7. Longer(c, d, kind) BY <1>1, <1>2, <1>3, <1>6 DEF Longer
<1>8. Added(c, d, kind) /\ d.it.link = c.it.link BY <1>3, <1>5, <1>7 DEF Added
<1> QED BY <1>8 DEF d

LEMMA LinkedOpens ==
  ASSUME NEW c, Clip(c), NEW kind \in Stages, NEW d, Added(c, d, kind), d.it.link = c.it.link,
         NEW status \in ItemStatuses
  PROVE  Opened(c, Linked(d, kind, status), kind)
<1> DEFINE e == Linked(d, kind, status)
           it == [d.it EXCEPT !.step = kind, !.status = status, !.link = [@ EXCEPT ![kind] = d.it.job]]
<1>1. Clip(d) BY DEF Added, Longer
<1>2. Clip(e) BY <1>1, LinkedGrows DEF Grows
<1>3. d.it \in ItemType /\ d.it.link \in [Stages -> Nat] BY <1>1, ClipParts, ItemParts
<1>4. e = [d EXCEPT !.it = it] BY DEF Linked
<1>5. /\ it.job = d.it.job /\ it.mode = d.it.mode /\ it.wait = d.it.wait /\ it.held = d.it.held
      /\ it.hold = d.it.hold /\ it.step = kind
      /\ it.link = [d.it.link EXCEPT ![kind] = d.it.job]
  BY <1>3 DEF ItemType
<1> HIDE DEF it, e
<1>6. e.it = it /\ e.jobs = d.jobs /\ e.talk = d.talk /\ e.bind = d.bind BY <1>1, <1>4, OtherIt
<1>7. Longer(c, e, kind) BY <1>2, <1>6 DEF Added, Longer
<1>8. Added(c, e, kind) BY <1>5, <1>6, <1>7 DEF Added
<1>9. Opened(c, e, kind) BY <1>5, <1>6, <1>8 DEF Opened, Added
<1> QED BY <1>9 DEF e

LEMMA NewOpens ==
  ASSUME NEW c, Clip(c), NEW kind \in Stages, NEW key \in BOOLEAN,
         NEW variant \in {"plain", "auto", "approve"}, NEW status \in ItemStatuses
  PROVE  Opened(c, Linked(UseNew(c, kind, key, variant), kind, status), kind)
BY UseNewAdds, LinkedOpens

\* The resting places: attention needed, the two reviews, finished, ready.
LEMMA AttentionStops ==
  ASSUME NEW c, Clip(c), NEW step \in Steps \cup {"render_preview"}
  PROVE  Stopped(c, Attention(c, step))
<1> DEFINE d == Attention(c, step)
           it == [c.it EXCEPT !.status = "FAILED", !.step = "needs_attention",
                              !.hold = TRUE, !.failed = Resolved(step)]
<1>1. Clip(d) BY AttentionGrows DEF Grows
<1>2. c.it \in ItemType BY ClipParts
<1>3. d = [c EXCEPT !.it = it] BY DEF Attention
<1>4. /\ it.job = c.it.job /\ it.link = c.it.link /\ it.mode = c.it.mode /\ it.wait = c.it.wait
      /\ it.step = "needs_attention" /\ it.status = "FAILED"
  BY <1>2 DEF ItemType
<1> HIDE DEF it, d
<1>5. d.it = it /\ d.jobs = c.jobs /\ d.talk = c.talk /\ d.bind = c.bind BY <1>3, OtherIt
<1>6. Stopped(c, d) BY <1>1, <1>4, <1>5 DEF Stopped, ParkedSteps, Active
<1> QED BY <1>6 DEF d

LEMMA AttentionHereStops ==
  ASSUME NEW c, Clip(c) PROVE Stopped(c, AttentionHere(c))
<1>1. c.it.step \in Steps BY ClipParts, ItemParts
<1> QED BY <1>1, AttentionStops DEF AttentionHere

\* A step that rests, and the columns it may write.
LEMMA RestStops ==
  ASSUME NEW c, Clip(c), ~IsHeld(c.it), NEW d, Clip(d), NEW it, d = [c EXCEPT !.it = it],
         it.link = c.it.link, it.mode = c.it.mode, it.wait = c.it.wait, it.held = c.it.held,
         it.hold = c.it.hold, it.step \in ParkedSteps, it.job \in {c.it.job, 0} \cup DOMAIN c.jobs
  PROVE  Stopped(c, d)
<1>1. d.it = it /\ d.jobs = c.jobs /\ d.talk = c.talk /\ d.bind = c.bind BY OtherIt
<1> QED BY <1>1 DEF Stopped, IsHeld

LEMMA FinishedStops ==
  ASSUME NEW c, Clip(c), ~IsHeld(c.it)
  PROVE  Stopped(c, Finished(c)) /\ Stopped(c, ParkForQuality(c))
<1>1. Clip(Finished(c)) /\ Clip(ParkForQuality(c))
  BY FinishedGrows, ParkGrows DEF Finished, Grows
<1>2. ASSUME NEW step \in ParkedSteps, NEW d, Clip(d),
             d = [c EXCEPT !.it = [@ EXCEPT !.step = step, !.status = "METADATA"]]
      PROVE  Stopped(c, d)
  <2> DEFINE it == [c.it EXCEPT !.step = step, !.status = "METADATA"]
  <2>1. c.it \in ItemType BY ClipParts
  <2>2. /\ it.link = c.it.link /\ it.mode = c.it.mode /\ it.wait = c.it.wait /\ it.held = c.it.held
        /\ it.hold = c.it.hold /\ it.step = step /\ it.job = c.it.job
    BY <2>1 DEF ItemType
  <2>3. d = [c EXCEPT !.it = it] BY <1>2
  <2> HIDE DEF it
  <2> QED BY <1>2, <2>2, <2>3, RestStops
<1>3. Stopped(c, Finished(c)) BY <1>1, <1>2 DEF Finished, ParkedSteps
<1>4. Stopped(c, ParkForQuality(c)) BY <1>1, <1>2 DEF ParkForQuality, ParkedSteps
<1> QED BY <1>3, <1>4

LEMMA ReviewStops ==
  ASSUME NEW c, Clip(c), ~IsHeld(c.it)
  PROVE  Stopped(c, [c EXCEPT !.it = [@ EXCEPT !.step = "translation_review", !.job = 0,
                                               !.status = "METADATA"]])
<1> DEFINE it == [c.it EXCEPT !.step = "translation_review", !.job = 0, !.status = "METADATA"]
           d == [c EXCEPT !.it = it]
<1>1. Clip(d) BY ReviewGrows DEF Grows
<1>2. c.it \in ItemType BY ClipParts
<1>3. /\ it.link = c.it.link /\ it.mode = c.it.mode /\ it.wait = c.it.wait /\ it.held = c.it.held
      /\ it.hold = c.it.hold /\ it.step = "translation_review" /\ it.job = 0
  BY <1>2 DEF ItemType
<1> HIDE DEF it
<1>4. d = [c EXCEPT !.it = it] OBVIOUS
<1> HIDE DEF d
<1>5. Stopped(c, d) BY <1>1, <1>3, <1>4, RestStops DEF ParkedSteps
<1> QED BY <1>5 DEF d, it

\* A render without issues leaves the clip at rest, bound to the render job.
LEMMA FinalStops ==
  ASSUME NEW c, Clip(c), ~IsHeld(c.it), NEW n \in 1..Len(c.jobs)
  PROVE  Stopped(c, AtStep(UseJob(c, n), "ready_final"))
<1> DEFINE it == [[c.it EXCEPT !.job = n] EXCEPT !.step = "ready_final"]
           d == AtStep(UseJob(c, n), "ready_final")
<1>1. Clip(d)
  <2>1. n \in 0..Len(c.jobs) BY JobsDomain
  <2>2. Clip(UseJob(c, n)) BY <2>1, UseJobGrows DEF Grows
  <2> QED BY <2>2, AtStepGrows DEF Grows, Steps, ParkedSteps
<1>2. c.it \in ItemType BY ClipParts
<1>3. /\ it.link = c.it.link /\ it.mode = c.it.mode /\ it.wait = c.it.wait /\ it.held = c.it.held
      /\ it.hold = c.it.hold /\ it.step = "ready_final" /\ it.job = n
  BY <1>2 DEF ItemType
<1>4. d = [c EXCEPT !.it = it] BY DEF AtStep, UseJob, Clip, ClipType
<1>5. n \in DOMAIN c.jobs BY JobsDomain
<1> HIDE DEF it, d
<1>6. Stopped(c, d) BY <1>1, <1>3, <1>4, <1>5, RestStops DEF ParkedSteps
<1> QED BY <1>6 DEF d

\* Columns nothing here depends on.
LEMMA AtStepSame ==
  ASSUME NEW c, Clip(c), NEW step \in Steps
  PROVE  Same(c, AtStep(c, step)) /\ AtStep(c, step).it.step = step
<1> DEFINE it == [c.it EXCEPT !.step = step]
<1>1. Clip(AtStep(c, step)) BY AtStepGrows DEF Grows
<1>2. c.it \in ItemType BY ClipParts
<1>3. /\ it.job = c.it.job /\ it.link = c.it.link /\ it.mode = c.it.mode /\ it.wait = c.it.wait
      /\ it.held = c.it.held /\ it.hold = c.it.hold /\ it.step = step
  BY <1>2 DEF ItemType
<1>4. AtStep(c, step) = [c EXCEPT !.it = it] BY DEF AtStep
<1> HIDE DEF it
<1> QED BY <1>1, <1>3, <1>4, OtherIt DEF Same

LEMMA ReadySame ==
  ASSUME NEW c, Clip(c) PROVE Same(c, [c EXCEPT !.it.ready = TRUE])
<1> DEFINE it == [c.it EXCEPT !.ready = TRUE]
           d == [c EXCEPT !.it.ready = TRUE]
<1>1. Clip(d) BY ReadyGrows DEF Grows
<1>2. c.it \in ItemType BY ClipParts
<1>3. /\ it.job = c.it.job /\ it.link = c.it.link /\ it.mode = c.it.mode /\ it.wait = c.it.wait
      /\ it.held = c.it.held /\ it.hold = c.it.hold
  BY <1>2 DEF ItemType
<1>4. d = [c EXCEPT !.it = it] OBVIOUS
<1> HIDE DEF it, d
<1>5. Same(c, d) BY <1>1, <1>3, <1>4, OtherIt DEF Same
<1> QED BY <1>5 DEF d

LEMMA SameReflexive == ASSUME NEW c, Clip(c) PROVE Same(c, c) /\ Noted(c, c)
BY DEF Same, Noted

LEMMA RecordedNoted ==
  ASSUME NEW c, Clip(c), NEW step PROVE Noted(c, Recorded(c, step))
<1> DEFINE it == [c.it EXCEPT !.last = step]
<1>1. Clip(Recorded(c, step)) BY RecordedGrows DEF Grows
<1>2. c.it \in ItemType BY ClipParts
<1>3. /\ it.job = c.it.job /\ it.link = c.it.link /\ it.mode = c.it.mode /\ it.wait = c.it.wait
      /\ it.held = c.it.held /\ it.hold = c.it.hold /\ it.step = c.it.step /\ it.status = c.it.status
  BY <1>2 DEF ItemType
<1>4. Recorded(c, step) = c \/ Recorded(c, step) = [c EXCEPT !.it = it] BY DEF Recorded
<1> HIDE DEF it
<1>5. CASE Recorded(c, step) = c BY <1>5, SameReflexive
<1>6. CASE Recorded(c, step) = [c EXCEPT !.it = it]
  BY <1>1, <1>3, <1>6, OtherIt DEF Noted, Same
<1> QED BY <1>4, <1>5, <1>6

-----------------------------------------------------------------------------
\* The _ensure_ functions: with no stage at work there is no job to reuse, except a
\* completed TTS of the same text, and none is there when TTS comes next.
LEMMA EnsureStarts ==
  ASSUME NEW c, Clip(c), Over(c), ~IsHeld(c.it), NEW k \in Stages \ {"download"}, NEW ans,
         k = "tts" => KeyedJobs(c, "tts") = {}
  PROVE  Starts(c, Ensure(c, k, ans), k)
<1>0. /\ "METADATA" \in ItemStatuses /\ {TRUE, FALSE} \subseteq BOOLEAN
      /\ {"analyze_audio", "translate", "tts", "ocr", "render"} \subseteq Stages
  BY StageSet DEF ItemStatuses, Active
<1>1. CASE k = "analyze_audio"
  <2> DEFINE e == [c EXCEPT !.it.ready = TRUE]
             f == UseNew(e, "analyze_audio", FALSE, "plain")
  <2>1. Same(c, e) /\ Clip(e) BY ReadySame DEF Same
  <2>2. SingleFlight(e, "analyze_audio") = f
    <3>1. Over(e) BY <2>1 DEF Same, Over
    <3>2. LiveJobs(e, "analyze_audio") = {}
      <4> HIDE DEF e
      <4> QED BY <1>0, <3>1, NoneLive
    <3> QED BY <3>2 DEF SingleFlight
  <2>3. Ensure(c, k, ans) \in {AttentionHere(e), Linked(f, "analyze_audio", "METADATA")}
    BY <1>1, <2>2 DEF Ensure, EnsureAnalyze
  <2> HIDE DEF e
  <2>4. Opened(e, Linked(f, "analyze_audio", "METADATA"), "analyze_audio") BY <1>0, <2>1, NewOpens
  <2>5. Stopped(e, AttentionHere(e)) BY <2>1, AttentionHereStops
  <2> HIDE DEF f
  <2>6. Starts(e, Ensure(c, k, ans), k) BY <1>1, <2>3, <2>4, <2>5 DEF Starts
  <2> QED BY <2>1, <2>6, SameThenStarts
<1>2. CASE k = "translate"
  <2> DEFINE f == UseNew(c, "translate", FALSE, "plain")
  <2>1. SingleFlight(c, "translate") = f BY <1>0, NoneLive DEF SingleFlight
  <2>2. Ensure(c, k, ans) \in {AttentionHere(c), Linked(f, "translate", "METADATA")}
    BY <1>2, <2>1 DEF Ensure, EnsureTranslation
  <2>3. Opened(c, Linked(f, "translate", "METADATA"), "translate") BY <1>0, NewOpens
  <2> HIDE DEF f
  <2> QED BY <1>2, <2>2, <2>3, AttentionHereStops DEF Starts
<1>3. CASE k = "tts"
  <2> DEFINE f == UseNew(c, "tts", TRUE, "plain")
             r == [c EXCEPT !.it = [@ EXCEPT !.step = "translation_review", !.job = 0,
                                            !.status = "METADATA"]]
  <2>1. TtsJob(c, ans) = f
    <3>1. LiveJobs(c, "tts") = {} BY <1>0, NoneLive
    <3> QED BY <1>3, <3>1 DEF TtsJob
  <2>2. Ensure(c, k, ans) \in {AttentionHere(c), r, Linked(f, "tts", "METADATA")}
    BY <1>3, <2>1 DEF Ensure, EnsureTts
  <2>3. Opened(c, Linked(f, "tts", "METADATA"), "tts") BY <1>0, NewOpens
  <2>4. Stopped(c, r) BY ReviewStops
  <2> HIDE DEF f, r
  <2> QED BY <1>3, <2>2, <2>3, <2>4, AttentionHereStops DEF Starts
<1>4. CASE k = "ocr"
  <2> DEFINE v == IF c.it.mode = "auto_to_render" THEN "auto" ELSE "plain"
             f == UseNew(c, "ocr", FALSE, v)
  <2>1. OcrJob(c, v) = f
    <3>1. LiveJobs(c, "ocr") = {} BY <1>0, NoneLive
    <3> QED BY <3>1 DEF OcrJob
  <2>2. Ensure(c, k, ans) \in {AttentionHere(c), Linked(f, "ocr", "METADATA")}
    BY <1>4, <2>1 DEF Ensure, EnsureOcr
  <2>3. v \in {"plain", "auto", "approve"} OBVIOUS
  <2> HIDE DEF v
  <2>4. Opened(c, Linked(f, "ocr", "METADATA"), "ocr") BY <1>0, <2>3, NewOpens
  <2> HIDE DEF f
  <2> QED BY <1>4, <2>2, <2>4, AttentionHereStops DEF Starts
<1>5. CASE k = "render"
  <2> DEFINE f == UseNew(c, "render", FALSE, "plain")
  <2>1. Ensure(c, k, ans) \in {AttentionHere(c), Linked(f, "render", "METADATA")}
    BY <1>5 DEF Ensure, EnsureRender
  <2>2. Opened(c, Linked(f, "render", "METADATA"), "render") BY <1>0, NewOpens
  <2> HIDE DEF f
  <2> QED BY <1>5, <2>1, <2>2, AttentionHereStops DEF Starts
<1> QED BY <1>1, <1>2, <1>3, <1>4, <1>5, StageSet

LEMMA OcrReviewOpens ==
  ASSUME NEW c, Clip(c), Over(c) PROVE Opened(c, EnsureOcrReview(c), "ocr")
<1>0. "ocr" \in Stages /\ c.it.status \in ItemStatuses BY StageSet, ClipParts, ItemParts
<1>1. OcrJob(c, "approve") = UseNew(c, "ocr", FALSE, "approve")
  <2>1. LiveJobs(c, "ocr") = {} BY <1>0, NoneLive
  <2> QED BY <2>1 DEF OcrJob
<1>2. Opened(c, Linked(UseNew(c, "ocr", FALSE, "approve"), "ocr", c.it.status), "ocr")
  BY <1>0, NewOpens
<1> QED BY <1>1, <1>2 DEF EnsureOcrReview

\* A preview is committed before it is linked.
LEMMA QueuePreviewQueues ==
  ASSUME NEW c, Clip(c), NEW why \in {"preview", "residual"} PROVE Queued(c, QueuePreview(c, why))
<1> DEFINE job == [kind |-> "preview", status |-> "live", key |-> FALSE, variant |-> "plain"]
           d == QueuePreview(c, why)
<1>1. Clip(d) BY QueuePreviewGrows
<1>2. job \in JobType /\ job.kind = "preview" /\ job.status = "live"
  BY DEF JobType, JobStates, JobKinds
<1>3. d.jobs = Append(c.jobs, job) /\ d.talk = c.talk /\ d.bind = why /\ d.it = c.it
  BY DEF QueuePreview, Clip, ClipType
<1> HIDE DEF job, d
<1>4. /\ Len(d.jobs) = Len(c.jobs) + 1 /\ d.jobs[Len(c.jobs) + 1] = job
      /\ \A m \in 1..Len(c.jobs) : d.jobs[m] = c.jobs[m]
  BY <1>2, <1>3, ClipParts, AppendProperties
<1>5. Longer(c, d, "preview") BY <1>1, <1>2, <1>3, <1>4 DEF Longer
<1>6. Queued(c, d) BY <1>3, <1>5 DEF Queued
<1> QED BY <1>6 DEF d

\* The first download of a clip.
LEMMA DownloadStarts ==
  ASSUME NEW c, Clip(c), c.jobs = <<>>, c.it.job = 0, NEW ans
  PROVE  Starts(c, EnsureDownload(c, ans), "download")
<1> DEFINE kept == UseJob(c, 0)
           found == UseNew(kept, "download", TRUE, "plain")
           begun == [found EXCEPT !.it.started = TRUE]
           bound == Linked(begun, "download", "MEDIA")
<1>0. /\ "download" \in Stages /\ "MEDIA" \in ItemStatuses /\ TRUE \in BOOLEAN
      /\ Len(c.jobs) = 0 /\ c.it \in ItemType
  BY StageSet, ClipParts DEF ItemStatuses, Active
<1>1. Same(c, kept) /\ Clip(kept)
  <2> DEFINE it == [c.it EXCEPT !.job = 0]
  <2>1. Clip(kept)
    <3>1. 0 \in 0..Len(c.jobs) BY <1>0
    <3> QED BY <3>1, UseJobGrows DEF Grows
  <2>2. /\ it.job = 0 /\ it.link = c.it.link /\ it.mode = c.it.mode /\ it.wait = c.it.wait
        /\ it.held = c.it.held /\ it.hold = c.it.hold
    BY <1>0 DEF ItemType
  <2>3. kept = [c EXCEPT !.it = it] BY DEF UseJob
  <2> HIDE DEF it, kept
  <2> QED BY <2>1, <2>2, <2>3, OtherIt DEF Same
<1>2. EnsureDownload(c, ans) \in {AttentionHere(kept), bound}
  <2>1. KeepDownload(c) = kept BY DEF KeepDownload, Owns
  <2> HIDE DEF kept
  <2>2. KeyedJobs(c, "download") = {} /\ ~Owns(kept, "download")
    BY <1>1 DEF KeyedJobs, Same, Owns
  <2>3. DownloadJob(kept, c) = found BY <2>2 DEF DownloadJob
  <2> QED BY <2>1, <2>3 DEF EnsureDownload
<1> HIDE DEF kept
<1>3. Added(kept, found, "download") /\ found.it.link = kept.it.link BY <1>0, <1>1, UseNewAdds
<1> HIDE DEF found
<1>4. Added(kept, begun, "download") /\ begun.it.link = kept.it.link
  <2> DEFINE it == [found.it EXCEPT !.started = TRUE]
  <2>1. Clip(found) BY <1>3 DEF Added, Longer
  <2>2. Clip(begun) BY <2>1, StartedGrows DEF Grows
  <2>3. found.it \in ItemType BY <2>1, ClipParts
  <2>4. /\ it.job = found.it.job /\ it.link = found.it.link /\ it.mode = found.it.mode
        /\ it.wait = found.it.wait /\ it.held = found.it.held /\ it.hold = found.it.hold
    BY <2>3 DEF ItemType
  <2>5. begun = [found EXCEPT !.it = it] OBVIOUS
  <2> HIDE DEF it, begun
  <2>6. begun.it = it /\ begun.jobs = found.jobs /\ begun.talk = found.talk /\ begun.bind = found.bind
    BY <2>1, <2>5, OtherIt
  <2>7. Longer(kept, begun, "download") BY <1>3, <2>2, <2>6 DEF Added, Longer
  <2> QED BY <1>3, <2>4, <2>6, <2>7 DEF Added
<1> HIDE DEF begun
<1>5. Opened(kept, bound, "download") BY <1>0, <1>1, <1>4, LinkedOpens
<1> HIDE DEF bound
<1>6. Stopped(kept, AttentionHere(kept)) BY <1>1, AttentionHereStops
<1>7. Starts(kept, EnsureDownload(c, ans), "download") BY <1>2, <1>5, <1>6 DEF Starts
<1> QED BY <1>1, <1>7, SameThenStarts

\* A stage just opened is not over yet.
LEMMA CatchUpRests ==
  ASSUME NEW c, Clip(c), NEW k \in Stages, NEW d, Starts(c, d, k), NEW ans,
         \A n \in DOMAIN c.jobs : c.jobs[n].kind # k
  PROVE  CatchUp(d, k, ans) = d
<1>0. DOMAIN c.jobs = 1..Len(c.jobs) /\ Len(c.jobs) \in Nat BY JobsDomain
<1>1. CASE Opened(c, d, k)
  BY <1>1 DEF Opened, Added, Longer, CatchUp, Dead
<1>2. CASE Stopped(c, d)
  <2>1. c.it.job = 0 \/ c.it.job \in DOMAIN c.jobs BY <1>0, ClipParts, ItemParts DEF Links
  <2>2. d.it.job = 0 \/ d.it.job \in DOMAIN c.jobs BY <1>2, <2>1 DEF Stopped
  <2>3. d.jobs = c.jobs BY <1>2 DEF Stopped
  <2> QED BY <2>2, <2>3 DEF CatchUp
<1> QED BY <1>1, <1>2 DEF Starts

-----------------------------------------------------------------------------
LEMMA Ranks ==
  /\ Rank("download") = 1 /\ Rank("analyze_audio") = 2 /\ Rank("translate") = 3
  /\ Rank("tts") = 4 /\ Rank("ocr") = 5 /\ Rank("render") = 6
<1> DEFINE K(s) == {k \in DOMAIN Order : Order[k] = s}
<1>1. /\ DOMAIN Order = 1..6
      /\ Order[1] = "download" /\ Order[2] = "analyze_audio" /\ Order[3] = "translate"
      /\ Order[4] = "tts" /\ Order[5] = "ocr" /\ Order[6] = "render"
  BY DEF Order
<1> QED BY <1>1 DEF Rank

\* The plan: what the stage that runs next follows.
LEMMA NextFollows ==
  ASSUME NEW done \in Stages, NEW mode, NEW skip \in BOOLEAN
  PROVE  LET k == NextStep(done, mode, skip)
         IN k # "none" =>
              /\ k \in Stages /\ Rank(k) > Rank(done)
              /\ k = "analyze_audio" => done = "download"
              /\ k = "translate" => done = "analyze_audio"
              /\ k = "tts" => done = "translate"
              /\ k = "ocr" => done = "tts" \/ (skip /\ done \in {"analyze_audio", "translate"})
              /\ k = "render" => done = "ocr"
<1> DEFINE last == Rank(LastStep(mode))
           ahead == {k \in DOMAIN Order : /\ k > Rank(done) /\ k <= last
                                          /\ ~(skip /\ Order[k] \in Dubbing)}
           m == Min(ahead)
<1>1. /\ DOMAIN Order = 1..6
      /\ Order[1] = "download" /\ Order[2] = "analyze_audio" /\ Order[3] = "translate"
      /\ Order[4] = "tts" /\ Order[5] = "ocr" /\ Order[6] = "render"
  BY DEF Order
<1>2. last \in {4, 6} BY Ranks DEF LastStep
<1>3. Rank(done) \in 1..6 /\ done = Order[Rank(done)] BY <1>1, Ranks, StageSet
<1>4. NextStep(done, mode, skip) = IF mode \in AutoModes /\ ahead # {} THEN Order[m] ELSE "none"
  BY DEF NextStep
<1>5. ASSUME ahead # {}
      PROVE  /\ m \in 1..6 /\ m > Rank(done) /\ m <= last /\ ~(skip /\ Order[m] \in Dubbing)
             /\ \A j \in ahead : m <= j
  <2>1. ahead \subseteq Nat BY <1>1
  <2>2. m \in ahead /\ \A j \in ahead : m <= j
    <3> HIDE DEF ahead
    <3> QED BY <1>5, <2>1, MinIn
  <2> QED BY <1>1, <2>2
<1>6. /\ 2 > Rank(done) => 2 \in ahead
      /\ 3 > Rank(done) /\ ~skip => 3 \in ahead
      /\ 4 > Rank(done) /\ ~skip => 4 \in ahead
      /\ 5 > Rank(done) /\ last = 6 => 5 \in ahead
  BY <1>1, <1>2, <1>3 DEF Dubbing
<1>7. "tts" \in Dubbing /\ "translate" \in Dubbing BY DEF Dubbing
<1> HIDE DEF ahead, m, last
<1>8. ASSUME ahead # {}
      PROVE  /\ m \in 2..6 /\ m > Rank(done)
             /\ m = 2 => Rank(done) = 1
             /\ m = 3 => Rank(done) = 2
             /\ m = 4 => Rank(done) = 3
             /\ m = 5 => Rank(done) = 4 \/ (skip /\ Rank(done) \in {2, 3})
             /\ m = 6 => Rank(done) = 5
  <2>1. m \in 2..6 /\ Rank(done) \in 1..5 BY <1>3, <1>5, <1>8
  <2>2. m = 2 => Rank(done) = 1 BY <1>5, <1>8, <2>1
  <2>3. Rank(done) = 1 => m <= 2 BY <1>5, <1>6, <1>8
  <2>4. Rank(done) = 2 /\ ~skip => m <= 3 BY <1>5, <1>6, <1>8
  <2>5. Rank(done) = 3 /\ ~skip => m <= 4 BY <1>5, <1>6, <1>8
  <2>6. m = 3 => ~skip BY <1>1, <1>5, <1>7, <1>8
  <2>7. m = 4 => ~skip BY <1>1, <1>5, <1>7, <1>8
  <2>8. m = 6 => last = 6 BY <1>2, <1>5, <1>8
  <2>9. m = 6 /\ Rank(done) < 5 => m <= 5 BY <1>5, <1>6, <1>8, <2>1, <2>8
  <2> QED BY <1>5, <1>8, <2>1, <2>2, <2>3, <2>4, <2>5, <2>6, <2>7, <2>9
<1>9. ASSUME ahead # {}
      PROVE  LET k == Order[m]
             IN /\ k \in Stages /\ Rank(k) = m
                /\ k = "analyze_audio" => m = 2
                /\ k = "translate" => m = 3
                /\ k = "tts" => m = 4
                /\ k = "ocr" => m = 5
                /\ k = "render" => m = 6
  BY <1>1, <1>8, <1>9, Ranks, StageSet
<1>10. /\ Rank(done) = 1 => done = "download"
       /\ Rank(done) = 2 => done = "analyze_audio"
       /\ Rank(done) = 3 => done = "translate"
       /\ Rank(done) = 4 => done = "tts"
       /\ Rank(done) = 5 => done = "ocr"
  BY <1>1, <1>3
<1>11. "none" \notin Stages BY StageSet
<1> QED BY <1>4, <1>8, <1>9, <1>10, <1>11

\* A job of a clip between two transactions had its inputs.
LEMMA JobReady ==
  ASSUME NEW c, AllReady(c), NEW kind, Has(c, kind) PROVE Ready(c, kind)
BY DEF AllReady, Has

\* The stage the plan names next has its inputs, and is ahead of all others.
LEMMA NextReady ==
  ASSUME NEW c, Clip(c), AllReady(c), NEW done \in Stages, Has(c, done), Upto(c, done),
         NEW k, k = NextStep(done, c.it.mode, SkipDubbing(c)), k # "none"
  PROVE  /\ k \in Stages \ {"download"} /\ Ready(c, k) /\ Upto(c, k)
         /\ \A n \in DOMAIN c.jobs : c.jobs[n].kind # k
<1>1. SkipDubbing(c) \in BOOLEAN BY DEF SkipDubbing
<1>2. /\ k \in Stages /\ Rank(k) > Rank(done)
      /\ k = "analyze_audio" => done = "download"
      /\ k = "translate" => done = "analyze_audio"
      /\ k = "tts" => done = "translate"
      /\ k = "ocr" => done = "tts" \/ (SkipDubbing(c) /\ done \in {"analyze_audio", "translate"})
      /\ k = "render" => done = "ocr"
  BY <1>1, NextFollows
<1>3. Rank(done) \in 0..6 /\ Rank(k) \in 0..6 /\ \A s \in Stages : Rank(s) \in 0..6
  BY <1>2, RankType
<1>4. k # "download"
  <2>1. Rank(done) >= 1 BY Ranks, StageSet
  <2> QED BY <1>2, <1>3, <2>1, Ranks
<1>5. ASSUME NEW n \in DOMAIN c.jobs PROVE c.jobs[n].kind # k
  BY <1>2, <1>3 DEF Upto
<1>6. Upto(c, k)
  <2> SUFFICES ASSUME NEW n \in DOMAIN c.jobs, c.jobs[n].kind \in Stages
               PROVE  Rank(c.jobs[n].kind) <= Rank(k)
    BY DEF Upto
  <2>1. Rank(c.jobs[n].kind) <= Rank(done) BY DEF Upto
  <2> QED BY <1>2, <1>3, <2>1
<1>7. Ready(c, done) BY JobReady
<1>8. CASE k = "ocr"
  <2>1. CASE done = "tts"
    <3>1. Has(c, "translate") BY <1>7, <2>1 DEF Ready
    <3>2. Ready(c, "translate") BY <3>1, JobReady
    <3>3. Has(c, "analyze_audio") BY <3>2 DEF Ready
    <3> QED BY <1>2, <1>4, <1>5, <1>6, <1>8, <2>1, <3>3 DEF Ready
  <2>2. CASE SkipDubbing(c) /\ done \in {"analyze_audio", "translate"}
    <3>1. Has(c, "analyze_audio") BY <1>7, <2>2 DEF Ready
    <3>2. c.talk # "speech" BY <2>2 DEF SkipDubbing
    <3> QED BY <1>2, <1>4, <1>5, <1>6, <1>8, <3>1, <3>2 DEF Ready
  <2> QED BY <1>2, <1>8, <2>1, <2>2
<1>9. CASE k # "ocr"
  <2>1. k \in {"analyze_audio", "translate", "tts", "render"} BY <1>2, <1>4, <1>9, StageSet
  <2>2. Ready(c, k) BY <1>2, <1>9, <2>1 DEF Ready
  <2> QED BY <1>2, <1>4, <1>5, <1>6, <2>2
<1> QED BY <1>8, <1>9

\* A stage that completed leads on to the next one, or to a resting place.
LEMMA RunsNext ==
  ASSUME NEW c, Free(c), NEW done \in Stages, Has(c, done), Upto(c, done), NEW ans
  PROVE  LET next == NextStep(done, c.it.mode, SkipDubbing(c))
             d == RunNextStep(c, done, ans)
         IN /\ Moved(c, d)
            /\ next # "none" => CatchUp(d, next, ans) = d
<1> DEFINE next == NextStep(done, c.it.mode, SkipDubbing(c))
           d == RunNextStep(c, done, ans)
           at == AtStep(c, next)
<1>0. Clip(c) /\ AllReady(c) /\ Over(c) /\ ~IsHeld(c.it) BY DEF Free
<1>1. CASE next = "none"
  <2>1. d = Finished(c) BY <1>1 DEF RunNextStep
  <2>2. Stopped(c, Finished(c)) BY <1>0, FinishedStops
  <2> QED BY <1>1, <2>1, <2>2 DEF Moved
<1>2. CASE next # "none"
  <2>1. /\ next \in Stages \ {"download"} /\ Ready(c, next) /\ Upto(c, next)
        /\ \A n \in DOMAIN c.jobs : c.jobs[n].kind # next
    BY <1>0, <1>2, NextReady
  <2>2. d = Ensure(at, next, ans) BY <1>2 DEF RunNextStep
  <2> HIDE DEF next
  <2>3. Same(c, at) /\ Clip(at) BY <1>0, <2>1, AtStepSame DEF Same, Steps
  <2>4. Over(at) /\ ~IsHeld(at.it) BY <1>0, <2>3 DEF Same, Over, IsHeld
  <2>5. KeyedJobs(at, "tts") = {} \/ next # "tts" BY <2>1, <2>3 DEF Same, KeyedJobs
  <2> HIDE DEF at, d
  <2>6. Starts(at, d, next) BY <2>1, <2>2, <2>3, <2>4, <2>5, EnsureStarts
  <2>7. Starts(c, d, next) BY <2>3, <2>6, SameThenStarts
  <2>8. CatchUp(d, next, ans) = d BY <1>0, <2>1, <2>7, CatchUpRests
  <2>9. Moved(c, d) BY <2>1, <2>7 DEF Starts, Moved
  <2> QED BY <2>8, <2>9 DEF d, next
<1> QED BY <1>1, <1>2

-----------------------------------------------------------------------------
\* A clip with one job more.
LEMMA LongerKeeps ==
  ASSUME NEW c, Clip(c), NEW kind, NEW d, Longer(c, d, kind)
  PROVE  /\ DOMAIN c.jobs = 1..Len(c.jobs) /\ DOMAIN d.jobs = 1..(Len(c.jobs) + 1)
         /\ \A m \in DOMAIN c.jobs : m \in DOMAIN d.jobs /\ d.jobs[m] = c.jobs[m]
         /\ \A m \in DOMAIN d.jobs : m \in DOMAIN c.jobs \/ m = Len(c.jobs) + 1
         /\ Len(c.jobs) + 1 \in DOMAIN d.jobs
         /\ AllReady(c) /\ Ready(c, kind) => AllReady(d)
         /\ c.bind = "no" \/ d.bind # "no" => d.jobs # <<>>
<1>1. Clip(d) BY DEF Longer
<1>2. /\ DOMAIN c.jobs = 1..Len(c.jobs) /\ Len(c.jobs) \in Nat
      /\ DOMAIN d.jobs = 1..(Len(c.jobs) + 1) /\ Len(d.jobs) = Len(c.jobs) + 1
  <2>1. Len(d.jobs) = Len(c.jobs) + 1 BY DEF Longer
  <2>2. DOMAIN d.jobs = 1..Len(d.jobs) /\ DOMAIN c.jobs = 1..Len(c.jobs) /\ Len(c.jobs) \in Nat
    BY <1>1, JobsDomain
  <2> QED BY <2>1, <2>2
<1>3. \A m \in DOMAIN c.jobs : m \in DOMAIN d.jobs /\ d.jobs[m] = c.jobs[m] BY <1>2 DEF Longer
<1>4. \A m \in DOMAIN d.jobs : m \in DOMAIN c.jobs \/ m = Len(c.jobs) + 1 BY <1>2
<1>5. Len(c.jobs) + 1 \in DOMAIN d.jobs BY <1>2
<1>6. \A k : Has(c, k) => Has(d, k) BY <1>3 DEF Has
<1>7. \A k : Ready(c, k) => Ready(d, k) BY <1>6 DEF Ready, Longer
<1>8. ASSUME AllReady(c), Ready(c, kind) PROVE AllReady(d)
  <2> SUFFICES ASSUME NEW m \in DOMAIN d.jobs PROVE Ready(d, d.jobs[m].kind) BY DEF AllReady
  <2>1. CASE m \in DOMAIN c.jobs BY <1>3, <1>7, <1>8, <2>1 DEF AllReady
  <2>2. CASE m = Len(c.jobs) + 1 BY <1>7, <1>8, <2>2 DEF Longer
  <2> QED BY <1>4, <2>1, <2>2
<1>9. d.jobs # <<>> BY <1>5
<1> QED BY <1>2, <1>3, <1>4, <1>5, <1>8, <1>9

\* Each of the three forms leaves the clip good.
LEMMA OpenedLands ==
  ASSUME NEW c, Free(c), NEW k \in Stages, NEW d, Opened(c, d, k), Ready(c, k), Upto(c, k)
  PROVE  Landed(d)
<1> DEFINE n == Len(c.jobs) + 1
<1>0. /\ Clip(c) /\ Longer(c, d, k) /\ Clip(d) /\ k # "preview" /\ k \notin ParkedSteps /\ k # "none"
      /\ Len(c.jobs) \in Nat
  BY StageSet, JobsDomain DEF Free, Opened, Added, Longer, ParkedSteps
<1>1. /\ \A m \in DOMAIN c.jobs : m \in DOMAIN d.jobs /\ d.jobs[m] = c.jobs[m]
      /\ \A m \in DOMAIN d.jobs : m \in DOMAIN c.jobs \/ m = n
      /\ n \in DOMAIN d.jobs /\ AllReady(d) /\ DOMAIN c.jobs = 1..Len(c.jobs)
  BY <1>0, LongerKeeps DEF Free
<1>2. /\ d.jobs[n].kind = k /\ d.jobs[n].status = "live" /\ d.bind = "no" /\ d.it.job = n
      /\ d.it.mode = c.it.mode /\ ~d.it.wait /\ ~IsHeld(d.it) /\ d.it.step = k
      /\ d.it.link = [c.it.link EXCEPT ![k] = n]
  BY DEF Opened, Added, Longer, Free, IsHeld
<1>3. c.it.link \in [Stages -> Nat] /\ \A s \in Stages : c.it.link[s] <= Len(c.jobs)
  BY <1>0, ClipParts, ItemParts DEF Links
<1>4. n # 0 BY <1>0
<1> HIDE DEF n
<1>5. LinksTyped(d)
  <2> SUFFICES ASSUME NEW s \in Stages, d.it.link[s] # 0 PROVE d.jobs[d.it.link[s]].kind = s
    BY DEF LinksTyped
  <2>1. CASE s = k BY <1>2, <1>3, <2>1
  <2>2. CASE s # k
    <3>1. d.it.link[s] = c.it.link[s] /\ c.it.link[s] # 0 /\ c.it.link[s] \in DOMAIN c.jobs
      BY <1>0, <1>1, <1>2, <1>3, <2>2
    <3> QED BY <1>1, <3>1 DEF Free, LinksTyped
  <2> QED BY <2>1, <2>2
<1>6. OneStage(d) BY <1>1, <1>2 DEF Free, Over, OneStage
<1>7. Bound(d)
  <2>1. Upto(d, k)
    <3> SUFFICES ASSUME NEW m \in DOMAIN d.jobs, d.jobs[m].kind \in Stages
                 PROVE  Rank(d.jobs[m].kind) <= Rank(k)
      BY DEF Upto
    <3>1. CASE m \in DOMAIN c.jobs BY <1>1, <3>1 DEF Upto
    <3>2. CASE m = n
      <4>1. Rank(k) \in 0..6 BY RankType
      <4> QED BY <1>2, <3>2, <4>1
    <3> QED BY <1>1, <3>1, <3>2
  <2> QED BY <1>2, <1>3, <1>4, <2>1 DEF Bound
<1>8. Waits(d) BY <1>0, <1>2, ClipParts, ItemParts DEF Waits
<1>9. Good(d) BY <1>1, <1>2, <1>5, <1>6, <1>7, <1>8 DEF Good, Free, IsAuto
<1>10. NoLoss => Served(d) BY <1>0, <1>1, <1>2 DEF Served, StepOf, Free, Quiet
<1> QED BY <1>0, <1>2, <1>9, <1>10 DEF Landed

LEMMA StoppedLands ==
  ASSUME NEW c, Free(c), NEW d, Stopped(c, d) PROVE Landed(d)
<1>1. d.it.step \notin Stages /\ d.it.step # "none" BY StageSet DEF Stopped, ParkedSteps
<1>2. /\ Clip(d) /\ d.jobs = c.jobs /\ d.talk = c.talk /\ d.bind = "no" /\ d.it.link = c.it.link
      /\ d.it.mode = c.it.mode /\ ~d.it.wait /\ (IsHeld(d.it) => d.it.status \notin Active)
  BY DEF Stopped, Free
<1>3. AllReady(d) BY <1>2 DEF Free, AllReady, Ready, Has
<1>4. LinksTyped(d) BY <1>2 DEF Free, LinksTyped
<1>5. OneStage(d) BY <1>2 DEF Free, Over, OneStage
<1>6. Bound(d) BY <1>1 DEF Bound
<1>7. Waits(d) BY <1>1, <1>2, ClipParts, ItemParts DEF Waits
<1>8. Good(d) BY <1>2, <1>3, <1>4, <1>5, <1>6, <1>7 DEF Good, Free, IsAuto
<1>9. NoLoss => Served(d) BY <1>1, <1>2 DEF Served, Free, Quiet
<1> QED BY <1>2, <1>8, <1>9 DEF Landed

LEMMA QueuedLands ==
  ASSUME NEW c, Free(c), Good(c), NEW d, Queued(c, d), Ready(c, "preview") PROVE Landed(d)
<1> DEFINE n == Len(c.jobs) + 1
<1>0. Clip(c) /\ Longer(c, d, "preview") /\ Clip(d) /\ "preview" \notin Stages /\ Len(d.jobs) = n
  BY StageSet DEF Free, Queued, Longer
<1>1. /\ \A m \in DOMAIN c.jobs : m \in DOMAIN d.jobs /\ d.jobs[m] = c.jobs[m]
      /\ \A m \in DOMAIN d.jobs : m \in DOMAIN c.jobs \/ m = n
      /\ n \in DOMAIN d.jobs /\ AllReady(d) /\ DOMAIN c.jobs = 1..Len(c.jobs) /\ d.jobs # <<>>
  BY <1>0, LongerKeeps DEF Free
<1>2. /\ d.jobs[n].kind = "preview" /\ d.bind # "no" /\ d.it.job = c.it.job
      /\ d.it.link = c.it.link /\ d.it.mode = c.it.mode /\ ~d.it.wait /\ ~IsHeld(d.it)
      /\ d.it.step = c.it.step /\ c.it.wait = FALSE
  <2>1. c.it.wait \in BOOLEAN BY <1>0, ClipParts, ItemParts
  <2> QED BY <2>1 DEF Queued, Longer, Free, IsHeld
<1>3. c.it.link \in [Stages -> Nat] /\ \A s \in Stages : c.it.link[s] <= Len(c.jobs)
  BY <1>0, ClipParts, ItemParts DEF Links
<1> HIDE DEF n
<1>4. Over(d) BY <1>0, <1>1, <1>2 DEF Free, Over
<1>5. LinksTyped(d)
  <2> SUFFICES ASSUME NEW s \in Stages, d.it.link[s] # 0 PROVE d.jobs[d.it.link[s]].kind = s
    BY DEF LinksTyped
  <2>1. d.it.link[s] = c.it.link[s] /\ c.it.link[s] # 0 /\ c.it.link[s] \in DOMAIN c.jobs
    BY <1>1, <1>2, <1>3
  <2> QED BY <1>1, <2>1 DEF Free, LinksTyped
<1>6. OneStage(d) BY <1>4 DEF Over, OneStage
<1>7. Bound(d)
  <2>1. \A k : Upto(c, k) => Upto(d, k) BY <1>0, <1>1, <1>2 DEF Upto
  <2> QED BY <1>2, <2>1 DEF Good, Bound
<1>8. Waits(d)
  <2>1. d.it.wait = FALSE BY <1>0, <1>2, ClipParts, ItemParts
  <2> QED BY <1>2, <2>1 DEF Waits, Good
<1>9. Good(d) BY <1>1, <1>2, <1>5, <1>6, <1>7, <1>8 DEF Good, IsAuto
<1>10. NoLoss => \A m \in DOMAIN d.jobs : d.jobs[m].status = "live" => m = Len(d.jobs)
  BY <1>0, <1>1 DEF Free, Quiet
<1>11. Linkable(d) BY <1>0, <1>1, <1>2, <1>4, <1>10 DEF Linkable
<1> QED BY <1>0, <1>2, <1>9, <1>11 DEF Landed

LEMMA MovedLands ==
  ASSUME NEW c, Free(c), Good(c), NEW d, Moved(c, d) PROVE Landed(d)
BY OpenedLands, StoppedLands, QueuedLands DEF Moved

\* The record of the progress changes nothing here.
LEMMA NotedGood ==
  ASSUME NEW c, Free(c), Good(c), NEW d, Noted(c, d) PROVE Free(d) /\ Good(d)
<1>1. /\ Clip(d) /\ d.jobs = c.jobs /\ d.talk = c.talk /\ d.bind = c.bind
      /\ d.it.job = c.it.job /\ d.it.link = c.it.link /\ d.it.mode = c.it.mode
      /\ d.it.wait = c.it.wait /\ d.it.held = c.it.held /\ d.it.hold = c.it.hold
      /\ d.it.step = c.it.step /\ d.it.status = c.it.status
  BY DEF Noted, Same
<1>2. AllReady(d) /\ LinksTyped(d) /\ IsAuto(d.it)
  BY <1>1 DEF Good, AllReady, Ready, Has, LinksTyped, IsAuto
<1>3. Free(d) BY <1>1, <1>2 DEF Free, Over, Quiet, IsHeld
<1>4. OneStage(d) BY <1>1 DEF Good, OneStage
<1>5. Bound(d) BY <1>1 DEF Good, Bound, Upto
<1>6. Waits(d) /\ (IsHeld(d.it) => d.it.status \notin Active) BY <1>1 DEF Good, Waits, Free, IsHeld
<1> QED BY <1>2, <1>3, <1>4, <1>5, <1>6 DEF Good

-----------------------------------------------------------------------------
LEMMA AheadOfAll ==
  ASSUME NEW c, Clip(c) PROVE Upto(c, "render")
<1> SUFFICES ASSUME NEW n \in DOMAIN c.jobs, c.jobs[n].kind \in Stages
             PROVE  Rank(c.jobs[n].kind) <= Rank("render")
  BY DEF Upto
<1>1. Rank(c.jobs[n].kind) \in 0..6 BY RankType
<1> QED BY <1>1, Ranks

\* The continuations of a callback, one by one.
LEMMA RenderMoves ==
  ASSUME NEW c, Free(c), Has(c, "ocr"), NEW ans PROVE Moved(c, EnsureRender(AtStep(c, "render"), ans))
<1> DEFINE at == AtStep(c, "render")
<1>0. Clip(c) /\ "render" \in Stages /\ "render" \in Stages \ {"download"} /\ "render" \in Steps
  BY StageSet DEF Free, Steps
<1>1. Same(c, at) /\ Clip(at) BY <1>0, AtStepSame DEF Same
<1>2. Over(at) /\ ~IsHeld(at.it) BY <1>1 DEF Same, Over, IsHeld, Free
<1> HIDE DEF at
<1>3. Starts(at, Ensure(at, "render", ans), "render") BY <1>0, <1>1, <1>2, EnsureStarts
<1>4. Starts(at, EnsureRender(at, ans), "render") BY <1>3 DEF Ensure
<1>5. Starts(c, EnsureRender(at, ans), "render") BY <1>1, <1>4, SameThenStarts
<1>6. Ready(c, "render") BY DEF Ready
<1>7. Moved(c, EnsureRender(at, ans)) BY <1>0, <1>5, <1>6, AheadOfAll DEF Starts, Moved
<1> QED BY <1>7 DEF at

LEMMA AfterAutoOcrMoves ==
  ASSUME NEW c, Free(c), Good(c), Has(c, "ocr"), c.it.step = "ocr", NEW ans
  PROVE  Moved(c, AfterAutoOcr(c, ans))
<1>0. Clip(c) /\ Over(c) /\ "ocr" \in Stages BY StageSet DEF Free
<1>1. Moved(c, EnsureRender(AtStep(c, "render"), ans)) BY RenderMoves
<1>2. Moved(c, EnsureOcrReview(c))
  <2>1. Opened(c, EnsureOcrReview(c), "ocr") BY <1>0, OcrReviewOpens
  <2>2. Ready(c, "ocr") BY JobReady DEF Good
  <2>3. Upto(c, "ocr") BY <1>0 DEF Good, Bound
  <2> QED BY <1>0, <2>1, <2>2, <2>3 DEF Moved
<1>3. Moved(c, QueuePreview(c, "preview"))
  <2>1. Queued(c, QueuePreview(c, "preview")) BY <1>0, QueuePreviewQueues
  <2>2. Ready(c, "preview") BY StageSet DEF Ready
  <2> QED BY <2>1, <2>2 DEF Moved
<1>4. Moved(c, AttentionHere(c)) BY <1>0, AttentionHereStops DEF Moved
<1>5. \/ AfterAutoOcr(c, ans) = EnsureRender(AtStep(c, "render"), ans)
      \/ AfterAutoOcr(c, ans) = EnsureOcrReview(c)
      \/ AfterAutoOcr(c, ans) = QueuePreview(c, "preview")
      \/ AfterAutoOcr(c, ans) = AttentionHere(c)
  BY DEF AfterAutoOcr
<1> QED BY <1>1, <1>2, <1>3, <1>4, <1>5

\* The completed job of the current stage moves the clip, and no other job does.
LEMMA AdvanceMoves ==
  ASSUME NEW c, Free(c), Good(c), NEW n \in 1..Len(c.jobs), c.jobs[n].status = "completed", NEW ans
  PROVE  LET kind == c.jobs[n].kind
             d == AdvanceAfterSuccess(c, n, ans)
         IN /\ d = c \/ Moved(c, d)
            /\ kind \in Stages /\ c.it.step = kind => Moved(c, d)
<1> DEFINE kind == c.jobs[n].kind
           d == AdvanceAfterSuccess(c, n, ans)
           next == NextStep(kind, c.it.mode, SkipDubbing(c))
           after == AfterSuccess(c, n, ans)
<1>0. /\ Clip(c) /\ ~IsHeld(c.it) /\ kind \in JobKinds /\ DOMAIN c.jobs = 1..Len(c.jobs)
      /\ "preview" \notin Stages
  BY JobKnown, JobsDomain, StageSet DEF Free
<1>1. CASE kind = "preview" \/ c.it.step # kind
  <2>1. ~LeadsOn(c, n, ans) BY <1>1 DEF LeadsOn
  <2>2. after = c BY <1>1 DEF AfterSuccess
  <2>3. d = after BY <2>1 DEF AdvanceAfterSuccess
  <2> QED BY <1>0, <1>1, <2>2, <2>3
<1>2. CASE kind \in Stages /\ c.it.step = kind
  <2>1. Has(c, kind) BY <1>0 DEF Has
  <2>2. Upto(c, kind) BY <1>2 DEF Good, Bound
  <2>3. CASE LeadsOn(c, n, ans)
    <3>1. after = RunNextStep(c, kind, ans) BY <1>0, <1>2, <2>3 DEF AfterSuccess
    <3>2. d = IF next # "none" THEN CatchUp(after, next, ans) ELSE after
      BY <2>3 DEF AdvanceAfterSuccess
    <3>3. Moved(c, RunNextStep(c, kind, ans))
          /\ (next # "none" => CatchUp(RunNextStep(c, kind, ans), next, ans) = RunNextStep(c, kind, ans))
      BY <1>2, <2>1, <2>2, RunsNext
    <3> HIDE DEF d, after, next
    <3>4. Moved(c, d) BY <3>1, <3>2, <3>3
    <3> QED BY <3>4 DEF d
  <2>4. CASE ~LeadsOn(c, n, ans)
    <3>1. d = after BY <2>4 DEF AdvanceAfterSuccess
    <3>2. kind \in {"analyze_audio", "ocr", "render"} BY <1>0, <1>2, <2>4, StageSet DEF LeadsOn
    <3>3. /\ kind = "analyze_audio" => after = AttentionHere(c)
          /\ kind = "ocr" => after \in {AfterAutoOcr(c, ans), ParkForQuality(c)}
          /\ kind = "render" => after \in {AttentionHere(c), AtStep(UseJob(c, n), "ready_final")}
      BY <1>0, <1>2, <2>4 DEF AfterSuccess
    <3>4. kind = "ocr" => Moved(c, AfterAutoOcr(c, ans)) BY <1>2, <2>1, AfterAutoOcrMoves
    <3>5. Moved(c, ParkForQuality(c)) BY <1>0, FinishedStops DEF Moved
    <3>6. Moved(c, AttentionHere(c)) BY <1>0, AttentionHereStops DEF Moved
    <3>7. Moved(c, AtStep(UseJob(c, n), "ready_final")) BY <1>0, FinalStops DEF Moved
    <3> HIDE DEF d, after
    <3>8. Moved(c, d) BY <3>1, <3>2, <3>3, <3>4, <3>5, <3>6, <3>7
    <3> QED BY <3>8 DEF d
  <2> QED BY <2>3, <2>4
<1> QED BY <1>0, <1>1, <1>2 DEF JobKinds

LEMMA RemediateMoves ==
  ASSUME NEW c, Free(c), Has(c, "ocr"), NEW ans PROVE Moved(c, Remediate(c, ans))
<1>0. Clip(c) BY DEF Free
<1>1. Queued(c, QueuePreview(c, "residual")) BY <1>0, QueuePreviewQueues
<1>2. Ready(c, "preview") BY DEF Ready
<1>3. Stopped(c, AttentionHere(c)) BY <1>0, AttentionHereStops
<1>4. Moved(c, QueuePreview(c, "residual")) /\ Moved(c, AttentionHere(c)) BY <1>1, <1>2, <1>3 DEF Moved
<1> QED BY <1>4 DEF Remediate

LEMMA AfterPreviewMoves ==
  ASSUME NEW c, Free(c), Has(c, "ocr"), NEW ans PROVE Moved(c, AfterPreview(c, ans))
<1>0. Clip(c) /\ ~IsHeld(c.it) BY DEF Free
<1>1. Moved(c, ParkForQuality(c)) BY <1>0, FinishedStops DEF Moved
<1>2. Moved(c, EnsureRender(AtStep(c, "render"), ans)) BY RenderMoves
<1>3. Moved(c, Remediate(c, ans)) BY RemediateMoves
<1>4. Moved(c, AttentionHere(c)) BY <1>0, AttentionHereStops DEF Moved
<1> QED BY <1>1, <1>2, <1>3, <1>4 DEF AfterPreview

\* The callback moves the clip that waits for the job.
LEMMA AdvancedMoves ==
  ASSUME NEW c, Free(c), Good(c), NEW n \in 1..Len(c.jobs), NEW out \in {"completed", "failed"},
         c.jobs[n].status = out, NEW ans
  PROVE  LET d == Advanced(c, n, out, ans)
         IN /\ Noted(c, d) \/ Moved(c, d)
            /\ c.it.step = StepOf(c.jobs[n].kind) => Moved(c, d)
<1> DEFINE kind == c.jobs[n].kind
           noted == IF out = "completed" THEN Recorded(c, kind) ELSE c
           d == Advanced(c, n, out, ans)
<1>0. /\ Clip(c) /\ kind \in JobKinds /\ DOMAIN c.jobs = 1..Len(c.jobs) /\ "preview" \notin Stages
      /\ "quality_review" \notin Stages
  BY JobKnown, JobsDomain, StageSet DEF Free
<1>1. Noted(c, noted) BY <1>0, RecordedNoted, SameReflexive
<1>2. Free(noted) /\ Good(noted) BY <1>1, NotedGood
<1>3. /\ noted.jobs = c.jobs /\ noted.it.step = c.it.step /\ n \in 1..Len(noted.jobs)
      /\ IsAuto(noted.it) /\ ~IsHeld(noted.it) /\ Clip(noted)
  BY <1>1, <1>2 DEF Noted, Same, Free
<1>4. kind = "preview" => Has(noted, "ocr")
  <2>1. Ready(noted, noted.jobs[n].kind) BY <1>0, <1>2, <1>3 DEF Good, AllReady
  <2> QED BY <1>3, <2>1 DEF Ready
<1>5. FailedStep(kind) \in Steps \cup {"render_preview"}
  BY <1>0 DEF FailedStep, JobKinds, Steps
<1>6. \/ out = "failed" /\ d = Attention(noted, FailedStep(kind))
      \/ kind = "preview" /\ d = Remediate(noted, ans)
      \/ kind = "preview" /\ d = AfterPreview(noted, ans)
      \/ out = "completed" /\ ~(kind = "preview" /\ noted.it.step = "quality_review")
         /\ d = AdvanceAfterSuccess(noted, n, ans)
  BY <1>3 DEF Advanced, FailedPreviewHeals
<1> HIDE DEF d, noted
<1>7. CASE d = Attention(noted, FailedStep(kind))
  <2>1. Moved(noted, d) BY <1>3, <1>5, <1>7, AttentionStops DEF Moved
  <2>2. Moved(c, d) BY <1>1, <2>1, NotedThenMoved
  <2> QED BY <2>2 DEF d
<1>8. CASE kind = "preview" /\ (d = Remediate(noted, ans) \/ d = AfterPreview(noted, ans))
  <2>1. Moved(noted, d) BY <1>2, <1>4, <1>8, RemediateMoves, AfterPreviewMoves
  <2>2. Moved(c, d) BY <1>1, <2>1, NotedThenMoved
  <2> QED BY <2>2 DEF d
<1>9. CASE out = "completed" /\ ~(kind = "preview" /\ noted.it.step = "quality_review")
           /\ d = AdvanceAfterSuccess(noted, n, ans)
  <2>1. /\ d = noted \/ Moved(noted, d)
        /\ noted.jobs[n].kind \in Stages /\ noted.it.step = noted.jobs[n].kind => Moved(noted, d)
    BY <1>2, <1>3, <1>9, AdvanceMoves
  <2>2. Moved(noted, d) => Moved(c, d) BY <1>1, NotedThenMoved
  <2>3. c.it.step = StepOf(kind) => kind \in Stages /\ noted.it.step = kind
    BY <1>0, <1>3, <1>9 DEF StepOf, JobKinds
  <2>4. Noted(c, d) \/ Moved(c, d) BY <1>1, <2>1, <2>2
  <2>5. c.it.step = StepOf(kind) => Moved(c, d) BY <1>3, <2>1, <2>2, <2>3
  <2> QED BY <2>4, <2>5 DEF d
<1> QED BY <1>6, <1>7, <1>8, <1>9
-----------------------------------------------------------------------------
\* A live job ends.  Only the analysis changes what is known of the dialogue,
\* and nothing beyond it has been started then.
LEMMA EndedGood ==
  ASSUME NEW c, Fine(c), Good(c), NEW n \in 1..Len(c.jobs), c.jobs[n].status = "live",
         NEW out \in {"completed", "failed", "cancelled"}, NEW talk \in Talks,
         c.jobs[n].kind = "analyze_audio" \/ talk = c.talk
  PROVE  LET d == Ended(c, n, out, talk)
         IN /\ Fine(d) /\ Good(d) /\ d.it = c.it /\ Len(d.jobs) = Len(c.jobs)
            /\ d.jobs[n].status = out /\ d.jobs[n].kind = c.jobs[n].kind
            /\ \A m \in DOMAIN d.jobs : m \in DOMAIN c.jobs /\ d.jobs[m].kind = c.jobs[m].kind
            /\ \A m \in DOMAIN d.jobs : d.jobs[m].status = "live" => c.jobs[m].status = "live" /\ m # n
            /\ c.jobs[n].kind \in Stages \/ c.it.step \notin Stages => Over(d)
            /\ Served(c) => Quiet(d)
<1> DEFINE d == Ended(c, n, out, talk)
           job == [c.jobs[n] EXCEPT !.status = out]
<1>0. /\ Clip(c) /\ c.jobs \in Seq(JobType) /\ DOMAIN c.jobs = 1..Len(c.jobs) /\ out \in JobStates
      /\ c.jobs[n] \in JobType /\ out # "live"
  <2>1. Clip(c) /\ c.jobs \in Seq(JobType) BY ClipParts DEF Fine
  <2>2. c.jobs[n] \in JobType BY <2>1, LenProperties
  <2> QED BY <2>1, <2>2, JobsDomain DEF JobStates
<1>1. Fine(d) /\ Len(d.jobs) = Len(c.jobs) /\ d.it = c.it /\ d.talk = talk BY <1>0, EndedFine
<1>2. d.jobs = [c.jobs EXCEPT ![n] = job] BY <1>0 DEF Ended, Clip, ClipType
<1>3. job.status = out /\ job.kind = c.jobs[n].kind BY <1>0 DEF JobType
<1>4. DOMAIN d.jobs = DOMAIN c.jobs /\ d.jobs[n] = job /\ \A m \in DOMAIN c.jobs : m # n => d.jobs[m] = c.jobs[m]
  BY <1>0, <1>2
<1> HIDE DEF d, job
<1>5. \A m \in DOMAIN d.jobs : m \in DOMAIN c.jobs /\ d.jobs[m].kind = c.jobs[m].kind BY <1>3, <1>4
<1>6. \A m \in DOMAIN d.jobs : d.jobs[m].status = "live" => c.jobs[m].status = "live" /\ m # n
  BY <1>0, <1>3, <1>4
<1>7. \A k : Has(c, k) => Has(d, k)
  <2> TAKE k
  <2>1. HAVE Has(c, k)
  <2>2. PICK m \in DOMAIN c.jobs : c.jobs[m].kind = k /\ c.jobs[m].status = "completed" BY <2>1 DEF Has
  <2>3. m # n BY <2>2
  <2> QED BY <1>4, <2>2, <2>3 DEF Has
<1>8. c.jobs[n].kind \in Stages => c.it.job = n /\ c.it.step = c.jobs[n].kind
  BY <1>0 DEF Good, OneStage
<1>9. AllReady(d)
  <2> SUFFICES ASSUME NEW m \in DOMAIN d.jobs PROVE Ready(d, d.jobs[m].kind) BY DEF AllReady
  <2>1. Ready(c, c.jobs[m].kind) /\ d.jobs[m].kind = c.jobs[m].kind BY <1>5 DEF Good, AllReady
  <2>2. CASE talk = c.talk BY <1>1, <1>7, <2>1, <2>2 DEF Ready
  <2>3. CASE c.jobs[n].kind = "analyze_audio"
    <3>1. Upto(c, "analyze_audio") BY <1>8, <2>3, StageSet DEF Good, Bound
    <3>2. c.jobs[m].kind # "ocr"
      <4>1. c.jobs[m].kind = "ocr" => Rank("ocr") <= Rank("analyze_audio") BY <1>5, <3>1, StageSet DEF Upto
      <4> QED BY <4>1, Ranks
    <3> QED BY <1>7, <2>1, <3>2 DEF Ready
  <2> QED BY <2>2, <2>3
<1>10. LinksTyped(d)
  <2> SUFFICES ASSUME NEW s \in Stages, d.it.link[s] # 0 PROVE d.jobs[d.it.link[s]].kind = s
    BY DEF LinksTyped
  <2>1. c.it.link[s] \in DOMAIN c.jobs
    BY <1>0, <1>1, ClipParts, ItemParts DEF Links
  <2> QED BY <1>1, <1>4, <1>5, <2>1 DEF Good, LinksTyped
<1>11. OneStage(d) BY <1>1, <1>5, <1>6 DEF Good, OneStage
<1>12. Bound(d) BY <1>1, <1>5 DEF Good, Bound, Upto
<1>13. Waits(d)
  <2>1. c.jobs # <<>> BY <1>0
  <2> QED BY <1>1, <2>1 DEF Good, Waits
<1>14. Good(d) BY <1>1, <1>9, <1>10, <1>11, <1>12, <1>13 DEF Good
<1>15. c.jobs[n].kind \in Stages => Over(d)
  BY <1>5, <1>6, <1>8 DEF Good, OneStage, Over
<1>16. c.it.step \notin Stages => Over(d) BY <1>5, <1>6 DEF Good, OneStage, Over
<1>17. Served(c) => Quiet(d) BY <1>0, <1>5, <1>6 DEF Served, Quiet
<1> QED BY <1>1, <1>3, <1>4, <1>5, <1>6, <1>14, <1>15, <1>16, <1>17 DEF d

\* The download sync writes no column that matters here, except for a failed download.
LEMMA SyncDownloadSame ==
  ASSUME NEW c, Clip(c), NEW n, NEW out
  PROVE  LET d == SyncDownload(c, n, out)
         IN /\ Same(c, d) /\ d.it.step = c.it.step /\ d.it.last = c.it.last
            /\ d.it.status \in {c.it.status, "FAILED"}
<1> DEFINE d == SyncDownload(c, n, out)
           it1 == [c.it EXCEPT !.fetched = TRUE]
           it2 == [c.it EXCEPT !.status = "FAILED", !.fetched = FALSE]
<1>1. Clip(d) /\ d.it.status \in {c.it.status, "FAILED"} BY SyncDownloadGrows DEF Grows
<1>2. c.it \in ItemType BY ClipParts
<1>3. /\ it1.job = c.it.job /\ it1.link = c.it.link /\ it1.mode = c.it.mode /\ it1.wait = c.it.wait
      /\ it1.held = c.it.held /\ it1.hold = c.it.hold /\ it1.step = c.it.step /\ it1.last = c.it.last
  BY <1>2 DEF ItemType
<1>4. /\ it2.job = c.it.job /\ it2.link = c.it.link /\ it2.mode = c.it.mode /\ it2.wait = c.it.wait
      /\ it2.held = c.it.held /\ it2.hold = c.it.hold /\ it2.step = c.it.step /\ it2.last = c.it.last
  BY <1>2 DEF ItemType
<1>5. d = c \/ d = [c EXCEPT !.it = it1] \/ d = [c EXCEPT !.it = it2] BY DEF SyncDownload
<1> HIDE DEF d, it1, it2
<1>6. CASE d = c BY <1>1, <1>6, SameReflexive DEF d
<1>7. CASE d = [c EXCEPT !.it = it1]
  <2>1. Same(c, d) /\ d.it.step = c.it.step /\ d.it.last = c.it.last
    BY <1>1, <1>3, <1>7, OtherIt DEF Same
  <2> QED BY <1>1, <2>1 DEF d
<1>8. CASE d = [c EXCEPT !.it = it2]
  <2>1. Same(c, d) /\ d.it.step = c.it.step /\ d.it.last = c.it.last
    BY <1>1, <1>4, <1>8, OtherIt DEF Same
  <2> QED BY <1>1, <2>1 DEF d
<1> QED BY <1>5, <1>6, <1>7, <1>8

\* Nor does it matter that such columns are written.
LEMMA SameGood ==
  ASSUME NEW c, Good(c), NEW d, Same(c, d), d.it.step = c.it.step, d.it.last = c.it.last,
         d.it.status \in {c.it.status, "FAILED"}
  PROVE  Good(d) /\ (Over(c) => Over(d)) /\ (Quiet(c) => Quiet(d))
<1>1. /\ d.jobs = c.jobs /\ d.talk = c.talk
      /\ d.it.job = c.it.job /\ d.it.link = c.it.link /\ d.it.mode = c.it.mode
      /\ d.it.wait = c.it.wait /\ d.it.held = c.it.held /\ d.it.hold = c.it.hold
  BY DEF Same
<1>2. AllReady(d) /\ LinksTyped(d) /\ IsAuto(d.it)
  BY <1>1 DEF Good, AllReady, Ready, Has, LinksTyped, IsAuto
<1>3. OneStage(d) BY <1>1 DEF Good, OneStage
<1>4. Bound(d) BY <1>1 DEF Good, Bound, Upto
<1>5. Waits(d) /\ (IsHeld(d.it) => d.it.status \notin Active) BY <1>1 DEF Good, Waits, IsHeld, Active
<1>6. (Over(c) => Over(d)) /\ (Quiet(c) => Quiet(d)) BY <1>1 DEF Over, Quiet
<1> QED BY <1>2, <1>3, <1>4, <1>5, <1>6 DEF Good

\* The clip of a settled job.
LEMMA SettledLands ==
  ASSUME NEW c, Fine(c), Good(c), NoLoss => Served(c),
         NEW n \in 1..Len(c.jobs), c.jobs[n].status = "live",
         NEW out \in {"completed", "failed"}, NEW talk \in Talks,
         c.jobs[n].kind = "analyze_audio" \/ talk = c.talk, NEW ans
  PROVE  LET synced == SyncDownload(Ended(c, n, out, talk), n, out)
         IN Landed(IF FoundFor(synced, n) THEN Advanced(synced, n, out, ans) ELSE synced)
<1> DEFINE ended == Ended(c, n, out, talk)
           synced == SyncDownload(ended, n, out)
           e == IF FoundFor(synced, n) THEN Advanced(synced, n, out, ans) ELSE synced
<1>0. /\ Clip(c) /\ DOMAIN c.jobs = 1..Len(c.jobs) /\ "preview" \notin Stages /\ Len(c.jobs) \in Nat
      /\ "quality_review" \notin Stages /\ c.jobs[n].kind \in JobKinds
  BY JobsDomain, JobKnown, StageSet DEF Fine
<1>1. /\ Fine(ended) /\ Good(ended) /\ ended.it = c.it /\ Len(ended.jobs) = Len(c.jobs)
      /\ ended.jobs[n].status = out /\ ended.jobs[n].kind = c.jobs[n].kind
      /\ c.jobs[n].kind \in Stages \/ c.it.step \notin Stages => Over(ended)
      /\ Served(c) => Quiet(ended)
  BY EndedGood
<1> HIDE DEF ended
<1>2. /\ Same(ended, synced) /\ synced.it.step = ended.it.step /\ synced.it.last = ended.it.last
      /\ synced.it.status \in {ended.it.status, "FAILED"}
  BY <1>1, SyncDownloadSame DEF Fine
<1> HIDE DEF synced
<1>3. /\ Good(synced) /\ Clip(synced) /\ synced.bind = "no" /\ synced.jobs = ended.jobs
      /\ c.jobs[n].kind \in Stages \/ c.it.step \notin Stages => Over(synced)
      /\ Served(c) => Quiet(synced)
      /\ synced.it.job = c.it.job /\ synced.it.step = c.it.step /\ synced.it.link = c.it.link
  BY <1>1, <1>2, SameGood DEF Same, Fine
<1>4. Served(c) => c.it.job = n /\ c.it.step = StepOf(c.jobs[n].kind) BY <1>0 DEF Served
<1>5. ASSUME ~FoundFor(synced, n) PROVE Landed(e)
  <2>1. NoLoss => synced.it.status \notin Active BY <1>3, <1>4, <1>5 DEF FoundFor
  <2>2. NoLoss => Served(synced) BY <1>3, <2>1 DEF Served, Quiet
  <2> QED BY <1>3, <1>5, <2>2 DEF Landed
<1>6. ASSUME FoundFor(synced, n) PROVE Landed(e)
  <2>1. synced.it.status \in Active BY <1>6 DEF FoundFor
  <2>2. ~IsHeld(synced.it) BY <1>3, <2>1 DEF Good
  <2>3. ~synced.it.wait
    <3>1. synced.jobs # <<>> BY <1>0, <1>1, <1>3
    <3> QED BY <1>3, <3>1 DEF Good, Waits
  <2>4. Over(synced)
    <3>1. CASE c.jobs[n].kind \in Stages BY <1>3, <3>1
    <3>2. CASE c.jobs[n].kind \notin Stages
      <4>1. c.jobs[n].kind = "preview" BY <1>0, <3>2 DEF JobKinds
      <4>2. \A s \in Stages : synced.it.link[s] # n
        BY <1>0, <1>3, <4>1 DEF Good, LinksTyped
      <4>3. synced.it.job = n \/ synced.it.step = "quality_review" BY <1>6, <4>2 DEF FoundFor
      <4>4. synced.it.step \notin Stages
        BY <1>0, <1>3, <4>2, <4>3 DEF Good, Bound
      <4> QED BY <1>3, <4>4
    <3> QED BY <3>1, <3>2
  <2>5. Free(synced) BY <1>3, <2>2, <2>3, <2>4 DEF Free, Good
  <2>6. LET d == Advanced(synced, n, out, ans)
        IN /\ Noted(synced, d) \/ Moved(synced, d)
           /\ synced.it.step = StepOf(synced.jobs[n].kind) => Moved(synced, d)
    <3>1. n \in 1..Len(synced.jobs) /\ synced.jobs[n].status = out BY <1>1, <1>3
    <3> QED BY <1>3, <2>5, <3>1, AdvancedMoves
  <2>7. e = Advanced(synced, n, out, ans) BY <1>6
  <2> HIDE DEF e
  <2>8. CASE Moved(synced, e) BY <1>3, <2>5, <2>8, MovedLands
  <2>9. CASE ~Moved(synced, e)
    <3>1. Noted(synced, e) /\ ~NoLoss BY <1>1, <1>3, <1>4, <2>6, <2>7, <2>9
    <3>2. Good(e) /\ Free(e) BY <1>3, <2>5, <3>1, NotedGood
    <3> QED BY <3>1, <3>2 DEF Landed, Free
  <2> QED BY <2>8, <2>9
<1>7. Landed(e) BY <1>5, <1>6
<1> QED BY <1>7 DEF synced, ended

\* The repair finds nothing to do, or a clip whose job has ended.
LEMMA ReconciledLands ==
  ASSUME NEW c, Landed(c), c.bind = "no", NEW ans PROVE Landed(Reconciled(c, ans))
<1> DEFINE counted == c.it.status \in Active /\ IsAuto(c.it) /\ ~IsHeld(c.it) /\ ~c.it.wait
           n == IF counted /\ c.it.step \in Stages THEN AuthorityJob(c.it) ELSE 0
           d == Reconciled(c, ans)
<1>0. Clip(c) /\ Good(c) /\ (NoLoss => Served(c)) BY DEF Landed
<1>1. CASE n = 0 BY <1>1 DEF Reconciled
<1>2. CASE n # 0
  <2>1. counted /\ c.it.step \in Stages /\ n = c.it.job /\ n = c.it.link[c.it.step]
    BY <1>0, <1>2 DEF Good, Bound, AuthorityJob
  <2>2. d = IF c.jobs[n].status = "completed" THEN AdvanceAfterSuccess(c, n, ans)
            ELSE IF c.jobs[n].status \in Dead THEN Attention(c, FailedStep(c.jobs[n].kind)) ELSE c
    BY <1>2 DEF Reconciled
  <2>3. n \in 1..Len(c.jobs) /\ DOMAIN c.jobs = 1..Len(c.jobs)
    BY <1>0, <1>2, <2>1, JobsDomain, ClipParts, ItemParts DEF Links
  <2>4. c.jobs[n].kind = c.it.step BY <1>0, <1>2, <2>1 DEF Good, LinksTyped
  <2> HIDE DEF n, d
  <2>5. CASE c.jobs[n].status = "completed" \/ c.jobs[n].status \in Dead
    <3>1. c.jobs[n].status # "live" BY <2>5 DEF Dead
    <3>2. ~NoLoss BY <1>0, <2>1, <3>1 DEF Served
    <3>3. Over(c) BY <1>0, <2>1, <3>1 DEF Good, OneStage, Over
    <3>4. Free(c) BY <1>0, <2>1, <3>2, <3>3 DEF Free, Good
    <3>5. d = c \/ Moved(c, d)
      <4>1. CASE c.jobs[n].status = "completed" BY <1>0, <2>2, <2>3, <3>4, <4>1, AdvanceMoves
      <4>2. CASE c.jobs[n].status \in Dead
        <5>1. d = Attention(c, FailedStep(c.jobs[n].kind)) BY <2>2, <4>2 DEF Dead
        <5>2. FailedStep(c.jobs[n].kind) \in Steps \cup {"render_preview"}
          BY <2>1, <2>4, StageSet DEF FailedStep, Steps
        <5> QED BY <1>0, <5>1, <5>2, AttentionStops DEF Moved
      <4> QED BY <2>5, <4>1, <4>2
    <3>6. Landed(d) BY <1>0, <3>4, <3>5, MovedLands
    <3> QED BY <3>6 DEF d
  <2>6. CASE ~(c.jobs[n].status = "completed" \/ c.jobs[n].status \in Dead)
    <3>1. Landed(d) BY <2>2, <2>6
    <3> QED BY <3>1 DEF d
  <2> QED BY <2>5, <2>6
<1> QED BY <1>1, <1>2
-----------------------------------------------------------------------------
\* A clip with no job gets its download or is refused.
LEMMA DownloadFirst ==
  ASSUME NEW mode \in AutoModes, NEW skip PROVE NextStep("none", mode, skip) = "download"
<1> DEFINE ahead == {k \in DOMAIN Order : /\ k > Rank("none") /\ k <= Rank(LastStep(mode))
                                          /\ ~(skip /\ Order[k] \in Dubbing)}
<1>1. DOMAIN Order = 1..6 /\ Order[1] = "download" /\ Rank("none") = 0 BY DEF Order, Rank
<1>2. Rank(LastStep(mode)) \in {4, 6} BY Ranks DEF LastStep
<1>3. "download" \notin Dubbing BY DEF Dubbing
<1>4. 1 \in ahead /\ ahead \subseteq Nat /\ \A k \in ahead : 1 <= k BY <1>1, <1>2, <1>3
<1> HIDE DEF ahead
<1>5. Min(ahead) \in ahead /\ Min(ahead) <= 1 BY <1>4, MinIn
<1>6. Min(ahead) = 1
  <2>1. Min(ahead) \in Nat /\ 1 <= Min(ahead) /\ Min(ahead) <= 1 BY <1>4, <1>5
  <2> QED BY <2>1
<1>7. NextStep("none", mode, skip) = Order[Min(ahead)] BY <1>4 DEF NextStep, ahead
<1> QED BY <1>1, <1>6, <1>7

\* A clip that enters the lane: its download is the first thing it gets.
LEMMA FreshLands ==
  ASSUME NEW c, Clip(c), c.jobs = <<>>, c.it.job = 0, c.it.last = "none", c.it.step = "none",
         c.bind = "no", c.it.wait = FALSE, NEW mode \in AutoModes, NEW ans
  PROVE  Landed(SetAutomation(c, mode, ans))
<1> DEFINE start == Switched(c, mode)
           auto == Unheld(start)
           at == AtStep(auto, "download")
           e == EnsureDownload(at, ans)
<1>0. "download" \in Stages /\ "download" \in Steps /\ mode \in AutoModes \cup {"manual"}
      /\ "none" \notin Stages /\ c.it \in ItemType
  BY StageSet, ClipParts DEF Steps
<1>1. /\ Clip(start) /\ start.it.mode = mode /\ start.jobs = <<>> /\ start.it.job = 0
      /\ start.it.last = "none" /\ start.it.step = "none" /\ start.bind = "no" /\ start.it.wait = FALSE
  <2> DEFINE it == [c.it EXCEPT !.mode = mode]
  <2>1. Clip(start) BY <1>0, SwitchedServes
  <2>2. /\ it.mode = mode /\ it.job = 0 /\ it.last = "none" /\ it.step = "none" /\ it.wait = FALSE
    BY <1>0 DEF ItemType
  <2>3. start = [c EXCEPT !.it = it] BY DEF Switched
  <2> HIDE DEF it, start
  <2>4. start.it = it /\ start.jobs = c.jobs /\ start.bind = c.bind BY <2>3, OtherIt
  <2> QED BY <2>1, <2>2, <2>4
<1>2. SetAutomation(c, mode, ans) =
        LET next == NextStep(auto.it.last, mode, SkipDubbing(auto))
        IN IF HasLiveJob(auto) THEN auto
           ELSE IF auto.it.last = "analyze_audio" /\ Uncertain(auto) THEN AttentionHere(auto)
           ELSE IF auto.it.last = "none" /\ auto.it.step \in Stages
           THEN EnsureStep(auto, auto.it.step, ans)
           ELSE IF next = "none" THEN Finished(auto)
           ELSE EnsureStep(AtStep(auto, next), next, ans)
  BY DEF SetAutomation, Switched
<1> HIDE DEF start
<1>3. /\ Clip(auto) /\ auto.it.mode = mode /\ auto.jobs = <<>> /\ auto.it.job = 0
      /\ auto.it.last = "none" /\ auto.it.step = "none" /\ auto.bind = "no" /\ auto.it.wait = FALSE
      /\ ~IsHeld(auto.it)
  <2> DEFINE it == [start.it EXCEPT !.held = FALSE, !.hold = FALSE]
  <2>1. Clip(auto) BY <1>1, UnheldGrows DEF Grows
  <2>2. start.it \in ItemType BY <1>1, ClipParts
  <2>3. /\ it.mode = mode /\ it.job = 0 /\ it.last = "none" /\ it.step = "none" /\ it.wait = FALSE
        /\ ~it.held /\ ~it.hold
    BY <1>1, <2>2 DEF ItemType
  <2>4. auto = [start EXCEPT !.it = it] BY <1>1 DEF Unheld, Clip, ClipType
  <2> HIDE DEF it, auto
  <2>5. auto.it = it /\ auto.jobs = start.jobs /\ auto.bind = start.bind BY <1>1, <2>4, OtherIt
  <2> QED BY <1>1, <2>1, <2>3, <2>5 DEF IsHeld
<1>4. NextStep("none", mode, SkipDubbing(auto)) = "download" BY DownloadFirst
<1> HIDE DEF auto
<1>5. SetAutomation(c, mode, ans) = EnsureStep(at, "download", ans)
  BY <1>0, <1>2, <1>3, <1>4 DEF HasLiveJob
<1>6. Ensure(at, "download", ans) = e BY DEF Ensure
<1>7. Same(auto, at) /\ Clip(at) BY <1>0, <1>3, AtStepSame DEF Same
<1>8. at.jobs = <<>> /\ at.it.job = 0 /\ at.bind = "no" /\ at.it.wait = FALSE /\ at.it.mode = mode
      /\ ~IsHeld(at.it)
  BY <1>3, <1>7 DEF Same, IsHeld
<1> HIDE DEF at
<1>9. Starts(at, e, "download") BY <1>7, <1>8, DownloadStarts
<1>10. DOMAIN at.jobs = {} BY <1>8
<1> HIDE DEF e
<1>11. CatchUp(e, "download", ans) = e BY <1>0, <1>7, <1>9, <1>10, CatchUpRests
<1>12. SetAutomation(c, mode, ans) = e BY <1>5, <1>6, <1>11 DEF EnsureStep
<1>13. LinksTyped(at)
  <2>1. \A s \in Stages : at.it.link[s] = 0
    <3> TAKE s \in Stages
    <3>1. at.it.link[s] \in Nat /\ at.it.link[s] <= Len(at.jobs) BY <1>7, ClipParts, ItemParts DEF Links
    <3>2. Len(at.jobs) = 0 BY <1>8
    <3> QED BY <3>1, <3>2
  <2> QED BY <2>1 DEF LinksTyped
<1>14. Free(at) BY <1>7, <1>8, <1>10, <1>13 DEF Free, Over, Quiet, AllReady, IsAuto
<1>15. Ready(at, "download") /\ Upto(at, "download") BY <1>10 DEF Ready, Upto
<1> QED BY <1>0, <1>9, <1>12, <1>14, <1>15, OpenedLands, StoppedLands DEF Starts

\* The lane, looked at when no preview is left to link.
LEMMA AdmitLands ==
  ASSUME NEW db, \A i \in Items : Landed(db[i]) /\ db[i].bind = "no", NEW seat, NEW i \in Items
  PROVE  Landed(Admit(db, seat)[i])
<1> DEFINE fresh == Reconcile(db, Items, seat)
           f == fresh[i]
           s == Seated(f)
<1>0. \A j \in Items : Clip(db[j]) BY DEF Landed
<1>1. /\ f = Reconciled(db[i], seat) /\ Clip(f)
      /\ i \notin AdmissionPlan(fresh) => Admit(db, seat)[i] = f
      /\ i \in AdmissionPlan(fresh) =>
           f.it.wait /\ Admit(db, seat)[i] = SetAutomation(s, f.it.mode, seat)
  BY <1>0, AdmitParts
<1>2. Landed(f) BY <1>1, ReconciledLands
<1> HIDE DEF f, fresh, s
<1>3. CASE i \notin AdmissionPlan(fresh) BY <1>1, <1>2, <1>3
<1>4. CASE i \in AdmissionPlan(fresh)
  <2>1. /\ f.it.wait /\ f.jobs = <<>> /\ f.it.last = "none" /\ f.it.job = 0 /\ f.it.step = "none"
        /\ f.it.mode \in AutoModes /\ f.bind = "no"
    BY <1>1, <1>2, <1>4 DEF Landed, Good, Waits, Linkable, IsAuto
  <2>2. /\ Clip(s) /\ s.jobs = <<>> /\ s.it.last = "none" /\ s.it.job = 0 /\ s.it.step = "none"
        /\ s.bind = "no" /\ s.it.wait = FALSE
    <3> DEFINE it == [f.it EXCEPT !.wait = FALSE]
    <3>1. Clip(s) BY <1>1, SeatedServes DEF s
    <3>2. f.it \in ItemType BY <1>1, ClipParts
    <3>3. it.wait = FALSE /\ it.last = f.it.last /\ it.job = f.it.job /\ it.step = f.it.step
      BY <3>2 DEF ItemType
    <3>4. s = [f EXCEPT !.it = it] BY DEF s, Seated
    <3> HIDE DEF it
    <3> QED BY <1>1, <2>1, <3>1, <3>3, <3>4, OtherIt
  <2>3. Landed(SetAutomation(s, f.it.mode, seat)) BY <2>1, <2>2, FreshLands
  <2> QED BY <1>1, <1>4, <2>3
<1> QED BY <1>3, <1>4

\* The clips handed to the lane at the start.
LEMMA HandedLands ==
  ASSUME NEW mode \in AutoModes, NEW i \in Items
  PROVE  Landed(Handed(mode)[i]) /\ Handed(mode)[i].bind = "no"
<1> DEFINE c == [NewClip EXCEPT !.it.started = TRUE]
           parked == [NewClip EXCEPT !.it = [@ EXCEPT !.mode = mode, !.wait = TRUE]]
<1>1. Handed(mode)[i] = IF i <= Limit THEN SetAutomation(c, mode, "ok") ELSE parked
  BY DEF Handed
<1>2. Handed(mode)[i].bind = "no" /\ Clip(Handed(mode)[i]) BY HandedFine DEF Fine
<1>3. Landed(SetAutomation(c, mode, "ok"))
  <2>1. Clip(c) BY NewFine, StartedGrows DEF Fine, Grows
  <2>2. /\ c.jobs = <<>> /\ c.it.job = 0 /\ c.it.last = "none" /\ c.it.step = "none"
        /\ c.bind = "no" /\ c.it.wait = FALSE
    BY DEF NewClip, NewItem
  <2> HIDE DEF c
  <2> QED BY <2>1, <2>2, FreshLands
<1>4. ASSUME ~(i <= Limit) PROVE Landed(parked)
  <2>1. /\ parked.jobs = <<>> /\ parked.it.job = 0 /\ parked.it.last = "none"
        /\ parked.it.step = "none" /\ parked.bind = "no" /\ parked.it.wait = TRUE
        /\ parked.it.mode = mode /\ ~IsHeld(parked.it) /\ \A s \in Stages : parked.it.link[s] = 0
    BY DEF NewClip, NewItem, IsHeld
  <2>2. Clip(parked) BY <1>1, <1>2, <1>4
  <2> HIDE DEF parked
  <2>3. DOMAIN parked.jobs = {} /\ "none" \notin Stages BY <2>1, StageSet
  <2>4. AllReady(parked) /\ LinksTyped(parked) /\ OneStage(parked) /\ Bound(parked) /\ Waits(parked)
    BY <2>1, <2>3 DEF AllReady, LinksTyped, OneStage, Bound, Waits
  <2>5. Good(parked) BY <2>1, <2>4 DEF Good, IsAuto
  <2>6. Served(parked) BY <2>1, <2>3 DEF Served
  <2> QED BY <2>1, <2>2, <2>5, <2>6 DEF Landed
<1> QED BY <1>1, <1>2, <1>3, <1>4
-----------------------------------------------------------------------------
\* One worker, or transactions that do not overlap, and no operator.
AutoLane == OneAtATime /\ Operators = {}

\* What a worker at work can rely on.
TaskGood(w) ==
  LET t == task[w]
      c == clips[t.item]
  IN /\ pc[w] = "busy" =>
          /\ c.jobs[t.job].status = "live"
          /\ c.jobs[t.job].kind = "analyze_audio" \/ t.talk = c.talk
     /\ pc[w] = "bind" =>
          /\ c.jobs[t.job].kind = "preview" /\ Over(c) /\ ~IsHeld(c.it) /\ ~c.it.wait
          /\ NoLoss => \A n \in DOMAIN c.jobs : c.jobs[n].status = "live" => n = t.job

\* A clip that is not served is the one whose preview a worker is about to link.
Attended(i) == Served(clips[i]) \/ \E w \in Workers : pc[w] = "bind" /\ task[w].item = i

\* The invariant: clips good between transactions, and workers that found them so.
LaneInv ==
  /\ SerialInv
  /\ \A i \in Items : Good(clips[i])
  /\ \A w \in Workers : TaskGood(w)
  /\ NoLoss => \A i \in Items : Attended(i)

\* What a step of the only worker at work has to show.
LEMMA OneWorkerSteps ==
  ASSUME AutoLane, LaneInv, SerialInv', NEW w \in Workers, pc[w] # "idle" \/ pc'[w] # "idle",
         Alone(w), TaskGood(w)', \A i \in Items : Good(clips'[i]),
         NoLoss => \A i \in Items : Attended(i)'
  PROVE  LaneInv'
<1>1. \A x \in Actors : x # w => pc'[x] = "idle"
  <2>0. w \in Actors BY ActorsApart
  <2> SUFFICES ASSUME NEW x \in Actors, x # w PROVE pc'[x] = "idle" OBVIOUS
  <2>1. CASE pc[w] # "idle" BY <2>0, <2>1 DEF LaneInv, SerialInv, SoleOpen, Alone
  <2>2. CASE pc'[w] # "idle" BY <2>0, <2>2 DEF SerialInv, SoleOpen
  <2> QED BY <2>1, <2>2
<1>2. \A x \in Workers : x # w => TaskGood(x)' BY <1>1, ActorsApart DEF TaskGood
<1> QED BY <1>2 DEF LaneInv

\* The steps of a worker, one by one.
LEMMA LaneBegin ==
  ASSUME AutoLane, LaneInv, SerialInv', NEW w \in Workers, Begin(w) PROVE LaneInv'
<1>0. w \in Actors BY ActorsApart
<1>8. PICK i \in Items : \E n \in DOMAIN clips[i].jobs :
        LET kind == clips[i].jobs[n].kind
        IN /\ pc[w] = "idle"
           /\ clips[i].jobs[n].status = "live"
           /\ \E out \in Outcomes(kind),
                 talk \in IF kind = "analyze_audio" THEN Dialogues ELSE {clips[i].talk},
                 ans \in Answers \cap Replies(kind),
                 seat \in Answers \cap {"ok", "refused", "fresh", "ocr_review", "preview",
                                       "blocked"} :
                Enter(w, [NoTask EXCEPT !.act = out, !.item = i, !.job = n, !.talk = talk,
                                        !.ans = ans, !.seat = seat])
           /\ UNCHANGED <<clips, asked, lost>>
  BY DEF Begin
<1>1. PICK n \in DOMAIN clips[i].jobs :
        /\ pc[w] = "idle" /\ clips[i].jobs[n].status = "live" /\ clips' = clips
        /\ \E talk \in IF clips[i].jobs[n].kind = "analyze_audio" THEN Dialogues ELSE {clips[i].talk} :
           \E out, ans, seat :
             Enter(w, [NoTask EXCEPT !.act = out, !.item = i, !.job = n, !.talk = talk,
                                     !.ans = ans, !.seat = seat])
  BY <1>8
<1>2. PICK talk \in IF clips[i].jobs[n].kind = "analyze_audio" THEN Dialogues ELSE {clips[i].talk} :
        \E out, ans, seat :
          Enter(w, [NoTask EXCEPT !.act = out, !.item = i, !.job = n, !.talk = talk,
                                  !.ans = ans, !.seat = seat])
  BY <1>1
<1>3. PICK t : t.item = i /\ t.job = n /\ t.talk = talk /\ Enter(w, t)
  BY <1>2 DEF NoTask
<1>4. Alone(w) /\ pc'[w] = "busy" /\ task'[w] = t
  BY <1>0, <1>3 DEF Enter, Alone, LaneInv, SerialInv, ReupInv, Typed
<1>5. TaskGood(w)' BY <1>1, <1>3, <1>4 DEF TaskGood
<1>6. NoLoss => \A j \in Items : Attended(j)'
  <2>1. \A x \in Actors : pc[x] = "idle" BY <1>0, <1>1, <1>3 DEF AutoLane, OneAtATime, Enter
  <2>2. NoLoss => \A j \in Items : Served(clips[j]) BY <2>1, ActorsApart DEF LaneInv, Attended
  <2> QED BY <1>1, <2>2 DEF Attended
<1>7. \A j \in Items : Good(clips'[j]) BY <1>1 DEF LaneInv
<1> QED BY <1>4, <1>5, <1>6, <1>7, OneWorkerSteps

\* The two ways a transaction commits.
LEMMA CommitOutcome ==
  ASSUME SerialInv, NEW w \in Workers, pc[w] # "idle", NEW t, DOMAIN t = DOMAIN NoTask,
         NEW db, Commit(w, t, db), \A i \in Items : Clip(db[i])
  PROVE  \/ Leave(w) /\ \A i \in Items : db[i].bind = "no" /\ clips'[i] = db[i]
         \/ \E i \in Items : \E x :
              /\ db[i].bind # "no" /\ Halfway(w, x) /\ x.item = i /\ x.job = Len(db[i].jobs)
              /\ clips'[i] = [db[i] EXCEPT !.bind = "no"]
              /\ \A j \in Items \ {i} :
                   clips'[j] = IF db[j].bind = "no" THEN db[j] ELSE clips[j]
<1> DEFINE unlinked == {i \in Items : db[i].bind # "no"}
           i == Min(unlinked)
<1>0. w \in Actors BY ActorsApart
<1>u. \A j \in Items : db[j].bind = "no" => db[j] = [db[j] EXCEPT !.bind = "no"]
  BY DEF Clip, ClipType
<1>1. CASE unlinked = {}
  <2>1. Write(w, db) /\ Leave(w) BY <1>1 DEF Commit
  <2>2. \A j \in Items : clips'[j] = [db[j] EXCEPT !.bind = "no"] BY <1>0, <2>1, WriteNow
  <2>3. \A j \in Items : db[j].bind = "no" BY <1>1
  <2> QED BY <1>u, <2>1, <2>2, <2>3
<1>2. CASE unlinked # {}
  <2> DEFINE db2 == [j \in Items |-> IF j \in unlinked \ {i} THEN Seen(w)[j] ELSE db[j]]
             x == [t EXCEPT !.act = db[i].bind, !.item = i, !.job = Len(db[i].jobs),
                            !.tries = NextTries(t, db[i].it)]
  <2>1. Write(w, db2) /\ Halfway(w, x) BY <1>2 DEF Commit
  <2>2. i \in unlinked
    <3>1. unlinked \subseteq Nat BY DEF Items
    <3> HIDE DEF unlinked
    <3> QED BY <1>2, <3>1, MinIn
  <2>3. i \in Items /\ db[i].bind # "no" BY <2>2
  <2>4. x.item = i /\ x.job = Len(db[i].jobs)
    <3>1. {"act", "item", "job", "tries"} \subseteq DOMAIN t BY DEF NoTask
    <3> HIDE DEF i
    <3> QED BY <3>1
  <2>5. Seen(w) = clips BY <1>0, SeenNow
  <2>6. \A j \in Items : db2[j] = IF j # i /\ db[j].bind # "no" THEN clips[j] ELSE db[j]
    BY <2>5
  <2> HIDE DEF db2, x, i, unlinked
  <2>7. \A j \in Items : Clip(db2[j]) BY <2>6, ClipsAre DEF SerialInv
  <2>8. \A j \in Items : clips'[j] = [db2[j] EXCEPT !.bind = "no"] BY <1>0, <2>1, <2>7, WriteNow
  <2>9. \A j \in Items : [clips[j] EXCEPT !.bind = "no"] = clips[j]
    BY ClipsAre DEF SerialInv, Fine, Clip, ClipType
  <2>10. clips'[i] = [db[i] EXCEPT !.bind = "no"] BY <2>3, <2>6, <2>8
  <2>11. \A j \in Items \ {i} : clips'[j] = IF db[j].bind = "no" THEN db[j] ELSE clips[j]
    <3> TAKE j \in Items \ {i}
    <3>1. CASE db[j].bind = "no"
      <4>1. db2[j] = db[j] /\ db[j] = [db[j] EXCEPT !.bind = "no"] BY <1>u, <2>6, <3>1
      <4> QED BY <2>8, <3>1, <4>1
    <3>2. CASE db[j].bind # "no"
      <4>1. db2[j] = clips[j] BY <2>6, <3>2
      <4> QED BY <2>8, <2>9, <3>2, <4>1
    <3> QED BY <3>1, <3>2
  <2> QED BY <2>1, <2>3, <2>4, <2>10, <2>11
<1> QED BY <1>1, <1>2

\* The preview is linked: the mark that it is to be linked goes.
LEMMA UnboundGood ==
  ASSUME NEW c, Clip(c), Good(c)
  PROVE  LET d == [c EXCEPT !.bind = "no"] IN Good(d) /\ d.it = c.it /\ d.jobs = c.jobs
<1> DEFINE d == [c EXCEPT !.bind = "no"]
<1>1. d.it = c.it /\ d.jobs = c.jobs /\ d.talk = c.talk BY DEF Clip, ClipType
<1> HIDE DEF d
<1>2. AllReady(d) /\ LinksTyped(d) /\ OneStage(d)
  BY <1>1 DEF Good, AllReady, Ready, Has, LinksTyped, OneStage
<1>3. Bound(d) /\ Waits(d) BY <1>1 DEF Good, Bound, Upto, Waits
<1>4. Good(d) BY <1>1, <1>2, <1>3 DEF Good
<1> QED BY <1>1, <1>4 DEF d

LEMMA LaneCommit ==
  ASSUME AutoLane, LaneInv, SerialInv', NEW w \in Workers, pc[w] # "idle",
         NEW t, DOMAIN t = DOMAIN NoTask, NEW db, Commit(w, t, db), \A i \in Items : Landed(db[i]),
         NoLoss => \A i \in Items : db[i].bind # "no" => Served(clips[i])
  PROVE  LaneInv'
<1>0. w \in Actors /\ \A i \in Items : Clip(db[i]) BY ActorsApart DEF Landed
<1>1. CASE Leave(w) /\ \A i \in Items : db[i].bind = "no" /\ clips'[i] = db[i]
  <2>1. Alone(w) /\ pc'[w] = "idle"
    BY <1>0, <1>1 DEF Leave, Alone, LaneInv, SerialInv, ReupInv, Typed
  <2>2. \A i \in Items : Good(clips'[i]) /\ (NoLoss => Served(clips'[i])) BY <1>1 DEF Landed
  <2>3. TaskGood(w)' BY <2>1 DEF TaskGood
  <2>4. NoLoss => \A i \in Items : Attended(i)' BY <2>2 DEF Attended
  <2> QED BY <2>1, <2>2, <2>3, <2>4, OneWorkerSteps
<1>2. ASSUME NEW i \in Items, NEW x,
             /\ db[i].bind # "no" /\ Halfway(w, x) /\ x.item = i /\ x.job = Len(db[i].jobs)
             /\ clips'[i] = [db[i] EXCEPT !.bind = "no"]
             /\ \A j \in Items \ {i} :
                  clips'[j] = IF db[j].bind = "no" THEN db[j] ELSE clips[j]
      PROVE  LaneInv'
  <2>1. Alone(w) /\ pc'[w] = "bind" /\ task'[w] = x
    BY <1>0, <1>2 DEF Halfway, Alone, LaneInv, SerialInv, ReupInv, Typed
  <2>2. Good(clips'[i]) /\ clips'[i].it = db[i].it /\ clips'[i].jobs = db[i].jobs
    BY <1>0, <1>2, UnboundGood DEF Landed
  <2>3. Linkable(db[i]) BY <1>2 DEF Landed
  <2>4. TaskGood(w)'
    <3> DEFINE d == db[i]
    <3>1. /\ d.jobs[x.job].kind = "preview" /\ Over(d) /\ ~IsHeld(d.it) /\ ~d.it.wait
          /\ NoLoss => \A n \in DOMAIN d.jobs : d.jobs[n].status = "live" => n = x.job
      BY <1>2, <2>3 DEF Linkable
    <3>2. Over(clips'[i]) BY <2>2, <3>1 DEF Over
    <3> HIDE DEF d
    <3>3. clips'[i].jobs = d.jobs /\ clips'[i].it = d.it BY <2>2 DEF d
    <3>4. /\ clips'[i].jobs[x.job].kind = "preview" /\ ~IsHeld(clips'[i].it) /\ ~clips'[i].it.wait
          /\ NoLoss => \A n \in DOMAIN clips'[i].jobs : clips'[i].jobs[n].status = "live" => n = x.job
      BY <3>1, <3>3
    <3>5. x.item = i BY <1>2
    <3> QED BY <2>1, <3>2, <3>4, <3>5 DEF TaskGood
  <2>5. \A j \in Items \ {i} : Good(clips'[j]) /\ (NoLoss => Served(clips'[j]))
    BY <1>2 DEF Landed, LaneInv
  <2>6. \A j \in Items : Good(clips'[j]) BY <2>2, <2>5
  <2>7. NoLoss => \A j \in Items : Attended(j)' BY <1>2, <2>1, <2>5 DEF Attended
  <2> QED BY <2>1, <2>4, <2>6, <2>7, OneWorkerSteps
<1>3. \/ Leave(w) /\ \A i \in Items : db[i].bind = "no" /\ clips'[i] = db[i]
      \/ \E i \in Items : \E x :
           /\ db[i].bind # "no" /\ Halfway(w, x) /\ x.item = i /\ x.job = Len(db[i].jobs)
           /\ clips'[i] = [db[i] EXCEPT !.bind = "no"]
           /\ \A j \in Items \ {i} :
                clips'[j] = IF db[j].bind = "no" THEN db[j] ELSE clips[j]
  BY <1>0, CommitOutcome DEF LaneInv
<1> QED BY <1>1, <1>2, <1>3

LEMMA LaneSettle ==
  ASSUME AutoLane, LaneInv, SerialInv', NEW w \in Workers, SettleJob(w) PROVE LaneInv'
<1> DEFINE t == task[w]
           db == Settled(clips, t)
           db2 == IF ~(db[t.item].bind # "no") /\ LaneIsLookedAt(clips, t) THEN Admit(db, t.seat) ELSE db
           c == clips[t.item]
           talk == IF t.act = "completed" THEN t.talk ELSE c.talk
<1>0. w \in Actors /\ \A i \in Items : Fine(clips[i]) /\ Clip(clips[i]) /\ Good(clips[i])
  BY ActorsApart, ClipsAre DEF LaneInv, SerialInv
<1>1. /\ pc[w] = "busy" /\ t.item \in Items /\ t.job \in 1..Len(clips[t.item].jobs)
      /\ t.act \in {"completed", "failed"} /\ t.talk \in Talks
      /\ \A i \in Items : i # t.item => db[i] = clips[i]
      /\ Commit(w, t, db2)
  BY SettlementSerial DEF LaneInv
<1>2. DOMAIN t = DOMAIN NoTask BY <1>0, <1>1 DEF LaneInv, SerialInv, ReupInv, TaskFine
<1>3. /\ c.jobs[t.job].status = "live"
      /\ c.jobs[t.job].kind = "analyze_audio" \/ t.talk = c.talk
  BY <1>1 DEF LaneInv, TaskGood
<1>4. NoLoss => \A i \in Items : Served(clips[i])
  <2>1. \A x \in Workers : pc[x] # "bind"
    BY <1>0, <1>1, ActorsApart DEF LaneInv, SerialInv, SoleOpen
  <2> QED BY <2>1 DEF LaneInv, Attended
<1> HIDE DEF t
<1>5. Landed(db[t.item])
  <2>1. db[t.item] = LET synced == SyncDownload(Ended(c, t.job, t.act, talk), t.job, t.act)
                     IN IF FoundFor(synced, t.job) THEN Advanced(synced, t.job, t.act, t.ans) ELSE synced
    <3>1. DOMAIN clips = Items BY DEF LaneInv, SerialInv, ReupInv, Typed
    <3> QED BY <1>1, <3>1 DEF Settled, Ended
  <2>2. Fine(c) /\ Good(c) /\ (NoLoss => Served(c)) /\ c.talk \in Talks
    BY <1>0, <1>1, <1>4, ClipParts
  <2>3. talk \in Talks /\ (c.jobs[t.job].kind = "analyze_audio" \/ talk = c.talk)
    BY <1>1, <1>3, <2>2
  <2>4. t.job \in 1..Len(c.jobs) BY <1>1
  <2>5. t.act \in {"completed", "failed"} /\ c.jobs[t.job].status = "live" BY <1>1, <1>3
  <2> HIDE DEF c, talk, db
  <2>6. LET synced == SyncDownload(Ended(c, t.job, t.act, talk), t.job, t.act)
        IN Landed(IF FoundFor(synced, t.job) THEN Advanced(synced, t.job, t.act, t.ans) ELSE synced)
    BY <2>2, <2>3, <2>4, <2>5, SettledLands
  <2> QED BY <2>1, <2>6
<1> HIDE DEF db
<1>6. \A i \in Items : i # t.item => db[i].bind = "no" /\ Landed(db[i])
  BY <1>0, <1>1, <1>4 DEF Landed, Fine
<1>7. \A i \in Items : Landed(db[i]) BY <1>5, <1>6
<1>8. \A i \in Items : Landed(db2[i])
  <2>1. CASE ~(db[t.item].bind # "no") /\ LaneIsLookedAt(clips, t)
    <3>1. \A i \in Items : Landed(db[i]) /\ db[i].bind = "no" BY <1>6, <1>7, <2>1
    <3>2. \A i \in Items : Landed(Admit(db, t.seat)[i]) BY <3>1, AdmitLands
    <3> QED BY <2>1, <3>2
  <2>2. CASE ~(~(db[t.item].bind # "no") /\ LaneIsLookedAt(clips, t)) BY <1>7, <2>2
  <2> QED BY <2>1, <2>2
<1> HIDE DEF db2
<1> QED BY <1>1, <1>2, <1>4, <1>8, LaneCommit

LEMMA LaneLink ==
  ASSUME AutoLane, LaneInv, SerialInv', NEW w \in Workers, LinkPreview(w) PROVE LaneInv'
<1> DEFINE t == task[w]
           c == clips[t.item]
           d == BindPreview(c, t.job, t.act, t.tries)
           linked == [clips EXCEPT ![t.item] = BindPreview(@, t.job, t.act, t.tries)]
           db == Admit(linked, t.seat)
<1>0. w \in Actors /\ \A i \in Items : Fine(clips[i]) /\ Clip(clips[i]) /\ Good(clips[i])
  BY ActorsApart, ClipsAre DEF LaneInv, SerialInv
<1>1. pc[w] = "bind" /\ w \notin Operators /\ Commit(w, t, db) BY ActorsApart DEF LinkPreview
<1>2. /\ DOMAIN t = DOMAIN NoTask /\ t.item \in Items /\ t.job \in 0..Len(clips[t.item].jobs)
      /\ t.act = "residual" => t.tries \in 0..2
  BY <1>0, <1>1 DEF LaneInv, SerialInv, ReupInv, TaskFine
<1>3. /\ c.jobs[t.job].kind = "preview" /\ Over(c) /\ ~IsHeld(c.it) /\ ~c.it.wait
      /\ NoLoss => \A n \in DOMAIN c.jobs : c.jobs[n].status = "live" => n = t.job
  BY <1>1 DEF LaneInv, TaskGood
<1>4. NoLoss => \A i \in Items : i # t.item => Served(clips[i])
  <2>1. \A x \in Workers : x # w => pc[x] = "idle"
    BY <1>0, <1>1, ActorsApart DEF LaneInv, SerialInv, SoleOpen
  <2> QED BY <2>1 DEF LaneInv, Attended
<1> HIDE DEF t
<1>5. \A i \in Items : linked[i] = IF i = t.item THEN d ELSE clips[i]
  <2>1. DOMAIN clips = Items BY DEF LaneInv, SerialInv, ReupInv, Typed
  <2> QED BY <2>1
<1>6. /\ Fine(d) /\ d.jobs = c.jobs /\ d.it.mode = c.it.mode /\ d.it.wait = c.it.wait
      /\ d.it.last = c.it.last /\ d.it.step = "quality_review"
  <2>1. Fine(c) BY <1>0, <1>2
  <2> HIDE DEF c
  <2> QED BY <1>2, <2>1, BindPreviewFine DEF c
<1>7. d.talk = c.talk /\ d.it.job = t.job /\ d.it.link = c.it.link /\ ~IsHeld(d.it)
  <2> DEFINE it == [c.it EXCEPT !.job = t.job, !.step = "quality_review", !.status = "METADATA",
                                !.tries = IF t.act = "residual" THEN t.tries ELSE c.it.tries]
  <2>1. Clip(c) BY <1>0, <1>2
  <2>2. c.it \in ItemType BY <2>1, ClipParts
  <2>3. it.job = t.job /\ it.link = c.it.link /\ it.held = c.it.held /\ it.hold = c.it.hold
    BY <2>2 DEF ItemType
  <2>4. d = [c EXCEPT !.it = it] BY DEF BindPreview
  <2> HIDE DEF it, c, d
  <2>5. d.it = it /\ d.talk = c.talk BY <2>1, <2>4, OtherIt
  <2> QED BY <1>3, <2>3, <2>5 DEF IsHeld
<1>8. Good(c) /\ c.it.wait = FALSE /\ "quality_review" \notin Stages
  <2>1. Good(c) /\ c.it.wait \in BOOLEAN BY <1>0, <1>2, ClipParts, ItemParts
  <2> QED BY <1>3, <2>1, StageSet
<1> HIDE DEF c, d
<1>9. Landed(d)
  <2>1. AllReady(d) /\ LinksTyped(d) /\ IsAuto(d.it)
    BY <1>6, <1>7, <1>8 DEF Good, AllReady, Ready, Has, LinksTyped, IsAuto
  <2>2. OneStage(d) BY <1>3, <1>6 DEF Over, OneStage
  <2>3. Bound(d) BY <1>6, <1>8 DEF Bound
  <2>4. Waits(d) BY <1>6, <1>8 DEF Waits
  <2>5. Good(d) BY <1>7, <2>1, <2>2, <2>3, <2>4 DEF Good
  <2>6. NoLoss => Served(d) BY <1>3, <1>6, <1>7, <1>8 DEF Served, StepOf, Over
  <2> QED BY <1>6, <2>5, <2>6 DEF Landed, Fine
<1> HIDE DEF linked
<1>10. \A i \in Items : Landed(linked[i]) /\ linked[i].bind = "no"
  BY <1>0, <1>4, <1>5, <1>6, <1>9 DEF Landed, Fine
<1>11. \A i \in Items : Landed(db[i]) BY <1>10, AdmitLands
<1>12. db[t.item].bind = "no"
  <2> DEFINE fresh == Reconcile(linked, Items, t.seat)
  <2>1. \A i \in Items : Clip(linked[i]) BY <1>10 DEF Landed
  <2>2. /\ fresh[t.item] = Reconciled(linked[t.item], t.seat)
        /\ t.item \notin AdmissionPlan(fresh) => db[t.item] = fresh[t.item]
        /\ t.item \in AdmissionPlan(fresh) => fresh[t.item].it.wait
    BY <1>2, <2>1, AdmitParts
  <2> HIDE DEF fresh, db
  <2>3. linked[t.item] = d BY <1>2, <1>5
  <2>4. Reconciled(d, t.seat) = d BY <1>6, <1>8 DEF Reconciled
  <2> QED BY <1>2, <1>6, <1>8, <1>10, <2>2, <2>3, <2>4
<1> HIDE DEF db
<1>13. NoLoss => \A i \in Items : db[i].bind # "no" => Served(clips[i]) BY <1>4, <1>12
<1> QED BY <1>1, <1>2, <1>11, <1>13, LaneCommit

LEMMA LaneEnd ==
  ASSUME AutoLane, LaneInv, SerialInv', NEW i \in Items, EndSilently(i) PROVE LaneInv'
<1>0. /\ \A j \in Items : Fine(clips[j]) /\ Clip(clips[j]) /\ Good(clips[j])
      /\ DOMAIN clips = Items
  BY ClipsAre DEF LaneInv, SerialInv, ReupInv, Typed
<1> DEFINE c == clips[i]
<1>1. PICK n \in DOMAIN c.jobs, status \in Dead :
        /\ c.jobs[n].status = "live" /\ ~Settling(i, n) /\ lost < LossBound
        /\ clips' = [clips EXCEPT ![i].jobs[n].status = status]
        /\ UNCHANGED <<pc, task, view, asked>>
  BY DEF EndSilently
<1> DEFINE d == [c EXCEPT !.jobs[n].status = status]
<1>2. ~NoLoss
  <2>1. lost \in 0..LossBound BY DEF LaneInv, SerialInv, ReupInv, Typed
  <2> QED BY <1>1, <2>1, ReupAssumption DEF NoLoss
<1>3. clips'[i] = d /\ \A j \in Items \ {i} : clips'[j] = clips[j] BY <1>0, <1>1
<1>4. /\ n \in 1..Len(c.jobs) /\ status \in {"completed", "failed", "cancelled"} /\ status \in JobStates
      /\ c.talk \in Talks /\ Fine(c) /\ Good(c)
  BY <1>0, <1>1, JobsDomain, ClipParts DEF Dead, JobStates
<1> HIDE DEF c
<1>5. d = Ended(c, n, status, c.talk) BY <1>4, EndedOnlyFine
<1> HIDE DEF d
<1>6. /\ Good(d) /\ d.it = c.it
      /\ \A m \in DOMAIN d.jobs : m \in DOMAIN c.jobs /\ d.jobs[m].kind = c.jobs[m].kind
      /\ \A m \in DOMAIN d.jobs : d.jobs[m].status = "live" => c.jobs[m].status = "live" /\ m # n
      /\ Len(d.jobs) = Len(c.jobs)
  BY <1>1, <1>4, <1>5, EndedGood
<1>7. Over(c) => Over(d) BY <1>6 DEF Over
<1>8. d.talk = c.talk /\ \A m \in DOMAIN c.jobs : m # n => d.jobs[m] = c.jobs[m]
  BY <1>0, <1>4, <1>5 DEF Ended, Fine, Clip, ClipType
<1>9. \A j \in Items : Good(clips'[j]) BY <1>0, <1>3, <1>6
<1>10. ASSUME NEW w \in Workers PROVE TaskGood(w)'
  <2> DEFINE t == task[w]
  <2>0. task' = task /\ pc' = pc /\ TaskGood(w) BY <1>1 DEF LaneInv
  <2>1. pc[w] # "idle" => t.item \in Items /\ t.job \in 1..Len(clips[t.item].jobs)
    <3>1. TaskFine(w) /\ \A j \in Items : Len(clips[j].jobs) \in Nat
      BY <1>0, ActorsApart, ClipParts DEF LaneInv, SerialInv, ReupInv
    <3> QED BY <3>1, ActorsApart DEF TaskFine
  <2>2. CASE pc[w] = "idle" BY <2>0, <2>2 DEF TaskGood
  <2>3. CASE pc[w] # "idle" /\ t.item # i
    <3>1. clips'[t.item] = clips[t.item] BY <1>3, <2>1, <2>3
    <3> QED BY <2>0, <3>1 DEF TaskGood
  <2>4. CASE pc[w] = "busy" /\ t.item = i
    <3>1. t.job # n BY <1>1, <2>4 DEF Settling
    <3>2. t.job \in DOMAIN c.jobs BY <1>0, <2>1, <2>4, JobsDomain DEF c
    <3>3. d.jobs[t.job] = c.jobs[t.job] /\ d.talk = c.talk BY <1>8, <3>1, <3>2
    <3>4. c.jobs[t.job].status = "live" /\ (c.jobs[t.job].kind = "analyze_audio" \/ t.talk = c.talk)
      BY <2>0, <2>4 DEF TaskGood, c
    <3> QED BY <1>3, <2>0, <2>4, <3>3, <3>4 DEF TaskGood
  <2>5. CASE pc[w] = "bind" /\ t.item = i
    <3>1. c.jobs[t.job].kind = "preview" /\ Over(c) /\ ~IsHeld(c.it) /\ ~c.it.wait
      BY <2>0, <2>5 DEF TaskGood, c
    <3>2. t.job \in DOMAIN d.jobs
      <4>1. Clip(d) BY <1>4, <1>5, EndedFine DEF Fine
      <4>2. DOMAIN d.jobs = 1..Len(d.jobs) BY <4>1, JobsDomain
      <4> QED BY <1>6, <2>1, <2>5, <4>2 DEF c
    <3>3. d.jobs[t.job].kind = "preview" BY <1>6, <3>1, <3>2
    <3> QED BY <1>2, <1>3, <1>6, <1>7, <2>0, <2>5, <3>1, <3>3 DEF TaskGood
  <2>6. pc[w] \in {"idle", "busy", "bind"} BY ActorsApart DEF LaneInv, SerialInv, ReupInv, Typed
  <2> QED BY <2>2, <2>3, <2>4, <2>5, <2>6
<1> QED BY <1>2, <1>9, <1>10 DEF LaneInv

LEMMA LaneDie ==
  ASSUME AutoLane, LaneInv, SerialInv', NEW w \in Workers, Die(w) PROVE LaneInv'
<1>0. w \in Actors BY ActorsApart
<1>1. pc[w] # "idle" /\ Leave(w) /\ clips' = clips /\ lost < LossBound BY DEF Die
<1>2. ~NoLoss
  <2>1. lost \in 0..LossBound BY DEF LaneInv, SerialInv, ReupInv, Typed
  <2> QED BY <1>1, <2>1, ReupAssumption DEF NoLoss
<1>3. Alone(w) /\ pc'[w] = "idle"
  BY <1>0, <1>1 DEF Leave, Alone, LaneInv, SerialInv, ReupInv, Typed
<1>4. TaskGood(w)' BY <1>3 DEF TaskGood
<1>5. \A i \in Items : Good(clips'[i]) BY <1>1 DEF LaneInv
<1> QED BY <1>1, <1>2, <1>3, <1>4, <1>5, OneWorkerSteps

LEMMA LaneNext ==
  ASSUME AutoLane, LaneInv, [Next]_vars PROVE LaneInv'
<1>0. SerialInv' BY SerialNext DEF AutoLane, LaneInv
<1>1. ASSUME NEW w \in Workers, WorkerStep(w) \/ Die(w) PROVE LaneInv'
  BY <1>0, <1>1, LaneBegin, LaneSettle, LaneLink, LaneDie DEF WorkerStep
<1>2. ASSUME NEW i \in Items, EndSilently(i) \/ Clarify(i) PROVE LaneInv'
  <2>1. ~Clarify(i) BY DEF Clarify, AutoLane
  <2> QED BY <1>0, <1>2, <2>1, LaneEnd
<1>3. CASE Next BY <1>1, <1>2, <1>3 DEF Next, AutoLane
<1>4. CASE UNCHANGED vars
  <2>1. clips' = clips /\ pc' = pc /\ task' = task BY <1>4 DEF vars
  <2>2. \A w \in Workers : TaskGood(w)' BY <2>1 DEF LaneInv, TaskGood
  <2>3. NoLoss => \A i \in Items : Attended(i)' BY <2>1 DEF LaneInv, Attended
  <2>4. \A i \in Items : Good(clips'[i]) BY <2>1 DEF LaneInv
  <2> QED BY <1>0, <2>2, <2>3, <2>4 DEF LaneInv
<1> QED BY <1>3, <1>4

LEMMA LaneStarts == ASSUME LaneInit PROVE LaneInv
<1>1. PICK mode \in Modes \cap AutoModes : Start(Handed(mode)) BY DEF LaneInit
<1>2. \A i \in Items : Landed(clips[i]) /\ clips[i].bind = "no" BY <1>1, HandedLands DEF Start
<1>3. \A w \in Workers : TaskGood(w) BY <1>1, ActorsApart DEF Start, TaskGood
<1> QED BY <1>2, <1>3, SerialInit DEF LaneInv, Landed, Attended

LEMMA LaneInvariant == ASSUME AutoLane PROVE LaneSpec => []LaneInv
<1>1. LaneInv /\ [Next]_vars => LaneInv' BY LaneNext
<1>2. LaneInit => LaneInv BY LaneStarts
<1> QED BY <1>1, <1>2, PTL DEF LaneSpec

-----------------------------------------------------------------------------
\* A stage is started when what it reads has been produced: get_next_pipeline_step and
\* the callbacks skip no stage that is needed, whatever fails, is refused, remediated,
\* repaired or lost.
THEOREM InputsAlwaysReady == ASSUME AutoLane PROVE LaneSpec => []InputsReady
<1>1. LaneInv => InputsReady
  <2> SUFFICES ASSUME LaneInv, NEW i \in Items
               PROVE  /\ Started(i, "analyze_audio") => Done(i, "download")
                      /\ Started(i, "translate") => Done(i, "analyze_audio")
                      /\ Started(i, "tts") => Done(i, "translate")
                      /\ Started(i, "ocr") => Done(i, "analyze_audio")
                                              /\ (clips[i].talk = "speech" => Done(i, "tts"))
                      /\ Started(i, "render") => Done(i, "ocr")
    BY DEF InputsReady
  <2>1. \A kind : Started(i, kind) => Ready(clips[i], kind) BY DEF LaneInv, Good, AllReady, Started
  <2>2. \A kind : Has(clips[i], kind) => Done(i, kind) BY DEF Has, Done
  <2> QED BY <2>1, <2>2 DEF Ready
<1> QED BY <1>1, LaneInvariant, PTL

\* No stage of a clip runs twice at once: create_job and the _ensure_ functions find the
\* live job or none is there, and the repair of a clip does not double its callback.
THEOREM StagesRunAlone == ASSUME AutoLane PROVE LaneSpec => []OneLiveJob
<1>1. LaneInv => OneLiveJob
  <2> SUFFICES ASSUME LaneInv, NEW i \in Items, NEW kind \in Stages
               PROVE  Cardinality(LiveJobs(clips[i], kind)) <= 1
    BY DEF OneLiveJob
  <2>1. LiveJobs(clips[i], kind) \subseteq {clips[i].it.job}
    BY DEF LaneInv, Good, OneStage, LiveJobs
  <2>2. IsFiniteSet({clips[i].it.job}) /\ Cardinality({clips[i].it.job}) = 1 BY FS_Singleton
  <2> QED BY <2>1, <2>2, FS_Subset
<1> QED BY <1>1, LaneInvariant, PTL

\* A clip that holds a slot has a job at work, or a worker in the middle of its callback.
\* Without losses only: a cancelled or stale job never calls on_job_completed, and its
\* clip stays until the next repair; so does one whose worker dies before it links a preview.
THEOREM NoneStranded == ASSUME AutoLane, NoLoss PROVE LaneSpec => []NothingStranded
<1>1. LaneInv => NothingStranded
  <2> SUFFICES ASSUME LaneInv, NEW i \in Items, InFlight(clips[i].it), ~IsHeld(clips[i].it)
               PROVE  \/ \E n \in DOMAIN clips[i].jobs : clips[i].jobs[n].status = "live"
                      \/ \E a \in Actors : pc[a] # "idle" /\ task[a].item = i
    BY DEF NothingStranded
  <2>1. CASE \E w \in Workers : pc[w] = "bind" /\ task[w].item = i BY <2>1, ActorsApart
  <2>2. CASE Served(clips[i])
    <3>1. Clip(clips[i]) /\ Good(clips[i]) BY ClipsAre DEF LaneInv, SerialInv
    <3>2. clips[i].it.step \in Stages
      BY <3>1, ClipParts, ItemParts DEF InFlight, Good, Waits, Steps
    <3>3. clips[i].it.job # 0 BY <3>1, <3>2 DEF Good, Bound
    <3>4. clips[i].it.job \in DOMAIN clips[i].jobs
      BY <3>1, <3>3, JobsDomain, ClipParts, ItemParts DEF Links
    <3> QED BY <2>2, <3>2, <3>4 DEF Served, InFlight
  <2> QED BY <2>1, <2>2 DEF LaneInv, Attended
<1> QED BY <1>1, LaneInvariant, PTL

\* The callback of a live job finds the clip that waits for it: job_id and the links of
\* the metadata name it from its creation to its end, except in the second step that
\* links a preview, and there the worker at work does.
THEOREM CallbacksFind == ASSUME AutoLane, NoLoss PROVE LaneSpec => []CallbackFinds
<1>1. LaneInv => CallbackFinds
  BY ActorsApart DEF LaneInv, Attended, Served, CallbackFinds, FoundFor
<1> QED BY <1>1, LaneInvariant, PTL
=============================================================================
